CONSTANTS
    Payments = {p1, p2}
    MaxBillings = 4
    MaxAdHoc = 1
    LastDay = 2
    MaxRevisions = 3
    Counts = {1, 2}
    Values = {1}
    Amounts = {1, 2}
    Parts = {1, 2}
    Agreed = {0}
    LateFeeRate = 1
    InterestRate = 1
SPECIFICATION Spec
CHECK_DEADLOCK FALSE
CONSTRAINT Either
SYMMETRY Symmetric
INVARIANTS
    TypeOK
    PaidIsAllocated
    PaidWithinDebt
    PunctualPaysNoCharge
    InterestWithinDelay
    CancelledPaidWasRenegotiated
    InstallmentChargedOnce
    NothingLeftToMaterialize
PROPERTIES
    ReversalRestoresDebt
