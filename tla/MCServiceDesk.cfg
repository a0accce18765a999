CONSTANTS
    Users = {u1, u2}
    Roles = {"COORDINATOR"}
    Departments = {d1, d2}
    Sessions = {k1, k2}
    MaxInvitations = 1
    Requests = {t1}
    Sweeps = {w1, w2}
    MaxCycles = 2
SPECIFICATION Spec
CHECK_DEADLOCK FALSE
CONSTRAINT Either
SYMMETRY Symmetric
INVARIANTS
    AdministratorRemains
    OpenRequestsAttended
    ResolvedWasAnswered
    OverdueNoticedOnce
