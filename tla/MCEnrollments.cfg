CONSTANTS
    Students = {s1, s2}
    Classes = {c1, c2, c3}
    NextYear = {c3}
    Applications = {a1, a2, a3}
    Clerks = {k1, k2}
    Documents = {d1}
    Documented = {"INTERNAL_TRANSFER"}
    None = None
    MaxSeats = 1
    MaxResizes = 1
SPECIFICATION Spec
CHECK_DEADLOCK FALSE
SYMMETRY Symmetric
INVARIANTS
    TypeOK
    ReservationHonored
    OneActivePerYear
    OneOpenPerYear
    EnrolledHasBond
    EnrollmentHasDocuments
PROPERTIES
    SeatsNotOversold
    ImplementsBooking
