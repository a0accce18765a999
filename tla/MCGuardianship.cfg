CONSTANTS
    Guardians = {g1, g2}
    Secretaries = {k1, k2}
    MaxEdits = 2
SPECIFICATION Spec
CHECK_DEADLOCK FALSE
SYMMETRY Symmetric
INVARIANTS
    OnePrimary
