CONSTANTS
    Students = {s1, s2}
    Classes = {c1, c2}
    Activities = {a1}
    Sessions = {k1, k2, k3}
    None = None
    MaxScore = 2
SPECIFICATION Spec
CHECK_DEADLOCK FALSE
SYMMETRY Symmetric
INVARIANTS
    LinesFollowRoster
PROPERTIES
    LaunchIsComplete
    LaunchedIsFrozen
