CONSTANTS
    Students = {s1, s2}
    Classes = {c1}
    Activities = {a1}
    Sessions = {k1}
    None = None
    MaxScore = 2
SPECIFICATION Spec
CHECK_DEADLOCK FALSE
INVARIANTS
    DraftsFollowRoster
