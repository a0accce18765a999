CONSTANTS
    Batches = {1, 2}
    Records = {"s1", "s2"}
    Origin <- MCOrigin
    Sessions = {k1, k2}
    MaxVersion = 3
    Classes = {1, 2}
    Teachers = {3}
    Rooms = {}
    Slots = {5, 6}
    Days = {d1, d2}
    Cells = {x1, x2}
    Planners = {k1, k2}
    LastWeek = 2
    Beginnings = {1}
    Endings = {2}
    LastTime = 3
    Lengths = {1}
    Managers = {k1, k2}
    Runs = {x1, x2}
    Contents = {d1, d2}
    People = {g1}
    MaxSaves = 6
    Children = {x1, x2}
    Answers = {d1, d2}
    Educators = {k1, k2}
    MaxSubmissions = 3
    Marks = {"PRESENT", "ABSENT"}
    Pupils = {1, 2}
    Markers = {k1, k2}
    MaxMarks = 3
SPECIFICATION DaySpec
CHECK_DEADLOCK FALSE
SYMMETRY Symmetric
INVARIANTS
    UndoTakesOnlyTheImport
    NoDoubleBooking
    PublishedAsDecided
    PublishedWasSubmitted
    NoMarkLost
