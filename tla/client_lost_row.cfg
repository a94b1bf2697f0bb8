SPECIFICATION Spec
CHECK_DEADLOCK FALSE
CONSTANTS
    row1 = row1
    Row = {row1}
    Server = {1, 2}
    First = 1
    Place <- Places
    Start <- OnFirst
    Tid = {1, 2, 3, 4, 5, 6, 7, 8}
    MaxEdits = 0
    MaxBreaks = 1
INVARIANTS
    OpenAsRecorded
