SPECIFICATION FairSpec
CHECK_DEADLOCK FALSE
CONSTRAINT Works
CONSTANTS
    row1 = row1
    Row = {row1}
    Server = {1, 2}
    First = 1
    Place <- Places
    Start <- OnFirst
    Tid = {1, 2, 3, 4, 5, 6, 7, 8}
    MaxEdits = 1
    MaxBreaks = 1
INVARIANTS
    TypeOK
    AddressKnown
PROPERTIES
    RemovedRowForgotten
    ServerComesBack
    RowFollowed
