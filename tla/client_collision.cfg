SPECIFICATION Spec
CHECK_DEADLOCK FALSE
CONSTANTS
    s1 = s1
    s2 = s2
    Server = {s1, s2}
    Stream = {1}
    Udp = {}
    Capacity = 1
    Window = 2
    MaxData <- OnlyOnTcp
    MaxTunnels = 2
    MaxBreaks = 1
INVARIANTS
    OwnDataInOrder
