SPECIFICATION FairSpec
CHECK_DEADLOCK FALSE
CONSTANTS
    s1 = s1
    s2 = s2
    Server = {s1}
    Stream = {1, 2}
    Udp = {2}
    Capacity = 1
    Window = 2
    MaxData <- OnlyOnTcp
    MaxTunnels = 2
    MaxBreaks = 1
INVARIANTS
    TypeOK
    OwnDataInOrder
    StreamsOwned
    EndIsTold
PROPERTIES
    DroppedStreamEnds
    UdpSessionEnds
