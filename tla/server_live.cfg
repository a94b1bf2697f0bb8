SPECIFICATION FairSpec
CONSTANTS
    s1 = s1
    s2 = s2
    p1 = p1
    Session <- OneSession
    TunnelId = {1, 2}
    Port = {25565}
    UdpTaken = {}
    Protocol = {"both"}
    DbId = {7}
    Peer = {p1}
    MaxStream = 1
    Cap = 1
    RecvErrors = TRUE
INVARIANTS
    TcpListenerOwned
    UdpTaskOwned
PROPERTIES
    CloseTunnelCompletes
    DroppedPlayerEnds
    UdpRecordsDrain
