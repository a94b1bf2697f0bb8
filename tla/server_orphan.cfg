SPECIFICATION Spec
CONSTANTS
    s1 = s1
    s2 = s2
    p1 = p1
    Session <- OneSession
    TunnelId = {1}
    Port = {25565}
    UdpTaken = {}
    Protocol = {"tcp"}
    DbId = {7}
    Peer = {p1}
    MaxStream = 1
    Cap = 2
    RecvErrors = FALSE
INVARIANT ClosedTunnelPurged
