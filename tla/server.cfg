SPECIFICATION Spec
CONSTANTS
    s1 = s1
    s2 = s2
    p1 = p1
    Session <- OneSession
    TunnelId = {1}
    Port = {22, 25565}
    UdpTaken = {}
    Protocol = {"tcp", "udp"}
    DbId = {7}
    Peer = {p1}
    MaxStream = 2
    Cap = 2
    RecvErrors = FALSE
INVARIANTS
    TypeOK
    StreamsOwned
    MapsAgree
    RegistryOwned
    DataAfterNewConnection
    TcpEndIsTold
