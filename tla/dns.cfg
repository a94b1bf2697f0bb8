SPECIFICATION FairSpec
CONSTANTS
    home = home
    other = other
    abroad = abroad
    client1 = client1
    Id = {1, 2}
    Server = {1, 2}
    First = 1
    Client = {client1}
    Request <- Requests
    Zone <- Zones
    Table <- OneRow
    MaxEdits = 2
    MaxFails = 2
INVARIANTS
    TypeOK
    DnsSetHolds
PROPERTIES
    EditPublished
    MappingFollows
