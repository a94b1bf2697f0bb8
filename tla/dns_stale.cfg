SPECIFICATION Spec
CONSTANTS
    home = home
    other = other
    abroad = abroad
    client1 = client1
    Id = {1, 2}
    Server = {1, 2}
    First = 1
    Client = {client1}
    Request <- Requests
    Zone <- Zones
    Table <- OneRow
    MaxEdits = 3
    MaxFails = 1
INVARIANT EditsReachDns
