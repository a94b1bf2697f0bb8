SPECIFICATION Spec
CONSTANTS
    a = a
    b = b
    c1 = c1
    c2 = c2
    Server <- Servers
    Query <- Queries
    Ttl = 2
    Grace = 1
    Every = 1
    Timeout = 1
    MaxTime = 4
INVARIANTS
    TypeOK
    OneUse
    RevokedStaysOut
    AnswerLeavesTime
    EntriesExpire
SYMMETRY Interchangeable
