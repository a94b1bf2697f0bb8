SPECIFICATION FairSpec
CONSTANTS
    Frames <- SomeFrames
    LocalAddrs <- AnyLocal
    MaxPayload = 64
    Batch = 1
    Pieces = {7}
    MaxFrames = 2
INVARIANTS
    NoFrameRefused
    HeaderNamesPlayer
PROPERTIES
    ImplementsChannel
    EveryFrameArrives
CHECK_DEADLOCK FALSE
