SPECIFICATION FairSpec
CONSTANTS
    Task = {"data", "refuse", "connectFailed", "streamClose", "syncRemoves", "report", "cleanUp", "leave"}
PROPERTIES
    CleanUpCompletes
CHECK_DEADLOCK FALSE
