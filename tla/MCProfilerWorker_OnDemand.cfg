SPECIFICATION Spec
CONSTANTS
    FrameItems = 2
    BulkSize = 1
    MaxItems = 1
    MaxSessions = 2
INVARIANT
    NothingBeforeConnection
CHECK_DEADLOCK FALSE
