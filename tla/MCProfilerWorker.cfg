SPECIFICATION FairSpec
CONSTANTS
    FrameItems = 3
    BulkSize = 2
    MaxItems = 2
    MaxSessions = 2
INVARIANTS
    SocketUsable
    FreedOnceUnlessKept
    SentOnceAfterPayload
    FlushedBeforeTerminate
PROPERTIES
    OnlyFirstSessionServed
    
CHECK_DEADLOCK FALSE
