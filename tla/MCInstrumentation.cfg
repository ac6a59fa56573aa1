CONSTANTS
    Threads = {t1, t2}
    Tracer = t1
    MaxSessions = 2
    Shared = TRUE
    MaxZones = 2
    MaxFrames = 2
    QueryCount = 4
    MaxScopes = 2
    MaxQueries = 9
SPECIFICATION MCSpec
INVARIANTS
    AnnouncementKept
    PreciseUncontended
    ZonesBalanced
    FramesNotMissed
    
CHECK_DEADLOCK FALSE
