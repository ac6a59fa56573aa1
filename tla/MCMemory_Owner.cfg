CONSTANTS
    t1 = t1
    t2 = t2
    Threads = {t1, t2}
    MaxHeaps = 2
    MaxUnits = 6
    MapCount = 3
    MaxCalls = 4
    Counts = 3
    CacheLimit <- Limits
    GlobalLimit = 2
    ExitChunk = 2
    Sizes <- SomeSizes
    SystemPages = {4096, 16384, 65536}
    Places = {16, 17, 31}
SPECIFICATION MCSpec
INVARIANT OwnerSetsRemains
CHECK_DEADLOCK FALSE
