CONSTANTS
    Consumers = {c1}
    BlockSize = 2
    InitialIndex = 2
    MaxBulk = 3
    MaxItems = 5
    MaxReserved = 6
    BulkMayFail = TRUE
SPECIFICATION Spec
INVARIANT EntryHasRoom
CHECK_DEADLOCK FALSE
