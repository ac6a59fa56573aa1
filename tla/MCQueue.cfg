CONSTANTS
    Consumers = {c1, c2}
    BlockSize = 2
    InitialIndex = 2
    MaxBulk = 3
    MaxItems = 5
    MaxReserved = 6
    BulkMayFail = FALSE
    Adders = {a1, a2}
    Nodes = {n1, n2, n3}
    Null = null
    Enqueuers = {e1, e2, e3}
    InitialCapacity = 2
    MaxFailures = 1
    Queues = {q1, q2}
    Tokens = {k1, k2}
    Threads = {s1, s2}
    MaxLives = 5
SPECIFICATION MCSpec
INVARIANTS
    BlocksAccounted
    NodesAccounted
    OwnProducer
    NeverFull

    
CHECK_DEADLOCK FALSE
