SPECIFICATION FairSpec
CONSTANTS
    Threads = {t1, t2}
    Capacity = 1
    MaxAllocs = 3
INVARIANTS
    SentInOrder
    VectorsSound

    
CHECK_DEADLOCK FALSE
