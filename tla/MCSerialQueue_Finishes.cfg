SPECIFICATION FairSpec
CONSTANTS
    Threads = {t1, t2}
    Capacity = 1
    MaxAllocs = 2
PROPERTIES
    FinishesSending
CHECK_DEADLOCK FALSE
