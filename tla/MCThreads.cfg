CONSTANTS
    Threads = {t1, t2}
    Consumers = {c1}
    Quota = 2
    OffsetMod = 2
    MaxBulk = 2
    MaxPending = 2
    Lockers = {k1, k2, k3}
    Spins = 1
SPECIFICATION MCSpec
INVARIANTS
    OneOwner
    NothingMeansAllEmpty
    LockSound
PROPERTIES
    NoProducerStarves
