CONSTANTS
    ChunkCount = 3
    MaxFrames = 5
    QuadCount = 3
    GroupSize = 2
    WordMod = 32
    InitialCounts <- MCInitialCounts
    MaxDispatches = 2
    Width = 2
    Height = 1
    Depth = 2
    IndexMod = 40
    IntMod = 64
    SizeMod = 256
    ChunkCoords <- MCChunkCoords
    Files <- MCFiles
SPECIFICATION MCSpec
INVARIANTS
    DrawsPaired
    
    FrozenTogether
    ReleasedOnceUsedLive
    LateWordsIntact
    FinishedResult
    QuadsOwnTheirVertices
    SurvivorsByPlane
    WellFormedLoads
PROPERTY Returns
CHECK_DEADLOCK FALSE
