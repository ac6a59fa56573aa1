CONSTANTS
    FrameSize = 4
    MaxItem = 3
    Window = 6
    TinyDict = 1
    MaxBytes = 30
    MaxBlocks = 4
    MinMatch = 2
    LastLiterals = 1
    MfLimit = 3
    RunMask = 3
    ByteMax = 2
    OffsetLimit = 16
    GapLimit = 9
    SavedSizes = {3, 6}
    PatternFrom = 4
    ResetFrom = 12
    BufSize = 3
    Handshake = 2
    MaxLen = 4
    MaxSent = 10
SPECIFICATION MCSpec
INVARIANTS
    DictionaryPrecedesFrame
    RoundTrip
    ReadInOrder
PROPERTIES
    ImplementsStream
CHECK_DEADLOCK FALSE
