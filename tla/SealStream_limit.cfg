SPECIFICATION Spec
CONSTANTS
    ChunkSizes <- Sizes
    MaxInput = 7
    MaxChunks = 3
    MaxIndex = 4
INVARIANTS
    SealedWithinLimit
CHECK_DEADLOCK FALSE
