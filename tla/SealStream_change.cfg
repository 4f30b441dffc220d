SPECIFICATION Spec
CONSTANTS
    ChunkSizes <- Sizes
    MaxInput = 7
    MaxChunks = 3
    MaxIndex = 4
INVARIANTS
    StreamInv
    NoncesAreUnique
    GrowthIsNoticed
    GrowingWithinLimit
PROPERTIES
    Terminates
CHECK_DEADLOCK FALSE
