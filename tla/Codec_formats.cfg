SPECIFICATION Spec
CONSTANTS
    MaxChunk = 2
    MaxPlaintext = 3
    MaxChunks = 2
    MaxName = 1
    MaxCell = 4
INVARIANTS
    CodecInv
    WrittenIsRead
    AadBinds
CHECK_DEADLOCK FALSE
