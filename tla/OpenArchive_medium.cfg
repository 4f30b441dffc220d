SPECIFICATION Spec
CONSTANTS
    even = even
    uneven = uneven
    empty = empty
    s1 = s1
    s2 = s2
    Archive <- ThreeArchives
    Lens <- TheirLens
    ChunkSize = 2
    MaxChunks = 3
    Signer <- TwoSigners
    Damaged = Damaged
    Unsealed <- NotSealed
SYMMETRY Alike
INVARIANTS
    RestoreInv
    SignatureCovers
    RevocationInTime
    NoFalseAlarm
PROPERTY ImplementsRestoration
CHECK_DEADLOCK FALSE
