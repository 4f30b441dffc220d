SPECIFICATION Spec
CONSTANTS
    p1 = p1
    p2 = p2
    Proc <- TwoProcs
    Final = Final
    NoInode = NoInode
    MaxFaults = 2
    MaxLosses = 1
SYMMETRY Alike
INVARIANTS
    KeyPairInv
    NoStrayKey
    ReportsHold
PROPERTIES
    KeysAreKept
CHECK_DEADLOCK FALSE
