SPECIFICATION Spec
CONSTANTS
    p1 = p1
    p2 = p2
    k1 = k1
    k2 = k2
    k3 = k3
    d1 = d1
    Proc <- TwoProcs
    Key <- ThreeKeys
    Data <- OneData
    Dest = Dest
    Genesis = Genesis
    NoInode = NoInode
    MaxLen = 34
    EditedLens <- TextsAtLimit
    MaxFaults = 1
    MaxLosses = 1
SYMMETRY Alike
INVARIANTS
    RegistryInv
    AcknowledgedStays
    RefusedIsUnchanged
    RevocationPossible
PROPERTIES
    NoAuthorityRegainedInTurn
    CommandsInTurn
CHECK_DEADLOCK FALSE
