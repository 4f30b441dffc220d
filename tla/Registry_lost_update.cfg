SPECIFICATION Spec
CONSTANTS
    p1 = p1
    p2 = p2
    k1 = k1
    k2 = k2
    k3 = k3
    d1 = d1
    Proc <- TwoProcs
    Key <- TwoKeys
    Data <- OneData
    Dest = Dest
    Genesis = Genesis
    NoInode = NoInode
    MaxLen = 34
    EditedLens <- TextsAtLimit
    MaxFaults = 0
    MaxLosses = 0
PROPERTIES
    NoAuthorityRegained
CHECK_DEADLOCK FALSE
