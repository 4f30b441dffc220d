SPECIFICATION MaterialSpec
CONSTANTS
    i1 = i1
    i2 = i2
    Inode <- TwoInodes
    NoInode = NoInode
    Maximum = 2
    MaxLen = 3
INVARIANTS
    MaterialInv
PROPERTIES
    Terminates
CHECK_DEADLOCK FALSE
