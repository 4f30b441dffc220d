SPECIFICATION Spec
CONSTANTS
    a1 = a1
    a2 = a2
    a3 = a3
    s1 = s1
    s2 = s2
    Archive <- ThreeArchives
    Frames <- TheirFrames
    Key <- TwoKeys
    Unsealed <- NotSealed
    Junk = Junk
    MaxChanges = 2
SYMMETRY Alike
INVARIANTS
    SigningInv
    SignsInput
    NoFalseAlarm
CHECK_DEADLOCK FALSE
