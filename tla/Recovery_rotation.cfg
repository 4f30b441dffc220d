SPECIFICATION Spec
CONSTANTS
    k1 = k1
    k2 = k2
    r1 = r1
    r2 = r2
    s1 = s1
    s2 = s2
    a1 = a1
    a2 = a2
    a3 = a3
    Kem <- Kems
    Root <- RootFiles
    Signing <- SigningPairs
    Archive <- ArchiveFiles
    MaxCommands = 3
INVARIANTS
    RecoveryInv
    KeptIsRecoverable
    RegisteredIsLocated
    AcceptedIsVetted
PROPERTIES
    DemoFinishes
CHECK_DEADLOCK FALSE
