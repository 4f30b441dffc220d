SPECIFICATION Spec
CONSTANTS
    p1 = p1
    p2 = p2
    t1 = t1
    t2 = t2
    Proc <- TwoProcs
    Temp <- TwoTemps
    Checked <- OneChecked
    Dest = Dest
    NoInode = NoInode
    MaxFaults = 2
    MaxLosses = 2
INVARIANTS
    TypeOK
    DestComplete
    OkIsDurable
    ReportHonest
    TempsAreOurs
PROPERTIES
    OutputIsWriteOnce
    RaceHasWinner
CHECK_DEADLOCK FALSE
