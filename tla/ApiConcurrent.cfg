SPECIFICATION ApiSpec
CONSTANTS
    p1 = p1
    p2 = p2
    t1 = t1
    Process <- TwoProcesses
    Trace <- OneTrace
    MaxAppend = 2
    MaxCrash = 0
    MaxDamage = 1
    Type <- TwoTypes
    TypeOrder <- MCTypeOrder
    Batch <- MCBatch
    Sources <- MCSources
    FirstSources <- MCFirstSources
    Command <- MCCommand
    MaxAttempt = 2
    MaxTrouble = 2
    MaxCall = 1
INVARIANTS
    ChainIntact
    RetriesLeavePrefixes
PROPERTIES
    QuietSnapshotIsExact
    SnapshotIsBracketed
    VerificationFindsDamage
    SoundSystemSnapshots
CONSTRAINT TwoDisturbances
SYMMETRY Symmetry
CHECK_DEADLOCK FALSE
