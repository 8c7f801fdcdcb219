SPECIFICATION FairSpec
CONSTANTS
    t1 = t1
    t2 = t2
    w1 = w1
    w2 = w2
    Trace <- MCTrace
    Process <- OneWriter
    MaxAppend = 4
    MaxCrash = 1
    MaxDamage = 2
INVARIANTS
    ReturnedKept
    DamageShows
PROPERTIES
    ImplementsAppendOnlyList
    AppendEnds
CHECK_DEADLOCK FALSE
