SPECIFICATION Spec
CONSTANTS
    t1 = t1
    t2 = t2
    w1 = w1
    w2 = w2
    Trace <- MCTrace
    Process <- TwoWriters
    MaxAppend = 2
    MaxCrash = 0
    MaxDamage = 0
PROPERTY AppendOnly
CHECK_DEADLOCK FALSE
