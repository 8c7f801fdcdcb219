SPECIFICATION Spec
CONSTANTS
    c1 = c1
    c2 = c2
    n1 = n1
    n2 = n2
    Absent = Absent
    Torn = Torn
    Caller <- TwoCallers
    Id <- TwoIds
    Uuid <- MCUuid
    Time <- MCTime
    Text <- MCText
    Workload <- MCWorkload
INVARIANTS
    TypeOK
    UnreadableWasRefused
    ReadsBack
PROPERTIES
    ImplementsAtomicFiles
    ReturnedStays
SYMMETRY Symmetry
CHECK_DEADLOCK FALSE
