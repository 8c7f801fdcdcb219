SPECIFICATION Spec
CONSTANTS
    actor = actor
    evidence = evidence
    trace = trace
    id1 = id1
    id2 = id2
    id3 = id3
    b1 = b1
    b2 = b2
    w1 = w1
    w2 = w2
    Absent = Absent
    Damaged = Damaged
    SupportedType <- MCSupportedType
    OtherType <- MCOtherType
    EnvelopeId <- MCEnvelopeId
    Body <- MCBody
    Process <- TwoWriters
    Envelope <- FreshEnvelopes
    MaxStaged = 2
    MaxCrash = 1
    MaxDamage = 1
SYMMETRY WriterSymmetry
INVARIANTS
    TypeOK
    AcknowledgedStored
PROPERTIES
    ImplementsWriteOnceStore
CHECK_DEADLOCK FALSE
