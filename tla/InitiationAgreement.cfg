SPECIFICATION Spec
CONSTANTS
    a1 = a1
    e1 = e1
    e2 = e2
    u1 = u1
    u2 = u2
    NoAuthority = NoAuthority
    Authority <- MCAuthority
    Evidence <- MCEvidence
    Uncertainty <- MCUncertainty
    Role <- MCRole
SYMMETRY RecordSymmetry
INVARIANTS
    EnginesAgree
    ProvisionalIsUnresolved
    FailuresAreFound
PROPERTY OnlyLostBlockersPromote
