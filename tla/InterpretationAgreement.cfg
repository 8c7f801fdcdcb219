SPECIFICATION Spec
CONSTANTS
    a1 = a1
    p1 = p1
    d1 = d1
    u1 = u1
    u2 = u2
    None = None
    Authority <- MCAuthority
    Provenance <- MCProvenance
    Uncertainty <- MCUncertainty
    Dependency <- MCDependency
    CanonicalObject <- MCObject
    Draft <- MCDraft
INVARIANTS
    AdmissionValidates
    ValidIsReadmitted
PROPERTIES
    OnlyHiddenFlawsAdmit
    WorseRecordsNeverValidate
