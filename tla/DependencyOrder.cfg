SPECIFICATION Spec
CONSTANTS
    Object <- MCObject
    Dependency <- MCDependency
    Known <- MCKnown
    MaxRecords = 4
INVARIANTS
    TypeOK
    OrderIsLeast
    ValidIsSound
    CyclicExactly
CHECK_DEADLOCK FALSE
