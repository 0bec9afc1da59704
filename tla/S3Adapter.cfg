SPECIFICATION Spec
CONSTANTS
    MAX_ATTEMPTS = 3
    None = None
    Mine = Mine
    Other = Other
INVARIANTS
    AdapterTypeOK
    FailureBound
PROPERTIES
    ImplementsCall
    NeverReplaced
    CallEnds
