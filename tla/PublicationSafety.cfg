SPECIFICATION Spec
CONSTANTS
    Data = {hourly, commits}
    Meta = meta
    CycleIds = {1, 2, 3}
    Earlier = 2
    Retention = 2
    ClockStepsBack = TRUE
    MaxRuns = 3
    MaxFaults = 2
    None = None
    Bad = Bad
SYMMETRY DataSymmetry
INVARIANTS
    TypeOK
    PublishedMeansMirrored
    ProtocolInv
    RollbackRestores
    PruneBounds
PROPERTIES
    AuthorityKept
    MarkerFollowsData
    OnlySurplusDeleted
