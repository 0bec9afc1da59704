SPECIFICATION FairSpec
CONSTANTS
    Data = {hourly}
    Meta = meta
    CycleIds = {1, 2, 3}
    Earlier = 2
    Retention = 1
    ClockStepsBack = TRUE
    MaxRuns = 3
    MaxFaults = 2
    None = None
    Bad = Bad
PROPERTIES
    ImplementsAtomicDataset
    MirrorConverges
    AttemptSucceeds
