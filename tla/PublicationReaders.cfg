SPECIFICATION ReaderSpec
CONSTANTS
    Data = {hourly}
    Meta = meta
    CycleIds = {1, 2, 3}
    Earlier = 2
    Retention = 2
    ClockStepsBack = TRUE
    MaxRuns = 2
    MaxFaults = 2
    None = None
    Bad = Bad
INVARIANTS
    ReaderTypeOK
    AcceptedIsWhole
    GraceInAttempts
