SPECIFICATION ReaderSpec
CONSTANTS
    Data = {hourly}
    Meta = meta
    CycleIds = {1, 2, 3, 4}
    Earlier = 1
    Retention = 3
    ClockStepsBack = FALSE
    MaxRuns = 3
    MaxFaults = 2
    None = None
    Bad = Bad
INVARIANTS
    GraceInCommits
