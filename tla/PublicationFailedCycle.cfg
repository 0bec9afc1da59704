SPECIFICATION Spec
CONSTANTS
    Data = {hourly}
    Meta = meta
    CycleIds = {1, 2}
    Earlier = 1
    Retention = 2
    ClockStepsBack = FALSE
    MaxRuns = 2
    MaxFaults = 2
    None = None
    Bad = Bad
INVARIANTS
    FailedCycleNotLive
