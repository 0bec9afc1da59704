SPECIFICATION FairSpec
CONSTANTS
    MaxCycles = 4
    MaxFaults = 3
    MaxSignals = 1
    Never = Never
INVARIANTS
    TypeOK
    CountsAgree
    FreshIsCommitted
    ReadyIsEarned
    ProbesAccounted
PROPERTY
    StopEnds
\* After MaxCycles attempts the loop stands at its head.
CHECK_DEADLOCK FALSE
