SPECIFICATION FairSpec
CONSTANTS
    Repos = {a, b, c}
    Hidden = {c}
    PageSize = 2
    MaxChanges = 1
    DeepenAttempts = 1
    Before = {"short", "damaged", "headless"}
    RateNum = 1
    RateDen = 2
    MaxFaults = 1
    None = None
INVARIANTS
    TypeOK
    OwedKept
    RefreshedIsWhole
    StatsPartition
    PublishedCovers
    Complete
PROPERTIES
    Converges
    FullCoverage
