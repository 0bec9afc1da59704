SPECIFICATION Spec
CONSTANTS
    Repos = {r1, r2}
    Workers = {w1}
    System = System
    Nobody = Nobody
    Inferential = Inferential
    Kinds = {"closed", "claimed"}
    HourLen = 2
    Times = {0, 1, 2, 3}
    Start = 1
    End = 3
    Sizes = {3}
    TrimMax = 2
    Threshold = 1
    ShareNum = 2
    ShareDen = 3
    MaxCommits = 1
    MaxRecords = 4
SYMMETRY Symmetry
INVARIANTS
    TypeOK
    RepositoryIsComplete
    WorkersPartition
    AttributionBoundary
    BulkClosure
    ActiveWorkers
