SPECIFICATION Spec
CONSTANTS
    Repos = {a, b}
    Hidden = {}
    PageSize = 1
    MaxChanges = 1
    DeepenAttempts = 1
    Before = {"none", "damaged"}
    RateNum = 1
    RateDen = 2
    MaxFaults = 2
    None = None
PROPERTY
    PrunedAreGone
