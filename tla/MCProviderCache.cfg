SPECIFICATION CacheSpec
CONSTANTS
    Session = {s1, s2}
    Day = 2
    History = 2
    Listed <- MCListed
    Ranges = {"PLANNED", "OPEN"}
    Ages = {0, 2}
    Horizon = 6
    MaxContents = 3
    MaxDamage = 1
    NoTime = NoTime
    None = None
    Ttl = 2
    PruneInterval = 2
    MaxTime = 3
    MaxMishaps = 1
    MaxJobs = 3
    MaxAttempts = 2
SYMMETRY MCSymmetry
INVARIANTS SeriesInvariant CacheAnswersAreComplete CacheInvariant
PROPERTIES CandlesAreLostInRaces LoneSessionLosesNothing
CHECK_DEADLOCK FALSE
