SPECIFICATION LifecycleSpec
CONSTANTS
    low = low
    high = high
    None = None
    Zones = {low, high}
    Plans <- MCPlans
    MaxReviews = 3
    MaxTrades = 3
    MaxTransfers = 1
CONSTRAINT UntilACause
INVARIANTS  LostClosuresAreProposedAgain
 
CHECK_DEADLOCK FALSE
