SPECIFICATION ReplaySpec
CONSTANTS
    MaxDepth = 5
    CautionAt = 1
    EmergencyAt = 2
    Budget = 3
    CautionCap = 90
    EmergencyCap = 60
    BreachCap = 25
    Stage1Cap = 40
    Stage2Cap = 60
    Stage1Reviews = 2
    Stage2Reviews = 3
    ReleaseReviews = 3
    WeightedModel = TRUE
    DomainWeight <- PolicyWeights
    DomainSeverity <- PolicySeverities
    NormalMax = 35
    DefensiveMax = 65
    Excluded <- NoDomains
    MaxNotches = 1
    ReassessAt = 1
    DefensiveAt = 1
    PreservationAt = 2
    DrawdownBudget = 3
    Modes = {"legacy_drawdown", "volatility_budget"}
    Markets <- SampleMarkets
    RiskyLevels = {0, 25, 85}
    MinStable = 15
    StableTarget <- PolicyStableTargets
    RecoveryReviews = 2
    RecoveryFloor = 25
INVARIANTS RecoveryMayReRisk
