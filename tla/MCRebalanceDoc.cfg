SPECIFICATION RebalanceSpec
CONSTANTS
    RequiredCloses = 2
    Assets <- TwoAssets
    Rank <- Alphabetical
    HoldBelow = 2
    WatchBelow = 4
    HighAbove = 8
    RelativeFloor = 2
    RelativeWatch = 50
    RelativeHigh = 100
    CloseFraction = 50
    MaxStep = 4
    Overshoot = 2
    StableMandate = 15
    HardCap <- Caps
    Portfolios <- SamplePortfolios
    Mandates <- SampleMandates
    Requests <- SampleRequests
    MaxReviews = 3
    MaxDay = 2
PROPERTIES TurnsPersistAcrossCloses
CHECK_DEADLOCK FALSE
