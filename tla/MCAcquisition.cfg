SPECIFICATION AcquisitionSpec
CONSTANTS
    btc = btc
    eth = eth
    sol = sol
    market = market
    venue1 = venue1
    venue2 = venue2
    Bitcoin = btc
    Market = market
    MaxDay = 2
    MaxRuns = 2
    MaxLag = 1
    Assets <- MCAssets
    Catalog <- MCCatalog
    SourceGroup <- MCSourceGroup
    Venues <- MCVenues
    Plans <- MCPlans
    ReviewTypes = {"SNAPSHOT_REVIEW", "EVENT_REVIEW"}
    Window <- MCWindow
    HostScans <- MCHostScans
    HostAnswers <- MCHostAnswers
    ResolverAnswers <- MCResolverAnswers
    Horizon = 1
    CandleCaches <- MCCandleCaches
INVARIANTS AcquisitionInvariant ReadyMeansEvidence ClearWasSeen
PROPERTIES OneCohort
CHECK_DEADLOCK FALSE
