SPECIFICATION AllocationSpec
CONSTANTS
    Satellites <- TwoSatellites
    Policy <- ShippedPolicy
    Regimes <- ShippedRegimes
    Settings <- ShippedChains
    Situations <- SampleSituations
    SatelliteViews <- SampleSatelliteViews
    CoreViews <- SampleCoreViews
    Evidence <- SampleEvidence
    Answers <- SampleAnswers
    Books <- SampleBooks
    MaxReviews = 2
    None = None
INVARIANTS TargetInvariant MissingEvidenceNeverSells UnusedBudgetIsBtc
PROPERTIES OnlyTheEntitledGrow
CHECK_DEADLOCK FALSE
