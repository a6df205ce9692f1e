SPECIFICATION FairSpec
CONSTANTS
    Drivers = {d1, d2, d3}
    Unit = 2
    Rates <- MCRates
    DefaultRate = 2
    BurstSteps <- MCBurstSteps
    BaseBurst = 1
    Never = Never
    MaxUpdates = 1
    Horizon = 2
    MaxTime = 7
INVARIANTS RateBounded BurstBounded
PROPERTY TokenComes
CHECK_DEADLOCK FALSE
