SPECIFICATION LiveSpec
CONSTANTS
    MinRPS = 4
    MaxRPS = 20
    OneRPS = 6
    RampStreak = 3
    MaxRetryAfter = 4
    Second = 1
    DurationSpan = 256
    Token = 24
    ConfiguredRates <- MCConfiguredRates
    Ceilings = {4, 9, 30}
    RetryAfterSecs = {0, 2, 9}
    Horizon = 6
INVARIANTS
    TypeOK
    RateWithinCeiling
    FewLateSends
PROPERTIES
    CrawlDelaySpacing
    RetryAfterHonored
    BackOffNeverRaises
    GetReturns
    RecoversToCeiling
