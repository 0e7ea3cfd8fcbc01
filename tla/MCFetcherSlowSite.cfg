SPECIFICATION Spec
CONSTANTS
    MinRPS = 4
    MaxRPS = 20
    OneRPS = 6
    RampStreak = 3
    MaxRetryAfter = 4
    Second = 1
    DurationSpan = 256
    Token = 24
    ConfiguredRates <- MCConfiguredRates
    Ceilings = {2}
    RetryAfterSecs = {0, 2, 9}
    Horizon = 12
PROPERTIES
    CrawlDelaySpacing
