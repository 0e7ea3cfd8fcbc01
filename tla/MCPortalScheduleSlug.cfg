SPECIFICATION Spec
CONSTANTS
    h1 = h1
    h2 = h2
    s1 = s1
    s2 = s2
    i1 = i1
    i2 = i2
    daily = daily
    Handlers <- MCHandlers
    Slugs <- MCSlugs
    Ids <- MCIds
    Intervals <- MCIntervals
    MaxFaults = 0
    None = None
PROPERTIES
    SlugEditRemovesOldCronJob
