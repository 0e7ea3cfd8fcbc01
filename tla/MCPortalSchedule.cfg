SPECIFICATION Spec
CONSTANTS
    h1 = h1
    h2 = h2
    s1 = s1
    s2 = s2
    i1 = i1
    i2 = i2
    daily = daily
    Handlers <- MCHandlers
    Slugs <- MCSlugs
    Ids <- MCIds
    Intervals <- MCIntervals
    MaxFaults = 1
    None = None
SYMMETRY Symmetry
INVARIANTS
    TypeOK
    SlugsUnique
    ScheduleInStep
