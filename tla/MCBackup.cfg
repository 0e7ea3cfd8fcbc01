SPECIFICATION Spec
CONSTANTS
    c1 = c1
    c2 = c2
    Crawls <- MCCrawls
    Stamps <- MCStamps
    MaxEntries = 2
    KeepN = 2
    DefaultKeepN = 1
    Idle = Idle
SYMMETRY Symmetry
INVARIANTS
    TypeOK
    PublishedAtEnd
    NewestKept
PROPERTIES
    RetentionHolds
