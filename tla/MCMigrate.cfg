SPECIFICATION Spec
CONSTANTS
    Source <- MCSource
    Existing <- MCExisting
    Slugs <- MCSlugs
    MaxId = 2
    MaxDraws = 2
    MaxDeletes = 1
INVARIANTS
    TypeOK
    FreshIds
PROPERTIES
    MigrationComplete
    Attribution
