SPECIFICATION LiveSpec
CONSTANTS
    home = home
    a = a
    b = b
    hidden = hidden
    elsewhere = elsewhere
    Urls <- MCUrls
    Seed = home
    OnHost <- MCOnHost
    Policies <- MCPolicies
    Links <- MCLinks
    Paths = {"index.html", "a", "hidden", "elsewhere"}
    LocalPath <- MCLocalPath
    MaxFaults = 1
INVARIANTS
    TypeOK
    InScope
    ProgressConsistent
    OkMeansComplete
    OkMirrorComplete
    ExitClosesRow
PROPERTIES
    FetchedOnce
    Terminates
    ExplorationSpec
    ProcessSpec
CHECK_DEADLOCK FALSE
