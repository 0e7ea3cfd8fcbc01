SPECIFICATION Spec
CONSTANTS
    home = home
    a = a
    b = b
    hidden = hidden
    elsewhere = elsewhere
    Urls <- MCUrls
    Seed = home
    OnHost <- MCOnHost
    Policies <- MCPolicies
    Links <- MCLinks
    Paths = {"index.html", "a", "hidden", "elsewhere"}
    LocalPath <- MCLocalPath
    MaxFaults = 0
INVARIANTS
    PodFinishesItsRow
CHECK_DEADLOCK FALSE
