SPECIFICATION Spec
CONSTANTS
    j1 = j1
    j2 = j2
    Jobs <- MCJobs
    Lookups = {"served", "refused"}
    MaxSilent = 1
    MaxFaults = 1
INVARIANTS
    TypeOK
    OverlapNeedsManualOrDelete
    OpenRowWhileCrawling
    RunningMeansAtWork
PROPERTIES
    ReconcileSparesActiveJobs
    EachJobIsAProcess
