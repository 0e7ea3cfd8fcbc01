SPECIFICATION Spec
CONSTANTS
    j1 = j1
    j2 = j2
    Jobs <- MCJobs
    Lookups = {"served", "refused"}
    MaxSilent = 0
    MaxFaults = 0
INVARIANTS
    NoOverlappingCrawls
