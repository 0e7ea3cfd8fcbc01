SPECIFICATION LiveSpec
CONSTANTS
    j1 = j1
    j2 = j2
    Jobs <- MCJobs
    Lookups = {"refused"}
    MaxSilent = 1
    MaxFaults = 0
PROPERTIES
    RestartsSettleRows
