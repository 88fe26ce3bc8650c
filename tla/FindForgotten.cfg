SPECIFICATION FairSpec
CONSTANTS
    Requests = {r1}
    Versions = {v1}
    NoVersion = NoVersion
    RequireW3DS = FALSE
    Events = {"end", "timeout", "cluster"}
    MaxDeployments = 1
    MaxRecords = 0
    MaxCrashes = 1
CHECK_DEADLOCK FALSE
PROPERTY EverySettles
