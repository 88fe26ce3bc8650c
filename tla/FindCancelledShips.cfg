SPECIFICATION Spec
CONSTANTS
    Requests = {r1, r2}
    Versions = {v1}
    NoVersion = NoVersion
    RequireW3DS = FALSE
    Events = {}
    MaxDeployments = 2
    MaxRecords = 0
    MaxCrashes = 0
CHECK_DEADLOCK FALSE
PROPERTY CancelledNeverShips
