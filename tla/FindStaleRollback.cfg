SPECIFICATION HistorySpec
CONSTANTS
    Requests = {r1}
    Versions = {v1}
    NoVersion = NoVersion
    RequireW3DS = FALSE
    Events = {"cluster", "pull", "rollout"}
    MaxDeployments = 2
    MaxRecords = 0
    MaxCrashes = 0
CHECK_DEADLOCK FALSE
INVARIANT RolledBackFailed
