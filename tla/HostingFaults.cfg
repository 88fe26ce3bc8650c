SPECIFICATION PatientSpec
CONSTANTS
    Requests = {r1}
    Versions = {v1, v2}
    NoVersion = NoVersion
    RequireW3DS = TRUE
    Events = {"prepare", "dispatch", "publish", "send", "build", "forge", "end", "cancel", "pull", "timeout"}
    MaxDeployments = 1
    MaxRecords = 1
    MaxCrashes = 1
CHECK_DEADLOCK FALSE
INVARIANTS
    TypeOK
    OnlyRegistryImages
    SignedBeforeShipping
    AcceptedVersionShips
PROPERTY
    OthersSettle
