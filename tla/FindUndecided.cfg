SPECIFICATION FairSpec
CONSTANTS
    Calls = {c1}
    MaxVersions = 2
    PageSize = 2
    MaxCalls = 3
    MaxDecisions = 1
    MaxFaults = 0
CHECK_DEADLOCK FALSE
PROPERTY LaterPublished
