SPECIFICATION FairSpec
CONSTANTS
    Calls = {c1, c2}
    MaxVersions = 2
    PageSize = 1
    MaxCalls = 4
    MaxDecisions = 2
    MaxFaults = 1
CHECK_DEADLOCK FALSE
INVARIANTS
    TypeOK
    CompletedTrue
    ProfileSigned
    
PROPERTIES
    SignatureKept
    RetriedUntilPublished
