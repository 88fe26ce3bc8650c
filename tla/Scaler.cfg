SPECIFICATION FairSpec
CONSTANTS
    MinWorkers = 0
    MaxWorkers = 1
    MaxDroplets = 2
    Address <- Distinct
    MaxTrouble = 1
CHECK_DEADLOCK FALSE
INVARIANTS
    TypeOK
    MaxRespected
PROPERTIES
    NeverStacks
    DrainedFirst
    NoOrphan
    NothingStuck
    GhostsRemoved
