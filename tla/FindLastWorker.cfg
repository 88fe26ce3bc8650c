SPECIFICATION Spec
CONSTANTS
    MinWorkers = 1
    MaxWorkers = 2
    MaxDroplets = 2
    Address <- Distinct
    MaxTrouble = 0
CHECK_DEADLOCK FALSE
PROPERTY KeepsMinimum
