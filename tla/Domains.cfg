SPECIFICATION Spec
CONSTANTS
    Targets = {t1, t2}
    Names = {n1, n2, n3}
    Calls = {c1, c2}
    Cron = cron
    NoTarget = NoTarget
    NoName = NoName
    PoolSize = 1
    MaxTries = 2
    MaxCalls = 3
    MaxRows = 5
    MaxFaults = 1
SYMMETRY Symmetry
CHECK_DEADLOCK FALSE
INVARIANTS
    TypeOK
    AddressRouted
PROPERTIES
    AssignmentKept
    AddressKept
