SPECIFICATION FairSpec
CONSTANTS
    MaxPushes = 3
    MaxReleases = 1
    MaxChanges = 3
    MaxIdentities = 3
    MaxFaults = 1
CHECK_DEADLOCK FALSE
INVARIANTS
    TypeOK
    PublishedTrue
PROPERTIES
    PendingPublished
    PendingArchived
    EnameImmutable
    PushesKept
