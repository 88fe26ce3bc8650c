SPECIFICATION FairSpec
CONSTANTS
    MaxPushes = 2
    MaxReleases = 0
    MaxChanges = 2
    MaxIdentities = 1
    MaxFaults = 0
CHECK_DEADLOCK FALSE
PROPERTY DeletedArchived
