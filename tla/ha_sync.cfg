SPECIFICATION FairSpec
CONSTANTS
    Entities = {e1, e2}
    MaxConnections = 2
    MaxChanges = 2
    RequestsFail = TRUE
CHECK_DEADLOCK FALSE
INVARIANTS
    TypeOK
    RegistryFollowed
    NewestKept
    DiskMatches
PROPERTY SyncEnds
