CONSTANTS
    d1 = d1
    d2 = d2
    Dir <- Dirs
    Delay = FALSE
    MaxToken = 3
    MaxGen = 1
    MaxLate = 2
    Volumes = {"v1", "v2"}
    Scopes <- Hosts
SPECIFICATION MCSpec
INVARIANTS
    OneServer
    HandoffSafe
    OwnerIsDurable
    RecordsSound
    NoReplacedConnection
    CacheExact
PROPERTIES
    OwnershipKept
