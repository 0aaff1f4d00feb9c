SPECIFICATION Spec
CONSTANTS
    a = a
    b = b
    u1 = u1
    v1 = v1
    v2 = v2
    k1 = k1
    k2 = k2
    r1 = r1
    r2 = r2
    r3 = r3
    none = none
    None = none
    Ids <- MCIds
    Users <- MCUsers
    Volumes <- MCVolumes
    Ops <- MCOps
    Requests <- MCRequests
    Scopes <- MCScopes
    MaxCpus = 1
    MaxBoxes = 2
INVARIANTS
    SectionsKept
    UseIsCharged
    OneIdentity
    ExecutedOnce
PROPERTIES
    RowOutlivesVm
    OpsEnd
