SPECIFICATION FairSpec
CONSTANTS
    r1 = r1
    r2 = r2
    Run <- OneRun
    Kinds <- AllKinds
    MaxBoot = 2
    MaxCrash = 2
INVARIANTS
    LaunchedOnce
    ReceiptIsTrue
    VmKept
PROPERTIES
    OwnRunsEnd
CHECK_DEADLOCK FALSE
