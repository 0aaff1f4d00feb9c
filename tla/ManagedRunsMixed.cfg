SPECIFICATION Spec
CONSTANTS
    r1 = r1
    r2 = r2
    Run <- TwoRuns
    Kinds <- AllKinds
    MaxBoot = 2
    MaxCrash = 0
SYMMETRY RunSymmetry
INVARIANTS
    ReceiptIsTrue
    VmKept
CHECK_DEADLOCK FALSE
