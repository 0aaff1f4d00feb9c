SPECIFICATION MCSpec
CONSTANTS
    r1 = r1
    Run <- OneRun
    MaxSize = 2
    MaxCheck = 1
    RunLimit = 4
    TotalLimit = 5
    StreamLimit = 2
    Slots = 1
    Faults <- AllFaults
    MaxLines = 2
    MaxCrash = 2
    IndexScopes <- Disks
    PageCount = 2
    SlotCount = 2
    ObjectBlocks = 2
    PassBlocks = 4
INVARIANTS
    DeliveryIsTrue
    ReadsLastWrite
    EvictedIsLean
PROPERTIES
    ReceiptArrives
    MaintenanceEnds
CHECK_DEADLOCK FALSE
