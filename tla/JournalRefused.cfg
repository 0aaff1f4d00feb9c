CONSTANTS
    b1 = b1
    b2 = b2
    Block <- TwoBlocks
    DirtyLimit = 2
    LogLimit = 3
    MaxWrite = 2
    MaxRev = 3
    MaxJournal = 2
    MaxLate = 1
SPECIFICATION Spec
INVARIANT JournalReplays
CHECK_DEADLOCK FALSE
