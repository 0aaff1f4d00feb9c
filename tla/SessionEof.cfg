CONSTANTS
    SessionScopes <- Followed
SPECIFICATION SessionSpec
INVARIANTS
    EofIsComplete
CHECK_DEADLOCK FALSE
