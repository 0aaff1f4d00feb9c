SPECIFICATION Spec
CONSTANTS
    Vols = {1, 2}
    None = None
    Scopes <- Survivor
INVARIANT ErrorsAreNotDeath
CHECK_DEADLOCK FALSE
