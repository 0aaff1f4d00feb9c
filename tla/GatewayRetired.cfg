CONSTANTS
    GuestKeys = {1, 2}
    Conns = {1, 2}
    GatewayScopes <- Pressed
SPECIFICATION GatewaySpec
INVARIANTS
    RetiredIsDrained
CHECK_DEADLOCK FALSE
