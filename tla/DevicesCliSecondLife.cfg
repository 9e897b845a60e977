\* Violated: a revoked id is issued again after the cleanup.
CONSTANTS
    c1 = c1
    r1 = r1
    None = None
    Placeholder = Placeholder
    Device = {c1}
    CliDevices = {c1}
    Secret = {}
    Request = {r1}
    TTL = {3}
    MaxTime = 2
    Retention = 1
    RotateDeviceTokens = TRUE
    StoreFails = FALSE
SPECIFICATION Spec
INVARIANTS
    RevokedIdStaysRefused
CHECK_DEADLOCK FALSE
