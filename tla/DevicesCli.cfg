\* A server device and one named on the CLI, two handlers, and every SQL statement may fail.
CONSTANTS
    c1 = c1
    d1 = d1
    r1 = r1
    r2 = r2
    s1 = s1
    s2 = s2
    s3 = s3
    None = None
    Placeholder = Placeholder
    Device = {d1, c1}
    CliDevices = {c1}
    Secret = {s1, s2, s3}
    Request = {r1, r2}
    TTL = {1}
    MaxTime = 0
    Retention = 1
    RotateDeviceTokens = TRUE
    StoreFails = TRUE
SPECIFICATION Spec
SYMMETRY MCSymmetry
INVARIANTS
    TypeOK
    LiveSecretIsHeld
PROPERTY RevokedIsFinal
CHECK_DEADLOCK FALSE
