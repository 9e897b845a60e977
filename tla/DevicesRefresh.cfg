\* Two server devices, two handlers at once: refreshes against each other and against revocation.
CONSTANTS
    d1 = d1
    d2 = d2
    r1 = r1
    r2 = r2
    s1 = s1
    s2 = s2
    s3 = s3
    None = None
    Placeholder = Placeholder
    Device = {d1, d2}
    CliDevices = {}
    Secret = {s1, s2, s3}
    Request = {r1, r2}
    TTL = {1}
    MaxTime = 1
    Retention = 0
    RotateDeviceTokens = TRUE
    StoreFails = FALSE
SPECIFICATION Spec
SYMMETRY MCSymmetry
INVARIANTS
    SecretNamesItsDevice
    NothingGrantedAfterRevoke
    AuditRevokedMeansDeviceIsNot
PROPERTY DevicesAreRevocableGrants
CHECK_DEADLOCK FALSE
