\* One device, whose token does not rotate, through revocation and the cleanup job.
CONSTANTS
    d1 = d1
    r1 = r1
    r2 = r2
    s1 = s1
    s2 = s2
    None = None
    Placeholder = Placeholder
    Device = {d1}
    CliDevices = {}
    Secret = {s1, s2}
    Request = {r1, r2}
    TTL = {2}
    MaxTime = 2
    Retention = 1
    RotateDeviceTokens = FALSE
    StoreFails = FALSE
SPECIFICATION Spec
SYMMETRY MCSymmetry
INVARIANTS
    HeldTokensWereAudited
    UnrotatedSecretNeverDies
CHECK_DEADLOCK FALSE
