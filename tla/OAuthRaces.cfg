\* One authorization, two handlers at once: exchanges, refreshes and revocations of it; statements may fail.
CONSTANTS
    a1 = a1
    c1 = c1
    u1 = u1
    p1 = p1
    r1 = r1
    r2 = r2
    x1 = x1
    x2 = x2
    None = None
    Auth = {a1}
    Client = {c1}
    Username = {u1}
    Scope = {p1}
    Refresh = {x1, x2}
    Request = {r1, r2}
    CodeTTL = 1
    AccessTTL = 1
    RefreshTTL = 1
    RotateRefresh = TRUE
    MaxTime = 1
    StoreFails = TRUE
SPECIFICATION Spec
SYMMETRY MCSymmetry
INVARIANTS
    TypeOK
    RevokedTokenIsRefused
    LiveRefreshIsHeld
PROPERTY SpentCodeIsRefused
CHECK_DEADLOCK FALSE
