\* Two authorizations of one user and client in one second: their access tokens may be one string.
CONSTANTS
    a1 = a1
    a2 = a2
    c1 = c1
    u1 = u1
    p1 = p1
    p2 = p2
    r1 = r1
    r2 = r2
    x1 = x1
    x2 = x2
    None = None
    Auth = {a1, a2}
    Client = {c1}
    Username = {u1}
    Scope = {p1, p2}
    Refresh = {x1, x2}
    Request = {r1, r2}
    CodeTTL = 1
    AccessTTL = 1
    RefreshTTL = 1
    RotateRefresh = FALSE
    MaxTime = 0
    StoreFails = FALSE
SPECIFICATION Spec
SYMMETRY MCSymmetry
INVARIANTS
    ScopesWereConsented
    
    AuditRevokedMeansDead
PROPERTY AuthorizationsAreRevocableGrants
CHECK_DEADLOCK FALSE
