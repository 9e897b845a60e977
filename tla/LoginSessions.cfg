\* An administrator and a user who is disabled and given another password meanwhile.
CONSTANTS
    u1 = u1
    w1 = w1
    w2 = w2
    k1 = k1
    k2 = k2
    k3 = k3
    r1 = r1
    r2 = r2
    None = None
    User = {u1}
    Password = {w1, w2}
    Session = {k1, k2, k3}
    Request = {r1, r2}
    MaxAge = 1
    LoginTime = 1
    MaxTime = 3
SPECIFICATION Spec
SYMMETRY MCSymmetry
INVARIANTS
    TypeOK
    LoggedOutIsOut
PROPERTY CredentialsWereGood
CHECK_DEADLOCK FALSE
