\* Two servers on one new database, two handlers, one client besides the bootstrap one.
CONSTANTS
    c1 = c1
    s1 = s1
    s2 = s2
    r1 = r1
    r2 = r2
    srv1 = srv1
    srv2 = srv2
    None = None
    Client = {c1}
    Secret = {s1, s2}
    Request = {r1, r2}
    Server = {srv1, srv2}
    Item <- PlainItems
SPECIFICATION Spec
INVARIANTS
    TypeOK
    CodesNeedTheirVerifier
    LiveClientSecretIsHeld
PROPERTY BootstrapCompletes
CHECK_DEADLOCK FALSE
