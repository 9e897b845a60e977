\* The server and two CLI processes around a rotation; statements may fail.
CONSTANTS
    srv = srv
    c1 = c1
    c2 = c2
    k1 = k1
    k2 = k2
    k3 = k3
    k4 = k4
    kid = kid
    None = None
    Server = srv
    Cli = {c1, c2}
    Key = {k1, k2, k3, k4}
    NamedKid = {kid}
    MaxRotations = 2
    StoreFails = TRUE
SPECIFICATION Spec
SYMMETRY MCSymmetry
INVARIANTS
    TypeOK
    SigningKeysWereStored
    RetiredKeyStaysRetired
    SettledProcessesAgree
    KidNamesOneKey
CHECK_DEADLOCK FALSE
