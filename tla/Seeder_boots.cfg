SPECIFICATION Spec
CONSTANTS
    Setting = {s1, s2}
    Role = {r1, r2}
    User = {u1, u2}
    Name = {Administrator, Editor}
    Email = {admin, other}
    Code = {code1, code2}
    Administrator = Administrator
    AdminEmail = admin
    AdminCode = code1
    Seed = {p1, p2}
    Visitor = {v1}
    None = None
SYMMETRY Symmetry
CHECK_DEADLOCK FALSE
INVARIANTS
    TypeOK
    AdminReady
    FailsOnCodeOnly
    AgainInsertsNothing
    OneSetting
