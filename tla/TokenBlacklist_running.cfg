SPECIFICATION TokenSpec
CONSTANTS
    Instance = {i1, i2}
    Token = {t1, t2}
    Ttl = 2
    MaxTime = 4
    Undefined = Undefined
SYMMETRY Symmetry
INVARIANTS
    TokenTypeOK
    RevokedHere
