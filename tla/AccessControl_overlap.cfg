SPECIFICATION Spec
CONSTANTS
    User = {u1, u2}
    Role = {r1, r2}
    Permission = {p1}
    Request = {q1, q2}
CONSTRAINT Overlaps
SYMMETRY Symmetry
INVARIANTS
    TypeOK
    GrantedHolds
    RevokedHolds
    RetiredStaysGone
PROPERTIES
    ImplementsTables
\* The finite supply of ids runs out: with every row deleted nothing is left to do.
CHECK_DEADLOCK FALSE
