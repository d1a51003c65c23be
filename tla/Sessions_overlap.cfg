SPECIFICATION Spec
CONSTANTS
    Sid = {s1, s2}
    User = {u1, u2}
    Request = {q1, q2}
    Anonymous = Anonymous
    Unknown = Unknown
SYMMETRY Symmetry
INVARIANTS
    TypeOK
    ClosedStaysClosed
    OwnerKept
