SPECIFICATION Spec
CONSTANTS
    Sid = {s1, s2}
    User = {u1}
    Request = {q1, q2}
    Anonymous = Anonymous
    Unknown = Unknown
INVARIANT LogoutInvalidates
