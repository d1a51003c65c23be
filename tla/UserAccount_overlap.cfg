SPECIFICATION Spec
CONSTANTS
    Password = {p1, p2}
    Otp = {o1, o2}
    Text = {t1}
    Request = {q1, q2, q3}
    None = None
SYMMETRY Symmetry
INVARIANTS
    TypeOK
    PasswordSticks
    OtpOnce
