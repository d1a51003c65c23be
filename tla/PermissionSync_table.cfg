SPECIFICATION Spec
CONSTANTS
    n1 = n1
    n2 = n2
    get = get
    post = post
    Name = {n1, n2}
    Kind = {get, post}
    Registry <- MCRegistry
    Id = {i1, i2, i3, i4}
    Request = {q1, q2}
    None = None
SYMMETRY Symmetry
INVARIANTS
    TypeOK
    OneRowEach
    AllRoutesPresent
