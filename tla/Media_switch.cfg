SPECIFICATION MediaSpec
CONSTANTS
    Picture = {f1, f2}
    Editor = {e1, e2}
    Column = {c1}
    Request = {q1, q2}
    MaxKeys = 1
    Text = {t1}
    Null = Null
SYMMETRY Symmetry
INVARIANTS
    MediaTypeOK
    RowsRender
    ListTells
