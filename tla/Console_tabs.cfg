SPECIFICATION Spec
CONSTANTS
    Tab = {t1, t2}
    Message = {m1, m2}
    None = None
SYMMETRY Symmetry
INVARIANTS
    TypeOK
    ToldOnce
    RedirectTells
