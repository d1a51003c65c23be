SPECIFICATION FairSpec
CONSTANTS
    Slug = {s0, s1, s2}
    Default = s0
    Curated = {s0, s1}
    Request = {q1, q2}
    Null = Null
INVARIANTS
    TypeOK
    LandingServed
    PreviewServed
PROPERTIES
    StoredStays
    CatalogueRecovers
