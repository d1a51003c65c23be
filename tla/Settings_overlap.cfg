SPECIFICATION FairSpec
CONSTANTS
    Instance = {i1, i2}
    Reader = {g1}
    Writer = {w1, w2}
    Field = {f1, f2}
    Value = {v1, v2}
    Ttl = 1
    MaxUpdates = 2
    Null = Null
INVARIANTS
    TypeOK
    UpdateVisible
    UpdateSticks
PROPERTY
    Heals
