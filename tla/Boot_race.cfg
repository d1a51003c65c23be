SPECIFICATION BootSpec
CONSTANTS
    Container = {n1, n2}
    Operator = op
    Null = Null
SYMMETRY Symmetry
INVARIANTS
    BootTypeOK
    SchemaMatches
    OneCompletes
    SecretsAgree
