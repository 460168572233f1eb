SPECIFICATION Spec
CONSTANTS
    Tabs = {a, b}
    Requests = {r1}
    MaxLogins = 2
    MaxRenewals = 1
    None = None
SYMMETRY Symmetry
INVARIANTS
    TypeOK
    TokensMatch
