SPECIFICATION Spec
CONSTANTS
    Tabs = {a, b}
    Requests = {r1}
    MaxLogins = 1
    MaxRenewals = 1
    None = None
SYMMETRY Symmetry
INVARIANTS
    SignedOutEverywhere
