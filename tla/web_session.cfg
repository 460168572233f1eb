SPECIFICATION Spec
CONSTANTS
    Tabs = {a}
    Requests = {r1, r2, r3}
    MaxLogins = 1
    MaxRenewals = 1
    None = None
INVARIANTS
    RefreshAlone
    NobodyLeftWaiting
PROPERTIES
    RequestsSettle
