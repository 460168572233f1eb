SPECIFICATION Spec
CONSTANTS
    c1 = c1
    c2 = c2
    out = out
    Calls <- MCCalls
    SignOutCall = out
    MaxLogins = 2
    MaxInterruptions = 1
    None = None
INVARIANTS
    TypeOK
    StorageMatchesScreen
    OneLogin
PROPERTIES
    CallsSettle
