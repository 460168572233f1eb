SPECIFICATION Spec
CONSTANTS
    x1 = x1
    x2 = x2
    Payments <- Two
    Kind <- Money
    Tasks = {t1, t2}
    MaxCalls = 4
    MaxRetries = 2
    StorageFails = TRUE
    None = None
SYMMETRY Symmetry
INVARIANTS
    TypeOK
    FlagMeansDrain
    RetriesEarned
    PaidOncePerAttempt
    NothingForgotten
