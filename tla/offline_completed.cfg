SPECIFICATION Spec
CONSTANTS
    x1 = x1
    x2 = x2
    Payments <- One
    Kind <- Airtime
    Tasks = {t1, t2}
    MaxCalls = 2
    MaxRetries = 2
    StorageFails = FALSE
    None = None
INVARIANTS
    CompletedMeansPaid
