SPECIFICATION Spec
CONSTANTS
    w1 = w1
    w2 = w2
    d1 = d1
    Workers <- MCWorkers
    Documents <- OneDocument
    Mixes <- Resubmissions
    Gone = Gone
    Nothing = Nothing
INVARIANTS
    ResubmitsWhenAllowed
