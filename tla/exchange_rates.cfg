SPECIFICATION Spec
CONSTANTS
    eur = eur
    ghs = ghs
    w1 = w1
    w2 = w2
    Currencies <- MCCurrencies
    Workers <- MCWorkers
    MaxRows = 3
    None = None
SYMMETRY MCSymmetry
INVARIANTS
    TypeOK
    RateMissingOnlyInGap
    LastWriteStays
    AnswersWereStored
