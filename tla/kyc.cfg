SPECIFICATION Spec
CONSTANTS
    w1 = w1
    w2 = w2
    d1 = d1
    Workers <- MCWorkers
    Documents <- OneDocument
    Mixes <- AllMixes
    Gone = Gone
    Nothing = Nothing
SYMMETRY Symmetry
INVARIANTS
    TypeOK
PROPERTIES
    FlagFollowsVerdict
    VerifiedAfterReview
    ApprovedInOrder
    RejectedIsSuspended
    VerdictStands
