SPECIFICATION PaymentsSpec
CONSTANTS
    t1 = t1
    r1 = r1
    r2 = r2
    r3 = r3
    Transactions <- MCTransactions
    Requests <- MCRequests
    Workers = 3
    Tasks <- MCTasks
    Methods = {"card", "momo", "bank", "other"}
    Existing = Existing
    MaxNotes = 2
    Gone = Gone
    Nobody = Nobody
SYMMETRY Symmetry
INVARIANTS
    PaymentsTypeOK
    DisputeMarkMeansResolved
    DisputeKept
    PaymentAccounted
PROPERTIES
    RefundUndoneOnlyByDisputeOrOutdatedLoad
