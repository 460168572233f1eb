SPECIFICATION Spec
CONSTANTS
    i1 = i1
    i2 = i2
    e1 = e1
    w1 = w1
    w2 = w2
    Applications = {a1}
    Invitations <- MCInvitations
    Emails <- MCEmails
    Workers <- MCWorkers
    Validity = 1
    MaxDay = 2
    None = None
SYMMETRY MCSymmetry
INVARIANTS
    TypeOK
    ApprovalInvites
PROPERTIES
    ClosedStaysClosed
    ClosedOpensNoAccount
\* When no key is left and every row is closed, no request changes anything.
CHECK_DEADLOCK FALSE
