SPECIFICATION Spec
CONSTANTS
    ama = ama
    kofi = kofi
    esi = esi
    ghs = ghs
    usd = usd
    Users <- MCUsers
    Customers <- MCCustomers
    Currencies <- MCCurrencies
    Requests = {r1, r2}
    Workers = 2
    Ops <- AllOps
    Opening <- MCOpening
    RateNum <- MCRateNum
    RateDen <- MCRateDen
    Cent = 2
    MaxBalance = 4
    MaxAmount = 4
    ReceiverOutcomes = {"returns", "raises"}
    FeeOutcomes = {"no_fee", "logged"}
    NoRow = NoRow
INVARIANTS
    TypeOK
    InRange
    BooksUnlessSuspect
    RecordsBacked
    RefusedLeavesNoTrace
PROPERTIES
    ImplementsSettlement
    EveryRequestAnswered
