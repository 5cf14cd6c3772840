SPECIFICATION FairSpec
CONSTANTS
    Sessions = {s1}
    Orders = {o1}
    Txns = {t1, t2}
    seller = seller
    sink = sink
    None = None
    FreeOrders = {}
    SellerOf <- OneSeller
    FeeSink <- sink
    Net <- NetTwo
    Fee <- FeeOne
    Copies <- DecisionsOnce
    ReferenceIsEventId = FALSE
    Faults = {}
    PartyTargets = {"CANCELLED", "PROCESSING", "PAYMENT_PENDING"}
    MaxRollbacks = 1
INVARIANTS BalanceIsLedgerSum OrderCreditedOnce
PROPERTIES SuccessIsSettled OrderOnGraph
CHECK_DEADLOCK FALSE
