SPECIFICATION Spec
CONSTANTS
    Sessions = {s1, s2}
    Orders = {o1}
    Txns = {t1, t2}
    seller = seller
    sink = sink
    None = None
    FreeOrders = {}
    SellerOf <- OneSeller
    FeeSink <- sink
    Net <- NetTwo
    Fee <- FeeOne
    Copies <- DecisionsOnce
    ReferenceIsEventId = FALSE
    Faults = {}
    PartyTargets = {}
    MaxRollbacks = 0
INVARIANT OrderCreditedOnce
CHECK_DEADLOCK FALSE
