SPECIFICATION Spec
CONSTANTS
    Sessions = {s1, s2}
    Orders = {o1, o2}
    Txns = {t1}
    seller = seller
    sink = sink
    None = None
    FreeOrders = {o2}
    SellerOf <- OneSeller
    FeeSink <- sink
    Net <- NetTwo
    Fee <- FeeOne
    Copies <- TwoSuccesses
    ReferenceIsEventId = FALSE
    Faults = {"early_webhook"}
    PartyTargets = {"CANCELLED", "PROCESSING"}
    MaxRollbacks = 1
SYMMETRY Workers
INVARIANTS SucceededIsSettled CreditedWasCollected WalletWithinLedger
CHECK_DEADLOCK FALSE
