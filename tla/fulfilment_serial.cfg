SPECIFICATION Spec
CONSTANTS
    Orders = {o1}
    NumRequests = 1
    NumQuotes = 2
    NumDeliveries = 2
    NumDisputes = 1
    Carriers = {c1, c2}
    Sessions = {s1}
    Operations = {"transport", "move", "dispute", "review"}
    MaxRollbacks = 1
SYMMETRY Symmetry
INVARIANTS ConfirmedWasCarried DisputeFreezes CountedOnce
CHECK_DEADLOCK FALSE
