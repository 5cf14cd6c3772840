SPECIFICATION Spec
CONSTANTS
    s1 = s1
    s2 = s2
    Sessions = {s1, s2}
    NumListings = 2
    NumOffers = 2
    NumOrders = 2
    Quantity <- OneThenTwo
    MaxQty = 2
    Mixes <- Mixture
    Targets = {"PAYMENT_PENDING", "PAID", "REFUNDED", "CANCELLED"}
    MaxRollbacks = 1
SYMMETRY Workers
INVARIANTS AcceptedIsOrdered ReservedIsHeld NoOversell OneBatch
PROPERTY CancelReleases
CHECK_DEADLOCK FALSE
