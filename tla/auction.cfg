SPECIFICATION FairSpec
CONSTANTS
    NumBids = 3
    Quantity = 2
    Reserve = 2
    Increment = 1
    MaxAmount = 3
    EndsAt = 1
    ExpiresAt = 2
    AntiSnipe = 1
    MaxTime = 2
    Workers = {w1, w2}
INVARIANTS OneLeader SoldIsTaken OutbidWasBeaten
PROPERTY UnbidExpires
CHECK_DEADLOCK FALSE
