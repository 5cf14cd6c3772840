SPECIFICATION Spec
CONSTANTS
    Users = {a, b}
    Mixes <- Mixture
    MaxRows = 3
    MaxMessages = 3
    Workers = {w1, w2}
SYMMETRY Symmetry
INVARIANTS AcceptedByBoth NoTieAcrossBlock ReceiptsCoverMark
PROPERTY MarksAdvance
CHECK_DEADLOCK FALSE
