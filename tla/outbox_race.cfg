SPECIFICATION Spec
CONSTANTS
    a = a
    b = b
    market = market
    village = village
    Nobody = Nobody
    NumOps = 3
    Phones = {a, b}
    Conversations = {market}
    Owner <- TwoPhones
    Room <- OneRoom
    Batch = 2
    Requests = {r1, r2}
SYMMETRY Workers
CONSTRAINT Troubled
INVARIANTS AcknowledgedIsStored
PROPERTIES ConversationsAreLogs PushKeepsOrder
CHECK_DEADLOCK FALSE
