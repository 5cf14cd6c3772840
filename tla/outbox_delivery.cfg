SPECIFICATION FairSpec
CONSTANTS
    a = a
    b = b
    market = market
    village = village
    Nobody = Nobody
    NumOps = 2
    Phones = {a}
    Conversations = {market, village}
    Owner <- OnePhone
    Room <- TwoRooms
    Batch = 2
    Requests = {r1, r2}
PROPERTIES QueuedIsStored
CHECK_DEADLOCK FALSE
