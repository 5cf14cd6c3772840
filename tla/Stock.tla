------------------------------- MODULE Stock -------------------------------
(***************************************************************************)
(* Stock of one seller and product: offers on listings, the orders made     *)
(* from them, and the inventory reserved for the orders (offer_service,     *)
(* inventory_service, order_service, POST /orders/draft, restocking in      *)
(* listing_service).  Listing l has inventory batch l; a reservation may    *)
(* take from any batch.  A web session handles one request; rows are read   *)
(* unlocked except where the code says FOR UPDATE, row locks last until the *)
(* commit, and a value read before a lock is not read again after it.       *)
(* listings.sold_quantity, which nothing modelled reads, is left out.       *)
(***************************************************************************)
EXTENDS OrderRules, Integers, FiniteSetsExt

CONSTANTS
    NumListings, NumOffers, NumOrders,  \* bounds: rows of each table
    Quantity,       \* [Listings -> amounts], the quantity listed
    MaxQty,         \* bound: amounts offered, ordered and restocked to
    Sessions,
    Mixes,          \* bound: the sessions, listings and requests explored together
    Targets,        \* bound: the states requests move orders to
    MaxRollbacks    \* bound: failed database transactions

Listings == 1..NumListings
Offers == 1..NumOffers
Orders == 1..NumOrders

ASSUME StockAssumption ==
    /\ NumListings \in Nat /\ NumOffers \in Nat /\ NumOrders \in Nat
    /\ Quantity \in [Listings -> Nat \ {0}]
    /\ MaxQty \in Nat /\ MaxRollbacks \in Nat
    /\ Targets \subseteq OrderStates

VARIABLES
    mix,        \* what is explored: which sessions make which requests, on which listings
    listing,    \* listings: avail, cap (quantity_value), state
    batch,      \* inventories: total, reserved, state
    batches,    \* how many inventories were made for a listing, by who owns them
    offer,      \* offers: state, listing, qty, parent
    lapsed,     \* offers whose expires_at has passed
    order,      \* orders: state, listing, qty, offer (0 for a direct order)
    held,       \* inventory_reservations: amount by order and batch
    active,     \* orders whose reservations are ACTIVE
    sess,       \* what each web session is doing
    twin,       \* two sessions have released one order at once
    rollbacks

vars == <<mix, listing, batch, batches, offer, lapsed, order, held, active, sess, twin, rollbacks>>
tables == <<listing, batch, batches, offer, order, held, active>>

---------------------------------------------------------------------------
OfferStates == {"NONE", "PENDING", "COUNTERED", "ACCEPTED", "REJECTED", "WITHDRAWN"}
Clip(n, low, high) == IF n < low THEN low ELSE IF n > high THEN high ELSE n

\* An attribute set to the value that was read is not written: the row keeps its own.
Written(read, value, now) == IF value = read THEN now ELSE value

NoListing == [avail |-> 0, cap |-> 0, state |-> "NONE"]
NoBatch == [total |-> 0, reserved |-> 0, state |-> "NONE"]
NoTake == [b \in Listings |-> 0]
Idle == [pc |-> "idle", offer |-> 0, order |-> 0, listing |-> 0, qty |-> 0, cap |-> 0, to |-> "NONE",
         seen |-> NoListing, seenBatch |-> NoBatch, found |-> FALSE,
         locked |-> {}, take |-> NoTake, base |-> NoTake]
At(s, pc) == sess[s].pc = pc

\* A cancellation reads which reservations are ACTIVE before it locks anything, so two of
\* one order may both set out to release them.
Releasing(s) == sess[s].pc \in {"release", "restore"} /\ sess[s].found
Twins == \E s, t \in Sessions :
    s # t /\ Releasing(s) /\ Releasing(t) /\ sess[s].order = sess[t].order

Become(s, r) ==
    /\ sess' = [sess EXCEPT ![s] = r]
    /\ twin' = (twin \/ Twins')
    /\ UNCHANGED mix
Free(s, op) == s \in mix.sessions /\ At(s, "idle") /\ op \in mix.operations

\* available_quantity
Left(b) == batch[b].total - batch[b].reserved

\* The rows reserve locks, in id order, whether they hold enough, and what it
\* takes from each.
Candidates == {b \in Listings : batch[b].state = "AVAILABLE" /\ Left(b) > 0}
LeftIn(S) == SumFunctionOnSet([b \in Listings |-> Left(b)], S)

Enough(q) == LeftIn(Candidates) >= q
Take(q) == [b \in Listings |->
              IF b \in Candidates
              THEN Clip(q - LeftIn({c \in Candidates : c < b}), 0, Left(b)) ELSE 0]

Reserved == [b \in Listings |-> batch[b].reserved]

HeldBy(o) == {b \in Listings : held[o][b] > 0}

\* The locks a session needs for its next step, and who holds them.
WantedBatches(s) ==
    CASE sess[s].pc \in {"accept", "draftReserve"}        -> Candidates
      [] At(s, "release") /\ sess[s].found           -> HeldBy(sess[s].order)
      [] At(s, "restock") /\ sess[s].qty # sess[s].seen.avail -> {sess[s].listing}
      [] OTHER                                            -> {}
WantedListings(s) ==
    IF sess[s].pc \in {"acceptCommit", "draft", "restore", "restockCommit", "edit", "state"}
    THEN {sess[s].listing} ELSE {}
\* Mutant: publishing does not lock the listing's row.
LockedListings_OrderOnly(s) == IF At(s, "draftReserve") THEN {sess[s].listing} ELSE {}

LockedListings(s) == IF sess[s].pc \in {"draftReserve", "publish"} THEN {sess[s].listing} ELSE {}
Waits(s, s2) ==
    /\ s # s2
    /\ \/ WantedBatches(s) \cap sess[s2].locked # {}
       \/ WantedListings(s) \cap LockedListings(s2) # {}
Unblocked(s) == \A s2 \in Sessions : ~Waits(s, s2)

\* The listings that are published when the exploration begins.
Published == IF "create" \in mix.operations THEN {} ELSE mix.listings
NewBatch(q) == [total |-> q, reserved |-> 0, state |-> "AVAILABLE"]
Owners == {"seller", "admin"}

Init ==
    /\ mix \in Mixes
    /\ listing = [l \in Listings |-> IF l \notin Published THEN NoListing
                      ELSE [avail |-> Quantity[l], cap |-> Quantity[l], state |-> "ACTIVE"]]
    /\ batch = [b \in Listings |-> IF b \notin Published THEN NoBatch ELSE NewBatch(Quantity[b])]
    /\ batches = [l \in Listings |-> [o \in Owners |-> IF l \in Published /\ o = "seller" THEN 1 ELSE 0]]
    /\ offer = [f \in Offers |-> [state |-> "NONE", listing |-> 0, qty |-> 0, parent |-> 0]]
    /\ lapsed = {}
    /\ order = [o \in Orders |-> [state |-> "NONE", listing |-> 0, qty |-> 0, offer |-> 0]]
    /\ held = [o \in Orders |-> NoTake]
    /\ active = {}
    /\ sess = [s \in Sessions |-> Idle]
    /\ twin = FALSE
    /\ rollbacks = 0

---------------------------------------------------------------------------
(* Offers *)

NewOffers == {f \in Offers : offer[f].state = "NONE"}

\* create_offer: the listing is ACTIVE and shows enough.
CreateOffer(l, q) ==
    /\ NewOffers # {}
    /\ listing[l].state = "ACTIVE" /\ q <= listing[l].avail
    /\ offer' = [offer EXCEPT ![Min(NewOffers)] =
                    [state |-> "PENDING", listing |-> l, qty |-> q, parent |-> 0]]
    /\ UNCHANGED <<mix, listing, batch, batches, lapsed, order, held, active, sess, twin, rollbacks>>

\* Time passes an offer's expires_at.
OfferLapses(f) ==
    /\ "lapse" \in mix.operations
    /\ offer[f].state = "PENDING" /\ f \notin lapsed
    /\ lapsed' = lapsed \cup {f}
    /\ UNCHANGED <<mix, tables, sess, twin, rollbacks>>

\* Which offers counter_offer, reject_offer and withdraw_offer take.
Answerable(f, op) ==
    IF op = "counter" THEN offer[f].state \notin {"NONE", "ACCEPTED", "WITHDRAWN"}
    ELSE offer[f].state = "PENDING"

Answers == {"counter", "reject", "withdraw"}

AnswerRead(s, f, op) ==
    /\ op \in Answers /\ Free(s, op)
    /\ Answerable(f, op)
    /\ Become(s, [Idle EXCEPT !.pc = "answer", !.offer = f, !.to = op])
    /\ UNCHANGED <<tables, lapsed, rollbacks>>

\* The answer overwrites the state; a counter adds an offer on the same listing.
AnswerCommit(s) ==
    LET f == sess[s].offer
        closed == CASE sess[s].to = "counter" -> "COUNTERED"
                    [] sess[s].to = "reject"  -> "REJECTED"
                    [] OTHER                  -> "WITHDRAWN"
        child == [offer[f] EXCEPT !.state = "PENDING", !.parent = f]
    IN
    /\ At(s, "answer")
    /\ IF sess[s].to = "counter"
       THEN /\ NewOffers # {}
            /\ offer' = [offer EXCEPT ![f].state = closed, ![Min(NewOffers)] = child]
       ELSE offer' = [offer EXCEPT ![f].state = closed]
    /\ Become(s, Idle)
    /\ UNCHANGED <<listing, batch, batches, lapsed, order, held, active, rollbacks>>

---------------------------------------------------------------------------
(* Orders: accept_offer and POST /orders/draft *)

NewOrders == {o \in Orders : order[o].state = "NONE"}
Ordering == {"accept", "acceptCommit", "draft", "draftReserve"}

\* Bound: a row is left for every order being made.
OrderLeft ==
    Cardinality({s \in Sessions : sess[s].pc \in Ordering}) < Cardinality(NewOrders)

\* Mutant: the state of the offer is not checked.
CanAccept_Any(f) == offer[f].state # "NONE"

CanAccept(f) == offer[f].state = "PENDING" /\ f \notin lapsed

\* accept_offer reads the offer and the listing.
AcceptRead(s, f) ==
    /\ Free(s, "accept") /\ OrderLeft
    /\ CanAccept(f)
    /\ Become(s, [Idle EXCEPT !.pc = "accept", !.offer = f, !.listing = offer[f].listing,
                              !.qty = offer[f].qty, !.seen = listing[offer[f].listing]])
    /\ UNCHANGED <<tables, lapsed, rollbacks>>

\* Mutant: reserve reads availability without locking the batches.
AcceptReserve_NoLock(s) ==
    /\ At(s, "accept")
    /\ IF Enough(sess[s].qty)
       THEN Become(s, [sess[s] EXCEPT !.pc = "acceptCommit", !.take = Take(sess[s].qty), !.base = Reserved])
       ELSE Become(s, Idle)
    /\ UNCHANGED <<tables, lapsed, rollbacks>>

\* reserve locks the candidates; a shortfall fails the request.
AcceptReserve(s) ==
    /\ At(s, "accept") /\ Unblocked(s)
    /\ IF Enough(sess[s].qty)
       THEN Become(s, [sess[s] EXCEPT !.pc = "acceptCommit", !.locked = Candidates,
                                      !.take = Take(sess[s].qty), !.base = Reserved])
       ELSE Become(s, Idle)
    /\ UNCHANGED <<tables, lapsed, rollbacks>>

\* _decrement_listing_available, from the listing as it was read.
ListingAfterSale(s) ==
    LET r == sess[s]  left == Clip(r.seen.avail - r.qty, 0, r.seen.avail) IN
    [listing EXCEPT
        ![r.listing].avail = Written(r.seen.avail, left, @),
        ![r.listing].state = IF left = 0 THEN Written(r.seen.state, "SOLD_OUT", @) ELSE @]

\* ck_listing_avail_lte, on the row that would be written.
RowAllowed(s, rows) == rows[sess[s].listing].avail <= rows[sess[s].listing].cap

\* create_order_from_accepted_offer and the reservations taken for the order, on
\* top of the counters that were read.
PlaceOrder(state, l, q, f, take, base) ==
    LET o == Min(NewOrders) IN
    /\ NewOrders # {}
    /\ order' = [order EXCEPT ![o] = [state |-> state, listing |-> l, qty |-> q, offer |-> f]]
    /\ held' = [held EXCEPT ![o] = take]
    /\ active' = active \cup {o}
    /\ batch' = [b \in Listings |->
          [batch[b] EXCEPT !.reserved = IF take[b] > 0 THEN base[b] + take[b] ELSE @]]

AcceptCommit(s) ==
    LET r == sess[s] IN
    /\ At(s, "acceptCommit") /\ Unblocked(s)
    /\ PlaceOrder("ACCEPTED", r.listing, r.qty, r.offer, r.take, r.base)
    /\ listing' = ListingAfterSale(s) /\ RowAllowed(s, listing')
    /\ offer' = [offer EXCEPT ![r.offer].state = "ACCEPTED"]
    /\ Become(s, Idle)
    /\ UNCHANGED <<batches, lapsed, rollbacks>>

\* A direct order only looks at the listing's available quantity.
DraftRead(s, l, q) ==
    /\ Free(s, "draft") /\ OrderLeft
    /\ q <= listing[l].avail
    /\ Become(s, [Idle EXCEPT !.pc = "draft", !.listing = l, !.qty = q, !.seen = listing[l]])
    /\ UNCHANGED <<tables, lapsed, rollbacks>>

\* The order is flushed first: its listing row is updated and locked.
DraftFlush(s) ==
    /\ At(s, "draft") /\ Unblocked(s)
    /\ Become(s, [sess[s] EXCEPT !.pc = "draftReserve"])
    /\ UNCHANGED <<tables, lapsed, rollbacks>>

DraftCommit(s) ==
    LET r == sess[s] IN
    /\ At(s, "draftReserve") /\ Unblocked(s)
    /\ Enough(r.qty)
    /\ PlaceOrder("PAYMENT_PENDING", r.listing, r.qty, 0, Take(r.qty), Reserved)
    /\ listing' = ListingAfterSale(s) /\ RowAllowed(s, listing')
    /\ Become(s, Idle)
    /\ UNCHANGED <<batches, offer, lapsed, rollbacks>>

DraftShort(s) ==
    /\ At(s, "draftReserve") /\ Unblocked(s)
    /\ ~Enough(sess[s].qty)
    /\ Become(s, Idle)
    /\ UNCHANGED <<tables, lapsed, rollbacks>>

---------------------------------------------------------------------------
(* transition_order, mark_paid_system and cancel_order *)

\* PAID is the payment system's move, every other one a party's.
TransitionRead(s, o, to) ==
    /\ Free(s, "transition")
    /\ order[o].state # "NONE" /\ to \in Targets
    /\ \/ \E role \in Roles : Accepts(role, order[o].state, to)
       \/ to = "PAID" /\ order[o].state = "PAYMENT_PENDING"
    /\ Become(s, [Idle EXCEPT !.pc = "transition", !.order = o, !.to = to])
    /\ UNCHANGED <<tables, lapsed, rollbacks>>

TransitionCommit(s) ==
    /\ At(s, "transition")
    /\ order' = [order EXCEPT ![sess[s].order].state = sess[s].to]
    /\ Become(s, Idle)
    /\ UNCHANGED <<listing, batch, batches, offer, lapsed, held, active, rollbacks>>

CancelRead(s, o) ==
    /\ Free(s, "cancel")
    /\ order[o].state # "NONE" /\ Accepts("seller", order[o].state, "CANCELLED")
    /\ Become(s, [Idle EXCEPT !.pc = "cancel", !.order = o, !.listing = order[o].listing,
                              !.qty = order[o].qty])
    /\ UNCHANGED <<tables, lapsed, rollbacks>>

\* Mutant: cancelling ends with the state, nothing is released.
CancelCommit_NoRelease(s) ==
    /\ At(s, "cancel")
    /\ order' = [order EXCEPT ![sess[s].order].state = "CANCELLED"]
    /\ Become(s, Idle)
    /\ UNCHANGED <<listing, batch, batches, offer, lapsed, held, active, rollbacks>>

\* transition_order's notification commits CANCELLED; the reservations are then
\* read in a second transaction.
CancelCommit(s) ==
    /\ At(s, "cancel")
    /\ order' = [order EXCEPT ![sess[s].order].state = "CANCELLED"]
    /\ Become(s, [sess[s] EXCEPT !.pc = "release", !.found = sess[s].order \in active])
    /\ UNCHANGED <<listing, batch, batches, offer, lapsed, held, active, rollbacks>>

\* release_reservation locks the batches of the reservations read as ACTIVE; the
\* listing is read after it.
ReleaseLock(s) ==
    /\ At(s, "release") /\ Unblocked(s)
    /\ Become(s, [sess[s] EXCEPT !.pc = "restore", !.locked = WantedBatches(s),
                                 !.seen = listing[sess[s].listing]])
    /\ UNCHANGED <<tables, lapsed, rollbacks>>

\* quantity_reserved goes down by each reservation, never below zero.
BatchAfterRelease(s) ==
    [b \in Listings |->
        IF b \in sess[s].locked
        THEN [batch[b] EXCEPT !.reserved = Clip(@ - held[sess[s].order][b], 0, @)]
        ELSE batch[b]]

\* The quantity returns to the listing whatever the reservations' state was.
ListingAfterRestore(s) ==
    LET r == sess[s]  left == Clip(r.seen.avail + r.qty, 0, r.seen.cap) IN
    [listing EXCEPT
        ![r.listing].avail = Written(r.seen.avail, left, @),
        ![r.listing].state = IF r.seen.state = "SOLD_OUT" /\ left > 0 THEN "ACTIVE" ELSE @]

RestoreCommit(s) ==
    /\ At(s, "restore") /\ Unblocked(s)
    /\ batch' = BatchAfterRelease(s)
    /\ active' = IF sess[s].found THEN active \ {sess[s].order} ELSE active
    /\ listing' = ListingAfterRestore(s) /\ RowAllowed(s, listing')
    /\ Become(s, Idle)
    /\ UNCHANGED <<batches, offer, lapsed, order, held, rollbacks>>

---------------------------------------------------------------------------
(* _adjust_live_available: the seller sets what a listing shows. *)

RestockRead(s, l, q) ==
    /\ Free(s, "restock")
    /\ listing[l].state \notin {"NONE", "DRAFT", "CLOSED"} /\ batches[l]["seller"] > 0
    /\ Become(s, [Idle EXCEPT !.pc = "restock", !.listing = l, !.qty = q,
                              !.seen = listing[l], !.seenBatch = batch[l]])
    /\ UNCHANGED <<tables, lapsed, rollbacks>>

\* The batch as it will be written, from the values read before its lock.
Restocked(s) ==
    LET r == sess[s]  total == r.seenBatch.total + r.qty - r.seen.avail IN
    [total |-> total, reserved |-> batch[r.listing].reserved,
     state |-> IF total <= r.seenBatch.reserved
               THEN Written(r.seenBatch.state, "SOLD", batch[r.listing].state)
               ELSE Written(r.seenBatch.state, "AVAILABLE", batch[r.listing].state)]

\* Mutants: a trim below what is reserved is let through, and the database has no
\* check that says so.
RestockAllowed_Always(s) == TRUE

\* The check on the values read, and the table's own on the row as it is.
RestockAllowed(s) ==
    /\ Restocked(s).total >= sess[s].seenBatch.reserved
    /\ Restocked(s).total >= Restocked(s).reserved

RestockLock(s) ==
    LET r == sess[s] IN
    /\ At(s, "restock") /\ Unblocked(s)
    /\ IF r.qty = r.seen.avail \/ RestockAllowed(s)
       THEN Become(s, [r EXCEPT !.pc = "restockCommit", !.locked = WantedBatches(s)])
       ELSE Become(s, Idle)
    /\ UNCHANGED <<tables, lapsed, rollbacks>>

ListingAfterRestock(s) ==
    LET r == sess[s]
        state == IF r.qty = 0 THEN "SOLD_OUT"
                 ELSE IF r.seen.state = "SOLD_OUT" THEN "ACTIVE" ELSE r.seen.state
    IN
    [listing EXCEPT
        ![r.listing].avail = Written(r.seen.avail, r.qty, @),
        ![r.listing].cap = IF r.qty > r.seen.cap THEN r.qty ELSE @,
        ![r.listing].state = Written(r.seen.state, state, @)]

RestockCommit(s) ==
    /\ At(s, "restockCommit") /\ Unblocked(s)
    /\ batch' = IF sess[s].locked = {} THEN batch
                ELSE [batch EXCEPT ![sess[s].listing] = Restocked(s)]
    /\ listing' = ListingAfterRestock(s) /\ RowAllowed(s, listing')
    /\ Become(s, Idle)
    /\ UNCHANGED <<batches, offer, lapsed, order, held, active, rollbacks>>

---------------------------------------------------------------------------
(* A listing's life: create_listing, publish_listing, update_listing *)

\* A listing is created with its batch, or as a draft without one.
CreateListing(l, avail, state) ==
    /\ "create" \in mix.operations /\ l \in mix.listings
    /\ listing[l].state = "NONE"
    /\ avail \in 1..Quantity[l] /\ state \in {"DRAFT", "ACTIVE"}
    /\ listing' = [listing EXCEPT ![l] = [avail |-> avail, cap |-> Quantity[l], state |-> state]]
    /\ \/ state = "DRAFT" /\ UNCHANGED <<batch, batches>>
       \/ /\ state = "ACTIVE"
          /\ batch' = [batch EXCEPT ![l] = NewBatch(Quantity[l])]
          /\ batches' = [batches EXCEPT ![l]["seller"] = 1]
    /\ UNCHANGED <<mix, lapsed, offer, order, held, active, sess, twin, rollbacks>>

\* publish_listing locks the row before it reads it; the route then looks for a
\* batch of whoever publishes, the seller or an administrator.
PublishLock(s, l, who) ==
    /\ Free(s, "publish")
    /\ \A s2 \in Sessions : l \notin LockedListings(s2)
    /\ listing[l].state \in {"DRAFT", "ACTIVE"}
    /\ Become(s, [Idle EXCEPT !.pc = "publish", !.listing = l, !.to = who, !.seen = listing[l],
                              !.found = batches[l][who] > 0])
    /\ UNCHANGED <<tables, lapsed, rollbacks>>

\* The new batch has the listing's whole quantity and is its publisher's.
PublishCommit(s) ==
    LET r == sess[s] IN
    /\ At(s, "publish")
    /\ listing' = [listing EXCEPT ![r.listing].state = Written(r.seen.state, "ACTIVE", @)]
    /\ batches' = IF r.found THEN batches ELSE [batches EXCEPT ![r.listing][r.to] = @ + 1]
    /\ batch' = IF r.found \/ r.to # "seller" THEN batch
                ELSE [batch EXCEPT ![r.listing] = NewBatch(r.seen.cap)]
    /\ Become(s, Idle)
    /\ UNCHANGED <<lapsed, offer, order, held, active, rollbacks>>

\* A draft is edited as it was read, without a lock.
EditRead(s, l, cap, avail) ==
    /\ Free(s, "edit")
    /\ listing[l].state = "DRAFT" /\ avail \in 1..cap
    /\ Become(s, [Idle EXCEPT !.pc = "edit", !.listing = l, !.qty = avail, !.cap = cap,
                              !.seen = listing[l]])
    /\ UNCHANGED <<tables, lapsed, rollbacks>>

ListingAfterEdit(s) ==
    LET r == sess[s] IN
    [listing EXCEPT
        ![r.listing].avail = Written(r.seen.avail, r.qty, @),
        ![r.listing].cap = Written(r.seen.cap, r.cap, @)]

\* The seller pauses, closes or activates again a listing that is not a draft.
StateRead(s, l, to) ==
    /\ Free(s, "state")
    /\ listing[l].state \in {"ACTIVE", "PAUSED", "CLOSED"} /\ to \in {"ACTIVE", "PAUSED", "CLOSED"}
    /\ Become(s, [Idle EXCEPT !.pc = "state", !.listing = l, !.to = to, !.seen = listing[l]])
    /\ UNCHANGED <<tables, lapsed, rollbacks>>

ListingAfterState(s) ==
    LET r == sess[s] IN
    [listing EXCEPT ![r.listing].state = Written(r.seen.state, r.to, @)]

UpdateCommit(s) ==
    /\ sess[s].pc \in {"edit", "state"} /\ Unblocked(s)
    /\ listing' = IF At(s, "edit") THEN ListingAfterEdit(s) ELSE ListingAfterState(s)
    /\ RowAllowed(s, listing')
    /\ Become(s, Idle)
    /\ UNCHANGED <<batch, batches, lapsed, offer, order, held, active, rollbacks>>

---------------------------------------------------------------------------
\* The listing the session would write breaks the table's check: it is rolled back.
CheckRefuses(s) ==
    /\ Unblocked(s)
    /\ \/ sess[s].pc \in {"acceptCommit", "draftReserve"} /\ ~RowAllowed(s, ListingAfterSale(s))
       \/ At(s, "restore") /\ ~RowAllowed(s, ListingAfterRestore(s))
       \/ At(s, "restockCommit") /\ ~RowAllowed(s, ListingAfterRestock(s))
       \/ At(s, "edit") /\ ~RowAllowed(s, ListingAfterEdit(s))
    /\ Become(s, Idle)
    /\ UNCHANGED <<tables, lapsed, rollbacks>>

---------------------------------------------------------------------------
\* A worker dies or its transaction fails.
Rollback(s) ==
    /\ ~At(s, "idle") /\ "die" \in mix.operations /\ rollbacks < MaxRollbacks
    /\ Become(s, Idle)
    /\ rollbacks' = rollbacks + 1
    /\ UNCHANGED <<tables, lapsed>>

\* PostgreSQL aborts one of two transactions that wait for each other.
DeadlockVictim(s) ==
    /\ \E s2 \in Sessions : Waits(s, s2) /\ Waits(s2, s)
    /\ Become(s, Idle)
    /\ UNCHANGED <<tables, lapsed, rollbacks>>

Continue(s) ==
    \/ AnswerCommit(s)
    \/ AcceptReserve(s)
    \/ AcceptCommit(s)
    \/ DraftFlush(s)
    \/ DraftCommit(s)
    \/ DraftShort(s)
    \/ TransitionCommit(s)
    \/ CancelCommit(s)
    \/ ReleaseLock(s)
    \/ RestoreCommit(s)
    \/ RestockLock(s)
    \/ RestockCommit(s)
    \/ PublishCommit(s)
    \/ UpdateCommit(s)
    \/ CheckRefuses(s)
    \/ DeadlockVictim(s)

Begin(s) ==
    \/ \E f \in Offers, op \in Answers : AnswerRead(s, f, op)
    \/ \E f \in Offers : AcceptRead(s, f)
    \/ \E l \in Listings, q \in 1..MaxQty : DraftRead(s, l, q)
    \/ \E o \in Orders, to \in OrderStates : TransitionRead(s, o, to)
    \/ \E o \in Orders : CancelRead(s, o)
    \/ \E l \in Listings, q \in 0..MaxQty : RestockRead(s, l, q)
    \/ \E l \in Listings, who \in Owners : PublishLock(s, l, who)
    \/ \E l \in Listings, cap, avail \in 1..MaxQty : EditRead(s, l, cap, avail)
    \/ \E l \in Listings, to \in {"ACTIVE", "PAUSED", "CLOSED"} : StateRead(s, l, to)

Next ==
    \/ \E l \in Listings, q \in 1..MaxQty, state \in {"DRAFT", "ACTIVE"} : CreateListing(l, q, state)
    \/ \E l \in Listings, q \in 1..MaxQty : CreateOffer(l, q)
    \/ \E f \in Offers : OfferLapses(f)
    \/ \E s \in Sessions : Begin(s) \/ Continue(s) \/ Rollback(s)

Spec == Init /\ [][Next]_vars

---------------------------------------------------------------------------
(* Properties *)

\* What the active reservations of a batch add up to.
HeldOf(b) == SumFunctionOnSet([o \in Orders |-> held[o][b]], active)

\* The counter of a batch is the sum of its active reservations.
CountersHold == \A b \in Listings : batch[b].reserved = HeldOf(b)

\* Overselling is impossible under concurrency (docs/business-rules.md): active
\* reservations never promise more of a batch than there is.
HeldFits == \A b \in Listings : HeldOf(b) <= batch[b].total

\* The counter of a batch is the sum of its active reservations, whatever requests
\* interleave, until two cancellations release one order at once: the second takes from
\* the counter what the first has taken already.
ReservedIsHeld == ~twin => CountersHold

\* Whatever requests interleave, no batch has more reserved than there is, until two
\* cancellations have released one order at once.
NoOversell == ~twin => HeldFits

Live(o) == order[o].state \notin {"NONE", "CANCELLED", "REFUNDED"}

\* An order that is still on has its whole quantity reserved.
LiveIsBacked ==
    \A o \in Orders : Live(o) =>
        /\ o \in active
        /\ LET amount(b) == held[o][b] IN MapThenSumSet(amount, Listings) = order[o].qty

OrdersOf(f) == {o \in Orders : order[o].offer = f}

\* One session makes all the requests.
Alone == \A s, t \in mix.sessions : s = t

\* An offer is ACCEPTED exactly when one order was made of it, and no offer makes two, as
\* long as requests come one after the other.
AcceptedIsOrdered == Alone =>
    \A f \in Offers : Cardinality(OrdersOf(f)) = IF offer[f].state = "ACCEPTED" THEN 1 ELSE 0

\* No offer is ever turned into two orders.
OneOrderPerOffer == \A f \in Offers : Cardinality(OrdersOf(f)) <= 1

\* Terminal offers cannot transition again (docs/business-rules.md).
TerminalOfferStays ==
    [][\A f \in Offers : offer[f].state \in {"ACCEPTED", "REJECTED", "WITHDRAWN"} =>
          offer'[f].state = offer[f].state]_vars

\* What the listings show is what the inventory has left, whatever is sold and restocked.
NeverDrifts ==
    LET shown(l) == listing[l].avail
    IN  MapThenSumSet(shown, Listings) = LeftIn(Listings)

\* A seller's only listing shows what the inventory has left, as long as requests come one
\* after the other and nothing is restocked.
NoDrift ==
    /\ Alone /\ Cardinality(mix.listings) = 1
    /\ mix.operations \cap {"create", "restock"} = {}
    => NeverDrifts

\* Inventory is created once per listing batch (listing_service.publish_listing), however
\* many requests publish the listing together.
OneBatch == \A l \in Listings, who \in Owners : batches[l][who] <= 1

\* A listing that is live has the seller's batch behind it.
LiveHasBatch == \A l \in Listings : listing[l].state = "ACTIVE" => batches[l]["seller"] = 1

\* No two requests wait for each other's rows.
NoLockCycle == \A s, s2 \in Sessions : ~(Waits(s, s2) /\ Waits(s2, s))

Cancelling(s) == sess[s].pc \in {"cancel", "release", "restore"}
Undone(s) == Rollback(s) \/ CheckRefuses(s) \/ DeadlockVictim(s)

\* A call of cancel_order that ends well leaves no reservation of the order ACTIVE,
\* whatever other requests do to the order between its two transactions.
CancelReleases ==
    [][\A s \in Sessions :
          Cancelling(s) /\ At(s, "idle")' => sess[s].order \notin active' \/ Undone(s)]_vars

\* A cancelled order has no ACTIVE reservation, unless the session that cancelled it is
\* still at it.
CancelledHoldsNothing ==
    \A o \in active : order[o].state = "CANCELLED" =>
        \E s \in Sessions : sess[s].pc \in {"release", "restore"} /\ sess[s].order = o
===========================================================================
