------------------------- MODULE Fulfilment_proofs -------------------------
(***************************************************************************)
(* What is proved of an order after its payment, for any number of orders,  *)
(* rows, carriers and sessions.  The tables keep their types and refer to    *)
(* rows that are there, and the trail of a delivery holds every stage up to  *)
(* its state, so that a confirmed delivery was carried whatever sessions     *)
(* report at once (TInv).  As long as requests come one after the other,     *)
(* what a request has read of its order is still so when it writes, so that  *)
(* a dispute freezes it and a completion is counted once (DInv).             *)
(***************************************************************************)
EXTENDS Fulfilment, Sums, TLAPS

---------------------------------------------------------------------------
(* The invariant of every interleaving *)

\* The stages up to that of x.
Before(x) == {y \in Stages : Stage(y) <= Stage(x)}

\* A row that is stored names rows that are stored; the trail of a delivery has no gap.
RequestOK(r) == request[r].state # "NONE" => request[r].order \in Orders /\ request[r].by \in Parties
QuoteOK(q) == quote[q].state # "NONE" =>
    /\ quote[q].carrier \in Carriers
    /\ quote[q].request \in Requests /\ request[quote[q].request].state # "NONE"
DeliveryOK(d) == delivery[d].state # "NONE" =>
    /\ delivery[d].order \in Orders /\ delivery[d].carrier \in Carriers
    /\ Before(delivery[d].state) \subseteq delivery[d].trail
DisputeOK(c) == dispute[c].state # "NONE" => dispute[c].order \in Orders
CarrierOK(o) == order[o].carrier # 0 => delivery[order[o].carrier].state # "NONE"

RowsOK ==
    /\ \A r \in Requests : RequestOK(r)
    /\ \A q \in Quotes : QuoteOK(q)
    /\ \A d \in Deliveries : DeliveryOK(d)
    /\ \A c \in Disputes : DisputeOK(c)
    /\ \A o \in Orders : CarrierOK(o)

\* What a session that is at a commit may rely on.
QuoteReads(r) == r.pc = "quote" =>
    r.row \in Requests /\ request[r.row].state # "NONE" /\ r.actor \in Carriers
AcceptReads(r) == r.pc = "acceptQuote" =>
    /\ r.row \in Quotes /\ quote[r.row].state # "NONE"
    /\ r.order \in Orders /\ r.orderTo \in {"PROCESSING", "NONE"}
    /\ \A p \in r.others : p \in Quotes /\ quote[p].state # "NONE"
AdvanceReads(r) == r.pc = "advance" =>
    /\ r.row \in Deliveries /\ delivery[r.row].state # "NONE"
    /\ r.order \in Orders /\ r.orderTo \in {"IN_TRANSIT", "DELIVERED", "NONE"}
    /\ r.to \in DeliveryStates \ {"NONE"}
    /\ r.to # "FAILED" => Before(r.to) \ {r.to} \subseteq delivery[r.row].trail
MoveReads(r) ==
    /\ r.pc \in {"ready", "count"} => r.order \in Orders
    /\ r.pc = "move" => r.order \in Orders /\ r.to \in OrderStates
DisputeReads(r) == r.pc = "dispute" =>
    r.order \in Orders /\ r.actor \in Parties \cup {"admin"} /\ r.orderTo \in {"DISPUTED", "NONE"}
ResolveReads(r) == r.pc = "resolve" =>
    /\ r.row \in Disputes /\ dispute[r.row].state # "NONE"
    /\ r.order \in Orders /\ r.orderTo \in {"COMPLETED", "REFUNDED", "NONE"}
    /\ r.to \in DisputeStates \ {"NONE"}
ReviewReads(r) == r.pc = "review" =>
    /\ r.order \in Orders /\ r.actor \in Parties /\ r.to \in {"farmer", "buyer", "logistics"}
    /\ r.subject \in Users /\ r.seen \in Nat

Reads(r) ==
    /\ DOMAIN r = DOMAIN Idle
    /\ QuoteReads(r) /\ AcceptReads(r) /\ AdvanceReads(r) /\ MoveReads(r)
    /\ DisputeReads(r) /\ ResolveReads(r) /\ ReviewReads(r)

SessOK == DOMAIN sess = Sessions /\ \A s \in Sessions : Reads(sess[s])

TInv == TypeOK /\ RowsOK /\ SessOK

---------------------------------------------------------------------------
(* Sessions *)

\* What is stored stays stored, and trails only grow.
Kept ==
    /\ \A r \in Requests : request[r].state # "NONE" => request'[r].state # "NONE"
    /\ \A q \in Quotes : quote[q].state # "NONE" => quote'[q].state # "NONE"
    /\ \A d \in Deliveries : delivery[d].state # "NONE" =>
          delivery'[d].state # "NONE" /\ delivery[d].trail \subseteq delivery'[d].trail
    /\ \A c \in Disputes : dispute[c].state # "NONE" => dispute'[c].state # "NONE"

\* A session's reads outlive the steps of the others.
LEMMA ReadsLast ==
    ASSUME Kept, NEW r, Reads(r)
    PROVE  Reads(r)'
<1>1. DOMAIN r = DOMAIN Idle
    BY DEF Reads
<1>2. QuoteReads(r)'
    BY DEF Kept, Reads, QuoteReads
<1>3. AcceptReads(r)'
    BY DEF Kept, Reads, AcceptReads
<1>4. AdvanceReads(r)'
    BY DEF Kept, Reads, AdvanceReads, Before
<1>5. ResolveReads(r)'
    BY DEF Kept, Reads, ResolveReads
<1>6. MoveReads(r)' /\ DisputeReads(r)' /\ ReviewReads(r)'
    BY DEF Reads, MoveReads, DisputeReads, ReviewReads
<1> QED BY <1>1, <1>2, <1>3, <1>4, <1>5, <1>6 DEF Reads, Idle

LEMMA IdleReads == Reads(Idle)'
BY DEF Reads, Idle, QuoteReads, AcceptReads, AdvanceReads, MoveReads, DisputeReads, ResolveReads,
       ReviewReads

LEMMA SessionsLast ==
    ASSUME SessOK, Kept,
           \/ sess' = sess
           \/ \E s \in Sessions : \E r : Become(s, r) /\ Reads(r)'
    PROVE  SessOK'
<1>1. CASE sess' = sess
    BY <1>1, ReadsLast DEF SessOK
<1>2. ASSUME NEW s \in Sessions, NEW r, Become(s, r), Reads(r)' PROVE SessOK'
  <2>1. DOMAIN sess' = Sessions /\ sess'[s] = r
        /\ \A t \in Sessions \ {s} : sess'[t] = sess[t]
      BY <1>2 DEF SessOK, Become
  <2>2. ASSUME NEW t \in Sessions PROVE Reads(sess[t])'
    <3>1. CASE t = s
        BY <1>2, <2>1, <3>1 DEF Reads, QuoteReads, AcceptReads, AdvanceReads, MoveReads, DisputeReads,
                                ResolveReads, ReviewReads
    <3>2. CASE t # s
      <4>1. Reads(sess[t]) /\ sess'[t] = sess[t]
          BY <2>1, <3>2 DEF SessOK
      <4> QED BY <4>1 DEF Reads, QuoteReads, AcceptReads, AdvanceReads, MoveReads, DisputeReads,
                          ResolveReads, ReviewReads, Kept, Before, Idle
    <3> QED BY <3>1, <3>2
  <2> QED BY <2>1, <2>2 DEF SessOK
<1> QED BY <1>1, <1>2

---------------------------------------------------------------------------
(* Requests that read *)

LEMMA TablesRest ==
    ASSUME TInv, NEW s \in Sessions, NEW r, Become(s, r), Reads(r), rollbacks' \in Nat,
           UNCHANGED <<order, request, quote, delivery, dispute, reviews, rated>>
    PROVE  TInv'
<1>1. TypeOK'
    BY DEF TInv, TypeOK
<1>2. RowsOK'
    BY DEF TInv, RowsOK, RequestOK, QuoteOK, DeliveryOK, DisputeOK, CarrierOK
<1>3. Kept
    BY DEF Kept
<1>4. SessOK'
    BY <1>3, ReadsLast, SessionsLast DEF TInv
<1> QED BY <1>1, <1>2, <1>4 DEF TInv

\* The graph and the roles.
LEMMA RulesTyped ==
    \A x \in OrderStates : Allowed[x] \in SUBSET OrderStates
BY DEF Allowed, OrderStates

LEMMA QuoteReadStep ==
    ASSUME TInv, NEW s \in Sessions, NEW r \in Requests, NEW c \in Carriers, QuoteRead(s, r, c)
    PROVE  TInv'
<1> DEFINE x == [Idle EXCEPT !.pc = "quote", !.row = r, !.actor = c, !.to = request[r].state]
<1>1. Become(s, x) /\ rollbacks' = rollbacks
      /\ UNCHANGED <<order, request, quote, delivery, dispute, reviews, rated>>
    BY DEF QuoteRead
<1>2. Reads(x)
    BY DEF QuoteRead, Idle, Reads, QuoteReads, AcceptReads, AdvanceReads, MoveReads, DisputeReads,
           ResolveReads, ReviewReads
<1> HIDE DEF x
<1> QED BY <1>1, <1>2, TablesRest DEF TInv, TypeOK

LEMMA AcceptReadStep ==
    ASSUME TInv, NEW s \in Sessions, NEW q \in Quotes, AcceptQuoteRead(s, q)
    PROVE  TInv'
<1> DEFINE o == request[quote[q].request].order
           x == [Idle EXCEPT !.pc = "acceptQuote", !.row = q, !.order = o,
                             !.actor = request[quote[q].request].by, !.others = Rivals(q),
                             !.orderTo = IF order[o].state = "PAID" THEN "PROCESSING" ELSE "NONE"]
<1>1. Become(s, x) /\ rollbacks' = rollbacks
      /\ UNCHANGED <<order, request, quote, delivery, dispute, reviews, rated>>
    BY DEF AcceptQuoteRead
<1>2. o \in Orders
    BY DEF AcceptQuoteRead, TInv, RowsOK, QuoteOK, RequestOK
<1>3. Reads(x)
    BY <1>2 DEF AcceptQuoteRead, Rivals, Idle, Reads, QuoteReads, AcceptReads, AdvanceReads, MoveReads,
                DisputeReads, ResolveReads, ReviewReads
<1> HIDE DEF x
<1> QED BY <1>1, <1>3, TablesRest DEF TInv, TypeOK

LEMMA ReadyStep ==
    ASSUME TInv, NEW s \in Sessions, ReadyRead(s)
    PROVE  TInv'
<1> DEFINE o == sess[s].order
           x == [Idle EXCEPT !.pc = "move", !.order = o, !.to = "READY_FOR_PICKUP"]
<1>1. o \in Orders
    BY DEF ReadyRead, At, TInv, SessOK, Reads, MoveReads
<1>2. Reads(x) /\ Reads(Idle)
    BY <1>1 DEF Idle, Reads, QuoteReads, AcceptReads, AdvanceReads, MoveReads, DisputeReads,
                ResolveReads, ReviewReads, OrderStates
<1>3. (Become(s, x) \/ Become(s, Idle)) /\ rollbacks' = rollbacks
      /\ UNCHANGED <<order, request, quote, delivery, dispute, reviews, rated>>
    BY DEF ReadyRead
<1> HIDE DEF x
<1> QED BY <1>2, <1>3, TablesRest DEF TInv, TypeOK

\* A stage is its place.
LEMMA StagesApart ==
    /\ \A x, y \in Stages : Stage(x) = Stage(y) => x = y
    /\ \A x \in DeliveryStates : Stage(x) \in 0 .. 5
    /\ DeliveryStates = Stages \cup {"NONE", "FAILED"}
<1>1. /\ Stage("ACCEPTED") = 0 /\ Stage("PICKUP_SCHEDULED") = 1 /\ Stage("PICKED_UP") = 2
      /\ Stage("IN_TRANSIT") = 3 /\ Stage("DELIVERED") = 4 /\ Stage("CONFIRMED") = 5
      /\ Stage("NONE") = 0 /\ Stage("FAILED") = 0
    BY DEF Stage
<1>2. DeliveryStates = Stages \cup {"NONE", "FAILED"}
    BY DEF Stages, DeliveryStates
<1>3. \A x, y \in Stages : Stage(x) = Stage(y) => x = y
    BY <1>1 DEF Stages
<1>4. \A x \in DeliveryStates : Stage(x) \in 0 .. 5
    BY <1>1 DEF DeliveryStates
<1> QED BY <1>2, <1>3, <1>4

\* Whoever may report a stage finds all stages before it in the trail.
LEMMA AdvanceReadStep ==
    ASSUME TInv, NEW s \in Sessions, NEW d \in Deliveries, NEW u \in Users,
           NEW to \in DeliveryStates, AdvanceRead(s, d, u, to)
    PROVE  TInv'
<1> DEFINE x == [Idle EXCEPT !.pc = "advance", !.row = d, !.order = delivery[d].order, !.to = to,
                             !.orderTo = Follows(d, u, to)]
<1>1. Become(s, x) /\ rollbacks' = rollbacks
      /\ UNCHANGED <<order, request, quote, delivery, dispute, reviews, rated>>
    BY DEF AdvanceRead
<1>2. Follows(d, u, to) \in {"IN_TRANSIT", "DELIVERED", "NONE"}
    BY DEF Follows
<1>3. /\ delivery[d].state # "NONE" /\ delivery[d].order \in Orders /\ to # "NONE"
      /\ Before(delivery[d].state) \subseteq delivery[d].trail
    BY DEF AdvanceRead, TInv, RowsOK, DeliveryOK
<1>4. to # "FAILED" => Before(to) \ {to} \subseteq delivery[d].trail
  <2> SUFFICES ASSUME to # "FAILED", NEW y \in Before(to) \ {to}
               PROVE  y \in Before(delivery[d].state)
      BY <1>3
  <2>1. Stage(to) = Stage(delivery[d].state) + 1
      BY DEF AdvanceRead, MayAdvance, NextStage
  <2>2. to \in Stages /\ y \in Stages /\ Stage(y) <= Stage(to) /\ Stage(y) # Stage(to)
      BY <1>3, StagesApart DEF Before
  <2>3. delivery[d].state \in DeliveryStates /\ y \in DeliveryStates
      BY <2>2, StagesApart DEF TInv, TypeOK
  <2>4. Stage(y) \in Int /\ Stage(to) \in Int /\ Stage(delivery[d].state) \in Int
      BY <2>3, StagesApart
  <2> QED BY <2>1, <2>2, <2>4 DEF Before
<1>5. Reads(x)
    BY <1>2, <1>3, <1>4 DEF Idle, Reads, QuoteReads, AcceptReads, AdvanceReads, MoveReads,
                            DisputeReads, ResolveReads, ReviewReads
<1> HIDE DEF x
<1> QED BY <1>1, <1>5, TablesRest DEF TInv, TypeOK

LEMMA MoveReadStep ==
    ASSUME TInv, NEW s \in Sessions, NEW o \in Orders, NEW role, NEW to \in OrderStates,
           MoveRead(s, o, role, to)
    PROVE  TInv'
<1> DEFINE x == [Idle EXCEPT !.pc = "move", !.order = o, !.to = to]
<1>1. Become(s, x) /\ rollbacks' = rollbacks
      /\ UNCHANGED <<order, request, quote, delivery, dispute, reviews, rated>>
    BY DEF MoveRead
<1>2. Reads(x)
    BY DEF Idle, Reads, QuoteReads, AcceptReads, AdvanceReads, MoveReads, DisputeReads,
           ResolveReads, ReviewReads
<1> HIDE DEF x
<1> QED BY <1>1, <1>2, TablesRest DEF TInv, TypeOK

LEMMA DisputeReadStep ==
    ASSUME TInv, NEW s \in Sessions, NEW o \in Orders, NEW by \in Parties \cup {"admin"},
           DisputeRead(s, o, by)
    PROVE  TInv'
<1> DEFINE x == [Idle EXCEPT !.pc = "dispute", !.order = o, !.actor = by, !.orderTo = FrozenTo(o)]
<1>1. Become(s, x) /\ rollbacks' = rollbacks
      /\ UNCHANGED <<order, request, quote, delivery, dispute, reviews, rated>>
    BY DEF DisputeRead
<1>2. FrozenTo(o) \in {"DISPUTED", "NONE"}
    BY DEF FrozenTo
<1>3. Reads(x)
    BY <1>2 DEF Idle, Reads, QuoteReads, AcceptReads, AdvanceReads, MoveReads, DisputeReads,
                ResolveReads, ReviewReads
<1> HIDE DEF x
<1> QED BY <1>1, <1>3, TablesRest DEF TInv, TypeOK

LEMMA ResolveReadStep ==
    ASSUME TInv, NEW s \in Sessions, NEW c \in Disputes, NEW to \in DisputeStates,
           NEW refund \in BOOLEAN, ReviewDisputeRead(s, c, to, refund)
    PROVE  TInv'
<1> DEFINE x == [Idle EXCEPT !.pc = "resolve", !.row = c, !.order = dispute[c].order, !.to = to,
                             !.orderTo = OrderResolved(dispute[c].order, to, refund)]
<1>1. Become(s, x) /\ rollbacks' = rollbacks
      /\ UNCHANGED <<order, request, quote, delivery, dispute, reviews, rated>>
    BY DEF ReviewDisputeRead
<1>2. OrderResolved(dispute[c].order, to, refund) \in {"COMPLETED", "REFUNDED", "NONE"}
    BY DEF OrderResolved
<1>3. dispute[c].state # "NONE" /\ to # "NONE"
    BY DEF ReviewDisputeRead, DisputeMoves
<1>4. dispute[c].order \in Orders
    BY <1>3 DEF TInv, RowsOK, DisputeOK
<1>5. Reads(x)
    BY <1>2, <1>3, <1>4 DEF Idle, Reads, QuoteReads, AcceptReads, AdvanceReads, MoveReads,
                            DisputeReads, ResolveReads, ReviewReads
<1> HIDE DEF x
<1> QED BY <1>1, <1>5, TablesRest DEF TInv, TypeOK

LEMMA ReviewReadStep ==
    ASSUME TInv, NEW s \in Sessions, NEW o \in Orders, NEW by \in Parties,
           NEW role \in {"farmer", "buyer", "logistics"}, ReviewRead(s, o, by, role)
    PROVE  TInv'
<1> DEFINE x == [Idle EXCEPT !.pc = "review", !.order = o, !.actor = by, !.to = role,
                             !.subject = Subject(o, by, role),
                             !.seen = rated[Subject(o, by, role)]]
<1>1. Become(s, x) /\ rollbacks' = rollbacks
      /\ UNCHANGED <<order, request, quote, delivery, dispute, reviews, rated>>
    BY DEF ReviewRead
<1>2. Subject(o, by, role) \in Users
  <2>1. CASE role = "logistics"
    <3>1. order[o].carrier \in Deliveries /\ delivery[order[o].carrier].state # "NONE"
        BY <2>1 DEF ReviewRead, MayReview, TInv, TypeOK, RowsOK, CarrierOK
    <3>2. delivery[order[o].carrier].carrier \in Carriers
        BY <3>1 DEF TInv, RowsOK, DeliveryOK
    <3>3. Subject(o, by, role) = delivery[order[o].carrier].carrier
        BY <2>1 DEF Subject
    <3> QED BY <3>2, <3>3 DEF Users
  <2>2. CASE role # "logistics"
      BY <2>2 DEF Subject, Users, Parties
  <2> QED BY <2>1, <2>2
<1>3. rated[Subject(o, by, role)] \in Nat
    BY <1>2 DEF TInv, TypeOK
<1>4. Reads(x)
    BY <1>2, <1>3 DEF Idle, Reads, QuoteReads, AcceptReads, AdvanceReads, MoveReads, DisputeReads,
                      ResolveReads, ReviewReads
<1> HIDE DEF x
<1> QED BY <1>1, <1>4, TablesRest DEF TInv, TypeOK

LEMMA BeginStep ==
    ASSUME TInv, NEW s \in Sessions, Begin(s)
    PROVE  TInv'
BY QuoteReadStep, AcceptReadStep, AdvanceReadStep, MoveReadStep, DisputeReadStep, ResolveReadStep,
   ReviewReadStep DEF Begin

LEMMA RollbackStep ==
    ASSUME TInv, NEW s \in Sessions, Rollback(s)
    PROVE  TInv'
<1>1. Reads(Idle)
    BY DEF Idle, Reads, QuoteReads, AcceptReads, AdvanceReads, MoveReads, DisputeReads,
           ResolveReads, ReviewReads
<1>2. rollbacks' \in Nat
    BY DEF Rollback, TInv, TypeOK
<1> QED BY <1>1, <1>2, TablesRest DEF Rollback

---------------------------------------------------------------------------
(* Requests that write *)

OrderRow == [state : OrderStates, carrier : Deliveries \cup {0}, counted : Nat]

\* An order is moved without touching its other columns.
LEMMA MovedOrder ==
    ASSUME TypeOK, NEW o \in Orders, NEW to \in OrderStates \cup {"NONE"}
    PROVE  /\ OrderMoved(o, to) \in [Orders -> OrderRow]
           /\ \A p \in Orders :
                /\ OrderMoved(o, to)[p].carrier = order[p].carrier
                /\ OrderMoved(o, to)[p].counted = order[p].counted
                /\ OrderMoved(o, to)[p].state =
                        IF p = o /\ to # "NONE" THEN to ELSE order[p].state
<1>1. order \in [Orders -> OrderRow]
    BY DEF TypeOK, OrderRow
<1>2. CASE to = "NONE"
    BY <1>1, <1>2 DEF OrderMoved
<1>3. CASE to # "NONE"
  <2>1. OrderMoved(o, to) = [order EXCEPT ![o] = [order[o] EXCEPT !.state = to]]
      BY <1>3 DEF OrderMoved
  <2>2. [order[o] EXCEPT !.state = to] \in OrderRow
      BY <1>1, <1>3 DEF OrderRow
  <2> QED BY <1>1, <1>3, <2>1, <2>2 DEF OrderRow
<1> QED BY <1>2, <1>3

LEMMA FirstRow ==
    ASSUME NEW n \in Nat, NEW t, DOMAIN t = 1 .. n, Unused(t) # {}
    PROVE  Min(Unused(t)) \in 1 .. n /\ t[Min(Unused(t))].state = "NONE"
<1>1. Unused(t) \in SUBSET (1 .. n)
    BY DEF Unused
<1>2. Min(Unused(t)) \in Unused(t)
    BY <1>1, FirstIsFree
<1> QED BY <1>1, <1>2 DEF Unused

LEMMA IdleReadsNow == Reads(Idle)
BY DEF Reads, Idle, QuoteReads, AcceptReads, AdvanceReads, MoveReads, DisputeReads, ResolveReads,
       ReviewReads

\* A step that moves at most orders.
LEMMA OrdersMove ==
    ASSUME TInv, order' \in [Orders -> OrderRow],
           \A p \in Orders : order'[p].carrier = order[p].carrier,
           UNCHANGED <<request, quote, delivery, dispute, reviews, rated, rollbacks>>,
           SessOK'
    PROVE  TInv'
<1>1. TypeOK'
    BY DEF TInv, TypeOK, OrderRow
<1>2. RowsOK'
    BY DEF TInv, RowsOK, RequestOK, QuoteOK, DeliveryOK, DisputeOK, CarrierOK
<1> QED BY <1>1, <1>2 DEF TInv

LEMMA PaymentStep ==
    ASSUME TInv, NEW o \in Orders, PaymentConfirmed(o)
    PROVE  TInv'
<1>1. order' = OrderMoved(o, "PAID") /\ sess' = sess
      /\ UNCHANGED <<request, quote, delivery, dispute, reviews, rated, rollbacks>>
    BY DEF PaymentConfirmed
<1>2. /\ order' \in [Orders -> OrderRow]
      /\ \A p \in Orders : order'[p].carrier = order[p].carrier
    BY <1>1, MovedOrder DEF TInv, OrderStates
<1>3. SessOK'
    BY <1>1, SessionsLast DEF TInv, Kept
<1> QED BY <1>1, <1>2, <1>3, OrdersMove

LEMMA MoveStep ==
    ASSUME TInv, NEW s \in Sessions, MoveCommit(s)
    PROVE  TInv'
<1> DEFINE r == sess[s]
           x == [r EXCEPT !.pc = "count"]
<1>1. /\ r.pc = "move" /\ order' = OrderMoved(r.order, r.to)
      /\ Become(s, x) \/ Become(s, Idle)
      /\ UNCHANGED <<request, quote, delivery, dispute, reviews, rated, rollbacks>>
    BY DEF MoveCommit, At
<1>2. DOMAIN r = DOMAIN Idle /\ r.order \in Orders /\ r.to \in OrderStates
    BY <1>1 DEF TInv, SessOK, Reads, MoveReads
<1>3. Reads(x)
    BY <1>2 DEF Idle, Reads, QuoteReads, AcceptReads, AdvanceReads, MoveReads, DisputeReads,
                ResolveReads, ReviewReads
<1>4. /\ order' \in [Orders -> OrderRow]
      /\ \A p \in Orders : order'[p].carrier = order[p].carrier
    BY <1>1, <1>2, MovedOrder DEF TInv
<1>5. Kept
    BY <1>1 DEF Kept
<1>6. SessOK'
  <2>1. PICK y : y = x
      OBVIOUS
  <2>2. Reads(y) /\ (Become(s, y) \/ Become(s, Idle))
      BY <1>1, <1>3, <2>1
  <2>3. Reads(y)' /\ Reads(Idle)'
      BY <1>5, <2>2, ReadsLast, IdleReads
  <2> QED BY <1>5, <2>2, <2>3, SessionsLast DEF TInv
<1> QED BY <1>1, <1>4, <1>6, OrdersMove

LEMMA CountStep ==
    ASSUME TInv, NEW s \in Sessions, CountCommit(s)
    PROVE  TInv'
<1> DEFINE o == sess[s].order
<1>1. /\ o \in Orders
      /\ order' = [order EXCEPT ![o] = [order[o] EXCEPT !.counted = order[o].counted + 1]]
      /\ Become(s, Idle)
      /\ UNCHANGED <<request, quote, delivery, dispute, reviews, rated, rollbacks>>
    BY DEF CountCommit, At, TInv, SessOK, Reads, MoveReads
<1>2. order \in [Orders -> OrderRow]
    BY DEF TInv, TypeOK, OrderRow
<1>3. [order[o] EXCEPT !.counted = order[o].counted + 1] \in OrderRow
      /\ [order[o] EXCEPT !.counted = order[o].counted + 1].carrier = order[o].carrier
    BY <1>1, <1>2 DEF OrderRow
<1>4. order' \in [Orders -> OrderRow] /\ \A p \in Orders : order'[p].carrier = order[p].carrier
    BY <1>1, <1>2, <1>3
<1>5. SessOK'
    BY <1>1, IdleReads, SessionsLast DEF TInv, Kept
<1> QED BY <1>1, <1>4, <1>5, OrdersMove

RequestRow == [state : {"NONE", "REQUESTED", "QUOTED", "MATCHED"},
               order : Orders \cup {"none"}, by : Parties \cup {"none"}]
QuoteRow == [state : {"NONE", "SUBMITTED", "ACCEPTED", "DECLINED"},
             request : Requests \cup {0}, carrier : Carriers \cup {"none"}]
DeliveryRow == [state : DeliveryStates, request : Requests \cup {0},
                order : Orders \cup {"none"}, carrier : Carriers \cup {"none"},
                trail : SUBSET DeliveryStates]
DisputeRow == [state : DisputeStates, order : Orders \cup {"none"},
               by : Parties \cup {"admin", "none"}]

LEMMA CreateStep ==
    ASSUME TInv, NEW o \in Orders, NEW by \in Parties, CreateRequest(o, by)
    PROVE  TInv'
<1> DEFINE i == Min(Unused(request))
           row == [state |-> "REQUESTED", order |-> o, by |-> by]
<1>1. request \in [Requests -> RequestRow] /\ row \in RequestRow
    BY DEF TInv, TypeOK, RequestRow
<1>2. i \in Requests /\ request[i].state = "NONE"
    BY <1>1, FirstRow, FulfilmentAssumption DEF CreateRequest, Requests
<1>3. /\ request' = [request EXCEPT ![i] = row]
      /\ UNCHANGED <<order, quote, delivery, dispute, reviews, rated, sess, rollbacks>>
    BY DEF CreateRequest
<1>4. row.state # "NONE" /\ row.order \in Orders /\ row.by \in Parties
    OBVIOUS
<1> HIDE DEF i, row
<1>5. /\ request' \in [Requests -> RequestRow]
      /\ \A r \in Requests : request'[r] = IF r = i THEN row ELSE request[r]
    BY <1>1, <1>2, <1>3
<1>6. TypeOK'
    BY <1>3, <1>5 DEF TInv, TypeOK, RequestRow
<1>7. RowsOK'
    BY <1>2, <1>3, <1>4, <1>5 DEF TInv, RowsOK, RequestOK, QuoteOK, DeliveryOK, DisputeOK, CarrierOK
<1>8. Kept
    BY <1>3, <1>4, <1>5 DEF Kept
<1>9. SessOK'
    BY <1>3, <1>8, SessionsLast DEF TInv
<1> QED BY <1>6, <1>7, <1>9 DEF TInv

LEMMA QuoteStep ==
    ASSUME TInv, NEW s \in Sessions, QuoteCommit(s)
    PROVE  TInv'
<1> DEFINE r == sess[s].row
           i == Min(Unused(quote))
           row == [state |-> "SUBMITTED", request |-> r, carrier |-> sess[s].actor]
<1>1. r \in Requests /\ request[r].state # "NONE" /\ sess[s].actor \in Carriers
    BY DEF QuoteCommit, At, TInv, SessOK, Reads, QuoteReads
<1>2. quote \in [Quotes -> QuoteRow] /\ row \in QuoteRow /\ request \in [Requests -> RequestRow]
    BY <1>1 DEF TInv, TypeOK, QuoteRow, RequestRow
<1>3. i \in Quotes /\ quote[i].state = "NONE"
    BY <1>2, FirstRow, FulfilmentAssumption DEF QuoteCommit, Quotes
<1>4. /\ quote' = [quote EXCEPT ![i] = row] /\ Become(s, Idle)
      /\ \/ request' = [request EXCEPT ![r] = [request[r] EXCEPT !.state = "QUOTED"]]
         \/ request' = request
      /\ UNCHANGED <<order, delivery, dispute, reviews, rated, rollbacks>>
    BY DEF QuoteCommit
<1>5. row.state # "NONE" /\ row.request = r /\ row.carrier \in Carriers
    BY <1>1
<1> HIDE DEF i, row, r
<1>6. /\ quote' \in [Quotes -> QuoteRow]
      /\ \A q \in Quotes : quote'[q] = IF q = i THEN row ELSE quote[q]
    BY <1>2, <1>3, <1>4
<1>7. /\ request' \in [Requests -> RequestRow]
      /\ \A p \in Requests : /\ request'[p].order = request[p].order
                             /\ request'[p].by = request[p].by
                             /\ request'[p].state = "NONE" <=> request[p].state = "NONE"
    BY <1>1, <1>2, <1>4 DEF RequestRow
<1>8. TypeOK'
    BY <1>4, <1>6, <1>7 DEF TInv, TypeOK, QuoteRow, RequestRow
<1>9. RowsOK'
    BY <1>1, <1>4, <1>5, <1>6, <1>7
    DEF TInv, RowsOK, RequestOK, QuoteOK, DeliveryOK, DisputeOK, CarrierOK
<1>10. Kept
    BY <1>4, <1>5, <1>6, <1>7 DEF Kept
<1>11. SessOK'
    BY <1>4, <1>10, IdleReads, SessionsLast DEF TInv
<1> QED BY <1>8, <1>9, <1>11 DEF TInv

\* A new delivery starts with the first stage in its trail.
LEMMA AcceptStep ==
    ASSUME TInv, NEW s \in Sessions, AcceptQuoteCommit(s)
    PROVE  TInv'
<1> DEFINE q == sess[s].row
           r == quote[q].request
           o == sess[s].order
           d == Min(Unused(delivery))
           row == [state |-> "ACCEPTED", request |-> r, order |-> o, carrier |-> quote[q].carrier,
                   trail |-> {"ACCEPTED"}]
           moved == OrderMoved(o, sess[s].orderTo)
           x == [sess[s] EXCEPT !.pc = "ready"]
<1>1. /\ q \in Quotes /\ quote[q].state # "NONE" /\ o \in Orders
      /\ sess[s].orderTo \in OrderStates \cup {"NONE"}
      /\ DOMAIN sess[s] = DOMAIN Idle
    BY DEF AcceptQuoteCommit, At, TInv, SessOK, Reads, AcceptReads, OrderStates
<1>2. r \in Requests /\ request[r].state # "NONE" /\ quote[q].carrier \in Carriers
    BY <1>1 DEF TInv, RowsOK, QuoteOK
<1>3. /\ quote \in [Quotes -> QuoteRow] /\ request \in [Requests -> RequestRow]
      /\ delivery \in [Deliveries -> DeliveryRow] /\ row \in DeliveryRow
    BY <1>1, <1>2 DEF TInv, TypeOK, QuoteRow, RequestRow, DeliveryRow, DeliveryStates
<1>4. d \in Deliveries /\ delivery[d].state = "NONE"
    BY <1>3, FirstRow, FulfilmentAssumption DEF AcceptQuoteCommit, Deliveries
<1>5. /\ delivery' = [delivery EXCEPT ![d] = row]
      /\ request' = [request EXCEPT ![r] = [request[r] EXCEPT !.state = "MATCHED"]]
      /\ order' = [moved EXCEPT ![o] = [moved[o] EXCEPT !.carrier = d]]
      /\ Become(s, x) \/ Become(s, Idle)
      /\ UNCHANGED <<dispute, reviews, rated, rollbacks>>
    BY DEF AcceptQuoteCommit
<1>6. /\ quote' \in [Quotes -> QuoteRow]
      /\ \A p \in Quotes : /\ quote'[p].request = quote[p].request
                           /\ quote'[p].carrier = quote[p].carrier
                           /\ quote'[p].state # "NONE" <=> quote[p].state # "NONE"
  <2> DEFINE answer(p) == IF p = q THEN [quote[p] EXCEPT !.state = "ACCEPTED"]
                          ELSE IF p \in sess[s].others THEN [quote[p] EXCEPT !.state = "DECLINED"]
                          ELSE quote[p]
  <2>1. quote' = [p \in Quotes |-> answer(p)]
      BY DEF AcceptQuoteCommit
  <2>2. ASSUME NEW p \in Quotes
        PROVE  /\ answer(p) \in QuoteRow
               /\ answer(p).request = quote[p].request /\ answer(p).carrier = quote[p].carrier
               /\ answer(p).state # "NONE" <=> quote[p].state # "NONE"
    <3>1. quote[p] \in QuoteRow /\ (p = q \/ p \in sess[s].others => quote[p].state # "NONE")
        BY <1>1, <1>3 DEF AcceptQuoteCommit, At, TInv, SessOK, Reads, AcceptReads
    <3> QED BY <3>1 DEF QuoteRow
  <2> HIDE DEF answer
  <2> QED BY <2>1, <2>2
<1>7. /\ request' \in [Requests -> RequestRow]
      /\ \A p \in Requests : /\ request'[p].order = request[p].order
                             /\ request'[p].by = request[p].by
                             /\ request'[p].state = "NONE" <=> request[p].state = "NONE"
    BY <1>2, <1>3, <1>5 DEF RequestRow
<1>8. /\ row.state # "NONE" /\ row.order \in Orders /\ row.carrier \in Carriers
      /\ Before(row.state) \subseteq row.trail
  <2>1. Before("ACCEPTED") = {"ACCEPTED"}
      BY DEF Before, Stages, Stage
  <2> QED BY <1>1, <1>2, <2>1
<1> HIDE DEF row
<1>9. /\ delivery' \in [Deliveries -> DeliveryRow]
      /\ \A p \in Deliveries : delivery'[p] = IF p = d THEN row ELSE delivery[p]
    BY <1>3, <1>4, <1>5
<1>10. /\ order' \in [Orders -> OrderRow]
       /\ \A p \in Orders : order'[p].carrier = IF p = o THEN d ELSE order[p].carrier
  <2>1. moved \in [Orders -> OrderRow] /\ \A p \in Orders : moved[p].carrier = order[p].carrier
      BY <1>1, MovedOrder DEF TInv
  <2> HIDE DEF moved, d
  <2>2. [moved[o] EXCEPT !.carrier = d] \in OrderRow /\ [moved[o] EXCEPT !.carrier = d].carrier = d
      BY <1>1, <1>4, <2>1 DEF OrderRow
  <2> QED BY <1>1, <1>5, <2>1, <2>2
<1> HIDE DEF moved, d, r
<1>11. TypeOK'
    BY <1>5, <1>6, <1>7, <1>9, <1>10
    DEF TInv, TypeOK, QuoteRow, RequestRow, DeliveryRow, OrderRow
<1>12. RowsOK'
  <2>1. \A p \in Requests : RequestOK(p)'
      BY <1>7 DEF TInv, RowsOK, RequestOK
  <2>2. \A p \in Quotes : QuoteOK(p)'
      BY <1>6, <1>7 DEF TInv, RowsOK, QuoteOK
  <2>3. \A p \in Deliveries : DeliveryOK(p)'
      BY <1>8, <1>9 DEF TInv, RowsOK, DeliveryOK, Before
  <2>4. \A p \in Disputes : DisputeOK(p)'
      BY <1>5 DEF TInv, RowsOK, DisputeOK
  <2>5. \A p \in Orders : CarrierOK(p)'
      BY <1>4, <1>8, <1>9, <1>10 DEF TInv, TypeOK, RowsOK, CarrierOK
  <2> QED BY <2>1, <2>2, <2>3, <2>4, <2>5 DEF RowsOK
<1>13. Kept
    BY <1>4, <1>5, <1>6, <1>7, <1>8, <1>9 DEF Kept
<1>14. SessOK'
  <2>1. Reads(x)
      BY <1>1 DEF Idle, Reads, QuoteReads, AcceptReads, AdvanceReads, MoveReads, DisputeReads,
                  ResolveReads, ReviewReads
  <2>2. PICK y : y = x
      OBVIOUS
  <2>3. Reads(y) /\ (Become(s, y) \/ Become(s, Idle))
      BY <1>5, <2>1, <2>2
  <2>4. Reads(y)' /\ Reads(Idle)'
      BY <1>13, <2>3, ReadsLast, IdleReads
  <2> QED BY <1>13, <2>3, <2>4, SessionsLast DEF TInv
<1> QED BY <1>11, <1>12, <1>14 DEF TInv

\* The stage that is reported is the one the trail lacked, or a failure.
LEMMA AdvanceStep ==
    ASSUME TInv, NEW s \in Sessions, AdvanceCommit(s)
    PROVE  TInv'
<1> DEFINE r == sess[s]
           d == r.row
           row == [delivery[d] EXCEPT !.state = r.to, !.trail = delivery[d].trail \cup {r.to}]
<1>1. /\ d \in Deliveries /\ delivery[d].state # "NONE" /\ r.order \in Orders
      /\ r.orderTo \in OrderStates \cup {"NONE"} /\ r.to \in DeliveryStates \ {"NONE"}
      /\ r.to # "FAILED" => Before(r.to) \ {r.to} \subseteq delivery[d].trail
    BY DEF AdvanceCommit, At, TInv, SessOK, Reads, AdvanceReads, OrderStates
<1>2. /\ delivery' = [delivery EXCEPT ![d] = row] /\ order' = OrderMoved(r.order, r.orderTo)
      /\ Become(s, Idle) /\ UNCHANGED <<request, quote, dispute, reviews, rated, rollbacks>>
    BY DEF AdvanceCommit
<1>3. delivery \in [Deliveries -> DeliveryRow]
    BY DEF TInv, TypeOK, DeliveryRow
<1>4. /\ row \in DeliveryRow /\ row.state = r.to /\ row.trail = delivery[d].trail \cup {r.to}
      /\ row.order = delivery[d].order /\ row.carrier = delivery[d].carrier
  <2>1. delivery[d] \in DeliveryRow
      BY <1>1, <1>3
  <2>2. delivery[d].trail \cup {r.to} \in SUBSET DeliveryStates
      BY <1>1, <2>1 DEF DeliveryRow
  <2> QED BY <1>1, <2>1, <2>2 DEF DeliveryRow
<1>5. Before(row.state) \subseteq row.trail
  <2>1. CASE r.to = "FAILED"
    <3>1. Before("FAILED") = {"ACCEPTED"}
        BY DEF Before, Stages, Stage
    <3>2. "ACCEPTED" \in Before(delivery[d].state)
      <4>1. Stage("ACCEPTED") = 0 /\ Stage(delivery[d].state) \in 0 .. 5
          BY <1>1, <1>3, StagesApart DEF Stage, DeliveryRow
      <4> QED BY <4>1 DEF Before, Stages
    <3> QED BY <1>1, <1>4, <2>1, <3>1, <3>2 DEF TInv, RowsOK, DeliveryOK
  <2>2. CASE r.to # "FAILED"
      BY <1>1, <1>4, <2>2
  <2> QED BY <2>1, <2>2
<1> HIDE DEF row
<1>6. /\ delivery' \in [Deliveries -> DeliveryRow]
      /\ \A p \in Deliveries : delivery'[p] = IF p = d THEN row ELSE delivery[p]
    BY <1>1, <1>2, <1>3, <1>4
<1>7. /\ order' \in [Orders -> OrderRow]
      /\ \A p \in Orders : order'[p].carrier = order[p].carrier
    BY <1>1, <1>2, MovedOrder DEF TInv
<1> HIDE DEF d, r
<1>8. TypeOK'
    BY <1>2, <1>6, <1>7 DEF TInv, TypeOK, DeliveryRow, OrderRow
<1>9. RowsOK'
  <2>1. \A p \in Deliveries : DeliveryOK(p)'
      BY <1>1, <1>4, <1>5, <1>6 DEF TInv, RowsOK, DeliveryOK, Before
  <2>2. \A p \in Orders : CarrierOK(p)'
    <3> SUFFICES ASSUME NEW p \in Orders, order[p].carrier # 0
                 PROVE  delivery'[order[p].carrier].state # "NONE"
        BY <1>7 DEF CarrierOK
    <3>1. order[p].carrier \in Deliveries /\ delivery[order[p].carrier].state # "NONE"
        BY DEF TInv, TypeOK, RowsOK, CarrierOK
    <3> QED BY <1>1, <1>4, <1>6, <3>1
  <2> QED BY <1>2, <2>1, <2>2 DEF TInv, RowsOK, RequestOK, QuoteOK, DisputeOK
<1>10. Kept
    BY <1>1, <1>2, <1>4, <1>6 DEF Kept
<1>11. SessOK'
    BY <1>2, <1>10, IdleReads, SessionsLast DEF TInv
<1> QED BY <1>8, <1>9, <1>11 DEF TInv

LEMMA DisputeStep ==
    ASSUME TInv, NEW s \in Sessions, DisputeCommit(s)
    PROVE  TInv'
<1> DEFINE r == sess[s]
           i == Min(Unused(dispute))
           row == [state |-> "OPEN", order |-> r.order, by |-> r.actor]
<1>1. /\ r.order \in Orders /\ r.actor \in Parties \cup {"admin"}
      /\ r.orderTo \in OrderStates \cup {"NONE"}
    BY DEF DisputeCommit, At, TInv, SessOK, Reads, DisputeReads, OrderStates
<1>2. /\ dispute' = [dispute EXCEPT ![i] = row] /\ order' = OrderMoved(r.order, r.orderTo)
      /\ Become(s, Idle) /\ UNCHANGED <<request, quote, delivery, reviews, rated, rollbacks>>
    BY DEF DisputeCommit
<1>3. dispute \in [Disputes -> DisputeRow] /\ row \in DisputeRow
    BY <1>1 DEF TInv, TypeOK, DisputeRow, DisputeStates
<1>4. i \in Disputes /\ dispute[i].state = "NONE"
    BY <1>3, FirstRow, FulfilmentAssumption DEF DisputeCommit, Disputes
<1>5. row.state # "NONE" /\ row.order \in Orders
    BY <1>1
<1>6. /\ order' \in [Orders -> OrderRow]
      /\ \A p \in Orders : order'[p].carrier = order[p].carrier
    BY <1>1, <1>2, MovedOrder DEF TInv
<1> HIDE DEF row, i, r
<1>7. /\ dispute' \in [Disputes -> DisputeRow]
      /\ \A c \in Disputes : dispute'[c] = IF c = i THEN row ELSE dispute[c]
    BY <1>2, <1>3, <1>4
<1>8. TypeOK'
    BY <1>2, <1>6, <1>7 DEF TInv, TypeOK, DisputeRow, OrderRow
<1>9. RowsOK'
    BY <1>2, <1>5, <1>6, <1>7
    DEF TInv, RowsOK, RequestOK, QuoteOK, DeliveryOK, DisputeOK, CarrierOK
<1>10. Kept
    BY <1>2, <1>5, <1>7 DEF Kept
<1>11. SessOK'
    BY <1>2, <1>10, IdleReads, SessionsLast DEF TInv
<1> QED BY <1>8, <1>9, <1>11 DEF TInv

LEMMA ResolveStep ==
    ASSUME TInv, NEW s \in Sessions, ReviewDisputeCommit(s)
    PROVE  TInv'
<1> DEFINE r == sess[s]
           i == r.row
           row == [dispute[i] EXCEPT !.state = r.to]
<1>1. /\ i \in Disputes /\ dispute[i].state # "NONE" /\ r.to \in DisputeStates \ {"NONE"}
      /\ r.order \in Orders /\ r.orderTo \in OrderStates \cup {"NONE"}
    BY DEF ReviewDisputeCommit, At, TInv, SessOK, Reads, ResolveReads, OrderStates
<1>2. /\ dispute' = [dispute EXCEPT ![i] = row] /\ order' = OrderMoved(r.order, r.orderTo)
      /\ Become(s, Idle) /\ UNCHANGED <<request, quote, delivery, reviews, rated, rollbacks>>
    BY DEF ReviewDisputeCommit
<1>3. dispute \in [Disputes -> DisputeRow]
    BY DEF TInv, TypeOK, DisputeRow
<1>4. row \in DisputeRow /\ row.state # "NONE" /\ row.order = dispute[i].order
    BY <1>1, <1>3 DEF DisputeRow
<1>5. /\ order' \in [Orders -> OrderRow]
      /\ \A p \in Orders : order'[p].carrier = order[p].carrier
    BY <1>1, <1>2, MovedOrder DEF TInv
<1> HIDE DEF row, i, r
<1>6. /\ dispute' \in [Disputes -> DisputeRow]
      /\ \A c \in Disputes : dispute'[c] = IF c = i THEN row ELSE dispute[c]
    BY <1>1, <1>2, <1>3, <1>4
<1>7. TypeOK'
    BY <1>2, <1>5, <1>6 DEF TInv, TypeOK, DisputeRow, OrderRow
<1>8. RowsOK'
    BY <1>1, <1>2, <1>4, <1>5, <1>6
    DEF TInv, RowsOK, RequestOK, QuoteOK, DeliveryOK, DisputeOK, CarrierOK
<1>9. Kept
    BY <1>2, <1>4, <1>6 DEF Kept
<1>10. SessOK'
    BY <1>2, <1>9, IdleReads, SessionsLast DEF TInv
<1> QED BY <1>7, <1>8, <1>10 DEF TInv

LEMMA ReviewStep ==
    ASSUME TInv, NEW s \in Sessions, ReviewCommit(s)
    PROVE  TInv'
<1> DEFINE r == sess[s]
<1>1. /\ r.order \in Orders /\ r.actor \in Parties /\ r.to \in {"farmer", "buyer", "logistics"}
      /\ r.subject \in Users /\ r.seen + 1 \in Nat
    BY DEF ReviewCommit, At, TInv, SessOK, Reads, ReviewReads
<1>2. /\ reviews' = reviews \cup
             {[order |-> r.order, by |-> r.actor, role |-> r.to, subject |-> r.subject]}
      /\ rated' = [rated EXCEPT ![r.subject] = r.seen + 1]
      /\ Become(s, Idle) /\ UNCHANGED <<order, request, quote, delivery, dispute, rollbacks>>
    BY DEF ReviewCommit
<1> HIDE DEF r
<1>3. TypeOK'
    BY <1>1, <1>2 DEF TInv, TypeOK
<1>4. RowsOK'
    BY <1>2 DEF TInv, RowsOK, RequestOK, QuoteOK, DeliveryOK, DisputeOK, CarrierOK
<1>5. Kept
    BY <1>2 DEF Kept
<1>6. SessOK'
    BY <1>2, <1>5, IdleReads, SessionsLast DEF TInv
<1> QED BY <1>3, <1>4, <1>6 DEF TInv

LEMMA InitTInv == Init => TInv
<1> SUFFICES ASSUME Init PROVE TInv
    OBVIOUS
<1>1. TypeOK
    BY DEF Init, TypeOK, OrderStates, DeliveryStates, DisputeStates
<1>2. RowsOK
    BY DEF Init, RowsOK, RequestOK, QuoteOK, DeliveryOK, DisputeOK, CarrierOK
<1>3. SessOK
    BY IdleReadsNow DEF Init, SessOK
<1> QED BY <1>1, <1>2, <1>3 DEF TInv

LEMMA NextTInv == TInv /\ [Next]_vars => TInv'
<1> SUFFICES ASSUME TInv, [Next]_vars PROVE TInv'
    OBVIOUS
<1>1. CASE UNCHANGED vars
  <2>1. TypeOK'
      BY <1>1 DEF vars, TInv, TypeOK
  <2>2. RowsOK'
      BY <1>1 DEF vars, TInv, RowsOK, RequestOK, QuoteOK, DeliveryOK, DisputeOK, CarrierOK
  <2>3. SessOK'
      BY <1>1, SessionsLast DEF vars, TInv, Kept
  <2> QED BY <2>1, <2>2, <2>3 DEF TInv
<1>2. ASSUME NEW s \in Sessions, Continue(s) PROVE TInv'
    BY <1>2, QuoteStep, AcceptStep, ReadyStep, AdvanceStep, MoveStep, CountStep, DisputeStep,
       ResolveStep, ReviewStep DEF Continue
<1> QED BY <1>1, <1>2, PaymentStep, CreateStep, BeginStep, RollbackStep DEF Next

\* However many requests run together, every variable keeps its type, and in particular the
\* rows that the transport of an order is made of refer to rows that are there.
THEOREM TypeCorrect == Spec => [](TypeOK /\ RowsOK)
<1>1. TInv => TypeOK /\ RowsOK
    BY DEF TInv
<1> QED BY <1>1, InitTInv, NextTInv, PTL DEF Spec

\* However many sessions report stages and failures of a delivery at once (advance_delivery
\* reads the state long before it writes), a delivery that is CONFIRMED has every stage in its
\* delivery_events.
THEOREM ConfirmedCarried == Spec => []ConfirmedWasCarried
<1>1. TInv => ConfirmedWasCarried
  <2> SUFFICES ASSUME TInv, NEW d \in Deliveries, delivery[d].state = "CONFIRMED"
               PROVE  Stages \subseteq delivery[d].trail
      BY DEF ConfirmedWasCarried
  <2>1. Before("CONFIRMED") = Stages
      BY DEF Before, Stages, Stage
  <2> QED BY <2>1 DEF TInv, RowsOK, DeliveryOK
<1> QED BY <1>1, InitTInv, NextTInv, PTL DEF Spec

---------------------------------------------------------------------------
(* One writer per order *)

Closed == {"COMPLETED", "REFUNDED"}
Frozen == Closed \cup {"DISPUTED"}
WriteSteps == {"acceptQuote", "advance", "move", "count", "dispute", "resolve"}

\* No two requests on one order have read its state and not written it yet: what a lock on
\* the order's row would give.  Nothing in the code takes one, so it is a hypothesis; requests
\* on other orders, quotes, reviews and payments run together with them.
OneWriterPerOrder == \A s, t \in Sessions :
    /\ sess[s].pc \in WriteSteps /\ sess[t].pc \in WriteSteps
    /\ sess[s].order = sess[t].order
    => s = t

\* The state a session is about to give its order.
Target(r) == IF r.pc = "move" THEN r.to ELSE r.orderTo

\* What it has read allows it still: a closed order is not moved, and one in dispute is closed
\* or stays.
Fresh(r) ==
    /\ r.pc \in WriteSteps \ {"count"} /\ Target(r) # "NONE" =>
          /\ order[r.order].state \notin Closed
          /\ order[r.order].state = "DISPUTED" => Target(r) \in Frozen
    /\ r.pc = "dispute" /\ r.orderTo = "NONE" => order[r.order].state = "COMPLETED"
    /\ r.pc = "count" => order[r.order].state = "COMPLETED" /\ order[r.order].counted = 0

DInv ==
    /\ DisputeFreezes
    /\ CountedOnce
    /\ \A s \in Sessions : Fresh(sess[s])

\* Closed orders are at the end of the graph, and the rules let nobody cancel a disputed one.
LEMMA GraphEnds ==
    /\ Allowed["COMPLETED"] = {} /\ Allowed["REFUNDED"] = {}
    /\ \A role, to : Accepts(role, "DISPUTED", to) => to \in Closed
    /\ \A x \in Disputable : "DISPUTED" \notin Allowed[x] => x = "COMPLETED"
<1>1. /\ Allowed["COMPLETED"] = {} /\ Allowed["REFUNDED"] = {}
      /\ Allowed["DISPUTED"] = {"REFUNDED", "COMPLETED", "CANCELLED"}
    BY DEF Allowed, OrderStates
<1>2. ASSUME NEW role, NEW to, Accepts(role, "DISPUTED", to) PROVE to \in Closed
  <2>1. to = "CANCELLED" => ~MayMove(role, "DISPUTED", to)
      BY DEF MayMove, Cancelable
  <2> QED BY <1>1, <1>2, <2>1 DEF Accepts, Closed
<1>3. ASSUME NEW x \in Disputable, "DISPUTED" \notin Allowed[x] PROVE x = "COMPLETED"
    BY <1>3 DEF Disputable, Allowed, OrderStates
<1> QED BY <1>1, <1>2, <1>3

\* A step that leaves the orders as they are, and what a session read fresh.
LEMMA OrdersRest ==
    ASSUME TInv, DInv, order' = order, dispute' = dispute,
           \/ sess' = sess
           \/ \E s \in Sessions : \E r : Become(s, r) /\ Fresh(r)
    PROVE  DInv'
<1>1. DisputeFreezes' /\ CountedOnce'
    BY DEF DInv, DisputeFreezes, CountedOnce
<1>2. ASSUME NEW t \in Sessions PROVE Fresh(sess[t])'
  <2>1. PICK y : y = sess'[t]
      OBVIOUS
  <2>2. Fresh(y)
    <3>1. CASE sess' = sess
        BY <2>1, <3>1 DEF DInv
    <3>2. ASSUME NEW s \in Sessions, NEW r, Become(s, r), Fresh(r) PROVE Fresh(y)
        BY <2>1, <3>2 DEF DInv, Become, TInv, SessOK
    <3> QED BY <3>1, <3>2
  <2> QED BY <2>1, <2>2 DEF Fresh, Target
<1> QED BY <1>1, <1>2 DEF DInv

\* A session writes its order and goes on: the others' orders are not that one.
LEMMA OthersFresh ==
    ASSUME TInv, DInv, OneWriterPerOrder, NEW s \in Sessions, sess[s].pc \in WriteSteps,
           NEW r, Become(s, r), Fresh(r)',
           \A p \in Orders \ {sess[s].order} :
               order'[p].state = order[p].state /\ order'[p].counted = order[p].counted
    PROVE  \A t \in Sessions : Fresh(sess[t])'
<1> SUFFICES ASSUME NEW t \in Sessions PROVE Fresh(sess[t])'
    OBVIOUS
<1>1. CASE t = s
  <2>1. sess'[t] = r
      BY <1>1 DEF Become, TInv, SessOK
  <2> QED BY <2>1 DEF Fresh, Target
<1>2. CASE t # s
  <2>1. sess'[t] = sess[t] /\ Fresh(sess[t]) /\ Reads(sess[t])
      BY <1>2 DEF Become, TInv, SessOK, DInv
  <2>2. CASE sess[t].pc \in WriteSteps
    <3>1. sess[t].order \in Orders \ {sess[s].order}
        BY <1>2, <2>1, <2>2
        DEF OneWriterPerOrder, WriteSteps, Reads, AcceptReads, AdvanceReads, MoveReads, DisputeReads,
            ResolveReads
    <3>2. order'[sess[t].order].state = order[sess[t].order].state
          /\ order'[sess[t].order].counted = order[sess[t].order].counted
        BY <3>1
    <3> QED BY <2>1, <3>2 DEF Fresh, Target
  <2>3. CASE sess[t].pc \notin WriteSteps
      BY <2>1, <2>3 DEF Fresh, WriteSteps
  <2> QED BY <2>2, <2>3
<1> QED BY <1>1, <1>2

\* A fresh write leaves disputed orders frozen and completions counted once.
LEMMA FreshWrite ==
    ASSUME TInv, DInv, NEW o \in Orders, NEW to \in OrderStates \cup {"NONE"},
           to # "NONE" => /\ order[o].state \notin Closed
                          /\ order[o].state = "DISPUTED" => to \in Frozen,
           \A p \in Orders :
                /\ order'[p].counted = order[p].counted
                /\ order'[p].state = IF p = o /\ to # "NONE" THEN to ELSE order[p].state
    PROVE  /\ \A p \in Orders : order[p].state \in Frozen => order'[p].state \in Frozen
           /\ CountedOnce'
           /\ order[o].state # "COMPLETED" => order[o].counted = 0
<1>1. ASSUME NEW p \in Orders
      PROVE  /\ order[p].counted \in Nat
             /\ order[p].counted <= IF order[p].state = "COMPLETED" THEN 1 ELSE 0
    BY DEF TInv, TypeOK, DInv, CountedOnce
<1>2. ASSUME NEW p \in Orders, order[p].state \in Frozen PROVE order'[p].state \in Frozen
    BY <1>2 DEF Frozen, Closed
<1>3. ASSUME NEW p \in Orders
      PROVE  order'[p].counted <= IF order'[p].state = "COMPLETED" THEN 1 ELSE 0
  <2>1. CASE p = o /\ to # "NONE"
      BY <1>1, <2>1 DEF Closed
  <2>2. CASE ~(p = o /\ to # "NONE")
      BY <1>1, <2>2
  <2> QED BY <2>1, <2>2
<1>4. order[o].state # "COMPLETED" => order[o].counted = 0
    BY <1>1
<1> QED BY <1>2, <1>3, <1>4 DEF CountedOnce

---------------------------------------------------------------------------
(* The steps *)

LEMMA FreshIdle == Fresh(Idle)
BY DEF Fresh, Idle, WriteSteps

LEMMA AcceptReadFresh ==
    ASSUME TInv, DInv, NEW s \in Sessions, NEW q \in Quotes, AcceptQuoteRead(s, q)
    PROVE  DInv'
<1> DEFINE o == request[quote[q].request].order
           x == [Idle EXCEPT !.pc = "acceptQuote", !.row = q, !.order = o,
                             !.actor = request[quote[q].request].by, !.others = Rivals(q),
                             !.orderTo = IF order[o].state = "PAID" THEN "PROCESSING" ELSE "NONE"]
<1>1. Become(s, x) /\ order' = order /\ dispute' = dispute
    BY DEF AcceptQuoteRead
<1>2. x.pc = "acceptQuote" /\ x.order = o
      /\ x.orderTo = IF order[o].state = "PAID" THEN "PROCESSING" ELSE "NONE"
    BY DEF Idle
<1> HIDE DEF x
<1>3. Fresh(x)
    BY <1>2 DEF Fresh, Target, Closed
<1> QED BY <1>1, <1>3, OrdersRest

LEMMA AdvanceReadFresh ==
    ASSUME TInv, DInv, NEW s \in Sessions, NEW d \in Deliveries, NEW u \in Users,
           NEW to \in DeliveryStates, AdvanceRead(s, d, u, to)
    PROVE  DInv'
<1> DEFINE x == [Idle EXCEPT !.pc = "advance", !.row = d, !.order = delivery[d].order, !.to = to,
                             !.orderTo = Follows(d, u, to)]
<1>1. Become(s, x) /\ order' = order /\ dispute' = dispute
    BY DEF AdvanceRead
<1>2. x.pc = "advance" /\ x.order = delivery[d].order /\ x.orderTo = Follows(d, u, to)
    BY DEF Idle
<1> HIDE DEF x
<1>3. Follows(d, u, to) # "NONE" =>
        order[delivery[d].order].state \in {"READY_FOR_PICKUP", "IN_TRANSIT"}
    BY DEF Follows
<1>4. Fresh(x)
    BY <1>2, <1>3 DEF Fresh, Target, Closed
<1> QED BY <1>1, <1>4, OrdersRest

LEMMA AcceptedFresh ==
    ASSUME TInv, NEW o \in Orders, NEW role, NEW to, Accepts(role, order[o].state, to)
    PROVE  /\ order[o].state \notin Closed
           /\ order[o].state = "DISPUTED" => to \in Frozen
BY GraphEnds DEF Accepts, Closed, Frozen

LEMMA MoveReadFresh ==
    ASSUME TInv, DInv, NEW s \in Sessions, NEW o \in Orders, NEW role, NEW to,
           MoveRead(s, o, role, to)
    PROVE  DInv'
<1> DEFINE x == [Idle EXCEPT !.pc = "move", !.order = o, !.to = to]
<1>1. Become(s, x) /\ order' = order /\ dispute' = dispute
    BY DEF MoveRead
<1>2. x.pc = "move" /\ x.order = o /\ x.to = to
    BY DEF Idle
<1> HIDE DEF x
<1>3. Fresh(x)
  <2>1. /\ order[o].state \notin Closed
        /\ order[o].state = "DISPUTED" => to \in Frozen
      BY AcceptedFresh DEF MoveRead
  <2> QED BY <1>2, <2>1 DEF Fresh, Target
<1> QED BY <1>1, <1>3, OrdersRest

LEMMA ReadyFresh ==
    ASSUME TInv, DInv, NEW s \in Sessions, ReadyRead(s)
    PROVE  DInv'
<1> DEFINE o == sess[s].order
           x == [Idle EXCEPT !.pc = "move", !.order = o, !.to = "READY_FOR_PICKUP"]
<1>1. order' = order /\ dispute' = dispute /\ sess[s].pc = "ready"
    BY DEF ReadyRead, At
<1>2. x.pc = "move" /\ x.order = o /\ x.to = "READY_FOR_PICKUP"
    BY DEF Idle
<1>3. \/ Become(s, x) /\ Accepts(sess[s].actor, order[o].state, "READY_FOR_PICKUP")
      \/ Become(s, Idle)
    BY DEF ReadyRead
<1> HIDE DEF x
<1>4. CASE Become(s, x) /\ Accepts(sess[s].actor, order[o].state, "READY_FOR_PICKUP")
  <2>1. o \in Orders
      BY <1>1 DEF TInv, SessOK, Reads, MoveReads
  <2>2. /\ order[o].state \notin Closed
        /\ order[o].state = "DISPUTED" => "READY_FOR_PICKUP" \in Frozen
      BY <1>4, <2>1, AcceptedFresh
  <2>3. Fresh(x)
      BY <1>2, <2>2 DEF Fresh, Target
  <2> QED BY <1>1, <1>4, <2>3, OrdersRest
<1>5. CASE Become(s, Idle)
    BY <1>1, <1>5, FreshIdle, OrdersRest
<1> QED BY <1>3, <1>4, <1>5

LEMMA DisputeReadFresh ==
    ASSUME TInv, DInv, NEW s \in Sessions, NEW o \in Orders, NEW by, DisputeRead(s, o, by)
    PROVE  DInv'
<1> DEFINE x == [Idle EXCEPT !.pc = "dispute", !.order = o, !.actor = by, !.orderTo = FrozenTo(o)]
<1>1. Become(s, x) /\ order' = order /\ dispute' = dispute /\ order[o].state \in Disputable
    BY DEF DisputeRead
<1>2. x.pc = "dispute" /\ x.order = o /\ x.orderTo = FrozenTo(o)
    BY DEF Idle
<1> HIDE DEF x
<1>3. CASE "DISPUTED" \in Allowed[order[o].state]
  <2>1. FrozenTo(o) = "DISPUTED" /\ order[o].state \notin Closed
      BY <1>3, GraphEnds DEF FrozenTo, Closed
  <2>2. Fresh(x)
      BY <1>2, <2>1 DEF Fresh, Target, Frozen
  <2> QED BY <1>1, <2>2, OrdersRest
<1>4. CASE "DISPUTED" \notin Allowed[order[o].state]
  <2>1. FrozenTo(o) = "NONE" /\ order[o].state = "COMPLETED"
      BY <1>1, <1>4, GraphEnds DEF FrozenTo
  <2>2. Fresh(x)
      BY <1>2, <2>1 DEF Fresh, Target
  <2> QED BY <1>1, <2>2, OrdersRest
<1> QED BY <1>3, <1>4

LEMMA ResolveReadFresh ==
    ASSUME TInv, DInv, NEW s \in Sessions, NEW c \in Disputes, NEW to \in DisputeStates,
           NEW refund \in BOOLEAN, ReviewDisputeRead(s, c, to, refund)
    PROVE  DInv'
<1> DEFINE o == dispute[c].order
           x == [Idle EXCEPT !.pc = "resolve", !.row = c, !.order = dispute[c].order, !.to = to,
                             !.orderTo = OrderResolved(dispute[c].order, to, refund)]
<1>1. Become(s, x) /\ order' = order /\ dispute' = dispute
    BY DEF ReviewDisputeRead
<1>2. x.pc = "resolve" /\ x.order = o /\ x.orderTo = OrderResolved(o, to, refund)
    BY DEF Idle
<1> HIDE DEF x
<1>3. OrderResolved(o, to, refund) # "NONE" =>
        /\ OrderResolved(o, to, refund) \in Frozen
        /\ order[o].state \notin Closed
    BY GraphEnds DEF OrderResolved, Frozen, Closed
<1>4. Fresh(x)
    BY <1>2, <1>3 DEF Fresh, Target
<1> QED BY <1>1, <1>4, OrdersRest

\* Requests that neither read nor write the state of an order.
LEMMA AsideFresh ==
    ASSUME TInv, DInv, NEW s \in Sessions,
           \/ \E r \in Requests, c \in Carriers : QuoteRead(s, r, c)
           \/ \E o \in Orders, by \in Parties, role \in {"farmer", "buyer", "logistics"} :
                 ReviewRead(s, o, by, role)
           \/ QuoteCommit(s)
           \/ ReviewCommit(s)
           \/ Rollback(s)
    PROVE  DInv'
<1>1. ASSUME NEW r \in Requests, NEW c \in Carriers, QuoteRead(s, r, c) PROVE DInv'
  <2> DEFINE x == [Idle EXCEPT !.pc = "quote", !.row = r, !.actor = c, !.to = request[r].state]
  <2>1. Become(s, x) /\ order' = order /\ dispute' = dispute /\ x.pc = "quote"
      BY <1>1 DEF QuoteRead, Idle
  <2> HIDE DEF x
  <2>2. Fresh(x)
      BY <2>1 DEF Fresh, WriteSteps
  <2> QED BY <2>1, <2>2, OrdersRest
<1>2. ASSUME NEW o \in Orders, NEW by \in Parties, NEW role \in {"farmer", "buyer", "logistics"},
             ReviewRead(s, o, by, role)
      PROVE  DInv'
  <2> DEFINE x == [Idle EXCEPT !.pc = "review", !.order = o, !.actor = by, !.to = role,
                               !.subject = Subject(o, by, role),
                               !.seen = rated[Subject(o, by, role)]]
  <2>1. Become(s, x) /\ order' = order /\ dispute' = dispute /\ x.pc = "review"
      BY <1>2 DEF ReviewRead, Idle
  <2> HIDE DEF x
  <2>2. Fresh(x)
      BY <2>1 DEF Fresh, WriteSteps
  <2> QED BY <2>1, <2>2, OrdersRest
<1>3. ASSUME QuoteCommit(s) \/ ReviewCommit(s) \/ Rollback(s) PROVE DInv'
    BY <1>3, FreshIdle, OrdersRest DEF QuoteCommit, ReviewCommit, Rollback
<1> QED BY <1>1, <1>2, <1>3

\* Disputes stay about their orders.
LEMMA FreezesKept ==
    ASSUME TInv, DInv, \A p \in Orders : order[p].state \in Frozen => order'[p].state \in Frozen,
           NEW d \in [Disputes -> DisputeRow], dispute' = d,
           \A c \in Disputes : d[c].state # "NONE" =>
               \/ dispute[c].state # "NONE" /\ d[c].order = dispute[c].order
               \/ d[c].order \in Orders /\ order'[d[c].order].state \in Frozen
    PROVE  DisputeFreezes'
<1> SUFFICES ASSUME NEW c \in Disputes, d[c].state # "NONE"
             PROVE  order'[d[c].order].state \in Frozen
    BY DEF DisputeFreezes, Frozen, Closed
<1>1. CASE dispute[c].state # "NONE" /\ d[c].order = dispute[c].order
  <2>1. dispute[c].order \in Orders
      BY <1>1 DEF TInv, RowsOK, DisputeOK
  <2>2. order[dispute[c].order].state \in Frozen
      BY <1>1 DEF DInv, DisputeFreezes, Frozen, Closed
  <2> QED BY <1>1, <2>1, <2>2
<1> QED BY <1>1

LEMMA AcceptFresh ==
    ASSUME TInv, DInv, OneWriterPerOrder, NEW s \in Sessions, AcceptQuoteCommit(s)
    PROVE  DInv'
<1> DEFINE o == sess[s].order
           to == sess[s].orderTo
           x == [sess[s] EXCEPT !.pc = "ready"]
           moved == OrderMoved(o, to)
           d == Min(Unused(delivery))
<1>1. /\ sess[s].pc = "acceptQuote" /\ o \in Orders /\ to \in OrderStates \cup {"NONE"}
      /\ DOMAIN sess[s] = DOMAIN Idle
    BY DEF AcceptQuoteCommit, At, TInv, SessOK, Reads, AcceptReads, OrderStates
<1>2. /\ order' = [moved EXCEPT ![o] = [moved[o] EXCEPT !.carrier = d]]
      /\ dispute' = dispute
      /\ Become(s, x) \/ Become(s, Idle)
    BY DEF AcceptQuoteCommit
<1>3. \A p \in Orders :
        /\ order'[p].counted = order[p].counted
        /\ order'[p].state = IF p = o /\ to # "NONE" THEN to ELSE order[p].state
  <2>1. /\ moved \in [Orders -> OrderRow]
        /\ \A p \in Orders :
             /\ moved[p].counted = order[p].counted
             /\ moved[p].state = IF p = o /\ to # "NONE" THEN to ELSE order[p].state
      BY <1>1, MovedOrder DEF TInv
  <2> HIDE DEF moved, d
  <2> QED BY <1>1, <1>2, <2>1 DEF OrderRow
<1>4. to # "NONE" => /\ order[o].state \notin Closed
                     /\ order[o].state = "DISPUTED" => to \in Frozen
    BY <1>1 DEF DInv, Fresh, Target, WriteSteps
<1>5. x.pc = "ready"
    BY <1>1 DEF Idle
<1> HIDE DEF x, moved, d, o, to
<1>6. /\ \A p \in Orders : order[p].state \in Frozen => order'[p].state \in Frozen
      /\ CountedOnce'
    BY <1>1, <1>3, <1>4, FreshWrite
<1>7. DisputeFreezes'
    BY <1>2, <1>6, FreezesKept DEF TInv, TypeOK, DisputeRow
<1>8. \A t \in Sessions : Fresh(sess[t])'
  <2>1. PICK y : (y = x \/ y = Idle) /\ Become(s, y)
      BY <1>2
  <2>2. Fresh(y)'
    <3>1. y.pc \notin WriteSteps
        BY <1>5, <2>1 DEF WriteSteps, Idle
    <3> QED BY <3>1 DEF Fresh, WriteSteps
  <2> QED BY <1>1, <1>3, <2>1, <2>2, OthersFresh DEF WriteSteps, o
<1> QED BY <1>6, <1>7, <1>8 DEF DInv

LEMMA AdvanceFresh ==
    ASSUME TInv, DInv, OneWriterPerOrder, NEW s \in Sessions, AdvanceCommit(s)
    PROVE  DInv'
<1> DEFINE o == sess[s].order
           to == sess[s].orderTo
<1>1. /\ sess[s].pc = "advance" /\ o \in Orders /\ to \in OrderStates \cup {"NONE"}
      /\ order' = OrderMoved(o, to) /\ dispute' = dispute /\ Become(s, Idle)
    BY DEF AdvanceCommit, At, TInv, SessOK, Reads, AdvanceReads, OrderStates
<1>2. \A p \in Orders :
        /\ order'[p].counted = order[p].counted
        /\ order'[p].state = IF p = o /\ to # "NONE" THEN to ELSE order[p].state
    BY <1>1, MovedOrder DEF TInv
<1>3. to # "NONE" => /\ order[o].state \notin Closed
                     /\ order[o].state = "DISPUTED" => to \in Frozen
    BY <1>1 DEF DInv, Fresh, Target, WriteSteps
<1> HIDE DEF o, to
<1>4. /\ \A p \in Orders : order[p].state \in Frozen => order'[p].state \in Frozen
      /\ CountedOnce'
    BY <1>1, <1>2, <1>3, FreshWrite
<1>5. DisputeFreezes'
    BY <1>1, <1>4, FreezesKept DEF TInv, TypeOK, DisputeRow
<1>6. Fresh(Idle)'
    BY DEF Fresh, Idle, WriteSteps
<1>7. \A t \in Sessions : Fresh(sess[t])'
    BY <1>1, <1>2, <1>6, OthersFresh DEF WriteSteps, o
<1> QED BY <1>4, <1>5, <1>7 DEF DInv

\* An order that has just been completed was not counted before.
LEMMA MoveFresh ==
    ASSUME TInv, DInv, OneWriterPerOrder, NEW s \in Sessions, MoveCommit(s)
    PROVE  DInv'
<1> DEFINE o == sess[s].order
           to == sess[s].to
           x == IF Counts(to) THEN [sess[s] EXCEPT !.pc = "count"] ELSE Idle
<1>1. /\ sess[s].pc = "move" /\ o \in Orders /\ to \in OrderStates
      /\ DOMAIN sess[s] = DOMAIN Idle
      /\ order' = OrderMoved(o, to) /\ dispute' = dispute /\ Become(s, x)
    BY DEF MoveCommit, At, TInv, SessOK, Reads, MoveReads
<1>2. \A p \in Orders :
        /\ order'[p].counted = order[p].counted
        /\ order'[p].state = IF p = o /\ to # "NONE" THEN to ELSE order[p].state
    BY <1>1, MovedOrder DEF TInv
<1>3. to # "NONE"
    BY <1>1 DEF OrderStates
<1>4. /\ order[o].state \notin Closed
      /\ order[o].state = "DISPUTED" => to \in Frozen
    BY <1>1, <1>3 DEF DInv, Fresh, Target, WriteSteps
<1>5. \/ x.pc = "idle"
      \/ x.pc = "count" /\ x.order = o /\ to = "COMPLETED"
    BY <1>1 DEF Idle, Counts
<1> HIDE DEF x, o, to
<1>6. /\ \A p \in Orders : order[p].state \in Frozen => order'[p].state \in Frozen
      /\ CountedOnce'
      /\ order[o].state # "COMPLETED" => order[o].counted = 0
    BY <1>1, <1>2, <1>4, FreshWrite
<1>7. DisputeFreezes'
    BY <1>1, <1>6, FreezesKept DEF TInv, TypeOK, DisputeRow
<1>8. PICK y : y = x
    OBVIOUS
<1>9. Fresh(y)'
  <2>1. CASE y.pc = "idle"
      BY <2>1 DEF Fresh, WriteSteps
  <2>2. CASE y.pc = "count" /\ y.order = o /\ to = "COMPLETED"
    <3>1. order'[o].state = "COMPLETED" /\ order'[o].counted = 0
        BY <1>1, <1>2, <1>3, <1>4, <1>6, <2>2 DEF Closed
    <3>2. order'[y.order].state = "COMPLETED" /\ order'[y.order].counted = 0 /\ y.pc = "count"
        BY <2>2, <3>1
    <3> QED BY <3>2 DEF Fresh
  <2> QED BY <1>5, <1>8, <2>1, <2>2
<1>10. \A t \in Sessions : Fresh(sess[t])'
    BY <1>1, <1>2, <1>8, <1>9, OthersFresh DEF WriteSteps, o
<1> QED BY <1>6, <1>7, <1>10 DEF DInv

\* The count is that of an order that is completed and not counted yet.
LEMMA CountFresh ==
    ASSUME TInv, DInv, OneWriterPerOrder, NEW s \in Sessions, CountCommit(s)
    PROVE  DInv'
<1> DEFINE o == sess[s].order
           row == [order[o] EXCEPT !.counted = order[o].counted + 1]
<1>1. /\ sess[s].pc = "count" /\ o \in Orders
      /\ order' = [order EXCEPT ![o] = row] /\ dispute' = dispute /\ Become(s, Idle)
    BY DEF CountCommit, At, TInv, SessOK, Reads, MoveReads
<1>2. order[o].state = "COMPLETED" /\ order[o].counted = 0
    BY <1>1 DEF DInv, Fresh
<1>3. order \in [Orders -> OrderRow]
    BY DEF TInv, TypeOK, OrderRow
<1>4. row.state = "COMPLETED" /\ row.counted = 1
    BY <1>1, <1>2, <1>3 DEF OrderRow
<1> HIDE DEF o, row
<1>5. \A p \in Orders : order'[p] = IF p = o THEN row ELSE order[p]
    BY <1>1, <1>3
<1>6. CountedOnce'
    BY <1>4, <1>5 DEF DInv, CountedOnce
<1>7. \A p \in Orders : order'[p].state = order[p].state
    BY <1>2, <1>4, <1>5
<1>8. DisputeFreezes'
    BY <1>1, <1>7, FreezesKept DEF TInv, TypeOK, DisputeRow
<1>9. Fresh(Idle)'
    BY DEF Fresh, Idle, WriteSteps
<1>10. \A t \in Sessions : Fresh(sess[t])'
    BY <1>1, <1>5, <1>9, OthersFresh DEF WriteSteps, o
<1> QED BY <1>6, <1>8, <1>10 DEF DInv

LEMMA DisputeFresh ==
    ASSUME TInv, DInv, OneWriterPerOrder, NEW s \in Sessions, DisputeCommit(s)
    PROVE  DInv'
<1> DEFINE o == sess[s].order
           to == sess[s].orderTo
           i == Min(Unused(dispute))
           row == [state |-> "OPEN", order |-> o, by |-> sess[s].actor]
<1>1. /\ sess[s].pc = "dispute" /\ o \in Orders /\ to \in {"DISPUTED", "NONE"}
      /\ sess[s].actor \in Parties \cup {"admin"}
      /\ order' = OrderMoved(o, to) /\ Become(s, Idle)
      /\ dispute' = [dispute EXCEPT ![i] = row]
    BY DEF DisputeCommit, At, TInv, SessOK, Reads, DisputeReads
<1>2. to \in OrderStates \cup {"NONE"}
    BY <1>1 DEF OrderStates
<1>3. \A p \in Orders :
        /\ order'[p].counted = order[p].counted
        /\ order'[p].state = IF p = o /\ to # "NONE" THEN to ELSE order[p].state
    BY <1>1, <1>2, MovedOrder DEF TInv
<1>4. /\ to # "NONE" => /\ order[o].state \notin Closed
                        /\ order[o].state = "DISPUTED" => to \in Frozen
      /\ to = "NONE" => order[o].state = "COMPLETED"
    BY <1>1 DEF DInv, Fresh, Target, WriteSteps
<1>5. dispute \in [Disputes -> DisputeRow] /\ row \in DisputeRow
    BY <1>1 DEF TInv, TypeOK, DisputeRow, DisputeStates
<1>6. row.order = o
    OBVIOUS
<1> HIDE DEF row, i, o, to
<1>7. /\ \A p \in Orders : order[p].state \in Frozen => order'[p].state \in Frozen
      /\ CountedOnce'
    BY <1>1, <1>2, <1>3, <1>4, FreshWrite
<1>8. order'[o].state \in Frozen
    BY <1>1, <1>3, <1>4 DEF Frozen, Closed
<1>9. /\ dispute' \in [Disputes -> DisputeRow]
      /\ \A c \in Disputes : dispute'[c] = row \/ dispute'[c] = dispute[c]
    BY <1>1, <1>5
<1>10. DisputeFreezes'
  <2>1. PICK d : d = dispute'
      OBVIOUS
  <2>2. \A c \in Disputes : d[c].state # "NONE" =>
           \/ dispute[c].state # "NONE" /\ d[c].order = dispute[c].order
           \/ d[c].order \in Orders /\ order'[d[c].order].state \in Frozen
      BY <1>1, <1>6, <1>8, <1>9, <2>1
  <2> QED BY <1>7, <1>9, <2>1, <2>2, FreezesKept
<1>11. Fresh(Idle)'
    BY DEF Fresh, Idle, WriteSteps
<1>12. \A t \in Sessions : Fresh(sess[t])'
    BY <1>1, <1>3, <1>11, OthersFresh DEF WriteSteps, o
<1> QED BY <1>7, <1>10, <1>12 DEF DInv

LEMMA ResolveFresh ==
    ASSUME TInv, DInv, OneWriterPerOrder, NEW s \in Sessions, ReviewDisputeCommit(s)
    PROVE  DInv'
<1> DEFINE o == sess[s].order
           to == sess[s].orderTo
           i == sess[s].row
           row == [dispute[i] EXCEPT !.state = sess[s].to]
<1>1. /\ sess[s].pc = "resolve" /\ o \in Orders /\ to \in OrderStates \cup {"NONE"}
      /\ i \in Disputes /\ dispute[i].state # "NONE" /\ sess[s].to \in DisputeStates
      /\ order' = OrderMoved(o, to) /\ Become(s, Idle)
      /\ dispute' = [dispute EXCEPT ![i] = row]
    BY DEF ReviewDisputeCommit, At, TInv, SessOK, Reads, ResolveReads, OrderStates
<1>2. \A p \in Orders :
        /\ order'[p].counted = order[p].counted
        /\ order'[p].state = IF p = o /\ to # "NONE" THEN to ELSE order[p].state
    BY <1>1, MovedOrder DEF TInv
<1>3. to # "NONE" => /\ order[o].state \notin Closed
                     /\ order[o].state = "DISPUTED" => to \in Frozen
    BY <1>1 DEF DInv, Fresh, Target, WriteSteps
<1>4. dispute \in [Disputes -> DisputeRow]
    BY DEF TInv, TypeOK, DisputeRow
<1>5. row \in DisputeRow /\ row.order = dispute[i].order
    BY <1>1, <1>4 DEF DisputeRow
<1> HIDE DEF row, i, o, to
<1>6. /\ \A p \in Orders : order[p].state \in Frozen => order'[p].state \in Frozen
      /\ CountedOnce'
    BY <1>1, <1>2, <1>3, FreshWrite
<1>7. /\ dispute' \in [Disputes -> DisputeRow]
      /\ \A c \in Disputes : dispute'[c] = dispute[c] \/ (c = i /\ dispute'[c] = row)
    BY <1>1, <1>4, <1>5
<1>8. DisputeFreezes'
  <2>1. PICK d : d = dispute'
      OBVIOUS
  <2>2. \A c \in Disputes : d[c].state # "NONE" =>
           \/ dispute[c].state # "NONE" /\ d[c].order = dispute[c].order
           \/ d[c].order \in Orders /\ order'[d[c].order].state \in Frozen
      BY <1>1, <1>5, <1>7, <2>1
  <2> QED BY <1>6, <1>7, <2>1, <2>2, FreezesKept
<1>9. Fresh(Idle)'
    BY DEF Fresh, Idle, WriteSteps
<1>10. \A t \in Sessions : Fresh(sess[t])'
    BY <1>1, <1>2, <1>9, OthersFresh DEF WriteSteps, o
<1> QED BY <1>6, <1>8, <1>10 DEF DInv

\* A payment finds no session that relies on a later state, and no dispute.
LEMMA PaymentFresh ==
    ASSUME TInv, DInv, NEW o \in Orders, PaymentConfirmed(o)
    PROVE  DInv'
<1>1. /\ order[o].state = "PAYMENT_PENDING" /\ order' = OrderMoved(o, "PAID")
      /\ dispute' = dispute /\ sess' = sess
    BY DEF PaymentConfirmed
<1>2. \A p \in Orders :
        /\ order'[p].counted = order[p].counted
        /\ order'[p].state = IF p = o /\ "PAID" # "NONE" THEN "PAID" ELSE order[p].state
    BY <1>1, MovedOrder DEF TInv, OrderStates
<1>3. /\ \A p \in Orders : order[p].state \in Frozen => order'[p].state \in Frozen
      /\ CountedOnce'
  <2>1. /\ "PAID" \in OrderStates \cup {"NONE"} /\ order[o].state \notin Closed
        /\ order[o].state # "DISPUTED"
      BY <1>1 DEF OrderStates, Closed
  <2> QED BY <1>2, <2>1, FreshWrite
<1>4. DisputeFreezes'
    BY <1>1, <1>3, FreezesKept DEF TInv, TypeOK, DisputeRow
<1>5. ASSUME NEW t \in Sessions PROVE Fresh(sess[t])'
  <2>1. Fresh(sess[t]) /\ sess'[t] = sess[t] /\ Reads(sess[t])
      BY <1>1 DEF DInv, TInv, SessOK
  <2>2. CASE sess[t].pc \in WriteSteps
    <3>1. sess[t].order \in Orders
        BY <2>1, <2>2 DEF WriteSteps, Reads, AcceptReads, AdvanceReads, MoveReads, DisputeReads,
                          ResolveReads
    <3>2. /\ order'[sess[t].order].counted = order[sess[t].order].counted
          /\ \/ order'[sess[t].order].state = order[sess[t].order].state
             \/ /\ order[sess[t].order].state = "PAYMENT_PENDING"
                /\ order'[sess[t].order].state = "PAID"
        BY <1>1, <1>2, <3>1
    <3> QED BY <2>1, <3>2 DEF Fresh, Target, Closed
  <2>3. CASE sess[t].pc \notin WriteSteps
      BY <2>1, <2>3 DEF Fresh, WriteSteps
  <2> QED BY <2>2, <2>3
<1> QED BY <1>3, <1>4, <1>5 DEF DInv

LEMMA InitDInv == Init => DInv
<1> SUFFICES ASSUME Init PROVE DInv
    OBVIOUS
<1>1. DisputeFreezes /\ CountedOnce
    BY DEF Init, DisputeFreezes, CountedOnce
<1>2. \A s \in Sessions : Fresh(sess[s])
    BY FreshIdle DEF Init
<1> QED BY <1>1, <1>2 DEF DInv

LEMMA NextDInv == TInv /\ DInv /\ OneWriterPerOrder /\ [Next]_vars => DInv'
<1> SUFFICES ASSUME TInv, DInv, OneWriterPerOrder, [Next]_vars PROVE DInv'
    OBVIOUS
<1>1. CASE UNCHANGED vars
    BY <1>1, OrdersRest DEF vars
<1>2. ASSUME NEW o \in Orders, NEW by \in Parties, CreateRequest(o, by) PROVE DInv'
    BY <1>2, OrdersRest DEF CreateRequest
<1>3. ASSUME NEW s \in Sessions, Begin(s) PROVE DInv'
    BY <1>3, AsideFresh, AcceptReadFresh, AdvanceReadFresh, MoveReadFresh, DisputeReadFresh,
       ResolveReadFresh DEF Begin
<1>4. ASSUME NEW s \in Sessions, Continue(s) \/ Rollback(s) PROVE DInv'
    BY <1>4, AsideFresh, AcceptFresh, ReadyFresh, AdvanceFresh, MoveFresh, CountFresh, DisputeFresh,
       ResolveFresh DEF Continue
<1> QED BY <1>1, <1>2, <1>3, <1>4, PaymentFresh DEF Next

\* If no two requests on the same order overlap between reading its state and writing it, an
\* order that anybody disputed is never moved along its delivery again (open_dispute,
\* transition_dispute, advance_delivery, transition_order, accept_quote).
THEOREM DisputesFreeze == Spec /\ []OneWriterPerOrder => []DisputeFreezes
<1>1. DInv => DisputeFreezes
    BY DEF DInv
<1>2. TInv /\ DInv /\ OneWriterPerOrder /\ [Next]_vars => TInv' /\ DInv'
    BY NextTInv, NextDInv
<1> QED BY <1>1, <1>2, InitTInv, InitDInv, PTL DEF Spec

\* Under the same condition a completion is counted at most once, and only for an order that is
\* still COMPLETED, although it is counted in a transaction of its own.
THEOREM CompletionCountedOnce == Spec /\ []OneWriterPerOrder => []CountedOnce
<1>1. DInv => CountedOnce
    BY DEF DInv
<1>2. TInv /\ DInv /\ OneWriterPerOrder /\ [Next]_vars => TInv' /\ DInv'
    BY NextTInv, NextDInv
<1> QED BY <1>1, <1>2, InitTInv, InitDInv, PTL DEF Spec
=============================================================================
