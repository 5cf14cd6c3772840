---------------------------- MODULE Fulfilment ----------------------------
(***************************************************************************)
(* What happens to an order after its payment: transport is requested,      *)
(* quoted, accepted and carried out (delivery_service), the parties move    *)
(* the order (POST /orders/{id}/transition), dispute it (dispute_service)   *)
(* and review each other (reputation_service).  A web session handles one   *)
(* request: a Read step takes what the handler reads and decides, a Commit   *)
(* step writes it.  Nothing is locked, so a write may rest on a state that   *)
(* another session has changed since.  Several handlers commit more than     *)
(* once, because notify commits.                                            *)
(***************************************************************************)
EXTENDS OrderRules, Integers, FiniteSetsExt

CONSTANTS
    Orders,
    NumRequests, NumQuotes, NumDeliveries, NumDisputes, \* bounds: rows of each table
    Carriers,       \* users with a logistics profile
    Sessions,
    Operations,     \* bound: the requests sessions make
    MaxRollbacks    \* bound: workers that die in the middle of a request

Requests == 1..NumRequests
Quotes == 1..NumQuotes
Deliveries == 1..NumDeliveries
Disputes == 1..NumDisputes

ASSUME FulfilmentAssumption ==
    /\ NumRequests \in Nat /\ NumQuotes \in Nat /\ NumDeliveries \in Nat
    /\ NumDisputes \in Nat /\ MaxRollbacks \in Nat

VARIABLES
    order,      \* orders: state, carrier (delivery_id or 0), times it was counted as completed
    request,    \* delivery_requests: state, order, requester
    quote,      \* delivery_quotes: state, request, carrier
    delivery,   \* deliveries: state, request, order, carrier, the states in its delivery_events
    dispute,    \* disputes: state, order, who opened it
    reviews,    \* reviews: order, reviewer, role, subject
    rated,      \* rating_count of each profile
    sess,       \* what each web session is doing
    rollbacks

vars == <<order, request, quote, delivery, dispute, reviews, rated, sess, rollbacks>>

---------------------------------------------------------------------------
Parties == {"buyer", "seller"}
Users == Parties \cup Carriers

DeliveryStates == {"NONE", "ACCEPTED", "PICKUP_SCHEDULED", "PICKED_UP", "IN_TRANSIT",
                   "DELIVERED", "CONFIRMED", "FAILED"}
Stages == {"ACCEPTED", "PICKUP_SCHEDULED", "PICKED_UP", "IN_TRANSIT", "DELIVERED", "CONFIRMED"}

\* flow_order; a state outside of it counts as its first.
Stage(x) ==
    CASE x = "PICKUP_SCHEDULED" -> 1 [] x = "PICKED_UP" -> 2 [] x = "IN_TRANSIT" -> 3
      [] x = "DELIVERED" -> 4 [] x = "CONFIRMED" -> 5 [] OTHER -> 0

\* ALLOWED_DISPUTE_TRANSITIONS
DisputeMoves ==
    {"OPEN"} \X {"EVIDENCE_REQUESTED", "UNDER_REVIEW", "RESOLUTION_PROPOSED"}
    \cup {"EVIDENCE_REQUESTED"} \X {"UNDER_REVIEW", "ESCALATED"}
    \cup {"UNDER_REVIEW"} \X {"RESOLUTION_PROPOSED", "ESCALATED"}
    \cup {"RESOLUTION_PROPOSED"} \X {"RESOLVED", "ESCALATED", "UNDER_REVIEW"}
    \cup {"ESCALATED"} \X {"RESOLUTION_PROPOSED", "RESOLVED", "CLOSED"}
    \cup {<<"RESOLVED", "CLOSED">>}
DisputeStates == {"NONE", "OPEN", "EVIDENCE_REQUESTED", "UNDER_REVIEW",
                  "RESOLUTION_PROPOSED", "RESOLVED", "ESCALATED", "CLOSED"}

Idle == [pc |-> "idle", order |-> "none", row |-> 0, actor |-> "none", to |-> "NONE",
         orderTo |-> "NONE", others |-> {}, subject |-> "none", seen |-> 0]
At(s, pc) == sess[s].pc = pc
Become(s, r) == sess' = [sess EXCEPT ![s] = r]
Asked(op) == op \in Operations

\* The state an order is left in: "NONE" writes nothing.
OrderMoved(o, to) == IF to = "NONE" THEN order ELSE [order EXCEPT ![o].state = to]

Init ==
    /\ order = [o \in Orders |-> [state |-> "PAYMENT_PENDING", carrier |-> 0, counted |-> 0]]
    /\ request = [r \in Requests |-> [state |-> "NONE", order |-> "none", by |-> "none"]]
    /\ quote = [q \in Quotes |-> [state |-> "NONE", request |-> 0, carrier |-> "none"]]
    /\ delivery = [d \in Deliveries |-> [state |-> "NONE", request |-> 0, order |-> "none",
                                         carrier |-> "none", trail |-> {}]]
    /\ dispute = [c \in Disputes |-> [state |-> "NONE", order |-> "none", by |-> "none"]]
    /\ reviews = {}
    /\ rated = [u \in Users |-> 0]
    /\ sess = [s \in Sessions |-> Idle]
    /\ rollbacks = 0

\* The webhook of the payment (see Settlement).
PaymentConfirmed(o) ==
    /\ order[o].state = "PAYMENT_PENDING"
    /\ order' = OrderMoved(o, "PAID")
    /\ UNCHANGED <<request, quote, delivery, dispute, reviews, rated, sess, rollbacks>>

---------------------------------------------------------------------------
(* Transport: requests and quotes *)

Unused(table) == {i \in DOMAIN table : table[i].state = "NONE"}

CreateRequest(o, by) ==
    /\ Asked("transport") /\ Unused(request) # {}
    /\ request' = [request EXCEPT ![Min(Unused(request))] =
                      [state |-> "REQUESTED", order |-> o, by |-> by]]
    /\ UNCHANGED <<order, quote, delivery, dispute, reviews, rated, sess, rollbacks>>

QuoteRead(s, r, c) ==
    /\ At(s, "idle") /\ Asked("transport") /\ Unused(quote) # {}
    /\ request[r].state \in {"REQUESTED", "QUOTED"}
    /\ Become(s, [Idle EXCEPT !.pc = "quote", !.row = r, !.actor = c, !.to = request[r].state])
    /\ UNCHANGED <<order, request, quote, delivery, dispute, reviews, rated, rollbacks>>

\* The request becomes QUOTED if it was read REQUESTED.
QuoteCommit(s) ==
    LET r == sess[s].row IN
    /\ At(s, "quote") /\ Unused(quote) # {}
    /\ quote' = [quote EXCEPT ![Min(Unused(quote))] =
                    [state |-> "SUBMITTED", request |-> r, carrier |-> sess[s].actor]]
    /\ request' = IF sess[s].to = "REQUESTED"
                  THEN [request EXCEPT ![r].state = "QUOTED"] ELSE request
    /\ Become(s, Idle)
    /\ UNCHANGED <<order, delivery, dispute, reviews, rated, rollbacks>>

\* accept_quote: the quote and its request are open.  A paid order is moved to
\* PROCESSING in the requester's name, which the rules refuse to the buyer.
CanAcceptQuote(q) ==
    LET r == quote[q].request IN
    /\ quote[q].state = "SUBMITTED" /\ request[r].state \in {"REQUESTED", "QUOTED"}
    /\ order[request[r].order].state = "PAID" =>
          Accepts(request[r].by, "PAID", "PROCESSING")

\* The other open quotes of the request.
Rivals(q) == {p \in Quotes \ {q} : quote[p].request = quote[q].request
                                   /\ quote[p].state = "SUBMITTED"}

AcceptQuoteRead(s, q) ==
    LET o == request[quote[q].request].order IN
    /\ At(s, "idle") /\ Asked("transport") /\ Unused(delivery) # {}
    /\ quote[q].state # "NONE" /\ CanAcceptQuote(q)
    /\ Become(s, [Idle EXCEPT !.pc = "acceptQuote", !.row = q, !.order = o,
                              !.actor = request[quote[q].request].by, !.others = Rivals(q),
                              !.orderTo = IF order[o].state = "PAID" THEN "PROCESSING" ELSE "NONE"])
    /\ UNCHANGED <<order, request, quote, delivery, dispute, reviews, rated, rollbacks>>

\* Everything up to the first notification is committed; a second commit makes a
\* paid order READY_FOR_PICKUP.
AcceptQuoteCommit(s) ==
    LET q == sess[s].row  r == quote[q].request  o == sess[s].order  d == Min(Unused(delivery)) IN
    /\ At(s, "acceptQuote") /\ Unused(delivery) # {}
    /\ delivery' = [delivery EXCEPT ![d] =
                       [state |-> "ACCEPTED", request |-> r, order |-> o,
                        carrier |-> quote[q].carrier, trail |-> {"ACCEPTED"}]]
    /\ quote' = [p \in Quotes |->
                    IF p = q THEN [quote[p] EXCEPT !.state = "ACCEPTED"]
                    ELSE IF p \in sess[s].others THEN [quote[p] EXCEPT !.state = "DECLINED"]
                    ELSE quote[p]]
    /\ request' = [request EXCEPT ![r].state = "MATCHED"]
    /\ order' = [OrderMoved(o, sess[s].orderTo) EXCEPT ![o].carrier = d]
    /\ Become(s, IF sess[s].orderTo = "NONE" THEN Idle
                 ELSE [sess[s] EXCEPT !.pc = "ready"])
    /\ UNCHANGED <<dispute, reviews, rated, rollbacks>>

\* The order is read again after the commit.
ReadyRead(s) ==
    LET o == sess[s].order IN
    /\ At(s, "ready")
    /\ Become(s, IF Accepts(sess[s].actor, order[o].state, "READY_FOR_PICKUP")
                 THEN [Idle EXCEPT !.pc = "move", !.order = o, !.to = "READY_FOR_PICKUP"]
                 ELSE Idle)
    /\ UNCHANGED <<order, request, quote, delivery, dispute, reviews, rated, rollbacks>>

---------------------------------------------------------------------------
(* advance_delivery *)

\* Mutant: the carrier may skip stages.
NextStage_Later(from, to) == Stage(to) > Stage(from)

NextStage(from, to) == Stage(to) = Stage(from) + 1

\* The carrier reports the stages one by one, the requester confirms, either may
\* report a failure at any time.  ACCEPTED is never reached again.
MayAdvance(d, actor, to) ==
    /\ CASE to = "CONFIRMED" -> actor = request[delivery[d].request].by
         [] to = "FAILED"    -> actor \in {delivery[d].carrier, request[delivery[d].request].by}
         [] OTHER            -> actor = delivery[d].carrier
    /\ to # "FAILED" => NextStage(delivery[d].state, to)

\* A transporter is the carrier of the delivery the order points to.
IsTransporter(o, actor) == order[o].carrier # 0 /\ delivery[order[o].carrier].carrier = actor

\* The order follows when the transport starts and when it arrives; a refusal of
\* the order's rules is swallowed.
Follows(d, actor, to) ==
    LET o == delivery[d].order
        needs == IF to = "IN_TRANSIT" THEN "READY_FOR_PICKUP" ELSE "IN_TRANSIT"
    IN  IF to \in {"IN_TRANSIT", "DELIVERED"} /\ order[o].state = needs /\ IsTransporter(o, actor)
        THEN to ELSE "NONE"

AdvanceRead(s, d, actor, to) ==
    /\ At(s, "idle") /\ Asked("transport")
    /\ delivery[d].state # "NONE" /\ to # "NONE" /\ MayAdvance(d, actor, to)
    /\ Become(s, [Idle EXCEPT !.pc = "advance", !.row = d, !.order = delivery[d].order, !.to = to,
                              !.orderTo = Follows(d, actor, to)])
    /\ UNCHANGED <<order, request, quote, delivery, dispute, reviews, rated, rollbacks>>

AdvanceCommit(s) ==
    LET r == sess[s] IN
    /\ At(s, "advance")
    /\ delivery' = [delivery EXCEPT ![r.row].state = r.to, ![r.row].trail = @ \cup {r.to}]
    /\ order' = OrderMoved(r.order, r.orderTo)
    /\ Become(s, Idle)
    /\ UNCHANGED <<request, quote, dispute, reviews, rated, rollbacks>>

---------------------------------------------------------------------------
(* transition_order and cancel_order, called by a party or an administrator *)

MoveRead(s, o, role, to) ==
    /\ At(s, "idle") /\ Asked("move")
    /\ Accepts(role, order[o].state, to)
    /\ Become(s, [Idle EXCEPT !.pc = "move", !.order = o, !.to = to])
    /\ UNCHANGED <<order, request, quote, delivery, dispute, reviews, rated, rollbacks>>

\* Mutant: a delivered order is counted, too.
Counts_Early(to) == to \in {"DELIVERED", "COMPLETED"}

Counts(to) == to = "COMPLETED"

\* The notification commits the state; a completion is counted in a second
\* transaction.
MoveCommit(s) ==
    LET r == sess[s] IN
    /\ At(s, "move")
    /\ order' = OrderMoved(r.order, r.to)
    /\ Become(s, IF Counts(r.to) THEN [r EXCEPT !.pc = "count"] ELSE Idle)
    /\ UNCHANGED <<request, quote, delivery, dispute, reviews, rated, rollbacks>>

CountCommit(s) ==
    /\ At(s, "count")
    /\ order' = [order EXCEPT ![sess[s].order].counted = @ + 1]
    /\ Become(s, Idle)
    /\ UNCHANGED <<request, quote, delivery, dispute, reviews, rated, rollbacks>>

---------------------------------------------------------------------------
(* Disputes *)

HasOpenDispute(o, by) ==
    \E c \in Disputes : /\ dispute[c].order = o /\ dispute[c].by = by
                        /\ dispute[c].state \notin {"NONE", "CLOSED", "RESOLVED"}

\* Mutant: the order is not frozen.
FrozenTo_Kept(o) == "NONE"

\* The order is frozen if the graph has the edge.
FrozenTo(o) == IF "DISPUTED" \in Allowed[order[o].state] THEN "DISPUTED" ELSE "NONE"

Disputable == {"PAID", "PROCESSING", "READY_FOR_PICKUP", "IN_TRANSIT", "DELIVERED", "COMPLETED"}

DisputeRead(s, o, by) ==
    /\ At(s, "idle") /\ Asked("dispute") /\ Unused(dispute) # {}
    /\ order[o].state \in Disputable /\ ~HasOpenDispute(o, by)
    /\ Become(s, [Idle EXCEPT !.pc = "dispute", !.order = o, !.actor = by,
                              !.orderTo = FrozenTo(o)])
    /\ UNCHANGED <<order, request, quote, delivery, dispute, reviews, rated, rollbacks>>

DisputeCommit(s) ==
    /\ At(s, "dispute") /\ Unused(dispute) # {}
    /\ dispute' = [dispute EXCEPT ![Min(Unused(dispute))] =
                      [state |-> "OPEN", order |-> sess[s].order, by |-> sess[s].actor]]
    /\ order' = OrderMoved(sess[s].order, sess[s].orderTo)
    /\ Become(s, Idle)
    /\ UNCHANGED <<request, quote, delivery, reviews, rated, rollbacks>>

\* A resolution completes a disputed order whatever its note says; it refunds
\* another one if the note says so and the graph allows it.
OrderResolved(o, to, refund) ==
    CASE to = "RESOLVED" /\ order[o].state = "DISPUTED" -> "COMPLETED"
      [] to = "RESOLVED" /\ order[o].state # "DISPUTED" /\ refund
         /\ "REFUNDED" \in Allowed[order[o].state]     -> "REFUNDED"
      [] OTHER                                         -> "NONE"

\* The administrator moves a dispute on.
ReviewDisputeRead(s, c, to, refund) ==
    /\ At(s, "idle") /\ Asked("dispute")
    /\ <<dispute[c].state, to>> \in DisputeMoves
    /\ Become(s, [Idle EXCEPT !.pc = "resolve", !.row = c, !.order = dispute[c].order, !.to = to,
                              !.orderTo = OrderResolved(dispute[c].order, to, refund)])
    /\ UNCHANGED <<order, request, quote, delivery, dispute, reviews, rated, rollbacks>>

ReviewDisputeCommit(s) ==
    LET r == sess[s] IN
    /\ At(s, "resolve")
    /\ dispute' = [dispute EXCEPT ![r.row].state = r.to]
    /\ order' = OrderMoved(r.order, r.orderTo)
    /\ Become(s, Idle)
    /\ UNCHANGED <<request, quote, delivery, reviews, rated, rollbacks>>

---------------------------------------------------------------------------
(* Reviews *)

\* Who a review is about: the other party, or the carrier of the order's delivery.
Subject(o, by, role) ==
    IF role = "logistics" THEN delivery[order[o].carrier].carrier
    ELSE IF by = "buyer" THEN "seller" ELSE "buyer"

MayReview(o, by, role) ==
    /\ order[o].state = "COMPLETED"
    /\ \/ by = "buyer" /\ role = "farmer"
       \/ by = "seller" /\ role = "buyer"
       \/ role = "logistics" /\ order[o].carrier # 0

\* uq_review_per_order: a row, or one another session is inserting.
Reviewed(o, by, role) ==
    \/ \E v \in reviews : v.order = o /\ v.by = by /\ v.role = role
    \/ \E s \in Sessions : /\ At(s, "review") /\ sess[s].order = o
                          /\ sess[s].actor = by /\ sess[s].to = role

\* The review is inserted and the subject's profile is read.
ReviewRead(s, o, by, role) ==
    /\ At(s, "idle") /\ Asked("review")
    /\ MayReview(o, by, role) /\ ~Reviewed(o, by, role)
    /\ Become(s, [Idle EXCEPT !.pc = "review", !.order = o, !.actor = by, !.to = role,
                              !.subject = Subject(o, by, role), !.seen = rated[Subject(o, by, role)]])
    /\ UNCHANGED <<order, request, quote, delivery, dispute, reviews, rated, rollbacks>>

ReviewCommit(s) ==
    LET r == sess[s] IN
    /\ At(s, "review")
    /\ reviews' = reviews \cup
          {[order |-> r.order, by |-> r.actor, role |-> r.to, subject |-> r.subject]}
    /\ rated' = [rated EXCEPT ![r.subject] = r.seen + 1]
    /\ Become(s, Idle)
    /\ UNCHANGED <<order, request, quote, delivery, dispute, rollbacks>>

---------------------------------------------------------------------------
Rollback(s) ==
    /\ ~At(s, "idle") /\ rollbacks < MaxRollbacks
    /\ Become(s, Idle)
    /\ rollbacks' = rollbacks + 1
    /\ UNCHANGED <<order, request, quote, delivery, dispute, reviews, rated>>

Continue(s) ==
    \/ QuoteCommit(s)
    \/ AcceptQuoteCommit(s)
    \/ ReadyRead(s)
    \/ AdvanceCommit(s)
    \/ MoveCommit(s)
    \/ CountCommit(s)
    \/ DisputeCommit(s)
    \/ ReviewDisputeCommit(s)
    \/ ReviewCommit(s)

Begin(s) ==
    \/ \E r \in Requests, c \in Carriers : QuoteRead(s, r, c)
    \/ \E q \in Quotes : AcceptQuoteRead(s, q)
    \/ \E d \in Deliveries, u \in Users, to \in DeliveryStates : AdvanceRead(s, d, u, to)
    \/ \E o \in Orders, role \in Parties \cup {"admin"}, to \in OrderStates : MoveRead(s, o, role, to)
    \/ \E o \in Orders, by \in Parties \cup {"admin"} : DisputeRead(s, o, by)
    \/ \E c \in Disputes, to \in DisputeStates, refund \in BOOLEAN : ReviewDisputeRead(s, c, to, refund)
    \/ \E o \in Orders, by \in Parties, role \in {"farmer", "buyer", "logistics"} :
          ReviewRead(s, o, by, role)

Next ==
    \/ \E o \in Orders : PaymentConfirmed(o)
    \/ \E o \in Orders, by \in Parties : CreateRequest(o, by)
    \/ \E s \in Sessions : Begin(s) \/ Continue(s) \/ Rollback(s)

Spec == Init /\ [][Next]_vars

\* A request that has begun is carried on by its worker.
FairSpec == Spec /\ \A s \in Sessions : WF_vars(Continue(s))

---------------------------------------------------------------------------
(* Properties *)

\* Types of the tables.
TypeOK ==
    /\ order \in [Orders -> [state : OrderStates, carrier : Deliveries \cup {0}, counted : Nat]]
    /\ request \in [Requests -> [state : {"NONE", "REQUESTED", "QUOTED", "MATCHED"},
                                 order : Orders \cup {"none"}, by : Parties \cup {"none"}]]
    /\ quote \in [Quotes -> [state : {"NONE", "SUBMITTED", "ACCEPTED", "DECLINED"},
                             request : Requests \cup {0}, carrier : Carriers \cup {"none"}]]
    /\ delivery \in [Deliveries -> [state : DeliveryStates, request : Requests \cup {0},
                                    order : Orders \cup {"none"}, carrier : Carriers \cup {"none"},
                                    trail : SUBSET DeliveryStates]]
    /\ dispute \in [Disputes -> [state : DisputeStates, order : Orders \cup {"none"},
                                 by : Parties \cup {"admin", "none"}]]
    /\ reviews \subseteq [order : Orders, by : Parties, role : {"farmer", "buyer", "logistics"},
                           subject : Users]
    /\ rated \in [Users -> Nat]
    /\ rollbacks \in Nat

\* A request is matched with one delivery, by the carrier of its one accepted quote,
\* and nobody is left waiting for an answer; before that there is no delivery.
OneDeliveryPerRequest ==
    \A r \in Requests :
        LET won == {q \in Quotes : quote[q].request = r /\ quote[q].state = "ACCEPTED"}
            sent == {d \in Deliveries : delivery[d].request = r}
        IN  /\ Cardinality(sent) = (IF request[r].state = "MATCHED" THEN 1 ELSE 0)
            /\ {delivery[d].carrier : d \in sent} = {quote[q].carrier : q \in won}
            /\ request[r].state = "MATCHED" =>
                  \A q \in Quotes : quote[q].request = r => quote[q].state # "SUBMITTED"

\* A delivery that was confirmed went through every stage, whoever reported failures
\* and resumed it on the way.
ConfirmedWasCarried ==
    \A d \in Deliveries : delivery[d].state = "CONFIRMED" => Stages \subseteq delivery[d].trail

\* An order that anybody disputed is never moved along its delivery again: it waits,
\* or it is closed.
DisputeFreezes ==
    \A c \in Disputes : dispute[c].state # "NONE" =>
        order[dispute[c].order].state \in {"DISPUTED", "COMPLETED", "REFUNDED"}

\* A resolved dispute leaves no order waiting.
ResolvedIsOver ==
    \A c \in Disputes : dispute[c].state = "RESOLVED" =>
        order[dispute[c].order].state \in {"COMPLETED", "REFUNDED"}

\* A completion is counted once, and only for a completed order.
CountedOnce ==
    \A o \in Orders : order[o].counted <= IF order[o].state = "COMPLETED" THEN 1 ELSE 0

\* The rating count of a profile is the number of reviews about its user, each user
\* reviews an order once in each role, and only completed orders are reviewed.
RatingsAreReviews ==
    /\ \A u \in Users : rated[u] = Cardinality({v \in reviews : v.subject = u})
    /\ \A v \in reviews : order[v.order].state = "COMPLETED"

\* Whoever asked for transport can accept an open quote (docs/business-rules.md:
\* farmer or buyer requests delivery, couriers quote, acceptance schedules pickup).
OpenQuoteAcceptable ==
    \A q \in Quotes :
        quote[q].state = "SUBMITTED" /\ request[quote[q].request].state \in {"REQUESTED", "QUOTED"}
        => CanAcceptQuote(q)

\* Disputes freeze completion until they are resolved (docs/business-rules.md).
CompletionWaits ==
    [][\A c \in Disputes, o \in Orders :
          /\ dispute[c].order = o /\ dispute[c].state \notin {"NONE", "RESOLVED", "CLOSED"}
          /\ order[o].state = "DISPUTED" /\ order'[o].state = "COMPLETED"
          => dispute'[c].state = "RESOLVED"]_vars
===========================================================================
