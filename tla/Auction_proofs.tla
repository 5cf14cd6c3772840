-------------------------- MODULE Auction_proofs --------------------------
(***************************************************************************)
(* Theorems about Auction for every number of bids and of workers.          *)
(***************************************************************************)
EXTENDS Auction, Sums, TLAPS

USE AuctionAssumption

\* What a worker remembers of the bid it is about to place or accept: the leader it
\* read is a stored bid, which the new one beats by the increment.
Remembered(r) ==
    /\ r.pc = "place" /\ r.top # 0 =>
          bid[r.top].state # "NONE" /\ r.amount >= bid[r.top].amount + Increment
    /\ r.pc \in {"retract", "accept"} => r.bid \in Bids /\ bid[r.bid].state # "NONE"
    /\ r.pc = "sweep" /\ r.top # 0 => bid[r.top].state # "NONE"

\* The inductive invariant: types, what workers remember, no bid displaced or ordered
\* before it was stored, and the property itself.
IInv ==
    /\ TypeOK
    /\ \A w \in Workers : Remembered(work[w])
    /\ \A b \in Bids : bid[b].over # 0 => bid[b].state # "NONE"
    /\ OutbidWasBeaten

---------------------------------------------------------------------------
\* What is chosen as the highest of some bids is one of them, or nothing.
LEMMA HighestIn ==
  ASSUME NEW S, S \subseteq Bids
  PROVE  Highest(S) = 0 \/ Highest(S) \in S
  BY DEF Highest, Best

LEMMA TopIn == Top = 0 \/ (Top \in Bids /\ bid[Top].state = "ACTIVE")
  BY HighestIn DEF Top, InState

LEMMA InitInv == Init => IInv
  BY DEF Init, IInv, TypeOK, Remembered, OutbidWasBeaten, NoBid, Published, Idle, ListingType,
         ListingStates, BidStates, Bids

---------------------------------------------------------------------------
\* A worker's record after its request.
WorkType == [pc : {"idle", "place", "retract", "accept", "sweep", "lifetime"},
             bid : Bids \cup {0}, top : Bids \cup {0}, amount : Nat, qty : Nat,
             shown : BOOLEAN, seen : ListingType]
BidType == [state : BidStates, amount : Nat, qty : Nat, win : BOOLEAN, over : Bids \cup {0}]

\* Bids keep what they are and only change state and flag; OUTBID is not among the
\* states they change to.
Quiet ==
    \A b \in Bids :
        /\ bid'[b] \in BidType
        /\ bid'[b].amount = bid[b].amount /\ bid'[b].over = bid[b].over
        /\ bid[b].state # "NONE" => bid'[b].state # "NONE"
        /\ bid'[b].state = "OUTBID" => bid[b].state = "OUTBID"

\* A step that keeps the bids, apart from states, and gives a worker a record that
\* fits them, keeps the invariant.
LEMMA QuietStep ==
  ASSUME IInv, NEW w \in Workers, NEW r \in WorkType, Become(w, r), Remembered(r),
         bid' \in [Bids -> BidType], Quiet,
         listing' \in ListingType, stock' \in Nat, orders' \in [Bids -> Nat], now' \in Nat
  PROVE  IInv'
<1>1. work \in [Workers -> WorkType] /\ work' = [work EXCEPT ![w] = r]
  BY DEF IInv, TypeOK, WorkType, Become
<1>2. TypeOK'
  BY <1>1 DEF TypeOK, WorkType, BidType
<1>4. \A v \in Workers : Remembered(work[v])'
  <2>. SUFFICES ASSUME NEW v \in Workers PROVE Remembered(work[v])'
    OBVIOUS
  <2>1. work'[v] \in WorkType /\ Remembered(work'[v])
    BY <1>1 DEF IInv
  <2>2. work'[v].top \in Bids \cup {0}
    BY <2>1 DEF WorkType
  <2>. QED
    BY <2>1, <2>2 DEF Remembered, Quiet
<1>5. OutbidWasBeaten'
  BY DEF IInv, OutbidWasBeaten, Quiet
<1>6. \A b \in Bids : (bid[b].over # 0 => bid[b].state # "NONE")'
  BY DEF IInv, Quiet
<1>. QED
  BY <1>2, <1>4, <1>5, <1>6 DEF IInv

\* The same for a step that changes no bid.
LEMMA UnchangedBids ==
  ASSUME IInv, UNCHANGED bid
  PROVE  bid' \in [Bids -> BidType] /\ Quiet
  BY DEF IInv, TypeOK, BidType, Quiet

LEMMA IdleOK ==
  ASSUME IInv PROVE Idle \in WorkType /\ Remembered(Idle) /\ listing \in ListingType
  BY DEF Idle, WorkType, Remembered, Published, ListingType, ListingStates, IInv, TypeOK

---------------------------------------------------------------------------
LEMMA PlaceReadInv ==
  ASSUME IInv, NEW w \in Workers, NEW amount \in 1..MaxAmount, NEW qty \in 1..Quantity,
         PlaceRead(w, amount, qty)
  PROVE  IInv'
<1> DEFINE r == [Idle EXCEPT !.pc = "place", !.top = Top, !.amount = amount, !.qty = qty,
                             !.seen = listing]
<1>1. r \in WorkType
  <2>1. Top \in Bids \cup {0} /\ amount \in Nat /\ qty \in Nat
    BY TopIn
  <2>. QED
    BY <2>1, IdleOK DEF Idle, WorkType
<1>2. Remembered(r)
  <2>1. amount >= Floor
    BY DEF PlaceRead
  <2>. QED
    BY <2>1, TopIn DEF Idle, Remembered, Floor
<1>. QED
  BY <1>1, <1>2, UnchangedBids, QuietStep DEF PlaceRead, IInv, TypeOK

LEMMA OtherReadsInv ==
  ASSUME IInv, NEW w \in Workers,
         \/ \E b \in Bids : RetractRead(w, b) \/ AcceptRead(w, b)
         \/ SweepRead(w) \/ LifetimeRead(w)
  PROVE  IInv'
<1>1. CASE \E b \in Bids : RetractRead(w, b)
  <2>1. PICK b \in Bids : RetractRead(w, b)
    BY <1>1
  <2> DEFINE r == [Idle EXCEPT !.pc = "retract", !.bid = b]
  <2>2. r \in WorkType /\ Remembered(r)
    BY <2>1, IdleOK DEF RetractRead, Idle, WorkType, Remembered
  <2>. QED
    BY <2>1, <2>2, UnchangedBids, QuietStep DEF RetractRead, IInv, TypeOK
<1>2. CASE \E b \in Bids : AcceptRead(w, b)
  <2>1. PICK b \in Bids : AcceptRead(w, b)
    BY <1>2
  <2> DEFINE r == [Idle EXCEPT !.pc = "accept", !.bid = b, !.qty = bid[b].qty, !.seen = listing]
  <2>2. r \in WorkType /\ Remembered(r)
    BY <2>1, IdleOK DEF AcceptRead, Acceptable, Idle, WorkType, Remembered, IInv, TypeOK
  <2>. QED
    BY <2>1, <2>2, UnchangedBids, QuietStep DEF AcceptRead, IInv, TypeOK
<1>3. CASE SweepRead(w)
  <2> DEFINE r == [Idle EXCEPT !.pc = "sweep", !.top = Leader,
                               !.shown = Leader # 0 /\ bid[Leader].win]
  <2>1. Leader = 0 \/ (Leader \in Bids /\ bid[Leader].state = "ACTIVE")
    BY TopIn DEF Leader
  <2>2. (Leader # 0 /\ bid[Leader].win) \in BOOLEAN
    OBVIOUS
  <2>3. r \in WorkType /\ Remembered(r)
    BY <2>1, <2>2, IdleOK DEF Idle, WorkType, Remembered
  <2>. QED
    BY <1>3, <2>3, UnchangedBids, QuietStep DEF SweepRead, IInv, TypeOK
<1>4. CASE LifetimeRead(w)
  <2> DEFINE r == [Idle EXCEPT !.pc = "lifetime"]
  <2>1. r \in WorkType /\ Remembered(r)
    BY IdleOK DEF Idle, WorkType, Remembered
  <2>. QED
    BY <1>4, <2>1, UnchangedBids, QuietStep DEF LifetimeRead, IInv, TypeOK
<1>. QED
  BY <1>1, <1>2, <1>3, <1>4

---------------------------------------------------------------------------
LEMMA RetractCommitInv ==
  ASSUME IInv, NEW w \in Workers, RetractCommit(w)
  PROVE  IInv'
<1>1. bid \in [Bids -> BidType] /\ work[w].bid \in Bids /\ bid[work[w].bid].state # "NONE"
  BY DEF IInv, TypeOK, BidType, RetractCommit, At, Remembered
<1>2. bid' \in [Bids -> BidType] /\ Quiet
  BY <1>1 DEF RetractCommit, BidType, BidStates, Quiet
<1>. QED
  BY <1>2, IdleOK, QuietStep DEF RetractCommit, IInv, TypeOK

LEMMA AcceptCommitInv ==
  ASSUME IInv, NEW w \in Workers, AcceptCommit(w)
  PROVE  IInv'
<1>1. /\ bid \in [Bids -> BidType] /\ work[w].bid \in Bids /\ bid[work[w].bid].state # "NONE"
      /\ work[w].qty \in Nat /\ work[w].seen \in ListingType
  BY DEF IInv, TypeOK, BidType, AcceptCommit, At, Remembered
<1>2. bid' \in [Bids -> BidType] /\ Quiet
  BY <1>1 DEF AcceptCommit, BidsAfter, BidType, BidStates, Quiet
<1>3. listing' \in ListingType
  <2> DEFINE left == IF work[w].seen.avail < work[w].qty THEN 0 ELSE work[w].seen.avail - work[w].qty
             state == IF left = 0 THEN "CLOSED"
                      ELSE Written(work[w].seen.state, IF left <= work[w].qty THEN "CLOSED" ELSE "ACTIVE",
                                   listing.state)
  <2>1. left \in Nat
    BY <1>1 DEF ListingType
  <2>2. Written(work[w].seen.avail, left, listing.avail) \in Nat
    BY <2>1, IdleOK DEF Written, ListingType
  <2>3. state \in ListingStates
    BY IdleOK DEF Written, ListingType, ListingStates
  <2>4. listing' = [listing EXCEPT !.avail = Written(work[w].seen.avail, left, listing.avail),
                                   !.state = state]
    BY DEF AcceptCommit, ListingAfter
  <2> HIDE DEF left, state
  <2>. QED
    BY <2>2, <2>3, <2>4, IdleOK DEF ListingType
<1>4. stock' \in Nat /\ orders' \in [Bids -> Nat]
  BY <1>1 DEF AcceptCommit, Enough, IInv, TypeOK
<1>. QED
  BY <1>2, <1>3, <1>4, IdleOK, QuietStep DEF AcceptCommit, IInv, TypeOK

LEMMA SweepCommitInv ==
  ASSUME IInv, NEW w \in Workers, SweepCommit(w)
  PROVE  IInv'
<1>1. /\ bid \in [Bids -> BidType] /\ work[w].top \in Bids \cup {0}
      /\ listing' \in ListingType
  BY DEF IInv, TypeOK, BidType, SweepCommit, ListingType, ListingStates
<1>2. bid' \in [Bids -> BidType] /\ Quiet
  <2>1. CASE bid' = bid
    BY <1>1, <2>1 DEF BidType, Quiet
  <2>2. CASE work[w].top \in Bids /\ bid' = [bid EXCEPT ![work[w].top].win = TRUE]
    BY <1>1, <2>2 DEF BidType, Quiet
  <2>3. work[w].top \in Bids /\ TRUE = work[w].shown =>
           [bid EXCEPT ![work[w].top].win = bid[work[w].top].win] = bid
    BY <1>1 DEF BidType
  <2>. QED
    BY <1>1, <2>1, <2>2, <2>3 DEF SweepCommit, Written
<1>. QED
  BY <1>1, <1>2, IdleOK, QuietStep DEF SweepCommit, IInv, TypeOK

LEMMA OtherCommitsInv ==
  ASSUME IInv, NEW w \in Workers, AcceptShort(w) \/ LifetimeCommit(w)
  PROVE  IInv'
<1>1. bid' = bid /\ Become(w, Idle) /\ UNCHANGED <<stock, orders, now>> /\ listing' \in ListingType
  BY IdleOK DEF AcceptShort, LifetimeCommit, ListingType, ListingStates
<1>. QED
  BY <1>1, IdleOK, UnchangedBids, QuietStep DEF IInv, TypeOK

---------------------------------------------------------------------------
\* The one step that displaces a bid: the new bid is its witness, and it takes a row
\* that was no witness of another.
LEMMA PlaceCommitInv ==
  ASSUME IInv, NEW w \in Workers, PlaceCommit(w)
  PROVE  IInv'
<1> DEFINE r == work[w]
           row == CHOOSE b \in InState("NONE") : TRUE
           new == [state |-> "ACTIVE", amount |-> r.amount, qty |-> r.qty, win |-> TRUE, over |-> r.top]
<1>1. /\ bid \in [Bids -> BidType] /\ work \in [Workers -> WorkType] /\ r \in WorkType
      /\ r.pc = "place" /\ Remembered(r)
  BY DEF IInv, TypeOK, BidType, WorkType, PlaceCommit, At
<1>2. row \in Bids /\ bid[row].state = "NONE"
  BY DEF PlaceCommit, InState
<1>3. r.top = 0 \/ (r.top \in Bids /\ r.top # row /\ r.amount >= bid[r.top].amount + Increment)
  BY <1>1, <1>2 DEF Remembered, WorkType
<1>4. bid' = [b \in Bids |-> IF b = row THEN new
                             ELSE IF b = r.top THEN [bid[b] EXCEPT !.state = "OUTBID", !.win = FALSE]
                             ELSE bid[b]]
  BY DEF PlaceCommit, Displaced
<1>5. bid' \in [Bids -> BidType]
  <2>1. new \in BidType
    BY <1>1 DEF WorkType, BidType, BidStates
  <2>. QED
    BY <1>1, <1>4, <2>1 DEF BidType, BidStates
<1>6. \A b \in Bids \ {row} :
         /\ bid'[b].amount = bid[b].amount /\ bid'[b].over = bid[b].over
         /\ bid[b].state # "NONE" => bid'[b].state # "NONE"
         /\ bid'[b].state = "OUTBID" => bid[b].state = "OUTBID" \/ b = r.top
  BY <1>1, <1>4 DEF BidType
<1>7. bid'[row].state = "ACTIVE" /\ bid'[row].over = r.top /\ bid'[row].amount = r.amount
  BY <1>2, <1>4
<1> HIDE DEF row, new
<1>8. TypeOK'
  <2>1. listing' \in ListingType
    BY <1>1, IdleOK DEF PlaceCommit, EndAfter, ListingType, IInv, TypeOK
  <2>2. work' \in [Workers -> WorkType]
    BY <1>1, IdleOK DEF PlaceCommit, Become
  <2>. QED
    BY <1>5, <2>1, <2>2 DEF IInv, TypeOK, PlaceCommit, WorkType, BidType
<1>9. \A v \in Workers : Remembered(work[v])'
  <2>. SUFFICES ASSUME NEW v \in Workers PROVE Remembered(work[v])'
    OBVIOUS
  <2>1. work'[v] \in WorkType /\ Remembered(work'[v])
    BY <1>1, IdleOK DEF PlaceCommit, Become, IInv
  <2>2. work'[v].top \in Bids \cup {0}
    BY <2>1 DEF WorkType
  <2>. QED
    BY <1>2, <1>6, <2>1, <2>2 DEF Remembered
<1>10. \A b \in Bids : (bid[b].over # 0 => bid[b].state # "NONE")'
  BY <1>6, <1>7 DEF IInv
<1>11. OutbidWasBeaten'
  <2>. SUFFICES ASSUME NEW b \in Bids, bid'[b].state = "OUTBID"
                PROVE  \E c \in Bids : bid'[c].over = b /\ bid'[c].amount >= bid'[b].amount + Increment
    BY DEF OutbidWasBeaten
  <2>1. b # row
    BY <1>7
  <2>2. CASE b = r.top
    <3>1. bid'[row].over = b /\ bid'[row].amount >= bid'[b].amount + Increment
      BY <1>3, <1>6, <1>7, <2>1, <2>2 DEF Bids
    <3>. QED
      BY <1>2, <3>1
  <2>3. CASE b # r.top
    <3>1. PICK c \in Bids : bid[c].over = b /\ bid[c].amount >= bid[b].amount + Increment
      BY <1>6, <2>1, <2>3 DEF IInv, OutbidWasBeaten
    <3>2. c # row
      <4>1. b # 0
        BY DEF Bids
      <4>. QED
        BY <1>2, <3>1, <4>1 DEF IInv
    <3>. QED
      BY <1>6, <2>1, <3>1, <3>2
  <2>. QED
    BY <2>2, <2>3
<1>. QED
  BY <1>8, <1>9, <1>10, <1>11 DEF IInv

---------------------------------------------------------------------------
LEMMA StutterInv ==
  ASSUME IInv, UNCHANGED <<listing, stock, bid, orders, work>>, now' \in Nat
  PROVE  IInv'
<1>1. TypeOK'
  BY DEF IInv, TypeOK
<1>2. \A w \in Workers : Remembered(work[w])'
  BY DEF IInv, Remembered
<1>. QED
  BY <1>1, <1>2 DEF IInv, OutbidWasBeaten

LEMMA NextInv == IInv /\ [Next]_vars => IInv'
<1>. SUFFICES ASSUME IInv, [Next]_vars PROVE IInv'
  OBVIOUS
<1>1. CASE Tick
  BY <1>1, StutterInv DEF Tick, IInv, TypeOK
<1>2. ASSUME NEW w \in Workers, Begin(w) PROVE IInv'
  BY <1>2, PlaceReadInv, OtherReadsInv DEF Begin
<1>3. ASSUME NEW w \in Workers, Continue(w) PROVE IInv'
  BY <1>3, PlaceCommitInv, RetractCommitInv, AcceptCommitInv, SweepCommitInv, OtherCommitsInv
     DEF Continue
<1>4. CASE UNCHANGED vars
  BY <1>4, StutterInv DEF vars, IInv, TypeOK
<1>. QED
  BY <1>1, <1>2, <1>3, <1>4 DEF Next

\* The inductive invariant holds in every behaviour.
THEOREM Invariance == Spec => []IInv
<1>. QED
  BY InitInv, NextInv, PTL DEF Spec

\* Every variable keeps its type; in particular acceptances never overdraw the
\* inventory (accept_bid, through reserve).
THEOREM TypeCorrect == Spec => []TypeOK
  BY Invariance, PTL DEF IInv

\* A bid is only ever displaced by one that beats it by the increment, however many
\* workers place bids on stale reads (place_bid).
THEOREM OutbidBeaten == Spec => []OutbidWasBeaten
  BY Invariance, PTL DEF IInv

---------------------------------------------------------------------------
(* What was sold and what is left *)

\* No order is made of a bid before it is stored, and an acceptance takes the quantity of
\* its bid.
Counted ==
    /\ \A b \in Bids : bid[b].state = "NONE" => orders[b] = 0
    /\ \A w \in Workers : At(w, "accept") => work[w].qty = bid[work[w].bid].qty

LEMMA Products ==
  /\ \A m, n \in Nat : m * n \in Nat /\ (m + 1) * n = m * n + n
  /\ \A n \in Nat : 0 * n = 0
  OBVIOUS

LEMMA SoldFacts ==
  ASSUME TypeOK
  PROVE  /\ IsFiniteSet(Bids)
         /\ \A b \in Bids : Sold[b] = orders[b] * bid[b].qty /\ Sold[b] \in Nat
         /\ SumFunctionOnSet(Sold, Bids) \in Nat
<1>1. IsFiniteSet(Bids)
  BY FS_Interval DEF Bids
<1>2. \A b \in Bids : Sold[b] = orders[b] * bid[b].qty /\ Sold[b] \in Nat
  BY Products DEF TypeOK, Sold
<1>. QED
  BY <1>1, <1>2, SumType

\* While no order is made and stored bids keep their quantities, the inventory rests.
LEMMA SoldStays ==
  ASSUME TypeOK, TypeOK', Counted, SoldIsTaken, UNCHANGED <<orders, stock>>,
         \A b \in Bids : bid[b].state # "NONE" => bid'[b].qty = bid[b].qty
  PROVE  SoldIsTaken'
<1>1. \A b \in Bids : Sold[b] \in Nat /\ Sold'[b] = Sold[b]
  <2>. SUFFICES ASSUME NEW b \in Bids PROVE Sold'[b] = Sold[b]
    BY SoldFacts
  <2>1. Sold[b] = orders[b] * bid[b].qty /\ Sold'[b] = orders[b] * bid'[b].qty
    BY DEF Sold
  <2>2. bid[b].qty \in Nat /\ bid'[b].qty \in Nat
    BY DEF TypeOK
  <2>3. CASE bid[b].state = "NONE"
    BY <2>1, <2>2, <2>3, Products DEF Counted
  <2>4. CASE bid[b].state # "NONE"
    BY <2>1, <2>4
  <2>. QED
    BY <2>3, <2>4
<1>2. SumFunctionOnSet(Sold', Bids) = SumFunctionOnSet(Sold, Bids)
  BY <1>1, SoldFacts, SumSame
<1>. QED
  BY <1>2 DEF SoldIsTaken

\* An acceptance adds one order of its bid and takes the bid's quantity.
LEMMA SoldTaken ==
  ASSUME IInv, IInv', Counted, SoldIsTaken, NEW w \in Workers, AcceptCommit(w)
  PROVE  SoldIsTaken'
<1> DEFINE b == work[w].bid
<1>1. /\ b \in Bids /\ work[w].qty = bid[b].qty /\ bid[b].qty \in Nat
      /\ stock \in Nat /\ stock' = stock - bid[b].qty
      /\ orders' = [orders EXCEPT ![b] = @ + 1] /\ orders \in [Bids -> Nat]
  BY DEF AcceptCommit, IInv, TypeOK, Remembered, Counted, At
<1>2. \A c \in Bids : bid'[c].qty = bid[c].qty
  BY DEF AcceptCommit, BidsAfter, IInv, TypeOK
<1> HIDE DEF b
<1>3. /\ \A c \in Bids : Sold[c] \in Nat /\ Sold'[c] \in Nat
      /\ Sold[b] = orders[b] * bid[b].qty /\ Sold'[b] = orders'[b] * bid'[b].qty
  <2>1. \A c \in Bids : orders'[c] \in Nat /\ bid'[c].qty \in Nat
    BY DEF IInv, TypeOK
  <2>2. \A c \in Bids : Sold'[c] = orders'[c] * bid'[c].qty
    BY DEF Sold
  <2>. QED
    BY <1>1, <2>1, <2>2, SoldFacts, Products DEF IInv
<1>4. \A c \in Bids \ {b} : Sold'[c] = Sold[c]
  BY <1>1, <1>2 DEF Sold
<1>5. Sold'[b] = Sold[b] + bid[b].qty
  <2> DEFINE m == orders[b]
             n == bid[b].qty
  <2>1. m \in Nat /\ n \in Nat /\ Sold[b] = m * n /\ Sold'[b] = (m + 1) * n
    BY <1>1, <1>2, <1>3
  <2> HIDE DEF m, n
  <2>2. Sold'[b] = Sold[b] + n
    BY <2>1, Products
  <2>. QED
    BY <2>2 DEF n
<1>6. SumFunctionOnSet(Sold', Bids) - Sold'[b] = SumFunctionOnSet(Sold, Bids) - Sold[b]
  BY <1>1, <1>3, <1>4, SoldFacts, SumUpdate DEF IInv
<1>7. SumFunctionOnSet(Sold, Bids) \in Nat /\ SumFunctionOnSet(Sold', Bids) \in Nat
  BY <1>3, SoldFacts, SumType DEF IInv
<1>. QED
  BY <1>1, <1>3, <1>5, <1>6, <1>7 DEF SoldIsTaken

\* What each step does to quantities and orders.
LEMMA CountedStep ==
  ASSUME IInv, IInv', Counted, SoldIsTaken, [Next]_vars
  PROVE  Counted' /\ SoldIsTaken'
<1>1. /\ bid \in [Bids -> BidType] /\ work \in [Workers -> WorkType]
      /\ orders \in [Bids -> Nat]
  BY DEF IInv, TypeOK, BidType, WorkType
<1> DEFINE Kept == \A b \in Bids : bid[b].state # "NONE" =>
                      bid'[b].state # "NONE" /\ bid'[b].qty = bid[b].qty
<1>2. ASSUME Kept, UNCHANGED <<orders, stock>>,
             \A w \in Workers : \/ work'[w] = work[w] \/ work'[w].pc # "accept"
                                \/ \E b \in Bids : AcceptRead(w, b)
      PROVE  Counted' /\ SoldIsTaken'
  <2>1. SoldIsTaken'
    BY <1>2, SoldStays DEF IInv
  <2>2. ASSUME NEW w \in Workers, At(w, "accept")' PROVE work'[w].qty = bid'[work'[w].bid].qty
    <3>1. CASE work'[w] = work[w]
      <4>1. At(w, "accept") /\ work[w].bid \in Bids /\ bid[work[w].bid].state # "NONE"
        BY <2>2, <3>1 DEF At, IInv, Remembered
      <4>. QED
        BY <1>2, <3>1, <4>1 DEF Counted
    <3>2. ASSUME NEW b \in Bids, AcceptRead(w, b) PROVE work'[w].qty = bid'[work'[w].bid].qty
      BY <1>1, <3>2 DEF AcceptRead, Become, Idle
    <3>. QED
      BY <1>2, <2>2, <3>1, <3>2 DEF At
  <2>. QED
    BY <1>2, <2>1, <2>2 DEF Counted
<1>3. ASSUME NEW w \in Workers, Begin(w) PROVE Counted' /\ SoldIsTaken'
  <2>1. UNCHANGED <<bid, orders, stock>>
    BY <1>3 DEF Begin, PlaceRead, RetractRead, AcceptRead, SweepRead, LifetimeRead
  <2>2. (\E b \in Bids : AcceptRead(w, b)) \/ work'[w].pc # "accept"
    BY <1>1, <1>3 DEF Begin, PlaceRead, RetractRead, SweepRead, LifetimeRead, Become, Idle
  <2>3. \A v \in Workers \ {w} : work'[v] = work[v]
    BY <1>1, <1>3 DEF Begin, PlaceRead, RetractRead, AcceptRead, SweepRead, LifetimeRead, Become
  <2>. QED
    BY <1>2, <2>1, <2>2, <2>3
<1>4. ASSUME NEW w \in Workers, Continue(w) PROVE Counted' /\ SoldIsTaken'
  <2>1. \A v \in Workers : work'[v] = work[v] \/ work'[v].pc # "accept"
    <3>1. Become(w, Idle)
      BY <1>4 DEF Continue, PlaceCommit, RetractCommit, AcceptCommit, AcceptShort, SweepCommit,
         LifetimeCommit
    <3>. QED
      BY <1>1, <3>1 DEF Become, Idle
  <2>2. Kept
    <3>1. CASE PlaceCommit(w)
      <4> DEFINE row == CHOOSE b \in InState("NONE") : TRUE
      <4>1. row \in Bids /\ bid[row].state = "NONE"
        BY <3>1 DEF PlaceCommit, InState
      <4>2. \A b \in Bids \ {row} : bid'[b] = IF b = work[w].top THEN Displaced(bid[b]) ELSE bid[b]
        BY <3>1 DEF PlaceCommit
      <4> HIDE DEF row
      <4>. QED
        BY <1>1, <4>1, <4>2 DEF Displaced, BidType
    <3>2. CASE RetractCommit(w)
      BY <1>1, <3>2 DEF RetractCommit, BidType
    <3>3. CASE AcceptCommit(w)
      BY <1>1, <3>3 DEF AcceptCommit, BidsAfter, BidType
    <3>4. CASE SweepCommit(w)
      BY <1>1, <3>4 DEF SweepCommit, BidType
    <3>5. CASE AcceptShort(w) \/ LifetimeCommit(w)
      BY <3>5 DEF AcceptShort, LifetimeCommit
    <3>. QED
      BY <1>4, <3>1, <3>2, <3>3, <3>4, <3>5 DEF Continue
  <2>3. CASE ~AcceptCommit(w)
    <3>1. UNCHANGED <<orders, stock>>
      BY <1>4, <2>3 DEF Continue, PlaceCommit, RetractCommit, AcceptShort, SweepCommit, LifetimeCommit
    <3>. QED
      BY <1>2, <2>1, <2>2, <3>1
  <2>4. CASE AcceptCommit(w)
    <3>1. SoldIsTaken'
      BY <2>4, SoldTaken
    <3>2. work[w].bid \in Bids /\ bid[work[w].bid].state # "NONE"
          /\ orders' = [orders EXCEPT ![work[w].bid] = @ + 1]
      BY <2>4 DEF AcceptCommit, IInv, Remembered, At
    <3>3. \A b \in Bids : bid'[b].state = "NONE" => bid[b].state = "NONE"
      BY <2>2
    <3>4. ASSUME NEW v \in Workers, At(v, "accept")' PROVE work'[v].qty = bid'[work'[v].bid].qty
      <4>1. work'[v] = work[v] /\ At(v, "accept") /\ work[v].bid \in Bids
            /\ bid[work[v].bid].state # "NONE"
        BY <2>1, <3>4 DEF At, IInv, Remembered
      <4>. QED
        BY <2>2, <4>1 DEF Counted
    <3>. QED
      BY <1>1, <3>1, <3>2, <3>3, <3>4 DEF Counted
  <2>. QED
    BY <2>3, <2>4
<1>5. CASE Tick \/ UNCHANGED vars
  BY <1>2, <1>5 DEF Tick, vars
<1>. QED
  BY <1>3, <1>4, <1>5 DEF Next

\* The inventory loses what the orders take, whichever acceptances run together.
THEOREM SoldTakenAlways == Spec => []SoldIsTaken
<1>1. Init => Counted /\ SoldIsTaken
  <2> SUFFICES ASSUME Init PROVE Counted /\ SoldIsTaken
    OBVIOUS
  <2>1. TypeOK
    BY InitInv DEF IInv
  <2>2. \A b \in Bids : orders[b] = 0 /\ bid[b].qty = 0
    BY DEF Init, NoBid
  <2>3. \A b \in Bids : Sold[b] = 0
    BY <2>2, Products DEF Sold
  <2>4. SumFunctionOnSet(Sold, Bids) = 0
    BY <2>1, <2>3, SoldFacts, SumZero
  <2>. QED
    BY <2>2, <2>4 DEF Init, Counted, SoldIsTaken, At, Idle
<1>2. IInv /\ IInv' /\ (Counted /\ SoldIsTaken) /\ [Next]_vars => (Counted /\ SoldIsTaken)'
  BY CountedStep
<1>. QED
  BY <1>1, <1>2, Invariance, PTL DEF Spec

---------------------------------------------------------------------------
(* As long as no requests have overlapped *)

\* At most one bid leads and is shown as winning; a bid on its way displaces whichever it is.
Serial == ~overlapped =>
    /\ \A b, c \in InState("ACTIVE") : b = c
    /\ \A b \in InState("ACTIVE") : bid[b].win
    /\ \A w \in Workers : At(w, "place") => \A b \in InState("ACTIVE") : b = work[w].top

\* A step makes no bid lead and takes no leader's flag.
NoNewLeader ==
    \A b \in Bids : bid'[b].state = "ACTIVE" =>
        bid[b].state = "ACTIVE" /\ (bid[b].win => bid'[b].win)

\* A step by which worker w comes to record r keeps what is said of the leader if it makes
\* no leader and r does not place a bid on a stale one.
LEMMA SerialKept ==
  ASSUME IInv, Serial, NEW w \in Workers, NEW r, Become(w, r), NoNewLeader,
         r.pc = "place" => UNCHANGED bid /\ r.top = Top
  PROVE  Serial'
<1> SUFFICES ASSUME ~overlapped' PROVE
         /\ \A b, c \in InState("ACTIVE")' : b = c
         /\ \A b \in InState("ACTIVE")' : bid'[b].win
         /\ \A v \in Workers : At(v, "place")' => \A b \in InState("ACTIVE")' : b = work'[v].top
  BY DEF Serial
<1>1. ~overlapped /\ \A v \in Workers \ {w} : At(v, "idle")
  BY DEF Become
<1>2. work' = [work EXCEPT ![w] = r] /\ DOMAIN work = Workers
  BY DEF Become, IInv, TypeOK
<1>3. \A b \in InState("ACTIVE")' : b \in InState("ACTIVE") /\ bid'[b].win
  BY <1>1 DEF InState, NoNewLeader, Serial
<1>4. \A b, c \in InState("ACTIVE")' : b = c
  BY <1>1, <1>3 DEF Serial
<1>5. ASSUME NEW v \in Workers, At(v, "place")', NEW b \in InState("ACTIVE")'
      PROVE  b = work'[v].top
  <2>1. v = w /\ work'[v] = r /\ r.pc = "place"
    BY <1>1, <1>2, <1>5 DEF At
  <2>2. Best(InState("ACTIVE")) = InState("ACTIVE")
    <3>1. \A c \in InState("ACTIVE") : bid[c].amount \in Nat
      BY DEF InState, IInv, TypeOK
    <3>. QED
      BY <1>1, <3>1 DEF Best, Serial
  <2>3. Top \in InState("ACTIVE")
    BY <1>3, <1>5, <2>2 DEF Top, Highest
  <2>. QED
    BY <1>1, <1>3, <1>5, <2>1, <2>3 DEF Serial
<1>. QED
  BY <1>3, <1>4, <1>5

\* The new bid leads alone: the one that led is the one it read.
LEMMA SerialPlace ==
  ASSUME IInv, Serial, NEW w \in Workers, PlaceCommit(w)
  PROVE  Serial'
<1> DEFINE row == CHOOSE b \in InState("NONE") : TRUE
<1> SUFFICES ASSUME ~overlapped' PROVE Serial'
  BY DEF Serial
<1>1. /\ ~overlapped /\ At(w, "place") /\ work' = [work EXCEPT ![w] = Idle]
      /\ \A v \in Workers \ {w} : At(v, "idle")
      /\ DOMAIN work = Workers
  BY DEF PlaceCommit, Become, IInv, TypeOK
<1>2. /\ row \in Bids /\ bid[row].state = "NONE"
      /\ bid' = [b \in Bids |-> IF b = row THEN [state |-> "ACTIVE", amount |-> work[w].amount,
                                                 qty |-> work[w].qty, win |-> TRUE, over |-> work[w].top]
                                ELSE IF b = work[w].top THEN Displaced(bid[b])
                                ELSE bid[b]]
  BY DEF PlaceCommit, InState
<1> HIDE DEF row
<1>3. \A b \in Bids \ {row} : bid'[b].state # "ACTIVE"
  <2> SUFFICES ASSUME NEW b \in Bids \ {row} PROVE bid'[b].state # "ACTIVE"
    OBVIOUS
  <2>1. CASE b = work[w].top
    <3>1. bid[b] \in BidType /\ bid'[b] = [bid[b] EXCEPT !.state = "OUTBID", !.win = FALSE]
      BY <1>2, <2>1 DEF Displaced, IInv, TypeOK, BidType
    <3>. QED
      BY <3>1 DEF BidType
  <2>2. CASE b # work[w].top
    BY <1>1, <1>2, <2>2 DEF Serial, InState
  <2>. QED
    BY <2>1, <2>2
<1>4. bid'[row].win
  BY <1>2
<1>5. \A v \in Workers : ~At(v, "place")'
  BY <1>1 DEF At, Idle
<1>. QED
  BY <1>3, <1>4, <1>5 DEF Serial, InState

LEMMA SerialStep ==
  ASSUME IInv, Serial, [Next]_vars
  PROVE  Serial'
<1>1. /\ bid \in [Bids -> BidType] /\ Idle.pc # "place"
      /\ UNCHANGED bid => NoNewLeader
  BY DEF IInv, TypeOK, BidType, Idle, NoNewLeader
<1>2. ASSUME NEW w \in Workers, Begin(w) PROVE Serial'
  <2>1. CASE \E amount \in 1..MaxAmount, qty \in 1..Quantity : PlaceRead(w, amount, qty)
    BY <1>1, <2>1, SerialKept DEF PlaceRead, Idle
  <2>2. CASE \E b \in Bids : RetractRead(w, b) \/ AcceptRead(w, b)
    BY <1>1, <2>2, SerialKept DEF RetractRead, AcceptRead, Idle
  <2>3. CASE SweepRead(w) \/ LifetimeRead(w)
    BY <1>1, <2>3, SerialKept DEF SweepRead, LifetimeRead, Idle
  <2>. QED
    BY <1>2, <2>1, <2>2, <2>3 DEF Begin
<1>3. ASSUME NEW w \in Workers, Continue(w) PROVE Serial'
  <2>1. CASE PlaceCommit(w)
    BY <2>1, SerialPlace
  <2>2. CASE RetractCommit(w)
    <3>1. NoNewLeader
      BY <1>1, <2>2 DEF RetractCommit, NoNewLeader, BidType
    <3>. QED
      BY <1>1, <2>2, <3>1, SerialKept DEF RetractCommit
  <2>3. CASE AcceptCommit(w)
    <3>1. NoNewLeader
      BY <1>1, <2>3 DEF AcceptCommit, BidsAfter, NoNewLeader, BidType
    <3>. QED
      BY <1>1, <2>3, <3>1, SerialKept DEF AcceptCommit
  <2>4. CASE SweepCommit(w)
    <3> DEFINE b == work[w].top
    <3>1. b \in Bids \cup {0}
      BY DEF IInv, TypeOK
    <3>2. b \in Bids => [bid EXCEPT ![b].win = bid[b].win] = bid
      BY <1>1 DEF BidType
    <3>3. bid' = bid \/ (b \in Bids /\ bid' = [bid EXCEPT ![b].win = TRUE])
      <4>1. \/ bid' = bid
            \/ b # 0 /\ bid' = [bid EXCEPT ![b].win = IF TRUE = work[w].shown THEN bid[b].win ELSE TRUE]
        BY <2>4 DEF SweepCommit, Written
      <4>2. CASE TRUE = work[w].shown
        BY <3>1, <3>2, <4>1, <4>2
      <4>3. CASE ~(TRUE = work[w].shown)
        BY <3>1, <4>1, <4>3
      <4>. QED
        BY <4>2, <4>3
    <3>4. ASSUME b \in Bids, bid' = [bid EXCEPT ![b].win = TRUE] PROVE NoNewLeader
      <4>1. bid'[b].state = bid[b].state /\ bid'[b].win
        BY <1>1, <3>4 DEF BidType
      <4>2. \A c \in Bids \ {b} : bid'[c] = bid[c]
        BY <1>1, <3>4
      <4> HIDE DEF b
      <4>. QED
        BY <4>1, <4>2 DEF NoNewLeader
    <3>5. NoNewLeader
      BY <1>1, <3>3, <3>4
    <3>. QED
      BY <1>1, <2>4, <3>5, SerialKept DEF SweepCommit
  <2>5. CASE AcceptShort(w) \/ LifetimeCommit(w)
    BY <1>1, <2>5, SerialKept DEF AcceptShort, LifetimeCommit
  <2>. QED
    BY <1>3, <2>1, <2>2, <2>3, <2>4, <2>5 DEF Continue
<1>4. CASE Tick \/ UNCHANGED vars
  BY <1>4 DEF Tick, vars, Serial, InState, At
<1>. QED
  BY <1>2, <1>3, <1>4 DEF Next

\* As long as no requests have overlapped, one bid leads at most, the one shown as winning.
THEOREM OneLeads == Spec => []OneLeader
<1>1. Init => Serial
  BY DEF Init, Serial, InState, NoBid
<1>2. IInv /\ Serial => OneLeader
  <2> SUFFICES ASSUME IInv, Serial, ~overlapped
               PROVE  Cardinality(InState("ACTIVE")) <= 1 /\ \A b \in InState("ACTIVE") : bid[b].win
    BY DEF OneLeader
  <2>1. CASE InState("ACTIVE") = {}
    BY <2>1, FS_EmptySet
  <2>2. ASSUME NEW b \in InState("ACTIVE")
        PROVE  Cardinality(InState("ACTIVE")) <= 1 /\ \A c \in InState("ACTIVE") : bid[c].win
    <3>1. InState("ACTIVE") = {b}
      BY <2>2 DEF Serial
    <3>2. Cardinality({b}) = 1
      BY FS_Singleton
    <3>. QED
      BY <3>1, <3>2 DEF Serial
  <2>. QED
    BY <2>1, <2>2
<1>. QED
  BY <1>1, <1>2, Invariance, SerialStep, PTL DEF Spec
===========================================================================
