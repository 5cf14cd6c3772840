------------------------------ MODULE Auction ------------------------------
(***************************************************************************)
(* One auction: bids placed, retracted and accepted (bid_service), and the  *)
(* scheduler's sweep that closes it (expire_auctions, expire_listings).     *)
(* A worker, a web session or the Celery task, handles one request in two   *)
(* steps: Read takes the rows, unlocked, and decides; Commit writes what    *)
(* was decided.  The only locked read is that of the inventory, inside      *)
(* AcceptCommit.  Every handler commits once, so that a worker that dies     *)
(* leaves what one that never commits leaves.                               *)
(***************************************************************************)
EXTENDS Integers, FiniteSets, Functions

CONSTANTS
    NumBids,        \* bound: rows of bids
    Quantity,       \* the quantity listed, and what the seller's inventory holds
    Reserve,        \* reserve_price_minor
    Increment,      \* min_bid_increment_minor
    MaxAmount,      \* bound: amounts bid
    EndsAt,         \* auction_end_at when the auction is published
    ExpiresAt,      \* expires_at of the listing
    AntiSnipe,      \* AUCTION_ANTI_SNIPE_SECONDS
    MaxTime,        \* bound: the clock
    Workers

ASSUME AuctionAssumption ==
    /\ NumBids \in Nat /\ Quantity \in Nat \ {0}
    /\ Reserve \in Nat /\ Increment \in Nat \ {0} /\ MaxAmount \in Nat
    /\ EndsAt \in Nat /\ ExpiresAt \in Nat /\ AntiSnipe \in Nat /\ MaxTime \in Nat

Bids == 1..NumBids

VARIABLES
    listing,    \* state, avail (available_quantity), ends (auction_end_at)
    stock,      \* what the seller's inventory has left to reserve
    bid,        \* state, amount, qty, win (is_winning), over (the bid it displaced)
    orders,     \* how many orders were made of each bid
    now,
    work,       \* what each worker is doing
    overlapped  \* two requests have run at the same time

vars == <<listing, stock, bid, orders, now, work, overlapped>>

---------------------------------------------------------------------------
NoBid == [state |-> "NONE", amount |-> 0, qty |-> 0, win |-> FALSE, over |-> 0]
Published == [state |-> "ACTIVE", avail |-> Quantity, ends |-> EndsAt]
Idle == [pc |-> "idle", bid |-> 0, top |-> 0, amount |-> 0, qty |-> 0, shown |-> FALSE,
         seen |-> Published]
At(w, pc) == work[w].pc = pc
Become(w, r) ==
    /\ work' = [work EXCEPT ![w] = r]
    /\ overlapped' = (overlapped \/ \E v \in Workers \ {w} : ~At(v, "idle"))

\* An attribute set to the value that was read is not written: the row keeps its own.
Written(read, value, current) == IF value = read THEN current ELSE value

\* The leading bid, the highest of those ACTIVE; 0 when there is none.
InState(x) == {b \in Bids : bid[b].state = x}
Best(S) == {b \in S : \A c \in S : bid[c].amount <= bid[b].amount}
Highest(S) == IF Best(S) = {} THEN 0 ELSE CHOOSE b \in Best(S) : TRUE
Top == Highest(InState("ACTIVE"))

Init ==
    /\ listing = Published
    /\ stock = Quantity
    /\ bid = [b \in Bids |-> NoBid]
    /\ orders = [b \in Bids |-> 0]
    /\ now = 0
    /\ work = [w \in Workers |-> Idle]
    /\ overlapped = FALSE

Tick ==
    /\ now < MaxTime
    /\ now' = now + 1
    /\ UNCHANGED <<listing, stock, bid, orders, work, overlapped>>

---------------------------------------------------------------------------
(* place_bid *)

Open == listing.state = "ACTIVE" /\ now < listing.ends

\* Mutant: the increment is left out once somebody leads.
Floor_Tie == IF Top = 0 THEN Reserve ELSE bid[Top].amount

\* The least amount a new bid must have.
Floor == IF Top = 0 THEN Reserve ELSE bid[Top].amount + Increment

\* Bound: a row is left for every bid on its way.
RowLeft == Cardinality({w \in Workers : At(w, "place")}) < Cardinality(InState("NONE"))

PlaceRead(w, amount, qty) ==
    /\ At(w, "idle") /\ RowLeft
    /\ Open /\ qty <= listing.avail /\ amount >= Floor
    /\ Become(w, [Idle EXCEPT !.pc = "place", !.top = Top, !.amount = amount, !.qty = qty,
                              !.seen = listing])
    /\ UNCHANGED <<listing, stock, bid, orders, now>>

\* Mutant: the displaced leader keeps its state.
Displaced_Kept(top) == top

\* The leader that was read loses, whatever became of it since.
Displaced(top) == [top EXCEPT !.state = "OUTBID", !.win = FALSE]

\* Anti-sniping: a late bid moves the end.
EndAfter(seen) == IF seen.ends - now < AntiSnipe THEN now + AntiSnipe ELSE listing.ends

PlaceCommit(w) ==
    LET r == work[w]
        row == CHOOSE b \in InState("NONE") : TRUE
        new == [state |-> "ACTIVE", amount |-> r.amount, qty |-> r.qty, win |-> TRUE, over |-> r.top]
    IN  /\ At(w, "place") /\ InState("NONE") # {}
        /\ bid' = [b \in Bids |-> IF b = row THEN new
                                  ELSE IF b = r.top THEN Displaced(bid[b])
                                  ELSE bid[b]]
        /\ listing' = [listing EXCEPT !.ends = EndAfter(r.seen)]
        /\ Become(w, Idle)
        /\ UNCHANGED <<stock, orders, now>>

---------------------------------------------------------------------------
(* retract_bid *)

RetractRead(w, b) ==
    /\ At(w, "idle") /\ bid[b].state = "ACTIVE"
    /\ Become(w, [Idle EXCEPT !.pc = "retract", !.bid = b])
    /\ UNCHANGED <<listing, stock, bid, orders, now>>

\* The best of the bids still ACTIVE becomes the winning one.
RetractCommit(w) ==
    LET b == work[w].bid  heir == Highest(InState("ACTIVE") \ {b}) IN
    /\ At(w, "retract")
    /\ bid' = [c \in Bids |-> IF c = b THEN [bid[c] EXCEPT !.state = "RETRACTED", !.win = FALSE]
                              ELSE IF c = heir THEN [bid[c] EXCEPT !.win = TRUE]
                              ELSE bid[c]]
    /\ Become(w, Idle)
    /\ UNCHANGED <<listing, stock, orders, now>>

---------------------------------------------------------------------------
(* accept_bid, and accept_winning_bid, which accepts Top *)

Acceptable(b) == bid[b].state \notin {"NONE", "ACCEPTED", "RETRACTED"}

AcceptRead(w, b) ==
    /\ At(w, "idle") /\ Acceptable(b)
    /\ Become(w, [Idle EXCEPT !.pc = "accept", !.bid = b, !.qty = bid[b].qty, !.seen = listing])
    /\ UNCHANGED <<listing, stock, bid, orders, now>>

\* What the bids still in the auction become; b is the one accepted.
BidsAfter(b) ==
    [c \in Bids |-> IF c = b THEN [bid[c] EXCEPT !.state = "ACCEPTED"]
                    ELSE IF bid[c].state \in {"ACTIVE", "OUTBID"} THEN [bid[c] EXCEPT !.state = "REJECTED"]
                    ELSE bid[c]]

\* The listing after a sale: counted down (SOLD_OUT at zero, which CLOSED replaces),
\* then closed if no more is left than was just sold, or else active.
ListingAfter(seen, qty) ==
    LET left == IF seen.avail < qty THEN 0 ELSE seen.avail - qty IN
    [listing EXCEPT
        !.avail = Written(seen.avail, left, @),
        !.state = IF left = 0 THEN "CLOSED"
                  ELSE Written(seen.state, IF left <= qty THEN "CLOSED" ELSE "ACTIVE", @)]

\* reserve, under its row locks
Enough(qty) == stock >= qty

AcceptCommit(w) ==
    LET r == work[w] IN
    /\ At(w, "accept") /\ Enough(r.qty)
    /\ stock' = stock - r.qty
    /\ orders' = [orders EXCEPT ![r.bid] = @ + 1]
    /\ bid' = BidsAfter(r.bid)
    /\ listing' = ListingAfter(r.seen, r.qty)
    /\ Become(w, Idle)
    /\ UNCHANGED now

\* Mutant: what was reserved before the shortfall showed is not given back.
AcceptShort_Taken(w) ==
    /\ At(w, "accept") /\ ~Enough(work[w].qty)
    /\ stock' = 0
    /\ Become(w, Idle)
    /\ UNCHANGED <<listing, bid, orders, now>>

AcceptShort(w) ==
    /\ At(w, "accept") /\ ~Enough(work[w].qty)
    /\ Become(w, Idle)
    /\ UNCHANGED <<listing, stock, bid, orders, now>>

---------------------------------------------------------------------------
(* The scheduler: expire_auctions and expire_listings *)

\* Mutant: a beaten bid counts as a leader.
Leader_Beaten == Highest(InState("ACTIVE") \cup InState("OUTBID"))

\* The leading bid the sweep finds.
Leader == Top

SweepRead(w) ==
    /\ At(w, "idle") /\ listing.state = "ACTIVE" /\ listing.ends <= now
    /\ Become(w, [Idle EXCEPT !.pc = "sweep", !.top = Leader,
                              !.shown = Leader # 0 /\ bid[Leader].win])
    /\ UNCHANGED <<listing, stock, bid, orders, now>>

\* With a leader the auction stays as it is, and both sides are told again.
SweepCommit(w) ==
    LET leader == work[w].top IN
    /\ At(w, "sweep")
    /\ \/ /\ leader # 0
          /\ bid' = [bid EXCEPT ![leader].win = Written(work[w].shown, TRUE, @)]
          /\ UNCHANGED listing
       \/ /\ leader = 0
          /\ listing' = [listing EXCEPT !.state = "EXPIRED"]
          /\ UNCHANGED bid
    /\ Become(w, Idle)
    /\ UNCHANGED <<stock, orders, now>>

\* The listing's own lifetime ends.
LifetimeRead(w) ==
    /\ At(w, "idle") /\ listing.state = "ACTIVE" /\ ExpiresAt <= now
    /\ Become(w, [Idle EXCEPT !.pc = "lifetime"])
    /\ UNCHANGED <<listing, stock, bid, orders, now>>

LifetimeCommit(w) ==
    /\ At(w, "lifetime")
    /\ listing' = [listing EXCEPT !.state = "EXPIRED"]
    /\ Become(w, Idle)
    /\ UNCHANGED <<stock, bid, orders, now>>

---------------------------------------------------------------------------
Continue(w) ==
    \/ PlaceCommit(w)
    \/ RetractCommit(w)
    \/ AcceptCommit(w)
    \/ AcceptShort(w)
    \/ SweepCommit(w)
    \/ LifetimeCommit(w)

Begin(w) ==
    \/ \E amount \in 1..MaxAmount, qty \in 1..Quantity : PlaceRead(w, amount, qty)
    \/ \E b \in Bids : RetractRead(w, b) \/ AcceptRead(w, b)
    \/ SweepRead(w)
    \/ LifetimeRead(w)

Next == Tick \/ \E w \in Workers : Begin(w) \/ Continue(w)

Spec == Init /\ [][Next]_vars

\* Time passes, a request that has begun is carried on, and the scheduler runs every
\* minute; bidders and sellers owe nothing.
FairSpec ==
    /\ Spec
    /\ WF_vars(Tick)
    /\ \A w \in Workers : WF_vars(Continue(w))
    /\ SF_vars(\E w \in Workers : SweepRead(w))

---------------------------------------------------------------------------
(* Properties *)

ListingStates == {"ACTIVE", "CLOSED", "EXPIRED"}
BidStates == {"NONE", "ACTIVE", "OUTBID", "ACCEPTED", "REJECTED", "RETRACTED"}
ListingType == [state : ListingStates, avail : Nat, ends : Nat]

\* Types; in particular the inventory is never overdrawn.
TypeOK ==
    /\ listing \in ListingType
    /\ stock \in Nat
    /\ bid \in [Bids -> [state : BidStates, amount : Nat, qty : Nat, win : BOOLEAN, over : Bids \cup {0}]]
    /\ orders \in [Bids -> Nat]
    /\ now \in Nat
    /\ work \in [Workers -> [pc : {"idle", "place", "retract", "accept", "sweep", "lifetime"},
                             bid : Bids \cup {0}, top : Bids \cup {0}, amount : Nat, qty : Nat,
                             shown : BOOLEAN, seen : ListingType]]

\* What the orders of all bids took from the inventory and what it has left are what
\* it had, whichever acceptances run together.
Sold == [b \in Bids |-> orders[b] * bid[b].qty]
SoldIsTaken == SumFunctionOnSet(Sold, Bids) + stock = Quantity

\* A bid displaces only a bid it beats by the increment, however stale the leader it
\* read (docs/business-rules.md: bids must exceed the current highest bid by the
\* increment).
OutbidWasBeaten ==
    \A b \in Bids : bid[b].state = "OUTBID" =>
        \E c \in Bids : bid[c].over = b /\ bid[c].amount >= bid[b].amount + Increment

\* As long as no requests have overlapped, at most one bid leads, and it is the one shown
\* as winning.
OneLeader == ~overlapped =>
    /\ Cardinality(InState("ACTIVE")) <= 1
    /\ \A b \in InState("ACTIVE") : bid[b].win

\* A bid is ACCEPTED exactly when one order was made of it, as long as no requests have
\* overlapped.
AcceptedIsOrdered == ~overlapped =>
    \A b \in Bids : orders[b] = IF bid[b].state = "ACCEPTED" THEN 1 ELSE 0

\* What the listing shows is what the inventory has left, as long as no requests have
\* overlapped.
NoDrift == ~overlapped => listing.avail = stock

\* An auction that ended with nobody leading is eventually closed, unless a bid that
\* was on its way extends it.
UnbidExpires ==
    (listing.state = "ACTIVE" /\ now >= listing.ends /\ InState("ACTIVE") = {})
        ~> (listing.state # "ACTIVE" \/ now < listing.ends)

\* The scheduler closes an auction that ended with a leader (docs/business-rules.md:
\* the beat task awards the highest bidder, creates an order and rejects losers).
EndedIsAwarded ==
    (listing.state = "ACTIVE" /\ now >= listing.ends) ~> listing.state # "ACTIVE"

\* A bid that one order was made of makes no second one.
OneOrderPerBid == \A b \in Bids : orders[b] <= 1
===========================================================================
