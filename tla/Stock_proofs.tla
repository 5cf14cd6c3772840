---------------------------- MODULE Stock_proofs ----------------------------
(***************************************************************************)
(* What is proved of the stock, for any number of listings, offers, orders  *)
(* and sessions.  Inventory is created once per listing batch: the lock on   *)
(* the listing's row is what a publication needs between its search for a    *)
(* batch and its commit (IInv).  The tables keep their checks and refer to   *)
(* rows that are there, and what a request has read of the batches it locks  *)
(* stays so (SInv).  On these rest the sums: a batch's counter is what its   *)
(* active reservations hold, until two requests release one order at once    *)
(* (HInv, TInv), and a cancellation leaves nothing that it has not found     *)
(* (FoundAll).  Requests that come one after the other make one order of an  *)
(* accepted offer (LInv).                                                    *)
(***************************************************************************)
EXTENDS Stock, Sums, TLAPS

\* The tables that a publication depends on have their shapes.
Shaped ==
    /\ batches \in [Listings -> [Owners -> Nat]]
    /\ DOMAIN listing = Listings
    /\ \A l \in Listings : DOMAIN listing[l] = {"avail", "cap", "state"}
    /\ DOMAIN sess = Sessions
    /\ \A s \in Sessions : DOMAIN sess[s] = DOMAIN Idle

\* What a session that publishes may rely on until it commits: the listing is there, and
\* the batch it has found, or not found, is still what there is.
Publishes(r) ==
    /\ r.listing \in Listings /\ r.to \in Owners
    /\ listing[r.listing].state # "NONE"
    /\ r.found <=> batches[r.listing][r.to] > 0

\* One session publishes a listing at a time.
OneAtATime == \A s, t \in Sessions :
    At(s, "publish") /\ At(t, "publish") /\ sess[s].listing = sess[t].listing => s = t

IInv ==
    /\ Shaped
    /\ OneBatch
    /\ OneAtATime
    /\ \A s \in Sessions : At(s, "publish") => Publishes(sess[s])
    /\ \A s \in Sessions : At(s, "state") => sess[s].to # "NONE"

---------------------------------------------------------------------------
(* Steps that make no batch *)

\* A listing that is there stays there.
Kept ==
    /\ DOMAIN listing' = Listings
    /\ \A l \in Listings :
        /\ DOMAIN listing'[l] = {"avail", "cap", "state"}
        /\ listing[l].state # "NONE" => listing'[l].state # "NONE"

\* Any session, or none, goes on to something that is not a publication.
Elsewhere ==
    \/ sess' = sess
    \/ \E s \in Sessions : \E r :
        /\ sess' = [sess EXCEPT ![s] = r]
        /\ DOMAIN r = DOMAIN Idle
        /\ r.pc # "publish"
        /\ r.pc = "state" => r.to # "NONE"

LEMMA QuietStep ==
    ASSUME IInv, Kept, batches' = batches, Elsewhere
    PROVE  IInv'
<1>1. Shaped'
    BY DEF IInv, Shaped, Kept, Elsewhere
<1>2. OneBatch'
    BY DEF IInv, OneBatch
<1>3. \A t \in Sessions : At(t, "publish")' => At(t, "publish") /\ sess'[t] = sess[t]
    BY DEF IInv, Shaped, At, Elsewhere
<1>4. OneAtATime'
    BY <1>3 DEF IInv, OneAtATime
<1>5. \A t \in Sessions : At(t, "publish")' => Publishes(sess[t])'
    BY <1>3 DEF IInv, Publishes, Kept
<1>6. \A t \in Sessions : At(t, "state")' => sess'[t].to # "NONE"
    BY DEF IInv, Shaped, At, Elsewhere
<1> QED BY <1>1, <1>2, <1>4, <1>5, <1>6 DEF IInv

LEMMA Goes ==
    ASSUME NEW s \in Sessions, NEW r, Become(s, r),
           DOMAIN r = DOMAIN Idle, r.pc # "publish", r.pc = "state" => r.to # "NONE"
    PROVE  Elsewhere
BY DEF Become, Elsewhere

\* A request reads: it changes no table, and what is started is not a publication.
LEMMA ReadStep ==
    ASSUME IInv, NEW s \in Sessions,
           \/ \E f \in Offers, op \in Answers : AnswerRead(s, f, op)
           \/ \E f \in Offers : AcceptRead(s, f)
           \/ \E l \in Listings, q \in 1..MaxQty : DraftRead(s, l, q)
           \/ \E o \in Orders, to \in OrderStates : TransitionRead(s, o, to)
           \/ \E o \in Orders : CancelRead(s, o)
           \/ \E l \in Listings, q \in 0..MaxQty : RestockRead(s, l, q)
           \/ \E l \in Listings, cap, avail \in 1..MaxQty : EditRead(s, l, cap, avail)
           \/ \E l \in Listings, to \in {"ACTIVE", "PAUSED", "CLOSED"} : StateRead(s, l, to)
    PROVE  IInv'
<1>1. Kept /\ batches' = batches
  <2>1. UNCHANGED tables
      BY DEF AnswerRead, AcceptRead, DraftRead, TransitionRead, CancelRead, RestockRead, EditRead,
             StateRead
  <2> QED BY <2>1 DEF tables, IInv, Shaped, Kept
<1>2. Elsewhere
  <2>1. ASSUME NEW f \in Offers, NEW op \in Answers, AnswerRead(s, f, op) PROVE Elsewhere
      BY <2>1, Goes DEF AnswerRead, Idle
  <2>2. ASSUME NEW f \in Offers, AcceptRead(s, f) PROVE Elsewhere
      BY <2>2, Goes DEF AcceptRead, Idle
  <2>3. ASSUME NEW l \in Listings, NEW q \in 1..MaxQty, DraftRead(s, l, q) PROVE Elsewhere
      BY <2>3, Goes DEF DraftRead, Idle
  <2>4. ASSUME NEW o \in Orders, NEW to \in OrderStates, TransitionRead(s, o, to) PROVE Elsewhere
      BY <2>4, Goes DEF TransitionRead, Idle
  <2>5. ASSUME NEW o \in Orders, CancelRead(s, o) PROVE Elsewhere
      BY <2>5, Goes DEF CancelRead, Idle
  <2>6. ASSUME NEW l \in Listings, NEW q \in 0..MaxQty, RestockRead(s, l, q) PROVE Elsewhere
      BY <2>6, Goes DEF RestockRead, Idle
  <2>7. ASSUME NEW l \in Listings, NEW cap \in 1..MaxQty, NEW avail \in 1..MaxQty,
             EditRead(s, l, cap, avail)
      PROVE  Elsewhere
      BY <2>7, Goes DEF EditRead, Idle
  <2>8. ASSUME NEW l \in Listings, NEW to \in {"ACTIVE", "PAUSED", "CLOSED"},
             StateRead(s, l, to)
      PROVE  Elsewhere
      BY <2>8, Goes DEF StateRead, Idle
  <2> QED BY <2>1, <2>2, <2>3, <2>4, <2>5, <2>6, <2>7, <2>8
<1> QED BY <1>1, <1>2, QuietStep

\* A request goes on without writing a listing.
LEMMA ListingsRest ==
    ASSUME IInv, NEW s \in Sessions,
           \/ AnswerCommit(s)
           \/ TransitionCommit(s)
           \/ CancelCommit(s)
           \/ AcceptReserve(s)
           \/ DraftFlush(s)
           \/ DraftShort(s)
           \/ ReleaseLock(s)
           \/ RestockLock(s)
           \/ CheckRefuses(s)
           \/ DeadlockVictim(s)
           \/ Rollback(s)
    PROVE  IInv'
<1>1. Kept /\ batches' = batches
  <2>1. listing' = listing /\ batches' = batches
      BY DEF AnswerCommit, TransitionCommit, CancelCommit, AcceptReserve, DraftFlush, DraftShort,
             ReleaseLock, RestockLock, CheckRefuses, DeadlockVictim, Rollback, tables
  <2> QED BY <2>1 DEF IInv, Shaped, Kept
<1>2. Elsewhere
  <2> USE DEF IInv, Shaped
  <2>1. CASE AnswerCommit(s)
      BY <2>1, Goes DEF AnswerCommit, Idle
  <2>2. CASE TransitionCommit(s)
      BY <2>2, Goes DEF TransitionCommit, Idle
  <2>3. CASE CancelCommit(s)
      BY <2>3, Goes DEF CancelCommit, Idle
  <2>4. CASE AcceptReserve(s)
      BY <2>4, Goes DEF AcceptReserve, Idle
  <2>5. CASE DraftFlush(s)
      BY <2>5, Goes DEF DraftFlush, Idle
  <2>6. CASE DraftShort(s)
      BY <2>6, Goes DEF DraftShort, Idle
  <2>7. CASE ReleaseLock(s)
      BY <2>7, Goes DEF ReleaseLock, Idle
  <2>8. CASE RestockLock(s)
      BY <2>8, Goes DEF RestockLock, Idle
  <2>9. CASE CheckRefuses(s)
      BY <2>9, Goes DEF CheckRefuses, Idle
  <2>10. CASE DeadlockVictim(s)
      BY <2>10, Goes DEF DeadlockVictim, Idle
  <2>11. CASE Rollback(s)
      BY <2>11, Goes DEF Rollback, Idle
  <2> QED BY <2>1, <2>2, <2>3, <2>4, <2>5, <2>6, <2>7, <2>8, <2>9, <2>10, <2>11
<1> QED BY <1>1, <1>2, QuietStep

\* A request writes a listing: it takes none away.
LEMMA ListingsKept ==
    ASSUME IInv, NEW s \in Sessions,
           \/ AcceptCommit(s)
           \/ DraftCommit(s)
           \/ RestoreCommit(s)
           \/ RestockCommit(s)
           \/ UpdateCommit(s)
    PROVE  IInv'
<1>1. batches' = batches
    BY DEF AcceptCommit, DraftCommit, RestoreCommit, RestockCommit, UpdateCommit
<1>2. Elsewhere
  <2>1. CASE AcceptCommit(s)
      BY <2>1, Goes DEF AcceptCommit, Idle
  <2>2. CASE DraftCommit(s)
      BY <2>2, Goes DEF DraftCommit, Idle
  <2>3. CASE RestoreCommit(s)
      BY <2>3, Goes DEF RestoreCommit, Idle
  <2>4. CASE RestockCommit(s)
      BY <2>4, Goes DEF RestockCommit, Idle
  <2>5. CASE UpdateCommit(s)
      BY <2>5, Goes DEF UpdateCommit, Idle
  <2> QED BY <2>1, <2>2, <2>3, <2>4, <2>5
<1>3. Kept
  <2>1. CASE AcceptCommit(s)
      BY <2>1 DEF AcceptCommit, ListingAfterSale, Written, Kept, IInv, Shaped, At
  <2>2. CASE DraftCommit(s)
      BY <2>2 DEF DraftCommit, ListingAfterSale, Written, Kept, IInv, Shaped, At
  <2>3. CASE RestoreCommit(s)
      BY <2>3 DEF RestoreCommit, ListingAfterRestore, Written, Kept, IInv, Shaped, At
  <2>4. CASE RestockCommit(s)
      BY <2>4 DEF RestockCommit, ListingAfterRestock, Written, Kept, IInv, Shaped, At
  <2>5. CASE UpdateCommit(s)
      BY <2>5 DEF UpdateCommit, ListingAfterEdit, ListingAfterState, Written, Kept, IInv, Shaped, At
  <2> QED BY <2>1, <2>2, <2>3, <2>4, <2>5
<1> QED BY <1>1, <1>2, <1>3, QuietStep

---------------------------------------------------------------------------
(* Steps that make batches *)

\* A listing is created where there is none, and nobody publishes what is not there.
LEMMA CreateStep ==
    ASSUME IInv, NEW l \in Listings, NEW q, NEW state, CreateListing(l, q, state)
    PROVE  IInv'
<1>1. /\ sess' = sess
      /\ listing' = [listing EXCEPT ![l] = [avail |-> q, cap |-> Quantity[l], state |-> state]]
      /\ state # "NONE" /\ listing[l].state = "NONE"
      /\ batches' = batches \/ batches' = [batches EXCEPT ![l]["seller"] = 1]
    BY DEF CreateListing
<1>2. Shaped'
    BY <1>1 DEF IInv, Shaped, Owners
<1>3. OneBatch'
    BY <1>1 DEF IInv, OneBatch, Shaped, Owners
<1>4. OneAtATime'
    BY <1>1 DEF IInv, OneAtATime, At
<1>5. ASSUME NEW t \in Sessions, At(t, "publish")' PROVE Publishes(sess[t])'
  <2>1. Publishes(sess[t]) /\ sess[t].listing # l
      BY <1>1, <1>5 DEF IInv, At, Publishes
  <2> QED BY <1>1, <2>1 DEF Publishes, IInv, Shaped
<1>6. \A t \in Sessions : At(t, "state")' => sess'[t].to # "NONE"
    BY <1>1 DEF IInv, At
<1> QED BY <1>2, <1>3, <1>4, <1>5, <1>6 DEF IInv

\* A publication begins: it takes the lock, so that no other one holds it.
LEMMA PublishLockStep ==
    ASSUME IInv, NEW s \in Sessions, NEW l \in Listings, NEW who \in Owners, PublishLock(s, l, who)
    PROVE  IInv'
<1> DEFINE r == [Idle EXCEPT !.pc = "publish", !.listing = l, !.to = who, !.seen = listing[l],
                             !.found = batches[l][who] > 0]
<1>1. sess' = [sess EXCEPT ![s] = r] /\ listing' = listing /\ batches' = batches
    BY DEF PublishLock, Become, tables
<1>2. /\ DOMAIN r = DOMAIN Idle
      /\ r.pc = "publish" /\ r.listing = l /\ r.to = who
      /\ r.found <=> batches[l][who] > 0
    BY DEF Idle
<1>3. \A t \in Sessions : At(t, "publish") => sess[t].listing # l
    BY DEF PublishLock, LockedListings, At
<1>4. listing[l].state # "NONE"
    BY DEF PublishLock
<1> HIDE DEF r
<1>5. \A t \in Sessions : sess'[t] = IF t = s THEN r ELSE sess[t]
    BY <1>1 DEF IInv, Shaped
<1>6. Shaped'
    BY <1>1, <1>2, <1>5 DEF IInv, Shaped
<1>7. OneBatch'
    BY <1>1 DEF IInv, OneBatch
<1>8. OneAtATime'
    BY <1>2, <1>3, <1>5 DEF IInv, OneAtATime, At
<1>9. \A t \in Sessions : At(t, "publish")' => Publishes(sess[t])'
    BY <1>1, <1>2, <1>4, <1>5 DEF IInv, Publishes, At
<1>10. \A t \in Sessions : At(t, "state")' => sess'[t].to # "NONE"
    BY <1>2, <1>5 DEF IInv, At
<1> QED BY <1>6, <1>7, <1>8, <1>9, <1>10 DEF IInv

\* It commits: the batch it makes is one it has not found, and it alone is at the listing.
LEMMA PublishCommitStep ==
    ASSUME IInv, NEW s \in Sessions, PublishCommit(s)
    PROVE  IInv'
<1> DEFINE l == sess[s].listing
           who == sess[s].to
<1>1. /\ At(s, "publish") /\ Publishes(sess[s])
      /\ sess' = [sess EXCEPT ![s] = Idle]
      /\ listing' = [listing EXCEPT ![l].state = Written(sess[s].seen.state, "ACTIVE", @)]
      /\ batches' = IF sess[s].found THEN batches ELSE [batches EXCEPT ![l][who] = @ + 1]
    BY DEF PublishCommit, Become, IInv
<1>2. l \in Listings /\ who \in Owners
    BY <1>1 DEF Publishes
<1>3. Shaped'
    BY <1>1, <1>2 DEF IInv, Shaped
<1>4. Kept
    BY <1>1, <1>2 DEF IInv, Shaped, Kept, Written
<1>5. ~sess[s].found => batches[l][who] = 0
    BY <1>1, <1>2 DEF Publishes, IInv, Shaped
<1>6. OneBatch'
    BY <1>1, <1>2, <1>5 DEF IInv, OneBatch, Shaped
<1>7. \A t \in Sessions :
        At(t, "publish")' => At(t, "publish") /\ sess'[t] = sess[t] /\ sess[t].listing # l
    BY <1>1 DEF IInv, Shaped, At, OneAtATime, Idle
<1>8. OneAtATime'
    BY <1>7 DEF IInv, OneAtATime
<1>9. ASSUME NEW t \in Sessions, At(t, "publish")' PROVE Publishes(sess[t])'
  <2>1. Publishes(sess[t]) /\ sess'[t] = sess[t] /\ sess[t].listing # l
      BY <1>7, <1>9 DEF IInv
  <2> HIDE DEF l, who
  <2>2. batches'[sess[t].listing] = batches[sess[t].listing]
      BY <1>1, <2>1
  <2> QED BY <1>4, <2>1, <2>2 DEF Publishes, Kept
<1>10. \A t \in Sessions : At(t, "state")' => sess'[t].to # "NONE"
    BY <1>1 DEF IInv, Shaped, At, Idle
<1> QED BY <1>3, <1>6, <1>8, <1>9, <1>10 DEF IInv

---------------------------------------------------------------------------
LEMMA InitInv == Init => IInv
<1> SUFFICES ASSUME Init PROVE IInv
    OBVIOUS
<1>1. Shaped
    BY DEF Init, Shaped, NoListing, Owners
<1>2. \A s \in Sessions : sess[s].pc = "idle"
    BY DEF Init, Idle
<1>3. OneBatch
    BY DEF Init, OneBatch
<1> QED BY <1>1, <1>2, <1>3 DEF IInv, OneAtATime, At

LEMMA NextInv == IInv /\ [Next]_vars => IInv'
<1> SUFFICES ASSUME IInv, [Next]_vars PROVE IInv'
    OBVIOUS
<1>1. ASSUME NEW l \in Listings, NEW q \in 1..MaxQty, NEW state \in {"DRAFT", "ACTIVE"},
             CreateListing(l, q, state)
      PROVE  IInv'
    BY <1>1, CreateStep
<1>2. CASE \/ \E l \in Listings, q \in 1..MaxQty : CreateOffer(l, q)
           \/ \E f \in Offers : OfferLapses(f)
           \/ UNCHANGED vars
  <2>1. listing' = listing /\ batches' = batches /\ sess' = sess
      BY <1>2 DEF CreateOffer, OfferLapses, tables, vars
  <2>2. Kept /\ Elsewhere
      BY <2>1 DEF IInv, Shaped, Kept, Elsewhere
  <2> QED BY <2>1, <2>2, QuietStep
<1>3. ASSUME NEW s \in Sessions, Begin(s) PROVE IInv'
  <2>1. ASSUME NEW l \in Listings, NEW who \in Owners, PublishLock(s, l, who) PROVE IInv'
      BY <2>1, PublishLockStep
  <2> QED BY <1>3, <2>1, ReadStep DEF Begin
<1>4. ASSUME NEW s \in Sessions, Continue(s) \/ Rollback(s) PROVE IInv'
    BY <1>4, PublishCommitStep, ListingsKept, ListingsRest DEF Continue
<1> QED BY <1>1, <1>2, <1>3, <1>4 DEF Next

\* However many requests publish a listing together, each of its owners gets one batch
\* (publish_listing under the lock of the listing's row).
THEOREM PublishedOnce == Spec => []OneBatch
<1>1. IInv => OneBatch
    BY DEF IInv
<1> QED BY <1>1, InitInv, NextInv, PTL DEF Spec

---------------------------------------------------------------------------
(* What the tables and the requests on them always are *)

ListingStates == {"NONE", "DRAFT", "ACTIVE", "PAUSED", "CLOSED", "SOLD_OUT"}
BatchStates == {"NONE", "AVAILABLE", "SOLD"}
ListingType == [avail : Nat, cap : Nat, state : ListingStates]
BatchType == [total : Nat, reserved : Nat, state : BatchStates]
OfferType == [state : OfferStates, listing : Listings \cup {0}, qty : Nat, parent : Offers \cup {0}]
OrderType ==
    [state : OrderStates \cup {"NONE"}, listing : Listings \cup {0}, qty : Nat, offer : Offers \cup {0}]

\* What a session keeps of its request; .to is read as a state, an answer or an owner.
RequestType ==
    [pc : {"idle", "answer", "accept", "acceptCommit", "draft", "draftReserve", "transition",
           "cancel", "release", "restore", "restock", "restockCommit", "publish", "edit", "state"},
     offer : Offers \cup {0}, order : Orders \cup {0}, listing : Listings \cup {0},
     qty : Nat, cap : Nat, to : OrderStates \cup Answers \cup Owners \cup ListingStates,
     seen : ListingType, seenBatch : BatchType, found : BOOLEAN,
     locked : SUBSET Listings, take : [Listings -> Nat], base : [Listings -> Nat]]

TablesType ==
    /\ listing \in [Listings -> ListingType]
    /\ batch \in [Listings -> BatchType]
    /\ batches \in [Listings -> [Owners -> Nat]]
    /\ offer \in [Offers -> OfferType]
    /\ order \in [Orders -> OrderType]
    /\ held \in [Orders -> [Listings -> Nat]]
    /\ active \in SUBSET Orders

TypeOK ==
    /\ TablesType
    /\ lapsed \in SUBSET Offers /\ rollbacks \in Nat
    /\ sess \in [Sessions -> RequestType]

There(l) == l \in Listings /\ listing[l].state # "NONE"

\* A listing shows no more than it has (ck_listing_avail_lte), and one that is not there has
\* no batch of the seller's.
ListingsOK == \A l \in Listings :
    /\ listing[l].avail <= listing[l].cap
    /\ listing[l].state = "NONE" => listing[l] = NoListing /\ batches[l]["seller"] = 0

\* A batch reserves no more than it holds, and nothing of it before it is made.
BatchesOK == \A b \in Listings :
    /\ batch[b].reserved <= batch[b].total
    /\ batches[b]["seller"] = 0 => batch[b] = NoBatch /\ \A o \in Orders : held[o][b] = 0

OffersOK == \A f \in Offers : offer[f].state # "NONE" => There(offer[f].listing)

OrdersOK == \A o \in Orders :
    /\ order[o].state # "NONE" => There(order[o].listing)
    /\ order[o].state = "NONE" => o \notin active /\ order[o].offer = 0

TablesOK == ListingsOK /\ BatchesOK /\ OffersOK /\ OrdersOK

\* What a session may rely on: the rows its request is about are there, and what it has
\* read of the batches that it locks is still so.
RequestOK(r) ==
    /\ r.pc \notin {"idle", "answer", "transition"} => There(r.listing)
    /\ r.pc \in {"answer", "accept", "acceptCommit"} =>
            r.offer \in Offers /\ offer[r.offer].state # "NONE"
    /\ r.pc \in {"transition", "cancel", "release", "restore"} =>
            r.order \in Orders /\ order[r.order].state # "NONE"
    /\ r.pc = "transition" => r.to \in OrderStates /\ r.to \in Targets
    /\ r.pc = "state" => r.to \in {"ACTIVE", "PAUSED", "CLOSED"}
    /\ r.pc = "publish" => r.to \in Owners
    /\ r.pc \in {"restock", "restockCommit"} => batches[r.listing]["seller"] > 0
    /\ r.locked # {} => r.pc \in {"acceptCommit", "restore", "restockCommit"}
    /\ \A b \in r.locked : batches[b]["seller"] > 0
    /\ r.pc = "acceptCommit" => \A b \in Listings : r.take[b] > 0 =>
            /\ b \in r.locked /\ r.base[b] = batch[b].reserved
            /\ r.base[b] + r.take[b] <= batch[b].total
    /\ r.pc = "restockCommit" =>
            /\ r.locked \subseteq {r.listing}
            /\ r.locked # {} =>
                 r.seenBatch.total + r.qty - r.seen.avail >= batch[r.listing].reserved
    /\ r.pc = "restore" => r.locked = IF r.found THEN HeldBy(r.order) ELSE {}

\* FOR UPDATE: no two sessions hold a batch.
LocksApart == \A s, t \in Sessions : s # t => sess[s].locked \cap sess[t].locked = {}

\* The requests, with what the publications need.
SInv ==
    /\ IInv /\ TypeOK /\ TablesOK /\ LocksApart
    /\ \A s \in Sessions : RequestOK(sess[s])

\* What a step leaves to a session that locks the batches in L: the rows stay there, an
\* order keeps what it holds, and a locked batch stays as it is.
Onward(L) ==
    /\ \A l \in Listings : listing[l].state # "NONE" => listing'[l].state # "NONE"
    /\ \A f \in Offers : offer[f].state # "NONE" => offer'[f].state # "NONE"
    /\ \A o \in Orders : order[o].state # "NONE" => order'[o].state # "NONE" /\ held'[o] = held[o]
    /\ \A b \in Listings : batches[b]["seller"] > 0 => batches'[b]["seller"] > 0
    /\ \A b \in L : batch'[b] = batch[b]

\* reserve takes from a candidate, and no more than it has left.
LEMMA TakeFits ==
    ASSUME TablesType, NEW q \in Nat
    PROVE  /\ Take(q) \in [Listings -> Nat]
           /\ \A b \in Listings : Take(q)[b] > 0 =>
                 /\ b \in Candidates
                 /\ batch[b].reserved + Take(q)[b] <= batch[b].total
<1> SUFFICES ASSUME NEW b \in Listings
             PROVE  /\ Take(q)[b] \in Nat
                    /\ Take(q)[b] > 0 => /\ b \in Candidates
                                         /\ batch[b].reserved + Take(q)[b] <= batch[b].total
    BY DEF Take
<1>1. batch[b].total \in Nat /\ batch[b].reserved \in Nat
    BY DEF TablesType, BatchType
<1>2. CASE b \notin Candidates
    BY <1>2 DEF Take
<1>3. CASE b \in Candidates
  <2> DEFINE S == {c \in Candidates : c < b}
             f == [c \in Listings |-> Left(c)]
  <2>1. LeftIn(S) \in Nat
    <3>1. IsFiniteSet(S)
        BY FS_Interval, FS_Subset, StockAssumption DEF Listings, Candidates
    <3>2. \A c \in S : f[c] \in Nat
        BY DEF Candidates, Left, TablesType, BatchType
    <3> HIDE DEF S, f
    <3>3. SumFunctionOnSet(f, S) \in Nat
        BY <3>1, <3>2, SumType
    <3> QED BY <3>3 DEF LeftIn, f
  <2>2. Left(b) \in Nat /\ Left(b) > 0
      BY <1>1, <1>3 DEF Candidates, Left
  <2>3. Take(q)[b] = Clip(q - LeftIn(S), 0, Left(b))
      BY <1>3 DEF Take
  <2> HIDE DEF S
  <2>4. Take(q)[b] \in 0 .. Left(b)
      BY <2>1, <2>2, <2>3 DEF Clip
  <2> QED BY <1>1, <1>3, <2>4 DEF Left
<1> QED BY <1>2, <1>3

LEMMA CandidatesMade ==
    ASSUME TypeOK, TablesOK, NEW b \in Candidates
    PROVE  b \in Listings /\ batches[b]["seller"] > 0
<1>1. b \in Listings /\ batch[b].state = "AVAILABLE"
    BY DEF Candidates
<1>2. batches[b]["seller"] # 0
    BY <1>1 DEF TablesOK, BatchesOK, NoBatch
<1>3. batches[b]["seller"] \in Nat
    BY <1>1 DEF TypeOK, TablesType, Owners
<1> QED BY <1>1, <1>2, <1>3

LEMMA RequestStays ==
    ASSUME TypeOK, NEW t \in Sessions, RequestOK(sess[t]), sess'[t] = sess[t], Onward(sess[t].locked)
    PROVE  RequestOK(sess[t])'
<1> DEFINE r == sess[t]
<1>1. r \in RequestType
    BY DEF TypeOK
<1>2. r.pc = "acceptCommit" => \A b \in Listings : r.take[b] > 0 =>
            /\ b \in r.locked /\ r.base[b] = batch'[b].reserved
            /\ r.base[b] + r.take[b] <= batch'[b].total
    BY DEF RequestOK, Onward
<1>3. r.pc = "restockCommit" =>
            /\ r.locked \subseteq {r.listing}
            /\ r.locked # {} =>
                 r.seenBatch.total + r.qty - r.seen.avail >= batch'[r.listing].reserved
    BY DEF RequestOK, Onward
<1>4. r.pc = "restore" => r.locked = IF r.found THEN {b \in Listings : held'[r.order][b] > 0} ELSE {}
    BY DEF RequestOK, Onward, HeldBy
<1>5. /\ r.pc \notin {"idle", "answer", "transition"} =>
            r.listing \in Listings /\ listing'[r.listing].state # "NONE"
      /\ r.pc \in {"answer", "accept", "acceptCommit"} =>
            r.offer \in Offers /\ offer'[r.offer].state # "NONE"
      /\ r.pc \in {"transition", "cancel", "release", "restore"} =>
            r.order \in Orders /\ order'[r.order].state # "NONE"
    BY DEF RequestOK, Onward, There
<1>6. /\ r.pc \in {"restock", "restockCommit"} => batches'[r.listing]["seller"] > 0
      /\ \A b \in r.locked : batches'[b]["seller"] > 0
    BY <1>1 DEF RequestOK, Onward, There, RequestType
<1>7. /\ r.pc = "transition" => r.to \in OrderStates /\ r.to \in Targets
      /\ r.pc = "state" => r.to \in {"ACTIVE", "PAUSED", "CLOSED"}
      /\ r.pc = "publish" => r.to \in Owners
      /\ r.locked # {} => r.pc \in {"acceptCommit", "restore", "restockCommit"}
    BY DEF RequestOK
<1> HIDE DEF r
<1>8. sess'[t] = r
    BY DEF r
<1> QED BY <1>2, <1>3, <1>4, <1>5, <1>6, <1>7, <1>8 DEF RequestOK, HeldBy, There

\* One session takes a step: it is as it should be and the others can go on.
LEMMA SessionStep ==
    ASSUME SInv, IInv', TypeOK', TablesOK', NEW s \in Sessions,
           \A t \in Sessions \ {s} :
               /\ sess'[t] = sess[t]
               /\ sess'[s].locked \cap sess[t].locked = {}
               /\ Onward(sess[t].locked),
           RequestOK(sess[s])'
    PROVE  SInv'
<1>1. LocksApart'
    BY DEF SInv, LocksApart
<1>2. \A t \in Sessions : RequestOK(sess[t])'
    BY RequestStays DEF SInv
<1> QED BY <1>1, <1>2 DEF SInv

\* A step of one session that writes no table.
LEMMA ReadsOnly ==
    ASSUME SInv, IInv', NEW s \in Sessions, NEW r \in RequestType, sess' = [sess EXCEPT ![s] = r],
           UNCHANGED tables, UNCHANGED lapsed, rollbacks' \in Nat,
           \A t \in Sessions \ {s} : r.locked \cap sess[t].locked = {},
           RequestOK(r)
    PROVE  SInv'
<1> USE DEF tables
<1>1. sess'[s] = r /\ \A t \in Sessions \ {s} : sess'[t] = sess[t]
    BY DEF SInv, TypeOK
<1>2. TypeOK'
    BY DEF SInv, TypeOK, TablesType
<1>3. TablesOK'
    BY DEF SInv, TablesOK, ListingsOK, BatchesOK, OffersOK, OrdersOK, There
<1>4. \A t \in Sessions : Onward(sess[t].locked)
    BY DEF Onward
<1>5. RequestOK(sess[s])'
    BY <1>1 DEF RequestOK, There, HeldBy
<1> QED BY <1>1, <1>2, <1>3, <1>4, <1>5, SessionStep

LEMMA IdleOK == Idle \in RequestType /\ RequestOK(Idle)
BY DEF Idle, RequestType, RequestOK, ListingType, BatchType, NoListing, NoBatch, NoTake, ListingStates,
       BatchStates

---------------------------------------------------------------------------
(* Requests begin and go on *)

\* A request that begins keeps rows that are there, and locks nothing.
LEMMA BeginStep ==
    ASSUME SInv, IInv', NEW s \in Sessions, Begin(s)
    PROVE  SInv'
<1> USE DEF SInv, TypeOK, TablesType
<1> DEFINE Starts(r) ==
        /\ r \in RequestType /\ r.locked = {} /\ RequestOK(r)
        /\ sess' = [sess EXCEPT ![s] = r] /\ UNCHANGED tables /\ UNCHANGED lapsed /\ rollbacks' \in Nat
<1>1. Idle \in RequestType /\ Idle.locked = {}
    BY IdleOK DEF Idle
<1>2. ASSUME NEW r, Starts(r) PROVE SInv'
    BY <1>2, ReadsOnly
<1>3. ASSUME NEW f \in Offers, NEW op \in Answers, AnswerRead(s, f, op) PROVE SInv'
  <2> DEFINE r == [Idle EXCEPT !.pc = "answer", !.offer = f, !.to = op]
  <2>1. offer[f].state # "NONE"
      BY <1>3 DEF AnswerRead, Answerable
  <2>2. /\ r \in RequestType /\ r.locked = {}
        /\ r.pc = "answer" /\ r.offer = f
      BY <1>1 DEF RequestType, Idle
  <2>3. sess' = [sess EXCEPT ![s] = r] /\ UNCHANGED tables /\ UNCHANGED lapsed /\ rollbacks' \in Nat
      BY <1>3 DEF AnswerRead, Become
  <2> HIDE DEF r
  <2>4. RequestOK(r)
      BY <2>1, <2>2 DEF RequestOK
  <2> QED BY <1>2, <2>2, <2>3, <2>4
<1>4. ASSUME NEW f \in Offers, AcceptRead(s, f) PROVE SInv'
  <2> DEFINE r == [Idle EXCEPT !.pc = "accept", !.offer = f, !.listing = offer[f].listing,
                               !.qty = offer[f].qty, !.seen = listing[offer[f].listing]]
  <2>1. offer[f].state # "NONE" /\ There(offer[f].listing)
      BY <1>4 DEF AcceptRead, CanAccept, TablesOK, OffersOK
  <2>2. /\ r \in RequestType /\ r.locked = {}
        /\ r.pc = "accept" /\ r.offer = f /\ r.listing = offer[f].listing
      BY <1>1, <2>1 DEF RequestType, Idle, There, OfferType
  <2>3. sess' = [sess EXCEPT ![s] = r] /\ UNCHANGED tables /\ UNCHANGED lapsed /\ rollbacks' \in Nat
      BY <1>4 DEF AcceptRead, Become
  <2> HIDE DEF r
  <2>4. RequestOK(r)
      BY <2>1, <2>2 DEF RequestOK
  <2> QED BY <1>2, <2>2, <2>3, <2>4
<1>5. ASSUME NEW l \in Listings, NEW q \in 1..MaxQty, DraftRead(s, l, q) PROVE SInv'
  <2> DEFINE r == [Idle EXCEPT !.pc = "draft", !.listing = l, !.qty = q, !.seen = listing[l]]
  <2>1. listing[l].state # "NONE"
    <3>1. q \in Nat /\ q > 0 /\ q <= listing[l].avail
        BY <1>5, StockAssumption DEF DraftRead
    <3> QED BY <3>1 DEF TablesOK, ListingsOK, NoListing
  <2>2. /\ r \in RequestType /\ r.locked = {}
        /\ r.pc = "draft" /\ r.listing = l
    <3>1. q \in Nat
        BY StockAssumption
    <3> QED BY <1>1, <3>1 DEF RequestType, Idle
  <2>3. sess' = [sess EXCEPT ![s] = r] /\ UNCHANGED tables /\ UNCHANGED lapsed /\ rollbacks' \in Nat
      BY <1>5 DEF DraftRead, Become
  <2> HIDE DEF r
  <2>4. RequestOK(r)
      BY <2>1, <2>2 DEF RequestOK, There
  <2> QED BY <1>2, <2>2, <2>3, <2>4
<1>6. ASSUME NEW o \in Orders, NEW to \in OrderStates, TransitionRead(s, o, to) PROVE SInv'
  <2> DEFINE r == [Idle EXCEPT !.pc = "transition", !.order = o, !.to = to]
  <2>1. order[o].state # "NONE" /\ to \in Targets
      BY <1>6 DEF TransitionRead
  <2>2. /\ r \in RequestType /\ r.locked = {}
        /\ r.pc = "transition" /\ r.order = o /\ r.to = to
      BY <1>1 DEF RequestType, Idle
  <2>3. sess' = [sess EXCEPT ![s] = r] /\ UNCHANGED tables /\ UNCHANGED lapsed /\ rollbacks' \in Nat
      BY <1>6 DEF TransitionRead, Become
  <2> HIDE DEF r
  <2>4. RequestOK(r)
      BY <2>1, <2>2 DEF RequestOK
  <2> QED BY <1>2, <2>2, <2>3, <2>4
<1>7. ASSUME NEW o \in Orders, CancelRead(s, o) PROVE SInv'
  <2> DEFINE r == [Idle EXCEPT !.pc = "cancel", !.order = o, !.listing = order[o].listing,
                               !.qty = order[o].qty]
  <2>1. order[o].state # "NONE" /\ There(order[o].listing)
      BY <1>7 DEF CancelRead, TablesOK, OrdersOK
  <2>2. /\ r \in RequestType /\ r.locked = {}
        /\ r.pc = "cancel" /\ r.order = o /\ r.listing = order[o].listing
      BY <1>1 DEF RequestType, Idle, OrderType
  <2>3. sess' = [sess EXCEPT ![s] = r] /\ UNCHANGED tables /\ UNCHANGED lapsed /\ rollbacks' \in Nat
      BY <1>7 DEF CancelRead, Become
  <2> HIDE DEF r
  <2>4. RequestOK(r)
      BY <2>1, <2>2 DEF RequestOK
  <2> QED BY <1>2, <2>2, <2>3, <2>4
<1>8. ASSUME NEW l \in Listings, NEW q \in 0..MaxQty, RestockRead(s, l, q) PROVE SInv'
  <2> DEFINE r == [Idle EXCEPT !.pc = "restock", !.listing = l, !.qty = q,
                               !.seen = listing[l], !.seenBatch = batch[l]]
  <2>1. listing[l].state # "NONE" /\ batches[l]["seller"] > 0
      BY <1>8 DEF RestockRead
  <2>2. /\ r \in RequestType /\ r.locked = {}
        /\ r.pc = "restock" /\ r.listing = l
    <3>1. q \in Nat
        BY StockAssumption
    <3> QED BY <1>1, <3>1 DEF RequestType, Idle
  <2>3. sess' = [sess EXCEPT ![s] = r] /\ UNCHANGED tables /\ UNCHANGED lapsed /\ rollbacks' \in Nat
      BY <1>8 DEF RestockRead, Become
  <2> HIDE DEF r
  <2>4. RequestOK(r)
      BY <2>1, <2>2 DEF RequestOK, There
  <2> QED BY <1>2, <2>2, <2>3, <2>4
<1>9. ASSUME NEW l \in Listings, NEW who \in Owners, PublishLock(s, l, who) PROVE SInv'
  <2> DEFINE r == [Idle EXCEPT !.pc = "publish", !.listing = l, !.to = who, !.seen = listing[l],
                               !.found = batches[l][who] > 0]
  <2>1. listing[l].state # "NONE"
      BY <1>9 DEF PublishLock
  <2>2. /\ r \in RequestType /\ r.locked = {}
        /\ r.pc = "publish" /\ r.listing = l /\ r.to = who
    <3>1. (batches[l][who] > 0) \in BOOLEAN
        BY DEF Owners
    <3> QED BY <1>1, <3>1 DEF RequestType, Idle
  <2>3. sess' = [sess EXCEPT ![s] = r] /\ UNCHANGED tables /\ UNCHANGED lapsed /\ rollbacks' \in Nat
      BY <1>9 DEF PublishLock, Become
  <2> HIDE DEF r
  <2>4. RequestOK(r)
      BY <2>1, <2>2 DEF RequestOK, There
  <2> QED BY <1>2, <2>2, <2>3, <2>4
<1>10. ASSUME NEW l \in Listings, NEW cap \in 1..MaxQty, NEW avail \in 1..MaxQty,
              EditRead(s, l, cap, avail)
       PROVE  SInv'
  <2> DEFINE r == [Idle EXCEPT !.pc = "edit", !.listing = l, !.qty = avail, !.cap = cap,
                               !.seen = listing[l]]
  <2>1. listing[l].state # "NONE"
      BY <1>10 DEF EditRead
  <2>2. /\ r \in RequestType /\ r.locked = {}
        /\ r.pc = "edit" /\ r.listing = l
    <3>1. cap \in Nat /\ avail \in Nat
        BY StockAssumption
    <3> QED BY <1>1, <3>1 DEF RequestType, Idle
  <2>3. sess' = [sess EXCEPT ![s] = r] /\ UNCHANGED tables /\ UNCHANGED lapsed /\ rollbacks' \in Nat
      BY <1>10 DEF EditRead, Become
  <2> HIDE DEF r
  <2>4. RequestOK(r)
      BY <2>1, <2>2 DEF RequestOK, There
  <2> QED BY <1>2, <2>2, <2>3, <2>4
<1>11. ASSUME NEW l \in Listings, NEW to \in {"ACTIVE", "PAUSED", "CLOSED"}, StateRead(s, l, to)
       PROVE  SInv'
  <2> DEFINE r == [Idle EXCEPT !.pc = "state", !.listing = l, !.to = to, !.seen = listing[l]]
  <2>1. listing[l].state # "NONE"
      BY <1>11 DEF StateRead
  <2>2. /\ r \in RequestType /\ r.locked = {}
        /\ r.pc = "state" /\ r.listing = l /\ r.to = to
      BY <1>1 DEF RequestType, Idle, ListingStates
  <2>3. sess' = [sess EXCEPT ![s] = r] /\ UNCHANGED tables /\ UNCHANGED lapsed /\ rollbacks' \in Nat
      BY <1>11 DEF StateRead, Become
  <2> HIDE DEF r
  <2>4. RequestOK(r)
      BY <2>1, <2>2 DEF RequestOK, There
  <2> QED BY <1>2, <2>2, <2>3, <2>4
<1> QED BY <1>3, <1>4, <1>5, <1>6, <1>7, <1>8, <1>9, <1>10, <1>11 DEF Begin

\* A request ends, or is rolled back, without having written a table.
LEMMA GivesUp ==
    ASSUME SInv, IInv', NEW s \in Sessions, sess' = [sess EXCEPT ![s] = Idle], UNCHANGED tables,
           UNCHANGED lapsed, rollbacks' \in Nat
    PROVE  SInv'
<1>1. Idle.locked = {}
    BY DEF Idle
<1> QED BY <1>1, IdleOK, ReadsOnly

\* Who is not blocked wants no batch that another session has locked.
LEMMA LocksFree ==
    ASSUME NEW s \in Sessions, Unblocked(s), NEW t \in Sessions \ {s}
    PROVE  WantedBatches(s) \cap sess[t].locked = {}
BY DEF Unblocked, Waits

\* A request goes on without writing a table: it takes the locks it needs.
LEMMA QuietlyOn ==
    ASSUME SInv, IInv', NEW s \in Sessions,
           \/ AcceptReserve(s)
           \/ DraftFlush(s)
           \/ DraftShort(s)
           \/ ReleaseLock(s)
           \/ RestockLock(s)
           \/ CheckRefuses(s)
           \/ DeadlockVictim(s)
           \/ Rollback(s)
    PROVE  SInv'
<1> USE DEF SInv
<1>1. sess[s] \in RequestType /\ RequestOK(sess[s]) /\ rollbacks \in Nat
    BY DEF TypeOK
<1>2. CASE AcceptReserve(s)
  <2>1. CASE ~Enough(sess[s].qty)
      BY <1>1, <1>2, <2>1, GivesUp DEF AcceptReserve, Become
  <2>2. CASE Enough(sess[s].qty)
    <3> DEFINE r == [sess[s] EXCEPT !.pc = "acceptCommit", !.locked = Candidates,
                                    !.take = Take(sess[s].qty), !.base = Reserved]
    <3>1. /\ At(s, "accept") /\ Unblocked(s)
          /\ sess' = [sess EXCEPT ![s] = r] /\ UNCHANGED tables /\ UNCHANGED lapsed
          /\ rollbacks' \in Nat
        BY <1>1, <1>2, <2>2 DEF AcceptReserve, Become
    <3>2. /\ Take(sess[s].qty) \in [Listings -> Nat]
          /\ \A b \in Listings : Take(sess[s].qty)[b] > 0 =>
                /\ b \in Candidates
                /\ batch[b].reserved + Take(sess[s].qty)[b] <= batch[b].total
      <4>1. sess[s].qty \in Nat /\ TablesType
          BY <1>1 DEF RequestType, TypeOK
      <4> QED BY <4>1, TakeFits
    <3>3. Reserved \in [Listings -> Nat] /\ \A b \in Listings : Reserved[b] = batch[b].reserved
        BY DEF Reserved, TypeOK, TablesType, BatchType
    <3>4. Candidates \in SUBSET Listings
        BY DEF Candidates
    <3>5. /\ r \in RequestType
          /\ r.pc = "acceptCommit" /\ r.locked = Candidates /\ r.take = Take(sess[s].qty)
          /\ r.base = Reserved /\ r.offer = sess[s].offer /\ r.listing = sess[s].listing
        BY <1>1, <3>2, <3>3, <3>4 DEF RequestType
    <3>6. \A b \in Candidates : batches[b]["seller"] > 0
        BY CandidatesMade
    <3>7. \A t \in Sessions \ {s} : r.locked \cap sess[t].locked = {}
        BY <3>1, <3>5, LocksFree DEF WantedBatches, At
    <3> HIDE DEF r
    <3>8. RequestOK(r)
        BY <1>1, <3>1, <3>2, <3>3, <3>5, <3>6 DEF RequestOK, At
    <3> QED BY <3>1, <3>5, <3>7, <3>8, ReadsOnly
  <2> QED BY <2>1, <2>2
<1>3. CASE DraftFlush(s)
  <2> DEFINE r == [sess[s] EXCEPT !.pc = "draftReserve"]
  <2>1. /\ At(s, "draft")
        /\ sess' = [sess EXCEPT ![s] = r] /\ UNCHANGED tables /\ UNCHANGED lapsed /\ rollbacks' \in Nat
      BY <1>1, <1>3 DEF DraftFlush, Become
  <2>2. sess[s].locked = {}
      BY <1>1, <2>1 DEF RequestOK, At
  <2>3. /\ r \in RequestType
        /\ r.pc = "draftReserve" /\ r.locked = {} /\ r.listing = sess[s].listing
      BY <1>1, <2>2 DEF RequestType
  <2> HIDE DEF r
  <2>4. RequestOK(r)
      BY <1>1, <2>1, <2>3 DEF RequestOK, At
  <2> QED BY <2>1, <2>3, <2>4, ReadsOnly
<1>4. CASE ReleaseLock(s)
  <2> DEFINE r == [sess[s] EXCEPT !.pc = "restore", !.locked = WantedBatches(s),
                                  !.seen = listing[sess[s].listing]]
  <2>1. /\ At(s, "release") /\ Unblocked(s)
        /\ sess' = [sess EXCEPT ![s] = r] /\ UNCHANGED tables /\ UNCHANGED lapsed /\ rollbacks' \in Nat
      BY <1>1, <1>4 DEF ReleaseLock, Become
  <2>2. WantedBatches(s) = IF sess[s].found THEN HeldBy(sess[s].order) ELSE {}
      BY <2>1 DEF WantedBatches, At
  <2>3. HeldBy(sess[s].order) \in SUBSET Listings
      BY DEF HeldBy
  <2>4. /\ There(sess[s].listing)
        /\ sess[s].order \in Orders /\ order[sess[s].order].state # "NONE"
      BY <1>1, <2>1 DEF RequestOK, At
  <2>5. /\ r \in RequestType
        /\ r.pc = "restore" /\ r.locked = WantedBatches(s) /\ r.listing = sess[s].listing
        /\ r.order = sess[s].order /\ r.found = sess[s].found
      BY <1>1, <2>2, <2>3, <2>4 DEF RequestType, TypeOK, TablesType, There
  <2>6. \A t \in Sessions \ {s} : r.locked \cap sess[t].locked = {}
      BY <2>1, <2>5, LocksFree
  <2>7. \A b \in r.locked : batches[b]["seller"] > 0
    <3>1. \A b \in HeldBy(sess[s].order) : batches[b]["seller"] # 0
        BY <2>4 DEF TablesOK, BatchesOK, HeldBy
    <3>2. \A b \in Listings : batches[b]["seller"] \in Nat
        BY DEF TypeOK, TablesType, Owners
    <3> QED BY <2>2, <2>3, <2>5, <3>1, <3>2
  <2> HIDE DEF r
  <2>8. RequestOK(r)
      BY <2>2, <2>4, <2>5, <2>7 DEF RequestOK
  <2> QED BY <2>1, <2>5, <2>6, <2>8, ReadsOnly
<1>5. CASE RestockLock(s)
  <2> DEFINE r == [sess[s] EXCEPT !.pc = "restockCommit", !.locked = WantedBatches(s)]
  <2>1. /\ At(s, "restock") /\ Unblocked(s) /\ UNCHANGED tables /\ UNCHANGED lapsed
        /\ rollbacks' \in Nat
      BY <1>1, <1>5 DEF RestockLock
  <2>2. CASE sess' = [sess EXCEPT ![s] = Idle]
      BY <2>1, <2>2, GivesUp
  <2>3. CASE /\ sess' = [sess EXCEPT ![s] = r]
             /\ sess[s].qty = sess[s].seen.avail \/ RestockAllowed(s)
    <3>1. WantedBatches(s) = IF sess[s].qty # sess[s].seen.avail THEN {sess[s].listing} ELSE {}
        BY <2>1 DEF WantedBatches, At
    <3>2. There(sess[s].listing) /\ batches[sess[s].listing]["seller"] > 0
        BY <1>1, <2>1 DEF RequestOK, At
    <3>3. /\ r \in RequestType
          /\ r.pc = "restockCommit" /\ r.locked = WantedBatches(s) /\ r.listing = sess[s].listing
          /\ r.qty = sess[s].qty /\ r.seen = sess[s].seen /\ r.seenBatch = sess[s].seenBatch
        BY <1>1, <3>1, <3>2 DEF RequestType, There
    <3>4. r.locked # {} => Restocked(s).total >= Restocked(s).reserved
        BY <2>3, <3>1, <3>3 DEF RestockAllowed
    <3>5. r.locked # {} => r.seenBatch.total + r.qty - r.seen.avail >= batch[r.listing].reserved
        BY <3>3, <3>4 DEF Restocked
    <3>6. \A t \in Sessions \ {s} : r.locked \cap sess[t].locked = {}
        BY <2>1, <3>3, LocksFree
    <3> HIDE DEF r
    <3>7. RequestOK(r)
        BY <3>1, <3>2, <3>3, <3>5 DEF RequestOK
    <3> QED BY <2>1, <2>3, <3>3, <3>6, <3>7, ReadsOnly
  <2> QED BY <1>5, <2>2, <2>3 DEF RestockLock, Become
<1>6. CASE DraftShort(s) \/ CheckRefuses(s) \/ DeadlockVictim(s) \/ Rollback(s)
  <2>1. sess' = [sess EXCEPT ![s] = Idle] /\ UNCHANGED tables /\ UNCHANGED lapsed
        /\ rollbacks' \in Nat
      BY <1>1, <1>6 DEF DraftShort, CheckRefuses, DeadlockVictim, Rollback, Become
  <2> QED BY <2>1, GivesUp
<1> QED BY <1>2, <1>3, <1>4, <1>5, <1>6

---------------------------------------------------------------------------
(* Requests commit *)

\* The same listings are there as before.
SameListings == \A l \in Listings : listing'[l].state = "NONE" <=> listing[l].state = "NONE"

\* A commit that writes a listing writes the row of one that is there, as the table's check
\* lets it.
LEMMA RowWritten ==
    ASSUME SInv, NEW s \in Sessions, There(sess[s].listing), batches' = batches,
           RowAllowed(s, listing'),
           \/ listing' = ListingAfterSale(s)
           \/ listing' = ListingAfterRestore(s)
           \/ listing' = ListingAfterRestock(s)
           \/ listing' = ListingAfterEdit(s)
           \/ listing' = ListingAfterState(s) /\ sess[s].to \in {"ACTIVE", "PAUSED", "CLOSED"}
    PROVE  listing' \in [Listings -> ListingType] /\ ListingsOK' /\ SameListings
<1> DEFINE r == sess[s]
           x == r.listing
           row == listing[x]
           new == listing'[x]
<1>1. r \in RequestType /\ x \in Listings /\ listing \in [Listings -> ListingType]
    BY DEF SInv, TypeOK, TablesType, There
<1>2. /\ r.seen \in ListingType /\ row \in ListingType /\ row.state # "NONE"
      /\ r.qty \in Nat /\ r.cap \in Nat
      /\ r.seen.avail \in Nat /\ r.seen.cap \in Nat /\ row.avail \in Nat /\ row.cap \in Nat
      /\ r.seen.state \in ListingStates /\ row.state \in ListingStates
    BY <1>1 DEF RequestType, ListingType, There
<1>3. /\ listing' = [listing EXCEPT ![x] = new]
      /\ new \in ListingType
      /\ new.state # "NONE"
  <2>1. CASE listing' = ListingAfterSale(s)
    <3> DEFINE left == Clip(r.seen.avail - r.qty, 0, r.seen.avail)
    <3>1. left \in Nat
        BY <1>2 DEF Clip
    <3> HIDE DEF left
    <3>2. listing' = [listing EXCEPT
              ![x].avail = Written(r.seen.avail, left, @),
              ![x].state = IF left = 0 THEN Written(r.seen.state, "SOLD_OUT", @) ELSE @]
        BY <2>1 DEF ListingAfterSale, left
    <3> QED BY <1>1, <1>2, <3>1, <3>2 DEF Written, ListingType, ListingStates
  <2>2. CASE listing' = ListingAfterRestore(s)
    <3> DEFINE left == Clip(r.seen.avail + r.qty, 0, r.seen.cap)
    <3>1. left \in Nat
        BY <1>2 DEF Clip
    <3> HIDE DEF left
    <3>2. listing' = [listing EXCEPT
              ![x].avail = Written(r.seen.avail, left, @),
              ![x].state = IF r.seen.state = "SOLD_OUT" /\ left > 0 THEN "ACTIVE" ELSE @]
        BY <2>2 DEF ListingAfterRestore, left
    <3> QED BY <1>1, <1>2, <3>1, <3>2 DEF Written, ListingType, ListingStates
  <2>3. CASE listing' = ListingAfterRestock(s)
    <3> DEFINE state == IF r.qty = 0 THEN "SOLD_OUT"
                        ELSE IF r.seen.state = "SOLD_OUT" THEN "ACTIVE" ELSE r.seen.state
    <3>1. state \in ListingStates /\ (state = "NONE" => state = r.seen.state)
        BY <1>2 DEF ListingStates
    <3> HIDE DEF state
    <3>2. listing' = [listing EXCEPT
              ![x].avail = Written(r.seen.avail, r.qty, @),
              ![x].cap = IF r.qty > r.seen.cap THEN r.qty ELSE @,
              ![x].state = Written(r.seen.state, state, @)]
        BY <2>3 DEF ListingAfterRestock, state
    <3> QED BY <1>1, <1>2, <3>1, <3>2 DEF Written, ListingType
  <2>4. CASE listing' = ListingAfterEdit(s)
      BY <1>1, <1>2, <2>4 DEF ListingAfterEdit, Written, ListingType
  <2>5. CASE listing' = ListingAfterState(s) /\ sess[s].to \in {"ACTIVE", "PAUSED", "CLOSED"}
      BY <1>1, <1>2, <2>5 DEF ListingAfterState, Written, ListingType, ListingStates
  <2> QED BY <2>1, <2>2, <2>3, <2>4, <2>5
<1>4. new.avail <= new.cap
    BY DEF RowAllowed
<1> HIDE DEF new
<1>5. \A l \in Listings : listing'[l] = IF l = x THEN new ELSE listing[l]
    BY <1>1, <1>3
<1> HIDE DEF x
<1>6. SameListings
    BY <1>2, <1>3, <1>5 DEF SameListings
<1>7. ListingsOK'
    BY <1>3, <1>4, <1>5 DEF ListingsOK, SInv, TablesOK
<1> QED BY <1>1, <1>3, <1>6, <1>7

\* An order is stored with its reservations, on batches that can bear them.
LEMMA OrderPlaced ==
    ASSUME SInv, SameListings, batches' = batches,
           NEW state \in OrderStates, NEW l, There(l), NEW q \in Nat, NEW f \in Offers \cup {0},
           NEW take \in [Listings -> Nat], NEW base \in [Listings -> Nat],
           PlaceOrder(state, l, q, f, take, base),
           \A b \in Listings : take[b] > 0 =>
               /\ batches[b]["seller"] > 0 /\ base[b] = batch[b].reserved
               /\ base[b] + take[b] <= batch[b].total
    PROVE  /\ order' \in [Orders -> OrderType] /\ held' \in [Orders -> [Listings -> Nat]]
           /\ active' \in SUBSET Orders /\ batch' \in [Listings -> BatchType]
           /\ BatchesOK' /\ OrdersOK'
           /\ \A o \in Orders : order[o].state # "NONE" => order'[o] = order[o] /\ held'[o] = held[o]
           /\ \A b \in Listings : /\ take[b] = 0 => batch'[b] = batch[b]
                                  /\ batch'[b].reserved = batch[b].reserved + take[b]
<1> DEFINE o == Min(NewOrders)
           row == [state |-> state, listing |-> l, qty |-> q, offer |-> f]
<1>1. o \in Orders /\ order[o].state = "NONE"
  <2>1. o \in NewOrders
      BY FirstIsFree, StockAssumption DEF PlaceOrder, NewOrders, Orders
  <2> QED BY <2>1 DEF NewOrders
<1>2. /\ order' = [order EXCEPT ![o] = row] /\ held' = [held EXCEPT ![o] = take]
      /\ active' = active \cup {o}
    BY DEF PlaceOrder
<1>3. \A b \in Listings :
        batch'[b] = [batch[b] EXCEPT !.reserved = IF take[b] > 0 THEN base[b] + take[b] ELSE @]
    BY DEF PlaceOrder
<1>4. /\ order \in [Orders -> OrderType] /\ held \in [Orders -> [Listings -> Nat]]
      /\ active \in SUBSET Orders /\ batch \in [Listings -> BatchType]
      /\ batches \in [Listings -> [Owners -> Nat]]
    BY DEF SInv, TypeOK, TablesType
<1>5. row \in OrderType /\ row.state # "NONE" /\ row.listing = l
    BY DEF There, OrderType, OrderStates
<1> HIDE DEF o, row
<1>6. /\ order' \in [Orders -> OrderType] /\ held' \in [Orders -> [Listings -> Nat]]
      /\ active' \in SUBSET Orders
    BY <1>1, <1>2, <1>4, <1>5
<1>7. \A p \in Orders : /\ order'[p] = IF p = o THEN row ELSE order[p]
                        /\ held'[p] = IF p = o THEN take ELSE held[p]
    BY <1>2, <1>4
<1>8. \A p \in Orders : order[p].state # "NONE" => order'[p] = order[p] /\ held'[p] = held[p]
    BY <1>1, <1>7
<1>9. OrdersOK'
  <2>1. There(l)'
      BY DEF There, SameListings
  <2>2. \A p \in Orders : order[p].state # "NONE" => There(order[p].listing)
      BY DEF SInv, TablesOK, OrdersOK
  <2>3. \A m : There(m) => m \in Listings /\ listing'[m].state # "NONE"
      BY DEF There, SameListings
  <2>4. \A p \in Orders : order'[p].state # "NONE" =>
            order'[p].listing \in Listings /\ listing'[order'[p].listing].state # "NONE"
      BY <1>5, <1>7, <2>1, <2>2, <2>3
  <2>5. \A p \in Orders : order'[p].state = "NONE" => p \notin active' /\ order'[p].offer = 0
      BY <1>2, <1>5, <1>7 DEF SInv, TablesOK, OrdersOK
  <2> QED BY <2>4, <2>5 DEF OrdersOK, There
<1>10. ASSUME NEW b \in Listings
       PROVE  /\ batch'[b] \in BatchType
              /\ batch'[b].reserved = batch[b].reserved + take[b]
              /\ take[b] = 0 => batch'[b] = batch[b]
              /\ batch'[b].reserved <= batch'[b].total
              /\ batches[b]["seller"] = 0 => batch'[b] = batch[b] /\ take[b] = 0
  <2>1. /\ batch[b] \in BatchType /\ batch[b].reserved <= batch[b].total
        /\ take[b] \in Nat /\ base[b] \in Nat
      BY <1>4 DEF SInv, TablesOK, BatchesOK
  <2>2. CASE take[b] > 0
    <3> DEFINE m == base[b] + take[b]
    <3>1. m \in Nat /\ m <= batch[b].total /\ batches[b]["seller"] > 0
        BY <2>1, <2>2
    <3> HIDE DEF m
    <3>2. batch'[b] = [batch[b] EXCEPT !.reserved = m]
        BY <1>3, <2>2 DEF m
    <3>3. batch'[b] \in BatchType /\ batch'[b].reserved = m /\ batch'[b].total = batch[b].total
        BY <2>1, <3>1, <3>2 DEF BatchType
    <3>4. batches[b]["seller"] # 0 /\ take[b] # 0
        BY <2>1, <2>2, <3>1
    <3>5. batch'[b].reserved = batch[b].reserved + take[b]
        BY <2>2, <3>3 DEF m
    <3> QED BY <3>1, <3>3, <3>4, <3>5
  <2>3. CASE take[b] = 0
    <3>1. batch'[b] = batch[b]
      <4>1. batch'[b] = [batch[b] EXCEPT !.reserved = batch[b].reserved]
        <5> DEFINE m == IF take[b] > 0 THEN base[b] + take[b] ELSE batch[b].reserved
        <5>1. m = batch[b].reserved
            BY <2>3
        <5>2. batch'[b] = [batch[b] EXCEPT !.reserved = m]
            BY <1>3
        <5> HIDE DEF m
        <5> QED BY <5>1, <5>2
      <4> QED BY <2>1, <4>1 DEF BatchType
    <3>2. batch[b].reserved = batch[b].reserved + take[b]
        BY <2>1, <2>3 DEF BatchType
    <3> QED BY <2>1, <2>3, <3>1, <3>2
  <2> QED BY <2>1, <2>2, <2>3
<1>11. BatchesOK'
    BY <1>7, <1>10 DEF SInv, TablesOK, BatchesOK
<1>12. batch' \in [Listings -> BatchType]
    BY <1>10 DEF PlaceOrder
<1> QED BY <1>6, <1>8, <1>9, <1>10, <1>11, <1>12

\* A session is done with its request.
LEMMA Finishes ==
    ASSUME SInv, IInv', NEW s \in Sessions, sess' = [sess EXCEPT ![s] = Idle],
           TablesType', TablesOK', UNCHANGED lapsed, UNCHANGED rollbacks,
           \A t \in Sessions \ {s} : Onward(sess[t].locked)
    PROVE  SInv'
<1>1. sess \in [Sessions -> RequestType]
    BY DEF SInv, TypeOK
<1>2. sess'[s] = Idle /\ \A t \in Sessions \ {s} : sess'[t] = sess[t]
    BY <1>1
<1>3. Idle.pc = "idle" /\ Idle.locked = {} /\ Idle \in RequestType
    BY IdleOK DEF Idle
<1>4. TypeOK'
    BY <1>1, <1>3 DEF TypeOK, SInv
<1>5. RequestOK(sess[s])'
    BY <1>2, <1>3 DEF RequestOK
<1> QED BY <1>2, <1>3, <1>4, <1>5, SessionStep

LEMMA AnswerCommitStep ==
    ASSUME SInv, IInv', NEW s \in Sessions, AnswerCommit(s)
    PROVE  SInv'
<1> DEFINE f == sess[s].offer
           g == Min(NewOffers)
           child == [offer[f] EXCEPT !.state = "PENDING", !.parent = f]
<1>1. /\ offer \in [Offers -> OfferType]
      /\ \A h \in Offers : offer[h].state # "NONE" => There(offer[h].listing)
    BY DEF SInv, TypeOK, TablesType, TablesOK, OffersOK
<1>2. f \in Offers /\ offer[f].state # "NONE"
    BY DEF AnswerCommit, SInv, RequestOK, At
<1>3. child \in OfferType /\ child.state # "NONE" /\ There(child.listing)
    BY <1>1, <1>2 DEF OfferType, OfferStates
<1>4. /\ sess' = [sess EXCEPT ![s] = Idle]
      /\ UNCHANGED <<listing, batch, batches, lapsed, order, held, active, rollbacks>>
    BY DEF AnswerCommit, Become
<1>5. PICK closed \in {"COUNTERED", "REJECTED", "WITHDRAWN"} :
        \/ offer' = [offer EXCEPT ![f].state = closed]
        \/ NewOffers # {} /\ offer' = [offer EXCEPT ![f].state = closed, ![g] = child]
  <2>1. CASE sess[s].to = "counter"
      BY <2>1 DEF AnswerCommit
  <2>2. CASE sess[s].to = "reject"
      BY <2>2 DEF AnswerCommit
  <2>3. CASE sess[s].to \notin {"counter", "reject"}
      BY <2>3 DEF AnswerCommit
  <2> QED BY <2>1, <2>2, <2>3
<1>6. NewOffers # {} => g \in Offers
    BY FirstIsFree, StockAssumption DEF NewOffers, Offers
<1> HIDE DEF f, g, child
<1>7. offer' \in [Offers -> OfferType] /\ \A h \in Offers :
        /\ offer[h].state # "NONE" => offer'[h].state # "NONE"
        /\ offer'[h].state # "NONE" => There(offer'[h].listing)
  <2>1. CASE offer' = [offer EXCEPT ![f].state = closed]
      BY <1>1, <1>2, <2>1 DEF OfferType, OfferStates
  <2>2. CASE NewOffers # {} /\ offer' = [offer EXCEPT ![f].state = closed, ![g] = child]
      BY <1>1, <1>2, <1>3, <1>6, <2>2 DEF OfferType, OfferStates
  <2> QED BY <1>5, <2>1, <2>2
<1>8. TablesType'
    BY <1>4, <1>7 DEF SInv, TypeOK, TablesType
<1>9. TablesOK'
    BY <1>4, <1>7 DEF SInv, TablesOK, ListingsOK, BatchesOK, OffersOK, OrdersOK, There
<1>10. \A t \in Sessions : Onward(sess[t].locked)
    BY <1>4, <1>7 DEF Onward
<1> QED BY <1>4, <1>8, <1>9, <1>10, Finishes

\* What is left of TablesOK when a request of s that writes listings and not offers commits.
LEMMA OffersStay ==
    ASSUME SInv, SameListings, offer' = offer
    PROVE  OffersOK' /\ offer' \in [Offers -> OfferType]
BY DEF SInv, TypeOK, TablesType, TablesOK, OffersOK, SameListings, There

LEMMA AcceptCommitStep ==
    ASSUME SInv, IInv', NEW s \in Sessions, AcceptCommit(s)
    PROVE  SInv'
<1> DEFINE r == sess[s]
<1>1. r \in RequestType /\ RequestOK(r) /\ r.pc = "acceptCommit"
    BY DEF SInv, TypeOK, AcceptCommit, At
<1>2. /\ PlaceOrder("ACCEPTED", r.listing, r.qty, r.offer, r.take, r.base)
      /\ listing' = ListingAfterSale(s) /\ RowAllowed(s, listing')
      /\ offer' = [offer EXCEPT ![r.offer].state = "ACCEPTED"]
      /\ sess' = [sess EXCEPT ![s] = Idle]
      /\ UNCHANGED batches /\ UNCHANGED lapsed /\ UNCHANGED rollbacks
    BY DEF AcceptCommit, Become
<1>3. There(r.listing) /\ r.offer \in Offers /\ offer[r.offer].state # "NONE"
    BY <1>1 DEF RequestOK
<1>4. listing' \in [Listings -> ListingType] /\ ListingsOK' /\ SameListings
    BY <1>2, <1>3, RowWritten
<1>5. \A b \in Listings : r.take[b] > 0 =>
          /\ b \in r.locked /\ batches[b]["seller"] > 0 /\ r.base[b] = batch[b].reserved
          /\ r.base[b] + r.take[b] <= batch[b].total
    BY <1>1 DEF RequestOK
<1>6. /\ order' \in [Orders -> OrderType] /\ held' \in [Orders -> [Listings -> Nat]]
      /\ active' \in SUBSET Orders /\ batch' \in [Listings -> BatchType]
      /\ BatchesOK' /\ OrdersOK'
      /\ \A o \in Orders : order[o].state # "NONE" => order'[o] = order[o] /\ held'[o] = held[o]
      /\ \A b \in Listings : r.take[b] = 0 => batch'[b] = batch[b]
  <2>1. /\ "ACCEPTED" \in OrderStates /\ r.qty \in Nat /\ r.offer \in Offers \cup {0}
        /\ r.take \in [Listings -> Nat] /\ r.base \in [Listings -> Nat]
      BY <1>1 DEF RequestType, OrderStates
  <2> HIDE DEF r
  <2> QED BY <1>2, <1>3, <1>4, <1>5, <2>1, OrderPlaced
<1>7. offer' \in [Offers -> OfferType] /\ \A f \in Offers :
        /\ offer[f].state # "NONE" <=> offer'[f].state # "NONE"
        /\ offer'[f].listing = offer[f].listing
    BY <1>2, <1>3 DEF SInv, TypeOK, TablesType, OfferType, OfferStates
<1>8. OffersOK'
    BY <1>4, <1>7 DEF SInv, TablesOK, OffersOK, SameListings, There
<1>9. TablesType' /\ TablesOK'
    BY <1>2, <1>4, <1>6, <1>7, <1>8 DEF SInv, TypeOK, TablesType, TablesOK
<1>10. ASSUME NEW t \in Sessions \ {s} PROVE Onward(sess[t].locked)
  <2>1. \A b \in sess[t].locked : b \in Listings /\ b \notin r.locked
      BY DEF SInv, LocksApart, TypeOK, RequestType
  <2>2. \A b \in sess[t].locked : r.take[b] = 0
      BY <1>1, <1>5, <2>1 DEF RequestType
  <2>3. \A b \in sess[t].locked : batch'[b] = batch[b]
      BY <1>6, <2>1, <2>2
  <2> QED BY <1>2, <1>4, <1>6, <1>7, <2>3 DEF Onward, SameListings
<1> QED BY <1>2, <1>9, <1>10, Finishes

LEMMA DraftCommitStep ==
    ASSUME SInv, IInv', NEW s \in Sessions, DraftCommit(s)
    PROVE  SInv'
<1> DEFINE r == sess[s]
           take == Take(r.qty)
<1>1. /\ r \in RequestType /\ RequestOK(r) /\ r.pc = "draftReserve" /\ Unblocked(s)
      /\ TablesType /\ TypeOK /\ TablesOK
    BY DEF SInv, TypeOK, DraftCommit, At
<1>2. /\ PlaceOrder("PAYMENT_PENDING", r.listing, r.qty, 0, take, Reserved)
      /\ listing' = ListingAfterSale(s) /\ RowAllowed(s, listing')
      /\ offer' = offer
      /\ sess' = [sess EXCEPT ![s] = Idle]
      /\ UNCHANGED batches /\ UNCHANGED lapsed /\ UNCHANGED rollbacks
    BY DEF DraftCommit, Become
<1>3. There(r.listing) /\ r.qty \in Nat
    BY <1>1 DEF RequestOK, RequestType
<1>4. listing' \in [Listings -> ListingType] /\ ListingsOK' /\ SameListings
    BY <1>2, <1>3, RowWritten
<1>5. /\ take \in [Listings -> Nat]
      /\ \A b \in Listings : take[b] > 0 =>
            b \in Candidates /\ batch[b].reserved + take[b] <= batch[b].total
  <2>1. TablesType /\ r.qty \in Nat
      BY <1>1, <1>3
  <2> HIDE DEF r
  <2> QED BY <2>1, TakeFits
<1> HIDE DEF take
<1>6. Reserved \in [Listings -> Nat] /\ \A b \in Listings : Reserved[b] = batch[b].reserved
    BY <1>1 DEF Reserved, TablesType, BatchType
<1>7. \A b \in Candidates : batches[b]["seller"] > 0
    BY <1>1, CandidatesMade
<1>8. /\ order' \in [Orders -> OrderType] /\ held' \in [Orders -> [Listings -> Nat]]
      /\ active' \in SUBSET Orders /\ batch' \in [Listings -> BatchType]
      /\ BatchesOK' /\ OrdersOK'
      /\ \A o \in Orders : order[o].state # "NONE" => order'[o] = order[o] /\ held'[o] = held[o]
      /\ \A b \in Listings : take[b] = 0 => batch'[b] = batch[b]
  <2>1. "PAYMENT_PENDING" \in OrderStates /\ 0 \in Offers \cup {0}
      BY DEF OrderStates
  <2>2. \A b \in Listings : take[b] > 0 =>
          /\ batches[b]["seller"] > 0 /\ Reserved[b] = batch[b].reserved
          /\ Reserved[b] + take[b] <= batch[b].total
      BY <1>5, <1>6, <1>7
  <2> HIDE DEF r
  <2> QED BY <1>2, <1>3, <1>4, <1>5, <1>6, <2>1, <2>2, OrderPlaced
<1>9. OffersOK' /\ offer' \in [Offers -> OfferType]
    BY <1>2, <1>4, OffersStay
<1>10. TablesType' /\ TablesOK'
    BY <1>1, <1>2, <1>4, <1>8, <1>9 DEF TablesType, TablesOK
<1>11. ASSUME NEW t \in Sessions \ {s} PROVE Onward(sess[t].locked)
  <2>1. \A b \in sess[t].locked : b \in Listings /\ b \notin Candidates
    <3>1. Candidates \cap sess[t].locked = {}
        BY <1>1, LocksFree DEF WantedBatches, At
    <3>2. sess[t] \in RequestType
        BY DEF SInv, TypeOK
    <3> QED BY <3>1, <3>2 DEF RequestType
  <2>2. \A b \in sess[t].locked : take[b] = 0
      BY <1>5, <2>1
  <2>3. \A b \in sess[t].locked : batch'[b] = batch[b]
      BY <1>8, <2>1, <2>2
  <2> QED BY <1>2, <1>4, <1>8, <2>3 DEF Onward, SameListings
<1> QED BY <1>2, <1>10, <1>11, Finishes

LEMMA TransitionCommitStep ==
    ASSUME SInv, IInv', NEW s \in Sessions, TransitionCommit(s)
    PROVE  SInv'
<1> DEFINE r == sess[s]
<1>1. r \in RequestType /\ RequestOK(r) /\ r.pc = "transition"
    BY DEF SInv, TypeOK, TransitionCommit, At
<1>2. /\ order' = [order EXCEPT ![r.order].state = r.to]
      /\ sess' = [sess EXCEPT ![s] = Idle]
      /\ UNCHANGED <<listing, batch, batches, offer, lapsed, held, active, rollbacks>>
    BY DEF TransitionCommit, Become
<1>3. r.order \in Orders /\ order[r.order].state # "NONE" /\ r.to \in OrderStates
    BY <1>1 DEF RequestOK
<1>4. /\ order' \in [Orders -> OrderType]
      /\ \A o \in Orders : /\ order'[o].state = "NONE" <=> order[o].state = "NONE"
                           /\ order'[o].listing = order[o].listing
                           /\ order'[o].offer = order[o].offer
    BY <1>2, <1>3 DEF SInv, TypeOK, TablesType, OrderType, OrderStates
<1>5. TablesType' /\ TablesOK'
    BY <1>2, <1>4
       DEF SInv, TypeOK, TablesType, TablesOK, ListingsOK, BatchesOK, OffersOK, OrdersOK, There
<1>6. \A t \in Sessions : Onward(sess[t].locked)
    BY <1>2, <1>4 DEF Onward
<1> QED BY <1>2, <1>5, <1>6, Finishes

LEMMA CancelCommitStep ==
    ASSUME SInv, IInv', NEW s \in Sessions, CancelCommit(s)
    PROVE  SInv'
<1> DEFINE r == sess[s]
           n == [r EXCEPT !.pc = "release", !.found = r.order \in active]
<1>1. r \in RequestType /\ RequestOK(r) /\ r.pc = "cancel"
    BY DEF SInv, TypeOK, CancelCommit, At
<1>2. /\ order' = [order EXCEPT ![r.order].state = "CANCELLED"]
      /\ sess' = [sess EXCEPT ![s] = n]
      /\ UNCHANGED <<listing, batch, batches, offer, lapsed, held, active, rollbacks>>
    BY DEF CancelCommit, Become
<1>3. r.order \in Orders /\ order[r.order].state # "NONE" /\ There(r.listing) /\ r.locked = {}
    BY <1>1 DEF RequestOK
<1>4. /\ order' \in [Orders -> OrderType]
      /\ \A o \in Orders : /\ order'[o].state = "NONE" <=> order[o].state = "NONE"
                           /\ order'[o].listing = order[o].listing
                           /\ order'[o].offer = order[o].offer
    BY <1>2, <1>3 DEF SInv, TypeOK, TablesType, OrderType, OrderStates
<1>5. TablesType' /\ TablesOK'
    BY <1>2, <1>4
       DEF SInv, TypeOK, TablesType, TablesOK, ListingsOK, BatchesOK, OffersOK, OrdersOK, There
<1>6. /\ n \in RequestType /\ n.pc = "release" /\ n.locked = {}
      /\ n.order = r.order /\ n.listing = r.listing
  <2>1. (r.order \in active) \in BOOLEAN
      OBVIOUS
  <2> QED BY <1>1, <1>3, <2>1 DEF RequestType
<1> HIDE DEF n
<1>7. sess'[s] = n /\ \A t \in Sessions \ {s} : sess'[t] = sess[t]
    BY <1>2 DEF SInv, TypeOK
<1>8. TypeOK'
    BY <1>2, <1>5, <1>6 DEF SInv, TypeOK
<1>9. RequestOK(sess[s])'
    BY <1>2, <1>3, <1>4, <1>6, <1>7 DEF RequestOK, There
<1>10. \A t \in Sessions : Onward(sess[t].locked)
    BY <1>2, <1>4 DEF Onward
<1> QED BY <1>5, <1>6, <1>7, <1>8, <1>9, <1>10, SessionStep

LEMMA RestoreCommitStep ==
    ASSUME SInv, IInv', NEW s \in Sessions, RestoreCommit(s)
    PROVE  SInv'
<1> DEFINE r == sess[s]
<1>1. r \in RequestType /\ RequestOK(r) /\ r.pc = "restore"
    BY DEF SInv, TypeOK, RestoreCommit, At
<1>2. /\ batch' = BatchAfterRelease(s)
      /\ active' = active \/ active' = active \ {r.order}
      /\ listing' = ListingAfterRestore(s) /\ RowAllowed(s, listing')
      /\ sess' = [sess EXCEPT ![s] = Idle]
      /\ UNCHANGED <<batches, offer, lapsed, order, held, rollbacks>>
    BY DEF RestoreCommit, Become
<1>3. /\ There(r.listing) /\ r.order \in Orders
      /\ \A b \in r.locked : batches[b]["seller"] > 0
    BY <1>1 DEF RequestOK
<1>4. listing' \in [Listings -> ListingType] /\ ListingsOK' /\ SameListings
    BY <1>2, <1>3, RowWritten
<1>5. ASSUME NEW b \in Listings
      PROVE  /\ batch'[b] \in BatchType
             /\ b \notin r.locked => batch'[b] = batch[b]
             /\ batch'[b].reserved <= batch'[b].total
  <2>1. /\ batch[b] \in BatchType /\ batch[b].reserved <= batch[b].total
        /\ batch[b].reserved \in Nat /\ batch[b].total \in Nat
        /\ held[r.order][b] \in Nat
      BY <1>3 DEF SInv, TypeOK, TablesType, BatchType, TablesOK, BatchesOK
  <2>2. CASE b \in r.locked
    <3> DEFINE m == Clip(batch[b].reserved - held[r.order][b], 0, batch[b].reserved)
    <3>1. m \in Nat /\ m <= batch[b].total
        BY <2>1 DEF Clip
    <3> HIDE DEF m
    <3>2. batch'[b] = [batch[b] EXCEPT !.reserved = m]
        BY <1>2, <2>2 DEF BatchAfterRelease, m
    <3> QED BY <2>1, <2>2, <3>1, <3>2 DEF BatchType
  <2>3. CASE b \notin r.locked
      BY <1>2, <2>1, <2>3 DEF BatchAfterRelease
  <2> QED BY <2>2, <2>3
<1>6. batch' \in [Listings -> BatchType]
    BY <1>2, <1>5 DEF BatchAfterRelease
<1>7. BatchesOK'
  <2>1. \A b \in r.locked : batches[b]["seller"] # 0
    <3>1. \A b \in Listings : batches[b]["seller"] \in Nat
        BY DEF SInv, TypeOK, TablesType, Owners
    <3> QED BY <1>1, <1>3, <3>1 DEF RequestType
  <2> QED BY <1>2, <1>5, <2>1 DEF SInv, TablesOK, BatchesOK
<1>8. OrdersOK'
    BY <1>2, <1>4 DEF SInv, TablesOK, OrdersOK, SameListings, There
<1>9. OffersOK' /\ offer' \in [Offers -> OfferType]
    BY <1>2, <1>4, OffersStay
<1>10. TablesType' /\ TablesOK'
    BY <1>2, <1>4, <1>6, <1>7, <1>8, <1>9 DEF SInv, TypeOK, TablesType, TablesOK
<1>11. ASSUME NEW t \in Sessions \ {s} PROVE Onward(sess[t].locked)
  <2>1. \A b \in sess[t].locked : b \in Listings /\ b \notin r.locked
      BY DEF SInv, LocksApart, TypeOK, RequestType
  <2> QED BY <1>2, <1>4, <1>5, <2>1 DEF Onward, SameListings
<1> QED BY <1>2, <1>10, <1>11, Finishes

LEMMA RestockCommitStep ==
    ASSUME SInv, IInv', NEW s \in Sessions, RestockCommit(s)
    PROVE  SInv'
<1> DEFINE r == sess[s]
           new == Restocked(s)
<1>1. r \in RequestType /\ RequestOK(r) /\ r.pc = "restockCommit"
    BY DEF SInv, TypeOK, RestockCommit, At
<1>2. /\ batch' = IF r.locked = {} THEN batch ELSE [batch EXCEPT ![r.listing] = new]
      /\ listing' = ListingAfterRestock(s) /\ RowAllowed(s, listing')
      /\ sess' = [sess EXCEPT ![s] = Idle]
      /\ UNCHANGED <<batches, offer, lapsed, order, held, active, rollbacks>>
    BY DEF RestockCommit, Become
<1>3. /\ There(r.listing) /\ batches[r.listing]["seller"] > 0
      /\ r.locked \subseteq {r.listing}
      /\ r.locked # {} => r.seenBatch.total + r.qty - r.seen.avail >= batch[r.listing].reserved
    BY <1>1 DEF RequestOK
<1>4. listing' \in [Listings -> ListingType] /\ ListingsOK' /\ SameListings
    BY <1>2, <1>3, RowWritten
<1>5. r.locked # {} => new \in BatchType /\ new.reserved <= new.total
  <2>1. /\ batch[r.listing].reserved \in Nat /\ batch[r.listing].state \in BatchStates
        /\ r.seenBatch.total \in Nat /\ r.seenBatch.reserved \in Nat /\ r.seenBatch.state \in BatchStates
        /\ r.qty \in Nat /\ r.seen.avail \in Nat
      BY <1>1, <1>3 DEF SInv, TypeOK, TablesType, BatchType, RequestType, ListingType, There
  <2> DEFINE total == r.seenBatch.total + r.qty - r.seen.avail
             state == IF total <= r.seenBatch.reserved
                      THEN Written(r.seenBatch.state, "SOLD", batch[r.listing].state)
                      ELSE Written(r.seenBatch.state, "AVAILABLE", batch[r.listing].state)
  <2>2. new = [total |-> total, reserved |-> batch[r.listing].reserved, state |-> state]
      BY DEF Restocked
  <2>3. r.locked # {} => total \in Nat /\ batch[r.listing].reserved <= total
      BY <1>3, <2>1
  <2>4. state \in BatchStates
      BY <2>1 DEF Written, BatchStates
  <2> HIDE DEF total, state, new
  <2> QED BY <2>1, <2>2, <2>3, <2>4 DEF BatchType
<1> HIDE DEF new
<1>6. /\ batch' \in [Listings -> BatchType]
      /\ \A b \in Listings : /\ batch'[b].reserved <= batch'[b].total
                             /\ b \notin r.locked => batch'[b] = batch[b]
    BY <1>2, <1>3, <1>5 DEF SInv, TypeOK, TablesType, TablesOK, BatchesOK, There
<1>7. BatchesOK'
  <2>1. \A b \in r.locked : batches[b]["seller"] # 0
    <3>1. \A b \in Listings : batches[b]["seller"] \in Nat
        BY DEF SInv, TypeOK, TablesType, Owners
    <3> QED BY <1>3, <3>1 DEF There
  <2> QED BY <1>2, <1>6, <2>1 DEF SInv, TablesOK, BatchesOK
<1>8. OrdersOK'
    BY <1>2, <1>4 DEF SInv, TablesOK, OrdersOK, SameListings, There
<1>9. OffersOK' /\ offer' \in [Offers -> OfferType]
    BY <1>2, <1>4, OffersStay
<1>10. TablesType' /\ TablesOK'
    BY <1>2, <1>4, <1>6, <1>7, <1>8, <1>9 DEF SInv, TypeOK, TablesType, TablesOK
<1>11. ASSUME NEW t \in Sessions \ {s} PROVE Onward(sess[t].locked)
  <2>1. \A b \in sess[t].locked : b \in Listings /\ b \notin r.locked
      BY DEF SInv, LocksApart, TypeOK, RequestType
  <2> QED BY <1>2, <1>4, <1>6, <2>1 DEF Onward, SameListings
<1> QED BY <1>2, <1>10, <1>11, Finishes

LEMMA UpdateCommitStep ==
    ASSUME SInv, IInv', NEW s \in Sessions, UpdateCommit(s)
    PROVE  SInv'
<1> DEFINE r == sess[s]
<1>1. r \in RequestType /\ RequestOK(r) /\ r.pc \in {"edit", "state"}
    BY DEF SInv, TypeOK, UpdateCommit
<1>2. /\ listing' = IF r.pc = "edit" THEN ListingAfterEdit(s) ELSE ListingAfterState(s)
      /\ RowAllowed(s, listing')
      /\ sess' = [sess EXCEPT ![s] = Idle]
      /\ UNCHANGED <<batch, batches, lapsed, offer, order, held, active, rollbacks>>
    BY DEF UpdateCommit, Become, At
<1>3. There(r.listing) /\ (r.pc = "state" => r.to \in {"ACTIVE", "PAUSED", "CLOSED"})
    BY <1>1 DEF RequestOK
<1>4. listing' \in [Listings -> ListingType] /\ ListingsOK' /\ SameListings
    BY <1>1, <1>2, <1>3, RowWritten
<1>5. OrdersOK' /\ BatchesOK'
    BY <1>2, <1>4 DEF SInv, TablesOK, OrdersOK, BatchesOK, SameListings, There
<1>6. OffersOK' /\ offer' \in [Offers -> OfferType]
    BY <1>2, <1>4, OffersStay
<1>7. TablesType' /\ TablesOK'
    BY <1>2, <1>4, <1>5, <1>6 DEF SInv, TypeOK, TablesType, TablesOK
<1>8. \A t \in Sessions : Onward(sess[t].locked)
    BY <1>2, <1>4 DEF Onward, SameListings
<1> QED BY <1>2, <1>7, <1>8, Finishes

\* A publication makes the seller's batch only where there is none, so that nobody has
\* locked it and nothing is reserved of it.
LEMMA PublishCommitOn ==
    ASSUME SInv, IInv', NEW s \in Sessions, PublishCommit(s)
    PROVE  SInv'
<1> DEFINE r == sess[s]
           x == r.listing
<1>1. r \in RequestType /\ RequestOK(r) /\ r.pc = "publish" /\ Publishes(r)
    BY DEF SInv, TypeOK, PublishCommit, At, IInv
<1>2. /\ listing' = [listing EXCEPT ![x].state = Written(r.seen.state, "ACTIVE", @)]
      /\ batches' = IF r.found THEN batches ELSE [batches EXCEPT ![x][r.to] = @ + 1]
      /\ batch' = IF r.found \/ r.to # "seller" THEN batch
                  ELSE [batch EXCEPT ![x] = NewBatch(r.seen.cap)]
      /\ sess' = [sess EXCEPT ![s] = Idle]
      /\ UNCHANGED <<lapsed, offer, order, held, active, rollbacks>>
    BY DEF PublishCommit, Become
<1>3. /\ x \in Listings /\ listing[x].state # "NONE" /\ r.to \in Owners
      /\ r.found <=> batches[x][r.to] > 0
      /\ r.seen.cap \in Nat
    BY <1>1 DEF Publishes, RequestType, ListingType
<1>4. /\ listing \in [Listings -> ListingType] /\ batch \in [Listings -> BatchType]
      /\ batches \in [Listings -> [Owners -> Nat]]
      /\ \A b \in Listings : batches[b]["seller"] \in Nat
    BY DEF SInv, TypeOK, TablesType, Owners
<1> HIDE DEF r, x
<1>5. /\ listing' \in [Listings -> ListingType] /\ SameListings
      /\ \A l \in Listings : l # x => listing'[l] = listing[l]
      /\ listing'[x].avail = listing[x].avail /\ listing'[x].cap = listing[x].cap
    BY <1>2, <1>3, <1>4 DEF ListingType, ListingStates, Written, SameListings
<1>6. /\ batches' \in [Listings -> [Owners -> Nat]]
      /\ \A b \in Listings :
           /\ b # x => batches'[b] = batches[b]
           /\ batches[b]["seller"] > 0 => batches'[b]["seller"] > 0
           /\ batches'[b]["seller"] = 0 => batches[b]["seller"] = 0
    BY <1>2, <1>3, <1>4 DEF Owners
<1>7. NewBatch(r.seen.cap) \in BatchType /\ NewBatch(r.seen.cap).reserved <= NewBatch(r.seen.cap).total
    BY <1>3 DEF NewBatch, BatchType, BatchStates
<1>8. \/ batch' = batch
      \/ /\ batch' = [batch EXCEPT ![x] = NewBatch(r.seen.cap)]
         /\ batches[x]["seller"] = 0 /\ batches'[x]["seller"] > 0
  <2>1. CASE r.found \/ r.to # "seller"
      BY <1>2, <2>1
  <2>2. CASE ~r.found /\ r.to = "seller"
      BY <1>2, <1>3, <1>4, <2>2
  <2> QED BY <2>1, <2>2
<1>9. /\ batch' \in [Listings -> BatchType]
      /\ \A b \in Listings : /\ batch'[b].reserved <= batch'[b].total
                             /\ batches'[b]["seller"] = 0 => batch'[b] = batch[b]
                             /\ batches[b]["seller"] > 0 => batch'[b] = batch[b]
  <2>1. \A b \in Listings : batch[b].reserved <= batch[b].total
      BY DEF SInv, TablesOK, BatchesOK
  <2>2. CASE batch' = batch
      BY <1>4, <2>1, <2>2
  <2>3. CASE /\ batch' = [batch EXCEPT ![x] = NewBatch(r.seen.cap)]
             /\ batches[x]["seller"] = 0 /\ batches'[x]["seller"] > 0
    <3> DEFINE new == NewBatch(r.seen.cap)
    <3>1. new \in BatchType /\ new.reserved <= new.total
        BY <1>7
    <3>2. batch' = [batch EXCEPT ![x] = new]
        BY <2>3
    <3> HIDE DEF new
    <3>3. \A b \in Listings : batch'[b] = IF b = x THEN new ELSE batch[b]
        BY <1>4, <3>2
    <3>4. batches'[x]["seller"] # 0 /\ ~(batches[x]["seller"] > 0)
        BY <1>4, <2>3
    <3> QED BY <1>3, <1>4, <2>1, <3>1, <3>2, <3>3, <3>4
  <2> QED BY <1>8, <2>2, <2>3
<1>10. ListingsOK'
    BY <1>3, <1>5, <1>6 DEF SInv, TablesOK, ListingsOK, SameListings
<1>11. BatchesOK'
    BY <1>2, <1>6, <1>9 DEF SInv, TablesOK, BatchesOK
<1>12. OrdersOK'
    BY <1>2, <1>5 DEF SInv, TablesOK, OrdersOK, SameListings, There
<1>13. OffersOK' /\ offer' \in [Offers -> OfferType]
    BY <1>2, <1>5, OffersStay
<1>14. TablesType' /\ TablesOK'
    BY <1>2, <1>5, <1>6, <1>9, <1>10, <1>11, <1>12, <1>13 DEF SInv, TypeOK, TablesType, TablesOK
<1>15. ASSUME NEW t \in Sessions \ {s} PROVE Onward(sess[t].locked)
  <2>1. \A b \in sess[t].locked : b \in Listings /\ batches[b]["seller"] > 0
      BY DEF SInv, TypeOK, RequestType, RequestOK
  <2>2. \A b \in sess[t].locked : batch'[b] = batch[b]
      BY <1>9, <2>1
  <2> QED BY <1>2, <1>5, <1>6, <2>2 DEF Onward, SameListings
<1> QED BY <1>2, <1>14, <1>15, Finishes DEF r

---------------------------------------------------------------------------
(* Steps of no session *)

LEMMA CreateOn ==
    ASSUME SInv, IInv', NEW l \in Listings, NEW q \in 1..MaxQty, NEW state \in {"DRAFT", "ACTIVE"},
           CreateListing(l, q, state)
    PROVE  SInv'
<1> DEFINE row == [avail |-> q, cap |-> Quantity[l], state |-> state]
<1>1. /\ listing[l].state = "NONE" /\ listing' = [listing EXCEPT ![l] = row]
      /\ UNCHANGED <<lapsed, offer, order, held, active, sess, rollbacks>>
      /\ \/ batch' = batch /\ batches' = batches
         \/ /\ batch' = [batch EXCEPT ![l] = NewBatch(Quantity[l])]
            /\ batches' = [batches EXCEPT ![l]["seller"] = 1]
    BY DEF CreateListing
<1>2. Quantity[l] \in Nat /\ q \in Nat /\ q <= Quantity[l]
    BY StockAssumption DEF CreateListing
<1>3. /\ row \in ListingType /\ row.state # "NONE" /\ row.avail <= row.cap
      /\ NewBatch(Quantity[l]) \in BatchType
      /\ NewBatch(Quantity[l]).reserved <= NewBatch(Quantity[l]).total
    BY <1>2 DEF ListingType, ListingStates, NewBatch, BatchType, BatchStates
<1> HIDE DEF row
<1>4. /\ listing \in [Listings -> ListingType] /\ batch \in [Listings -> BatchType]
      /\ batches \in [Listings -> [Owners -> Nat]]
      /\ \A b \in Listings : batches[b]["seller"] \in Nat
      /\ batches[l]["seller"] = 0
    BY <1>1 DEF SInv, TypeOK, TablesType, Owners, TablesOK, ListingsOK
<1>5. \A m \in Listings : listing'[m] = IF m = l THEN row ELSE listing[m]
    BY <1>1, <1>4
<1>6. /\ batches' \in [Listings -> [Owners -> Nat]]
      /\ \A b \in Listings : /\ b # l => batches'[b] = batches[b] /\ batch'[b] = batch[b]
                             /\ batches'[b]["seller"] = 0 =>
                                    batches[b]["seller"] = 0 /\ batch'[b] = batch[b]
    BY <1>1, <1>4 DEF Owners
<1>7. /\ batch' \in [Listings -> BatchType]
      /\ \A b \in Listings : batch'[b].reserved <= batch'[b].total
    BY <1>1, <1>3, <1>4 DEF SInv, TablesOK, BatchesOK
<1>8. listing' \in [Listings -> ListingType]
    BY <1>1, <1>3, <1>4
<1>9. ListingsOK' /\ BatchesOK'
    BY <1>1, <1>3, <1>5, <1>6, <1>7 DEF SInv, TablesOK, ListingsOK, BatchesOK
<1>10. OffersOK' /\ OrdersOK'
    BY <1>1, <1>3, <1>5 DEF SInv, TablesOK, OffersOK, OrdersOK, There
<1>11. TypeOK' /\ TablesOK'
    BY <1>1, <1>6, <1>7, <1>8, <1>9, <1>10 DEF SInv, TypeOK, TablesType, TablesOK
<1>12. ASSUME NEW t \in Sessions PROVE Onward(sess[t].locked)
  <2>1. \A b \in sess[t].locked : b \in Listings /\ b # l
      BY <1>4 DEF SInv, TypeOK, RequestType, RequestOK
  <2>2. \A b \in Listings : batches[b]["seller"] > 0 => batches'[b]["seller"] > 0
      BY <1>4, <1>6
  <2> QED BY <1>1, <1>3, <1>5, <1>6, <2>1, <2>2 DEF Onward
<1>13. \A t \in Sessions : RequestOK(sess[t])'
    BY <1>1, <1>12, RequestStays DEF SInv
<1>14. LocksApart'
    BY <1>1 DEF SInv, LocksApart
<1> QED BY <1>11, <1>13, <1>14 DEF SInv

LEMMA CreateOfferOn ==
    ASSUME SInv, IInv', NEW l \in Listings, NEW q \in 1..MaxQty, CreateOffer(l, q)
    PROVE  SInv'
<1> DEFINE g == Min(NewOffers)
           row == [state |-> "PENDING", listing |-> l, qty |-> q, parent |-> 0]
<1>1. /\ listing[l].state = "ACTIVE" /\ offer' = [offer EXCEPT ![g] = row]
      /\ UNCHANGED <<listing, batch, batches, lapsed, order, held, active, sess, rollbacks>>
    BY DEF CreateOffer
<1>2. g \in Offers
  <2>1. NewOffers # {}
      BY DEF CreateOffer
  <2> QED BY <2>1, FirstIsFree, StockAssumption DEF NewOffers, Offers
<1>3. row \in OfferType /\ row.state # "NONE" /\ row.listing = l
  <2>1. q \in Nat
      BY StockAssumption
  <2> QED BY <2>1 DEF OfferType, OfferStates
<1> HIDE DEF g, row
<1>4. /\ offer' \in [Offers -> OfferType]
      /\ \A f \in Offers : offer'[f] = IF f = g THEN row ELSE offer[f]
    BY <1>1, <1>2, <1>3 DEF SInv, TypeOK, TablesType
<1>5. TypeOK'
    BY <1>1, <1>4 DEF SInv, TypeOK, TablesType
<1>6. TablesOK'
  <2>1. There(l)
      BY <1>1 DEF There
  <2> QED BY <1>1, <1>3, <1>4, <2>1
          DEF SInv, TablesOK, ListingsOK, BatchesOK, OffersOK, OrdersOK, There
<1>7. \A t \in Sessions : Onward(sess[t].locked)
    BY <1>1, <1>3, <1>4 DEF Onward
<1>8. \A t \in Sessions : RequestOK(sess[t])'
    BY <1>1, <1>7, RequestStays DEF SInv
<1>9. LocksApart'
    BY <1>1 DEF SInv, LocksApart
<1> QED BY <1>5, <1>6, <1>8, <1>9 DEF SInv

\* An offer lapses, or nothing happens.
LEMMA LapseOn ==
    ASSUME SInv, IInv', (\E f \in Offers : OfferLapses(f)) \/ UNCHANGED vars
    PROVE  SInv'
<1>1. UNCHANGED tables /\ UNCHANGED sess /\ UNCHANGED rollbacks /\ lapsed' \in SUBSET Offers
    BY DEF OfferLapses, vars, tables, SInv, TypeOK
<1>2. TypeOK' /\ TablesOK' /\ LocksApart'
    BY <1>1 DEF tables, SInv, TypeOK, TablesType, TablesOK, ListingsOK, BatchesOK, OffersOK, OrdersOK,
                There, LocksApart
<1>3. \A t \in Sessions : Onward(sess[t].locked)
    BY <1>1 DEF tables, Onward
<1>4. \A t \in Sessions : RequestOK(sess[t])'
    BY <1>1, <1>3, RequestStays DEF SInv
<1> QED BY <1>2, <1>4 DEF SInv

---------------------------------------------------------------------------
LEMMA InitSInv == Init => SInv
<1> SUFFICES ASSUME Init PROVE SInv
    OBVIOUS
<1>1. IInv
    BY InitInv
<1>2. \A s \in Sessions : sess[s] = Idle
    BY DEF Init
<1>3. TablesType
  <2>1. listing \in [Listings -> ListingType]
      BY StockAssumption DEF Init, ListingType, ListingStates, NoListing
  <2>2. batch \in [Listings -> BatchType]
      BY StockAssumption DEF Init, BatchType, BatchStates, NoBatch, NewBatch
  <2>3. batches \in [Listings -> [Owners -> Nat]]
      BY DEF Init
  <2>4. /\ offer \in [Offers -> OfferType] /\ order \in [Orders -> OrderType]
        /\ held \in [Orders -> [Listings -> Nat]] /\ active \in SUBSET Orders
      BY DEF Init, OfferType, OfferStates, OrderType, NoTake
  <2> QED BY <2>1, <2>2, <2>3, <2>4 DEF TablesType
<1>4. TypeOK
    BY <1>3, IdleOK DEF Init, TypeOK
<1>5. ListingsOK
    BY StockAssumption DEF Init, ListingsOK, NoListing, Owners
<1>6. BatchesOK
    BY StockAssumption DEF Init, BatchesOK, NoBatch, NewBatch, Owners, NoTake
<1>7. OffersOK /\ OrdersOK
    BY DEF Init, OffersOK, OrdersOK
<1>8. LocksApart
    BY <1>2 DEF LocksApart, Idle
<1> QED BY <1>1, <1>2, <1>4, <1>5, <1>6, <1>7, <1>8, IdleOK DEF SInv, TablesOK

LEMMA NextSInv == SInv /\ [Next]_vars => SInv'
<1> SUFFICES ASSUME SInv, [Next]_vars PROVE SInv'
    OBVIOUS
<1>1. IInv'
    BY NextInv DEF SInv
<1>2. ASSUME NEW s \in Sessions, Continue(s) \/ Rollback(s) PROVE SInv'
    BY <1>1, <1>2, AnswerCommitStep, AcceptCommitStep, DraftCommitStep, TransitionCommitStep,
       CancelCommitStep, RestoreCommitStep, RestockCommitStep, PublishCommitOn, UpdateCommitStep,
       QuietlyOn DEF Continue
<1> QED BY <1>1, <1>2, BeginStep, CreateOn, CreateOfferOn, LapseOn DEF Next

\* The tables keep their types and their checks, whatever requests interleave: no listing
\* shows more than its quantity, no batch reserves more than it holds, no row refers to one
\* that is not there, and nothing is reserved of a batch before it is made (what
\* ck_listing_avail_lte, ck_inv_nonneg and the FOR UPDATE of reserve and release keep).
THEOREM TablesConsistent == Spec => [](TypeOK /\ TablesOK)
<1>1. SInv => TypeOK /\ TablesOK
    BY DEF SInv
<1> QED BY <1>1, InitSInv, NextSInv, PTL DEF Spec

---------------------------------------------------------------------------
(* The counters are the sums of what is held *)

\* Which sessions are releasing, whether they have found anything or not.
Cancels(s) == sess[s].pc \in {"release", "restore"}

ReleasesActive == \A s \in Sessions : Releasing(s) => sess[s].order \in active

HInv == CountersHold /\ ReleasesActive

\* Nobody begins to release by this step.
Carries == \A t \in Sessions : Cancels(t)' =>
    Cancels(t) /\ sess'[t].order = sess[t].order /\ sess'[t].found = sess[t].found

\* No batch's counter and no reservation changes.
CountsStay ==
    /\ held' = held /\ active' = active
    /\ \A b \in Listings : batch'[b].reserved = batch[b].reserved

LEMMA StillHeld ==
    ASSUME HInv, Carries, CountsStay
    PROVE  HInv'
<1>1. CountersHold'
    BY DEF HInv, CountsStay, CountersHold, HeldOf
<1>2. ReleasesActive'
    BY DEF HInv, CountsStay, Carries, ReleasesActive, Releasing, Cancels
<1> QED BY <1>1, <1>2 DEF HInv

LEMMA GoesOn ==
    ASSUME SInv, NEW s \in Sessions, NEW r, sess' = [sess EXCEPT ![s] = r],
           r.pc \in {"release", "restore"} =>
               Cancels(s) /\ r.order = sess[s].order /\ r.found = sess[s].found
    PROVE  Carries
<1>1. \A t \in Sessions : sess'[t] = IF t = s THEN r ELSE sess[t]
    BY DEF SInv, TypeOK
<1> QED BY <1>1 DEF Carries, Cancels

LEMMA BeginCarries ==
    ASSUME SInv, NEW s \in Sessions, Begin(s)
    PROVE  Carries
<1>1. \E pc \in {"answer", "accept", "draft", "transition", "cancel", "restock", "publish", "edit",
                 "state"} :
        \E r : r.pc = pc /\ sess' = [sess EXCEPT ![s] = r]
  <2>1. ASSUME NEW f \in Offers, NEW op \in Answers, AnswerRead(s, f, op)
        PROVE  \E r : r.pc = "answer" /\ sess' = [sess EXCEPT ![s] = r]
      BY <2>1 DEF AnswerRead, Become, Idle
  <2>2. ASSUME NEW f \in Offers, AcceptRead(s, f)
        PROVE  \E r : r.pc = "accept" /\ sess' = [sess EXCEPT ![s] = r]
      BY <2>2 DEF AcceptRead, Become, Idle
  <2>3. ASSUME NEW l \in Listings, NEW q \in 1..MaxQty, DraftRead(s, l, q)
        PROVE  \E r : r.pc = "draft" /\ sess' = [sess EXCEPT ![s] = r]
      BY <2>3 DEF DraftRead, Become, Idle
  <2>4. ASSUME NEW o \in Orders, NEW to \in OrderStates, TransitionRead(s, o, to)
        PROVE  \E r : r.pc = "transition" /\ sess' = [sess EXCEPT ![s] = r]
      BY <2>4 DEF TransitionRead, Become, Idle
  <2>5. ASSUME NEW o \in Orders, CancelRead(s, o)
        PROVE  \E r : r.pc = "cancel" /\ sess' = [sess EXCEPT ![s] = r]
      BY <2>5 DEF CancelRead, Become, Idle
  <2>6. ASSUME NEW l \in Listings, NEW q \in 0..MaxQty, RestockRead(s, l, q)
        PROVE  \E r : r.pc = "restock" /\ sess' = [sess EXCEPT ![s] = r]
      BY <2>6 DEF RestockRead, Become, Idle
  <2>7. ASSUME NEW l \in Listings, NEW who \in Owners, PublishLock(s, l, who)
        PROVE  \E r : r.pc = "publish" /\ sess' = [sess EXCEPT ![s] = r]
      BY <2>7 DEF PublishLock, Become, Idle
  <2>8. ASSUME NEW l \in Listings, NEW cap \in 1..MaxQty, NEW avail \in 1..MaxQty,
               EditRead(s, l, cap, avail)
        PROVE  \E r : r.pc = "edit" /\ sess' = [sess EXCEPT ![s] = r]
      BY <2>8 DEF EditRead, Become, Idle
  <2>9. ASSUME NEW l \in Listings, NEW to \in {"ACTIVE", "PAUSED", "CLOSED"}, StateRead(s, l, to)
        PROVE  \E r : r.pc = "state" /\ sess' = [sess EXCEPT ![s] = r]
      BY <2>9 DEF StateRead, Become, Idle
  <2> QED BY <2>1, <2>2, <2>3, <2>4, <2>5, <2>6, <2>7, <2>8, <2>9 DEF Begin
<1> QED BY <1>1, GoesOn

LEMMA BeginHeld ==
    ASSUME SInv, HInv, NEW s \in Sessions, Begin(s)
    PROVE  HInv'
<1>1. UNCHANGED tables
    BY DEF Begin, AnswerRead, AcceptRead, DraftRead, TransitionRead, CancelRead, RestockRead,
           PublishLock, EditRead, StateRead
<1>2. CountsStay
    BY <1>1 DEF CountsStay, tables
<1> QED BY <1>2, BeginCarries, StillHeld

\* Requests that go on, or commit, without reserving or releasing anything.
Quietly(s) ==
    \/ AnswerCommit(s) \/ AcceptReserve(s) \/ DraftFlush(s) \/ DraftShort(s)
    \/ TransitionCommit(s) \/ ReleaseLock(s) \/ RestockLock(s) \/ RestockCommit(s)
    \/ PublishCommit(s) \/ UpdateCommit(s) \/ CheckRefuses(s) \/ DeadlockVictim(s)
    \/ Rollback(s)

LEMMA QuietlyCarries ==
    ASSUME SInv, NEW s \in Sessions, Quietly(s)
    PROVE  Carries
<1> USE DEF Quietly
<1>1. Idle.pc = "idle"
    BY DEF Idle
<1>2. sess[s] \in RequestType
    BY DEF SInv, TypeOK
<1>3. CASE AcceptReserve(s)
    BY <1>1, <1>2, <1>3, GoesOn DEF AcceptReserve, Become, RequestType
<1>4. CASE DraftFlush(s)
    BY <1>2, <1>4, GoesOn DEF DraftFlush, Become, RequestType
<1>5. CASE ReleaseLock(s)
    BY <1>2, <1>5, GoesOn DEF ReleaseLock, Become, RequestType, Cancels, At
<1>6. CASE RestockLock(s)
    BY <1>1, <1>2, <1>6, GoesOn DEF RestockLock, Become, RequestType
<1>7. CASE /\ ~AcceptReserve(s) /\ ~DraftFlush(s) /\ ~ReleaseLock(s) /\ ~RestockLock(s)
  <2>1. sess' = [sess EXCEPT ![s] = Idle]
      BY <1>7 DEF AnswerCommit, DraftShort, TransitionCommit, RestockCommit, PublishCommit,
                  UpdateCommit, CheckRefuses, DeadlockVictim, Rollback, Become
  <2> QED BY <1>1, <2>1, GoesOn
<1> QED BY <1>3, <1>4, <1>5, <1>6, <1>7

LEMMA QuietlyHeld ==
    ASSUME SInv, HInv, NEW s \in Sessions, Quietly(s)
    PROVE  HInv'
<1> USE DEF Quietly
<1>1. held' = held /\ active' = active
    BY DEF AnswerCommit, AcceptReserve, DraftFlush, DraftShort, TransitionCommit, ReleaseLock,
           RestockLock, RestockCommit, PublishCommit, UpdateCommit, CheckRefuses, DeadlockVictim,
           Rollback, tables
<1>2. \A b \in Listings : batch'[b].reserved = batch[b].reserved
  <2>1. CASE RestockCommit(s)
    <3>1. /\ batch' = IF sess[s].locked = {} THEN batch
                      ELSE [batch EXCEPT ![sess[s].listing] = Restocked(s)]
          /\ Restocked(s).reserved = batch[sess[s].listing].reserved
        BY <2>1 DEF RestockCommit, Restocked
    <3>2. batch \in [Listings -> BatchType]
        BY DEF SInv, TypeOK, TablesType
    <3> QED BY <3>1, <3>2
  <2>2. CASE PublishCommit(s)
    <3> DEFINE r == sess[s]
    <3>1. /\ Publishes(r)
          /\ batch' = IF r.found \/ r.to # "seller" THEN batch
                      ELSE [batch EXCEPT ![r.listing] = NewBatch(r.seen.cap)]
        BY <2>2 DEF PublishCommit, SInv, IInv
    <3>2. /\ r.listing \in Listings
          /\ ~r.found /\ r.to = "seller" => batches[r.listing]["seller"] = 0
        BY <3>1 DEF Publishes, SInv, TypeOK, TablesType, Owners
    <3>3. ~r.found /\ r.to = "seller" => batch[r.listing].reserved = 0
        BY <3>2 DEF SInv, TablesOK, BatchesOK, NoBatch
    <3> HIDE DEF r
    <3>4. batch \in [Listings -> BatchType]
        BY DEF SInv, TypeOK, TablesType
    <3> QED BY <3>1, <3>2, <3>3, <3>4 DEF NewBatch
  <2>3. CASE ~RestockCommit(s) /\ ~PublishCommit(s)
    <3>1. batch' = batch
        BY <2>3 DEF AnswerCommit, AcceptReserve, DraftFlush, DraftShort, TransitionCommit, ReleaseLock,
                    RestockLock, UpdateCommit, CheckRefuses, DeadlockVictim, Rollback, tables
    <3> QED BY <3>1
  <2> QED BY <2>1, <2>2, <2>3
<1> QED BY <1>1, <1>2, QuietlyCarries, StillHeld DEF CountsStay

\* An order that is cancelled has its reservations read after the commit.
LEMMA CancelHeld ==
    ASSUME SInv, HInv, NEW s \in Sessions, CancelCommit(s)
    PROVE  HInv'
<1> DEFINE n == [sess[s] EXCEPT !.pc = "release", !.found = sess[s].order \in active]
<1>1. sess' = [sess EXCEPT ![s] = n] /\ batch' = batch /\ held' = held /\ active' = active
    BY DEF CancelCommit, Become
<1>2. n.order = sess[s].order /\ (n.found => sess[s].order \in active)
    BY DEF SInv, TypeOK, RequestType
<1> HIDE DEF n
<1>3. \A t \in Sessions : sess'[t] = IF t = s THEN n ELSE sess[t]
    BY <1>1 DEF SInv, TypeOK
<1>4. ReleasesActive'
    BY <1>1, <1>2, <1>3 DEF HInv, ReleasesActive, Releasing
<1>5. CountersHold'
    BY <1>1 DEF HInv, CountersHold, HeldOf
<1> QED BY <1>4, <1>5 DEF HInv

---------------------------------------------------------------------------
(* What is held, when an order is placed and when it is released *)

LEMMA HeldType ==
    ASSUME TypeOK, NEW b \in Listings
    PROVE  /\ IsFiniteSet(active)
           /\ \A o \in Orders : held[o][b] \in Nat
<1>1. IsFiniteSet(active)
  <2>1. IsFiniteSet(Orders)
      BY FS_Interval, StockAssumption DEF Orders
  <2> QED BY <2>1, FS_Subset DEF TypeOK, TablesType
<1>2. held \in [Orders -> [Listings -> Nat]]
    BY DEF TypeOK, TablesType
<1> QED BY <1>1, <1>2

LEMMA HeldMore ==
    ASSUME TypeOK, TypeOK', NEW b \in Listings, NEW o \in Orders \ active,
           active' = active \cup {o}, \A p \in Orders \ {o} : held'[p] = held[p]
    PROVE  HeldOf(b)' = HeldOf(b) + held'[o][b]
<1> DEFINE f == [p \in Orders |-> held[p][b]]
           g == [p \in Orders |-> held'[p][b]]
<1>1. IsFiniteSet(active) /\ active \subseteq Orders
    BY HeldType DEF TypeOK, TablesType
<1>2. /\ \A p \in active : f[p] \in Nat /\ g[p] = f[p]
      /\ \A p \in active \cup {o} : g[p] \in Nat
      /\ g[o] = held'[o][b]
    BY <1>1 DEF TypeOK, TablesType
<1>3. HeldOf(b) = SumFunctionOnSet(f, active) /\ HeldOf(b)' = SumFunctionOnSet(g, active \cup {o})
    BY DEF HeldOf
<1> HIDE DEF f, g
<1>4. SumFunctionOnSet(g, active) = SumFunctionOnSet(f, active)
    BY <1>1, <1>2, SumSame
<1>5. SumFunctionOnSet(g, active \cup {o}) = SumFunctionOnSet(g, active) + g[o]
    BY <1>1, <1>2, SumAdd
<1> QED BY <1>2, <1>3, <1>4, <1>5

LEMMA HeldLess ==
    ASSUME TypeOK, NEW b \in Listings, NEW o \in active, active' = active \ {o}, held' = held
    PROVE  HeldOf(b) = HeldOf(b)' + held[o][b] /\ HeldOf(b)' \in Nat
<1> DEFINE f == [p \in Orders |-> held[p][b]]
<1>1. IsFiniteSet(active) /\ active \subseteq Orders /\ IsFiniteSet(active \ {o})
    BY HeldType, FS_RemoveElement DEF TypeOK, TablesType
<1>2. \A p \in active : f[p] \in Nat /\ f[p] = held[p][b]
    BY <1>1, HeldType
<1>3. HeldOf(b) = SumFunctionOnSet(f, active) /\ HeldOf(b)' = SumFunctionOnSet(f, active \ {o})
    BY DEF HeldOf
<1> HIDE DEF f
<1>4. SumFunctionOnSet(f, active) = SumFunctionOnSet(f, active \ {o}) + f[o]
    BY <1>1, <1>2, SumRemove
<1>5. SumFunctionOnSet(f, active \ {o}) \in Nat
    BY <1>1, <1>2, SumType
<1> QED BY <1>2, <1>3, <1>4, <1>5

\* Both ways of placing an order raise each counter by what the order holds.
LEMMA PlacedHeld ==
    ASSUME SInv, SInv', HInv, NEW s \in Sessions, AcceptCommit(s) \/ DraftCommit(s)
    PROVE  HInv'
<1> DEFINE o == Min(NewOrders)
<1>1. /\ o \in Orders \ active
      /\ active' = active \cup {o} /\ \A p \in Orders \ {o} : held'[p] = held[p]
      /\ \A b \in Listings : batch'[b].reserved = batch[b].reserved + held'[o][b]
  <2> DEFINE Placed(state, l, q, f, take, base) ==
        /\ PlaceOrder(state, l, q, f, take, base)
        /\ take \in [Listings -> Nat]
        /\ \A b \in Listings : take[b] > 0 => base[b] = batch[b].reserved
  <2>1. ASSUME NEW state, NEW l, NEW q, NEW f, NEW take, NEW base, Placed(state, l, q, f, take, base)
        PROVE  /\ o \in Orders \ active
               /\ active' = active \cup {o} /\ \A p \in Orders \ {o} : held'[p] = held[p]
               /\ \A b \in Listings : batch'[b].reserved = batch[b].reserved + held'[o][b]
    <3>1. o \in Orders /\ order[o].state = "NONE"
      <4>1. o \in NewOrders
          BY <2>1, FirstIsFree, StockAssumption DEF PlaceOrder, NewOrders, Orders
      <4> QED BY <4>1 DEF NewOrders
    <3>2. o \notin active
        BY <3>1 DEF SInv, TablesOK, OrdersOK
    <3>3. held' = [held EXCEPT ![o] = take] /\ active' = active \cup {o}
        BY <2>1 DEF PlaceOrder
    <3> HIDE DEF o
    <3>4. \A p \in Orders : held'[p] = IF p = o THEN take ELSE held[p]
        BY <3>3 DEF SInv, TypeOK, TablesType
    <3>5. ASSUME NEW b \in Listings PROVE batch'[b].reserved = batch[b].reserved + take[b]
      <4>1. batch[b] \in BatchType /\ batch[b].reserved \in Nat /\ take[b] \in Nat
          BY <2>1 DEF SInv, TypeOK, TablesType, BatchType
      <4> DEFINE m == IF take[b] > 0 THEN base[b] + take[b] ELSE batch[b].reserved
      <4>2. batch'[b] = [batch[b] EXCEPT !.reserved = m]
          BY <2>1 DEF PlaceOrder
      <4>3. m = batch[b].reserved + take[b]
          BY <2>1, <4>1
      <4> HIDE DEF m
      <4> QED BY <4>1, <4>2, <4>3 DEF BatchType
    <3> QED BY <3>1, <3>2, <3>3, <3>4, <3>5
  <2>2. sess[s] \in RequestType /\ RequestOK(sess[s])
      BY DEF SInv, TypeOK
  <2>3. CASE AcceptCommit(s)
    <3> DEFINE r == sess[s]
    <3>1. PlaceOrder("ACCEPTED", r.listing, r.qty, r.offer, r.take, r.base) /\ r.pc = "acceptCommit"
        BY <2>3 DEF AcceptCommit, At
    <3>2. /\ r.take \in [Listings -> Nat]
          /\ \A b \in Listings : r.take[b] > 0 => r.base[b] = batch[b].reserved
        BY <2>2, <3>1 DEF RequestType, RequestOK
    <3>3. Placed("ACCEPTED", r.listing, r.qty, r.offer, r.take, r.base)
        BY <3>1, <3>2
    <3> HIDE DEF Placed, r, o
    <3> QED BY <2>1, <3>3
  <2>4. CASE DraftCommit(s)
    <3> DEFINE r == sess[s]
               take == Take(r.qty)
    <3>1. PlaceOrder("PAYMENT_PENDING", r.listing, r.qty, 0, take, Reserved)
        BY <2>4 DEF DraftCommit
    <3>2. take \in [Listings -> Nat]
      <4>1. TablesType /\ r.qty \in Nat
          BY <2>2 DEF SInv, TypeOK, RequestType
      <4> HIDE DEF r
      <4> QED BY <4>1, TakeFits
    <3>3. \A b \in Listings : Reserved[b] = batch[b].reserved
        BY DEF Reserved
    <3> HIDE DEF take
    <3>4. Placed("PAYMENT_PENDING", r.listing, r.qty, 0, take, Reserved)
        BY <3>1, <3>2, <3>3
    <3> HIDE DEF Placed, r, o
    <3> QED BY <2>1, <3>4
  <2> QED BY <2>3, <2>4
<1>2. sess' = [sess EXCEPT ![s] = Idle]
    BY DEF AcceptCommit, DraftCommit, Become
<1> HIDE DEF o
<1>3. CountersHold'
  <2>1. SUFFICES ASSUME NEW b \in Listings PROVE batch'[b].reserved = HeldOf(b)'
      BY DEF CountersHold
  <2>2. HeldOf(b)' = HeldOf(b) + held'[o][b]
      BY <1>1, HeldMore DEF SInv
  <2> QED BY <1>1, <2>2 DEF HInv, CountersHold
<1>4. Carries
    BY <1>2, GoesOn DEF Idle
<1>5. ReleasesActive'
    BY <1>1, <1>4 DEF HInv, Carries, ReleasesActive, Releasing, Cancels
<1> QED BY <1>3, <1>5 DEF HInv

\* A release lowers each counter by what the order holds.
LEMMA RestoreHeld ==
    ASSUME SInv, HInv, ~Twins, NEW s \in Sessions, RestoreCommit(s)
    PROVE  HInv'
<1> DEFINE r == sess[s]
           o == r.order
<1>1. r \in RequestType /\ RequestOK(r) /\ r.pc = "restore"
    BY DEF SInv, TypeOK, RestoreCommit, At
<1>2. /\ batch' = BatchAfterRelease(s) /\ held' = held
      /\ active' = IF r.found THEN active \ {o} ELSE active
      /\ sess' = [sess EXCEPT ![s] = Idle]
    BY DEF RestoreCommit, Become
<1>3. /\ r.locked = IF r.found THEN HeldBy(o) ELSE {}
      /\ o \in Orders
      /\ r.found => o \in active
    BY <1>1 DEF RequestOK, HInv, ReleasesActive, Releasing
<1>4. Carries
    BY <1>2, GoesOn DEF Idle
<1>5. ReleasesActive'
  <2>1. ASSUME NEW t \in Sessions, Releasing(t)' PROVE sess'[t].order \in active'
    <3>1. Releasing(t) /\ sess'[t].order = sess[t].order /\ sess[t].order \in active
        BY <1>4, <2>1 DEF Carries, HInv, ReleasesActive, Releasing, Cancels
    <3>2. t # s
        BY <1>2, <2>1 DEF Releasing, Idle, SInv, TypeOK
    <3>3. r.found => sess[t].order # o
        BY <1>1, <3>1, <3>2 DEF Twins, Releasing
    <3> QED BY <1>2, <3>1, <3>3
  <2> QED BY <2>1 DEF ReleasesActive
<1>6. CountersHold'
  <2>1. SUFFICES ASSUME NEW b \in Listings PROVE batch'[b].reserved = HeldOf(b)'
      BY DEF CountersHold
  <2>2. /\ batch[b] \in BatchType /\ batch[b].reserved = HeldOf(b) /\ batch[b].reserved \in Nat
        /\ held[o][b] \in Nat
      BY <1>3 DEF SInv, TypeOK, TablesType, BatchType, HInv, CountersHold
  <2>3. CASE ~r.found
    <3>1. batch'[b] = batch[b]
        BY <1>2, <1>3, <2>3 DEF BatchAfterRelease
    <3>2. HeldOf(b)' = HeldOf(b)
        BY <1>2, <2>3 DEF HeldOf
    <3> QED BY <2>2, <3>1, <3>2
  <2>4. CASE r.found
    <3>1. HeldOf(b) = HeldOf(b)' + held[o][b] /\ HeldOf(b)' \in Nat
      <4>1. o \in active /\ active' = active \ {o} /\ TypeOK
          BY <1>2, <1>3, <2>4 DEF SInv
      <4> HIDE DEF o
      <4> QED BY <1>2, <4>1, HeldLess
    <3>2. CASE held[o][b] > 0
      <4> DEFINE m == Clip(batch[b].reserved - held[o][b], 0, batch[b].reserved)
      <4>1. m = HeldOf(b)'
        <5>1. batch[b].reserved = HeldOf(b)' + held[o][b]
            BY <2>2, <3>1
        <5> QED BY <2>2, <3>1, <5>1 DEF Clip
      <4> HIDE DEF m
      <4>2. batch'[b] = [batch[b] EXCEPT !.reserved = m]
          BY <1>2, <1>3, <2>4, <3>2 DEF BatchAfterRelease, HeldBy, m
      <4> QED BY <2>2, <4>1, <4>2 DEF BatchType
    <3>3. CASE ~(held[o][b] > 0)
      <4>1. batch'[b] = batch[b]
          BY <1>2, <1>3, <2>4, <3>3 DEF BatchAfterRelease, HeldBy
      <4> QED BY <2>2, <3>1, <3>3, <4>1
    <3> QED BY <3>2, <3>3
  <2> QED BY <2>3, <2>4
<1> QED BY <1>5, <1>6 DEF HInv

\* What no session does: the rows that are made have nothing reserved.
LEMMA OthersHeld ==
    ASSUME SInv, HInv,
           \/ \E l \in Listings, q \in 1..MaxQty, state \in {"DRAFT", "ACTIVE"} :
                 CreateListing(l, q, state)
           \/ \E l \in Listings, q \in 1..MaxQty : CreateOffer(l, q)
           \/ \E f \in Offers : OfferLapses(f)
           \/ UNCHANGED vars
    PROVE  HInv'
<1>1. held' = held /\ active' = active /\ sess' = sess
    BY DEF CreateListing, CreateOffer, OfferLapses, vars, tables
<1>2. \A b \in Listings : batch'[b].reserved = batch[b].reserved
  <2>1. ASSUME NEW l \in Listings, NEW q \in 1..MaxQty, NEW state \in {"DRAFT", "ACTIVE"},
               CreateListing(l, q, state)
        PROVE  \A b \in Listings : batch'[b].reserved = batch[b].reserved
    <3>1. /\ listing[l].state = "NONE"
          /\ batch' = batch \/ batch' = [batch EXCEPT ![l] = NewBatch(Quantity[l])]
        BY <2>1 DEF CreateListing
    <3>2. batch[l].reserved = 0
        BY <3>1 DEF SInv, TablesOK, ListingsOK, BatchesOK, NoBatch
    <3> QED BY <3>1, <3>2 DEF NewBatch, SInv, TypeOK, TablesType
  <2>2. CASE \/ \E l \in Listings, q \in 1..MaxQty : CreateOffer(l, q)
             \/ \E f \in Offers : OfferLapses(f)
             \/ UNCHANGED vars
    <3>1. batch' = batch
        BY <2>2 DEF CreateOffer, OfferLapses, vars, tables
    <3> QED BY <3>1
  <2> QED BY <2>1, <2>2
<1>3. Carries
    BY <1>1 DEF Carries, Cancels
<1> QED BY <1>1, <1>2, <1>3, StillHeld DEF CountsStay

LEMMA InitHeld == Init => HInv
<1> SUFFICES ASSUME Init PROVE HInv
    OBVIOUS
<1>1. CountersHold
  <2>1. active = {} /\ \A b \in Listings : batch[b].reserved = 0
      BY DEF Init, NoBatch, NewBatch
  <2> QED BY <2>1, SumEmpty DEF CountersHold, HeldOf
<1>2. ReleasesActive
    BY DEF Init, ReleasesActive, Releasing, Idle
<1> QED BY <1>1, <1>2 DEF HInv

LEMMA NextHeld == SInv /\ HInv /\ ~Twins /\ [Next]_vars => HInv'
<1> SUFFICES ASSUME SInv, HInv, ~Twins, [Next]_vars PROVE HInv'
    OBVIOUS
<1>1. SInv'
    BY NextSInv
<1>2. ASSUME NEW s \in Sessions, Continue(s) \/ Rollback(s) PROVE HInv'
    BY <1>1, <1>2, QuietlyHeld, CancelHeld, PlacedHeld, RestoreHeld DEF Continue, Quietly
<1> QED BY <1>2, BeginHeld, OthersHeld DEF Next

---------------------------------------------------------------------------
(* Until two requests release one order at once *)

TInv == twin \in BOOLEAN /\ (~twin => HInv /\ ~Twins)

LEMMA OneMoves ==
    ASSUME NEW s \in Sessions, Begin(s) \/ Continue(s) \/ Rollback(s)
    PROVE  \E r : Become(s, r)
<1>1. ASSUME Begin(s) PROVE \E r : Become(s, r)
    BY <1>1 DEF Begin, AnswerRead, AcceptRead, DraftRead, TransitionRead, CancelRead, RestockRead,
                PublishLock, EditRead, StateRead
<1>2. ASSUME Continue(s) \/ Rollback(s) PROVE \E r : Become(s, r)
    BY <1>2 DEF Continue, AnswerCommit, AcceptReserve, AcceptCommit, DraftFlush, DraftCommit, DraftShort,
                TransitionCommit, CancelCommit, ReleaseLock, RestoreCommit, RestockLock, RestockCommit,
                PublishCommit, UpdateCommit, CheckRefuses, DeadlockVictim, Rollback
<1> QED BY <1>1, <1>2

\* twin remembers every step after which two sessions release one order.
LEMMA TwinsSeen ==
    ASSUME TInv, [Next]_vars
    PROVE  twin' \in BOOLEAN /\ (~twin' => ~twin /\ ~Twins')
<1>1. CASE \E s \in Sessions : Begin(s) \/ Continue(s) \/ Rollback(s)
  <2>1. twin' = (twin \/ Twins')
      BY <1>1, OneMoves DEF Become
  <2> QED BY <2>1
<1>2. CASE ~\E s \in Sessions : Begin(s) \/ Continue(s) \/ Rollback(s)
  <2>1. twin' = twin /\ sess' = sess
      BY <1>2 DEF Next, CreateListing, CreateOffer, OfferLapses, vars
  <2>2. Twins' <=> Twins
      BY <2>1 DEF Twins, Releasing
  <2> QED BY <2>1, <2>2 DEF TInv
<1> QED BY <1>1, <1>2

LEMMA InitTwins == Init => TInv
<1> SUFFICES ASSUME Init PROVE TInv
    OBVIOUS
<1>1. ~Twins
    BY DEF Init, Twins, Releasing, Idle
<1> QED BY <1>1, InitHeld DEF Init, TInv

LEMMA NextTwins == SInv /\ TInv /\ [Next]_vars => TInv'
BY NextHeld, TwinsSeen DEF TInv

\* The counter of every batch is the sum of its active reservations, however sales, restocks,
\* publications and cancellations interleave, until two requests have released one order at
\* once (quantity_reserved, as reserve and release_reservation move it).
THEOREM CountersAgree == Spec => []ReservedIsHeld
<1>1. TInv => ReservedIsHeld
    BY DEF TInv, HInv, ReservedIsHeld
<1>2. Init => SInv /\ TInv
    BY InitSInv, InitTwins
<1>3. SInv /\ TInv /\ [Next]_vars => SInv' /\ TInv'
    BY NextSInv, NextTwins
<1> QED BY <1>1, <1>2, <1>3, PTL DEF Spec

\* So no batch is oversold: until then its active reservations never add up to more than it
\* holds (docs/business-rules.md, overselling is impossible under concurrency).
THEOREM NeverOversold == Spec => []NoOversell
<1>1. SInv /\ TInv => NoOversell
    BY DEF SInv, TablesOK, BatchesOK, TInv, HInv, CountersHold, NoOversell, HeldFits
<1>2. Init => SInv /\ TInv
    BY InitSInv, InitTwins
<1>3. SInv /\ TInv /\ [Next]_vars => SInv' /\ TInv'
    BY NextSInv, NextTwins
<1> QED BY <1>1, <1>2, <1>3, PTL DEF Spec

---------------------------------------------------------------------------
(* What a cancellation has not found is not there *)

FoundAll == \A s \in Sessions : Cancels(s) /\ ~sess[s].found => sess[s].order \notin active

\* Reservations are made for an order as it is placed, never for one that is there.
LEMMA NothingHeldAnew ==
    ASSUME [Next]_vars
    PROVE  \A o \in active' : o \in active \/ order[o].state = "NONE"
<1>1. CASE active' = active
    BY <1>1
<1>2. ASSUME NEW s \in Sessions, RestoreCommit(s) PROVE active' \subseteq active
    BY <1>2 DEF RestoreCommit
<1>3. ASSUME NEW s \in Sessions, AcceptCommit(s) \/ DraftCommit(s)
      PROVE  \A o \in active' : o \in active \/ order[o].state = "NONE"
  <2>1. NewOrders # {} /\ active' = active \cup {Min(NewOrders)}
      BY <1>3 DEF AcceptCommit, DraftCommit, PlaceOrder
  <2>2. Min(NewOrders) \in NewOrders
      BY <2>1, FirstIsFree, StockAssumption DEF NewOrders, Orders
  <2> QED BY <2>1, <2>2 DEF NewOrders
<1>4. CASE ~\E s \in Sessions : RestoreCommit(s) \/ AcceptCommit(s) \/ DraftCommit(s)
  <2>1. active' = active
    <3>1. ASSUME NEW s \in Sessions, Begin(s) PROVE active' = active
        BY <3>1 DEF Begin, AnswerRead, AcceptRead, DraftRead, TransitionRead, CancelRead, RestockRead,
                    PublishLock, EditRead, StateRead, tables
    <3>2. ASSUME NEW s \in Sessions, Continue(s) \/ Rollback(s) PROVE active' = active
        BY <1>4, <3>2 DEF Continue, AnswerCommit, AcceptReserve, DraftFlush, DraftShort, TransitionCommit,
                          CancelCommit, ReleaseLock, RestockLock, RestockCommit, PublishCommit,
                          UpdateCommit, CheckRefuses, DeadlockVictim, Rollback, tables
    <3> QED BY <3>1, <3>2 DEF Next, CreateListing, CreateOffer, OfferLapses, vars, tables
  <2> QED BY <2>1
<1> QED BY <1>2, <1>3, <1>4

LEMMA InitFound == Init => FoundAll
BY DEF Init, FoundAll, Cancels, Idle

\* Only the first commit of a cancellation sets out to release.
LEMMA OneCancels ==
    ASSUME SInv, [Next]_vars, ~\E s \in Sessions : CancelCommit(s)
    PROVE  Carries
<1>1. ASSUME NEW s \in Sessions, AcceptCommit(s) \/ DraftCommit(s) \/ RestoreCommit(s) PROVE Carries
  <2>1. sess' = [sess EXCEPT ![s] = Idle]
      BY <1>1 DEF AcceptCommit, DraftCommit, RestoreCommit, Become
  <2> QED BY <2>1, GoesOn DEF Idle
<1>2. ASSUME NEW s \in Sessions, Continue(s) \/ Rollback(s) PROVE Carries
    BY <1>1, <1>2, QuietlyCarries DEF Continue, Quietly
<1>3. ASSUME sess' = sess PROVE Carries
    BY <1>3 DEF Carries, Cancels
<1>4. CASE ~\E s \in Sessions : Begin(s) \/ Continue(s) \/ Rollback(s)
  <2>1. sess' = sess
      BY <1>4 DEF Next, CreateListing, CreateOffer, OfferLapses, vars
  <2> QED BY <1>3, <2>1
<1> QED BY <1>2, <1>4, BeginCarries

LEMMA NextFound == SInv /\ FoundAll /\ [Next]_vars => FoundAll'
<1> SUFFICES ASSUME SInv, FoundAll, [Next]_vars, NEW t \in Sessions, Cancels(t)', ~sess'[t].found
             PROVE  sess'[t].order \notin active'
    BY DEF FoundAll
<1>1. CASE Carries
  <2>1. /\ sess'[t].order = sess[t].order /\ sess[t].order \notin active
        /\ order[sess[t].order].state # "NONE"
      BY <1>1 DEF Carries, Cancels, FoundAll, SInv, RequestOK
  <2> QED BY <2>1, NothingHeldAnew
<1>2. ASSUME NEW s \in Sessions, CancelCommit(s) PROVE sess'[t].order \notin active'
  <2> DEFINE n == [sess[s] EXCEPT !.pc = "release", !.found = sess[s].order \in active]
  <2>1. sess' = [sess EXCEPT ![s] = n] /\ active' = active
      BY <1>2 DEF CancelCommit, Become
  <2>2. n.order = sess[s].order /\ (n.order \in active => n.found)
      BY DEF SInv, TypeOK, RequestType
  <2> HIDE DEF n
  <2>3. sess'[t] = IF t = s THEN n ELSE sess[t]
      BY <2>1 DEF SInv, TypeOK
  <2> QED BY <2>1, <2>2, <2>3 DEF FoundAll, Cancels
<1>3. CASE ~\E s \in Sessions : CancelCommit(s)
    BY <1>1, <1>3, OneCancels
<1> QED BY <1>2, <1>3

\* A call of cancel_order that ends well leaves nothing of the order reserved, whatever other
\* requests do to the order while it is at it: what the second transaction has not found was
\* not there, and no reservation is ever added to an order.
THEOREM CancelledIsReleased == Spec => CancelReleases
<1>1. ASSUME SInv, FoundAll, [Next]_vars, NEW s \in Sessions, Cancelling(s), At(s, "idle")'
      PROVE  sess[s].order \notin active' \/ Undone(s)
  <2>1. CASE sess' = sess
      BY <1>1, <2>1 DEF Cancelling, At
  <2>2. ASSUME NEW t \in Sessions \ {s}, Begin(t) \/ Continue(t) \/ Rollback(t) PROVE FALSE
    <3>1. PICK r : Become(t, r)
        BY <2>2, OneMoves
    <3>2. sess'[s] = sess[s]
        BY <1>1, <3>1 DEF Become, SInv, TypeOK
    <3> QED BY <1>1, <3>2 DEF Cancelling, At
  <2>3. ~Begin(s)
      BY <1>1 DEF Begin, AnswerRead, AcceptRead, DraftRead, TransitionRead, CancelRead, RestockRead,
                  PublishLock, EditRead, StateRead, Free, Cancelling, At
  <2>4. CASE CancelCommit(s)
    <3>1. sess'[s] = [sess[s] EXCEPT !.pc = "release", !.found = sess[s].order \in active]
        BY <2>4, <1>1 DEF CancelCommit, Become, SInv, TypeOK
    <3>2. sess'[s].pc = "release"
        BY <3>1, <1>1 DEF SInv, TypeOK, RequestType
    <3> QED BY <1>1, <3>2 DEF At
  <2>5. CASE ReleaseLock(s)
    <3>1. sess'[s].pc = "restore"
        BY <2>5, <1>1 DEF ReleaseLock, Become, SInv, TypeOK, RequestType
    <3> QED BY <1>1, <3>1 DEF At
  <2>6. CASE RestoreCommit(s)
      BY <1>1, <2>6 DEF RestoreCommit, FoundAll, Cancels, At
  <2>7. CASE Continue(s) /\ ~CancelCommit(s) /\ ~ReleaseLock(s) /\ ~RestoreCommit(s)
      BY <1>1, <2>7 DEF Continue, AnswerCommit, AcceptReserve, AcceptCommit, DraftFlush, DraftCommit,
                        DraftShort, TransitionCommit, RestockLock, RestockCommit, PublishCommit,
                        UpdateCommit, Undone, Cancelling, At
  <2>8. CASE Rollback(s)
      BY <2>8 DEF Undone
  <2> QED BY <1>1, <2>1, <2>2, <2>3, <2>4, <2>5, <2>6, <2>7, <2>8
          DEF Next, CreateListing, CreateOffer, OfferLapses, vars
<1>2. SInv /\ FoundAll /\ [Next]_vars =>
        [\A s \in Sessions :
            Cancelling(s) /\ At(s, "idle")' => sess[s].order \notin active' \/ Undone(s)]_vars
    BY <1>1
<1>3. Init => SInv /\ FoundAll
    BY InitSInv, InitFound
<1>4. SInv /\ FoundAll /\ [Next]_vars => SInv' /\ FoundAll'
    BY NextSInv, NextFound
<1> QED BY <1>2, <1>3, <1>4, PTL DEF Spec, CancelReleases

---------------------------------------------------------------------------
(* One request after the other *)

\* Only the sessions that are explored do anything.
Busy == \A s \in Sessions : At(s, "idle") \/ s \in mix.sessions

\* An offer that was accepted has its one order, another has none.
OrderedOnce == \A f \in Offers :
    IF offer[f].state = "ACCEPTED" THEN \E o \in Orders : OrdersOf(f) = {o} ELSE OrdersOf(f) = {}

\* What a request has read of an offer is still so when it commits.
ReadsWell(s) ==
    /\ sess[s].pc \in {"accept", "acceptCommit"} => offer[sess[s].offer].state = "PENDING"
    /\ sess[s].pc = "answer" => offer[sess[s].offer].state # "ACCEPTED"

AInv == Alone => OrderedOnce /\ \A s \in Sessions : ReadsWell(s)

LInv == Busy /\ AInv

\* What a session finds that is explored alone.
LEMMA OthersIdle ==
    ASSUME Busy, Alone, NEW s \in Sessions, ~At(s, "idle") \/ s \in mix.sessions
    PROVE  \A t \in Sessions \ {s} : At(t, "idle")
BY DEF Busy, Alone, At

\* A step of one session moves no other one.
Moves(s) ==
    /\ mix' = mix
    /\ ~At(s, "idle") \/ s \in mix.sessions
    /\ \A t \in Sessions \ {s} : sess'[t] = sess[t]

LEMMA BusyStays == ASSUME Busy, NEW s \in Sessions, Moves(s) PROVE Busy'
BY DEF Busy, Moves, At

\* The orders that offers have been turned into, and the offers, are left alone.
OffersRest ==
    /\ offer' = offer
    /\ DOMAIN order' = DOMAIN order /\ \A o \in Orders : order'[o].offer = order[o].offer

LEMMA OffersUnmoved ==
    ASSUME Busy, AInv, NEW s \in Sessions, Moves(s), OffersRest, Alone => ReadsWell(s)'
    PROVE  AInv'
<1> SUFFICES ASSUME Alone' PROVE OrderedOnce' /\ \A t \in Sessions : ReadsWell(t)'
    BY DEF AInv
<1>1. Alone
    BY DEF Alone, Moves
<1>2. \A f \in Offers : OrdersOf(f)' = OrdersOf(f)
    BY DEF OrdersOf, OffersRest
<1>3. OrderedOnce'
    BY <1>1, <1>2 DEF AInv, OrderedOnce, OffersRest
<1>4. \A t \in Sessions \ {s} : sess'[t].pc = "idle"
    BY <1>1, OthersIdle DEF Moves, At
<1> QED BY <1>1, <1>3, <1>4 DEF ReadsWell

LEMMA MovesOne ==
    ASSUME SInv, NEW s \in Sessions, NEW r, sess' = [sess EXCEPT ![s] = r], mix' = mix,
           ~At(s, "idle") \/ s \in mix.sessions
    PROVE  Moves(s) /\ sess'[s] = r
BY DEF SInv, TypeOK, Moves

\* A request begins: it reads an offer that it may still answer or accept.
LEMMA BeginAlone ==
    ASSUME SInv, LInv, NEW s \in Sessions, Begin(s)
    PROVE  LInv'
<1> DEFINE Starts(r) ==
        /\ sess' = [sess EXCEPT ![s] = r]
        /\ r.pc \in {"answer", "accept", "draft", "transition", "cancel", "restock", "publish", "edit",
                     "state"}
        /\ r.pc \notin {"answer", "accept"} \/ r.offer \in Offers
        /\ r.pc = "answer" => offer[r.offer].state # "ACCEPTED"
        /\ r.pc = "accept" => offer[r.offer].state = "PENDING"
<1>1. /\ UNCHANGED tables /\ UNCHANGED rollbacks /\ mix' = mix
      /\ At(s, "idle") /\ s \in mix.sessions
    BY DEF Begin, AnswerRead, AcceptRead, DraftRead, TransitionRead, CancelRead, RestockRead,
           PublishLock, EditRead, StateRead, Become, Free
<1>2. ASSUME NEW r, Starts(r) PROVE LInv'
  <2>1. Moves(s) /\ sess'[s] = r
      BY <1>1, <1>2, MovesOne
  <2>2. Busy'
      BY <2>1, BusyStays DEF LInv
  <2>3. ReadsWell(s)'
      BY <1>1, <1>2, <2>1 DEF ReadsWell, tables
  <2>4. AInv'
      BY <1>1, <2>1, <2>3, OffersUnmoved DEF LInv, OffersRest, tables
  <2> QED BY <2>2, <2>4 DEF LInv
<1>3. ASSUME NEW f \in Offers, NEW op \in Answers, AnswerRead(s, f, op) PROVE LInv'
  <2> DEFINE r == [Idle EXCEPT !.pc = "answer", !.offer = f, !.to = op]
  <2>1. sess' = [sess EXCEPT ![s] = r] /\ offer[f].state # "ACCEPTED"
      BY <1>3 DEF AnswerRead, Become, Answerable
  <2>2. r.pc = "answer" /\ r.offer = f
      BY DEF Idle
  <2> HIDE DEF r
  <2> QED BY <1>2, <2>1, <2>2
<1>4. ASSUME NEW f \in Offers, AcceptRead(s, f) PROVE LInv'
  <2> DEFINE r == [Idle EXCEPT !.pc = "accept", !.offer = f, !.listing = offer[f].listing,
                               !.qty = offer[f].qty, !.seen = listing[offer[f].listing]]
  <2>1. sess' = [sess EXCEPT ![s] = r] /\ offer[f].state = "PENDING"
      BY <1>4 DEF AcceptRead, Become, CanAccept
  <2>2. r.pc = "accept" /\ r.offer = f
      BY DEF Idle
  <2> HIDE DEF r
  <2> QED BY <1>2, <2>1, <2>2
<1>5. ASSUME NEW r, sess' = [sess EXCEPT ![s] = r],
             r.pc \in {"draft", "transition", "cancel", "restock", "publish", "edit", "state"}
      PROVE  LInv'
    BY <1>2, <1>5
<1> HIDE DEF Starts
<1>6. ASSUME NEW l \in Listings, NEW q \in 1..MaxQty, DraftRead(s, l, q) PROVE LInv'
    BY <1>5, <1>6 DEF DraftRead, Become, Idle
<1>7. ASSUME NEW o \in Orders, NEW to \in OrderStates, TransitionRead(s, o, to) PROVE LInv'
    BY <1>5, <1>7 DEF TransitionRead, Become, Idle
<1>8. ASSUME NEW o \in Orders, CancelRead(s, o) PROVE LInv'
    BY <1>5, <1>8 DEF CancelRead, Become, Idle
<1>9. ASSUME NEW l \in Listings, NEW q \in 0..MaxQty, RestockRead(s, l, q) PROVE LInv'
    BY <1>5, <1>9 DEF RestockRead, Become, Idle
<1>10. ASSUME NEW l \in Listings, NEW who \in Owners, PublishLock(s, l, who) PROVE LInv'
    BY <1>5, <1>10 DEF PublishLock, Become, Idle
<1>11. ASSUME NEW l \in Listings, NEW cap \in 1..MaxQty, NEW avail \in 1..MaxQty,
              EditRead(s, l, cap, avail)
       PROVE  LInv'
    BY <1>5, <1>11 DEF EditRead, Become, Idle
<1>12. ASSUME NEW l \in Listings, NEW to \in {"ACTIVE", "PAUSED", "CLOSED"}, StateRead(s, l, to)
       PROVE  LInv'
    BY <1>5, <1>12 DEF StateRead, Become, Idle
<1> QED BY <1>3, <1>4, <1>6, <1>7, <1>8, <1>9, <1>10, <1>11, <1>12 DEF Begin

\* Requests go on, or commit, without writing an offer or releasing anything.
LEMMA PlainAlone ==
    ASSUME SInv, LInv, NEW s \in Sessions,
           \/ AcceptReserve(s) \/ DraftFlush(s) \/ DraftShort(s) \/ DraftCommit(s)
           \/ TransitionCommit(s) \/ RestockLock(s) \/ RestockCommit(s) \/ PublishCommit(s)
           \/ UpdateCommit(s)
    PROVE  LInv'
<1>1. /\ mix' = mix /\ rollbacks' = rollbacks /\ offer' = offer
      /\ sess[s].pc \in {"accept", "draft", "draftReserve", "transition", "restock", "restockCommit",
                         "publish", "edit", "state"}
    BY DEF AcceptReserve, DraftFlush, DraftShort, DraftCommit, TransitionCommit, RestockLock,
           RestockCommit, PublishCommit, UpdateCommit, Become, tables, At
<1>2. PICK r : /\ sess' = [sess EXCEPT ![s] = r]
               /\ r.pc \in {"idle", "acceptCommit", "draftReserve", "restockCommit"}
               /\ r.pc = "acceptCommit" => sess[s].pc = "accept" /\ r.offer = sess[s].offer
  <2>1. sess[s] \in RequestType
      BY DEF SInv, TypeOK
  <2>2. CASE AcceptReserve(s)
    <3> DEFINE n == [sess[s] EXCEPT !.pc = "acceptCommit", !.locked = Candidates,
                                    !.take = Take(sess[s].qty), !.base = Reserved]
    <3>1. n.pc = "acceptCommit" /\ n.offer = sess[s].offer
        BY <2>1 DEF RequestType
    <3>2. /\ sess[s].pc = "accept"
          /\ sess' = [sess EXCEPT ![s] = n] \/ sess' = [sess EXCEPT ![s] = Idle]
        BY <2>2 DEF AcceptReserve, Become, At
    <3>3. Idle.pc = "idle"
        BY DEF Idle
    <3> HIDE DEF n
    <3> QED BY <3>1, <3>2, <3>3
  <2>3. CASE DraftFlush(s)
    <3> DEFINE n == [sess[s] EXCEPT !.pc = "draftReserve"]
    <3>1. n.pc = "draftReserve" /\ sess' = [sess EXCEPT ![s] = n]
        BY <2>1, <2>3 DEF DraftFlush, Become, RequestType
    <3> HIDE DEF n
    <3> QED BY <3>1
  <2>4. CASE RestockLock(s)
    <3> DEFINE n == [sess[s] EXCEPT !.pc = "restockCommit", !.locked = WantedBatches(s)]
    <3>1. /\ n.pc = "restockCommit" /\ Idle.pc = "idle"
          /\ sess' = [sess EXCEPT ![s] = n] \/ sess' = [sess EXCEPT ![s] = Idle]
        BY <2>1, <2>4 DEF RestockLock, Become, RequestType, Idle
    <3> HIDE DEF n
    <3> QED BY <3>1
  <2>5. CASE ~AcceptReserve(s) /\ ~DraftFlush(s) /\ ~RestockLock(s)
    <3>1. sess' = [sess EXCEPT ![s] = Idle]
        BY <2>5 DEF DraftShort, DraftCommit, TransitionCommit, RestockCommit, PublishCommit,
                    UpdateCommit, Become
    <3>2. Idle.pc = "idle"
        BY DEF Idle
    <3> QED BY <3>1, <3>2
  <2> QED BY <2>2, <2>3, <2>4, <2>5
<1>3. Moves(s) /\ sess'[s] = r
    BY <1>1, <1>2, MovesOne DEF At
<1>4. Busy'
    BY <1>3, BusyStays DEF LInv
<1>5. OffersRest
  <2>1. CASE TransitionCommit(s)
      BY <1>1, <2>1 DEF TransitionCommit, OffersRest, SInv, TypeOK, TablesType, OrderType
  <2>2. CASE DraftCommit(s)
    <3> DEFINE o == Min(NewOrders)
               row == [state |-> "PAYMENT_PENDING", listing |-> sess[s].listing,
                       qty |-> sess[s].qty, offer |-> 0]
    <3>1. NewOrders # {} /\ order' = [order EXCEPT ![o] = row]
        BY <2>2 DEF DraftCommit, PlaceOrder
    <3>2. o \in Orders /\ order[o].offer = 0
      <4>1. o \in NewOrders
          BY <3>1, FirstIsFree, StockAssumption DEF NewOrders, Orders
      <4> QED BY <4>1 DEF NewOrders, SInv, TablesOK, OrdersOK
    <3>3. row.offer = 0
        OBVIOUS
    <3> HIDE DEF o, row
    <3> QED BY <1>1, <3>1, <3>2, <3>3 DEF OffersRest, SInv, TypeOK, TablesType
  <2>3. CASE ~TransitionCommit(s) /\ ~DraftCommit(s)
    <3>1. order' = order
        BY <2>3 DEF AcceptReserve, DraftFlush, DraftShort, RestockLock, RestockCommit, PublishCommit,
                    UpdateCommit, tables
    <3> QED BY <1>1, <3>1 DEF OffersRest
  <2> QED BY <2>1, <2>2, <2>3
<1>6. Alone => ReadsWell(s)'
  <2>1. Alone => ReadsWell(s)
      BY DEF LInv, AInv
  <2> QED BY <1>1, <1>2, <1>3, <2>1 DEF ReadsWell
<1>7. AInv'
    BY <1>3, <1>5, <1>6, OffersUnmoved DEF LInv
<1> QED BY <1>4, <1>7 DEF LInv

\* An answer closes an offer that no order was made of.
LEMMA AnswerAlone ==
    ASSUME SInv, LInv, NEW s \in Sessions, AnswerCommit(s)
    PROVE  LInv'
<1> DEFINE f == sess[s].offer
           g == Min(NewOffers)
           child == [offer[f] EXCEPT !.state = "PENDING", !.parent = f]
<1>1. /\ f \in Offers /\ sess[s].pc = "answer" /\ order' = order
      /\ sess' = [sess EXCEPT ![s] = Idle] /\ mix' = mix /\ rollbacks' = rollbacks /\ active' = active
    BY DEF AnswerCommit, SInv, RequestOK, At, Become
<1>2. Moves(s) /\ sess'[s] = Idle /\ Idle.pc = "idle"
    BY <1>1, MovesOne DEF At, Idle
<1>3. Busy'
    BY <1>2, BusyStays DEF LInv
<1>4. PICK closed \in {"COUNTERED", "REJECTED", "WITHDRAWN"} :
        \/ offer' = [offer EXCEPT ![f].state = closed]
        \/ NewOffers # {} /\ offer' = [offer EXCEPT ![f].state = closed, ![g] = child]
  <2>1. CASE sess[s].to = "counter"
      BY <2>1 DEF AnswerCommit
  <2>2. CASE sess[s].to = "reject"
      BY <2>2 DEF AnswerCommit
  <2>3. CASE sess[s].to \notin {"counter", "reject"}
      BY <2>3 DEF AnswerCommit
  <2> QED BY <2>1, <2>2, <2>3
<1>5. NewOffers # {} => g \in Offers /\ offer[g].state = "NONE"
  <2>1. NewOffers # {} => g \in NewOffers
      BY FirstIsFree, StockAssumption DEF NewOffers, Offers
  <2> QED BY <2>1 DEF NewOffers
<1>6. offer \in [Offers -> OfferType] /\ child.state = "PENDING"
    BY <1>1 DEF SInv, TypeOK, TablesType, OfferType
<1> HIDE DEF f, g, child
<1>7. AInv'
  <2> SUFFICES ASSUME Alone' PROVE OrderedOnce' /\ \A t \in Sessions : ReadsWell(t)'
      BY DEF AInv
  <2>1. Alone
      BY <1>1 DEF Alone
  <2>2. OrderedOnce /\ offer[f].state # "ACCEPTED"
      BY <1>1, <2>1 DEF LInv, AInv, ReadsWell, f
  <2>3. \A h \in Offers : offer'[h].state = "ACCEPTED" <=> offer[h].state = "ACCEPTED"
    <3>1. CASE offer' = [offer EXCEPT ![f].state = closed]
        BY <1>1, <1>6, <2>2, <3>1 DEF OfferType
    <3>2. CASE NewOffers # {} /\ offer' = [offer EXCEPT ![f].state = closed, ![g] = child]
        BY <1>1, <1>5, <1>6, <2>2, <3>2 DEF OfferType
    <3> QED BY <1>4, <3>1, <3>2
  <2>4. \A h \in Offers : OrdersOf(h)' = OrdersOf(h)
      BY <1>1 DEF OrdersOf
  <2>5. OrderedOnce'
      BY <2>2, <2>3, <2>4 DEF OrderedOnce
  <2>6. \A t \in Sessions : sess'[t].pc = "idle"
      BY <1>1, <1>2, <2>1, OthersIdle DEF LInv, Moves, At
  <2> QED BY <2>5, <2>6 DEF ReadsWell
<1> QED BY <1>3, <1>7 DEF LInv

\* An offer that is accepted was pending, and had no order.
LEMMA AcceptAlone ==
    ASSUME SInv, LInv, NEW s \in Sessions, AcceptCommit(s)
    PROVE  LInv'
<1> DEFINE r == sess[s]
           o == Min(NewOrders)
           row == [state |-> "ACCEPTED", listing |-> r.listing, qty |-> r.qty, offer |-> r.offer]
<1>1. /\ r.pc = "acceptCommit" /\ NewOrders # {} /\ order' = [order EXCEPT ![o] = row]
      /\ active' = active \cup {o} /\ offer' = [offer EXCEPT ![r.offer].state = "ACCEPTED"]
      /\ sess' = [sess EXCEPT ![s] = Idle] /\ mix' = mix /\ rollbacks' = rollbacks
    BY DEF AcceptCommit, PlaceOrder, Become, At
<1>2. Moves(s) /\ sess'[s] = Idle /\ Idle.pc = "idle"
    BY <1>1, MovesOne DEF At, Idle
<1>3. Busy'
    BY <1>2, BusyStays DEF LInv
<1>4. o \in Orders /\ order[o].offer = 0
  <2>1. o \in NewOrders
      BY <1>1, FirstIsFree, StockAssumption DEF NewOrders, Orders
  <2> QED BY <2>1 DEF NewOrders, SInv, TablesOK, OrdersOK
<1>5. r.offer \in Offers
    BY <1>1 DEF SInv, RequestOK
<1>6. row.offer = r.offer /\ row.state = "ACCEPTED"
    OBVIOUS
<1> HIDE DEF o, row
<1>7. \A p \in Orders : order'[p] = IF p = o THEN row ELSE order[p]
    BY <1>1, <1>4 DEF SInv, TypeOK, TablesType
<1>8. AInv'
  <2> SUFFICES ASSUME Alone' PROVE OrderedOnce' /\ \A t \in Sessions : ReadsWell(t)'
      BY DEF AInv
  <2>1. Alone
      BY <1>1 DEF Alone
  <2>2. OrderedOnce /\ offer[r.offer].state = "PENDING"
      BY <1>1, <2>1 DEF LInv, AInv, ReadsWell
  <2>3. OrdersOf(r.offer) = {}
      BY <1>5, <2>2 DEF OrderedOnce
  <2> DEFINE x == r.offer
  <2> HIDE DEF r, x
  <2>4. {p \in Orders : order'[p].offer = x} = {o}
    <3>1. \A p \in Orders : order[p].offer # x
        BY <2>3 DEF OrdersOf, x
    <3> QED BY <1>4, <1>6, <1>7, <3>1 DEF x
  <2>5. ASSUME NEW h \in Offers, h # x PROVE {p \in Orders : order'[p].offer = h} = OrdersOf(h)
    <3>1. h # 0
        BY StockAssumption DEF Offers
    <3> QED BY <1>4, <1>6, <1>7, <2>5, <3>1 DEF OrdersOf, x
  <2>6. \A h \in Offers : offer'[h].state = IF h = x THEN "ACCEPTED" ELSE offer[h].state
      BY <1>1, <1>5 DEF SInv, TypeOK, TablesType, OfferType, x
  <2>7. OrderedOnce'
      BY <1>4, <2>2, <2>4, <2>5, <2>6 DEF OrderedOnce, OrdersOf
  <2>8. \A t \in Sessions : sess'[t].pc = "idle"
      BY <1>1, <1>2, <2>1, OthersIdle DEF LInv, Moves, At, r
  <2> QED BY <2>7, <2>8 DEF ReadsWell
<1> QED BY <1>3, <1>8 DEF LInv

\* The order becomes CANCELLED, and the session has found whether anything is to be released.
LEMMA CancelAlone ==
    ASSUME SInv, LInv, NEW s \in Sessions, CancelCommit(s)
    PROVE  LInv'
<1> DEFINE n == [sess[s] EXCEPT !.pc = "release", !.found = sess[s].order \in active]
<1>1. /\ sess[s].pc = "cancel" /\ sess[s].order \in Orders
      /\ order' = [order EXCEPT ![sess[s].order].state = "CANCELLED"]
      /\ sess' = [sess EXCEPT ![s] = n] /\ mix' = mix
      /\ UNCHANGED <<listing, offer, active, rollbacks>>
    BY DEF CancelCommit, Become, At, SInv, RequestOK
<1>2. n.pc = "release" /\ n.order = sess[s].order /\ (n.order \in active => n.found)
    BY DEF SInv, TypeOK, RequestType
<1> HIDE DEF n
<1>3. Moves(s) /\ sess'[s] = n
    BY <1>1, MovesOne DEF At
<1>4. Busy'
    BY <1>3, BusyStays DEF LInv
<1>5. AInv'
  <2>1. OffersRest
      BY <1>1 DEF OffersRest, SInv, TypeOK, TablesType, OrderType
  <2>2. ReadsWell(s)'
      BY <1>2, <1>3 DEF ReadsWell
  <2> QED BY <1>3, <2>1, <2>2, OffersUnmoved DEF LInv
<1> QED BY <1>4, <1>5 DEF LInv

\* The listing is read as the locks are taken.
LEMMA ReleaseAlone ==
    ASSUME SInv, LInv, NEW s \in Sessions, ReleaseLock(s)
    PROVE  LInv'
<1> DEFINE n == [sess[s] EXCEPT !.pc = "restore", !.locked = WantedBatches(s),
                                !.seen = listing[sess[s].listing]]
<1>1. /\ sess[s].pc = "release" /\ sess' = [sess EXCEPT ![s] = n] /\ mix' = mix
      /\ UNCHANGED tables /\ UNCHANGED rollbacks
    BY DEF ReleaseLock, Become, At
<1>2. /\ n.pc = "restore" /\ n.order = sess[s].order /\ n.found = sess[s].found
      /\ n.seen = listing[n.listing]
    BY DEF SInv, TypeOK, RequestType
<1> HIDE DEF n
<1>3. Moves(s) /\ sess'[s] = n
    BY <1>1, MovesOne DEF At
<1>4. Busy'
    BY <1>3, BusyStays DEF LInv
<1>5. AInv'
  <2>1. OffersRest /\ ReadsWell(s)'
      BY <1>1, <1>2, <1>3 DEF OffersRest, ReadsWell, tables
  <2> QED BY <1>3, <2>1, OffersUnmoved DEF LInv
<1> QED BY <1>4, <1>5 DEF LInv

\* The release commits: a session that is alone has found the reservations that are there.
LEMMA RestoreAlone ==
    ASSUME SInv, LInv, NEW s \in Sessions, RestoreCommit(s)
    PROVE  LInv'
<1> DEFINE r == sess[s]
<1>1. /\ r.pc = "restore" /\ sess' = [sess EXCEPT ![s] = Idle] /\ mix' = mix
      /\ active' = IF r.found THEN active \ {r.order} ELSE active
      /\ UNCHANGED <<order, offer, rollbacks>>
    BY DEF RestoreCommit, Become, At
<1>2. Moves(s) /\ sess'[s] = Idle /\ Idle.pc = "idle"
    BY <1>1, MovesOne DEF At, Idle
<1>3. Busy'
    BY <1>2, BusyStays DEF LInv
<1>4. AInv'
  <2>1. OffersRest /\ ReadsWell(s)'
      BY <1>1, <1>2 DEF OffersRest, ReadsWell
  <2> QED BY <1>2, <2>1, OffersUnmoved DEF LInv
<1> QED BY <1>3, <1>4 DEF LInv

\* A session that is alone is not refused what it restores, nor made a deadlock's victim.
LEMMA GivesUpAlone ==
    ASSUME SInv, LInv, NEW s \in Sessions, CheckRefuses(s) \/ DeadlockVictim(s) \/ Rollback(s)
    PROVE  LInv'
<1>1. /\ sess' = [sess EXCEPT ![s] = Idle] /\ mix' = mix /\ UNCHANGED tables
      /\ rollbacks \in Nat /\ rollbacks' \in {rollbacks, rollbacks + 1}
    BY DEF CheckRefuses, DeadlockVictim, Rollback, Become, SInv, TypeOK
<1>2. ~At(s, "idle")
  <2>1. ASSUME At(s, "idle"), NEW t \in Sessions PROVE ~Waits(t, s)
    <3>1. sess[s].locked = {} /\ LockedListings(s) = {}
        BY <2>1 DEF SInv, RequestOK, At, LockedListings
    <3> QED BY <3>1 DEF Waits
  <2> QED BY <2>1 DEF CheckRefuses, DeadlockVictim, Rollback, At
<1>3. Moves(s) /\ sess'[s] = Idle /\ Idle.pc = "idle"
    BY <1>1, <1>2, MovesOne DEF Idle
<1>4. Busy'
    BY <1>3, BusyStays DEF LInv
<1>5. AInv'
  <2>1. OffersRest /\ ReadsWell(s)'
      BY <1>1, <1>3 DEF OffersRest, ReadsWell, tables
  <2> QED BY <1>3, <2>1, OffersUnmoved DEF LInv
<1> QED BY <1>4, <1>5 DEF LInv

\* What no session does: a new offer has no order, and a new listing nobody is at.
LEMMA OthersAlone ==
    ASSUME SInv, LInv,
           \/ \E l \in Listings, q \in 1..MaxQty, state \in {"DRAFT", "ACTIVE"} :
                 CreateListing(l, q, state)
           \/ \E l \in Listings, q \in 1..MaxQty : CreateOffer(l, q)
           \/ \E f \in Offers : OfferLapses(f)
           \/ UNCHANGED vars
    PROVE  LInv'
<1>1. /\ mix' = mix /\ order' = order /\ active' = active /\ sess' = sess /\ rollbacks' = rollbacks
    BY DEF CreateListing, CreateOffer, OfferLapses, vars, tables
<1>2. /\ \A f \in Offers : offer[f].state # "NONE" => offer'[f] = offer[f]
      /\ \A f \in Offers : offer'[f].state = "ACCEPTED" => offer[f].state = "ACCEPTED"
  <2>1. ASSUME NEW l \in Listings, NEW q \in 1..MaxQty, CreateOffer(l, q)
        PROVE  /\ \A f \in Offers : offer[f].state # "NONE" => offer'[f] = offer[f]
               /\ \A f \in Offers : offer'[f].state = "ACCEPTED" => offer[f].state = "ACCEPTED"
    <3> DEFINE g == Min(NewOffers)
               row == [state |-> "PENDING", listing |-> l, qty |-> q, parent |-> 0]
    <3>1. offer' = [offer EXCEPT ![g] = row] /\ NewOffers # {} /\ row.state = "PENDING"
        BY <2>1 DEF CreateOffer
    <3>2. g \in Offers /\ offer[g].state = "NONE"
      <4>1. g \in NewOffers
          BY <3>1, FirstIsFree, StockAssumption DEF NewOffers, Offers
      <4> QED BY <4>1 DEF NewOffers
    <3> HIDE DEF g, row
    <3> QED BY <3>1, <3>2 DEF SInv, TypeOK, TablesType
  <2>2. CASE ~\E l \in Listings, q \in 1..MaxQty : CreateOffer(l, q)
    <3>1. offer' = offer
        BY <2>2 DEF CreateListing, OfferLapses, vars, tables
    <3> QED BY <3>1
  <2> QED BY <2>1, <2>2
<1>3. \A l \in Listings : listing[l].state # "NONE" => listing'[l] = listing[l]
  <2>1. ASSUME NEW l \in Listings, NEW q \in 1..MaxQty, NEW state \in {"DRAFT", "ACTIVE"},
               CreateListing(l, q, state)
        PROVE  \A m \in Listings : listing[m].state # "NONE" => listing'[m] = listing[m]
      BY <2>1 DEF CreateListing, SInv, TypeOK, TablesType
  <2>2. CASE \/ \E l \in Listings, q \in 1..MaxQty : CreateOffer(l, q)
             \/ \E f \in Offers : OfferLapses(f)
             \/ UNCHANGED vars
    <3>1. listing' = listing
        BY <2>2 DEF CreateOffer, OfferLapses, vars, tables
    <3> QED BY <3>1
  <2> QED BY <2>1, <2>2
<1>4. Busy'
    BY <1>1 DEF LInv, Busy, At
<1>5. AInv'
  <2> SUFFICES ASSUME Alone' PROVE OrderedOnce' /\ \A t \in Sessions : ReadsWell(t)'
      BY DEF AInv
  <2>1. OrderedOnce /\ \A t \in Sessions : ReadsWell(t)
      BY <1>1 DEF LInv, AInv, Alone
  <2>2. \A f \in Offers : OrdersOf(f)' = OrdersOf(f)
      BY <1>1 DEF OrdersOf
  <2>3. \A f \in Offers : offer'[f].state = "ACCEPTED" <=> offer[f].state = "ACCEPTED"
      BY <1>2
  <2>4. OrderedOnce'
      BY <2>1, <2>2, <2>3 DEF OrderedOnce
  <2>5. ASSUME NEW t \in Sessions PROVE ReadsWell(t)'
    <3>1. sess[t].pc \in {"accept", "acceptCommit", "answer"} =>
              sess[t].offer \in Offers /\ offer[sess[t].offer].state # "NONE"
        BY DEF SInv, RequestOK
    <3> QED BY <1>1, <1>2, <2>1, <3>1 DEF ReadsWell
  <2> QED BY <2>4, <2>5
<1> QED BY <1>4, <1>5 DEF LInv

LEMMA InitAlone == Init => LInv
<1> SUFFICES ASSUME Init PROVE LInv
    OBVIOUS
<1>1. \A s \in Sessions : sess[s].pc = "idle"
    BY DEF Init, Idle
<1>2. \A f \in Offers : offer[f].state = "NONE" /\ OrdersOf(f) = {}
  <2>1. \A f \in Offers : f # 0
      BY StockAssumption DEF Offers
  <2>2. \A o \in Orders : order[o].offer = 0
      BY DEF Init
  <2> QED BY <2>1, <2>2 DEF Init, OrdersOf
<1>3. Busy /\ AInv
    BY <1>1, <1>2 DEF Busy, AInv, OrderedOnce, ReadsWell, At
<1> QED BY <1>3 DEF LInv

LEMMA NextAlone == SInv /\ LInv /\ [Next]_vars => LInv'
<1> SUFFICES ASSUME SInv, LInv, [Next]_vars PROVE LInv'
    OBVIOUS
<1>1. ASSUME NEW s \in Sessions, Continue(s) \/ Rollback(s) PROVE LInv'
    BY <1>1, PlainAlone, AnswerAlone, AcceptAlone, CancelAlone, ReleaseAlone, RestoreAlone,
       GivesUpAlone DEF Continue
<1> QED BY <1>1, BeginAlone, OthersAlone DEF Next

\* While requests come one after the other, an offer is ACCEPTED exactly when one order was
\* made of it, whatever is countered, rejected, withdrawn or rolled back in between
\* (accept_offer, counter_offer, reject_offer and withdraw_offer).
THEOREM OneOrderEach == Spec => []AcceptedIsOrdered
<1>1. LInv => AcceptedIsOrdered
  <2> SUFFICES ASSUME LInv, Alone, NEW f \in Offers
               PROVE  Cardinality(OrdersOf(f)) = IF offer[f].state = "ACCEPTED" THEN 1 ELSE 0
      BY DEF AcceptedIsOrdered
  <2>1. IF offer[f].state = "ACCEPTED" THEN \E o \in Orders : OrdersOf(f) = {o} ELSE OrdersOf(f) = {}
      BY DEF LInv, AInv, OrderedOnce
  <2> QED BY <2>1, FS_Singleton, FS_EmptySet
<1>2. Init => SInv /\ LInv
    BY InitSInv, InitAlone
<1>3. SInv /\ LInv /\ [Next]_vars => SInv' /\ LInv'
    BY NextSInv, NextAlone
<1> QED BY <1>1, <1>2, <1>3, PTL DEF Spec

=============================================================================
