---------------------------- MODULE Settlement ----------------------------
(***************************************************************************)
(* Payment of an order: payment_service, wallet_service and the part of     *)
(* order_service they call.  A web session handles one request at a time;   *)
(* its database reads are unlocked READ COMMITTED snapshots, its writes     *)
(* take row locks that last until the transaction commits.  A session's     *)
(* pc says which rows it has written and not committed yet:                 *)
(*    "seller"  payment transaction row, and the order row if it saw the    *)
(*              order PAYMENT_PENDING                                       *)
(*    "sink"    those and the seller's wallet row                           *)
(* The payment provider is external: it settles charges and delivers its    *)
(* notices at least once, in any order.                                     *)
(***************************************************************************)
EXTENDS OrderRules, Integers, FiniteSetsExt

CONSTANTS
    Orders, Txns, Sessions,
    SellerOf,            \* [Orders -> users]
    FeeSink,             \* PLATFORM_FEE_SINK_USER_ID
    Net, Fee,            \* [Orders -> amounts], total minus fee and the fee
    Copies,              \* bound: distinct notices the provider sends, per report
    ReferenceIsEventId,  \* MTN MoMo: the event id is the payment reference
    Faults,              \* what the environment may do, see FaultKinds
    PartyTargets,        \* bound: the order states parties move orders to
    MaxRollbacks,        \* bound: failed database transactions
    None

\* What verify_webhook can return for a notice; PROCESSING stands for IGNORED too.
Reports == {"SUCCEEDED", "FAILED", "REFUNDED", "PROCESSING"}
FaultKinds == {"early_webhook", "bad_secret"}

ASSUME SettlementAssumption ==
    /\ Net \in [Orders -> Nat] /\ Fee \in [Orders -> Nat]
    /\ FeeSink \notin {SellerOf[o] : o \in Orders}
    /\ Copies \in [Reports -> Nat] /\ MaxRollbacks \in Nat
    /\ ReferenceIsEventId \in BOOLEAN /\ Faults \subseteq FaultKinds
    /\ PartyTargets \subseteq OrderStates
    /\ None \notin Orders /\ None \notin Txns

VARIABLES
    order,      \* orders.state
    txnState,   \* payment_transactions.state, "NONE" while there is no row
    txnOrder,   \* payment_transactions.order_id
    keyed,      \* the row holding idempotency_key payinit:{order}:{buyer}
    charge,     \* the provider's own view of a payment reference
    sent,       \* notices the provider has issued; it redelivers them forever
    events,     \* payment_webhook_events, by event id
    ledger,     \* idempotency keys of wallet_ledger_entries
    balance,    \* wallets.available_balance_minor
    sess,       \* what each web session is doing
    rollbacks

vars == <<order, txnState, txnOrder, keyed, charge, sent, events, ledger,
          balance, sess, rollbacks>>
db == <<order, txnState, txnOrder, keyed, events, ledger, balance>>

---------------------------------------------------------------------------
Wallets == {SellerOf[o] : o \in Orders} \cup {FeeSink}
TxnStates == {"NONE", "PENDING_PROVIDER", "SUCCEEDED", "FAILED", "REFUNDED"}
ChargeStates == {"none", "open", "SUCCEEDED", "FAILED", "REFUNDED"}

Notices == UNION {[txn : Txns, report : {r}, copy : 1..Copies[r]] : r \in Reports}
EventId(n) == IF ReferenceIsEventId THEN n.txn ELSE n
EventIds == {EventId(n) : n \in Notices}
EventStates == {"none", "unsigned", "unmatched", "stored", "processed"}

\* The ledger keys order:{id}:settlement:{txn}:net and order:{id}:fee:{txn}:fee.
NetKey(t) == <<t, "net">>
FeeKey(t) == <<t, "fee">>
LedgerKeys == Txns \X {"net", "fee"}
Settled(t) == NetKey(t) \in ledger

Idle == [pc |-> "idle", ord |-> None, txn |-> None, notice |-> None,
         seenOrder |-> None, seenTxn |-> None, target |-> None,
         seenSeller |-> 0, seenSink |-> 0]
At(s, pc) == sess[s].pc = pc
Become(s, r) == sess' = [sess EXCEPT ![s] = r]

\* Rows a session has written in its open transaction.
HoldsTxn(s, t) == sess[s].pc \in {"seller", "sink"} /\ sess[s].txn = t
HoldsOrder(s, o) == /\ sess[s].pc \in {"seller", "sink"}
                    /\ sess[s].ord = o /\ sess[s].seenOrder = "PAYMENT_PENDING"
HoldsWallet(s, w) == /\ sess[s].pc = "sink" /\ ~Settled(sess[s].txn)
                     /\ w = SellerOf[sess[s].ord]
HoldsEvent(s, e) == /\ sess[s].pc \in {"apply", "seller", "sink"}
                    /\ EventId(sess[s].notice) = e

TxnFree(s, t) == \A s2 \in Sessions \ {s} : ~HoldsTxn(s2, t)
OrderFree(s, o) == \A s2 \in Sessions \ {s} : ~HoldsOrder(s2, o)
WalletFree(s, w) == \A s2 \in Sessions \ {s} : ~HoldsWallet(s2, w)
EventFree(s, e) == \A s2 \in Sessions \ {s} : ~HoldsEvent(s2, e)

Init ==
    /\ order \in [Orders -> {"ACCEPTED", "PAYMENT_PENDING"}]
    /\ txnState = [t \in Txns |-> "NONE"]
    /\ txnOrder = [t \in Txns |-> None]
    /\ keyed = [o \in Orders |-> None]
    /\ charge = [t \in Txns |-> "none"]
    /\ sent = {}
    /\ events = [e \in EventIds |-> "none"]
    /\ ledger = {}
    /\ balance = [w \in Wallets |-> 0]
    /\ sess = [s \in Sessions |-> Idle]
    /\ rollbacks = 0

---------------------------------------------------------------------------
(* initiate_payment *)

\* Bound: a reference is left for every request that may ask the provider for one.
ReferenceLeft ==
    Cardinality({s \in Sessions : At(s, "keyLookup")}) < Cardinality({t \in Txns : charge[t] = "none"})

\* The buyer's request reads the order.
InitiateRead(s, o) ==
    /\ At(s, "idle") /\ ReferenceLeft
    /\ order[o] \in {"ACCEPTED", "PAYMENT_PENDING"}
    /\ Become(s, [Idle EXCEPT !.pc = "keyLookup", !.ord = o, !.seenOrder = order[o]])
    /\ UNCHANGED <<db, charge, sent, rollbacks>>

\* A transaction holds the key and has not failed.
HasLive(o) == keyed[o] # None /\ txnState[keyed[o]] # "FAILED"

\* It is returned as is.
InitiateReturnsExisting(s) ==
    /\ At(s, "keyLookup") /\ HasLive(sess[s].ord)
    /\ Become(s, Idle)
    /\ UNCHANGED <<db, charge, sent, rollbacks>>

\* No key or a failed transaction: the provider opens charge t.
InitiateCharge(s, t) ==
    /\ At(s, "keyLookup") /\ ~HasLive(sess[s].ord)
    /\ charge[t] = "none"
    /\ charge' = [charge EXCEPT ![t] = "open"]
    /\ Become(s, [sess[s] EXCEPT !.pc = "store", !.txn = t,
                                 !.target = keyed[sess[s].ord]])
    /\ UNCHANGED <<db, sent, rollbacks>>

\* Mutant: a retry may start from any state the buyer may pay in.
CanStore_Retry(s) == TRUE

\* The row is inserted (with the key only when none existed) and transition_order
\* moves the order from the state that was read to PAYMENT_PENDING.
CanStore(s) ==
    /\ Accepts("buyer", sess[s].seenOrder, "PAYMENT_PENDING")
    /\ sess[s].target = None => keyed[sess[s].ord] = None

InitiateStore(s) ==
    LET o == sess[s].ord  t == sess[s].txn IN
    /\ At(s, "store")
    /\ CanStore(s) /\ OrderFree(s, o)
    /\ txnState' = [txnState EXCEPT ![t] = "PENDING_PROVIDER"]
    /\ txnOrder' = [txnOrder EXCEPT ![t] = o]
    /\ keyed' = IF sess[s].target = None THEN [keyed EXCEPT ![o] = t] ELSE keyed
    /\ order' = [order EXCEPT ![o] = "PAYMENT_PENDING"]
    /\ Become(s, Idle)
    /\ UNCHANGED <<events, ledger, balance, charge, sent, rollbacks>>

\* The order's edge or the unique key refuses; the charge stays at the provider.
InitiateRefused(s) ==
    /\ At(s, "store") /\ ~CanStore(s)
    /\ Become(s, Idle)
    /\ UNCHANGED <<db, charge, sent, rollbacks>>

---------------------------------------------------------------------------
(* The payment provider (external). *)

ChargeMoves == {<<"open", "SUCCEEDED">>, <<"open", "FAILED">>,
                <<"FAILED", "SUCCEEDED">>, <<"SUCCEEDED", "REFUNDED">>}

ProviderDecides(t, r) ==
    /\ <<charge[t], r>> \in ChargeMoves /\ Copies[r] > 0
    /\ charge' = [charge EXCEPT ![t] = r]
    /\ sent' = sent \cup {[txn |-> t, report |-> r, copy |-> 1]}
    /\ UNCHANGED <<db, sess, rollbacks>>

\* The same fact in a second notice, or a report that nothing is decided yet.
ProviderRepeats(t, r, c) ==
    /\ \/ r = charge[t] /\ r \in Reports
       \/ r = "PROCESSING" /\ charge[t] = "open"
    /\ sent' = sent \cup {[txn |-> t, report |-> r, copy |-> c]}
    /\ UNCHANGED <<db, charge, sess, rollbacks>>

\* An unpaid charge no row was stored for lapses with its notices; its reference
\* is free to stand for a new charge.
ProviderLapses(t) ==
    /\ charge[t] \in {"open", "FAILED"} /\ txnOrder[t] = None
    /\ \A s \in Sessions : ~(At(s, "store") /\ sess[s].txn = t)
    /\ charge' = [charge EXCEPT ![t] = "none"]
    /\ sent' = {n \in sent : n.txn # t}
    /\ UNCHANGED <<db, sess, rollbacks>>

---------------------------------------------------------------------------
(* process_webhook and _apply_payment_state *)

\* The deduplication query finds no event (a found one answers "duplicate" and
\* changes nothing).
ReceiveWebhook(s, n) ==
    /\ At(s, "idle")
    /\ n \in sent /\ events[EventId(n)] = "none"
    /\ "early_webhook" \in Faults \/ txnOrder[n.txn] # None
    /\ Become(s, [Idle EXCEPT !.pc = "record", !.notice = n])
    /\ UNCHANGED <<db, charge, sent, rollbacks>>

\* The event was committed by another session since the query: unique violation.
RecordConflict(s) ==
    /\ At(s, "record")
    /\ events[EventId(sess[s].notice)] # "none"
    /\ Become(s, Idle)
    /\ UNCHANGED <<db, charge, sent, rollbacks>>

\* Outcomes that store the event and end the request at once.
ClosingState(n) ==
    IF n.report = "PROCESSING" THEN "processed" ELSE "unmatched"

RecordAndStop(s) ==
    LET n == sess[s].notice  e == EventId(n) IN
    /\ At(s, "record") /\ events[e] = "none" /\ EventFree(s, e)
    /\ \/ /\ "bad_secret" \in Faults
          /\ events' = [events EXCEPT ![e] = "unsigned"]
       \/ /\ n.report = "PROCESSING" \/ txnState[n.txn] = "NONE"
          /\ events' = [events EXCEPT ![e] = ClosingState(n)]
    /\ Become(s, Idle)
    /\ UNCHANGED <<order, txnState, txnOrder, keyed, ledger, balance, charge, sent, rollbacks>>

\* The event row is inserted, transaction and order are read.
RecordAndRead(s) ==
    LET n == sess[s].notice  e == EventId(n)  o == txnOrder[n.txn] IN
    /\ At(s, "record") /\ events[e] = "none" /\ EventFree(s, e)
    /\ n.report # "PROCESSING" /\ txnState[n.txn] # "NONE"
    /\ Become(s, [Idle EXCEPT !.pc = "apply", !.notice = n, !.txn = n.txn, !.ord = o,
                              !.seenTxn = txnState[n.txn], !.seenOrder = order[o]])
    /\ UNCHANGED <<db, charge, sent, rollbacks>>

\* Mutant: a failure report is applied like a success.
Branch_AnyReport(report, seen) ==
    IF report \in {"SUCCEEDED", "FAILED"} /\ seen # "SUCCEEDED" THEN "succeed" ELSE "nothing"

\* Which branch of _apply_payment_state the snapshot selects.
Branch(report, seen) ==
    CASE report = "SUCCEEDED" /\ seen # "SUCCEEDED"                -> "succeed"
      [] report = "FAILED" /\ seen \notin {"SUCCEEDED", "REFUNDED"} -> "fail"
      [] report = "REFUNDED" /\ seen = "SUCCEEDED"                 -> "refund"
      [] OTHER                                                     -> "nothing"
BranchOf(s) == Branch(sess[s].notice.report, sess[s].seenTxn)

ApplyNothing(s) ==
    /\ At(s, "apply") /\ BranchOf(s) = "nothing"
    /\ events' = [events EXCEPT ![EventId(sess[s].notice)] = "processed"]
    /\ Become(s, Idle)
    /\ UNCHANGED <<order, txnState, txnOrder, keyed, ledger, balance, charge, sent, rollbacks>>

\* FAILED and REFUNDED only write the transaction row.  The failure notice to
\* the buyer commits before the event is marked processed.
ApplyFailed(s) ==
    /\ At(s, "apply") /\ BranchOf(s) = "fail" /\ TxnFree(s, sess[s].txn)
    /\ txnState' = [txnState EXCEPT ![sess[s].txn] = "FAILED"]
    /\ events' = [events EXCEPT ![EventId(sess[s].notice)] = "stored"]
    /\ Become(s, [Idle EXCEPT !.pc = "finish", !.notice = sess[s].notice])
    /\ UNCHANGED <<order, txnOrder, keyed, ledger, balance, charge, sent, rollbacks>>

ApplyRefunded(s) ==
    /\ At(s, "apply") /\ BranchOf(s) = "refund" /\ TxnFree(s, sess[s].txn)
    /\ txnState' = [txnState EXCEPT ![sess[s].txn] = "REFUNDED"]
    /\ events' = [events EXCEPT ![EventId(sess[s].notice)] = "processed"]
    /\ Become(s, Idle)
    /\ UNCHANGED <<order, txnOrder, keyed, ledger, balance, charge, sent, rollbacks>>

\* Mutant: order and transaction are committed before the wallets are credited.
SucceedFlush_Commits(s) ==
    LET o == sess[s].ord IN
    /\ At(s, "apply") /\ BranchOf(s) = "succeed"
    /\ TxnFree(s, sess[s].txn)
    /\ sess[s].seenOrder = "PAYMENT_PENDING" => OrderFree(s, o)
    /\ txnState' = [txnState EXCEPT ![sess[s].txn] = "SUCCEEDED"]
    /\ order' = IF sess[s].seenOrder = "PAYMENT_PENDING"
                THEN [order EXCEPT ![o] = "PAID"] ELSE order
    /\ Become(s, [sess[s] EXCEPT !.pc = "seller", !.seenSeller = balance[SellerOf[o]]])
    /\ UNCHANGED <<txnOrder, keyed, events, ledger, balance, charge, sent, rollbacks>>

\* SUCCEEDED: the autoflush writes order and transaction, then post_entry loads
\* the seller's wallet into the identity map before it locks the row.
SucceedFlush(s) ==
    LET o == sess[s].ord IN
    /\ At(s, "apply") /\ BranchOf(s) = "succeed"
    /\ TxnFree(s, sess[s].txn)
    /\ sess[s].seenOrder = "PAYMENT_PENDING" => OrderFree(s, o)
    /\ Become(s, [sess[s] EXCEPT !.pc = "seller", !.seenSeller = balance[SellerOf[o]]])
    /\ UNCHANGED <<db, charge, sent, rollbacks>>

\* The seller's wallet row is locked and written; the sink's wallet is loaded.
\* A ledger entry with the same key makes post_entry return it instead.
CreditSeller(s) ==
    /\ At(s, "seller")
    /\ Settled(sess[s].txn) \/ WalletFree(s, SellerOf[sess[s].ord])
    /\ Become(s, [sess[s] EXCEPT !.pc = "sink", !.seenSink = balance[FeeSink]])
    /\ UNCHANGED <<db, charge, sent, rollbacks>>

\* post_entry refuses a zero amount, which fails the whole webhook.
ZeroFeeRefused(s) ==
    /\ At(s, "sink") /\ Fee[sess[s].ord] = 0
    /\ Become(s, Idle)
    /\ UNCHANGED <<db, charge, sent, rollbacks>>

\* Mutant: the order is advanced whatever state was read.
OrderAfter_Always(s) == [order EXCEPT ![sess[s].ord] = "PAID"]

\* The order advances if the snapshot showed it PAYMENT_PENDING.
OrderAfter(s) ==
    IF sess[s].seenOrder = "PAYMENT_PENDING" THEN [order EXCEPT ![sess[s].ord] = "PAID"] ELSE order

\* Mutants: the seller is credited the total; the ledger key is not looked up, so that
\* a replay adds to the balance again.
BalanceAfter_Gross(s) ==
    LET o == sess[s].ord IN
    IF Settled(sess[s].txn) THEN balance
    ELSE [balance EXCEPT ![SellerOf[o]] = sess[s].seenSeller + Net[o] + Fee[o],
                         ![FeeSink] = sess[s].seenSink + Fee[o]]
BalanceAfter_Replay(s) ==
    LET o == sess[s].ord IN
    [balance EXCEPT ![SellerOf[o]] = @ + Net[o], ![FeeSink] = @ + Fee[o]]

\* The balances that were loaded before the rows were locked, plus the entries.
BalanceAfter(s) ==
    LET o == sess[s].ord IN
    IF Settled(sess[s].txn) THEN balance
    ELSE [balance EXCEPT ![SellerOf[o]] = sess[s].seenSeller + Net[o],
                         ![FeeSink] = sess[s].seenSink + Fee[o]]

\* The fee is entered and the seller's notification commits the transaction.
CommitSuccess(s) ==
    LET t == sess[s].txn IN
    /\ At(s, "sink") /\ Fee[sess[s].ord] # 0
    /\ txnState' = [txnState EXCEPT ![t] = "SUCCEEDED"]
    /\ order' = OrderAfter(s)
    /\ ledger' = ledger \cup {NetKey(t), FeeKey(t)}
    /\ balance' = BalanceAfter(s)
    /\ events' = [events EXCEPT ![EventId(sess[s].notice)] = "stored"]
    /\ Become(s, [Idle EXCEPT !.pc = "finish", !.notice = sess[s].notice])
    /\ UNCHANGED <<txnOrder, keyed, charge, sent, rollbacks>>

\* The second database transaction of a webhook that notified somebody.
MarkProcessed(s) ==
    /\ At(s, "finish")
    /\ events' = [events EXCEPT ![EventId(sess[s].notice)] = "processed"]
    /\ Become(s, Idle)
    /\ UNCHANGED <<order, txnState, txnOrder, keyed, ledger, balance, charge, sent, rollbacks>>

---------------------------------------------------------------------------
(* transition_order called by a party of the order, or cancel_order. *)

TransitionRead(s, o, role, to) ==
    /\ At(s, "idle")
    /\ to \in PartyTargets /\ Accepts(role, order[o], to)
    /\ Become(s, [Idle EXCEPT !.pc = "transition", !.ord = o, !.target = to])
    /\ UNCHANGED <<db, charge, sent, rollbacks>>

TransitionCommit(s) ==
    LET o == sess[s].ord IN
    /\ At(s, "transition") /\ OrderFree(s, o)
    /\ order' = [order EXCEPT ![o] = sess[s].target]
    /\ Become(s, Idle)
    /\ UNCHANGED <<txnState, txnOrder, keyed, events, ledger, balance, charge, sent, rollbacks>>

\* Mutant: the event row is committed on its own, before its effects.
Rollback_EventKept(s) ==
    /\ ~At(s, "idle") /\ rollbacks < MaxRollbacks
    /\ Become(s, Idle)
    /\ events' = IF At(s, "sink") THEN [events EXCEPT ![EventId(sess[s].notice)] = "stored"]
                 ELSE events
    /\ rollbacks' = rollbacks + 1
    /\ UNCHANGED <<order, txnState, txnOrder, keyed, ledger, balance, charge, sent>>

\* A worker dies or its transaction fails: what it did not commit is gone.
Rollback(s) ==
    /\ ~At(s, "idle") /\ rollbacks < MaxRollbacks
    /\ Become(s, Idle)
    /\ rollbacks' = rollbacks + 1
    /\ UNCHANGED <<db, charge, sent>>

---------------------------------------------------------------------------
Continue(s) ==
    \/ InitiateReturnsExisting(s)
    \/ \E t \in Txns : InitiateCharge(s, t)
    \/ InitiateStore(s)
    \/ InitiateRefused(s)
    \/ RecordConflict(s)
    \/ RecordAndStop(s)
    \/ RecordAndRead(s)
    \/ ApplyNothing(s)
    \/ ApplyFailed(s)
    \/ ApplyRefunded(s)
    \/ SucceedFlush(s)
    \/ CreditSeller(s)
    \/ ZeroFeeRefused(s)
    \/ CommitSuccess(s)
    \/ MarkProcessed(s)
    \/ TransitionCommit(s)

Next ==
    \/ \E s \in Sessions, o \in Orders : InitiateRead(s, o)
    \/ \E s \in Sessions, n \in Notices : ReceiveWebhook(s, n)
    \/ \E s \in Sessions, o \in Orders, role \in Roles, to \in OrderStates :
          TransitionRead(s, o, role, to)
    \/ \E s \in Sessions : Continue(s) \/ Rollback(s)
    \/ \E t \in Txns, r \in Reports : ProviderDecides(t, r)
    \/ \E t \in Txns : ProviderLapses(t)
    \/ \E n \in Notices : ProviderRepeats(n.txn, n.report, n.copy)

Spec == Init /\ [][Next]_vars

\* A request that has begun is carried on by its worker; the provider redelivers
\* a notice until it is answered, so one that keeps finding a free worker is taken.
\* Buyers, parties, provider decisions and failures owe nothing.
FairSpec ==
    /\ Spec
    /\ \A s \in Sessions : WF_vars(Continue(s))
    /\ \A n \in Notices : SF_vars(\E s \in Sessions : ReceiveWebhook(s, n))

\* The buyer of an unpaid order keeps trying to pay, and prompts do lapse.
FairBuyerSpec ==
    /\ FairSpec
    /\ \A t \in Txns : WF_vars(ProviderLapses(t))
    /\ \A o \in Orders : SF_vars(\E s \in Sessions : InitiateRead(s, o))

---------------------------------------------------------------------------
(* Properties *)

SessionType ==
    [pc : {"idle", "keyLookup", "store", "record", "apply", "seller", "sink",
           "finish", "transition"},
     ord : Orders \cup {None}, txn : Txns \cup {None}, notice : Notices \cup {None},
     seenOrder : OrderStates \cup {None}, seenTxn : TxnStates \cup {None},
     target : OrderStates \cup Txns \cup {None},
     seenSeller : Nat, seenSink : Nat]

\* Every variable keeps its type: the columns of the rows and the sessions' locals.
TypeOK ==
    /\ order \in [Orders -> OrderStates]
    /\ txnState \in [Txns -> TxnStates]
    /\ txnOrder \in [Txns -> Orders \cup {None}]
    /\ keyed \in [Orders -> Txns \cup {None}]
    /\ charge \in [Txns -> ChargeStates]
    /\ sent \subseteq Notices
    /\ events \in [EventIds -> EventStates]
    /\ ledger \subseteq LedgerKeys
    /\ balance \in [Wallets -> Nat]
    /\ sess \in [Sessions -> SessionType]
    /\ rollbacks \in Nat

\* What a request in progress has established before it goes on: the rows it read
\* exist, a notice about to be applied names a stored payment, a snapshot that
\* showed a succeeded payment was taken after its credit was committed.
RequestOK(r) ==
    /\ r.pc \in {"keyLookup", "store", "apply", "seller", "sink", "transition"} => r.ord \in Orders
    /\ r.pc \in {"store", "apply", "seller", "sink"} => r.txn \in Txns
    /\ r.pc \in {"record", "apply", "seller", "sink", "finish"} => r.notice \in Notices
    /\ r.pc \in {"apply", "seller", "sink"} =>
          /\ r.notice.txn = r.txn
          /\ txnState[r.txn] # "NONE" /\ txnOrder[r.txn] = r.ord
    /\ r.pc = "apply" /\ r.seenTxn = "SUCCEEDED" => {NetKey(r.txn), FeeKey(r.txn)} \subseteq ledger
    /\ r.pc \in {"seller", "sink"} => r.notice.report = "SUCCEEDED"
    /\ r.pc \in {"record", "apply", "seller", "sink"} /\ r.notice.report = "SUCCEEDED" =>
          charge[r.notice.txn] \in {"SUCCEEDED", "REFUNDED"}
    /\ r.pc = "store" =>
          /\ txnState[r.txn] = "NONE" /\ charge[r.txn] # "none"
          /\ r.target \in Txns \cup {None}
    /\ r.pc = "transition" => r.target \in OrderStates \ {"PAID"}

\* Requests and rows fit together whatever the sessions interleave: no payment
\* reference is stored twice, a row has an order, a reference the provider does
\* not know has no row, and a success notice tells the truth.
Consistent ==
    /\ \A s \in Sessions : RequestOK(sess[s])
    /\ \A s1, s2 \in Sessions :
          At(s1, "store") /\ At(s2, "store") /\ sess[s1].txn = sess[s2].txn => s1 = s2
    /\ \A t \in Txns : txnState[t] = "NONE" <=> txnOrder[t] = None
    /\ \A t \in Txns : charge[t] = "none" => txnState[t] = "NONE"
    /\ \A t \in Txns : Settled(t) => txnState[t] # "NONE"
    /\ \A n \in sent : n.report = "SUCCEEDED" => charge[n.txn] \in {"SUCCEEDED", "REFUNDED"}

\* An order is PAID only together with the ledger entries of one of its payments:
\* the webhook advances the order and credits the seller in one transaction,
\* whatever the parties' requests overwrite meanwhile.
PaidIsSettled ==
    \A o \in Orders : order[o] = "PAID" =>
        \E t \in Txns : txnOrder[t] = o /\ Settled(t)

\* A payment the program shows as succeeded or refunded has been entered in the
\* ledger, both the seller's share and the fee.
SucceededIsSettled ==
    \A t \in Txns : txnState[t] \in {"SUCCEEDED", "REFUNDED"} =>
        {NetKey(t), FeeKey(t)} \subseteq ledger

\* The seller is never credited for a charge the provider did not collect, in
\* whatever order notices are delivered and replayed.
CreditedWasCollected ==
    \A t \in Txns : Settled(t) => charge[t] \in {"SUCCEEDED", "REFUNDED"}

\* The ledger entries booked to a wallet, what each of them is worth, and what the ledger
\* says the wallet should hold.
Booked(w) ==
    {k \in ledger : IF k[2] = "net" THEN SellerOf[txnOrder[k[1]]] = w ELSE w = FeeSink}
Amount == [k \in ledger |-> IF k[2] = "net" THEN Net[txnOrder[k[1]]] ELSE Fee[txnOrder[k[1]]]]
LedgerSum(w) == SumFunctionOnSet(Amount, Booked(w))

\* No wallet ever shows more than its ledger entries sum to: a replayed success
\* never credits twice.
WalletWithinLedger == \A w \in Wallets : balance[w] <= LedgerSum(w)

\* Every balance is the sum of the wallet's ledger entries (docs/database.md).
BalanceIsLedgerSum == \A w \in Wallets : balance[w] = LedgerSum(w)

\* A payment that succeeded never turns into a failed one; it can only be refunded.
OutcomeStable ==
    [][\A t \in Txns : txnState[t] \in {"SUCCEEDED", "REFUNDED"} =>
          txnState'[t] \in {"SUCCEEDED", "REFUNDED"}]_vars

\* Orders move only along the edges of the order state graph.
OrderOnGraph ==
    [][\A o \in Orders : order'[o] # order[o] => order'[o] \in Allowed[order[o]]]_vars

\* The seller is credited at most once for an order, however many payments it has.
OrderCreditedOnce ==
    \A t1, t2 \in Txns : Settled(t1) /\ Settled(t2) /\ t1 # t2 => txnOrder[t1] # txnOrder[t2]

\* Crediting the seller and advancing the order happen together.
CreditAdvancesOrder ==
    [][\A t \in Txns : ~Settled(t) /\ Settled(t)' => order'[txnOrder[t]] = "PAID"]_vars

\* A success the provider reports for a stored payment is eventually entered.
SuccessIsSettled ==
    \A t \in Txns :
        (txnState[t] # "NONE" /\ \E n \in sent : n.txn = t /\ n.report = "SUCCEEDED")
            ~> Settled(t)

\* A buyer whose payment failed and who keeps trying gets a new payment, unless
\* the order moves on without it.
FailedIsRetried ==
    \A o \in Orders :
        (order[o] = "PAYMENT_PENDING" /\ keyed[o] # None /\ txnState[keyed[o]] = "FAILED")
            ~> (\/ order[o] # "PAYMENT_PENDING"
                \/ \E t \in Txns : txnOrder[t] = o /\ txnState[t] \in {"PENDING_PROVIDER", "SUCCEEDED"})
===========================================================================
