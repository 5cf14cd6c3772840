------------------------- MODULE Settlement_proofs -------------------------
(***************************************************************************)
(* Theorems about Settlement for every number of orders, payments, notices  *)
(* and concurrent sessions.                                                 *)
(***************************************************************************)
EXTENDS Settlement, Sums, TLAPS

\* The inductive invariant: types, how requests in progress fit the rows, and the
\* ledger entries of succeeded payments, which a snapshot of a session relies on.
IInv == TypeOK /\ Consistent /\ SucceededIsSettled

USE SettlementAssumption

LEMMA InitInv == Init => IInv
  BY DEF Init, IInv, TypeOK, Consistent, SucceededIsSettled, RequestOK, Idle, At, SessionType, OrderStates,
         TxnStates, ChargeStates, EventStates, Settled, NetKey, Wallets

---------------------------------------------------------------------------
(* Steps of one session *)

\* The idle session is well formed.
LEMMA IdleOK == Idle \in SessionType /\ RequestOK(Idle) /\ Idle.pc # "store"
  BY DEF Idle, SessionType, RequestOK, OrderStates, TxnStates

\* A step keeps the invariant when it gives session s a well-formed record that
\* is not about to store a payment, only adds ledger entries, of stored payments,
\* and neither creates nor removes a payment.
LEMMA SessionStep ==
  ASSUME IInv, NEW s \in Sessions, NEW r \in SessionType,
         Become(s, r), RequestOK(r), r.pc # "store",
         UNCHANGED <<txnOrder, keyed, charge, sent>>,
         order' \in [Orders -> OrderStates], txnState' \in [Txns -> TxnStates],
         \A t \in Txns : txnState'[t] = "NONE" <=> txnState[t] = "NONE",
         ledger \subseteq ledger', ledger' \subseteq LedgerKeys,
         \A t \in Txns : NetKey(t) \in ledger' => Settled(t) \/ txnState[t] # "NONE",
         \A t \in Txns : txnState'[t] \in {"SUCCEEDED", "REFUNDED"} =>
                            {NetKey(t), FeeKey(t)} \subseteq ledger',
         balance' \in [Wallets -> Nat], events' \in [EventIds -> EventStates],
         rollbacks' \in Nat
  PROVE  IInv'
<1>1. sess' = [sess EXCEPT ![s] = r] /\ sess \in [Sessions -> SessionType]
  BY DEF Become, IInv, TypeOK
<1>2. TypeOK'
  BY <1>1 DEF IInv, TypeOK
<1>3. ASSUME NEW s2 \in Sessions PROVE RequestOK(sess[s2])'
  <2>1. RequestOK(sess'[s2])
    BY <1>1 DEF IInv, Consistent
  <2>. QED
    BY <2>1 DEF RequestOK
<1>4. ASSUME NEW s1 \in Sessions, NEW s2 \in Sessions, At(s1, "store")', At(s2, "store")',
             sess'[s1].txn = sess'[s2].txn
      PROVE s1 = s2
  BY <1>1, <1>4 DEF At, IInv, Consistent
<1>. QED
  BY <1>2, <1>3, <1>4 DEF IInv, Consistent, Settled, SucceededIsSettled

\* The same for a step that changes no table.
LEMMA QuietStep ==
  ASSUME IInv, NEW s \in Sessions, NEW r \in SessionType, Become(s, r), RequestOK(r),
         r.pc # "store", UNCHANGED <<db, charge, sent>>, rollbacks' \in Nat
  PROVE  IInv'
  BY SessionStep DEF db, IInv, TypeOK, Consistent, Settled, SucceededIsSettled

\* The same for a step that only records a webhook event and ends the request or
\* leaves it to be finished.
LEMMA EventStep ==
  ASSUME IInv, NEW s \in Sessions, Become(s, Idle),
         NEW n \in Notices, NEW x \in EventStates, events' = [events EXCEPT ![EventId(n)] = x],
         UNCHANGED <<order, txnState, txnOrder, keyed, ledger, balance, charge, sent, rollbacks>>
  PROVE  IInv'
<1>1. events' \in [EventIds -> EventStates]
  BY DEF IInv, TypeOK
<1>. QED
  BY <1>1, IdleOK, SessionStep DEF IInv, TypeOK, Consistent, Settled, SucceededIsSettled

\* What a session's record says by its pc.
LEMMA RequestFacts ==
  ASSUME IInv, NEW s \in Sessions
  PROVE  sess[s] \in SessionType /\ RequestOK(sess[s])
  BY DEF IInv, TypeOK, Consistent

---------------------------------------------------------------------------
(* One lemma per action *)

LEMMA InitiateReadInv ==
  ASSUME IInv, NEW s \in Sessions, NEW o \in Orders, InitiateRead(s, o)
  PROVE  IInv'
<1> DEFINE r == [Idle EXCEPT !.pc = "keyLookup", !.ord = o, !.seenOrder = order[o]]
<1>1. order[o] \in OrderStates
  BY DEF IInv, TypeOK
<1>2. r \in SessionType /\ RequestOK(r) /\ r.pc # "store"
  BY <1>1 DEF Idle, SessionType, RequestOK
<1>. QED
  BY <1>2, QuietStep DEF InitiateRead, db, IInv, TypeOK

LEMMA IdleStepsInv ==
  ASSUME IInv, NEW s \in Sessions,
         InitiateReturnsExisting(s) \/ InitiateRefused(s) \/ RecordConflict(s) \/ ZeroFeeRefused(s)
  PROVE  IInv'
  BY IdleOK, QuietStep
     DEF InitiateReturnsExisting, InitiateRefused, RecordConflict, ZeroFeeRefused, IInv, TypeOK

LEMMA RollbackInv ==
  ASSUME IInv, NEW s \in Sessions, Rollback(s)
  PROVE  IInv'
  BY IdleOK, QuietStep DEF Rollback, IInv, TypeOK

LEMMA InitiateChargeInv ==
  ASSUME IInv, NEW s \in Sessions, NEW t \in Txns, InitiateCharge(s, t)
  PROVE  IInv'
<1> DEFINE r == [sess[s] EXCEPT !.pc = "store", !.txn = t, !.target = keyed[sess[s].ord]]
<1>1. sess[s] \in SessionType /\ sess[s].ord \in Orders
  BY RequestFacts DEF RequestOK, InitiateCharge, At
<1>2. keyed[sess[s].ord] \in Txns \cup {None} /\ charge' = [charge EXCEPT ![t] = "open"]
  BY <1>1 DEF IInv, TypeOK, InitiateCharge
<1>3. r \in SessionType /\ r.pc = "store" /\ r.txn = t /\ r.ord = sess[s].ord
      /\ r.target \in Txns \cup {None}
  BY <1>1, <1>2 DEF SessionType
<1>4. sess' = [sess EXCEPT ![s] = r] /\ sess \in [Sessions -> SessionType]
  BY DEF Become, IInv, TypeOK, InitiateCharge
<1>5. TypeOK'
  BY <1>2, <1>3, <1>4 DEF IInv, TypeOK, InitiateCharge, db, ChargeStates
<1>6. txnState[t] = "NONE" /\ \A n \in Notices : n.txn = t => charge[n.txn] = "none"
  BY DEF InitiateCharge, IInv, Consistent
<1>7. ASSUME NEW s2 \in Sessions PROVE RequestOK(sess[s2])'
  <2>1. CASE s2 = s
    BY <2>1, <1>1, <1>2, <1>3, <1>4, <1>6 DEF RequestOK, InitiateCharge, db, IInv, TypeOK
  <2>2. CASE s2 # s
    <3>1. RequestOK(sess[s2]) /\ sess'[s2] = sess[s2]
      BY <2>2, <1>4 DEF IInv, Consistent
    <3>. QED
      BY <3>1, <1>2, <1>6 DEF RequestOK, InitiateCharge, db, IInv, TypeOK, Notices
  <2>. QED
    BY <2>1, <2>2
<1>8. ASSUME NEW s1 \in Sessions, NEW s2 \in Sessions, At(s1, "store")', At(s2, "store")',
             sess'[s1].txn = sess'[s2].txn
      PROVE s1 = s2
  <2>1. ASSUME NEW s3 \in Sessions, s3 # s, At(s3, "store")' PROVE sess'[s3].txn # t
    BY <2>1, <1>4 DEF At, IInv, Consistent, RequestOK, InitiateCharge
  <2>. QED
    BY <1>3, <1>4, <1>8, <2>1 DEF At, IInv, Consistent
<1>. QED
  BY <1>2, <1>5, <1>6, <1>7, <1>8 DEF IInv, Consistent, SucceededIsSettled, InitiateCharge, db, Settled, TypeOK, Notices

LEMMA InitiateStoreInv ==
  ASSUME IInv, NEW s \in Sessions, InitiateStore(s)
  PROVE  IInv'
<1> DEFINE o == sess[s].ord
           t == sess[s].txn
<1>1. /\ o \in Orders /\ t \in Txns
      /\ txnState[t] = "NONE" /\ charge[t] # "none" /\ txnOrder[t] = None
  BY RequestFacts DEF RequestOK, InitiateStore, At, IInv, Consistent
<1>2. /\ txnState' = [txnState EXCEPT ![t] = "PENDING_PROVIDER"]
      /\ txnOrder' = [txnOrder EXCEPT ![t] = o]
      /\ order' = [order EXCEPT ![o] = "PAYMENT_PENDING"]
      /\ sess' = [sess EXCEPT ![s] = Idle] /\ sess \in [Sessions -> SessionType]
      /\ UNCHANGED <<events, ledger, balance, charge, sent, rollbacks>>
  BY DEF InitiateStore, Become, IInv, TypeOK
<1>3. keyed' \in [Orders -> Txns \cup {None}]
  BY <1>1 DEF InitiateStore, IInv, TypeOK
<1>4. TypeOK'
  BY <1>1, <1>2, <1>3, IdleOK DEF IInv, TypeOK, OrderStates, TxnStates
<1>5. ASSUME NEW s2 \in Sessions PROVE RequestOK(sess[s2])'
  <2>1. CASE s2 = s
    BY <2>1, <1>2 DEF RequestOK, Idle
  <2>2. CASE s2 # s
    <3>1. RequestOK(sess[s2]) /\ sess'[s2] = sess[s2]
      BY <2>2, <1>2 DEF IInv, Consistent
    <3>2. At(s2, "store") => sess[s2].txn # t
      BY <2>2 DEF IInv, Consistent, InitiateStore, At
    <3>3. sess[s2].pc \in {"apply", "seller", "sink"} => sess[s2].txn # t
      BY <3>1, <1>1 DEF RequestOK
    <3>. QED
      BY <3>1, <3>2, <3>3, <1>1, <1>2 DEF RequestOK, At, IInv, TypeOK
  <2>. QED
    BY <2>1, <2>2
<1>6. ASSUME NEW s1 \in Sessions, NEW s2 \in Sessions, At(s1, "store")', At(s2, "store")',
             sess'[s1].txn = sess'[s2].txn
      PROVE s1 = s2
  BY <1>2, <1>6 DEF At, IInv, Consistent, Idle
<1>7. \A t2 \in Txns : txnState'[t2] = "NONE" <=> txnOrder'[t2] = None
  BY <1>1, <1>2 DEF IInv, Consistent, TypeOK
<1>. QED
  BY <1>1, <1>2, <1>4, <1>5, <1>6, <1>7 DEF IInv, Consistent, SucceededIsSettled, Settled, TypeOK

\* The provider's steps change its own view of a charge and the notices in flight.
LEMMA ProviderStepsInv ==
  ASSUME IInv, NEW t \in Txns, NEW r \in Reports,
         \/ ProviderDecides(t, r)
         \/ ProviderLapses(t)
         \/ \E n \in Notices : ProviderRepeats(n.txn, n.report, n.copy)
  PROVE  IInv'
<1>1. CASE ProviderDecides(t, r)
  <2>1. [txn |-> t, report |-> r, copy |-> 1] \in Notices
    BY <1>1 DEF ProviderDecides, Notices
  <2>2. /\ r \in ChargeStates /\ charge' = [charge EXCEPT ![t] = r] /\ charge[t] # "none"
        /\ r # "none" /\ (charge[t] \in {"SUCCEEDED", "REFUNDED"} => r = "REFUNDED")
    BY <1>1 DEF ProviderDecides, ChargeMoves, ChargeStates
  <2>3. TypeOK'
    BY <1>1, <2>1, <2>2 DEF ProviderDecides, IInv, TypeOK, db
  <2>4. ASSUME NEW s \in Sessions PROVE RequestOK(sess[s])'
    BY <1>1, <2>2, RequestFacts DEF RequestOK, ProviderDecides, db, IInv, TypeOK, Notices
  <2>. QED
    BY <1>1, <2>2, <2>3, <2>4 DEF IInv, Consistent, SucceededIsSettled, ProviderDecides, db, At, Settled, TypeOK, Notices
<1>2. CASE ProviderLapses(t)
  <2>1. /\ charge' = [charge EXCEPT ![t] = "none"] /\ sent' \subseteq sent
        /\ txnState[t] = "NONE" /\ charge[t] \notin {"SUCCEEDED", "REFUNDED"}
    BY <1>2 DEF ProviderLapses, IInv, Consistent
  <2>2. TypeOK'
    BY <1>2, <2>1 DEF ProviderLapses, IInv, TypeOK, db, ChargeStates
  <2>3. ASSUME NEW s \in Sessions PROVE RequestOK(sess[s])'
    BY <1>2, <2>1, RequestFacts DEF RequestOK, ProviderLapses, db, At, IInv, TypeOK, Notices
  <2>. QED
    BY <1>2, <2>1, <2>2, <2>3 DEF IInv, Consistent, SucceededIsSettled, ProviderLapses, db, At, Settled, TypeOK, Notices
<1>3. CASE \E n \in Notices : ProviderRepeats(n.txn, n.report, n.copy)
  <2>1. PICK n \in Notices : ProviderRepeats(n.txn, n.report, n.copy)
    BY <1>3
  <2>2. [txn |-> n.txn, report |-> n.report, copy |-> n.copy] = n
    BY DEF Notices
  <2>3. TypeOK'
    BY <2>1, <2>2 DEF ProviderRepeats, IInv, TypeOK, db
  <2>. QED
    BY <2>1, <2>2, <2>3 DEF ProviderRepeats, IInv, Consistent, SucceededIsSettled, RequestOK, At, db, Settled
<1>. QED
  BY <1>1, <1>2, <1>3

LEMMA ReceiveWebhookInv ==
  ASSUME IInv, NEW s \in Sessions, NEW n \in Notices, ReceiveWebhook(s, n)
  PROVE  IInv'
<1> DEFINE r == [Idle EXCEPT !.pc = "record", !.notice = n]
<1>1. r \in SessionType /\ RequestOK(r) /\ r.pc # "store"
  BY DEF Idle, SessionType, RequestOK, ReceiveWebhook, IInv, Consistent
<1>. QED
  BY <1>1, QuietStep DEF ReceiveWebhook, IInv, TypeOK

LEMMA RecordAndStopInv ==
  ASSUME IInv, NEW s \in Sessions, RecordAndStop(s)
  PROVE  IInv'
<1>1. sess[s].notice \in Notices
  BY RequestFacts DEF RequestOK, RecordAndStop, At
<1>2. \E x \in EventStates : events' = [events EXCEPT ![EventId(sess[s].notice)] = x]
  BY DEF RecordAndStop, ClosingState, EventStates
<1>. QED
  BY <1>1, <1>2, EventStep DEF RecordAndStop

LEMMA RecordAndReadInv ==
  ASSUME IInv, NEW s \in Sessions, RecordAndRead(s)
  PROVE  IInv'
<1> DEFINE n == sess[s].notice
           o == txnOrder[n.txn]
           r == [Idle EXCEPT !.pc = "apply", !.notice = n, !.txn = n.txn, !.ord = o,
                             !.seenTxn = txnState[n.txn], !.seenOrder = order[o]]
<1>1. n \in Notices /\ (n.report = "SUCCEEDED" => charge[n.txn] \in {"SUCCEEDED", "REFUNDED"})
  BY RequestFacts DEF RequestOK, RecordAndRead, At
<1>2. n.txn \in Txns /\ txnState[n.txn] # "NONE"
  BY <1>1 DEF Notices, RecordAndRead
<1>3. o \in Orders /\ order[o] \in OrderStates /\ txnState[n.txn] \in TxnStates
  BY <1>2 DEF IInv, TypeOK, Consistent
<1>4. r \in SessionType /\ r.pc = "apply" /\ r.notice = n /\ r.txn = n.txn /\ r.ord = o
      /\ r.seenTxn = txnState[n.txn]
  BY <1>1, <1>2, <1>3 DEF Idle, SessionType
<1>5. r.seenTxn = "SUCCEEDED" => {NetKey(r.txn), FeeKey(r.txn)} \subseteq ledger
  BY <1>2, <1>4 DEF IInv, SucceededIsSettled
<1>6. RequestOK(r)
  BY <1>1, <1>2, <1>3, <1>4, <1>5 DEF RequestOK
<1>. QED
  BY <1>4, <1>6, QuietStep DEF RecordAndRead, IInv, TypeOK

LEMMA ClosingStepsInv ==
  ASSUME IInv, NEW s \in Sessions, ApplyNothing(s) \/ MarkProcessed(s)
  PROVE  IInv'
<1>1. sess[s].notice \in Notices
  BY RequestFacts DEF RequestOK, ApplyNothing, MarkProcessed, At
<1>. QED
  BY <1>1, EventStep DEF ApplyNothing, MarkProcessed, EventStates

\* The session has committed and still has to mark the event processed.
LEMMA FinishOK ==
  ASSUME NEW n \in Notices
  PROVE  LET r == [Idle EXCEPT !.pc = "finish", !.notice = n]
         IN  r \in SessionType /\ RequestOK(r) /\ r.pc # "store"
  BY DEF Idle, SessionType, RequestOK

LEMMA ApplyFailedInv ==
  ASSUME IInv, NEW s \in Sessions, ApplyFailed(s)
  PROVE  IInv'
<1> DEFINE r == [Idle EXCEPT !.pc = "finish", !.notice = sess[s].notice]
<1>1. sess[s].txn \in Txns /\ txnState[sess[s].txn] # "NONE" /\ sess[s].notice \in Notices
  BY RequestFacts DEF RequestOK, ApplyFailed, At
<1>2. r \in SessionType /\ RequestOK(r) /\ r.pc # "store"
  BY <1>1, FinishOK
<1>3. events' \in [EventIds -> EventStates] /\ txnState' \in [Txns -> TxnStates]
  BY DEF ApplyFailed, IInv, TypeOK, EventStates, TxnStates
<1>. QED
  BY <1>1, <1>2, <1>3, SessionStep
     DEF ApplyFailed, IInv, TypeOK, Consistent, Settled, SucceededIsSettled

LEMMA ApplyRefundedInv ==
  ASSUME IInv, NEW s \in Sessions, ApplyRefunded(s)
  PROVE  IInv'
<1>1. sess[s].txn \in Txns /\ txnState[sess[s].txn] # "NONE" /\ sess[s].notice \in Notices
  BY RequestFacts DEF RequestOK, ApplyRefunded, At
<1>2. sess[s].seenTxn = "SUCCEEDED"
  BY DEF ApplyRefunded, BranchOf, Branch
<1>3. {NetKey(sess[s].txn), FeeKey(sess[s].txn)} \subseteq ledger
  BY <1>2, RequestFacts DEF RequestOK, ApplyRefunded, At
<1>4. events' \in [EventIds -> EventStates] /\ txnState' \in [Txns -> TxnStates]
  BY <1>1 DEF ApplyRefunded, IInv, TypeOK, EventStates, TxnStates
<1>. QED
  BY <1>1, <1>3, <1>4, IdleOK, SessionStep
     DEF ApplyRefunded, IInv, TypeOK, Consistent, Settled, SucceededIsSettled

\* What holds of a session that is applying a success.
LEMMA CreditSteps ==
  ASSUME IInv, NEW s \in Sessions, SucceedFlush(s) \/ CreditSeller(s) \/ CommitSuccess(s)
  PROVE  LET r == sess[s] IN
         /\ r \in SessionType /\ RequestOK(r)
         /\ r.ord \in Orders /\ r.txn \in Txns /\ r.notice \in Notices
         /\ r.notice.txn = r.txn /\ r.notice.report = "SUCCEEDED"
         /\ txnState[r.txn] # "NONE" /\ txnOrder[r.txn] = r.ord
         /\ charge[r.txn] \in {"SUCCEEDED", "REFUNDED"}
<1>1. CASE SucceedFlush(s)
  BY <1>1, RequestFacts DEF SucceedFlush, At, RequestOK, BranchOf, Branch
<1>2. CASE CreditSeller(s)
  BY <1>2, RequestFacts DEF CreditSeller, At, RequestOK
<1>3. CASE CommitSuccess(s)
  BY <1>3, RequestFacts DEF CommitSuccess, At, RequestOK
<1>. QED
  BY <1>1, <1>2, <1>3

LEMMA SucceedFlushInv ==
  ASSUME IInv, NEW s \in Sessions, SucceedFlush(s)
  PROVE  IInv'
<1> DEFINE r == [sess[s] EXCEPT !.pc = "seller", !.seenSeller = balance[SellerOf[sess[s].ord]]]
<1>1. balance[SellerOf[sess[s].ord]] \in Nat
  BY CreditSteps DEF IInv, TypeOK, Wallets
<1>2. r \in SessionType /\ RequestOK(r) /\ r.pc # "store"
  BY <1>1, CreditSteps DEF SessionType, RequestOK
<1>. QED
  BY <1>2, QuietStep DEF SucceedFlush, IInv, TypeOK

LEMMA CreditSellerInv ==
  ASSUME IInv, NEW s \in Sessions, CreditSeller(s)
  PROVE  IInv'
<1> DEFINE r == [sess[s] EXCEPT !.pc = "sink", !.seenSink = balance[FeeSink]]
<1>1. balance[FeeSink] \in Nat
  BY DEF IInv, TypeOK, Wallets
<1>2. r \in SessionType /\ RequestOK(r) /\ r.pc # "store"
  BY <1>1, CreditSteps DEF SessionType, RequestOK
<1>. QED
  BY <1>2, QuietStep DEF CreditSeller, IInv, TypeOK

LEMMA CommitSuccessInv ==
  ASSUME IInv, NEW s \in Sessions, CommitSuccess(s)
  PROVE  IInv'
<1> DEFINE o == sess[s].ord
           t == sess[s].txn
           r == [Idle EXCEPT !.pc = "finish", !.notice = sess[s].notice]
<1>1. r \in SessionType /\ RequestOK(r) /\ r.pc # "store"
  BY CreditSteps, FinishOK
<1>2. order' \in [Orders -> OrderStates] /\ txnState' \in [Txns -> TxnStates]
  BY CreditSteps DEF CommitSuccess, OrderAfter, IInv, TypeOK, OrderStates, TxnStates
<1>3. ledger' = ledger \cup {NetKey(t), FeeKey(t)} /\ {NetKey(t), FeeKey(t)} \subseteq LedgerKeys
  <2>1. t \in Txns
    BY CreditSteps
  <2>2. {NetKey(t), FeeKey(t)} \subseteq LedgerKeys
    BY <2>1 DEF NetKey, FeeKey, LedgerKeys
  <2>. QED
    BY <2>2 DEF CommitSuccess
<1>4. balance' \in [Wallets -> Nat]
  <2>1. sess[s].seenSeller + Net[o] \in Nat /\ sess[s].seenSink + Fee[o] \in Nat
    BY CreditSteps DEF SessionType
  <2>. QED
    BY <2>1 DEF CommitSuccess, BalanceAfter, IInv, TypeOK
<1>5. events' \in [EventIds -> EventStates]
  BY CreditSteps DEF CommitSuccess, IInv, TypeOK, EventStates
<1>6. \A t2 \in Txns : NetKey(t2) = NetKey(t) => t2 = t
  BY DEF NetKey
<1>7. /\ Become(s, r) /\ UNCHANGED <<txnOrder, keyed, charge, sent, rollbacks>>
      /\ txnState' = [txnState EXCEPT ![t] = "SUCCEEDED"]
  BY DEF CommitSuccess
<1>8. \A t2 \in Txns : NetKey(t2) \in ledger' => Settled(t2) \/ txnState[t2] # "NONE"
  BY <1>3, <1>6, CreditSteps DEF Settled, NetKey, FeeKey
<1>9. \A t2 \in Txns : txnState'[t2] \in {"SUCCEEDED", "REFUNDED"} =>
                            {NetKey(t2), FeeKey(t2)} \subseteq ledger'
  BY <1>3, <1>7 DEF IInv, SucceededIsSettled, TypeOK
<1>10. \A t2 \in Txns : txnState'[t2] = "NONE" <=> txnState[t2] = "NONE"
  BY <1>7, CreditSteps DEF IInv, TypeOK
<1>11. ledger \subseteq ledger' /\ ledger' \subseteq LedgerKeys /\ rollbacks' \in Nat
  BY <1>3, <1>7 DEF IInv, TypeOK
<1>. QED
  BY <1>1, <1>2, <1>4, <1>5, <1>7, <1>8, <1>9, <1>10, <1>11, SessionStep

LEMMA TransitionReadInv ==
  ASSUME IInv, NEW s \in Sessions, NEW o \in Orders, NEW role \in Roles, NEW to \in OrderStates,
         TransitionRead(s, o, role, to)
  PROVE  IInv'
<1> DEFINE r == [Idle EXCEPT !.pc = "transition", !.ord = o, !.target = to]
<1>1. to # "PAID"
  BY DEF TransitionRead, Accepts, MayMove
<1>2. r \in SessionType /\ RequestOK(r) /\ r.pc # "store"
  BY <1>1 DEF Idle, SessionType, RequestOK
<1>. QED
  BY <1>2, QuietStep DEF TransitionRead, IInv, TypeOK

LEMMA TransitionCommitInv ==
  ASSUME IInv, NEW s \in Sessions, TransitionCommit(s)
  PROVE  IInv'
<1>1. sess[s].ord \in Orders /\ sess[s].target \in OrderStates
  BY RequestFacts DEF RequestOK, TransitionCommit, At
<1>2. order' \in [Orders -> OrderStates]
  BY <1>1 DEF TransitionCommit, IInv, TypeOK
<1>. QED
  BY <1>2, IdleOK, SessionStep
     DEF TransitionCommit, IInv, TypeOK, Consistent, Settled, SucceededIsSettled

---------------------------------------------------------------------------
(* The invariant *)

LEMMA NextInv == IInv /\ [Next]_vars => IInv'
<1> SUFFICES ASSUME IInv, [Next]_vars PROVE IInv'
  OBVIOUS
<1>1. ASSUME NEW s \in Sessions, Continue(s) PROVE IInv'
  BY <1>1, IdleStepsInv, InitiateChargeInv, InitiateStoreInv, RecordAndStopInv, RecordAndReadInv,
     ClosingStepsInv, ApplyFailedInv, ApplyRefundedInv, SucceedFlushInv, CreditSellerInv,
     CommitSuccessInv, TransitionCommitInv DEF Continue
<1>2. CASE UNCHANGED vars
  BY <1>2 DEF vars, IInv, TypeOK, Consistent, RequestOK, At, Settled, SucceededIsSettled
<1>3. ASSUME NEW n \in Notices, ProviderRepeats(n.txn, n.report, n.copy) PROVE IInv'
  <2>1. n.txn \in Txns /\ n.report \in Reports
    BY DEF Notices
  <2>. QED
    BY <1>3, <2>1, ProviderStepsInv
<1>4. ASSUME NEW s \in Sessions, NEW o \in Orders, NEW role \in Roles, NEW to \in OrderStates,
             TransitionRead(s, o, role, to)
      PROVE IInv'
  BY <1>4, TransitionReadInv
<1>5. ASSUME NEW t \in Txns, NEW r \in Reports, ProviderDecides(t, r) PROVE IInv'
  BY <1>5, ProviderStepsInv
<1>6. ASSUME NEW t \in Txns, ProviderLapses(t) PROVE IInv'
  <2>1. "FAILED" \in Reports
    BY DEF Reports
  <2>. QED
    BY <1>6, <2>1, ProviderStepsInv
<1>. QED
  BY <1>1, <1>2, <1>3, <1>4, <1>5, <1>6, InitiateReadInv, ReceiveWebhookInv, RollbackInv DEF Next

\* In every reachable state the tables and the sessions are well typed, requests in
\* progress fit the rows they work on, and succeeded payments are in the ledger.
THEOREM Invariance == Spec => []IInv
<1>. QED
  BY InitInv, NextInv, PTL DEF Spec

\* Every variable keeps its type.
THEOREM TypeCorrect == Spec => []TypeOK
  BY Invariance, PTL DEF IInv

\* What a request has established still holds when it goes on, in every interleaving.
THEOREM RequestsConsistent == Spec => []Consistent
  BY Invariance, PTL DEF IInv

\* A payment shown as succeeded or refunded has both its ledger entries.
THEOREM SucceededSettled == Spec => []SucceededIsSettled
  BY Invariance, PTL DEF IInv

---------------------------------------------------------------------------
(* What the ledger says of the provider and of the order *)

\* A charge the provider has collected stays collected, or is given back.
LEMMA CollectedStays ==
  ASSUME IInv, [Next]_vars, NEW t \in Txns, charge[t] \in {"SUCCEEDED", "REFUNDED"}
  PROVE  charge'[t] \in {"SUCCEEDED", "REFUNDED"}
<1>1. ASSUME NEW t2 \in Txns, NEW r \in Reports, ProviderDecides(t2, r)
      PROVE charge'[t] \in {"SUCCEEDED", "REFUNDED"}
  BY <1>1 DEF ProviderDecides, ChargeMoves, IInv, TypeOK
<1>2. ASSUME NEW t2 \in Txns, ProviderLapses(t2)
      PROVE charge'[t] \in {"SUCCEEDED", "REFUNDED"}
  BY <1>2 DEF ProviderLapses, IInv, TypeOK
<1>3. ASSUME NEW s \in Sessions, NEW t2 \in Txns, InitiateCharge(s, t2)
      PROVE charge'[t] \in {"SUCCEEDED", "REFUNDED"}
  BY <1>3 DEF InitiateCharge, IInv, TypeOK
<1>4. ASSUME NEW s \in Sessions, Continue(s), \A t2 \in Txns : ~InitiateCharge(s, t2)
      PROVE charge' = charge
  BY <1>4 DEF Continue, InitiateReturnsExisting, InitiateStore, InitiateRefused, RecordConflict,
     RecordAndStop, RecordAndRead, ApplyNothing, ApplyFailed, ApplyRefunded, SucceedFlush,
     CreditSeller, ZeroFeeRefused, CommitSuccess, MarkProcessed, TransitionCommit
<1>. QED
  BY <1>1, <1>2, <1>3, <1>4
     DEF Next, vars, InitiateRead, ReceiveWebhook, TransitionRead, Rollback, ProviderRepeats

\* Entries are only added, by a session that applies a success; only that session
\* makes an order PAID; a stored payment keeps its order.
LEMMA LedgerStep ==
  ASSUME IInv, [Next]_vars
  PROVE  \/ /\ \A t \in Txns : Settled(t)' <=> Settled(t)
            /\ \A o \in Orders : order'[o] = "PAID" => order[o] = "PAID"
            /\ \A t \in Txns : txnOrder[t] # None => txnOrder'[t] = txnOrder[t]
         \/ \E s \in Sessions : CommitSuccess(s)
<1> DEFINE Same == /\ \A t \in Txns : Settled(t)' <=> Settled(t)
                   /\ \A o \in Orders : order'[o] = "PAID" => order[o] = "PAID"
                   /\ \A t \in Txns : txnOrder[t] # None => txnOrder'[t] = txnOrder[t]
<1>1. ASSUME NEW s \in Sessions, InitiateStore(s) PROVE Same
  <2>1. /\ sess[s].ord \in Orders /\ sess[s].txn \in Txns
        /\ txnState[sess[s].txn] = "NONE" /\ txnOrder[sess[s].txn] = None
    BY <1>1, RequestFacts DEF RequestOK, InitiateStore, At, IInv, Consistent
  <2>. QED
    BY <1>1, <2>1 DEF InitiateStore, IInv, TypeOK, Settled
<1>2. ASSUME NEW s \in Sessions, TransitionCommit(s) PROVE Same
  <2>1. sess[s].target # "PAID"
    BY <1>2, RequestFacts DEF RequestOK, TransitionCommit, At
  <2>. QED
    BY <1>2, <2>1 DEF TransitionCommit, IInv, TypeOK, Settled
<1>3. ASSUME NEW s \in Sessions, Continue(s),
             ~InitiateStore(s), ~TransitionCommit(s), ~CommitSuccess(s)
      PROVE Same
  BY <1>3 DEF Continue, InitiateReturnsExisting, InitiateCharge, InitiateRefused, RecordConflict,
     RecordAndStop, RecordAndRead, ApplyNothing, ApplyFailed, ApplyRefunded, SucceedFlush,
     CreditSeller, ZeroFeeRefused, MarkProcessed, db, Settled
<1>4. ASSUME UNCHANGED db PROVE Same
  BY <1>4 DEF db, Settled
<1>5. UNCHANGED vars => UNCHANGED db
  BY DEF vars, db
<1>. QED
  BY <1>1, <1>2, <1>3, <1>4, <1>5
     DEF Next, InitiateRead, ReceiveWebhook, TransitionRead, Rollback,
         ProviderDecides, ProviderLapses, ProviderRepeats

LEMMA CreditedStep == IInv /\ CreditedWasCollected /\ [Next]_vars => CreditedWasCollected'
<1> SUFFICES ASSUME IInv, CreditedWasCollected, [Next]_vars,
                    NEW t \in Txns, Settled(t)'
             PROVE  charge'[t] \in {"SUCCEEDED", "REFUNDED"}
  BY DEF CreditedWasCollected
<1>1. CASE Settled(t)
  BY <1>1, CollectedStays DEF CreditedWasCollected
<1>2. CASE ~Settled(t)
  <2>1. PICK s \in Sessions : CommitSuccess(s)
    BY <1>2, LedgerStep
  <2>2. t = sess[s].txn
    BY <1>2, <2>1 DEF CommitSuccess, Settled, NetKey, FeeKey
  <2>. QED
    BY <2>1, <2>2, CreditSteps, CollectedStays
<1>. QED
  BY <1>1, <1>2

LEMMA PaidStep == IInv /\ PaidIsSettled /\ [Next]_vars => PaidIsSettled'
<1> SUFFICES ASSUME IInv, PaidIsSettled, [Next]_vars,
                    NEW o \in Orders, order'[o] = "PAID"
             PROVE  \E t \in Txns : txnOrder'[t] = o /\ Settled(t)'
  BY DEF PaidIsSettled
<1>1. CASE \E s \in Sessions : CommitSuccess(s)
  <2>1. PICK s \in Sessions : CommitSuccess(s)
    BY <1>1
  <2>2. PICK t \in Txns : t = sess[s].txn /\ txnOrder[t] = sess[s].ord
    BY <2>1, CreditSteps
  <2>3. CASE o = sess[s].ord
    <3>1. txnOrder'[t] = o /\ Settled(t)'
      BY <2>1, <2>2, <2>3 DEF CommitSuccess, Settled
    <3>. QED
      BY <3>1
  <2>4. CASE o # sess[s].ord
    <3>1. order[o] = "PAID"
      BY <2>1, <2>4 DEF CommitSuccess, OrderAfter, IInv, TypeOK
    <3>2. \A u \in Txns : txnOrder'[u] = txnOrder[u] /\ (Settled(u) => Settled(u)')
      BY <2>1 DEF CommitSuccess, Settled
    <3>. QED
      BY <3>1, <3>2 DEF PaidIsSettled
  <2>. QED
    BY <2>3, <2>4
<1>2. CASE ~\E s \in Sessions : CommitSuccess(s)
  <2>1. order[o] = "PAID"
    BY <1>2, LedgerStep
  <2>2. PICK t \in Txns : txnOrder[t] = o /\ Settled(t)
    BY <2>1 DEF PaidIsSettled
  <2>. QED
    BY <1>2, <2>2, LedgerStep
<1>. QED
  BY <1>1, <1>2

\* The seller is credited only for charges the provider collected, whatever the
\* order in which notices arrive and however often they are replayed.
THEOREM CreditedCollected == Spec => []CreditedWasCollected
<1>1. Init => CreditedWasCollected
  BY DEF Init, CreditedWasCollected, Settled
<1>. QED
  BY <1>1, Invariance, CreditedStep, PTL DEF Spec

\* An order is PAID only if one of its payments is in the ledger: no request that
\* races with the webhook can make it PAID.
THEOREM PaidSettled == Spec => []PaidIsSettled
<1>1. Init => PaidIsSettled
  BY DEF Init, PaidIsSettled
<1>. QED
  BY <1>1, Invariance, PaidStep, PTL DEF Spec

---------------------------------------------------------------------------
(* What a wallet holds and what its ledger entries sum to *)

\* There are finitely many entries, and those of a payment come in pairs.
Entries ==
    /\ IsFiniteSet(ledger)
    /\ \A t \in Txns : NetKey(t) \in ledger <=> FeeKey(t) \in ledger

\* An entry is of a stored payment and is worth a natural number.
LEMMA EntryFacts ==
  ASSUME IInv, NEW k \in ledger
  PROVE  /\ k[1] \in Txns /\ k[2] \in {"net", "fee"} /\ k = <<k[1], k[2]>>
         /\ Amount[k] = IF k[2] = "net" THEN Net[txnOrder[k[1]]] ELSE Fee[txnOrder[k[1]]]
         /\ Entries => txnOrder[k[1]] \in Orders /\ Amount[k] \in Nat
<1>1. k[1] \in Txns /\ k[2] \in {"net", "fee"} /\ k = <<k[1], k[2]>>
  BY DEF IInv, TypeOK, LedgerKeys
<1>2. Amount[k] = IF k[2] = "net" THEN Net[txnOrder[k[1]]] ELSE Fee[txnOrder[k[1]]]
  BY DEF Amount
<1>3. ASSUME Entries PROVE txnOrder[k[1]] \in Orders
  <2>1. Settled(k[1])
    BY <1>1, <1>3 DEF Entries, Settled, NetKey, FeeKey
  <2>. QED
    BY <1>1, <2>1 DEF IInv, TypeOK, Consistent
<1>. QED
  BY <1>1, <1>2, <1>3

LEMMA LedgerSumType ==
  ASSUME IInv, Entries, NEW w
  PROVE  IsFiniteSet(Booked(w)) /\ LedgerSum(w) \in Nat
<1>1. IsFiniteSet(Booked(w)) /\ \A k \in Booked(w) : Amount[k] \in Nat
  BY EntryFacts, FS_Subset DEF Entries, Booked
<1>. QED
  BY <1>1, SumType DEF LedgerSum

\* While no entry is added the sums stay: a stored payment keeps its order.
LEMMA LedgerSumStays ==
  ASSUME IInv, Entries, ledger' = ledger, NEW w,
         \A t \in Txns : txnOrder[t] # None => txnOrder'[t] = txnOrder[t]
  PROVE  LedgerSum(w)' = LedgerSum(w)
<1>1. \A k \in ledger : txnOrder'[k[1]] = txnOrder[k[1]]
  BY EntryFacts DEF IInv, Consistent
<1>2. Booked(w)' = Booked(w)
  BY <1>1 DEF Booked
<1>3. Amount' = Amount
  BY <1>1 DEF Amount
<1>. QED
  BY <1>2, <1>3 DEF LedgerSum

\* The two entries of a payment raise the sums of its seller and of the sink.
LEMMA LedgerSumGrows ==
  ASSUME IInv, Entries, UNCHANGED txnOrder, NEW t \in Txns, ~Settled(t), txnOrder[t] \in Orders,
         ledger' = ledger \cup {NetKey(t), FeeKey(t)}, NEW w
  PROVE  LedgerSum(w)' = LedgerSum(w)
            + (IF w = SellerOf[txnOrder[t]] THEN Net[txnOrder[t]] ELSE 0)
            + (IF w = FeeSink THEN Fee[txnOrder[t]] ELSE 0)
<1> DEFINE o == txnOrder[t]
           b == Booked(w)
           n == NetKey(t)
           f == FeeKey(t)
<1>1. /\ n \notin ledger /\ f \notin ledger /\ n # f
      /\ n[1] = t /\ n[2] = "net" /\ f[1] = t /\ f[2] = "fee"
  BY DEF Entries, Settled, NetKey, FeeKey
<1>2. SellerOf[o] # FeeSink /\ Net[o] \in Nat /\ Fee[o] \in Nat
  OBVIOUS
<1>3. Amount'[n] = Net[o] /\ Amount'[f] = Fee[o]
  BY <1>1 DEF Amount
<1>4. IsFiniteSet(b) /\ b \subseteq ledger /\ \A k \in b : Amount[k] \in Nat /\ Amount'[k] = Amount[k]
  BY LedgerSumType, EntryFacts DEF Booked, Amount
<1>5. SumFunctionOnSet(Amount', b) = SumFunctionOnSet(Amount, b)
  <2> HIDE DEF b
  <2>. QED
    BY <1>4, SumSame
<1>6. CASE w = SellerOf[o]
  <2>1. Booked(w)' = b \cup {n}
    BY <1>1, <1>2, <1>6 DEF Booked
  <2>2. SumFunctionOnSet(Amount', b \cup {n}) = SumFunctionOnSet(Amount', b) + Amount'[n]
    <3>1. n \notin b /\ \A k \in b \cup {n} : Amount'[k] \in Nat
      BY <1>1, <1>2, <1>3, <1>4
    <3> HIDE DEF b, n
    <3>. QED
      BY <1>4, <3>1, SumAdd
  <2>. QED
    BY <1>2, <1>3, <1>5, <1>6, <2>1, <2>2, LedgerSumType DEF LedgerSum
<1>7. CASE w = FeeSink
  <2>1. Booked(w)' = b \cup {f}
    BY <1>1, <1>2, <1>7 DEF Booked
  <2>2. SumFunctionOnSet(Amount', b \cup {f}) = SumFunctionOnSet(Amount', b) + Amount'[f]
    <3>1. f \notin b /\ \A k \in b \cup {f} : Amount'[k] \in Nat
      BY <1>1, <1>2, <1>3, <1>4
    <3> HIDE DEF b, f
    <3>. QED
      BY <1>4, <3>1, SumAdd
  <2>. QED
    BY <1>2, <1>3, <1>5, <1>7, <2>1, <2>2, LedgerSumType DEF LedgerSum
<1>8. CASE w # SellerOf[o] /\ w # FeeSink
  <2>1. Booked(w)' = b
    BY <1>1, <1>8 DEF Booked
  <2>. QED
    BY <1>5, <1>8, <2>1, LedgerSumType DEF LedgerSum
<1>. QED
  BY <1>6, <1>7, <1>8

---------------------------------------------------------------------------
(* No wallet shows more than its entries, whatever the sessions interleave *)

\* Who touches the books: a commit of a success; every other step leaves entries,
\* balances and the orders of payments alone, and only a session that locks a wallet
\* carries a balance on.
LEMMA BooksStep ==
  ASSUME IInv, [Next]_vars
  PROVE  \/ /\ UNCHANGED <<ledger, balance>>
            /\ \A t \in Txns : txnOrder[t] # None => txnOrder'[t] = txnOrder[t]
            /\ \A s \in Sessions : \/ sess'[s] = sess[s]
                                   \/ sess'[s].pc \notin {"seller", "sink"}
                                   \/ SucceedFlush(s) \/ CreditSeller(s)
         \/ \E s \in Sessions : CommitSuccess(s)
<1> DEFINE Kept == /\ UNCHANGED <<ledger, balance>>
                   /\ \A t \in Txns : txnOrder[t] # None => txnOrder'[t] = txnOrder[t]
           Carried(s) == \/ sess'[s] = sess[s]
                         \/ sess'[s].pc \notin {"seller", "sink"}
                         \/ SucceedFlush(s) \/ CreditSeller(s)
<1>1. sess \in [Sessions -> SessionType]
  BY DEF IInv, TypeOK
<1>2. ASSUME NEW s \in Sessions, NEW r, Become(s, r), r.pc \notin {"seller", "sink"}
      PROVE \A s2 \in Sessions : Carried(s2)
  BY <1>1, <1>2 DEF Become
<1>3. ASSUME NEW s \in Sessions, SucceedFlush(s) \/ CreditSeller(s)
      PROVE Kept /\ \A s2 \in Sessions : Carried(s2)
  BY <1>1, <1>3 DEF SucceedFlush, CreditSeller, Become, db
<1>4. Idle.pc \notin {"seller", "sink"}
  BY DEF Idle
<1>5. ASSUME NEW s \in Sessions, InitiateStore(s)
      PROVE Kept /\ \A s2 \in Sessions : Carried(s2)
  <2>1. sess[s].txn \in Txns /\ txnOrder[sess[s].txn] = None
    BY <1>5, RequestFacts DEF RequestOK, InitiateStore, At, IInv, Consistent
  <2>. QED
    BY <1>2, <1>4, <1>5, <2>1 DEF InitiateStore, IInv, TypeOK
<1>6. ASSUME NEW s \in Sessions,
             \/ InitiateReturnsExisting(s) \/ InitiateRefused(s) \/ RecordConflict(s)
             \/ RecordAndStop(s) \/ ApplyNothing(s) \/ ApplyRefunded(s) \/ ZeroFeeRefused(s)
             \/ MarkProcessed(s) \/ TransitionCommit(s) \/ Rollback(s)
      PROVE Kept /\ \A s2 \in Sessions : Carried(s2)
  <2>1. Become(s, Idle) /\ Kept
    BY <1>6 DEF InitiateReturnsExisting, InitiateRefused, RecordConflict, RecordAndStop,
       ApplyNothing, ApplyRefunded, ZeroFeeRefused, MarkProcessed, TransitionCommit, Rollback, db
  <2>. QED
    BY <1>2, <1>4, <2>1
<1>7. ASSUME NEW s \in Sessions, ApplyFailed(s)
      PROVE Kept /\ \A s2 \in Sessions : Carried(s2)
  BY <1>1, <1>7 DEF ApplyFailed, Idle, Become
<1>8. ASSUME NEW s \in Sessions, NEW t \in Txns, InitiateCharge(s, t)
      PROVE Kept /\ \A s2 \in Sessions : Carried(s2)
  BY <1>1, <1>8 DEF InitiateCharge, db, Become, SessionType
<1>9. ASSUME NEW s \in Sessions, RecordAndRead(s)
      PROVE Kept /\ \A s2 \in Sessions : Carried(s2)
  BY <1>1, <1>9 DEF RecordAndRead, db, Idle, Become
<1>10. ASSUME NEW s \in Sessions, NEW o \in Orders, InitiateRead(s, o)
       PROVE Kept /\ \A s2 \in Sessions : Carried(s2)
  BY <1>1, <1>10 DEF InitiateRead, db, Idle, Become
<1>11. ASSUME NEW s \in Sessions, NEW n \in Notices, ReceiveWebhook(s, n)
       PROVE Kept /\ \A s2 \in Sessions : Carried(s2)
  BY <1>1, <1>11 DEF ReceiveWebhook, db, Idle, Become
<1>12. ASSUME NEW s \in Sessions, NEW o \in Orders, NEW role \in Roles, NEW to \in OrderStates,
              TransitionRead(s, o, role, to)
       PROVE Kept /\ \A s2 \in Sessions : Carried(s2)
  BY <1>1, <1>12 DEF TransitionRead, db, Idle, Become
<1>13. ASSUME UNCHANGED <<db, sess>> PROVE Kept /\ \A s2 \in Sessions : Carried(s2)
  BY <1>13 DEF db
<1>14. UNCHANGED vars => UNCHANGED <<db, sess>>
  BY DEF vars, db
<1>15. ASSUME NEW s \in Sessions, Continue(s), ~CommitSuccess(s)
       PROVE Kept /\ \A s2 \in Sessions : Carried(s2)
  BY <1>3, <1>5, <1>6, <1>7, <1>8, <1>9, <1>15 DEF Continue
<1>16. \A t \in Txns : ProviderLapses(t) => UNCHANGED <<db, sess>>
  BY DEF ProviderLapses
<1>17. \A n \in Notices : ProviderRepeats(n.txn, n.report, n.copy) => UNCHANGED <<db, sess>>
  BY DEF ProviderRepeats
<1>18. \A t \in Txns, r \in Reports : ProviderDecides(t, r) => UNCHANGED <<db, sess>>
  BY DEF ProviderDecides
<1>. QED
  BY <1>6, <1>10, <1>11, <1>12, <1>13, <1>14, <1>15, <1>16, <1>17, <1>18 DEF Next

\* The inductive part of WalletWithinLedger: a session about to write a balance back
\* loaded one that its entries covered.
Covered(s) ==
    /\ At(s, "seller") \/ At(s, "sink") => sess[s].seenSeller <= LedgerSum(SellerOf[sess[s].ord])
    /\ At(s, "sink") => sess[s].seenSink <= LedgerSum(FeeSink)
WInv == Entries /\ WalletWithinLedger /\ \A s \in Sessions : Covered(s)

\* What committing a success does to the books: nothing if the payment is entered
\* already, otherwise its two entries, on top of the balances the session loaded.
LEMMA CommitBooks ==
  ASSUME IInv, Entries, NEW s \in Sessions, CommitSuccess(s)
  PROVE  LET t == sess[s].txn  o == sess[s].ord IN
         /\ o \in Orders /\ t \in Txns /\ At(s, "sink") /\ Entries'
         /\ sess[s].seenSeller \in Nat /\ sess[s].seenSink \in Nat
         /\ sess' = [sess EXCEPT ![s] = [Idle EXCEPT !.pc = "finish", !.notice = sess[s].notice]]
         /\ \/ /\ Settled(t) /\ balance' = balance
               /\ \A w : LedgerSum(w)' = LedgerSum(w)
            \/ /\ ~Settled(t)
               /\ balance' = [balance EXCEPT ![SellerOf[o]] = sess[s].seenSeller + Net[o],
                                             ![FeeSink] = sess[s].seenSink + Fee[o]]
               /\ \A w : LedgerSum(w)' = LedgerSum(w) + (IF w = SellerOf[o] THEN Net[o] ELSE 0)
                                                      + (IF w = FeeSink THEN Fee[o] ELSE 0)
<1> DEFINE t == sess[s].txn
           o == sess[s].ord
<1>1. /\ o \in Orders /\ t \in Txns /\ txnOrder[t] = o
      /\ sess[s].seenSeller \in Nat /\ sess[s].seenSink \in Nat
  BY CreditSteps DEF SessionType
<1>2. At(s, "sink") /\ UNCHANGED txnOrder /\ balance' = BalanceAfter(s)
      /\ ledger' = ledger \cup {NetKey(t), FeeKey(t)}
      /\ sess' = [sess EXCEPT ![s] = [Idle EXCEPT !.pc = "finish", !.notice = sess[s].notice]]
  BY DEF CommitSuccess, Become
<1>3. IsFiniteSet(ledger')
  <2>1. IsFiniteSet(ledger \cup {NetKey(t)})
    BY FS_AddElement DEF Entries
  <2>2. ledger' = (ledger \cup {NetKey(t)}) \cup {FeeKey(t)}
    BY <1>2
  <2> HIDE DEF t
  <2>. QED
    BY <2>1, <2>2, FS_AddElement
<1>4. Entries'
  BY <1>2, <1>3 DEF Entries, NetKey, FeeKey
<1>5. CASE Settled(t)
  <2>1. ledger' = ledger
    BY <1>1, <1>2, <1>5 DEF Entries, Settled
  <2>2. \A w : LedgerSum(w)' = LedgerSum(w)
    BY <1>2, <2>1, LedgerSumStays
  <2>. QED
    BY <1>1, <1>2, <1>4, <1>5, <2>2 DEF BalanceAfter
<1>6. CASE ~Settled(t)
  <2>1. \A w : LedgerSum(w)' = LedgerSum(w) + (IF w = SellerOf[o] THEN Net[o] ELSE 0)
                                            + (IF w = FeeSink THEN Fee[o] ELSE 0)
    BY <1>1, <1>2, <1>6, LedgerSumGrows
  <2>. QED
    BY <1>1, <1>2, <1>4, <1>6, <2>1 DEF BalanceAfter
<1>. QED
  BY <1>5, <1>6

LEMMA WithinStep == IInv /\ WInv /\ [Next]_vars => WInv'
<1> SUFFICES ASSUME IInv, WInv, [Next]_vars PROVE WInv'
  OBVIOUS
<1>1. /\ Entries /\ sess \in [Sessions -> SessionType] /\ balance \in [Wallets -> Nat]
      /\ \A w : LedgerSum(w) \in Nat
  BY LedgerSumType DEF WInv, IInv, TypeOK
<1>2. \A s \in Sessions : sess[s].pc \in {"seller", "sink"} =>
         /\ sess[s].ord \in Orders /\ SellerOf[sess[s].ord] \in Wallets /\ FeeSink \in Wallets
         /\ sess[s].seenSeller \in Nat /\ sess[s].seenSink \in Nat
  BY RequestFacts DEF RequestOK, SessionType, Wallets
<1>3. CASE \E s \in Sessions : CommitSuccess(s)
  <2>1. PICK s \in Sessions : CommitSuccess(s)
    BY <1>3
  <2> DEFINE o == sess[s].ord
  <2>2. ASSUME NEW w PROVE LedgerSum(w) <= LedgerSum(w)' /\ LedgerSum(w)' \in Nat
    <3>1. o \in Orders /\ Net[o] \in Nat /\ Fee[o] \in Nat /\ LedgerSum(w) \in Nat
      BY <1>1, <2>1, CommitBooks
    <3>2. \/ LedgerSum(w)' = LedgerSum(w)
          \/ LedgerSum(w)' = LedgerSum(w) + (IF w = SellerOf[o] THEN Net[o] ELSE 0)
                                         + (IF w = FeeSink THEN Fee[o] ELSE 0)
      BY <1>1, <2>1, CommitBooks
    <3> HIDE DEF o
    <3>. QED
      BY <3>1, <3>2
  <2>3. WalletWithinLedger'
    <3> SUFFICES ASSUME NEW w \in Wallets PROVE balance'[w] <= LedgerSum(w)'
      BY DEF WalletWithinLedger
    <3>1. balance[w] <= LedgerSum(w) /\ balance[w] \in Nat
      BY <1>1 DEF WInv, WalletWithinLedger
    <3>2. /\ sess[s].seenSeller <= LedgerSum(SellerOf[o])
          /\ sess[s].seenSink <= LedgerSum(FeeSink)
      BY <2>1, CommitBooks DEF WInv, Covered
    <3>3. SellerOf[o] # FeeSink /\ Net[o] \in Nat /\ Fee[o] \in Nat
          /\ sess[s].seenSeller \in Nat /\ sess[s].seenSink \in Nat
      BY <1>1, <2>1, CommitBooks
    <3>4. CASE balance' = balance
      BY <1>1, <2>2, <3>1, <3>4
    <3>5. CASE balance' # balance
      <4>1. /\ balance' = [balance EXCEPT ![SellerOf[o]] = sess[s].seenSeller + Net[o],
                                          ![FeeSink] = sess[s].seenSink + Fee[o]]
            /\ LedgerSum(w)' = LedgerSum(w) + (IF w = SellerOf[o] THEN Net[o] ELSE 0)
                                            + (IF w = FeeSink THEN Fee[o] ELSE 0)
        BY <1>1, <2>1, <3>5, CommitBooks
      <4> HIDE DEF o
      <4>. QED
        BY <1>1, <3>1, <3>2, <3>3, <4>1
    <3>. QED
      BY <3>4, <3>5
  <2>4. ASSUME NEW s2 \in Sessions PROVE Covered(s2)'
    <3>1. CASE s2 = s
      <4>1. sess'[s2] = [Idle EXCEPT !.pc = "finish", !.notice = sess[s].notice]
        BY <1>1, <2>1, <3>1, CommitBooks
      <4>2. sess'[s2].pc = "finish"
        BY <4>1 DEF Idle
      <4>. QED
        BY <4>2 DEF Covered, At
    <3>2. CASE s2 # s
      <4>1. sess'[s2] = sess[s2]
        BY <1>1, <2>1, <3>2, CommitBooks
      <4>2. Covered(s2)
        BY DEF WInv
      <4>. QED
        BY <1>1, <1>2, <2>2, <4>1, <4>2 DEF Covered, At
    <3>. QED
      BY <3>1, <3>2
  <2>. QED
    BY <1>1, <2>1, <2>3, <2>4, CommitBooks DEF WInv
<1>4. CASE ~\E s \in Sessions : CommitSuccess(s)
  <2>1. /\ UNCHANGED <<ledger, balance>>
        /\ \A t \in Txns : txnOrder[t] # None => txnOrder'[t] = txnOrder[t]
        /\ \A s \in Sessions : \/ sess'[s] = sess[s]
                               \/ sess'[s].pc \notin {"seller", "sink"}
                               \/ SucceedFlush(s) \/ CreditSeller(s)
    BY <1>4, BooksStep
  <2>2. \A w : LedgerSum(w)' = LedgerSum(w)
    BY <1>1, <2>1, LedgerSumStays
  <2>3. ASSUME NEW s \in Sessions PROVE Covered(s)'
    <3>1. CASE sess'[s] = sess[s] \/ sess'[s].pc \notin {"seller", "sink"}
      BY <2>2, <3>1 DEF Covered, At, WInv
    <3>2. CASE SucceedFlush(s)
      <4>1. /\ sess'[s] = [sess[s] EXCEPT !.pc = "seller", !.seenSeller = balance[SellerOf[sess[s].ord]]]
            /\ sess[s].ord \in Orders /\ sess[s] \in SessionType
        BY <1>1, <3>2, CreditSteps DEF SucceedFlush, Become
      <4>2. balance[SellerOf[sess[s].ord]] <= LedgerSum(SellerOf[sess[s].ord])
        BY <4>1 DEF WInv, WalletWithinLedger, Wallets
      <4>3. sess'[s].pc = "seller" /\ sess'[s].ord = sess[s].ord
            /\ sess'[s].seenSeller = balance[SellerOf[sess[s].ord]]
        BY <4>1 DEF SessionType
      <4>. QED
        BY <2>2, <4>2, <4>3 DEF Covered, At
    <3>3. CASE CreditSeller(s)
      <4>1. /\ sess'[s] = [sess[s] EXCEPT !.pc = "sink", !.seenSink = balance[FeeSink]]
            /\ sess[s] \in SessionType /\ At(s, "seller")
        BY <1>1, <3>3 DEF CreditSeller, Become
      <4>2. balance[FeeSink] <= LedgerSum(FeeSink) /\ Covered(s)
        BY DEF WInv, WalletWithinLedger, Wallets
      <4>3. sess'[s].ord = sess[s].ord /\ sess'[s].seenSeller = sess[s].seenSeller
            /\ sess'[s].seenSink = balance[FeeSink]
        BY <4>1 DEF SessionType
      <4>. QED
        BY <2>2, <4>1, <4>2, <4>3 DEF Covered, At
    <3>. QED
      BY <2>1, <3>1, <3>2, <3>3
  <2>. QED
    BY <1>1, <2>1, <2>2, <2>3 DEF WInv, WalletWithinLedger, Entries
<1>. QED
  BY <1>3, <1>4

LEMMA NoEntries ==
  ASSUME Init
  PROVE  Entries /\ \A w : LedgerSum(w) = 0
<1>1. ledger = {} /\ IsFiniteSet({})
  BY FS_EmptySet DEF Init
<1>2. \A w : Booked(w) = {}
  BY <1>1 DEF Booked
<1>. QED
  BY <1>1, <1>2, SumEmpty DEF Entries, LedgerSum

\* However many sessions apply however many notices of one success, no wallet ever
\* shows more than its ledger entries sum to.
THEOREM WithinLedger == Spec => []WalletWithinLedger
<1>1. Init => WInv
  BY NoEntries DEF Init, WInv, WalletWithinLedger, Covered, At, Idle
<1>2. WInv => WalletWithinLedger
  BY DEF WInv
<1>. QED
  BY <1>1, <1>2, Invariance, WithinStep, PTL DEF Spec

---------------------------------------------------------------------------
(* One request at a time *)

\* One session makes all the requests, so that each of them ends before the next begins.
\* With two sessions the properties below are false: TLC shows it in runs of their own.
OneAtATime == \A s1, s2 \in Sessions : s1 = s2

\* What a request has read is still what the rows hold.
Current(s) ==
    LET r == sess[s] IN
    /\ r.pc \in {"store", "keyLookup", "apply", "seller", "sink"} => r.seenOrder = order[r.ord]
    /\ r.pc = "transition" => r.target \in Allowed[order[r.ord]]
    /\ r.pc \in {"seller", "sink"} => r.seenSeller = balance[SellerOf[r.ord]]
    /\ r.pc = "sink" => r.seenSink = balance[FeeSink]

\* An order that has a payment has passed the state payments start from, and its payment
\* is the only one.
BeforePayment == {"DRAFT", "OFFERED", "NEGOTIATING", "ACCEPTED"}
OnePayment ==
    /\ \A t \in Txns : txnOrder[t] # None => order[txnOrder[t]] \notin BeforePayment
    /\ \A t1, t2 \in Txns : txnOrder[t1] # None /\ txnOrder[t1] = txnOrder[t2] => t1 = t2

OneInv ==
    /\ \A s \in Sessions : Current(s)
    /\ OnePayment
    /\ Entries
    /\ BalanceIsLedgerSum

\* What a step of the only session does to orders, payments and books.
OrderMoves == \A o \in Orders : order'[o] = order[o] \/ order'[o] \in Allowed[order[o]]
Steps ==
    /\ \A s \in Sessions : Current(s)'
    /\ OrderMoves
    /\ \/ UNCHANGED txnOrder
       \/ \E t \in Txns, o \in Orders :
             /\ txnOrder[t] = None /\ txnOrder' = [txnOrder EXCEPT ![t] = o]
             /\ order[o] = "ACCEPTED" /\ order'[o] = "PAYMENT_PENDING"

LEMMA GraphFacts ==
  /\ \A x \in OrderStates \ BeforePayment : Allowed[x] \cap BeforePayment = {}
  /\ "PAID" \in Allowed["PAYMENT_PENDING"]
  /\ \A x \in OrderStates : "PAYMENT_PENDING" \in Allowed[x] => x = "ACCEPTED"
  BY DEF Allowed, OrderStates, BeforePayment

\* A step of the session to a record that relies on nothing, by rows it leaves alone.
LEMMA OneReads ==
  ASSUME OneAtATime, IInv, NEW s \in Sessions, NEW r, Become(s, r), UNCHANGED db,
         r.pc \in {"store", "keyLookup", "apply", "seller", "sink"} => r.seenOrder = order[r.ord],
         r.pc = "transition" => r.target \in Allowed[order[r.ord]],
         r.pc \in {"seller", "sink"} => r.seenSeller = balance[SellerOf[r.ord]],
         r.pc = "sink" => r.seenSink = balance[FeeSink]
  PROVE  Steps
<1>1. \A s2 \in Sessions : s2 = s
  BY DEF OneAtATime
<1>2. sess'[s] = r /\ order' = order /\ balance' = balance /\ txnOrder' = txnOrder
  BY DEF Become, db, IInv, TypeOK
<1>. QED
  BY <1>1, <1>2 DEF Steps, Current, OrderMoves

\* A step of the session that ends the request or all but its last part.
LEMMA OneEnds ==
  ASSUME OneAtATime, IInv, NEW s \in Sessions, NEW r, Become(s, r), r.pc \in {"idle", "finish", "record"},
         OrderMoves, UNCHANGED txnOrder
  PROVE  Steps
<1>1. \A s2 \in Sessions : s2 = s
  BY DEF OneAtATime
<1>2. sess'[s] = r
  BY DEF Become, IInv, TypeOK
<1>. QED
  BY <1>1, <1>2 DEF Steps, Current

LEMMA OneStep ==
  ASSUME OneAtATime, IInv, OneInv, [Next]_vars
  PROVE  Steps
<1> USE DEF OneInv
<1>1. /\ sess \in [Sessions -> SessionType] /\ order \in [Orders -> OrderStates]
      /\ \A s \in Sessions : sess[s] \in SessionType /\ RequestOK(sess[s])
  BY RequestFacts DEF IInv, TypeOK
<1>2. \A r : [Idle EXCEPT !.pc = "finish", !.notice = r].pc = "finish" /\ Idle.pc = "idle"
  BY DEF Idle
<1>3. UNCHANGED order => OrderMoves
  BY DEF OrderMoves
<1>4. UNCHANGED <<db, sess>> => Steps
  BY <1>3 DEF db, Steps, Current
<1>5. ASSUME NEW s \in Sessions, NEW o \in Orders, InitiateRead(s, o) PROVE Steps
  <2>1. [Idle EXCEPT !.pc = "keyLookup", !.ord = o, !.seenOrder = order[o]].pc = "keyLookup"
        /\ [Idle EXCEPT !.pc = "keyLookup", !.ord = o, !.seenOrder = order[o]].ord = o
        /\ [Idle EXCEPT !.pc = "keyLookup", !.ord = o, !.seenOrder = order[o]].seenOrder = order[o]
    BY DEF Idle
  <2>. QED
    BY <1>5, <2>1, OneReads DEF InitiateRead, db
<1>6. ASSUME NEW s \in Sessions, NEW n \in Notices, ReceiveWebhook(s, n) PROVE Steps
  <2>1. [Idle EXCEPT !.pc = "record", !.notice = n].pc = "record"
    BY DEF Idle
  <2>. QED
    BY <1>3, <1>6, <2>1, OneEnds DEF ReceiveWebhook, db
<1>7. ASSUME NEW s \in Sessions, NEW o \in Orders, NEW role \in Roles, NEW to \in OrderStates,
             TransitionRead(s, o, role, to)
      PROVE  Steps
  <2> DEFINE r == [Idle EXCEPT !.pc = "transition", !.ord = o, !.target = to]
  <2>1. r.pc = "transition" /\ r.ord = o /\ r.target = to
    BY DEF Idle
  <2>2. to \in Allowed[order[o]] /\ Become(s, r) /\ UNCHANGED db
    BY <1>7 DEF TransitionRead, Accepts, db
  <2> HIDE DEF r
  <2>. QED
    BY <2>1, <2>2, OneReads
<1>8. ASSUME NEW s \in Sessions,
             \/ InitiateReturnsExisting(s) \/ InitiateRefused(s) \/ RecordConflict(s)
             \/ RecordAndStop(s) \/ ApplyNothing(s) \/ ApplyRefunded(s) \/ ZeroFeeRefused(s)
             \/ MarkProcessed(s) \/ Rollback(s)
      PROVE  Steps
  <2>1. Become(s, Idle) /\ UNCHANGED <<order, txnOrder>>
    BY <1>8 DEF InitiateReturnsExisting, InitiateRefused, RecordConflict, RecordAndStop,
       ApplyNothing, ApplyRefunded, ZeroFeeRefused, MarkProcessed, Rollback, db
  <2>. QED
    BY <1>2, <1>3, <2>1, OneEnds
<1>9. ASSUME NEW s \in Sessions, ApplyFailed(s) PROVE Steps
  <2>1. Become(s, [Idle EXCEPT !.pc = "finish", !.notice = sess[s].notice]) /\ UNCHANGED <<order, txnOrder>>
    BY <1>9 DEF ApplyFailed
  <2>. QED
    BY <1>2, <1>3, <2>1, OneEnds
<1>10. ASSUME NEW s \in Sessions, NEW t \in Txns, InitiateCharge(s, t) PROVE Steps
  <2> DEFINE r == [sess[s] EXCEPT !.pc = "store", !.txn = t, !.target = keyed[sess[s].ord]]
  <2>1. r.pc = "store" /\ r.ord = sess[s].ord /\ r.seenOrder = sess[s].seenOrder
    BY <1>1 DEF SessionType
  <2>2. Current(s) /\ At(s, "keyLookup") /\ Become(s, r) /\ UNCHANGED db
    BY <1>10 DEF InitiateCharge, db
  <2> HIDE DEF r
  <2>. QED
    BY <2>1, <2>2, OneReads DEF Current, At
<1>11. ASSUME NEW s \in Sessions, RecordAndRead(s) PROVE Steps
  <2> DEFINE n == sess[s].notice
             o == txnOrder[n.txn]
             r == [Idle EXCEPT !.pc = "apply", !.notice = n, !.txn = n.txn, !.ord = o,
                               !.seenTxn = txnState[n.txn], !.seenOrder = order[o]]
  <2>1. r.pc = "apply" /\ r.ord = o /\ r.seenOrder = order[o]
    BY DEF Idle
  <2>2. Become(s, r) /\ UNCHANGED db
    BY <1>11 DEF RecordAndRead, db
  <2> HIDE DEF r
  <2>. QED
    BY <2>1, <2>2, OneReads
<1>12. ASSUME NEW s \in Sessions, SucceedFlush(s) PROVE Steps
  <2> DEFINE r == [sess[s] EXCEPT !.pc = "seller", !.seenSeller = balance[SellerOf[sess[s].ord]]]
  <2>1. /\ r.pc = "seller" /\ r.ord = sess[s].ord /\ r.seenOrder = sess[s].seenOrder
        /\ r.seenSeller = balance[SellerOf[sess[s].ord]]
    BY <1>1 DEF SessionType
  <2>2. Current(s) /\ At(s, "apply") /\ Become(s, r) /\ UNCHANGED db
    BY <1>12 DEF SucceedFlush, db
  <2> HIDE DEF r
  <2>. QED
    BY <2>1, <2>2, OneReads DEF Current, At
<1>13. ASSUME NEW s \in Sessions, CreditSeller(s) PROVE Steps
  <2> DEFINE r == [sess[s] EXCEPT !.pc = "sink", !.seenSink = balance[FeeSink]]
  <2>1. /\ r.pc = "sink" /\ r.ord = sess[s].ord /\ r.seenOrder = sess[s].seenOrder
        /\ r.seenSeller = sess[s].seenSeller /\ r.seenSink = balance[FeeSink]
    BY <1>1 DEF SessionType
  <2>2. Current(s) /\ At(s, "seller") /\ Become(s, r) /\ UNCHANGED db
    BY <1>13 DEF CreditSeller, db
  <2> HIDE DEF r
  <2>. QED
    BY <2>1, <2>2, OneReads DEF Current, At
<1>14. ASSUME NEW s \in Sessions, CommitSuccess(s) PROVE Steps
  <2>1. /\ Become(s, [Idle EXCEPT !.pc = "finish", !.notice = sess[s].notice])
        /\ order' = OrderAfter(s) /\ UNCHANGED txnOrder
        /\ Current(s) /\ sess[s].pc = "sink"
    BY <1>14 DEF CommitSuccess, At
  <2>2. OrderMoves
    BY <1>1, <2>1, GraphFacts DEF OrderMoves, OrderAfter, Current
  <2>. QED
    BY <1>2, <2>1, <2>2, OneEnds
<1>15. ASSUME NEW s \in Sessions, TransitionCommit(s) PROVE Steps
  <2>1. /\ Become(s, Idle) /\ order' = [order EXCEPT ![sess[s].ord] = sess[s].target]
        /\ UNCHANGED txnOrder /\ Current(s) /\ sess[s].pc = "transition"
    BY <1>15 DEF TransitionCommit, At
  <2>2. OrderMoves
    BY <1>1, <2>1 DEF OrderMoves, Current
  <2>. QED
    BY <1>2, <2>1, <2>2, OneEnds
<1>16. ASSUME NEW s \in Sessions, InitiateStore(s) PROVE Steps
  <2> DEFINE o == sess[s].ord
             t == sess[s].txn
  <2>1. /\ o \in Orders /\ t \in Txns /\ txnOrder[t] = None /\ order[o] \in OrderStates
        /\ Current(s) /\ sess[s].pc = "store"
    BY <1>1, <1>16 DEF RequestOK, InitiateStore, At, IInv, Consistent
  <2>2. order[o] = "ACCEPTED" /\ "PAYMENT_PENDING" \in Allowed[order[o]]
    BY <1>16, <2>1, GraphFacts DEF InitiateStore, CanStore, Accepts, Current
  <2>3. /\ txnOrder' = [txnOrder EXCEPT ![t] = o] /\ sess'[s] = Idle
        /\ order' = [order EXCEPT ![o] = "PAYMENT_PENDING"]
    BY <1>1, <1>16 DEF InitiateStore, Become
  <2>4. order'[o] = "PAYMENT_PENDING" /\ OrderMoves
    BY <1>1, <2>1, <2>2, <2>3 DEF OrderMoves
  <2>5. \A s2 \in Sessions : s2 = s
    BY DEF OneAtATime
  <2> HIDE DEF o, t
  <2>6. \E t2 \in Txns, o2 \in Orders :
             /\ txnOrder[t2] = None /\ txnOrder' = [txnOrder EXCEPT ![t2] = o2]
             /\ order[o2] = "ACCEPTED" /\ order'[o2] = "PAYMENT_PENDING"
    BY <2>1, <2>2, <2>3, <2>4
  <2>. QED
    BY <1>2, <2>3, <2>4, <2>5, <2>6 DEF Steps, Current
<1>17. ASSUME NEW s \in Sessions, Continue(s) PROVE Steps
  BY <1>8, <1>9, <1>10, <1>11, <1>12, <1>13, <1>14, <1>15, <1>16, <1>17 DEF Continue
<1>18. UNCHANGED vars => UNCHANGED <<db, sess>>
  BY DEF vars, db
<1>19. \A t \in Txns : ProviderLapses(t) => UNCHANGED <<db, sess>>
  BY DEF ProviderLapses
<1>20. \A n \in Notices : ProviderRepeats(n.txn, n.report, n.copy) => UNCHANGED <<db, sess>>
  BY DEF ProviderRepeats
<1>21. \A t \in Txns, r \in Reports : ProviderDecides(t, r) => UNCHANGED <<db, sess>>
  BY DEF ProviderDecides
<1>. QED
  BY <1>4, <1>5, <1>6, <1>7, <1>8, <1>17, <1>18, <1>19, <1>20, <1>21 DEF Next

LEMMA OnePaymentStep ==
  ASSUME IInv, OnePayment, Steps
  PROVE  OnePayment'
<1>1. ASSUME NEW t \in Txns, txnOrder[t] # None
      PROVE  txnOrder[t] \in Orders /\ order'[txnOrder[t]] \notin BeforePayment
  <2>1. txnOrder[t] \in Orders /\ order[txnOrder[t]] \in OrderStates \ BeforePayment
    BY <1>1 DEF IInv, TypeOK, OnePayment
  <2>. QED
    BY <2>1, GraphFacts DEF Steps, OrderMoves
<1>2. CASE UNCHANGED txnOrder
  BY <1>1, <1>2 DEF OnePayment
<1>3. ASSUME NEW t \in Txns, NEW o \in Orders, txnOrder[t] = None,
             txnOrder' = [txnOrder EXCEPT ![t] = o], order[o] = "ACCEPTED",
             order'[o] = "PAYMENT_PENDING"
      PROVE  OnePayment'
  <2>1. \A t2 \in Txns \ {t} : txnOrder'[t2] = txnOrder[t2] /\ txnOrder[t2] # o
    BY <1>3 DEF IInv, TypeOK, OnePayment, BeforePayment
  <2>2. txnOrder'[t] = o
    BY <1>3 DEF IInv, TypeOK
  <2>. QED
    BY <1>1, <1>3, <2>1, <2>2 DEF OnePayment, BeforePayment
<1>. QED
  BY <1>2, <1>3 DEF Steps

LEMMA OneBooksStep ==
  ASSUME IInv, OneInv, [Next]_vars
  PROVE  Entries' /\ BalanceIsLedgerSum'
<1>1. /\ Entries /\ balance \in [Wallets -> Nat]
      /\ \A w : LedgerSum(w) \in Nat
  BY LedgerSumType DEF OneInv, IInv, TypeOK
<1>2. ASSUME NEW s \in Sessions, CommitSuccess(s) PROVE Entries' /\ BalanceIsLedgerSum'
  <2> DEFINE o == sess[s].ord
  <2>1. /\ o \in Orders /\ Entries' /\ At(s, "sink")
        /\ SellerOf[o] \in Wallets /\ FeeSink \in Wallets
        /\ Net[o] \in Nat /\ Fee[o] \in Nat /\ SellerOf[o] # FeeSink
    BY <1>1, <1>2, CommitBooks DEF Wallets
  <2>2. sess[s].seenSeller = balance[SellerOf[o]] /\ sess[s].seenSink = balance[FeeSink]
    BY <2>1 DEF OneInv, Current, At
  <2>3. ASSUME NEW w \in Wallets PROVE balance'[w] = LedgerSum(w)'
    <3>1. balance[w] = LedgerSum(w)
      BY DEF OneInv, BalanceIsLedgerSum
    <3>2. \/ balance' = balance /\ LedgerSum(w)' = LedgerSum(w)
          \/ /\ balance' = [balance EXCEPT ![SellerOf[o]] = sess[s].seenSeller + Net[o],
                                           ![FeeSink] = sess[s].seenSink + Fee[o]]
             /\ LedgerSum(w)' = LedgerSum(w) + (IF w = SellerOf[o] THEN Net[o] ELSE 0)
                                             + (IF w = FeeSink THEN Fee[o] ELSE 0)
      BY <1>1, <1>2, CommitBooks
    <3> HIDE DEF o
    <3>. QED
      BY <1>1, <2>1, <2>2, <3>1, <3>2
  <2>. QED
    BY <2>1, <2>3 DEF BalanceIsLedgerSum
<1>3. CASE ~\E s \in Sessions : CommitSuccess(s)
  <2>1. /\ UNCHANGED <<ledger, balance>>
        /\ \A t \in Txns : txnOrder[t] # None => txnOrder'[t] = txnOrder[t]
    BY <1>3, BooksStep
  <2>2. \A w : LedgerSum(w)' = LedgerSum(w)
    BY <1>1, <2>1, LedgerSumStays
  <2>. QED
    BY <1>1, <2>1, <2>2 DEF OneInv, BalanceIsLedgerSum, Entries
<1>. QED
  BY <1>2, <1>3

LEMMA OneInvariance ==
  ASSUME OneAtATime
  PROVE  Spec => []OneInv
<1>1. Init => OneInv
  <2> SUFFICES ASSUME Init PROVE OneInv
    OBVIOUS
  <2>1. \A s \in Sessions : Current(s)
    BY DEF Init, Current, Idle
  <2>2. OnePayment
    BY DEF Init, OnePayment
  <2>. QED
    BY <2>1, <2>2, NoEntries DEF Init, OneInv, BalanceIsLedgerSum
<1>2. IInv /\ OneInv /\ [Next]_vars => OneInv'
  <2> SUFFICES ASSUME IInv, OneInv, [Next]_vars PROVE OneInv'
    OBVIOUS
  <2>1. Steps
    BY OneStep
  <2>. QED
    BY <2>1, OnePaymentStep, OneBooksStep DEF OneInv, Steps
<1>. QED
  BY <1>1, <1>2, Invariance, PTL DEF Spec

\* As long as requests come one after the other, every balance is the sum of the wallet's
\* ledger entries.
THEOREM BooksBalance ==
  ASSUME OneAtATime
  PROVE  Spec => []BalanceIsLedgerSum
<1>1. OneInv => BalanceIsLedgerSum
  BY DEF OneInv
<1>. QED
  BY <1>1, OneInvariance, PTL

\* As long as requests come one after the other, no seller is credited twice for an order:
\* a second payment of it is never stored.
THEOREM CreditedOnce ==
  ASSUME OneAtATime
  PROVE  Spec => []OrderCreditedOnce
<1>1. IInv /\ OneInv => OrderCreditedOnce
  BY DEF IInv, Consistent, OneInv, OnePayment, OrderCreditedOnce
<1>. QED
  BY <1>1, Invariance, OneInvariance, PTL

\* As long as requests come one after the other, orders move along the edges of the graph.
THEOREM OrdersOnGraph ==
  ASSUME OneAtATime
  PROVE  Spec => OrderOnGraph
<1>1. IInv /\ OneInv /\ [Next]_vars =>
        [\A o \in Orders : order'[o] # order[o] => order'[o] \in Allowed[order[o]]]_vars
  BY OneStep DEF Steps, OrderMoves
<1>. QED
  BY <1>1, Invariance, OneInvariance, PTL DEF Spec, OrderOnGraph
===========================================================================
