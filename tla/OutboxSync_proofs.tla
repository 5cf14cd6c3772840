------------------------- MODULE OutboxSync_proofs -------------------------
(***************************************************************************)
(* Theorems about OutboxSync for every number of messages, phones,          *)
(* conversations and requests.                                              *)
(***************************************************************************)
EXTENDS OutboxSync, SequenceTheorems, TLAPS

RequestType == [pc : {"idle", "look", "number", "committed"},
                via : {"post", "push"}, ops : Seq(Ops), at : Nat \ {0},
                new : SUBSET Stored, done : SUBSET Ops, known : SUBSET Ops]

\* What is committed: each number up to the counter was used for one message, and each
\* message has one number.
Numbered ==
    /\ \A c \in Conversations : \A i \in 1..counter[c] :
          \E m \in messages : Room[m.op] = c /\ m.seq = i
    /\ \A m \in messages : m.seq <= counter[Room[m.op]]
    /\ \A m, n \in messages : Room[m.op] = Room[n.op] /\ m.seq = n.seq => m = n
    /\ \A m, n \in messages : m.op = n.op => m = n

\* What request r holds when its record is x: the numbers above the counter of each
\* conversation it has locked, one for each message it is about to store, none of which
\* is stored yet.
Holds(r, x) ==
    /\ \A m \in x.new : /\ lock[Room[m.op]].by = r /\ ~IsStored(m.op)
                        /\ counter[Room[m.op]] < m.seq /\ m.seq <= lock[Room[m.op]].seq
    /\ \A m, n \in x.new : Room[m.op] = Room[n.op] /\ m.seq = n.seq => m = n
    /\ \A m, n \in x.new : m.op = n.op => m = n
    /\ \A c \in Conversations : lock[c].by = r =>
          /\ x.pc \in {"look", "number"} /\ counter[c] <= lock[c].seq
          /\ \A i \in (counter[c] + 1)..lock[c].seq :
                \E m \in x.new : Room[m.op] = c /\ m.seq = i

\* How far a request has come: what it went through is stored or about to be.
Served(x, o) == IsStored(o) \/ \E m \in x.new : m.op = o
Progress(x) ==
    /\ \A o \in x.done : Served(x, o)
    /\ x.pc = "number" => x.at <= Len(x.ops)
    /\ x.via = "push" => /\ \A m \in x.new : m.op \in x.done
                         /\ x.pc = "number" => x.ops[x.at] \notin x.done
    /\ x.via = "post" /\ x.pc # "idle" =>
          /\ Len(x.ops) = 1
          /\ x.at = 1 => x.new = {}
          /\ x.at > 1 => Served(x, x.ops[1])
          /\ x.pc = "committed" => IsStored(x.ops[1])

IInv ==
    /\ TypeOK
    /\ Numbered
    /\ \A r \in Requests : Holds(r, request[r]) /\ Progress(request[r])
    /\ AcknowledgedIsStored

USE OutboxAssumption

LEMMA InitInv == Init => IInv
  BY DEF Init, IInv, TypeOK, Numbered, Holds, Progress, Served, AcknowledgedIsStored, NoRequest, IsStored, Ops

---------------------------------------------------------------------------
(* Requests and phones *)

\* A step that keeps the tables and the locks and gives one request a record that fits
\* them keeps the invariant.
LEMMA RecordStep ==
  ASSUME IInv, NEW r \in Requests, NEW x \in RequestType, Become(r, x),
         Holds(r, x), Progress(x), UNCHANGED <<tables, lock>>,
         phone' \in [Ops -> {"unsent", "posting", "queued", "sent", "forgotten"}],
         \A o \in Ops : phone'[o] = "sent" => IsStored(o),
         outbox' \in [Phones -> Seq(Ops)], barred' \subseteq Phones \X Conversations, calm' \in BOOLEAN
  PROVE  IInv'
<1>1. request \in [Requests -> RequestType] /\ request' = [request EXCEPT ![r] = x]
  BY DEF IInv, TypeOK, RequestType, Become
<1>2. UNCHANGED <<messages, counter, records, lock>>
  BY DEF tables
<1>3. TypeOK'
  BY <1>1, <1>2 DEF IInv, TypeOK, RequestType
<1>4. Numbered'
  BY <1>2 DEF IInv, Numbered
<1>5. \A s \in Requests : (Holds(s, request[s]) /\ Progress(request[s]))'
  <2>. SUFFICES ASSUME NEW s \in Requests PROVE (Holds(s, request[s]) /\ Progress(request[s]))'
    OBVIOUS
  <2>1. Holds(s, request'[s]) /\ Progress(request'[s])
    BY <1>1 DEF IInv
  <2>. QED
    BY <2>1, <1>2 DEF Holds, Progress, Served, IsStored
<1>6. AcknowledgedIsStored'
  BY <1>2 DEF IInv, AcknowledgedIsStored, IsStored
<1>. QED
  BY <1>3, <1>4, <1>5, <1>6 DEF IInv

\* The same for a step that leaves the requests alone.
LEMMA PhoneStep ==
  ASSUME IInv, UNCHANGED <<tables, lock, request>>,
         phone' \in [Ops -> {"unsent", "posting", "queued", "sent", "forgotten"}],
         \A o \in Ops : phone'[o] = "sent" => phone[o] = "sent",
         outbox' \in [Phones -> Seq(Ops)], barred' \subseteq Phones \X Conversations, calm' \in BOOLEAN
  PROVE  IInv'
<1>2. UNCHANGED <<messages, counter, records, lock, request>>
  BY DEF tables
<1>3. TypeOK'
  BY <1>2 DEF IInv, TypeOK
<1>4. Numbered'
  BY <1>2 DEF IInv, Numbered
<1>5. \A s \in Requests : (Holds(s, request[s]) /\ Progress(request[s]))'
  <2>. SUFFICES ASSUME NEW s \in Requests PROVE (Holds(s, request[s]) /\ Progress(request[s]))'
    OBVIOUS
  <2>1. Holds(s, request[s]) /\ Progress(request[s])
    BY DEF IInv
  <2>2. Holds(s, request[s])'
    BY <2>1, <1>2 DEF Holds, IsStored
  <2>3. Progress(request[s])'
    BY <2>1, <1>2 DEF Progress, Served, IsStored
  <2>. QED
    BY <2>2, <2>3
<1>6. AcknowledgedIsStored'
  BY <1>2 DEF IInv, AcknowledgedIsStored, IsStored
<1>. QED
  BY <1>3, <1>4, <1>5, <1>6 DEF IInv

\* An idle or answered request holds nothing, so its place may be given away.
LEMMA FreshOK ==
  ASSUME IInv, NEW r \in Requests, request[r].pc \in {"idle", "committed"},
         NEW via \in {"post", "push"}, NEW ops \in Seq(Ops), via = "post" => Len(ops) = 1
  PROVE  /\ NoRequest \in RequestType /\ Holds(r, NoRequest) /\ Progress(NoRequest)
         /\ Asks(via, ops) \in RequestType /\ Holds(r, Asks(via, ops)) /\ Progress(Asks(via, ops))
<1>1. \A c \in Conversations : lock[c].by # r
  BY DEF IInv, Holds
<1>2. NoRequest \in RequestType /\ Asks(via, ops) \in RequestType
  <2>1. << >> \in Seq(Ops)
    OBVIOUS
  <2>2. NoRequest \in RequestType
    BY <2>1 DEF NoRequest, RequestType
  <2>. QED
    BY <2>2 DEF Asks, RequestType
<1>3. Holds(r, NoRequest) /\ Holds(r, Asks(via, ops))
  BY <1>1 DEF Holds, NoRequest, Asks
<1>4. Progress(NoRequest) /\ Progress(Asks(via, ops))
  BY DEF Progress, NoRequest, Asks
<1>. QED
  BY <1>2, <1>3, <1>4

LEMMA PendingType ==
  ASSUME TypeOK, NEW p \in Phones
  PROVE  Pending(p) \in Seq(Ops)
<1>. DEFINE n == IF Len(outbox[p]) < Batch THEN Len(outbox[p]) ELSE Batch
<1>1. outbox[p] \in Seq(Ops) /\ n \in Int /\ n <= Len(outbox[p])
  BY DEF TypeOK
<1>2. \A i \in 1..n : outbox[p][i] \in Ops
  BY <1>1
<1>. QED
  BY <1>1, <1>2, SubSeqProperties DEF Pending

LEMMA ComposeInv ==
  ASSUME IInv, NEW o \in Ops, NEW r \in Requests, Compose(o, r)
  PROVE  IInv'
<1>. USE DEF Compose, At
<1>1. <<o>> \in Seq(Ops) /\ Len(<<o>>) = 1
  OBVIOUS
<1>2. Asks("post", <<o>>) \in RequestType /\ Holds(r, Asks("post", <<o>>)) /\ Progress(Asks("post", <<o>>))
  BY <1>1, FreshOK
<1>3. UNCHANGED <<tables, lock>> /\ outbox' \in [Phones -> Seq(Ops)] /\ calm' \in BOOLEAN
        /\ barred' \subseteq Phones \X Conversations
  BY DEF IInv, TypeOK
<1>4. /\ phone' \in [Ops -> {"unsent", "posting", "queued", "sent", "forgotten"}]
      /\ \A q \in Ops : phone'[q] = "sent" => IsStored(q)
  BY DEF IInv, TypeOK, AcknowledgedIsStored
<1>. QED
  BY <1>2, <1>3, <1>4, RecordStep

LEMMA AnswerInv ==
  ASSUME IInv, NEW r \in Requests, Answer(r)
  PROVE  IInv'
<1>. USE DEF At
<1>1. request[r].pc = "committed" /\ Become(r, NoRequest) /\ UNCHANGED <<tables, lock, barred, calm>>
  BY DEF Answer, PostSucceeded, PushAnswered, Lost
<1>2. NoRequest \in RequestType /\ Holds(r, NoRequest) /\ Progress(NoRequest)
  <2>1. << >> \in Seq(Ops)
    OBVIOUS
  <2>. QED
    BY <1>1, <2>1, FreshOK
<1>3. calm' \in BOOLEAN /\ barred' \subseteq Phones \X Conversations
  BY <1>1 DEF IInv, TypeOK
<1>4. outbox' \in [Phones -> Seq(Ops)]
  <2>1. outbox \in [Phones -> Seq(Ops)]
    BY DEF IInv, TypeOK
  <2>2. Cleared(r) = {}
    BY DEF Cleared, AnswerOfPush
  <2>3. \A p \in Phones : Kept(outbox[p], Cleared(r)) = outbox[p]
    BY <2>2 DEF Kept
  <2>4. CASE PushAnswered(r)
    BY <2>1, <2>3, <2>4 DEF PushAnswered
  <2>5. CASE PostSucceeded(r) \/ Lost(r)
    BY <2>1, <2>5 DEF PostSucceeded, Lost, client
  <2>. QED
    BY <2>4, <2>5 DEF Answer
<1>5. /\ phone' \in [Ops -> {"unsent", "posting", "queued", "sent", "forgotten"}]
      /\ \A q \in Ops : phone'[q] = "sent" => IsStored(q)
  <2>1. CASE PostSucceeded(r)
    BY <2>1, <1>1 DEF PostSucceeded, IInv, TypeOK, AcknowledgedIsStored, Progress
  <2>2. CASE PushAnswered(r) \/ Lost(r)
    BY <2>2 DEF PushAnswered, Lost, client, IInv, TypeOK, AcknowledgedIsStored
  <2>. QED
    BY <2>1, <2>2 DEF Answer
<1>. QED
  BY <1>1, <1>2, <1>3, <1>4, <1>5, RecordStep

LEMMA PushInv ==
  ASSUME IInv, NEW p \in Phones, NEW r \in Requests, Push(p, r)
  PROVE  IInv'
<1>. USE DEF Push, At
<1>1. Pending(p) \in Seq(Ops)
  BY PendingType DEF IInv
<1>2. /\ Asks("push", Pending(p)) \in RequestType
      /\ Holds(r, Asks("push", Pending(p))) /\ Progress(Asks("push", Pending(p)))
  BY <1>1, FreshOK
<1>3. UNCHANGED <<tables, lock>> /\ outbox' \in [Phones -> Seq(Ops)] /\ calm' \in BOOLEAN
        /\ barred' \subseteq Phones \X Conversations
  BY DEF IInv, TypeOK, client
<1>4. /\ phone' \in [Ops -> {"unsent", "posting", "queued", "sent", "forgotten"}]
      /\ \A q \in Ops : phone'[q] = "sent" => IsStored(q)
  BY DEF IInv, TypeOK, AcknowledgedIsStored, client
<1>. QED
  BY <1>2, <1>3, <1>4, RecordStep

LEMMA PostFailedInv ==
  ASSUME IInv, NEW o \in Ops, PostFailed(o)
  PROVE  IInv'
<1>1. phone \in [Ops -> {"unsent", "posting", "queued", "sent", "forgotten"}] /\ outbox \in [Phones -> Seq(Ops)]
  BY DEF IInv, TypeOK
<1>2. UNCHANGED <<tables, lock, request, calm, barred>>
  BY DEF PostFailed
<1>3. calm' \in BOOLEAN /\ barred' \subseteq Phones \X Conversations
  BY <1>2 DEF IInv, TypeOK
<1>4. /\ phone' \in [Ops -> {"unsent", "posting", "queued", "sent", "forgotten"}]
      /\ \A q \in Ops : phone'[q] = "sent" => phone[q] = "sent"
  BY <1>1 DEF PostFailed
<1>5. outbox' \in [Phones -> Seq(Ops)]
  <2>1. Owner[o] \in Phones /\ Append(outbox[Owner[o]], o) \in Seq(Ops)
    BY <1>1
  <2>. QED
    BY <1>1, <2>1 DEF PostFailed
<1>. QED
  BY <1>2, <1>3, <1>4, <1>5, PhoneStep

LEMMA OtherPhoneInv ==
  ASSUME IInv, \/ \E p \in Phones : AppKilled(p) \/ \E c \in Conversations : Standing(p, c)
               \/ Calm
  PROVE  IInv'
<1>. USE DEF client
<1>1. UNCHANGED <<tables, lock, request, outbox>>
  BY DEF AppKilled, Standing, Calm
<1>2. /\ phone \in [Ops -> {"unsent", "posting", "queued", "sent", "forgotten"}]
      /\ calm \in BOOLEAN /\ barred \subseteq Phones \X Conversations
      /\ outbox' \in [Phones -> Seq(Ops)]
  BY <1>1 DEF IInv, TypeOK
<1>3. /\ phone' \in [Ops -> {"unsent", "posting", "queued", "sent", "forgotten"}]
      /\ \A o \in Ops : phone'[o] = "sent" => phone[o] = "sent"
  BY <1>2 DEF AppKilled, Standing, Calm
<1>4. calm' \in BOOLEAN
  BY <1>2 DEF AppKilled, Standing, Calm
<1>5. barred' \subseteq Phones \X Conversations
  <2>1. CASE \E p \in Phones, c \in Conversations : Standing(p, c)
    <3>. PICK p \in Phones, c \in Conversations : Standing(p, c)
      BY <2>1
    <3>1. barred' = barred \ {<<p, c>>} \/ barred' = barred \cup {<<p, c>>}
      BY DEF Standing
    <3>. QED
      BY <3>1, <1>2
  <2>2. CASE (\E p \in Phones : AppKilled(p)) \/ Calm
    BY <2>2, <1>2 DEF AppKilled, Calm
  <2>. QED
    BY <2>1, <2>2
<1>. QED
  BY <1>1, <1>2, <1>3, <1>4, <1>5, PhoneStep

---------------------------------------------------------------------------
(* Transactions *)

\* The record of a request, unfolded.
LEMMA RecordFacts ==
  ASSUME IInv, NEW r \in Requests
  PROVE  /\ request[r] \in RequestType /\ Holds(r, request[r]) /\ Progress(request[r])
         /\ request[r].at <= Len(request[r].ops) => Current(r) \in Ops /\ Room[Current(r)] \in Conversations
<1>1. request[r] \in RequestType /\ Holds(r, request[r]) /\ Progress(request[r])
  BY DEF IInv, TypeOK, RequestType
<1>2. request[r].ops \in Seq(Ops) /\ request[r].at \in Nat \ {0}
  BY <1>1 DEF RequestType
<1>3. request[r].at <= Len(request[r].ops) => Current(r) \in Ops
  BY <1>2 DEF Current
<1>. QED
  BY <1>1, <1>3

\* Steps that only read: one more operation that is known, stored, or new.
LEMMA LookInv ==
  ASSUME IInv, NEW r \in Requests, Repeated(r) \/ Found(r) \/ New(r)
  PROVE  IInv'
<1>. USE DEF At, HasMore
<1>. DEFINE o == Current(r)
            x == request[r]
<1>1. /\ x \in RequestType /\ Holds(r, x) /\ Progress(x)
      /\ x.pc = "look" /\ x.at <= Len(x.ops) /\ o \in Ops
  BY RecordFacts DEF Repeated, Found, New
<1>2. UNCHANGED <<tables, lock, phone, outbox, barred, calm>>
  BY DEF Repeated, Found, New, client
<1>3. /\ phone' \in [Ops -> {"unsent", "posting", "queued", "sent", "forgotten"}]
      /\ \A q \in Ops : phone'[q] = "sent" => IsStored(q)
      /\ outbox' \in [Phones -> Seq(Ops)] /\ barred' \subseteq Phones \X Conversations /\ calm' \in BOOLEAN
  BY <1>2 DEF IInv, TypeOK, AcknowledgedIsStored
<1>4. CASE Repeated(r)
  <2>. DEFINE y == [x EXCEPT !.at = @ + 1, !.known = @ \cup {o}]
  <2>1. x.via = "push"
    BY <1>4 DEF Repeated, Known
  <2>2. y \in RequestType
    <3>1. x.known \cup {o} \in SUBSET Ops /\ x.at + 1 \in Nat \ {0}
      BY <1>1 DEF RequestType
    <3>. HIDE DEF o
    <3>. QED
      BY <3>1, <1>1 DEF RequestType
  <2>3. y.pc = x.pc /\ y.new = x.new /\ y.done = x.done /\ y.via = x.via
    BY <1>1 DEF RequestType
  <2>4. Holds(r, y) /\ Progress(y)
    BY <1>1, <2>1, <2>3 DEF Holds, Progress, Served
  <2>5. Become(r, y)
    BY <1>4 DEF Repeated
  <2>. QED
    BY <1>2, <1>3, <2>2, <2>4, <2>5, RecordStep
<1>5. CASE Found(r)
  <2>. DEFINE y == [x EXCEPT !.at = @ + 1, !.done = Recorded(r, o)]
  <2>1. IsStored(o) /\ Become(r, y)
    BY <1>5 DEF Found
  <2>2. Recorded(r, o) = x.done \cup (IF x.via = "push" THEN {o} ELSE {})
    BY DEF Recorded
  <2>3. y \in RequestType
    <3>1. Recorded(r, o) \in SUBSET Ops /\ x.at + 1 \in Nat \ {0}
      BY <1>1, <2>2 DEF RequestType
    <3>. QED
      BY <3>1, <1>1 DEF RequestType
  <2>4. /\ y.pc = x.pc /\ y.new = x.new /\ y.via = x.via /\ y.ops = x.ops
        /\ y.done = Recorded(r, o) /\ y.at = x.at + 1
    BY <1>1 DEF RequestType
  <2>5. Holds(r, y)
    BY <1>1, <2>4 DEF Holds
  <2>6. Progress(y)
    <3>1. \A q \in y.done : Served(y, q)
      BY <1>1, <2>1, <2>2, <2>4 DEF Progress, Served
    <3>2. y.via = "post" => x.at = 1 /\ o = x.ops[1]
      BY <1>1, <2>4 DEF Progress, RequestType, Current
    <3>3. y.via = "post" => Served(y, y.ops[1])
      BY <3>2, <2>1, <2>4 DEF Served
    <3>. QED
      BY <1>1, <2>2, <2>4, <3>1, <3>2, <3>3 DEF Progress
  <2>. QED
    BY <1>2, <1>3, <2>1, <2>3, <2>5, <2>6, RecordStep
<1>6. CASE New(r)
  <2>. DEFINE y == [x EXCEPT !.pc = "number"]
  <2>1. ~Known(r, o) /\ Become(r, y)
    BY <1>6 DEF New
  <2>2. y \in RequestType
    BY <1>1 DEF RequestType
  <2>3. /\ y.pc = "number" /\ y.new = x.new /\ y.via = x.via /\ y.ops = x.ops
        /\ y.done = x.done /\ y.at = x.at
    BY <1>1 DEF RequestType
  <2>4. Holds(r, y)
    BY <1>1, <2>3 DEF Holds
  <2>5. x.via = "push" => x.ops[x.at] \notin x.done
    BY <2>1 DEF Known, Current
  <2>6. Progress(y)
    BY <1>1, <2>3, <2>5 DEF Progress, Served
  <2>. QED
    BY <1>2, <1>3, <2>1, <2>2, <2>4, <2>6, RecordStep
<1>. QED
  BY <1>4, <1>5, <1>6

\* A transaction that is undone gives back its locks and the numbers it took.
LEMMA FailInv ==
  ASSUME IInv, NEW r \in Requests, Fail(r)
  PROVE  IInv'
<1>1. /\ request' = [request EXCEPT ![r] = NoRequest] /\ lock' = Unlocked(r)
      /\ UNCHANGED <<phone, outbox, barred, messages, counter, records, calm>>
  BY DEF Fail, Become, client, tables
<1>2. request \in [Requests -> RequestType] /\ NoRequest \in RequestType
  <2>1. << >> \in Seq(Ops)
    OBVIOUS
  <2>. QED
    BY <2>1 DEF IInv, TypeOK, RequestType, NoRequest
<1>3. /\ lock' \in [Conversations -> [by : Requests \cup {Nobody}, seq : Nat]]
      /\ \A c \in Conversations : lock'[c].by # r
      /\ \A c \in Conversations : lock'[c].by = Nobody => lock'[c].seq = counter[c]
      /\ \A c \in Conversations : lock[c].by # r => lock'[c] = lock[c]
      /\ \A c \in Conversations : lock'[c].by # Nobody => lock'[c] = lock[c]
  <2>1. /\ lock \in [Conversations -> [by : Requests \cup {Nobody}, seq : Nat]]
        /\ counter \in [Conversations -> Nat]
        /\ \A c \in Conversations : lock[c].by = Nobody => lock[c].seq = counter[c]
    BY DEF IInv, TypeOK
  <2>2. lock' = [c \in Conversations |-> IF lock[c].by = r THEN [by |-> Nobody, seq |-> counter[c]] ELSE lock[c]]
    BY <1>1 DEF Unlocked
  <2>. QED
    BY <2>1, <2>2
<1>4. TypeOK'
  BY <1>1, <1>2, <1>3 DEF IInv, TypeOK, RequestType
<1>5. Numbered'
  BY <1>1 DEF IInv, Numbered
<1>6. \A s \in Requests : (Holds(s, request[s]) /\ Progress(request[s]))'
  <2>. SUFFICES ASSUME NEW s \in Requests PROVE (Holds(s, request[s]) /\ Progress(request[s]))'
    OBVIOUS
  <2>1. CASE s = r
    <3>1. request'[s] = NoRequest
      BY <1>1, <1>2, <2>1
    <3>2. Holds(s, request[s])'
      BY <3>1, <1>3, <2>1 DEF Holds, NoRequest
    <3>3. Progress(request[s])'
      BY <3>1 DEF Progress, NoRequest
    <3>. QED
      BY <3>2, <3>3
  <2>2. CASE s # r
    <3>1. request'[s] = request[s] /\ request[s] \in RequestType
      BY <1>1, <1>2, <2>2
    <3>2. Holds(s, request[s]) /\ Progress(request[s])
      BY DEF IInv
    <3>3. \A c \in Conversations : lock'[c].by = s => lock'[c] = lock[c]
      BY <1>3
    <3>4. \A m \in request[s].new : Room[m.op] \in Conversations
      BY <3>1 DEF RequestType, Stored
    <3>5. Holds(s, request[s])'
      BY <3>1, <3>2, <3>3, <3>4, <1>1, <1>3, <2>2 DEF Holds, IsStored
    <3>6. Progress(request[s])'
      BY <3>1, <3>2, <1>1 DEF Progress, Served, IsStored
    <3>. QED
      BY <3>5, <3>6
  <2>. QED
    BY <2>1, <2>2
<1>7. AcknowledgedIsStored'
  BY <1>1 DEF IInv, AcknowledgedIsStored, IsStored
<1>. QED
  BY <1>4, <1>5, <1>6, <1>7 DEF IInv

\* A message takes the next number of its conversation, which nobody else has locked; it
\* is neither stored nor one the transaction is already about to store.
LEMMA NumberInv ==
  ASSUME IInv, NEW r \in Requests, Number(r)
  PROVE  IInv'
<1>. DEFINE o == Current(r)
            c == Room[o]
            n == lock[c].seq + 1
            x == request[r]
            y == [x EXCEPT !.pc = "look", !.at = @ + 1,
                           !.new = @ \cup {[op |-> o, seq |-> n]}, !.done = Recorded(r, o)]
<1>1. /\ x \in RequestType /\ Holds(r, x) /\ Progress(x)
      /\ x.pc = "number" /\ x.at <= Len(x.ops) /\ o \in Ops /\ c \in Conversations
  BY RecordFacts DEF Number, At, Progress
<1>2. /\ UNCHANGED <<phone, outbox, barred, messages, counter, records, calm>>
      /\ request' = [request EXCEPT ![r] = y] /\ lock' = [lock EXCEPT ![c] = [by |-> r, seq |-> n]]
      /\ lock[c].by \in {Nobody, r} /\ ~IsStored(o)
  BY DEF Number, Become, client, tables, Free, Fits
<1>3. /\ lock \in [Conversations -> [by : Requests \cup {Nobody}, seq : Nat]]
      /\ counter \in [Conversations -> Nat]
      /\ \A d \in Conversations : lock[d].by = Nobody => lock[d].seq = counter[d]
      /\ request \in [Requests -> RequestType]
  BY DEF IInv, TypeOK, RequestType
<1>4. n \in Nat \ {0} /\ counter[c] < n /\ lock[c].seq < n
  BY <1>1, <1>2, <1>3 DEF Holds
<1>5. y \in RequestType
  <2>1. /\ Recorded(r, o) \in SUBSET Ops /\ x.at + 1 \in Nat \ {0}
        /\ x.new \cup {[op |-> o, seq |-> n]} \in SUBSET Stored
    BY <1>1, <1>4 DEF RequestType, Stored, Recorded
  <2>. HIDE DEF o, n
  <2>. QED
    BY <2>1, <1>1 DEF RequestType
<1>6. PICK z \in RequestType : z = y
  BY <1>5
<1>14. /\ z.pc = "look" /\ z.via = x.via /\ z.ops = x.ops /\ z.at = x.at + 1
      /\ z.new = x.new \cup {[op |-> o, seq |-> n]}
      /\ z.done = x.done \cup (IF x.via = "push" THEN {o} ELSE {})
  BY <1>1, <1>6 DEF RequestType, Recorded
<1>7. /\ lock' \in [Conversations -> [by : Requests \cup {Nobody}, seq : Nat]]
      /\ lock'[c].by = r /\ lock'[c].seq = n
      /\ \A d \in Conversations : d # c => lock'[d] = lock[d]
  <2>. HIDE DEF n, c
  <2>. QED
    BY <1>1, <1>2, <1>3, <1>4
<1>. HIDE DEF y
<1>8. TypeOK'
  <2>1. request' \in [Requests -> RequestType]
    BY <1>2, <1>3, <1>6
  <2>2. \A d \in Conversations : lock'[d].by = Nobody => lock'[d].seq = counter'[d]
    BY <1>2, <1>3, <1>7
  <2>. QED
    BY <1>2, <1>7, <2>1, <2>2 DEF IInv, TypeOK, RequestType
<1>9. Numbered'
  BY <1>2 DEF IInv, Numbered
<1>10. Holds(r, z)'
  <2>. DEFINE k == [op |-> o, seq |-> n]
  <2>. HIDE DEF o, n
  <2>1. k.op = o /\ k.seq = n /\ z.new = x.new \cup {k}
    BY <1>14
  <2>. HIDE DEF k
  <2>2. \A m \in x.new : Room[m.op] \in Conversations /\ m.seq \in Nat /\ m.op \in Ops
    BY <1>1 DEF RequestType, Stored
  <2>3. \A m \in x.new : m.op # o
    <3>1. CASE x.via = "push"
      <4>1. o \notin x.done /\ \A m \in x.new : m.op \in x.done
        BY <3>1, <1>1 DEF Progress, o, Current
      <4>. QED
        BY <4>1
    <3>2. CASE x.via = "post"
      <4>1. x.at \in Nat \ {0} /\ x.at <= 1
        BY <3>2, <1>1 DEF Progress, RequestType
      <4>2. x.new = {}
        BY <3>2, <4>1, <1>1 DEF Progress
      <4>. QED
        BY <4>2
    <3>. QED
      BY <3>1, <3>2, <1>1 DEF RequestType
  <2>4. \A m \in x.new : Room[m.op] = c => m.seq < n
    BY <2>2, <1>1, <1>3, <1>4 DEF Holds
  <2>5. \A m \in z.new : /\ lock'[Room[m.op]].by = r /\ ~IsStored(m.op)
                         /\ counter[Room[m.op]] < m.seq /\ m.seq <= lock'[Room[m.op]].seq
    <3>. SUFFICES ASSUME NEW m \in z.new
                  PROVE  /\ lock'[Room[m.op]].by = r /\ ~IsStored(m.op)
                         /\ counter[Room[m.op]] < m.seq /\ m.seq <= lock'[Room[m.op]].seq
      OBVIOUS
    <3>1. CASE m = k
      BY <3>1, <2>1, <1>2, <1>4, <1>7
    <3>2. CASE m \in x.new /\ Room[m.op] = c
      BY <3>2, <2>2, <2>4, <1>1, <1>4, <1>7 DEF Holds
    <3>3. CASE m \in x.new /\ Room[m.op] # c
      BY <3>3, <2>2, <1>1, <1>7 DEF Holds
    <3>. QED
      BY <3>1, <3>2, <3>3, <2>1
  <2>6. \A m, q \in z.new : Room[m.op] = Room[q.op] /\ m.seq = q.seq => m = q
    BY <2>1, <2>2, <2>4, <1>1, <1>4 DEF Holds
  <2>7. \A m, q \in z.new : m.op = q.op => m = q
    BY <2>1, <2>3, <1>1 DEF Holds
  <2>8. \A d \in Conversations : lock'[d].by = r =>
          /\ z.pc \in {"look", "number"} /\ counter[d] <= lock'[d].seq
          /\ \A i \in (counter[d] + 1)..lock'[d].seq :
                \E m \in z.new : Room[m.op] = d /\ m.seq = i
    <3>. SUFFICES ASSUME NEW d \in Conversations, lock'[d].by = r
                  PROVE  /\ z.pc \in {"look", "number"} /\ counter[d] <= lock'[d].seq
                         /\ \A i \in (counter[d] + 1)..lock'[d].seq :
                               \E m \in z.new : Room[m.op] = d /\ m.seq = i
      OBVIOUS
    <3>1. CASE d # c
      <4>1. lock'[d] = lock[d] /\ lock[d].by = r
        BY <3>1, <1>7
      <4>2. /\ counter[d] <= lock[d].seq
            /\ \A i \in (counter[d] + 1)..lock[d].seq : \E m \in x.new : Room[m.op] = d /\ m.seq = i
        BY <4>1, <1>1 DEF Holds
      <4>. QED
        BY <4>1, <4>2, <2>1, <1>14
    <3>2. CASE d = c
      <4>1. counter[d] <= lock'[d].seq
        BY <3>2, <1>1, <1>3, <1>4, <1>7
      <4>2. ASSUME NEW i \in (counter[d] + 1)..lock'[d].seq
            PROVE  \E m \in z.new : Room[m.op] = d /\ m.seq = i
        <5>1. CASE i = n
          BY <5>1, <3>2, <2>1
        <5>2. CASE i # n
          <6>1. i \in (counter[c] + 1)..lock[c].seq
            BY <5>2, <3>2, <1>1, <1>3, <1>7 DEF n
          <6>2. lock[c].by = r
            BY <6>1, <1>1, <1>2, <1>3
          <6>3. PICK m \in x.new : Room[m.op] = c /\ m.seq = i
            BY <6>1, <6>2, <1>1 DEF Holds
          <6>. QED
            BY <6>3, <3>2, <2>1
        <5>. QED
          BY <5>1, <5>2
      <4>. QED
        BY <4>1, <4>2, <1>14
    <3>. QED
      BY <3>1, <3>2
  <2>. QED
    BY <2>5, <2>6, <2>7, <2>8, <1>2 DEF Holds, IsStored
<1>11. Progress(z)'
  <2>. DEFINE k == [op |-> o, seq |-> n]
  <2>1. k.op = o /\ k \in z.new /\ x.new \subseteq z.new /\ z.new = x.new \cup {k}
    BY <1>14
  <2>. HIDE DEF k
  <2>2. \A q \in z.done : Served(z, q)
    BY <2>1, <1>1, <1>14 DEF Progress, Served
  <2>3. x.via = "post" => x.at = 1 /\ o = x.ops[1]
    BY <1>1 DEF Progress, RequestType, Current
  <2>4. Progress(z)
    BY <2>1, <2>2, <2>3, <1>1, <1>14 DEF Progress, Served
  <2>. QED
    BY <2>4, <1>2 DEF Progress, Served, IsStored
<1>12. \A s \in Requests : (Holds(s, request[s]) /\ Progress(request[s]))'
  <2>. SUFFICES ASSUME NEW s \in Requests PROVE (Holds(s, request[s]) /\ Progress(request[s]))'
    OBVIOUS
  <2>1. CASE s = r
    <3>1. request'[s] = z
      BY <2>1, <1>2, <1>3, <1>6
    <3>. QED
      BY <3>1, <2>1, <1>10, <1>11
  <2>2. CASE s # r
    <3>1. request'[s] = request[s] /\ request[s] \in RequestType
      BY <2>2, <1>2, <1>3
    <3>2. Holds(s, request[s]) /\ Progress(request[s])
      BY DEF IInv
    <3>3. \A d \in Conversations : lock'[d].by = s => lock'[d] = lock[d]
      BY <2>2, <1>7
    <3>4. \A m \in request[s].new : Room[m.op] \in Conversations /\ Room[m.op] # c
      BY <3>1, <3>2, <2>2, <1>2 DEF RequestType, Stored, Holds
    <3>5. \A m \in request[s].new : lock'[Room[m.op]] = lock[Room[m.op]]
      BY <3>4, <1>7
    <3>6. Holds(s, request[s])'
      BY <3>1, <3>2, <3>3, <3>5, <1>2 DEF Holds, IsStored
    <3>7. Progress(request[s])'
      BY <3>1, <3>2, <1>2 DEF Progress, Served, IsStored
    <3>. QED
      BY <3>6, <3>7
  <2>. QED
    BY <2>1, <2>2
<1>13. AcknowledgedIsStored'
  BY <1>2 DEF IInv, AcknowledgedIsStored, IsStored
<1>. QED
  BY <1>8, <1>9, <1>12, <1>13 DEF IInv

\* What a transaction stores continues the conversations it has locked; what the others
\* hold is in other conversations.
LEMMA CommitInv ==
  ASSUME IInv, NEW r \in Requests, Commit(r)
  PROVE  IInv'
<1>. DEFINE x == request[r]
            y == [x EXCEPT !.pc = "committed", !.new = {}, !.done = {}]
<1>1. /\ x \in RequestType /\ Holds(r, x) /\ Progress(x) /\ x.pc = "look" /\ ~(x.at <= Len(x.ops))
  BY RecordFacts DEF Commit, At, HasMore
<1>2. /\ UNCHANGED <<phone, outbox, barred, calm>>
      /\ request' = [request EXCEPT ![r] = y]
      /\ messages' = messages \cup x.new
      /\ records' = records \cup x.done
  BY DEF Commit, Become, client
<1>3. /\ lock \in [Conversations -> [by : Requests \cup {Nobody}, seq : Nat]]
      /\ counter \in [Conversations -> Nat]
      /\ \A c \in Conversations : lock[c].by = Nobody => lock[c].seq = counter[c]
      /\ request \in [Requests -> RequestType]
      /\ messages \subseteq Stored /\ records \subseteq Ops
  BY DEF IInv, TypeOK, RequestType
<1>4. /\ counter' \in [Conversations -> Nat]
      /\ \A c \in Conversations : lock[c].by = r => counter'[c] = lock[c].seq
      /\ \A c \in Conversations : lock[c].by # r => counter'[c] = counter[c]
  <2>1. counter' = [c \in Conversations |-> IF lock[c].by = r THEN lock[c].seq ELSE counter[c]]
    BY DEF Commit
  <2>. QED
    BY <2>1, <1>3
<1>5. /\ lock' \in [Conversations -> [by : Requests \cup {Nobody}, seq : Nat]]
      /\ \A c \in Conversations : lock'[c].by # r
      /\ \A c \in Conversations : lock'[c].by = Nobody => lock'[c].seq = counter'[c]
      /\ \A c \in Conversations : lock[c].by # r => lock'[c] = lock[c]
      /\ \A c \in Conversations : lock'[c].by # Nobody => lock'[c] = lock[c]
  <2>1. lock' = [c \in Conversations |-> IF lock[c].by = r THEN [by |-> Nobody, seq |-> lock[c].seq]
                                         ELSE lock[c]]
    BY DEF Commit
  <2>. QED
    BY <2>1, <1>3, <1>4
<1>6. \A c \in Conversations : counter[c] <= counter'[c]
  BY <1>1, <1>3, <1>4 DEF Holds
<1>7. y \in RequestType
  BY <1>1 DEF RequestType
<1>8. PICK z \in RequestType : z = y
  BY <1>7
<1>9. /\ z.pc = "committed" /\ z.via = x.via /\ z.ops = x.ops /\ z.at = x.at /\ z.new = {} /\ z.done = {}
  BY <1>1, <1>8 DEF RequestType
<1>. HIDE DEF y
<1>10. \A m \in x.new : /\ m \in Stored /\ m.op \in Ops /\ Room[m.op] \in Conversations /\ m.seq \in Nat
                        /\ counter'[Room[m.op]] = lock[Room[m.op]].seq
  BY <1>1, <1>4 DEF Holds, RequestType, Stored
<1>11. \A m \in messages : m.op \in Ops /\ Room[m.op] \in Conversations /\ m.seq \in Nat
  BY <1>3 DEF Stored
<1>12. TypeOK'
  <2>1. request' \in [Requests -> RequestType]
    BY <1>2, <1>3, <1>8
  <2>2. messages' \subseteq Stored /\ records' \subseteq Ops
    BY <1>1, <1>2, <1>3 DEF RequestType
  <2>. QED
    BY <1>2, <1>4, <1>5, <2>1, <2>2 DEF IInv, TypeOK, RequestType
<1>13. Numbered'
  <2>1. ASSUME NEW c \in Conversations, NEW i \in 1..counter'[c]
        PROVE  \E m \in messages' : Room[m.op] = c /\ m.seq = i
    <3>1. CASE i <= counter[c]
      <4>1. i \in 1..counter[c]
        BY <3>1, <1>3, <1>4
      <4>. QED
        BY <4>1, <1>2 DEF IInv, Numbered
    <3>2. CASE ~(i <= counter[c])
      <4>1. lock[c].by = r /\ i \in (counter[c] + 1)..lock[c].seq
        BY <3>2, <1>3, <1>4
      <4>2. PICK m \in x.new : Room[m.op] = c /\ m.seq = i
        BY <4>1, <1>1 DEF Holds
      <4>. QED
        BY <4>2, <1>2
    <3>. QED
      BY <3>1, <3>2
  <2>2. \A m \in messages : m.seq <= counter[Room[m.op]]
    BY DEF IInv, Numbered
  <2>3. \A m \in messages' : m.seq <= counter'[Room[m.op]]
    <3>1. \A m \in messages : m.seq <= counter'[Room[m.op]]
      BY <2>2, <1>3, <1>4, <1>6, <1>11
    <3>2. \A m \in x.new : m.seq <= counter'[Room[m.op]]
      BY <1>1, <1>10 DEF Holds
    <3>. QED
      BY <3>1, <3>2, <1>2
  <2>4. \A m \in messages, n \in x.new : ~(Room[m.op] = Room[n.op] /\ m.seq = n.seq) /\ m.op # n.op
    <3>1. \A m \in messages, n \in x.new : ~(Room[m.op] = Room[n.op] /\ m.seq = n.seq)
      BY <2>2, <1>1, <1>3, <1>10, <1>11 DEF Holds
    <3>2. \A m \in messages, n \in x.new : m.op # n.op
      BY <1>1 DEF Holds, IsStored
    <3>. QED
      BY <3>1, <3>2
  <2>5. \A m, n \in messages' : Room[m.op] = Room[n.op] /\ m.seq = n.seq => m = n
    BY <2>4, <1>1, <1>2 DEF IInv, Numbered, Holds
  <2>6. \A m, n \in messages' : m.op = n.op => m = n
    BY <2>4, <1>1, <1>2 DEF IInv, Numbered, Holds
  <2>. QED
    BY <2>1, <2>3, <2>5, <2>6 DEF Numbered
<1>14. \A o : IsStored(o)' <=> Served(x, o)
  BY <1>2 DEF IsStored, Served
<1>15. \A s \in Requests : (Holds(s, request[s]) /\ Progress(request[s]))'
  <2>. SUFFICES ASSUME NEW s \in Requests PROVE (Holds(s, request[s]) /\ Progress(request[s]))'
    OBVIOUS
  <2>1. CASE s = r
    <3>1. request'[s] = z
      BY <2>1, <1>2, <1>3, <1>8
    <3>2. Holds(s, request[s])'
      BY <3>1, <2>1, <1>5, <1>9 DEF Holds
    <3>3. ASSUME z.via = "post"
          PROVE  Len(z.ops) = 1 /\ IsStored(z.ops[1])'
      <4>1. Len(z.ops) = 1 /\ (z.at > 1 => Served(x, z.ops[1]))
        BY <3>3, <1>1, <1>9 DEF Progress
      <4>2. z.at > 1
        <5>1. z.at \in Nat /\ ~(z.at <= 1)
          BY <4>1, <1>1, <1>9 DEF RequestType
        <5>. QED
          BY <5>1
      <4>. QED
        BY <4>1, <4>2, <1>14
    <3>4. Progress(z)'
      BY <3>3, <1>9 DEF Progress, Served
    <3>5. Progress(request[s])'
      BY <3>1, <3>4
    <3>. QED
      BY <3>2, <3>5
  <2>2. CASE s # r
    <3>1. request'[s] = request[s] /\ request[s] \in RequestType
      BY <2>2, <1>2, <1>3
    <3>2. Holds(s, request[s]) /\ Progress(request[s])
      BY DEF IInv
    <3>3. \A c \in Conversations : lock'[c].by = s => lock[c].by = s /\ lock'[c] = lock[c] /\ counter'[c] = counter[c]
      BY <2>2, <1>4, <1>5
    <3>4. \A m \in request[s].new : Room[m.op] \in Conversations /\ lock[Room[m.op]].by = s
      BY <3>1, <3>2 DEF RequestType, Stored, Holds
    <3>5. \A m \in request[s].new : /\ lock'[Room[m.op]] = lock[Room[m.op]]
                                    /\ counter'[Room[m.op]] = counter[Room[m.op]]
      BY <3>4, <2>2, <1>4, <1>5
    <3>6. \A m \in request[s].new : ~IsStored(m.op)'
      BY <3>2, <3>4, <2>2, <1>1, <1>14 DEF Holds, Served
    <3>7. Holds(s, request[s])'
      BY <3>1, <3>2, <3>3, <3>5, <3>6 DEF Holds
    <3>8. \A o : IsStored(o) => IsStored(o)'
      BY <1>14 DEF Served
    <3>9. Progress(request[s])'
      BY <3>1, <3>2, <3>8 DEF Progress, Served
    <3>. QED
      BY <3>7, <3>9
  <2>. QED
    BY <2>1, <2>2
<1>16. AcknowledgedIsStored'
  BY <1>1, <1>2, <1>14 DEF IInv, AcknowledgedIsStored, Progress, Served
<1>. QED
  BY <1>12, <1>13, <1>15, <1>16 DEF IInv

---------------------------------------------------------------------------
(* The theorems *)

LEMMA NextInv == IInv /\ [Next]_vars => IInv'
<1>. SUFFICES ASSUME IInv, [Next]_vars PROVE IInv'
  OBVIOUS
<1>1. ASSUME NEW r \in Requests, Serve(r)
      PROVE  IInv'
  <2>1. CASE Repeated(r) \/ Found(r) \/ New(r)
    BY <2>1, LookInv
  <2>2. CASE Refused(r) \/ Clash(r) \/ Recurs(r)
    BY <2>2, FailInv DEF Refused, Clash, Recurs
  <2>3. CASE Number(r)
    BY <2>3, NumberInv
  <2>4. CASE Commit(r)
    BY <2>4, CommitInv
  <2>. QED
    BY <1>1, <2>1, <2>2, <2>3, <2>4 DEF Serve
<1>2. ASSUME NEW r \in Requests, Abort(r)
      PROVE  IInv'
  BY <1>2, FailInv DEF Abort
<1>3. ASSUME NEW r \in Requests, Answer(r)
      PROVE  IInv'
  BY <1>3, AnswerInv
<1>4. ASSUME NEW r \in Requests, NEW o \in Ops, Compose(o, r)
      PROVE  IInv'
  BY <1>4, ComposeInv
<1>5. ASSUME NEW r \in Requests, NEW p \in Phones, Push(p, r)
      PROVE  IInv'
  BY <1>5, PushInv
<1>6. ASSUME NEW o \in Ops, PostFailed(o)
      PROVE  IInv'
  BY <1>6, PostFailedInv
<1>7. CASE \/ \E p \in Phones : AppKilled(p) \/ \E c \in Conversations : Standing(p, c)
           \/ Calm
  BY <1>7, OtherPhoneInv
<1>8. CASE UNCHANGED vars
  <2>1. /\ UNCHANGED <<tables, lock, request>> /\ phone' = phone /\ outbox' = outbox
        /\ barred' = barred /\ calm' = calm
    BY <1>8 DEF vars, tables
  <2>. QED
    BY <2>1, PhoneStep DEF IInv, TypeOK
<1>. QED
  BY <1>1, <1>2, <1>3, <1>4, <1>5, <1>6, <1>7, <1>8 DEF Next

\* The inductive invariant: whatever is posted, pushed, refused, undone or lost, a
\* conversation is numbered without gaps and each transaction holds only numbers of
\* conversations it has locked.
THEOREM Invariance == Spec => []IInv
  BY InitInv, NextInv, PTL DEF Spec

\* Types, and a conversation nobody has locked shows the number it committed.
THEOREM TypeCorrect == Spec => []TypeOK
<1>1. IInv => TypeOK
  BY DEF IInv
<1>. QED
  BY <1>1, Invariance, PTL

\* What was acknowledged, by a record of its operation or by the phone, is stored.
THEOREM Acknowledged == Spec => []AcknowledgedIsStored
<1>1. IInv => AcknowledgedIsStored
  BY DEF IInv
<1>. QED
  BY <1>1, Invariance, PTL

\* What is stored under each number, as a function of the state.
LogOf(c) == [i \in 1..counter[c] |-> {m.op : m \in {n \in messages : Room[n.op] = c /\ n.seq = i}}]

\* Each number up to the counter stands for one message, and each message has one number.
LEMMA LogWellFormed ==
  ASSUME IInv, NEW c \in Conversations
  PROVE  /\ LogOf(c) \in Seq(SUBSET Ops) /\ Len(LogOf(c)) = counter[c]
         /\ Log!WellFormed(LogOf(c))
<1>1. counter[c] \in Nat /\ messages \subseteq Stored
  BY DEF IInv, TypeOK
<1>2. LogOf(c) \in [1..counter[c] -> SUBSET Ops]
  BY <1>1 DEF LogOf, Stored
<1>3. LogOf(c) \in Seq(SUBSET Ops) /\ Len(LogOf(c)) = counter[c]
  BY <1>1, <1>2
<1>4. \A i \in 1..counter[c] : \E m \in messages : Room[m.op] = c /\ m.seq = i /\ LogOf(c)[i] = {m.op}
  <2>. SUFFICES ASSUME NEW i \in 1..counter[c]
                PROVE  \E m \in messages : Room[m.op] = c /\ m.seq = i /\ LogOf(c)[i] = {m.op}
    OBVIOUS
  <2>1. PICK m \in messages : Room[m.op] = c /\ m.seq = i
    BY DEF IInv, Numbered
  <2>2. {n \in messages : Room[n.op] = c /\ n.seq = i} = {m}
    BY <2>1 DEF IInv, Numbered
  <2>3. LogOf(c)[i] = {m.op}
    BY <2>2 DEF LogOf
  <2>. QED
    BY <2>1, <2>3
<1>5. DOMAIN LogOf(c) = 1..counter[c]
  BY DEF LogOf
<1>6. \A i, j \in DOMAIN LogOf(c) : LogOf(c)[i] = LogOf(c)[j] => i = j
  <2>. SUFFICES ASSUME NEW i \in 1..counter[c], NEW j \in 1..counter[c], LogOf(c)[i] = LogOf(c)[j]
                PROVE  i = j
    BY <1>5
  <2>1. PICK m \in messages : m.seq = i /\ LogOf(c)[i] = {m.op}
    BY <1>4
  <2>2. PICK n \in messages : n.seq = j /\ LogOf(c)[j] = {n.op}
    BY <1>4
  <2>3. m.op = n.op
    BY <2>1, <2>2
  <2>. QED
    BY <2>1, <2>2, <2>3 DEF IInv, Numbered
<1>7. \A i \in DOMAIN LogOf(c) : \E o \in Ops : LogOf(c)[i] = {o}
  BY <1>1, <1>4, <1>5 DEF Stored
<1>. QED
  BY <1>3, <1>6, <1>7 DEF Log!WellFormed, Log!IsInjective

\* A step gives numbers above the counter only, and what has a number keeps it.
LEMMA StepExtends ==
  ASSUME IInv, IInv', [Next]_vars, NEW c \in Conversations
  PROVE  /\ counter[c] <= counter'[c]
         /\ \A i \in 1..counter[c] : LogOf(c)'[i] = LogOf(c)[i]
<1>1. /\ counter \in [Conversations -> Nat]
      /\ \A m \in messages : m.seq <= counter[Room[m.op]]
  BY DEF IInv, TypeOK, Numbered
<1>2. CASE \E r \in Requests : Commit(r)
  <2>1. PICK r \in Requests : Commit(r)
    BY <1>2
  <2>2. /\ messages' = messages \cup request[r].new /\ request[r] \in RequestType /\ Holds(r, request[r])
        /\ counter' = [d \in Conversations |-> IF lock[d].by = r THEN lock[d].seq ELSE counter[d]]
    BY <2>1, RecordFacts DEF Commit
  <2>3. counter[c] <= counter'[c] /\ counter'[c] \in Nat
    BY <2>2, <1>1 DEF Holds, IInv, TypeOK
  <2>4. \A i \in 1..counter[c] : \A m \in request[r].new : ~(Room[m.op] = c /\ m.seq = i)
    BY <2>2, <1>1 DEF Holds, RequestType, Stored
  <2>5. ASSUME NEW i \in 1..counter[c]
        PROVE  LogOf(c)'[i] = LogOf(c)[i]
    <3>1. {m \in messages' : Room[m.op] = c /\ m.seq = i} = {m \in messages : Room[m.op] = c /\ m.seq = i}
      BY <2>2, <2>4
    <3>2. i \in 1..counter'[c]
      BY <2>3, <1>1
    <3>. QED
      BY <3>1, <3>2 DEF LogOf
  <2>. QED
    BY <2>3, <2>5
<1>3. CASE ~\E r \in Requests : Commit(r)
  <2>1. UNCHANGED <<messages, counter>>
    BY <1>3 DEF Next, vars, tables, client, Serve, Repeated, Refused, Found, New, Number, Clash, Recurs, Fail,
       Abort, Answer, PostSucceeded, PushAnswered, Lost, Compose, Push, PostFailed, AppKilled, Standing, Calm
  <2>. QED
    BY <2>1, <1>1 DEF LogOf
<1>. QED
  BY <1>2, <1>3

\* Conversations are logs: OutboxSync implements MessageLog.
THEOREM Logs == Spec => ConversationsAreLogs
<1>1. Init => Log!Init
  BY DEF Init, Log!Init
<1>. DEFINE Ordered == \A c \in Conversations :
                /\ LogOf(c) \in Seq(SUBSET Ops) /\ Len(LogOf(c)) = counter[c]
                /\ Log!WellFormed(LogOf(c))
<1>2. IInv => Ordered
  BY LogWellFormed
<1>3. ASSUME IInv, Ordered, IInv', Ordered', [Next]_vars
      PROVE  Log!Extend
  <2>. SUFFICES ASSUME NEW c \in Conversations
                PROVE  Log!IsPrefix(LogOf(c), LogOf(c)') /\ Log!WellFormed(LogOf(c)')
    BY DEF Log!Extend, LogOf
  <2>1. counter[c] <= counter'[c] /\ \A i \in 1..counter[c] : LogOf(c)'[i] = LogOf(c)[i]
    BY <1>3, StepExtends
  <2>2. /\ LogOf(c) \in Seq(SUBSET Ops) /\ Len(LogOf(c)) = counter[c]
        /\ LogOf(c)' \in Seq(SUBSET Ops) /\ Len(LogOf(c)') = counter'[c]
        /\ Log!WellFormed(LogOf(c)')
    BY <1>3
  <2>. QED
    BY <2>1, <2>2 DEF Log!IsPrefix
<1>. QED
  BY <1>1, <1>2, <1>3, Invariance, PTL DEF Spec, ConversationsAreLogs, Log!Spec

---------------------------------------------------------------------------
(* The order of a queue *)

\* A queue holds messages of its phone that are marked as queued, each once.
Queues ==
    \A p \in Phones :
       /\ \A i \in 1..Len(outbox[p]) : Owner[outbox[p][i]] = p /\ phone[outbox[p][i]] = "queued"
       /\ \A i, j \in 1..Len(outbox[p]) : outbox[p][i] = outbox[p][j] => i = j

\* A push that is being served carries what some queue begins with, and went through it
\* from the front; what it is about to store comes after whatever precedes it there in
\* the same conversation.
FrontOfQueue(x) == \E p \in Phones : /\ Len(x.ops) <= Len(outbox[p])
                              /\ \A i \in 1..Len(x.ops) : x.ops[i] = outbox[p][i]
Precedes(x, q, m) == \E n \in messages \cup x.new : n.op = q /\ n.seq < m.seq
InOrder(x) ==
    x.via = "push" /\ x.pc \in {"look", "number"} =>
       /\ FrontOfQueue(x)
       /\ \A i \in 1..Len(x.ops) : i < x.at => Served(x, x.ops[i])
       /\ \A m \in x.new : \E j \in 1..Len(x.ops) :
             /\ x.ops[j] = m.op
             /\ \A i \in 1..(j - 1) : Room[x.ops[i]] = Room[m.op] => Precedes(x, x.ops[i], m)

\* The inductive invariant of PushKeepsOrder.
OInv == Queues /\ \A r \in Requests : InOrder(request[r])

LEMMA InitOrder == Init => OInv
  BY DEF Init, OInv, Queues, InOrder, NoRequest

\* What a step leaves of the queues: they only grow, at the end.
Grown ==
    \A p \in Phones : /\ Len(outbox[p]) <= Len(outbox'[p])
                      /\ \A i \in 1..Len(outbox[p]) : outbox'[p][i] = outbox[p][i]

\* Only a message that was being posted joins a queue, and nothing leaves one: a push
\* clears nothing.
LEMMA QueueStep ==
  ASSUME IInv, OInv, [Next]_vars
  PROVE  Queues' /\ Grown /\ messages \subseteq messages'
<1>1. /\ phone \in [Ops -> {"unsent", "posting", "queued", "sent", "forgotten"}]
      /\ outbox \in [Phones -> Seq(Ops)]
  BY DEF IInv, TypeOK
<1>2. messages \subseteq messages'
  BY DEF Next, vars, tables, client, Serve, Repeated, Refused, Found, New, Number, Clash, Recurs, Fail, Commit,
     Abort, Answer, PostSucceeded, PushAnswered, Lost, Compose, Push, PostFailed, AppKilled, Standing, Calm
<1>3. \A p \in Phones : \A i \in 1..Len(outbox[p]) : outbox[p][i] \in Ops
  BY <1>1
<1>4. CASE \E o \in Ops : PostFailed(o)
  <2>1. PICK o \in Ops : PostFailed(o)
    BY <1>4
  <2>2. /\ phone[o] = "posting" /\ phone' = [phone EXCEPT ![o] = "queued"]
        /\ outbox' = [outbox EXCEPT ![Owner[o]] = Append(@, o)] /\ Owner[o] \in Phones
    BY <2>1 DEF PostFailed
  <2>3. \A p \in Phones : p # Owner[o] => outbox'[p] = outbox[p]
    BY <2>2, <1>1
  <2>4. outbox'[Owner[o]] = Append(outbox[Owner[o]], o)
    BY <2>2, <1>1
  <2>5. /\ Len(outbox'[Owner[o]]) = Len(outbox[Owner[o]]) + 1 /\ Len(outbox[Owner[o]]) \in Nat
        /\ \A i \in 1..Len(outbox[Owner[o]]) : outbox'[Owner[o]][i] = outbox[Owner[o]][i]
        /\ outbox'[Owner[o]][Len(outbox[Owner[o]]) + 1] = o
    BY <2>2, <2>4, <1>1
  <2>6. Grown
    <3>. SUFFICES ASSUME NEW p \in Phones
                  PROVE  /\ Len(outbox[p]) <= Len(outbox'[p])
                         /\ \A i \in 1..Len(outbox[p]) : outbox'[p][i] = outbox[p][i]
      BY DEF Grown
    <3>1. CASE p # Owner[o]
      BY <3>1, <2>3, <1>1
    <3>2. CASE p = Owner[o]
      BY <3>2, <2>5
    <3>. QED
      BY <3>1, <3>2
  <2>7. /\ phone'[o] = "queued" /\ \A q \in Ops : phone[q] = "queued" => phone'[q] = "queued"
    BY <2>2, <1>1
  <2>8. ASSUME NEW p \in Phones
        PROVE  /\ \A i \in 1..Len(outbox'[p]) : Owner[outbox'[p][i]] = p /\ phone'[outbox'[p][i]] = "queued"
               /\ \A i, j \in 1..Len(outbox'[p]) : outbox'[p][i] = outbox'[p][j] => i = j
    <3>1. /\ \A i \in 1..Len(outbox[p]) : Owner[outbox[p][i]] = p /\ phone[outbox[p][i]] = "queued"
          /\ \A i, j \in 1..Len(outbox[p]) : outbox[p][i] = outbox[p][j] => i = j
      BY DEF OInv, Queues
    <3>2. \A i \in 1..Len(outbox[p]) : outbox[p][i] # o /\ phone'[outbox[p][i]] = "queued"
      BY <3>1, <2>2, <2>7, <1>3
    <3>3. CASE p # Owner[o]
      BY <3>1, <3>2, <3>3, <2>3
    <3>4. CASE p = Owner[o]
      <4>1. \A i \in 1..Len(outbox'[p]) : i \in 1..Len(outbox[p]) \/ (i = Len(outbox[p]) + 1 /\ outbox'[p][i] = o)
        BY <3>4, <2>5
      <4>2. \A i \in 1..Len(outbox[p]) : outbox'[p][i] = outbox[p][i]
        BY <3>4, <2>5
      <4>3. ASSUME NEW i \in 1..Len(outbox'[p])
            PROVE  Owner[outbox'[p][i]] = p /\ phone'[outbox'[p][i]] = "queued"
        <5>1. CASE i \in 1..Len(outbox[p])
          BY <5>1, <4>2, <3>1, <3>2
        <5>2. CASE outbox'[p][i] = o
          BY <5>2, <3>4, <2>7
        <5>. QED
          BY <5>1, <5>2, <4>1
      <4>4. ASSUME NEW i \in 1..Len(outbox'[p]), NEW j \in 1..Len(outbox'[p]), outbox'[p][i] = outbox'[p][j]
            PROVE  i = j
        <5>1. CASE i \in 1..Len(outbox[p]) /\ j \in 1..Len(outbox[p])
          BY <5>1, <4>2, <4>4, <3>1
        <5>2. CASE i \in 1..Len(outbox[p]) /\ outbox'[p][j] = o
          BY <5>2, <4>2, <4>4, <3>2
        <5>3. CASE j \in 1..Len(outbox[p]) /\ outbox'[p][i] = o
          BY <5>3, <4>2, <4>4, <3>2
        <5>. QED
          BY <5>1, <5>2, <5>3, <4>1
      <4>. QED
        BY <4>3, <4>4
    <3>. QED
      BY <3>3, <3>4
  <2>. QED
    BY <1>2, <2>6, <2>8 DEF Queues
<1>5. CASE ~\E o \in Ops : PostFailed(o)
  <2>1. \A r \in Requests : PushAnswered(r) => outbox' = outbox
    <3>1. \A r \in Requests, p \in Phones : Kept(outbox[p], Cleared(r)) = outbox[p]
      BY DEF Cleared, AnswerOfPush, Kept
    <3>. QED
      BY <3>1, <1>1 DEF PushAnswered
  <2>2. outbox' = outbox
    BY <2>1, <1>5 DEF Next, vars, tables, client, Serve, Repeated, Refused, Found, New, Number, Clash, Recurs, Fail,
       Commit, Abort, Answer, PostSucceeded, Lost, Compose, Push, AppKilled, Standing, Calm
  <2>3. \A q \in Ops : phone[q] = "queued" => phone'[q] = "queued"
    BY <1>1, <1>5 DEF Next, vars, tables, client, Serve, Repeated, Refused, Found, New, Number, Clash, Recurs, Fail,
       Commit, Abort, Answer, PostSucceeded, PushAnswered, Lost, Compose, Push, AppKilled, Standing, Calm
  <2>4. Queues'
    BY <2>2, <2>3, <1>3 DEF OInv, Queues
  <2>5. Grown
    BY <2>2, <1>1 DEF Grown
  <2>. QED
    BY <1>2, <2>4, <2>5
<1>. QED
  BY <1>4, <1>5

\* A record that is in order stays so while queues grow and messages are added.
LEMMA OrderKept ==
  ASSUME IInv, Grown, messages \subseteq messages', NEW x \in RequestType, InOrder(x)
  PROVE  InOrder(x)'
<1>. SUFFICES ASSUME x.via = "push", x.pc \in {"look", "number"}
              PROVE  /\ FrontOfQueue(x)'
                     /\ \A i \in 1..Len(x.ops) : i < x.at => Served(x, x.ops[i])'
                     /\ \A m \in x.new : \E j \in 1..Len(x.ops) :
                           /\ x.ops[j] = m.op
                           /\ \A i \in 1..(j - 1) : Room[x.ops[i]] = Room[m.op] => Precedes(x, x.ops[i], m)'
  BY DEF InOrder
<1>1. FrontOfQueue(x)'
  <2>1. PICK p \in Phones : Len(x.ops) <= Len(outbox[p]) /\ \A i \in 1..Len(x.ops) : x.ops[i] = outbox[p][i]
    BY DEF InOrder, FrontOfQueue
  <2>2. Len(x.ops) \in Nat /\ Len(outbox[p]) \in Nat
    BY DEF IInv, TypeOK, RequestType
  <2>3. Len(outbox[p]) <= Len(outbox'[p]) /\ \A i \in 1..Len(outbox[p]) : outbox'[p][i] = outbox[p][i]
    BY DEF Grown
  <2>4. Len(x.ops) <= Len(outbox'[p]) /\ \A i \in 1..Len(x.ops) : x.ops[i] = outbox'[p][i]
    <3>1. outbox'[p] = outbox'[p] /\ Len(x.ops) <= Len(outbox'[p])
      BY <2>1, <2>2, <2>3
    <3>. QED
      BY <3>1, <2>1, <2>2, <2>3
  <2>. QED
    BY <2>4 DEF FrontOfQueue
<1>2. \A q : Served(x, q) => Served(x, q)'
  BY DEF Served, IsStored
<1>3. \A q, m : Precedes(x, q, m) => Precedes(x, q, m)'
  BY DEF Precedes
<1>. QED
  BY <1>1, <1>2, <1>3 DEF InOrder

\* The requests that take no part in a step.
LEMMA OthersInOrder ==
  ASSUME IInv, OInv, [Next]_vars, NEW s \in Requests, request'[s] = request[s]
  PROVE  InOrder(request[s])'
<1>1. request[s] \in RequestType /\ InOrder(request[s])
  BY RecordFacts DEF OInv
<1>2. PICK x \in RequestType : x = request[s]
  BY <1>1
<1>3. InOrder(x)'
  BY <1>1, <1>2, QueueStep, OrderKept
<1>. QED
  BY <1>2, <1>3

\* A push begins with the front of a queue and nothing behind it.
LEMMA PushInOrder ==
  ASSUME IInv, OInv, [Next]_vars, NEW p \in Phones, NEW r \in Requests, Push(p, r)
  PROVE  InOrder(request[r])'
<1>1. outbox[p] \in Seq(Ops) /\ request \in [Requests -> RequestType]
  BY DEF IInv, TypeOK, RequestType
<1>. DEFINE k == IF Len(outbox[p]) < Batch THEN Len(outbox[p]) ELSE Batch
            y == Asks("push", Pending(p))
<1>2. k \in Nat /\ k <= Len(outbox[p]) /\ Pending(p) = SubSeq(outbox[p], 1, k)
  BY <1>1 DEF Pending
<1>. HIDE DEF k
<1>3. Len(Pending(p)) = k /\ \A i \in 1..k : Pending(p)[i] = outbox[p][i]
  BY <1>1, <1>2
<1>4. Pending(p) \in Seq(Ops)
  BY PendingType DEF IInv
<1>5. /\ y.via = "push" /\ y.ops = Pending(p) /\ y.at = 1 /\ y.new = {}
  BY DEF Asks, NoRequest
<1>6. request'[r] = y /\ y \in RequestType
  <2>1. y \in RequestType
    BY <1>4, FreshOK DEF Push, At
  <2>. QED
    BY <2>1, <1>1 DEF Push, Become
<1>. HIDE DEF y
<1>7. PICK x \in RequestType : x = y
  BY <1>6
<1>8. InOrder(x)
  <2>1. FrontOfQueue(x)
    BY <1>2, <1>3, <1>5, <1>7 DEF FrontOfQueue
  <2>2. \A i \in 1..Len(x.ops) : ~(i < x.at)
    BY <1>2, <1>3, <1>5, <1>7
  <2>. QED
    BY <2>1, <2>2, <1>5, <1>7 DEF InOrder
<1>9. InOrder(x)'
  BY <1>8, QueueStep, OrderKept
<1>. QED
  BY <1>6, <1>7, <1>9

\* What is passed over is stored already, or about to be.
LEMMA LookInOrder ==
  ASSUME IInv, OInv, [Next]_vars, NEW r \in Requests, Repeated(r) \/ Found(r) \/ New(r)
  PROVE  InOrder(request[r])'
<1>. DEFINE x == request[r]
            o == Current(r)
<1>1. /\ x \in RequestType /\ Progress(x) /\ InOrder(x) /\ request \in [Requests -> RequestType]
      /\ x.pc = "look" /\ x.at <= Len(x.ops) /\ o \in Ops /\ o = x.ops[x.at]
  BY RecordFacts DEF Repeated, Found, New, At, HasMore, OInv, IInv, TypeOK, RequestType, Current
<1>2. \E z \in RequestType : request'[r] = z /\ InOrder(z)
  <2>1. CASE New(r)
    <3>1. [x EXCEPT !.pc = "number"] \in RequestType
      BY <1>1 DEF RequestType
    <3>2. PICK z \in RequestType : z = [x EXCEPT !.pc = "number"]
      BY <3>1
    <3>3. z.pc = "number" /\ z.new = x.new /\ z.via = x.via /\ z.ops = x.ops /\ z.at = x.at
      BY <3>2, <1>1 DEF RequestType
    <3>4. InOrder(z)
      BY <3>3, <1>1 DEF InOrder, FrontOfQueue, Served, Precedes
    <3>5. request'[r] = z
      BY <2>1, <3>2, <1>1 DEF New, Become
    <3>. QED
      BY <3>4, <3>5
  <2>2. CASE Repeated(r) \/ Found(r)
    <3>1. PICK z \in RequestType : /\ request'[r] = z
                                   /\ z.pc = x.pc /\ z.new = x.new /\ z.via = x.via /\ z.ops = x.ops /\ z.at = x.at + 1
      <4>1. CASE Repeated(r)
        <5>. DEFINE y == [x EXCEPT !.at = @ + 1, !.known = @ \cup {o}]
        <5>1. x.known \cup {o} \in SUBSET Ops /\ x.at + 1 \in Nat \ {0}
          BY <1>1 DEF RequestType
        <5>. HIDE DEF o
        <5>2. y \in RequestType
          BY <5>1, <1>1 DEF RequestType
        <5>3. y.pc = x.pc /\ y.new = x.new /\ y.via = x.via /\ y.ops = x.ops /\ y.at = x.at + 1
          BY <1>1 DEF RequestType
        <5>4. request'[r] = y
          BY <4>1, <1>1 DEF Repeated, Become, o
        <5>. QED
          BY <5>2, <5>3, <5>4
      <4>2. CASE Found(r)
        <5>. DEFINE y == [x EXCEPT !.at = @ + 1, !.done = Recorded(r, o)]
        <5>1. Recorded(r, o) \in SUBSET Ops /\ x.at + 1 \in Nat \ {0}
          BY <1>1 DEF RequestType, Recorded
        <5>. HIDE DEF o
        <5>2. y \in RequestType
          BY <5>1, <1>1 DEF RequestType
        <5>3. y.pc = x.pc /\ y.new = x.new /\ y.via = x.via /\ y.ops = x.ops /\ y.at = x.at + 1
          BY <1>1 DEF RequestType
        <5>4. request'[r] = y
          BY <4>2, <1>1 DEF Found, Become, o
        <5>. QED
          BY <5>2, <5>3, <5>4
      <4>. QED
        BY <2>2, <4>1, <4>2
    <3>2. x.via = "push" => Served(x, o)
      BY <2>2, <1>1 DEF Repeated, Found, Known, IInv, AcknowledgedIsStored, Progress, Served
    <3>3. InOrder(z)
      <4>. SUFFICES ASSUME x.via = "push" PROVE InOrder(z)
        BY <3>1 DEF InOrder
      <4>1. \A q : Served(z, q) <=> Served(x, q)
        BY <3>1 DEF Served
      <4>2. \A i \in 1..Len(z.ops) : i < z.at => Served(z, z.ops[i])
        BY <4>1, <3>1, <3>2, <1>1 DEF InOrder, RequestType
      <4>3. FrontOfQueue(z)
        BY <3>1, <1>1 DEF InOrder, FrontOfQueue
      <4>4. \A q, m : Precedes(z, q, m) <=> Precedes(x, q, m)
        BY <3>1 DEF Precedes
      <4>5. x.pc \in {"look", "number"}
        BY <1>1
      <4>6. \A m \in x.new : \E j \in 1..Len(x.ops) :
              /\ x.ops[j] = m.op
              /\ \A i \in 1..(j - 1) : Room[x.ops[i]] = Room[m.op] => Precedes(x, x.ops[i], m)
        BY <4>5, <1>1 DEF InOrder
      <4>7. \A m \in z.new : \E j \in 1..Len(z.ops) :
              /\ z.ops[j] = m.op
              /\ \A i \in 1..(j - 1) : Room[z.ops[i]] = Room[m.op] => Precedes(z, z.ops[i], m)
        <5>. HIDE DEF x
        <5>. QED
          BY <4>4, <4>6, <3>1
      <4>. QED
        BY <4>2, <4>3, <4>7 DEF InOrder
    <3>. QED
      BY <3>1, <3>3
  <2>. QED
    BY <2>1, <2>2
<1>3. PICK z \in RequestType : request'[r] = z /\ InOrder(z)
  BY <1>2
<1>4. InOrder(z)'
  BY <1>3, QueueStep, OrderKept
<1>. QED
  BY <1>3, <1>4

\* The next number is above all that the conversation has, stored or about to be.
LEMMA NumberInOrder ==
  ASSUME IInv, OInv, [Next]_vars, NEW r \in Requests, Number(r)
  PROVE  InOrder(request[r])'
<1>. DEFINE x == request[r]
            o == Current(r)
            c == Room[o]
            n == lock[c].seq + 1
            k == [op |-> o, seq |-> n]
            y == [x EXCEPT !.pc = "look", !.at = @ + 1, !.new = @ \cup {k}, !.done = Recorded(r, o)]
<1>1. /\ x \in RequestType /\ Holds(r, x) /\ Progress(x) /\ InOrder(x)
      /\ x.pc = "number" /\ x.at <= Len(x.ops) /\ o \in Ops /\ c \in Conversations /\ o = x.ops[x.at]
  BY RecordFacts DEF Number, At, Progress, OInv, Current
<1>2. request' = [request EXCEPT ![r] = y] /\ lock[c].by \in {Nobody, r}
  BY DEF Number, Become, Free
<1>12. /\ lock \in [Conversations -> [by : Requests \cup {Nobody}, seq : Nat]]
       /\ counter \in [Conversations -> Nat] /\ request \in [Requests -> RequestType]
       /\ \A d \in Conversations : lock[d].by = Nobody => lock[d].seq = counter[d]
  BY DEF IInv, TypeOK, RequestType
<1>13. counter[c] \in Nat /\ lock[c].seq \in Nat /\ n \in Nat \ {0}
  <2>. HIDE DEF c
  <2>. QED
    BY <1>1, <1>12
<1>3. counter[c] <= lock[c].seq
  <2>. HIDE DEF c
  <2>1. CASE lock[c].by = Nobody
    BY <2>1, <1>1, <1>12, <1>13
  <2>2. CASE lock[c].by = r
    BY <2>2, <1>1 DEF Holds
  <2>. QED
    BY <2>1, <2>2, <1>2
<1>4. \A m \in messages \cup x.new : Room[m.op] = c => m.seq < n
  <2>1. \A m \in messages : m.seq \in Nat /\ m.seq <= counter[Room[m.op]]
    BY DEF IInv, TypeOK, Stored, Numbered
  <2>2. \A m \in x.new : m.seq \in Nat /\ m.seq <= lock[Room[m.op]].seq
    BY <1>1 DEF Holds, RequestType, Stored
  <2>3. \A m \in messages : Room[m.op] = c => m.seq < n
    BY <2>1, <1>13, <1>3
  <2>4. \A m \in x.new : Room[m.op] = c => m.seq < n
    BY <2>2, <1>13
  <2>. QED
    BY <2>3, <2>4
<1>5. y \in RequestType
  <2>1. /\ Recorded(r, o) \in SUBSET Ops /\ x.at + 1 \in Nat \ {0}
        /\ x.new \cup {k} \in SUBSET Stored
    BY <1>1, <1>13 DEF RequestType, Stored, Recorded
  <2>. HIDE DEF o, k
  <2>. QED
    BY <2>1, <1>1 DEF RequestType
<1>6. PICK z \in RequestType : z = y
  BY <1>5
<1>7. k.op = o /\ k.seq = n
  OBVIOUS
<1>. HIDE DEF k
<1>8. /\ z.pc = "look" /\ z.via = x.via /\ z.ops = x.ops /\ z.at = x.at + 1 /\ z.new = x.new \cup {k}
  BY <1>1, <1>6 DEF RequestType
<1>9. request'[r] = z
  BY <1>2, <1>6, <1>12
<1>. HIDE DEF y, n, o, x
<1>10. InOrder(z)
  <2>. SUFFICES ASSUME x.via = "push"
                PROVE  /\ FrontOfQueue(z)
                       /\ \A i \in 1..Len(z.ops) : i < z.at => Served(z, z.ops[i])
                       /\ \A m \in z.new : \E j \in 1..Len(z.ops) :
                             /\ z.ops[j] = m.op
                             /\ \A i \in 1..(j - 1) : Room[z.ops[i]] = Room[m.op] => Precedes(z, z.ops[i], m)
    BY <1>8 DEF InOrder
  <2>1. FrontOfQueue(z)
    BY <1>1, <1>8 DEF InOrder, FrontOfQueue
  <2>2. \A i \in 1..Len(x.ops) : i < x.at => Served(x, x.ops[i])
    BY <1>1 DEF InOrder
  <2>3. x.at \in Nat \ {0} /\ Len(x.ops) \in Nat
    BY <1>1 DEF RequestType
  <2>4. \A i \in 1..Len(z.ops) : i < z.at => Served(z, z.ops[i])
    <3>1. \A q : Served(x, q) => Served(z, q)
      BY <1>8 DEF Served
    <3>2. Served(z, o)
      BY <1>7, <1>8 DEF Served
    <3>. QED
      BY <2>2, <2>3, <3>1, <3>2, <1>1, <1>8
  <2>5. \A q, m : Precedes(x, q, m) => Precedes(z, q, m)
    BY <1>8 DEF Precedes
  <2>6. ASSUME NEW m \in x.new
        PROVE  \E j \in 1..Len(z.ops) :
                  /\ z.ops[j] = m.op
                  /\ \A i \in 1..(j - 1) : Room[z.ops[i]] = Room[m.op] => Precedes(z, z.ops[i], m)
    BY <2>5, <1>1, <1>8 DEF InOrder
  <2>7. ASSUME NEW i \in 1..(x.at - 1), Room[x.ops[i]] = c
        PROVE  Precedes(z, x.ops[i], k)
    <3>1. Served(x, x.ops[i])
      BY <2>2, <2>3, <1>1
    <3>2. PICK m \in messages \cup x.new : m.op = x.ops[i]
      BY <3>1 DEF Served, IsStored
    <3>3. m.seq < n
      BY <3>2, <2>7, <1>4
    <3>. QED
      BY <3>2, <3>3, <1>7, <1>8 DEF Precedes
  <2>8. \E j \in 1..Len(z.ops) :
           /\ z.ops[j] = k.op
           /\ \A i \in 1..(j - 1) : Room[z.ops[i]] = Room[k.op] => Precedes(z, z.ops[i], k)
    BY <2>3, <2>7, <1>1, <1>7, <1>8
  <2>. QED
    BY <2>1, <2>4, <2>6, <2>8, <1>8
<1>11. InOrder(z)'
  BY <1>10, QueueStep, OrderKept
<1>. QED
  BY <1>9, <1>11

\* A request that is given up, answered or committed serves no push any more, and a post
\* serves none.
LEMMA RestInOrder ==
  ASSUME IInv, NEW r \in Requests,
         \/ Fail(r) \/ Answer(r) \/ Commit(r)
         \/ \E o \in Ops : Compose(o, r)
  PROVE  InOrder(request[r])'
<1>1. request \in [Requests -> RequestType]
  BY DEF IInv, TypeOK, RequestType
<1>2. request'[r].pc \notin {"look", "number"} \/ request'[r].via # "push"
  <2>1. CASE Fail(r) \/ Answer(r)
    <3>1. request'[r] = NoRequest
      BY <2>1, <1>1 DEF Fail, Answer, PostSucceeded, PushAnswered, Lost, Become
    <3>. QED
      BY <3>1 DEF NoRequest
  <2>2. CASE Commit(r)
    <3>1. request'[r] = [request[r] EXCEPT !.pc = "committed", !.new = {}, !.done = {}]
      BY <2>2, <1>1 DEF Commit, Become
    <3>. QED
      BY <3>1, <1>1 DEF RequestType
  <2>3. CASE \E o \in Ops : Compose(o, r)
    <3>1. PICK o \in Ops : request'[r] = Asks("post", <<o>>)
      BY <2>3, <1>1 DEF Compose, Become
    <3>. QED
      BY <3>1 DEF Asks, NoRequest
  <2>. QED
    BY <2>1, <2>2, <2>3
<1>. QED
  BY <1>2 DEF InOrder

LEMMA NextOrder == IInv /\ OInv /\ [Next]_vars => OInv'
<1>. SUFFICES ASSUME IInv, OInv, [Next]_vars PROVE OInv'
  OBVIOUS
<1>. SUFFICES ASSUME NEW s \in Requests PROVE InOrder(request[s])'
  BY QueueStep DEF OInv
<1>1. ASSUME NEW r \in Requests, \/ Serve(r) \/ Abort(r) \/ Answer(r)
                                 \/ \E o \in Ops : Compose(o, r)
                                 \/ \E p \in Phones : Push(p, r)
      PROVE  InOrder(request[s])'
  <2>1. CASE s = r
    <3>1. CASE \E p \in Phones : Push(p, r)
      BY <3>1, <2>1, PushInOrder
    <3>2. CASE Repeated(r) \/ Found(r) \/ New(r)
      BY <3>2, <2>1, LookInOrder
    <3>3. CASE Number(r)
      BY <3>3, <2>1, NumberInOrder
    <3>4. CASE \/ Refused(r) \/ Clash(r) \/ Recurs(r) \/ Abort(r) \/ Answer(r) \/ Commit(r)
               \/ \E o \in Ops : Compose(o, r)
      BY <3>4, <2>1, RestInOrder DEF Refused, Clash, Recurs, Abort
    <3>. QED
      BY <1>1, <3>1, <3>2, <3>3, <3>4 DEF Serve
  <2>2. CASE s # r
    <3>1. \E y : request' = [request EXCEPT ![r] = y]
      BY <1>1 DEF Serve, Repeated, Refused, Found, New, Number, Clash, Recurs, Fail, Commit, Abort, Answer,
         PostSucceeded, PushAnswered, Lost, Compose, Push, Become
    <3>2. request'[s] = request[s]
      BY <3>1, <2>2 DEF IInv, TypeOK
    <3>. QED
      BY <3>2, OthersInOrder
  <2>. QED
    BY <2>1, <2>2
<1>2. CASE \/ \E o \in Ops : PostFailed(o)
           \/ \E p \in Phones : AppKilled(p) \/ \E c \in Conversations : Standing(p, c)
           \/ Calm \/ UNCHANGED vars
  <2>1. request' = request
    BY <1>2 DEF PostFailed, AppKilled, Standing, Calm, vars
  <2>. QED
    BY <2>1, OthersInOrder
<1>. QED
  BY <1>1, <1>2 DEF Next

\* Only a commit adds messages, and only those of its own request.
LEMMA AddedByCommit ==
  ASSUME IInv, [Next]_vars, NEW r \in Requests, NEW m \in messages' \ messages, m \in request[r].new
  PROVE  Commit(r) /\ messages' = messages \cup request[r].new
<1>1. PICK s \in Requests : Commit(s)
  BY DEF Next, vars, tables, client, Serve, Repeated, Refused, Found, New, Number, Clash, Recurs, Fail,
     Abort, Answer, PostSucceeded, PushAnswered, Lost, Compose, Push, PostFailed, AppKilled, Standing, Calm
<1>2. messages' = messages \cup request[s].new
  BY <1>1 DEF Commit
<1>3. m \in request[s].new
  BY <1>2
<1>4. lock[Room[m.op]].by = s /\ lock[Room[m.op]].by = r
  BY <1>3 DEF IInv, Holds
<1>. QED
  BY <1>1, <1>2, <1>4

\* A push that commits stores after its older neighbours in the queue.
LEMMA CommitKeepsOrder ==
  ASSUME IInv, OInv, [Next]_vars, NEW r \in Requests, At(r, "look"), request[r].via = "push",
         NEW m \in messages' \ messages, m \in request[r].new, NEW q \in OlderInQueue(m.op)
  PROVE  \E n \in messages' : n.op = q /\ n.seq < m.seq
<1>. DEFINE x == request[r]
            p == Owner[m.op]
<1>1. messages' = messages \cup x.new
  BY AddedByCommit
<1>2. x \in RequestType /\ InOrder(x) /\ x.pc = "look" /\ outbox \in [Phones -> Seq(Ops)]
  BY RecordFacts DEF OInv, IInv, TypeOK, At
<1>3. PICK j \in 1..Len(x.ops) : /\ x.ops[j] = m.op
                                 /\ \A i \in 1..(j - 1) : Room[x.ops[i]] = Room[m.op] => Precedes(x, x.ops[i], m)
  BY <1>2 DEF InOrder
<1>4. PICK d \in Phones : Len(x.ops) <= Len(outbox[d]) /\ \A i \in 1..Len(x.ops) : x.ops[i] = outbox[d][i]
  BY <1>2 DEF InOrder, FrontOfQueue
<1>5. Len(x.ops) \in Nat /\ Len(outbox[d]) \in Nat
  BY <1>2 DEF RequestType
<1>6. j \in 1..Len(outbox[d]) /\ outbox[d][j] = m.op
  BY <1>3, <1>4, <1>5
<1>7. /\ \A i \in 1..Len(outbox[d]) : Owner[outbox[d][i]] = d
      /\ \A i, h \in 1..Len(outbox[d]) : outbox[d][i] = outbox[d][h] => i = h
  BY DEF OInv, Queues
<1>8. d = p
  BY <1>6, <1>7
<1>9. PICK i \in 1..Len(outbox[d]) : /\ q = outbox[d][i] /\ Room[outbox[d][i]] = Room[m.op]
                                     /\ \E h \in (i + 1)..Len(outbox[d]) : outbox[d][h] = m.op
  BY <1>8 DEF OlderInQueue
<1>10. PICK h \in (i + 1)..Len(outbox[d]) : outbox[d][h] = m.op
  BY <1>9
<1>11. h \in 1..Len(outbox[d]) /\ h = j
  <2>1. h \in 1..Len(outbox[d])
    BY <1>5, <1>9, <1>10
  <2>. QED
    BY <2>1, <1>6, <1>7, <1>10
<1>12. i \in 1..(j - 1) /\ i \in 1..Len(x.ops)
  BY <1>3, <1>5, <1>9, <1>10, <1>11
<1>13. x.ops[i] = q /\ Room[x.ops[i]] = Room[m.op]
  BY <1>4, <1>9, <1>12
<1>. QED
  BY <1>1, <1>3, <1>12, <1>13 DEF Precedes

\* A push never stores a message before an older one that waits in the same queue for the
\* same conversation, whatever else is pushed, posted or undone meanwhile.
THEOREM OrderOfPushes == Spec => PushKeepsOrder
<1>1. IInv /\ OInv /\ [Next]_vars =>
        [\A r \in Requests : At(r, "look") /\ request[r].via = "push" =>
          \A m \in messages' \ messages : m \in request[r].new =>
              \A q \in OlderInQueue(m.op) : \E n \in messages' : n.op = q /\ n.seq < m.seq]_vars
  BY CommitKeepsOrder
<1>. QED
  BY <1>1, InitInv, NextInv, InitOrder, NextOrder, PTL DEF Spec, PushKeepsOrder
===========================================================================
