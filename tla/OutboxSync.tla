----------------------------- MODULE OutboxSync -----------------------------
(***************************************************************************)
(* Messages of phones that lose their connection: a message is posted, and  *)
(* if no success comes back it is queued in the outbox and pushed with the  *)
(* oldest of the queue, again and again (chat_screen, sync_engine).  On the *)
(* server a request is one transaction (sync_service.push_operations,       *)
(* messaging_service.send_message) in which each message takes its number   *)
(* under the lock of its conversation.                                      *)
(***************************************************************************)
EXTENDS Integers, Sequences, SequencesExt

CONSTANTS
    NumOps,         \* bound: messages composed
    Phones,
    Conversations,
    Owner,          \* the phone a message is written on
    Room,           \* the conversation it is written to
    Batch,          \* the limit of pendingOps
    Requests,       \* bound: requests on their way at once
    Nobody          \* no request

Ops == 1..NumOps

ASSUME OutboxAssumption ==
    /\ NumOps \in Nat /\ Batch \in Nat \ {0} /\ Nobody \notin Requests
    /\ Owner \in [Ops -> Phones] /\ Room \in [Ops -> Conversations]

VARIABLES
    phone,      \* where the phone has each message
    outbox,     \* each phone's table outbox, by created_at
    barred,     \* who may not write where: blocked, banned, no longer a member
    messages,   \* the table messages: which one, and its server_sequence
    counter,    \* conversations.server_sequence, committed
    records,    \* the table sync_operations
    lock,       \* the row lock of a conversation: by whom, and the number it has reached
    request,    \* the requests and the transactions that serve them
    calm        \* from here on no message is lost, no worker dies and nobody is barred

vars == <<phone, outbox, barred, messages, counter, records, lock, request, calm>>
client == <<phone, outbox>>
tables == <<messages, counter, records>>

---------------------------------------------------------------------------
NoRequest == [pc |-> "idle", via |-> "post", ops |-> <<>>, at |-> 1,
              new |-> {}, done |-> {}, known |-> {}]
Asks(via, ops) == [NoRequest EXCEPT !.pc = "look", !.via = via, !.ops = ops]
At(r, pc) == request[r].pc = pc
Become(r, x) == request' = [request EXCEPT ![r] = x]

Init ==
    /\ phone = [o \in Ops |-> "unsent"]
    /\ outbox = [p \in Phones |-> <<>>]
    /\ barred = {}
    /\ messages = {}
    /\ counter = [c \in Conversations |-> 0]
    /\ records = {}
    /\ lock = [c \in Conversations |-> [by |-> Nobody, seq |-> 0]]
    /\ request = [r \in Requests |-> NoRequest]
    /\ calm \in BOOLEAN

---------------------------------------------------------------------------
(* The phone *)

\* _postMessage: the echo is shown and the message posted.
Compose(o, r) ==
    /\ phone[o] = "unsent" /\ \A q \in Ops : q < o /\ Owner[q] = Owner[o] => phone[q] # "unsent"
    /\ At(r, "idle")
    /\ phone' = [phone EXCEPT ![o] = "posting"]
    /\ Become(r, Asks("post", <<o>>))
    /\ UNCHANGED <<outbox, barred, tables, lock, calm>>

PostSucceeded(r) ==
    LET o == request[r].ops[1] IN
    /\ At(r, "committed") /\ request[r].via = "post" /\ phone[o] = "posting"
    /\ phone' = [phone EXCEPT ![o] = "sent"]
    /\ Become(r, NoRequest)
    /\ UNCHANGED <<outbox, barred, tables, lock, calm>>

\* Whatever went wrong, a timeout, a lost connection or a refusal, the message is queued.
PostFailed(o) ==
    /\ phone[o] = "posting"
    /\ phone' = [phone EXCEPT ![o] = "queued"]
    /\ outbox' = [outbox EXCEPT ![Owner[o]] = Append(@, o)]
    /\ UNCHANGED <<barred, tables, lock, request, calm>>

\* The system ends the app: what was being posted is forgotten, the outbox is not.
AppKilled(p) ==
    /\ ~calm /\ \E o \in Ops : Owner[o] = p /\ phone[o] = "posting"
    /\ phone' = [o \in Ops |-> IF Owner[o] = p /\ phone[o] = "posting" THEN "forgotten" ELSE phone[o]]
    /\ UNCHANGED <<outbox, barred, tables, lock, request, calm>>

\* Mutant: ORDER BY created_at DESC.
Pending_Newest(p) == [i \in 1..(IF Len(outbox[p]) < Batch THEN Len(outbox[p]) ELSE Batch) |->
                         outbox[p][Len(outbox[p]) + 1 - i]]

\* The oldest operations, at most Batch.
Pending(p) == SubSeq(outbox[p], 1, IF Len(outbox[p]) < Batch THEN Len(outbox[p]) ELSE Batch)

\* pushOutbox, called by the timer and by enqueue; nothing keeps two calls apart.
Push(p, r) ==
    /\ outbox[p] # <<>> /\ At(r, "idle")
    /\ Become(r, Asks("push", Pending(p)))
    /\ UNCHANGED <<client, barred, tables, lock, calm>>

\* The route answers with the bare list of results.
AnswerOfPush == "list"

\* The client casts the answer to an object, a list throws, and a push that throws
\* leaves the queue as it is.  DUPLICATE is the only status that it would clear.
Cleared(r) == IF AnswerOfPush = "object" THEN request[r].known ELSE {}

Kept(queue, gone) ==
    IF gone = {} THEN queue ELSE SelectSeq(queue, LAMBDA o : o \notin gone)

PushAnswered(r) ==
    /\ At(r, "committed") /\ request[r].via = "push"
    /\ outbox' = [p \in Phones |-> Kept(outbox[p], Cleared(r))]
    /\ Become(r, NoRequest)
    /\ UNCHANGED <<phone, barred, tables, lock, calm>>

---------------------------------------------------------------------------
(* The network, and who may write *)

\* An answer is lost, or nobody waits for it any more.
Lost(r) ==
    /\ At(r, "committed")
    /\ ~calm \/ (request[r].via = "post" /\ phone[request[r].ops[1]] # "posting")
    /\ Become(r, NoRequest)
    /\ UNCHANGED <<client, barred, tables, lock, calm>>

\* block_user, ban_member and their reverse.  Bound: where p writes.
Standing(p, c) ==
    /\ ~calm /\ \E o \in Ops : Owner[o] = p /\ Room[o] = c
    /\ barred' = IF <<p, c>> \in barred THEN barred \ {<<p, c>>} ELSE barred \cup {<<p, c>>}
    /\ UNCHANGED <<client, tables, lock, request, calm>>

Calm ==
    /\ ~calm /\ calm' = TRUE
    /\ UNCHANGED <<client, barred, tables, lock, request>>

---------------------------------------------------------------------------
(* The server *)

Current(r) == request[r].ops[request[r].at]
HasMore(r) == request[r].at <= Len(request[r].ops)
Allowed(o) == <<Owner[o], Room[o]>> \notin barred
IsStored(o) == \E m \in messages : m.op = o

\* Mutant: operations are not looked up.
Known_Never(r, o) == FALSE

\* push_operations finds the client_op_id: committed, or earlier in this transaction.
Known(r, o) == request[r].via = "push" /\ o \in records \cup request[r].done

\* Only pushes leave a record.
Recorded(r, o) == request[r].done \cup (IF request[r].via = "push" THEN {o} ELSE {})

\* The transaction of r is undone: its locks go, and the numbers it took.
Unlocked(r) ==
    [c \in Conversations |-> IF lock[c].by = r THEN [by |-> Nobody, seq |-> counter[c]] ELSE lock[c]]

\* Mutant: operations are recorded one by one, each with its own commit.
Fail_Recorded(r) ==
    /\ Become(r, NoRequest)
    /\ lock' = Unlocked(r)
    /\ records' = records \cup request[r].done
    /\ UNCHANGED <<client, barred, messages, counter, calm>>

\* A rollback.  The answer is an error, to which a push does nothing and a post what it
\* does without an answer.
Fail(r) ==
    /\ Become(r, NoRequest)
    /\ lock' = Unlocked(r)
    /\ UNCHANGED <<client, barred, tables, calm>>

Repeated(r) ==
    /\ At(r, "look") /\ HasMore(r) /\ Known(r, Current(r))
    /\ Become(r, [request[r] EXCEPT !.at = @ + 1, !.known = @ \cup {Current(r)}])
    /\ UNCHANGED <<client, barred, tables, lock, calm>>

\* One operation that is refused takes the whole request with it.
Refused(r) ==
    /\ At(r, "look") /\ HasMore(r)
    /\ ~Known(r, Current(r)) /\ ~Allowed(Current(r))
    /\ Fail(r)

\* send_message finds the client_message_id.
Found(r) ==
    LET o == Current(r) IN
    /\ At(r, "look") /\ HasMore(r) /\ ~Known(r, o) /\ Allowed(o) /\ IsStored(o)
    /\ Become(r, [request[r] EXCEPT !.at = @ + 1, !.done = Recorded(r, o)])
    /\ UNCHANGED <<client, barred, tables, lock, calm>>

New(r) ==
    LET o == Current(r) IN
    /\ At(r, "look") /\ HasMore(r) /\ ~Known(r, o) /\ Allowed(o) /\ ~IsStored(o)
    /\ Become(r, [request[r] EXCEPT !.pc = "number"])
    /\ UNCHANGED <<client, barred, tables, lock, calm>>

\* Mutant: the conversation is read without FOR UPDATE.
Free_Always(r, c) == TRUE

\* SELECT ... FOR UPDATE waits for whoever holds the row.
Free(r, c) == lock[c].by \in {Nobody, r}

\* The key uq_message_client_id: somebody may have stored the message since it was looked for.
Fits(o) == ~IsStored(o)

\* next_server_sequence and the insertion.
Number(r) ==
    LET o == Current(r)  c == Room[o]  n == lock[c].seq + 1 IN
    /\ At(r, "number") /\ Free(r, c) /\ Fits(o)
    /\ lock' = [lock EXCEPT ![c] = [by |-> r, seq |-> n]]
    /\ Become(r, [request[r] EXCEPT !.pc = "look", !.at = @ + 1,
                                    !.new = @ \cup {[op |-> o, seq |-> n]}, !.done = Recorded(r, o)])
    /\ UNCHANGED <<client, barred, tables, calm>>

Clash(r) ==
    /\ At(r, "number") /\ Free(r, Room[Current(r)]) /\ ~Fits(Current(r))
    /\ Fail(r)

\* The key uq_sync_client_op
Unrecorded(r) == request[r].done \cap records = {}

Commit(r) ==
    /\ At(r, "look") /\ ~HasMore(r) /\ Unrecorded(r)
    /\ messages' = messages \cup request[r].new
    /\ records' = records \cup request[r].done
    /\ counter' = [c \in Conversations |-> IF lock[c].by = r THEN lock[c].seq ELSE counter[c]]
    /\ lock' = [c \in Conversations |-> IF lock[c].by = r THEN [by |-> Nobody, seq |-> lock[c].seq]
                                        ELSE lock[c]]
    /\ Become(r, [request[r] EXCEPT !.pc = "committed", !.new = {}, !.done = {}])
    /\ UNCHANGED <<client, barred, calm>>

Recurs(r) ==
    /\ At(r, "look") /\ ~HasMore(r) /\ ~Unrecorded(r)
    /\ Fail(r)

Waits(r, s) == At(r, "number") /\ lock[Room[Current(r)]].by = s

\* The request is lost on its way, or its worker dies; or the database breaks a cycle of two transactions that wait.
Abort(r) ==
    /\ request[r].pc \in {"look", "number"}
    /\ ~calm \/ \E s \in Requests \ {r} : Waits(r, s) /\ Waits(s, r)
    /\ Fail(r)

---------------------------------------------------------------------------
Serve(r) ==
    \/ Repeated(r)
    \/ Refused(r)
    \/ Found(r)
    \/ New(r)
    \/ Number(r)
    \/ Clash(r)
    \/ Commit(r)
    \/ Recurs(r)

Answer(r) == PostSucceeded(r) \/ PushAnswered(r) \/ Lost(r)

Next ==
    \/ \E r \in Requests :
          \/ Serve(r)
          \/ Abort(r)
          \/ Answer(r)
          \/ \E o \in Ops : Compose(o, r)
          \/ \E p \in Phones : Push(p, r)
    \/ \E o \in Ops : PostFailed(o)
    \/ \E p \in Phones : AppKilled(p) \/ \E c \in Conversations : Standing(p, c)
    \/ Calm

Spec == Init /\ [][Next]_vars

\* After some time the network works and workers live; then the server serves, the
\* database breaks deadlocks, a post ends and the timer of each phone keeps pushing.
\* Nobody is obliged to write.
FairSpec ==
    /\ Spec
    /\ WF_vars(Calm)
    /\ \A r \in Requests : WF_vars(Serve(r)) /\ WF_vars(calm /\ Abort(r)) /\ WF_vars(Answer(r))
    /\ \A o \in Ops : WF_vars(PostFailed(o))
    /\ \A p \in Phones : SF_vars(\E r \in Requests : Push(p, r))

---------------------------------------------------------------------------
(* Properties *)

Stored == [op : Ops, seq : Nat \ {0}]

\* Types; and a conversation that nobody has locked shows the number it committed.
TypeOK ==
    /\ phone \in [Ops -> {"unsent", "posting", "queued", "sent", "forgotten"}]
    /\ outbox \in [Phones -> Seq(Ops)]
    /\ barred \subseteq Phones \X Conversations
    /\ messages \subseteq Stored
    /\ counter \in [Conversations -> Nat]
    /\ records \subseteq Ops
    /\ lock \in [Conversations -> [by : Requests \cup {Nobody}, seq : Nat]]
    /\ \A c \in Conversations : lock[c].by = Nobody => lock[c].seq = counter[c]
    /\ request \in [Requests -> [pc : {"idle", "look", "number", "committed"},
                                 via : {"post", "push"}, ops : Seq(Ops), at : Nat \ {0},
                                 new : SUBSET Stored, done : SUBSET Ops, known : SUBSET Ops]]
    /\ calm \in BOOLEAN

\* What is stored under each number a conversation has given away.
Log == INSTANCE MessageLog WITH
          Messages <- Ops,
          log <- [c \in Conversations |-> [i \in 1..counter[c] |->
                     {m.op : m \in {n \in messages : Room[n.op] = c /\ n.seq = i}}]]

\* Conversations are logs although a message may be posted and pushed at once, twice,
\* late, or in a transaction that is undone after it took its number.
ConversationsAreLogs == Log!Spec

\* What was acknowledged is stored: an operation has its record, and a phone counts a
\* message as sent, only if the message is in the conversation.
AcknowledgedIsStored ==
    \A o \in Ops : o \in records \/ phone[o] = "sent" => IsStored(o)

\* A push never stores a message before an older one that waits in the same queue for
\* the same conversation.
OlderInQueue(o) ==
    LET queue == outbox[Owner[o]] IN
    {queue[i] : i \in {j \in 1..Len(queue) : Room[queue[j]] = Room[o] /\
                            \E k \in (j + 1)..Len(queue) : queue[k] = o}}
PushKeepsOrder ==
    [][\A r \in Requests : At(r, "look") /\ request[r].via = "push" =>
          \A m \in messages' \ messages : m \in request[r].new =>
              \A q \in OlderInQueue(m.op) : \E n \in messages' : n.op = q /\ n.seq < m.seq]_vars

\* One of the oldest messages of a queue is eventually stored, if from some time on
\* none of those is refused.
InBatch(o) == \E i \in 1..Len(Pending(Owner[o])) : Pending(Owner[o])[i] = o
BatchAllowed(p) == \A i \in 1..Len(Pending(p)) : Allowed(Pending(p)[i])
QueuedIsStored ==
    \A o \in Ops : <>[]BatchAllowed(Owner[o]) => (InBatch(o) ~> IsStored(o))

\* A queued message eventually leaves the queue, if nobody is refused for ever
\* (sync_engine.dart: "Drains the outbox").
Queued(o) == \E i \in 1..Len(outbox[Owner[o]]) : outbox[Owner[o]][i] = o
QueueDrains ==
    \A o \in Ops : <>[]BatchAllowed(Owner[o]) => (Queued(o) ~> ~Queued(o))

\* A message that may be written is stored although an older one in the queue is
\* refused (sync_engine.dart: "REJECTED are dropped (poison-pill guard)").
RefusedHoldsNobodyUp ==
    \A o \in Ops : <>[]Allowed(o) => (InBatch(o) ~> IsStored(o))
===========================================================================
