------------------------------ MODULE Contacts ------------------------------
(***************************************************************************)
(* Two users: the connection between them, who blocks and who follows whom  *)
(* (connection_service, post_service), and the conversation they share with  *)
(* its messages and read marks (messaging_service).  Rows are found, then    *)
(* written in one commit; an UPDATE of a row that was deleted since fails, a *)
(* DELETE of it does nothing, and unique keys refuse a second row.           *)
(***************************************************************************)
EXTENDS Serving, Integers, Sequences, FiniteSets

CONSTANTS
    Users,          \* the pair
    MaxRows,        \* bound: connections and follows ever inserted
    MaxMessages     \* bound: messages ever sent

ASSUME ContactsAssumption ==
    /\ \A u \in Users : \E v \in Users \ {u} : Users = {u, v}
    /\ MaxRows \in Nat /\ MaxMessages \in Nat

Kinds == {"DIRECT", "MARKETPLACE", "SUPPORT"}

VARIABLES
    fresh,      \* the last id of a row
    link,       \* the row of connections, and who of the pair has asked for it or accepted it
    blocks,     \* blocked_users: who blocks the other
    follow,     \* user_follows: the row of who follows the other, 0 for none
    chat,       \* conversations: the kind of theirs
    messages,   \* by server_sequence
    mark,       \* conversation_members.last_read_sequence
    receipts    \* message_read_receipts: who has read which message

social == <<fresh, link, blocks, follow>>
talk == <<chat, messages, mark, receipts>>
vars == <<requests, social, talk, work, overlapped>>

Link(id, status, by, asked) == [id |-> id, status |-> status, by |-> by, asked |-> asked]
NoLink == Link(0, "none", "none", {})
Message(by, type, body, deleted) == [by |-> by, type |-> type, body |-> body, deleted |-> deleted]

Does(op, u, id) == [op |-> op, by |-> u, id |-> id, upto |-> 0, new |-> {}]
\* A reading: the mark it found or will leave, and the messages that get a receipt.
Reads(op, u, m, upto, new) == [op |-> op, by |-> u, id |-> m, upto |-> upto, new |-> new]
Idle == Does("idle", "none", 0)

Init ==
    /\ requests \in Mixes
    /\ fresh = 0
    /\ link = NoLink
    /\ blocks = {}
    /\ follow = [u \in Users |-> 0]
    /\ chat = "none"
    /\ messages = <<>>
    /\ mark = [u \in Users |-> 0]
    /\ receipts = {}
    /\ work = [w \in Workers |-> Idle]
    /\ overlapped = FALSE

Begin(w, name, x) ==
    /\ name \in requests /\ Takes(w, x)
    /\ UNCHANGED <<social, talk>>

Done(w) == Keeps(w, Idle)
Undone(w) == Done(w) /\ UNCHANGED <<social, talk>>

---------------------------------------------------------------------------
(* The connection *)

Exists == link.status # "none"
\* The row a worker has read is still the one there is.
Same(x) == Exists /\ link.id = x.id

\* A user asks, for the first time or again after a refusal: of either of the two, which
\* is why requested_by is written only when it changes.
RequestRead(w, u) ==
    /\ blocks = {} /\ link.status \in {"none", "DECLINED"}
    /\ Begin(w, "request", IF ~Exists THEN Does("insert", u, 0)
                           ELSE Does(IF link.by = u THEN "reopen" ELSE "turn", u, link.id))

InsertCommit(w) ==
    LET u == work[w].by
    IN  /\ At(w, "insert") /\ ~Exists /\ fresh < MaxRows
        /\ fresh' = fresh + 1
        /\ link' = Link(fresh + 1, "PENDING", u, {u})
        /\ UNCHANGED <<blocks, follow, talk>>
        /\ Done(w)

ReopenCommit(w) ==
    LET x == work[w]
    IN  /\ At(w, "reopen") \/ At(w, "turn")
        /\ Same(x)
        /\ link' = Link(link.id, "PENDING", IF x.op = "turn" THEN x.by ELSE link.by, link.asked \cup {x.by})
        /\ UNCHANGED <<fresh, blocks, follow, talk>>
        /\ Done(w)

\* Mutant: anyone of the two may answer.
Target_Either(u) == Exists /\ u \in Users

\* _assert_is_target
Target(u) == Exists /\ link.by # u

\* Whatever is not accepted already, a refused request as well.
AcceptRead(w, u) ==
    /\ Target(u) /\ link.status # "ACCEPTED"
    /\ Begin(w, "accept", Does("accept", u, link.id))

DeclineRead(w, u) ==
    /\ Target(u) /\ link.status = "PENDING"
    /\ Begin(w, "decline", Does("decline", u, link.id))

AnswerCommit(w) ==
    LET x == work[w]
    IN  /\ Same(x)
        /\ \/ At(w, "accept") /\ link' = Link(link.id, "ACCEPTED", link.by, link.asked \cup {x.by})
           \/ At(w, "decline") /\ link' = Link(link.id, "DECLINED", link.by, link.asked)
        /\ UNCHANGED <<fresh, blocks, follow, talk>>
        /\ Done(w)

\* Whoever asked last, whatever has become of the request.
CancelRead(w, u) ==
    /\ Exists /\ link.by = u
    /\ Begin(w, "cancel", Does("remove", u, link.id))

RemoveRead(w, u) == Exists /\ Begin(w, "remove", Does("remove", u, link.id))

Severed(x) == IF Same(x) THEN NoLink ELSE link

RemoveCommit(w) ==
    /\ At(w, "remove")
    /\ link' = Severed(work[w])
    /\ UNCHANGED <<fresh, blocks, follow, talk>>
    /\ Done(w)

---------------------------------------------------------------------------
(* Blocks and follows *)

BlockRead(w, u) == Begin(w, "block", Does(IF u \in blocks THEN "sever" ELSE "block", u, link.id))

\* Mutant: the connection stays.
BlockCommit_Keeping(w) ==
    LET x == work[w]
    IN  /\ At(w, "block") \/ At(w, "sever")
        /\ At(w, "block") => x.by \notin blocks
        /\ blocks' = blocks \cup (IF x.op = "block" THEN {x.by} ELSE {})
        /\ follow' = [v \in Users |-> 0]
        /\ UNCHANGED <<fresh, link, talk>>
        /\ Done(w)

\* The block, if there is none; the row that was read; and both follows.
BlockCommit(w) ==
    LET x == work[w]
    IN  /\ At(w, "block") \/ At(w, "sever")
        /\ At(w, "block") => x.by \notin blocks
        /\ blocks' = blocks \cup (IF x.op = "block" THEN {x.by} ELSE {})
        /\ link' = Severed(x)
        /\ follow' = [v \in Users |-> 0]
        /\ UNCHANGED <<fresh, talk>>
        /\ Done(w)

UnblockRead(w, u) == Begin(w, "unblock", Does("unblock", u, 0))

UnblockCommit(w) ==
    /\ At(w, "unblock")
    /\ blocks' = blocks \ {work[w].by}
    /\ UNCHANGED <<fresh, link, follow, talk>>
    /\ Done(w)

\* Nobody asks whether the two have blocked each other.
FollowRead(w, u) == follow[u] = 0 /\ Begin(w, "follow", Does("follow", u, 0))
UnfollowRead(w, u) == follow[u] # 0 /\ Begin(w, "follow", Does("unfollow", u, follow[u]))

FollowCommit(w) ==
    LET u == work[w].by
    IN  /\ \/ /\ At(w, "follow") /\ follow[u] = 0 /\ fresh < MaxRows
              /\ fresh' = fresh + 1
              /\ follow' = [follow EXCEPT ![u] = fresh + 1]
           \/ /\ At(w, "unfollow")
              /\ follow' = [follow EXCEPT ![u] = IF @ = work[w].id THEN 0 ELSE @]
              /\ UNCHANGED fresh
        /\ UNCHANGED <<link, blocks, talk>>
        /\ Done(w)

---------------------------------------------------------------------------
(* The conversation *)

StartRead(w, u, kind) ==
    /\ blocks = {} /\ chat = "none"
    /\ Begin(w, "start", Does(kind, u, 0))

StartCommit(w) ==
    /\ work[w].op \in Kinds /\ chat = "none"
    /\ chat' = work[w].op
    /\ UNCHANGED <<social, messages, mark, receipts>>
    /\ Done(w)

Sending(v) == work[v].op \in {"text", "system"}

\* Only a direct conversation is closed by a block.  "system": set_disappearing.
SendRead(w, u, type) ==
    /\ chat # "none" /\ (chat = "DIRECT" => blocks = {})
    /\ Len(messages) + Cardinality({v \in Workers : Sending(v)}) < MaxMessages
    /\ Begin(w, "send", Does(type, u, 0))

\* What a message in the marketplace ends with reads a name that nothing was bound to.
Told(type) == type = "system" \/ chat # "MARKETPLACE"

\* The numbers are taken, and committed, under the lock of the conversation.
SendCommit(w) ==
    LET x == work[w]
    IN  /\ Sending(w) /\ Told(x.op)
        /\ messages' = Append(messages, Message(x.by, x.op, "written", FALSE))
        /\ UNCHANGED <<social, chat, mark, receipts>>
        /\ Done(w)

\* mark_read finds the reader's row first.
MemberRead(w, u) ==
    /\ chat # "none"
    /\ Begin(w, "read", Reads("member", u, mark[u], 0, {}))

\* Then the messages, up to a number or from the mark on, and their receipts.
UnreadRead(w, upto) ==
    LET x == work[w]
        unread == {i \in DOMAIN messages : /\ messages[i].by # x.by
                                            /\ IF upto # 0 THEN i <= upto ELSE i > x.id}
        top == IF unread = {} THEN 0 ELSE CHOOSE i \in unread : \A j \in unread : j <= i
    IN  /\ At(w, "member")
        /\ Keeps(w, Reads("read", x.by, x.id, top, {i \in unread : <<x.by, i>> \notin receipts}))
        /\ UNCHANGED <<social, talk>>

\* Mutant: the mark goes to the newest message there is.
Reached_Newest(x) == Len(messages)

Reached(x) == IF x.upto > x.id THEN x.upto ELSE x.id

\* Mutant: the mark goes where the client says.
ReadCommit_AsAsked(w) ==
    LET x == work[w]
    IN  /\ At(w, "read") /\ \A i \in x.new : <<x.by, i>> \notin receipts
        /\ receipts' = receipts \cup {<<x.by, i>> : i \in x.new}
        /\ mark' = [mark EXCEPT ![x.by] = x.upto]
        /\ UNCHANGED <<social, chat, messages>>
        /\ Done(w)

\* A mark that does not change is not written.
ReadCommit(w) ==
    LET x == work[w]
    IN  /\ At(w, "read") /\ \A i \in x.new : <<x.by, i>> \notin receipts
        /\ receipts' = receipts \cup {<<x.by, i>> : i \in x.new}
        /\ mark' = [mark EXCEPT ![x.by] = IF Reached(x) = x.id THEN @ ELSE Reached(x)]
        /\ UNCHANGED <<social, chat, messages>>
        /\ Done(w)

\* Its writer edits a text, deleted or not.
EditRead(w, u, i) ==
    /\ messages[i].by = u /\ messages[i].type = "text"
    /\ Begin(w, "edit", Does("edit", u, i))

\* Deleting a message twice does not empty it twice.
DeleteRead(w, u, i) ==
    /\ messages[i].by = u
    /\ Begin(w, "delete", Does(IF messages[i].body = "" THEN "redelete" ELSE "delete", u, i))

BodyCommit(w) ==
    LET x == work[w]
        m == messages[x.id]
        New(body, deleted) ==
            messages' = [messages EXCEPT ![x.id] = Message(m.by, m.type, body, deleted)]
    IN  /\ \/ At(w, "edit") /\ New("edited", m.deleted)
           \/ At(w, "delete") /\ New("", TRUE)
           \/ At(w, "redelete") /\ New(m.body, TRUE)
        /\ UNCHANGED <<social, chat, mark, receipts>>
        /\ Done(w)

\* A row that is gone cannot be written, a key that is taken is refused, and a name that is
\* not bound undoes the message.
Failed(w) ==
    LET x == work[w]
    IN  /\ \/ At(w, "insert") /\ Exists
           \/ x.op \in {"reopen", "turn", "accept", "decline"} /\ ~Same(x)
           \/ At(w, "block") /\ x.by \in blocks
           \/ At(w, "follow") /\ follow[x.by] # 0
           \/ x.op \in Kinds /\ chat # "none"
           \/ Sending(w) /\ ~Told(x.op)
           \/ At(w, "read") /\ \E i \in x.new : <<x.by, i>> \in receipts
        /\ Undone(w)

---------------------------------------------------------------------------
Read(w, u) ==
    \/ RequestRead(w, u)
    \/ AcceptRead(w, u)
    \/ DeclineRead(w, u)
    \/ CancelRead(w, u)
    \/ RemoveRead(w, u)
    \/ BlockRead(w, u)
    \/ UnblockRead(w, u)
    \/ FollowRead(w, u)
    \/ UnfollowRead(w, u)
    \/ \E kind \in Kinds : StartRead(w, u, kind)
    \/ \E type \in {"text", "system"} : SendRead(w, u, type)
    \/ MemberRead(w, u)
    \/ \E i \in DOMAIN messages : EditRead(w, u, i) \/ DeleteRead(w, u, i)

Commit(w) ==
    \/ InsertCommit(w)
    \/ ReopenCommit(w)
    \/ AnswerCommit(w)
    \/ RemoveCommit(w)
    \/ BlockCommit(w)
    \/ UnblockCommit(w)
    \/ FollowCommit(w)
    \/ StartCommit(w)
    \/ SendCommit(w)
    \/ \E upto \in 0..MaxMessages : UnreadRead(w, upto)
    \/ ReadCommit(w)
    \/ BodyCommit(w)
    \/ Failed(w)

Next == \E w \in Workers : Commit(w) \/ \E u \in Users : Read(w, u)

Spec == Init /\ [][Next]_vars

---------------------------------------------------------------------------
(* Properties *)

\* A connection is accepted only if each of the two has asked for it or accepted it since it
\* was last removed or blocked, whatever answers, reopenings and removals overlap.
AcceptedByBoth == link.status = "ACCEPTED" => link.asked = Users

\* As long as no requests have overlapped, users of whom one blocks the other are not
\* connected and have no request open.
NoTieAcrossBlock == ~overlapped /\ blocks # {} => ~Exists

\* What a read mark covers of the other's messages has its receipt, whatever is sent while
\* it is moved, and however many devices of the reader move it.
ReceiptsCoverMark ==
    \A u \in Users, i \in DOMAIN messages :
        i <= mark[u] /\ messages[i].by # u => <<u, i>> \in receipts

\* As long as no requests have overlapped, a read mark never goes back, not even when the
\* client names an older message.
MarksAdvance == [][~overlapped' => \A u \in Users : mark'[u] >= mark[u]]_vars

\* A read mark never goes back: between two devices it does.
MarksAlwaysAdvance == [][\A u \in Users : mark'[u] >= mark[u]]_vars

\* Blocking severs both follow directions ("Blocking also severs any connection and both
\* follow directions"): until the blocked user follows again, which no block prevents.
NoFollowAcrossBlock == blocks # {} => \A u \in Users : follow[u] = 0

\* No connection across a block, even between requests that overlap.
NeverTiedAcrossBlock == blocks # {} => ~Exists

\* Cancelling takes back a pending request ("Requester retracts a pending request"): it
\* takes back the accepted ones as well.
CancelledWasPending ==
    [][\A w \in Workers, u \in Users : CancelRead(w, u) => link.status = "PENDING"]_vars

\* A message deleted for everyone has no text: until it is edited.
DeletedIsEmpty == \A i \in DOMAIN messages : messages[i].deleted => messages[i].body = ""

\* A conversation opened from a listing can be written to: nothing but system messages can.
SentIsStored == [][\A w \in Workers : Sending(w) /\ ~Sending(w)' => messages' # messages]_vars
=============================================================================
