----------------------- MODULE Contacts_Media_proofs -----------------------
(***************************************************************************)
(* Two components that share nothing but Serving, the way their requests are *)
(* served: no theorem of one uses anything of the other.                     *)
(*                                                                           *)
(* Contacts: who has agreed to a connection, what a block leaves of it and   *)
(* what a read mark stands for, for any two users and any number of workers, *)
(* rows and messages.                                                        *)
(*                                                                           *)
(* Media: what a sweep may delete and what refers to a file, for any files   *)
(* and number of workers.                                                    *)
(***************************************************************************)
EXTENDS Contacts, Media, FiniteSetTheorems, SequenceTheorems, TLAPS

---------------------------------------------------------------------------
(* Contacts: what a worker has noted *)

Plain == {"decline", "remove", "unblock", "follow", "unfollow", "DIRECT", "MARKETPLACE", "SUPPORT",
          "text", "system", "edit", "delete", "redelete"}
Ops == Plain \cup {"idle", "insert", "reopen", "turn", "accept", "block", "sever", "member", "read"}

Statuses == {"none", "PENDING", "ACCEPTED", "DECLINED"}
Rows == [id : Nat, status : Statuses, by : Users \cup {"none"}, asked : SUBSET Users]
Texts == [by : Users, type : {"text", "system"}, body : {"written", "edited", ""}, deleted : BOOLEAN]
Notes == [op : Ops, by : Users \cup {"none"}, id : Nat, upto : Nat, new : SUBSET Nat]

TypeOK ==
    /\ fresh \in Nat
    /\ link \in Rows
    /\ blocks \subseteq Users
    /\ follow \in [Users -> Nat]
    /\ messages \in Seq(Texts)
    /\ mark \in [Users -> Nat]
    /\ receipts \subseteq Users \X Nat
    /\ work \in [Workers -> Notes]

\* All that the other has written up to number n is among the receipts R of u.
Covered(u, n, R) ==
    \A i \in DOMAIN messages : i <= n /\ messages[i].by # u => <<u, i>> \in R

\* What a worker that has read something may rely on until it writes.  The row it answers
\* may have been turned round since, and then both have asked.
Answers(x) ==
    /\ x.id <= fresh
    /\ Same(x) => x.by # link.by \/ link.asked = Users
Promise(x) ==
    /\ x.op # "idle" => x.by \in Users
    /\ x.op = "accept" => Answers(x)
    /\ x.op = "member" => x.id <= Len(messages) /\ Covered(x.by, x.id, receipts)
    /\ x.op = "read" =>
        /\ x.upto <= Len(messages)
        /\ Covered(x.by, x.upto, receipts \cup {<<x.by, i>> : i \in x.new})

\* The row is no newer than the last id, and whoever it names has asked.
Requested == link.id <= fresh /\ (Exists => link.by \in link.asked)

\* No mark is beyond the last message.
MarksWithin == \A u \in Users : mark[u] <= Len(messages)

IInv ==
    /\ TypeOK
    /\ Requested
    /\ AcceptedByBoth
    /\ MarksWithin
    /\ ReceiptsCoverMark
    /\ \A w \in Workers : Promise(work[w])

\* What holds beside it while requests do not overlap.
Fresh(x) ==
    /\ x.op \in {"insert", "reopen", "turn"} => blocks = {}
    /\ x.op \in {"block", "sever"} => x.id = link.id
    /\ x.op \in {"member", "read"} => x.id = mark[x.by]
Serial ==
    ~overlapped =>
        /\ Alone
        /\ blocks # {} => ~Exists
        /\ \A w \in Workers : Fresh(work[w])

---------------------------------------------------------------------------
(* Lemmas about the data *)

\* Two different users are the pair.
LEMMA Pair ==
    ASSUME NEW u \in Users, NEW v \in Users, u # v
    PROVE  Users = {u, v}
BY ContactsAssumption

\* A set of message numbers that is not empty has a largest one.
LEMMA Newest ==
    ASSUME NEW n \in Nat, NEW S \in SUBSET (1..n), S # {}
    PROVE  \E i \in S : \A j \in S : j <= i
<1> DEFINE Above(i) == {j \in S : j > i}
           T == {Above(i) : i \in S}
<1>1. S \in SUBSET Nat /\ IsFiniteSet(S)
    BY FS_BoundedSetOfNaturals
<1>2. T \subseteq FiniteSubsetsOf(S) /\ T # {}
  <2>1. ASSUME NEW i \in S PROVE Above(i) \in SUBSET S /\ IsFiniteSet(Above(i))
      BY <1>1, FS_Subset
  <2> QED BY <2>1 DEF FiniteSubsetsOf
<1>3. IsWellFoundedOn(StrictSubsetOrdering(S), FiniteSubsetsOf(S))
    BY FS_StrictSubsetOrderingWellFounded
<1>4. PICK A \in T : \A B \in T : ~(<<B, A>> \in StrictSubsetOrdering(S))
  <2> HIDE DEF T
  <2> QED BY <1>2, <1>3, WFMin
<1>5. PICK i \in S : A = Above(i)
    BY <1>4
<1>6. ASSUME NEW j \in S, j > i PROVE FALSE
  <2>1. Above(j) \subseteq Above(i) /\ j \in Above(i) /\ j \notin Above(j)
    <3>1. \A k \in S : k \in Int
        BY <1>1
    <3>2. \A k \in S : k > j => k > i
        BY <1>6, <3>1
    <3>3. ~(j > j)
        BY <3>1
    <3> QED BY <1>6, <3>2, <3>3
  <2>2. Above(j) # Above(i) /\ Above(j) \in SUBSET S /\ Above(i) \in SUBSET S
      BY <2>1
  <2>3. <<Above(j), A>> \in StrictSubsetOrdering(S)
    <3> HIDE DEF Above
    <3> QED BY <1>5, <2>1, <2>2 DEF StrictSubsetOrdering
  <2>4. Above(j) \in T
      OBVIOUS
  <2> QED BY <1>4, <2>3, <2>4
<1> QED BY <1>1, <1>6

---------------------------------------------------------------------------
(* A request reads *)

tables == <<requests, fresh, link, blocks, follow, chat, messages, mark, receipts>>

Noted(w, x) ==
    /\ At(w, "idle")
    /\ work' = [work EXCEPT ![w] = x]
    /\ overlapped' = (overlapped \/ \E v \in Workers \ {w} : ~At(v, "idle"))
    /\ UNCHANGED tables
    /\ Promise(x)
    /\ Fresh(x)

LEMMA NotedFrom ==
    ASSUME NEW w \in Workers, NEW name, NEW x, Begin(w, name, x), Promise(x), Fresh(x)
    PROVE  Noted(w, x)
BY DEF Begin, Takes, Noted, tables, social, talk

\* Whatever a request reads, it holds a well-formed note of it that is true.
LEMMA ReadNote ==
    ASSUME IInv, NEW w \in Workers, NEW u \in Users, Read(w, u)
    PROVE  \E x \in Notes : Noted(w, x)
<1>t. TypeOK /\ Requested
    BY DEF IInv
<1>1. ASSUME NEW op \in Plain, NEW id \in Nat, NEW name \in requests, Begin(w, name, Does(op, u, id))
      PROVE  \E x \in Notes : Noted(w, x)
  <2>1. Does(op, u, id) \in Notes
      BY DEF Does, Notes, Ops, Plain
  <2>2. Promise(Does(op, u, id)) /\ Fresh(Does(op, u, id))
      BY <1>1 DEF Does, Promise, Fresh, Plain
  <2> QED BY <1>1, <2>1, <2>2, NotedFrom
<1>2. ASSUME RequestRead(w, u) PROVE \E x \in Notes : Noted(w, x)
  <2>1. PICK op \in {"insert", "reopen", "turn"}, id \in Nat : Begin(w, "request", Does(op, u, id))
      BY <1>t, <1>2 DEF RequestRead, TypeOK, Rows
  <2>2. Does(op, u, id) \in Notes
      BY <2>1 DEF Does, Notes, Ops, Plain
  <2>3. Promise(Does(op, u, id)) /\ Fresh(Does(op, u, id))
      BY <1>2, <2>1 DEF RequestRead, Does, Promise, Fresh
  <2> QED BY <2>1, <2>2, <2>3, NotedFrom
<1>3. ASSUME AcceptRead(w, u) PROVE \E x \in Notes : Noted(w, x)
  <2>1. Begin(w, "accept", Does("accept", u, link.id)) /\ link.id \in Nat /\ link.by # u
      BY <1>t, <1>3 DEF AcceptRead, Target, TypeOK, Rows
  <2>2. Does("accept", u, link.id) \in Notes
      BY <2>1 DEF Does, Notes, Ops, Plain
  <2>3. Promise(Does("accept", u, link.id)) /\ Fresh(Does("accept", u, link.id))
      BY <1>t, <2>1 DEF Does, Promise, Answers, Requested, Fresh
  <2> QED BY <2>1, <2>2, <2>3, NotedFrom
<1>4. ASSUME BlockRead(w, u) PROVE \E x \in Notes : Noted(w, x)
  <2>1. PICK op \in {"block", "sever"} : Begin(w, "block", Does(op, u, link.id))
      BY <1>4 DEF BlockRead
  <2>2. Does(op, u, link.id) \in Notes
      BY <1>t, <2>1 DEF Does, Notes, Ops, Plain, TypeOK, Rows
  <2>3. Promise(Does(op, u, link.id)) /\ Fresh(Does(op, u, link.id))
      BY <2>1 DEF Does, Promise, Fresh
  <2> QED BY <2>1, <2>2, <2>3, NotedFrom
<1>5. ASSUME MemberRead(w, u) PROVE \E x \in Notes : Noted(w, x)
  <2> DEFINE x == Reads("member", u, mark[u], 0, {})
  <2>1. Begin(w, "read", x)
      BY <1>5 DEF MemberRead
  <2>2. x \in Notes
      BY <1>t DEF Reads, Notes, Ops, TypeOK
  <2>3. Promise(x) /\ Fresh(x)
      BY DEF IInv, MarksWithin, ReceiptsCoverMark, Reads, Promise, Covered, Fresh
  <2> HIDE DEF x
  <2> QED BY <2>1, <2>2, <2>3, NotedFrom
<1>6. ASSUME NEW i \in DOMAIN messages, EditRead(w, u, i) \/ DeleteRead(w, u, i)
      PROVE  \E x \in Notes : Noted(w, x)
  <2>1. i \in Nat
      BY <1>t DEF TypeOK
  <2>2. CASE EditRead(w, u, i)
    <3>1. Begin(w, "edit", Does("edit", u, i)) /\ "edit" \in requests
        BY <2>2 DEF EditRead, Begin
    <3> QED BY <1>1, <2>1, <3>1 DEF Plain
  <2>3. CASE DeleteRead(w, u, i)
    <3>1. PICK op \in {"delete", "redelete"} : 
              Begin(w, "delete", Does(op, u, i)) /\ "delete" \in requests
        BY <2>3 DEF DeleteRead, Begin
    <3> QED BY <1>1, <2>1, <3>1 DEF Plain
  <2> QED BY <1>6, <2>2, <2>3
<1>7. ASSUME DeclineRead(w, u) \/ CancelRead(w, u) \/ RemoveRead(w, u)
      PROVE  \E x \in Notes : Noted(w, x)
  <2>1. link.id \in Nat
      BY <1>t DEF TypeOK, Rows
  <2>2. PICK name \in requests, op \in {"decline", "remove"} : Begin(w, name, Does(op, u, link.id))
      BY <1>7 DEF DeclineRead, CancelRead, RemoveRead, Begin
  <2> QED BY <1>1, <2>1, <2>2 DEF Plain
<1>8. ASSUME UnblockRead(w, u) \/ FollowRead(w, u) \/ UnfollowRead(w, u)
      PROVE  \E x \in Notes : Noted(w, x)
  <2>1. follow[u] \in Nat
      BY <1>t DEF TypeOK
  <2>2. PICK name \in requests, op \in {"unblock", "follow", "unfollow"}, id \in Nat :
            Begin(w, name, Does(op, u, id))
      BY <1>8, <2>1 DEF UnblockRead, FollowRead, UnfollowRead, Begin
  <2> QED BY <1>1, <2>2 DEF Plain
<1>9. ASSUME NEW kind \in Kinds, StartRead(w, u, kind) PROVE \E x \in Notes : Noted(w, x)
  <2>1. /\ Begin(w, "start", Does(kind, u, 0)) /\ "start" \in requests
        /\ kind \in {"DIRECT", "MARKETPLACE", "SUPPORT"}
      BY <1>9 DEF StartRead, Kinds, Begin
  <2> QED BY <1>1, <2>1 DEF Plain
<1>10. ASSUME NEW type \in {"text", "system"}, SendRead(w, u, type) PROVE \E x \in Notes : Noted(w, x)
  <2>1. Begin(w, "send", Does(type, u, 0)) /\ "send" \in requests
      BY <1>10 DEF SendRead, Begin
  <2> QED BY <1>1, <2>1 DEF Plain
<1> QED BY <1>2, <1>3, <1>4, <1>5, <1>6, <1>7, <1>8, <1>9, <1>10 DEF Read

---------------------------------------------------------------------------
(* Workers and their notes *)

\* A worker that is done holds nothing; the others hold what they held.
LEMMA DoneNotes ==
    ASSUME TypeOK, NEW w \in Workers, Done(w)
    PROVE  /\ work' \in [Workers -> Notes]
           /\ work'[w] = Idle
           /\ \A v \in Workers \ {w} : work'[v] = work[v]
           /\ overlapped' = overlapped
<1>1. Idle \in Notes
    BY DEF Idle, Does, Notes, Ops
<1> QED BY <1>1 DEF TypeOK, Done, Keeps

\* Beginning a request keeps the invariant: the tables stay, and its note is true.
LEMMA BeginStep ==
    ASSUME IInv, NEW w \in Workers, NEW u \in Users, Read(w, u)
    PROVE  IInv'
<1>1. PICK x \in Notes : Noted(w, x)
    BY ReadNote
<1>2. TypeOK /\ Requested /\ AcceptedByBoth /\ MarksWithin /\ ReceiptsCoverMark
      /\ \A v \in Workers : Promise(work[v])
    BY DEF IInv
<1>3. UNCHANGED tables /\ work' = [work EXCEPT ![w] = x] /\ Promise(x)
    BY <1>1 DEF Noted
<1>4. TypeOK'
    BY <1>2, <1>3 DEF TypeOK, tables
<1>5. Requested' /\ AcceptedByBoth' /\ MarksWithin' /\ ReceiptsCoverMark'
    BY <1>2, <1>3 DEF Requested, Exists, AcceptedByBoth, MarksWithin, ReceiptsCoverMark, tables
<1>6. ASSUME NEW v \in Workers PROVE Promise(work[v])'
  <2>1. Promise(work'[v])
      BY <1>2, <1>3 DEF TypeOK
  <2> QED BY <1>3, <2>1 DEF Promise, Answers, Same, Exists, Covered, tables
<1> QED BY <1>4, <1>5, <1>6 DEF IInv

---------------------------------------------------------------------------
(* A request writes *)

\* A step that changes the connection, the blocks and the follows keeps the invariant when
\* the row, if it is one there was, has lost nobody's agreement.
LEMMA SocialStep ==
    ASSUME IInv, NEW w \in Workers, Done(w), UNCHANGED talk,
           fresh' \in Nat, fresh <= fresh', link' \in Rows, blocks' \subseteq Users,
           follow' \in [Users -> Nat],
           Requested', AcceptedByBoth',
           Exists' /\ link'.id <= fresh =>
               Exists /\ link.id = link'.id /\ link.asked \subseteq link'.asked
    PROVE  IInv'
<1>1. TypeOK /\ Requested /\ MarksWithin /\ ReceiptsCoverMark /\ \A v \in Workers : Promise(work[v])
    BY DEF IInv
<1>2. TypeOK'
    BY <1>1, DoneNotes DEF TypeOK, talk
<1>3. MarksWithin' /\ ReceiptsCoverMark'
    BY <1>1 DEF MarksWithin, ReceiptsCoverMark, talk
<1>4. ASSUME NEW v \in Workers PROVE Promise(work[v])'
  <2>1. CASE v = w
      BY <1>1, <2>1, DoneNotes DEF Promise, Idle, Does
  <2>2. CASE v # w
    <3>1. PICK x \in Notes : x = work[v] /\ x = work'[v] /\ Promise(x)
        BY <1>1, <2>2, DoneNotes DEF TypeOK
    <3>2. x.op = "accept" => Answers(x)'
      <4> SUFFICES ASSUME x.op = "accept" PROVE Answers(x)'
          OBVIOUS
      <4>1. x.by \in Users /\ x.id \in Nat /\ Answers(x) /\ fresh \in Nat
          BY <1>1, <3>1 DEF Promise, Notes, TypeOK
      <4>2. ASSUME Same(x)' PROVE (x.by # link.by \/ link.asked = Users)'
        <5>1. /\ Exists /\ Exists' /\ link.id = link'.id /\ link.asked \subseteq link'.asked
              /\ x.id = link.id
            BY <4>1, <4>2 DEF Same, Answers
        <5>2. /\ link.by \in link.asked /\ link'.by \in link'.asked /\ link.by \in Users
              /\ link'.by \in Users /\ link'.asked \subseteq Users
              /\ x.by # link.by \/ link.asked = Users
            BY <1>1, <4>1, <5>1 DEF Requested, TypeOK, Rows, Answers, Same
        <5>3. CASE link'.by = link.by
            BY <5>1, <5>2, <5>3
        <5>4. CASE link'.by # link.by
            BY <5>1, <5>2, <5>4, Pair
        <5> QED BY <5>3, <5>4
      <4>3. x.id <= fresh'
          BY <4>1 DEF Answers
      <4> QED BY <4>2, <4>3 DEF Answers
    <3>3. (x.op # "idle" => x.by \in Users)
          /\ (x.op = "member" => x.id <= Len(messages)' /\ Covered(x.by, x.id, receipts)')
          /\ (x.op = "read" => /\ x.upto <= Len(messages)'
                              /\ Covered(x.by, x.upto, receipts \cup {<<x.by, i>> : i \in x.new})')
        BY <3>1 DEF Promise, Covered, talk
    <3> QED BY <3>1, <3>2, <3>3 DEF Promise
  <2> QED BY <2>1, <2>2
<1> QED BY <1>2, <1>3, <1>4 DEF IInv

LEMMA InsertStep ==
    ASSUME IInv, NEW w \in Workers, InsertCommit(w)
    PROVE  IInv'
<1>1. TypeOK /\ Promise(work[w])
    BY DEF IInv
<1>2. work[w].by \in Users
    BY <1>1 DEF InsertCommit, At, Promise
<1>3. /\ Done(w) /\ fresh' = fresh + 1 /\ blocks' = blocks /\ follow' = follow /\ UNCHANGED talk
      /\ link' = [id |-> fresh + 1, status |-> "PENDING", by |-> work[w].by, asked |-> {work[w].by}]
    BY DEF InsertCommit, Link
<1>4. fresh' \in Nat /\ fresh <= fresh' /\ link' \in Rows /\ link'.id > fresh
    BY <1>1, <1>2, <1>3 DEF TypeOK, Rows, Statuses
<1>5. Requested' /\ AcceptedByBoth'
    BY <1>1, <1>3 DEF Requested, AcceptedByBoth, TypeOK
<1>6. blocks' \subseteq Users /\ follow' \in [Users -> Nat] /\ ~(link'.id <= fresh)
    BY <1>1, <1>3, <1>4 DEF TypeOK, Rows
<1> QED BY <1>3, <1>4, <1>5, <1>6, SocialStep

\* A row that is reopened or turned round keeps those who have asked, and adds one.
LEMMA ReopenStep ==
    ASSUME IInv, NEW w \in Workers, ReopenCommit(w)
    PROVE  IInv'
<1>1. TypeOK /\ Promise(work[w]) /\ Requested
    BY DEF IInv
<1>2. work[w].by \in Users /\ Exists
    BY <1>1 DEF ReopenCommit, At, Promise, Same
<1>3. PICK by \in {work[w].by, link.by} :
          link' = [id |-> link.id, status |-> "PENDING", by |-> by, asked |-> link.asked \cup {work[w].by}]
    BY DEF ReopenCommit, Link
<1>4. Done(w) /\ fresh' = fresh /\ blocks' = blocks /\ follow' = follow /\ UNCHANGED talk
    BY DEF ReopenCommit
<1>5. link' \in Rows
    BY <1>1, <1>2, <1>3 DEF TypeOK, Rows, Statuses
<1>6. Requested' /\ AcceptedByBoth'
    BY <1>1, <1>2, <1>3, <1>4 DEF Requested, AcceptedByBoth, Exists
<1>7. fresh' \in Nat /\ fresh <= fresh' /\ blocks' \subseteq Users /\ follow' \in [Users -> Nat]
    BY <1>1, <1>4 DEF TypeOK
<1>8. Exists /\ link.id = link'.id /\ link.asked \subseteq link'.asked
    BY <1>2, <1>3
<1> QED BY <1>4, <1>5, <1>6, <1>7, <1>8, SocialStep

\* Whoever accepts did not ask, unless both have.
LEMMA AnswerStep ==
    ASSUME IInv, NEW w \in Workers, AnswerCommit(w)
    PROVE  IInv'
<1>1. TypeOK /\ Promise(work[w]) /\ Requested
    BY DEF IInv
<1>2. Same(work[w]) /\ Exists
    BY DEF AnswerCommit, Same
<1>3. Done(w) /\ fresh' = fresh /\ blocks' = blocks /\ follow' = follow /\ UNCHANGED talk
    BY DEF AnswerCommit
<1>s. fresh' \in Nat /\ fresh <= fresh' /\ blocks' \subseteq Users /\ follow' \in [Users -> Nat]
    BY <1>1, <1>3 DEF TypeOK
<1>4. CASE At(w, "accept")
  <2>1. work[w].by \in Users /\ (work[w].by # link.by \/ link.asked = Users)
      BY <1>1, <1>2, <1>4 DEF At, Promise, Answers
  <2>2. link' = [id |-> link.id, status |-> "ACCEPTED", by |-> link.by, asked |-> link.asked \cup {work[w].by}]
      BY <1>4 DEF AnswerCommit, Link, At
  <2>3. link.by \in link.asked /\ link.asked \subseteq Users
      BY <1>1, <1>2 DEF Requested, TypeOK, Rows
  <2>4. link.asked \cup {work[w].by} = Users
      BY <2>1, <2>3, Pair
  <2>5. link' \in Rows
      BY <1>1, <2>1, <2>2 DEF TypeOK, Rows, Statuses
  <2>6. Requested' /\ AcceptedByBoth'
      BY <1>1, <1>3, <2>2, <2>3, <2>4 DEF Requested, AcceptedByBoth
  <2>7. Exists /\ link.id = link'.id /\ link.asked \subseteq link'.asked
      BY <1>2, <2>2
  <2> QED BY <1>3, <1>s, <2>5, <2>6, <2>7, SocialStep
<1>5. CASE ~At(w, "accept")
  <2>1. link' = [id |-> link.id, status |-> "DECLINED", by |-> link.by, asked |-> link.asked]
      BY <1>5 DEF AnswerCommit, Link
  <2>2. link' \in Rows /\ Requested' /\ AcceptedByBoth'
      BY <1>1, <1>2, <1>3, <2>1 DEF TypeOK, Rows, Statuses, Requested, AcceptedByBoth
  <2>3. Exists /\ link.id = link'.id /\ link.asked \subseteq link'.asked
      BY <1>2, <2>1
  <2> QED BY <1>3, <1>s, <2>2, <2>3, SocialStep
<1> QED BY <1>4, <1>5

\* What removes, blocks, unblocks, follows or unfollows leaves the row alone or deletes it.
LEMMA SeverStep ==
    ASSUME IInv, NEW w \in Workers,
           RemoveCommit(w) \/ BlockCommit(w) \/ UnblockCommit(w) \/ FollowCommit(w)
    PROVE  IInv'
<1>1. TypeOK /\ Promise(work[w]) /\ Requested /\ AcceptedByBoth
    BY DEF IInv
<1>2. Done(w) /\ UNCHANGED talk
    BY DEF RemoveCommit, BlockCommit, UnblockCommit, FollowCommit
<1>3. link' = link \/ link' = [id |-> 0, status |-> "none", by |-> "none", asked |-> {}]
    BY DEF RemoveCommit, BlockCommit, UnblockCommit, FollowCommit, Severed, NoLink, Link
<1>4. fresh' \in Nat /\ fresh <= fresh' /\ (fresh' = fresh \/ fresh' = fresh + 1)
    BY <1>1 DEF RemoveCommit, BlockCommit, UnblockCommit, FollowCommit, TypeOK
<1>5. blocks' \subseteq Users
    BY <1>1 DEF RemoveCommit, BlockCommit, UnblockCommit, FollowCommit, TypeOK, At, Promise
<1>6. follow' \in [Users -> Nat]
    BY <1>1, <1>4 DEF RemoveCommit, BlockCommit, UnblockCommit, FollowCommit, TypeOK
<1>7. link' \in Rows
    BY <1>1, <1>3 DEF TypeOK, Rows, Statuses
<1>8. Requested' /\ AcceptedByBoth'
    BY <1>1, <1>3, <1>4, <1>7 DEF Requested, AcceptedByBoth, Exists, TypeOK, Rows
<1>9. Exists' => Exists /\ link.id = link'.id /\ link.asked \subseteq link'.asked
    BY <1>3 DEF Exists
<1> QED BY <1>2, <1>4, <1>5, <1>6, <1>7, <1>8, <1>9, SocialStep

\* A step that adds messages or rewrites them, each under its writer, keeps the invariant.
LEMMA TalkStep ==
    ASSUME IInv, NEW w \in Workers, Done(w), UNCHANGED <<social, mark, receipts>>,
           messages' \in Seq(Texts), Len(messages') >= Len(messages),
           \A i \in DOMAIN messages : messages'[i].by = messages[i].by
    PROVE  IInv'
<1>1. TypeOK /\ Requested /\ AcceptedByBoth /\ MarksWithin /\ ReceiptsCoverMark
      /\ \A v \in Workers : Promise(work[v])
    BY DEF IInv
<1>2. TypeOK'
    BY <1>1, DoneNotes DEF TypeOK, social
<1>3. Requested' /\ AcceptedByBoth'
    BY <1>1 DEF Requested, Exists, AcceptedByBoth, social
<1>4. /\ Len(messages) \in Nat /\ DOMAIN messages = 1 .. Len(messages)
      /\ Len(messages)' \in Nat /\ DOMAIN messages' = 1 .. Len(messages)'
    BY <1>1, <1>2 DEF TypeOK
<1>5. ASSUME NEW u, NEW n \in Nat, NEW R, n <= Len(messages), Covered(u, n, R)
      PROVE  \A i \in DOMAIN messages' : i <= n /\ messages'[i].by # u => <<u, i>> \in R
    BY <1>4, <1>5 DEF Covered
<1>6. MarksWithin'
    BY <1>1, <1>4 DEF MarksWithin, TypeOK
<1>7. ReceiptsCoverMark'
  <2> SUFFICES ASSUME NEW u \in Users
               PROVE  \A i \in DOMAIN messages' :
                          i <= mark[u] /\ messages'[i].by # u => <<u, i>> \in receipts
      BY DEF ReceiptsCoverMark
  <2>1. mark[u] \in Nat /\ mark[u] <= Len(messages) /\ Covered(u, mark[u], receipts)
      BY <1>1 DEF TypeOK, MarksWithin, ReceiptsCoverMark, Covered
  <2> QED BY <1>5, <2>1
<1>8. ASSUME NEW v \in Workers PROVE Promise(work[v])'
  <2>1. CASE v = w
      BY <1>1, <2>1, DoneNotes DEF Promise, Idle, Does
  <2>2. CASE v # w
    <3>1. PICK x \in Notes : x = work[v] /\ x = work'[v] /\ Promise(x)
        BY <1>1, <2>2, DoneNotes DEF TypeOK
    <3>2. x.id \in Nat /\ x.upto \in Nat
        BY DEF Notes
    <3>3. x.op = "accept" => Answers(x)'
        BY <3>1 DEF Promise, Answers, Same, Exists, social
    <3>4. x.op = "member" => x.id <= Len(messages)' /\ Covered(x.by, x.id, receipts)'
        BY <1>4, <1>5, <3>1, <3>2 DEF Promise, Covered
    <3>5. x.op = "read" =>
              /\ x.upto <= Len(messages)'
              /\ Covered(x.by, x.upto, receipts \cup {<<x.by, i>> : i \in x.new})'
        BY <1>4, <1>5, <3>1, <3>2 DEF Promise, Covered
    <3> QED BY <3>1, <3>3, <3>4, <3>5 DEF Promise
  <2> QED BY <2>1, <2>2
<1> QED BY <1>2, <1>3, <1>6, <1>7, <1>8 DEF IInv

LEMMA WriteStep ==
    ASSUME IInv, NEW w \in Workers,
           StartCommit(w) \/ SendCommit(w) \/ BodyCommit(w) \/ Failed(w)
    PROVE  IInv'
<1>1. TypeOK /\ Promise(work[w])
    BY DEF IInv
<1>2. Done(w) /\ UNCHANGED <<social, mark, receipts>>
    BY DEF StartCommit, SendCommit, BodyCommit, Failed, Undone, talk
<1>3. CASE StartCommit(w) \/ Failed(w)
  <2>1. messages' = messages
      BY <1>3 DEF StartCommit, Failed, Undone, talk
  <2>2. messages \in Seq(Texts) /\ Len(messages) \in Nat
      BY <1>1 DEF TypeOK
  <2> QED BY <1>2, <2>1, <2>2, TalkStep
<1>4. CASE SendCommit(w)
  <2>1. work[w].by \in Users /\ work[w].op \in {"text", "system"}
      BY <1>1, <1>4 DEF SendCommit, Sending, Promise
  <2>2. PICK m \in Texts : messages' = Append(messages, m)
      BY <1>4, <2>1 DEF SendCommit, Message, Texts
  <2>3. messages \in Seq(Texts)
      BY <1>1 DEF TypeOK
  <2>4. messages' \in Seq(Texts) /\ Len(messages') >= Len(messages)
        /\ \A i \in DOMAIN messages : messages'[i].by = messages[i].by
      BY <2>2, <2>3
  <2> QED BY <1>2, <2>4, TalkStep
<1>5. CASE BodyCommit(w)
  <2>1. messages \in Seq(Texts) /\ Len(messages) \in Nat
      BY <1>1 DEF TypeOK
  <2>2. CASE work[w].id \in DOMAIN messages
    <3>1. messages[work[w].id] \in Texts
        BY <2>1, <2>2
    <3>2. PICK t \in Texts : /\ t.by = messages[work[w].id].by
                             /\ messages' = [messages EXCEPT ![work[w].id] = t]
        BY <1>5, <3>1 DEF BodyCommit, Message, Texts
    <3>3. messages' \in Seq(Texts) /\ Len(messages') >= Len(messages)
          /\ \A i \in DOMAIN messages : messages'[i].by = messages[i].by
        BY <2>1, <2>2, <3>2
    <3> QED BY <1>2, <3>3, TalkStep
  <2>3. CASE work[w].id \notin DOMAIN messages
    <3>1. \A t : [messages EXCEPT ![work[w].id] = t] = messages
        BY <2>1, <2>3
    <3>2. messages' = messages
      <4>1. CASE At(w, "edit")
          BY <1>5, <3>1, <4>1, Zenon DEF BodyCommit, At
      <4>2. CASE At(w, "delete")
          BY <1>5, <3>1, <4>2, Zenon DEF BodyCommit, At
      <4>3. CASE At(w, "redelete")
          BY <1>5, <3>1, <4>3, Zenon DEF BodyCommit, At
      <4> QED BY <1>5, <4>1, <4>2, <4>3 DEF BodyCommit
    <3> QED BY <1>2, <2>1, <3>2, TalkStep
  <2> QED BY <2>2, <2>3
<1> QED BY <1>3, <1>4, <1>5

\* What a reading notes covers the other's messages up to the number it has found, with the
\* receipts it is going to write.
LEMMA UnreadNote ==
    ASSUME IInv, NEW w \in Workers, NEW upto \in 0 .. MaxMessages, UnreadRead(w, upto)
    PROVE  \E x \in Notes : /\ x.op = "read" /\ x.by = work[w].by /\ x.id = work[w].id
                            /\ Promise(x)
                            /\ work' = [work EXCEPT ![w] = x]
<1>1. TypeOK /\ Promise(work[w])
    BY DEF IInv
<1>2. /\ work[w].by \in Users /\ work[w].id \in Nat /\ work[w].id <= Len(messages)
      /\ Covered(work[w].by, work[w].id, receipts) /\ upto \in Nat
      /\ Len(messages) \in Nat /\ DOMAIN messages = 1 .. Len(messages)
    BY <1>1, ContactsAssumption DEF UnreadRead, Keeps, At, Promise, TypeOK, Notes
<1> DEFINE by == work[w].by
           id == work[w].id
           unread == {i \in DOMAIN messages : /\ messages[i].by # by
                                              /\ IF upto # 0 THEN i <= upto ELSE i > id}
           top == IF unread = {} THEN 0 ELSE CHOOSE i \in unread : \A j \in unread : j <= i
           new == {i \in unread : <<by, i>> \notin receipts}
           x == [op |-> "read", by |-> by, id |-> id, upto |-> top, new |-> new]
<1>3. work' = [work EXCEPT ![w] = x]
    BY DEF UnreadRead, Keeps, Reads
<1>4. unread \in SUBSET (1 .. Len(messages))
    BY <1>2
<1>5. top \in Nat /\ top <= Len(messages) /\ (top = 0 \/ top \in unread)
  <2>1. CASE unread = {}
      BY <1>2, <2>1
  <2>2. CASE unread # {}
    <3>1. \E i \in unread : \A j \in unread : j <= i
      <4> HIDE DEF unread
      <4> QED BY <1>2, <1>4, <2>2, Newest
    <3>2. top \in unread
      <4> HIDE DEF unread
      <4> QED BY <2>2, <3>1
    <3> QED BY <1>2, <1>4, <3>2
  <2> QED BY <2>1, <2>2
<1>6. x \in Notes
  <2>1. new \in SUBSET Nat
      BY <1>2
  <2> HIDE DEF top, new
  <2> QED BY <1>2, <1>5, <2>1 DEF Notes, Ops
<1>7. Covered(by, top, receipts \cup {<<by, i>> : i \in new})
  <2> SUFFICES ASSUME NEW i \in DOMAIN messages, i <= top, messages[i].by # by,
                      <<by, i>> \notin receipts
               PROVE  i \in new
    <3> HIDE DEF top, new
    <3> QED BY DEF Covered
  <2>1. i \in 1 .. Len(messages) /\ ~(i <= id)
      BY <1>2 DEF Covered
  <2>2. top \in unread
    <3> HIDE DEF top
    <3> QED BY <1>5, <2>1
  <2>3. upto # 0 => top <= upto
    <3> HIDE DEF top
    <3> QED BY <2>2
  <2>4. upto # 0 => i <= upto
    <3> HIDE DEF top, unread
    <3> QED BY <1>2, <1>5, <2>1, <2>3
  <2> QED BY <1>2, <2>1, <2>4
<1>8. Promise(x)
  <2> HIDE DEF top, new
  <2> QED BY <1>2, <1>5, <1>7 DEF Promise
<1> HIDE DEF x
<1>9. x.op = "read" /\ x.by = work[w].by /\ x.id = work[w].id
    BY DEF x
<1> QED BY <1>3, <1>6, <1>8, <1>9

\* Finding the messages touches no table.
LEMMA UnreadStep ==
    ASSUME IInv, NEW w \in Workers, NEW upto \in 0 .. MaxMessages, UnreadRead(w, upto)
    PROVE  IInv'
<1>1. TypeOK /\ Requested /\ AcceptedByBoth /\ MarksWithin /\ ReceiptsCoverMark
      /\ \A v \in Workers : Promise(work[v])
    BY DEF IInv
<1>2. PICK x \in Notes : Promise(x) /\ work' = [work EXCEPT ![w] = x]
    BY UnreadNote
<1>3. UNCHANGED tables
    BY DEF UnreadRead, Keeps, tables, social, talk
<1>4. TypeOK'
    BY <1>1, <1>2, <1>3 DEF TypeOK, tables
<1>5. Requested' /\ AcceptedByBoth' /\ MarksWithin' /\ ReceiptsCoverMark'
    BY <1>1, <1>3 DEF Requested, Exists, AcceptedByBoth, MarksWithin, ReceiptsCoverMark, tables
<1>6. ASSUME NEW v \in Workers PROVE Promise(work[v])'
  <2>1. Promise(work'[v])
      BY <1>1, <1>2 DEF TypeOK
  <2> QED BY <1>3, <2>1 DEF Promise, Answers, Same, Exists, Covered, tables
<1> QED BY <1>4, <1>5, <1>6 DEF IInv

\* The mark moves, if it moves, to what the receipts written with it cover.
LEMMA ReadStep ==
    ASSUME IInv, NEW w \in Workers, ReadCommit(w)
    PROVE  IInv'
<1>1. TypeOK /\ Requested /\ AcceptedByBoth /\ MarksWithin /\ ReceiptsCoverMark
      /\ \A v \in Workers : Promise(work[v])
    BY DEF IInv
<1>2. PICK x \in Notes : x = work[w] /\ Promise(x) /\ x.op = "read"
    BY <1>1 DEF TypeOK, ReadCommit, At
<1>3. /\ Done(w) /\ UNCHANGED social /\ messages' = messages
      /\ receipts' = receipts \cup {<<x.by, i>> : i \in x.new}
    BY <1>2 DEF ReadCommit
<1>m. mark' = mark \/ mark' = [mark EXCEPT ![x.by] = x.upto]
  <2>1. mark' = [mark EXCEPT ![x.by] = IF Reached(x) = x.id THEN @ ELSE Reached(x)]
      BY <1>2 DEF ReadCommit
  <2>2. Reached(x) # x.id => Reached(x) = x.upto
      BY DEF Reached
  <2> QED BY <1>1, <2>1, <2>2 DEF TypeOK
<1>4. /\ x.by \in Users /\ x.new \subseteq Nat /\ x.upto \in Nat /\ x.upto <= Len(messages)
      /\ Covered(x.by, x.upto, receipts')
    BY <1>2, <1>3 DEF Promise, Notes
<1>5. mark' \in [Users -> Nat] /\ receipts' \subseteq Users \X Nat
  <2>1. mark' \in [Users -> Nat]
      BY <1>1, <1>m, <1>4 DEF TypeOK
  <2>2. receipts \subseteq Users \X Nat
      BY <1>1 DEF TypeOK
  <2>3. {<<x.by, i>> : i \in x.new} \subseteq Users \X Nat
      BY <1>4
  <2> QED BY <1>3, <2>1, <2>2, <2>3
<1>6. TypeOK'
    BY <1>1, <1>3, <1>5, DoneNotes DEF TypeOK, social
<1>7. Requested' /\ AcceptedByBoth'
    BY <1>1, <1>3 DEF Requested, Exists, AcceptedByBoth, social
<1>8. MarksWithin'
    BY <1>1, <1>3, <1>m, <1>4 DEF TypeOK, MarksWithin
<1>9. ReceiptsCoverMark'
    BY <1>1, <1>3, <1>m, <1>4 DEF TypeOK, ReceiptsCoverMark, Covered
<1>10. ASSUME NEW v \in Workers PROVE Promise(work[v])'
  <2>1. CASE v = w
      BY <1>1, <1>3, <2>1, DoneNotes DEF Promise, Idle, Does
  <2>2. CASE v # w
    <3>1. PICK y \in Notes : y = work[v] /\ y = work'[v] /\ Promise(y)
        BY <1>1, <1>3, <2>2, DoneNotes DEF TypeOK
    <3>2. y.op = "accept" => Answers(y)'
        BY <1>3, <3>1 DEF Promise, Answers, Same, Exists, social
    <3>3. y.op = "member" => y.id <= Len(messages)' /\ Covered(y.by, y.id, receipts)'
        BY <1>3, <3>1 DEF Promise, Covered
    <3>4. y.op = "read" =>
              /\ y.upto <= Len(messages)'
              /\ Covered(y.by, y.upto, receipts \cup {<<y.by, i>> : i \in y.new})'
        BY <1>3, <3>1 DEF Promise, Covered
    <3> QED BY <3>1, <3>2, <3>3, <3>4 DEF Promise
  <2> QED BY <2>1, <2>2
<1> QED BY <1>6, <1>7, <1>8, <1>9, <1>10 DEF IInv

\* Every step of a worker keeps the invariant.
LEMMA NextStep ==
    ASSUME IInv, [Next]_vars
    PROVE  IInv'
<1>1. ASSUME NEW w \in Workers, NEW u \in Users, Read(w, u) PROVE IInv'
    BY <1>1, BeginStep
<1>2. ASSUME NEW w \in Workers, Commit(w) PROVE IInv'
    BY <1>2, InsertStep, ReopenStep, AnswerStep, SeverStep, WriteStep, UnreadStep, ReadStep DEF Commit
<1>3. CASE UNCHANGED vars
    BY <1>3 DEF vars, social, talk, IInv, TypeOK, Requested, Exists, AcceptedByBoth, MarksWithin,
                ReceiptsCoverMark, Promise, Answers, Same, Covered
<1> QED BY <1>1, <1>2, <1>3 DEF Next

LEMMA InitInv == Init => IInv
<1> SUFFICES ASSUME Init PROVE IInv
    OBVIOUS
<1>1. TypeOK
  <2>1. Idle \in Notes /\ NoLink \in Rows
      BY DEF Idle, Does, Notes, Ops, NoLink, Link, Rows, Statuses
  <2> QED BY <2>1 DEF Init, TypeOK
<1>2. Requested /\ AcceptedByBoth
    BY DEF Init, Requested, Exists, AcceptedByBoth, NoLink, Link
<1>3. MarksWithin /\ ReceiptsCoverMark
    BY DEF Init, MarksWithin, ReceiptsCoverMark
<1>4. \A w \in Workers : Promise(work[w])
    BY DEF Init, Promise, Idle, Does
<1> QED BY <1>1, <1>2, <1>3, <1>4 DEF IInv

LEMMA Invariance == Spec => []IInv
BY InitInv, NextStep, PTL DEF Spec

---------------------------------------------------------------------------
(* One request at a time *)

LEMMA BeginSerial ==
    ASSUME IInv, Serial, NEW w \in Workers, NEW u \in Users, Read(w, u)
    PROVE  Serial' /\ mark' = mark
<1>1. PICK x \in Notes : Noted(w, x)
    BY ReadNote
<1>2. /\ UNCHANGED tables /\ work' = [work EXCEPT ![w] = x] /\ Fresh(x)
      /\ overlapped' = (overlapped \/ \E v \in Workers \ {w} : ~At(v, "idle"))
    BY <1>1 DEF Noted
<1> SUFFICES ASSUME ~overlapped'
             PROVE  Alone' /\ (blocks # {} => ~Exists)' /\ \A v \in Workers : Fresh(work[v])'
    BY <1>2 DEF Serial, tables
<1>3. /\ ~overlapped /\ (blocks # {} => ~Exists) /\ \A v \in Workers : Fresh(work[v])
      /\ \A v \in Workers \ {w} : At(v, "idle")
    BY <1>2 DEF Serial
<1>4. \A v \in Workers : work'[v] = IF v = w THEN x ELSE work[v]
    BY <1>2 DEF IInv, TypeOK
<1>5. Alone'
    BY <1>3, <1>4 DEF Alone, At
<1>6. (blocks # {} => ~Exists)'
    BY <1>2, <1>3 DEF Exists, tables
<1>7. ASSUME NEW v \in Workers PROVE Fresh(work[v])'
  <2>1. Fresh(work'[v])
      BY <1>2, <1>3, <1>4
  <2> QED BY <1>2, <2>1 DEF Fresh, tables
<1> QED BY <1>5, <1>6, <1>7

\* While requests do not overlap, whoever writes is alone, and its note is still fresh: a
\* block finds the connection there is, and a reading the mark it starts from.
LEMMA CommitSerial ==
    ASSUME IInv, Serial, NEW w \in Workers, Commit(w)
    PROVE  Serial' /\ (~overlapped' => \A u \in Users : mark'[u] >= mark[u])
<1>1. TypeOK /\ Promise(work[w]) /\ mark \in [Users -> Nat]
    BY DEF IInv, TypeOK
<1>2. overlapped' = overlapped /\ ~At(w, "idle")
    BY DEF Commit, InsertCommit, ReopenCommit, AnswerCommit, RemoveCommit, BlockCommit, UnblockCommit,
           FollowCommit, StartCommit, SendCommit, UnreadRead, ReadCommit, BodyCommit, Failed, Undone,
           Done, Keeps, At, Sending, Kinds
<1> SUFFICES ASSUME ~overlapped
             PROVE  Serial' /\ \A u \in Users : mark'[u] >= mark[u]
    BY <1>2 DEF Serial
<1>3. /\ Alone /\ (blocks # {} => ~Exists) /\ Fresh(work[w])
    BY DEF Serial
<1>4. \A v \in Workers \ {w} : work[v].op = "idle"
    BY <1>2, <1>3 DEF Alone, At
<1>5. ASSUME Done(w), (blocks # {} => ~Exists)' PROVE Serial'
  <2>1. \A v \in Workers : work'[v].op = "idle"
      BY <1>1, <1>4, <1>5, DoneNotes DEF Idle, Does
  <2> QED BY <1>5, <2>1 DEF Serial, Alone, At, Fresh
<1>6. CASE InsertCommit(w) \/ ReopenCommit(w)
  <2>1. Done(w) /\ blocks' = blocks /\ mark' = mark
      BY <1>6 DEF InsertCommit, ReopenCommit, talk
  <2>2. blocks = {}
      BY <1>3, <1>6 DEF InsertCommit, ReopenCommit, Fresh, At
  <2> QED BY <1>1, <1>5, <2>1, <2>2
<1>7. CASE AnswerCommit(w)
  <2>1. Done(w) /\ blocks' = blocks /\ mark' = mark /\ Exists
      BY <1>7 DEF AnswerCommit, talk, Same
  <2> QED BY <1>1, <1>3, <1>5, <2>1
<1>8. CASE BlockCommit(w)
  <2>1. Done(w) /\ mark' = mark /\ link' = Severed(work[w])
      BY <1>8 DEF BlockCommit, talk
  <2>2. Same(work[w]) \/ ~Exists
      BY <1>3, <1>8 DEF BlockCommit, Fresh, At, Same
  <2>3. link'.status = "none"
      BY <2>1, <2>2 DEF Severed, NoLink, Link, Exists
  <2> QED BY <1>1, <1>5, <2>1, <2>3 DEF Exists
<1>9. CASE RemoveCommit(w) \/ UnblockCommit(w) \/ FollowCommit(w)
  <2>1. Done(w) /\ mark' = mark /\ blocks' \subseteq blocks
      BY <1>9 DEF RemoveCommit, UnblockCommit, FollowCommit, talk
  <2>2. link' = link \/ link'.status = "none"
      BY <1>9 DEF RemoveCommit, UnblockCommit, FollowCommit, Severed, NoLink, Link
  <2> QED BY <1>1, <1>3, <1>5, <2>1, <2>2 DEF Exists
<1>10. CASE StartCommit(w) \/ SendCommit(w) \/ BodyCommit(w) \/ Failed(w)
  <2>1. Done(w) /\ mark' = mark /\ blocks' = blocks /\ link' = link
      BY <1>10 DEF StartCommit, SendCommit, BodyCommit, Failed, Undone, social, talk
  <2> QED BY <1>1, <1>3, <1>5, <2>1 DEF Exists
<1>11. ASSUME NEW upto \in 0 .. MaxMessages, UnreadRead(w, upto)
       PROVE  Serial' /\ \A u \in Users : mark'[u] >= mark[u]
  <2>1. UNCHANGED tables /\ At(w, "member") /\ work[w].id = mark[work[w].by]
      BY <1>3, <1>11 DEF UnreadRead, Keeps, tables, social, talk, Fresh, At
  <2>2. PICK x \in Notes : /\ x.op = "read" /\ x.by = work[w].by /\ x.id = work[w].id
                           /\ work' = [work EXCEPT ![w] = x]
      BY <1>11, UnreadNote
  <2>3. \A v \in Workers : work'[v] = IF v = w THEN x ELSE work[v]
      BY <1>1, <2>2 DEF TypeOK
  <2>4. Alone' /\ (blocks # {} => ~Exists)'
      BY <1>3, <1>4, <2>1, <2>3 DEF Alone, At, Exists, tables
  <2>5. ASSUME NEW v \in Workers PROVE Fresh(work[v])'
    <3>1. Fresh(work'[v])
        BY <1>4, <2>1, <2>2, <2>3 DEF Fresh
    <3> QED BY <2>1, <3>1 DEF Fresh, tables
  <2> QED BY <1>1, <2>1, <2>4, <2>5 DEF Serial, tables
<1>12. CASE ReadCommit(w)
  <2>1. Done(w) /\ blocks' = blocks /\ link' = link
      BY <1>12 DEF ReadCommit, social
  <2>2. /\ work[w].by \in Users /\ work[w].id = mark[work[w].by]
        /\ work[w].upto \in Nat /\ work[w].id \in Nat
      BY <1>1, <1>3, <1>12 DEF ReadCommit, At, Promise, Fresh, TypeOK, Notes
  <2>3. mark' = [mark EXCEPT ![work[w].by] =
                    IF Reached(work[w]) = work[w].id THEN @ ELSE Reached(work[w])]
      BY <1>12 DEF ReadCommit
  <2>4. Reached(work[w]) \in Nat /\ Reached(work[w]) >= mark[work[w].by]
      BY <2>2 DEF Reached
  <2>5. \A u \in Users : mark'[u] >= mark[u]
      BY <1>1, <2>2, <2>3, <2>4
  <2> QED BY <1>3, <1>5, <2>1, <2>5 DEF Exists
<1> QED BY <1>6, <1>7, <1>8, <1>9, <1>10, <1>11, <1>12 DEF Commit

LEMMA NextSerial ==
    ASSUME IInv, Serial, [Next]_vars
    PROVE  /\ Serial'
           /\ [~overlapped' => \A u \in Users : mark'[u] >= mark[u]]_vars
<1>1. mark \in [Users -> Nat]
    BY DEF IInv, TypeOK
<1>2. ASSUME NEW w \in Workers, NEW u \in Users, Read(w, u)
      PROVE  Serial' /\ \A v \in Users : mark'[v] >= mark[v]
    BY <1>1, <1>2, BeginSerial
<1>3. ASSUME NEW w \in Workers, Commit(w)
      PROVE  Serial' /\ (~overlapped' => \A v \in Users : mark'[v] >= mark[v])
    BY <1>3, CommitSerial
<1>4. CASE UNCHANGED vars
    BY <1>4 DEF vars, social, talk, Serial, Alone, At, Exists, Fresh
<1> QED BY <1>2, <1>3, <1>4 DEF Next

LEMMA SerialInvariance == Spec => []Serial
<1>1. Init => Serial
    BY DEF Init, Serial, Alone, At, Exists, NoLink, Link, Fresh, Idle, Does
<1> QED BY <1>1, NextSerial, Invariance, PTL DEF Spec

---------------------------------------------------------------------------
(* The theorems *)

\* The tables and the workers' notes keep their shapes.
THEOREM TypeCorrect == Spec => []TypeOK
BY Invariance, PTL DEF IInv

\* Nobody is connected to someone who has not asked for it or accepted it, however requests,
\* answers, reopenings and removals overlap.
THEOREM BothHaveAgreed == Spec => []AcceptedByBoth
BY Invariance, PTL DEF IInv

\* A read mark covers nothing of the other's that has no receipt, whatever is sent while it
\* is moved.
THEOREM MarkHasReceipts == Spec => []ReceiptsCoverMark
BY Invariance, PTL DEF IInv

\* As long as no two requests have overlapped, a block leaves no connection and no request.
THEOREM BlockUnties == Spec => []NoTieAcrossBlock
<1>1. Serial => NoTieAcrossBlock
    BY DEF Serial, NoTieAcrossBlock
<1> QED BY <1>1, SerialInvariance, PTL

\* As long as no two requests have overlapped, no read mark goes back.
THEOREM MarksGoForward == Spec => MarksAdvance
BY NextSerial, Invariance, SerialInvariance, PTL DEF Spec, MarksAdvance

---------------------------------------------------------------------------
(* Media: what a worker that has read something may rely on until it writes. *)

\* What a file may be attached to: of the listing and the status, only one that there is.
Known(ctx) == ctx \in Contexts /\ (ctx \in NeedsItsRow => thing[ctx].at = "there")

Working(x) ==
    /\ x.op = "upload" =>
        /\ x.of = Nothing \/ Known(x.of)
        /\ x.keys[1] \in Assets
        /\ row[x.keys[1]].at = "none" /\ x.keys[1] \in blob
    /\ x.op \in {"attach", "delete"} => x.keys[1] \in Assets
    /\ x.op = "attach" => Known(x.of)
    /\ x.op = "create" => x.of \in Things /\ thing[x.of].at = "none"
    /\ x.op \in {"add", "remove"} => x.of = "listing" /\ thing["listing"].at = "there"
    /\ x.op = "edit" => x.of = "post" /\ thing["post"].at \in {"there", "edited"}
    /\ x.op \in {"create", "add", "edit"} => \A a \in ToSet(x.keys) : row[a].at # "none"
    /\ x.op \in {"create", "add"} => \A a \in ToSet(x.keys) \ x.found : ~Live(row[a])
    /\ x.op = "clean" => x.found \subseteq x.bad /\ \A a \in x.bad : row[a].at # "none"

\* No two workers upload under one key or create one thing.
NoShare == \A v, w \in Workers : v # w =>
    /\ At(v, "upload") /\ At(w, "upload") => work[v].keys[1] # work[w].keys[1]
    /\ At(v, "create") /\ At(w, "create") => work[v].of # work[w].of

\* Whatever is named has a row, or had one.
NamedKnown == \A t \in Things : \A a \in thing[t].keys : row[a].at # "none"

\* What cannot do without its row is never edited.
NeverEdited == \A t \in NeedsItsRow : thing[t].at # "edited"

MediaInv ==
    /\ MediaTypeOK
    /\ \A w \in Workers : Working(work[w])
    /\ NoShare
    /\ NamedKnown
    /\ NeverEdited
    /\ DetachedExpires
    /\ NamedIsAttached
    /\ AttachedToStored

\* The keys of a list are files.
LEMMA KeysOfList ==
    ASSUME NEW K \in Seq(Assets)
    PROVE  ToSet(K) \subseteq Assets /\ \A i \in DOMAIN K : K[i] \in Assets /\ K[i] \in ToSet(K)
BY DEF ToSet

LEMMA ListIsSeq == ASSUME NEW K \in Lists PROVE K \in Seq(Assets)
BY DEF Lists, SeqOf

---------------------------------------------------------------------------
(* A request reads *)

\* Whatever a request reads, it holds a well-formed note of it that is true, and the only
\* table it may have changed is the storage, by a file under a new key.
MediaNoted(w, x) ==
    /\ Takes(w, x) /\ UNCHANGED <<row, thing, killed, stale>>
    /\ x \in FileWork
    /\ \/ x.op # "upload" /\ blob' = blob
       \/ x.op = "upload" /\ blob' = blob \cup {x.keys[1]} /\ x.keys[1] \notin blob
    /\ Working(x)'
    /\ x.op = "create" => \A v \in Workers : ~(At(v, "create") /\ work[v].of = x.of)

\* An id that a user has been given is one of something that there is.
LEMMA GivenIsKnown ==
    ASSUME MediaTypeOK, NeverEdited, NEW ctx \in Contexts, Given(ctx)
    PROVE  Known(ctx)
BY DEF Given, Known, NeverEdited, NeedsItsRow, Things

LEMMA UploadNote ==
    ASSUME MediaTypeOK, NeverEdited, NEW w \in Workers, NEW a \in Assets, NEW c \in Contexts,
           UploadPut(w, a, c) \/ FilePut(w, a)
    PROVE  \E x \in FileWork : MediaNoted(w, x) /\ x.bad = {}
<1>1. PICK ctx \in Contexts \cup {Nothing} :
        /\ Asks(w, "upload", Holding("upload", <<a>>, ctx, {}, {})) /\ Stored(a)
        /\ ctx = Nothing \/ Known(ctx)
    BY GivenIsKnown DEF UploadPut, FilePut
<1> DEFINE x == Holding("upload", <<a>>, ctx, {}, {})
<1>2. x \in FileWork /\ x.op = "upload" /\ x.keys[1] = a /\ x.of = ctx /\ x.bad = {}
    BY DEF Holding, FileWork
<1>3. Working(x)'
    BY <1>1, <1>2 DEF Working, Known, Asks, Stored
<1> HIDE DEF x
<1> QED BY <1>1, <1>2, <1>3 DEF MediaNoted, Asks, Stored, x

LEMMA FileNote ==
    ASSUME MediaTypeOK, NeverEdited, NEW w \in Workers, NEW a \in Assets, NEW c \in Contexts,
           AttachRead(w, a, c) \/ DeleteFileRead(w, a)
    PROVE  \E x \in FileWork : MediaNoted(w, x) /\ x.bad = {}
<1>1. PICK op, of, name :
        /\ op \in {"attach", "delete"} /\ of \in Contexts \cup {Nothing}
        /\ Asks(w, name, Holding(op, <<a>>, of, {}, {})) /\ blob' = blob
        /\ op = "attach" => Known(of)
    BY GivenIsKnown DEF AttachRead, DeleteFileRead
<1> DEFINE x == Holding(op, <<a>>, of, {}, {})
<1>2. x \in FileWork /\ x.op = op /\ x.keys[1] = a /\ x.of = of /\ x.bad = {}
    BY <1>1 DEF Holding, FileWork
<1>3. Working(x)'
    BY <1>1, <1>2 DEF Working, Known, Asks
<1> HIDE DEF x
<1> QED BY <1>1, <1>2, <1>3 DEF MediaNoted, Asks, x

\* What was not found is deleted or gone.
LEMMA ReadingNote ==
    ASSUME MediaTypeOK, NEW w \in Workers, NEW K \in Lists, NEW t \in Things,
           CreateRead(w, t, K) \/ (AddRead(w, K) /\ t = "listing")
    PROVE  \E x \in FileWork : MediaNoted(w, x) /\ x.op # "clean"
<1>1. PICK op \in {"create", "add"} :
        /\ Reading(w, op, t, K)
        /\ op = "create" => thing[t].at = "none" /\ \A v \in Workers : ~(At(v, "create") /\ work[v].of = t)
        /\ op = "add" => t = "listing" /\ thing["listing"].at = "there"
    BY DEF CreateRead, AddRead
<1>2. PICK found : found = {a \in ToSet(K) : There(a) /\ (t \in FindsDeleted \/ row[a].del = "no")}
    OBVIOUS
<1>3. PICK x : x = Holding(op, K, t, found, {a \in found : row[a].del # "no"})
    OBVIOUS
<1>4. x \in FileWork /\ x.op = op /\ x.keys = K /\ x.of = t /\ x.found = found
    BY <1>2, <1>3, ListIsSeq, KeysOfList DEF Holding, FileWork, Contexts
<1>5. \A a \in ToSet(K) : row[a].at # "none" /\ (a \notin found => ~Live(row[a]))
    BY <1>1, <1>2 DEF Reading, There, Live
<1>6. Asks(w, op, x) /\ blob' = blob
    BY <1>1, <1>2, <1>3 DEF Reading
<1>7. Working(x)'
    BY <1>1, <1>4, <1>5, <1>6 DEF Working, Asks, Live
<1> QED BY <1>1, <1>4, <1>6, <1>7 DEF MediaNoted, Asks

LEMMA KeysNote ==
    ASSUME MediaTypeOK, NEW w \in Workers, NEW K \in Lists,
           RemovePhotosRead(w, K) \/ EditPostRead(w, K)
    PROVE  \E x \in FileWork : MediaNoted(w, x) /\ x.bad = {}
<1>1. PICK op, of, name :
        /\ op \in {"remove", "edit"} /\ of \in {"listing", "post"}
        /\ Asks(w, name, Holding(op, K, of, {}, {})) /\ blob' = blob
        /\ op = "remove" => of = "listing" /\ thing["listing"].at = "there"
        /\ op = "edit" => /\ of = "post" /\ thing["post"].at \in {"there", "edited"}
                          /\ \A a \in ToSet(K) : row[a].at # "none"
    BY DEF RemovePhotosRead, EditPostRead
<1> DEFINE x == Holding(op, K, of, {}, {})
<1>2. x \in FileWork /\ x.op = op /\ x.keys = K /\ x.of = of /\ x.bad = {}
    BY <1>1, ListIsSeq DEF Holding, FileWork, Contexts, Things
<1>3. Working(x)'
    BY <1>1, <1>2 DEF Working, Asks
<1> HIDE DEF x
<1> QED BY <1>1, <1>2, <1>3 DEF MediaNoted, Asks, x

LEMMA CleanNote ==
    ASSUME MediaTypeOK, NEW w \in Workers, CleanRead(w)
    PROVE  \E x \in FileWork : MediaNoted(w, x) /\ \A a \in x.bad : Due(row[a])
<1>1. PICK due : due = {a \in Assets : Due(row[a])}
    OBVIOUS
<1>2. PICK x : x = Sweeps(due, due)
    OBVIOUS
<1>3. x \in FileWork /\ x.op = "clean" /\ x.found = due /\ x.bad = due
    BY <1>1, <1>2 DEF Sweeps, FileWork, Contexts
<1>4. Asks(w, "clean", x) /\ blob' = blob
    BY <1>1, <1>2 DEF CleanRead
<1>5. \A a \in due : a \in Assets /\ Due(row[a]) /\ row[a].at # "none"
    BY <1>1 DEF Due, Detached, Live
<1>6. Working(x)'
    BY <1>3, <1>4, <1>5 DEF Working, Asks
<1> QED BY <1>3, <1>4, <1>5, <1>6 DEF MediaNoted, Asks

LEMMA MediaNote ==
    ASSUME MediaTypeOK, NeverEdited, NEW w \in Workers, MediaRead(w)
    PROVE  \E x \in FileWork : MediaNoted(w, x) /\ (x.op = "clean" => \A a \in x.bad : Due(row[a]))
<1>1. ASSUME NEW a \in Assets, NEW c \in Contexts,
             UploadPut(w, a, c) \/ FilePut(w, a) \/ AttachRead(w, a, c) \/ DeleteFileRead(w, a)
      PROVE  \E x \in FileWork : MediaNoted(w, x) /\ x.bad = {}
    BY <1>1, UploadNote, FileNote
<1>2. ASSUME NEW K \in Lists, NEW t \in Things,
             CreateRead(w, t, K) \/ (AddRead(w, K) /\ t = "listing")
      PROVE  \E x \in FileWork : MediaNoted(w, x) /\ x.op # "clean"
    BY <1>2, ReadingNote
<1>3. ASSUME NEW K \in Lists, RemovePhotosRead(w, K) \/ EditPostRead(w, K)
      PROVE  \E x \in FileWork : MediaNoted(w, x) /\ x.bad = {}
    BY <1>3, KeysNote
<1>4. "listing" \in Things /\ "elsewhere" \in Contexts
    BY DEF Things, Contexts
<1> QED BY <1>1, <1>2, <1>3, <1>4, CleanNote DEF MediaRead

---------------------------------------------------------------------------
(* What the others may still rely on *)

\* A row that there was stays known, and what is deleted or gone stays so.
Ages == \A a \in Assets : row[a].at # "none" =>
    row'[a].at # "none" /\ (~Live(row[a]) => ~Live(row'[a]))

\* A listing, a status or a post that there is stays, and what was not created is still not.
Stays(v) ==
    /\ At(v, "create") => thing'[work[v].of].at = thing[work[v].of].at
    /\ \A t \in NeedsItsRow : thing[t].at = "there" => thing'[t].at = "there"
    /\ thing["post"].at \in {"there", "edited"} => thing'["post"].at \in {"there", "edited"}

\* A file that is being uploaded is in the storage and has no row yet.
Arrives(v) == At(v, "upload") => row'[work[v].keys[1]].at = "none" /\ work[v].keys[1] \in blob'

LEMMA StillWorking ==
    ASSUME MediaInv, NEW v \in Workers, work'[v] = work[v], Ages, Stays(v), Arrives(v)
    PROVE  Working(work[v])'
<1>1. Working(work[v]) /\ work[v] \in FileWork
    BY DEF MediaInv, MediaTypeOK
<1>2. ToSet(work[v].keys) \subseteq Assets /\ work[v].bad \subseteq Assets
    BY <1>1, KeysOfList DEF FileWork
<1>3. work[v].op \in {"create", "add", "edit"} => \A a \in ToSet(work[v].keys) : row'[a].at # "none"
    BY <1>1, <1>2 DEF Working, Ages
<1>4. work[v].op \in {"create", "add"} =>
        \A a \in ToSet(work[v].keys) \ work[v].found : ~Live(row'[a])
    BY <1>1, <1>2 DEF Working, Ages
<1>5. work[v].op = "clean" =>
        work[v].found \subseteq work[v].bad /\ \A a \in work[v].bad : row'[a].at # "none"
    BY <1>1, <1>2 DEF Working, Ages
<1>6. work[v].op = "create" => work[v].of \in Things /\ thing'[work[v].of].at = "none"
    BY <1>1 DEF Working, Stays, At
<1>7. work[v].op \in {"add", "remove"} => work[v].of = "listing" /\ thing'["listing"].at = "there"
    BY <1>1 DEF Working, Stays, NeedsItsRow
<1>8. work[v].op = "edit" => work[v].of = "post" /\ thing'["post"].at \in {"there", "edited"}
    BY <1>1 DEF Working, Stays
<1>9. work[v].op = "upload" =>
        /\ work[v].of = Nothing \/ Known(work[v].of)'
        /\ work[v].keys[1] \in Assets
        /\ row'[work[v].keys[1]].at = "none" /\ work[v].keys[1] \in blob'
    BY <1>1 DEF Working, Known, Stays, Arrives, At
<1>10. /\ work[v].op \in {"attach", "delete"} => work[v].keys[1] \in Assets
       /\ work[v].op = "attach" => Known(work[v].of)'
    BY <1>1 DEF Working, Known, Stays
<1> QED BY <1>3, <1>4, <1>5, <1>6, <1>7, <1>8, <1>9, <1>10 DEF Working, Known, Live

\* One worker goes on to something else, which is neither an upload nor a creation.
LEMMA OneMoves ==
    ASSUME MediaInv, NEW w \in Workers, NEW y \in FileWork, y.op \in {"idle", "clean"},
           work' = [work EXCEPT ![w] = y], Working(y)',
           Ages, \A v \in Workers \ {w} : Stays(v) /\ Arrives(v)
    PROVE  /\ work' \in [Workers -> FileWork]
           /\ \A v \in Workers : Working(work[v])'
           /\ NoShare'
<1>1. work \in [Workers -> FileWork]
    BY DEF MediaInv, MediaTypeOK
<1>2. work'[w] = y /\ \A v \in Workers \ {w} : work'[v] = work[v]
    BY <1>1
<1>3. ASSUME NEW v \in Workers PROVE Working(work[v])'
  <2>1. CASE v = w
      BY <1>2, <2>1 DEF Working
  <2>2. CASE v # w
      BY <1>2, <2>2, StillWorking
  <2> QED BY <2>1, <2>2
<1>4. NoShare'
    BY <1>2 DEF MediaInv, NoShare, At
<1> QED BY <1>1, <1>3, <1>4

\* A worker that is done holds nothing; the others hold what they held.
LEMMA AnsweredMoves ==
    ASSUME MediaInv, NEW w \in Workers, Keeps(w, Free),
           Ages, \A v \in Workers \ {w} : Stays(v) /\ Arrives(v)
    PROVE  /\ work' \in [Workers -> FileWork]
           /\ \A v \in Workers : Working(work[v])'
           /\ NoShare'
<1>1. work' = [work EXCEPT ![w] = Free]
    BY DEF Keeps
<1>2. PICK y : y = Free
    OBVIOUS
<1>3. y \in FileWork /\ y.op = "idle" /\ Working(y)'
    BY <1>2 DEF Free, Holding, FileWork, Working
<1> QED BY <1>1, <1>2, <1>3, OneMoves

\* Where the things stay, the others may rely on them; where the rows and the storage do, too.
LEMMA ThingsStay == ASSUME NEW v, thing' = thing PROVE Stays(v)
BY DEF Stays

LEMMA RowsStay ==
    ASSUME MediaInv, NEW v \in Workers, row' = row, blob \subseteq blob'
    PROVE  Ages /\ Arrives(v)
BY DEF MediaInv, Working, Ages, Arrives, At

---------------------------------------------------------------------------
(* A request begins *)

LEMMA MediaBegins ==
    ASSUME MediaInv, NEW w \in Workers, MediaRead(w)
    PROVE  MediaInv'
<1>1. PICK x \in FileWork : MediaNoted(w, x)
    BY MediaNote DEF MediaInv
<1>2. /\ At(w, "idle") /\ work' = [work EXCEPT ![w] = x]
      /\ row' = row /\ thing' = thing /\ killed' = killed /\ stale' = stale
      /\ overlapped' \in BOOLEAN /\ blob \subseteq blob' /\ Working(x)'
    BY <1>1 DEF MediaNoted, Takes
<1>3. MediaTypeOK /\ work \in [Workers -> FileWork]
    BY DEF MediaInv, MediaTypeOK
<1>4. work'[w] = x /\ \A v \in Workers \ {w} : work'[v] = work[v]
    BY <1>2, <1>3
<1>5. ASSUME NEW v \in Workers PROVE Working(work[v])'
  <2>1. CASE v = w
      BY <1>2, <1>4, <2>1 DEF Working
  <2>2. CASE v # w
      BY <1>2, <1>4, <2>2, StillWorking, ThingsStay, RowsStay
  <2> QED BY <2>1, <2>2
<1>6. NoShare'
  <2>1. ASSUME NEW v \in Workers \ {w} 
        PROVE  /\ At(v, "upload") /\ x.op = "upload" => work[v].keys[1] # x.keys[1]
               /\ At(v, "create") /\ x.op = "create" => work[v].of # x.of
      BY <1>1 DEF MediaNoted, MediaInv, Working, At
  <2> QED BY <1>4, <2>1 DEF MediaInv, NoShare, At
<1>7. MediaTypeOK'
  <2>1. blob' \subseteq Assets
      BY <1>1, <1>3 DEF MediaNoted, MediaTypeOK, Working
  <2> QED BY <1>2, <1>3, <2>1 DEF MediaTypeOK
<1>8. NamedKnown' /\ NeverEdited' /\ DetachedExpires' /\ NamedIsAttached' /\ AttachedToStored'
    BY <1>2 DEF MediaInv, NamedKnown, NeverEdited, DetachedExpires, NamedIsAttached, AttachedToStored, Detached, Live
<1> QED BY <1>5, <1>6, <1>7, <1>8 DEF MediaInv

---------------------------------------------------------------------------
(* A request writes *)

\* The file gets a row, and an expiry if nothing takes it at once.
LEMMA UploadStep ==
    ASSUME MediaInv, NEW w \in Workers, UploadCommit(w)
    PROVE  MediaInv'
<1> DEFINE k == work[w].keys[1]
           of == work[w].of
           rows == Recorded(k, of)
<1>1. MediaTypeOK /\ Working(work[w]) /\ At(w, "upload")
    BY DEF MediaInv, UploadCommit
<1>2. /\ k \in Assets /\ row[k].at = "none" /\ k \in blob /\ of \in Contexts \cup {Nothing}
      /\ of \in NeedsItsRow => thing[of].at = "there"
    BY <1>1, MediaAssumption DEF Working, Known, At, NeedsItsRow, Contexts, Things
<1>3. /\ Keeps(w, Free) /\ killed' = killed /\ stale' = stale /\ blob' = blob /\ thing' = thing
      /\ row' = IF of = Nothing THEN Expiring(rows) ELSE rows
    BY DEF UploadCommit, Answered
<1>4. rows \in [Assets -> FileRow] /\ rows[k] = Row("there", of, "none", "no")
      /\ \A a \in Assets \ {k} : rows[a] = row[a]
    BY <1>1, <1>2 DEF Recorded, MediaTypeOK, Row, FileRow
<1> HIDE DEF rows, k, of
<1>5. row' \in [Assets -> FileRow]
    BY <1>3, <1>4 DEF Expiring, FileRow
<1>6. \A a \in Assets : /\ row'[a].at = rows[a].at /\ row'[a].ctx = rows[a].ctx
                        /\ row'[a].del = rows[a].del
                        /\ Live(row'[a]) = Live(rows[a]) /\ Detached(row'[a]) = Detached(rows[a])
    BY <1>3, <1>4 DEF Expiring, FileRow, Live, Detached
<1>7. Ages
    BY <1>2, <1>4, <1>6 DEF Ages
<1>8. ASSUME NEW v \in Workers \ {w} PROVE Stays(v) /\ Arrives(v)
  <2>1. At(v, "upload") => work[v].keys[1] \in Assets \ {k} /\ work[v].keys[1] \in blob
                           /\ row[work[v].keys[1]].at = "none"
      BY <1>1 DEF MediaInv, NoShare, Working, At, k
  <2> QED BY <1>3, <1>4, <1>6, <2>1, ThingsStay DEF Arrives
<1>9. MediaTypeOK'
    BY <1>1, <1>3, <1>5, <1>7, <1>8, AnsweredMoves DEF MediaTypeOK, Keeps
<1>10. ASSUME NEW a \in Assets, a # k, Detached(row[a]) => row[a].ttl # "none"
       PROVE  Detached(row'[a]) => row'[a].ttl # "none"
  <2>1. rows[a] = row[a] /\ Detached(row'[a]) = Detached(row[a])
      BY <1>4, <1>6, <1>10
  <2>2. CASE of = Nothing
      BY <1>3, <1>4, <1>10, <2>1, <2>2 DEF Expiring, FileRow
  <2>3. CASE of # Nothing
      BY <1>3, <1>10, <2>1, <2>3
  <2> QED BY <2>2, <2>3
<1>11. Detached(row'[k]) => row'[k].ttl # "none"
  <2>1. CASE of = Nothing
      BY <1>2, <1>3, <1>4, <2>1 DEF Expiring, Detached, Live, Row, FileRow
  <2>2. CASE of # Nothing
      BY <1>2, <1>4, <1>6, <2>2 DEF Detached, Row
  <2> QED BY <2>1, <2>2
<1>12. DetachedExpires'
    BY <1>10, <1>11 DEF MediaInv, DetachedExpires
<1>13. NamedKnown' /\ NeverEdited'
    BY <1>1, <1>3, <1>7 DEF MediaInv, NamedKnown, NeverEdited, MediaTypeOK, ThingRow, Ages
<1>14. NamedIsAttached'
  <2>1. ASSUME NEW t \in Things, NEW a \in thing[t].keys
        PROVE  a \in Assets /\ a # k /\ Detached(row'[a]) = Detached(row[a])
      BY <1>1, <1>2, <1>4, <1>6 DEF MediaInv, NamedKnown, MediaTypeOK, ThingRow
  <2> QED BY <1>3, <2>1 DEF MediaInv, NamedIsAttached
<1>15. AttachedToStored'
  <2>1. row'[k].ctx = of
      BY <1>2, <1>4, <1>6 DEF Row
  <2> QED BY <1>2, <1>3, <1>4, <1>6, <2>1 DEF MediaInv, AttachedToStored
<1> QED BY <1>3, <1>7, <1>8, <1>9, <1>12, <1>13, <1>14, <1>15, AnsweredMoves DEF MediaInv

\* What is kept of the files of a request is in their list and has a row; without a failure
\* it is all of it.
LEMMA KeptFiles ==
    ASSUME NEW x \in FileWork
    PROVE  /\ Kept(x) \subseteq ToSet(x.keys) /\ ToSet(x.keys) \subseteq Assets
           /\ \A a \in Kept(x) \cap x.found : There(a)
           /\ Failing(x) = {} => Kept(x) = ToSet(x.keys)
<1>1. x.keys \in Seq(Assets)
    BY DEF FileWork
<1>2. DOMAIN x.keys = 1 .. Len(x.keys) /\ Len(x.keys) \in Nat
    BY <1>1
<1>3. Kept(x) \subseteq ToSet(x.keys)
    BY DEF Kept, ToSet
<1>4. ASSUME NEW a \in Kept(x) \cap x.found PROVE There(a)
  <2>1. PICK i \in DOMAIN x.keys : a = x.keys[i] /\ \A f \in Failing(x) : i > f
      BY DEF Kept
  <2>2. ~(i > i)
      BY <1>2
  <2>3. i \notin Failing(x)
      BY <2>1, <2>2
  <2> QED BY <2>1, <2>3 DEF Failing
<1>5. Failing(x) = {} => Kept(x) = ToSet(x.keys)
    BY DEF Kept, ToSet
<1> QED BY <1>1, <1>3, <1>4, <1>5, KeysOfList

\* Attaching files that have rows leaves none of them without something it is attached to.
LEMMA AttachedRows ==
    ASSUME MediaInv, NEW S \in SUBSET Assets, \A a \in S : There(a), NEW ctx \in Contexts,
           row' = Attached(S, ctx)
    PROVE  /\ row' \in [Assets -> FileRow] /\ Ages
           /\ \A a \in Assets : row'[a].at = row[a].at /\ Live(row'[a]) = Live(row[a])
           /\ \A a \in S : row'[a].ctx = ctx /\ ~Detached(row'[a])
           /\ \A a \in Assets \ S : row'[a] = row[a]
           /\ DetachedExpires'
           /\ \A a \in Assets : ~Detached(row[a]) => ~Detached(row'[a])
<1>1. MediaTypeOK /\ ctx # Nothing
    BY MediaAssumption DEF MediaInv
<1>2. row' \in [Assets -> FileRow]
    BY <1>1 DEF Attached, MediaTypeOK, FileRow, Row
<1>3. \A a \in Assets \ S : row'[a] = row[a]
    BY DEF Attached
<1>4. \A a \in S : row'[a] = Row("there", ctx, "none", row[a].del)
    BY DEF Attached
<1>5. ASSUME NEW a \in S
      PROVE  row'[a].at = row[a].at /\ row'[a].del = row[a].del /\ row'[a].ctx = ctx
  <2>1. row'[a] = Row("there", ctx, "none", row[a].del) /\ row[a].at = "there"
      BY <1>4 DEF There
  <2> QED BY <2>1 DEF Row
<1>6. \A a \in Assets : row'[a].at = row[a].at /\ Live(row'[a]) = Live(row[a])
    BY <1>3, <1>5 DEF Live
<1>7. \A a \in S : ~Detached(row'[a])
    BY <1>1, <1>5 DEF Detached
<1>8. DetachedExpires'
    BY <1>3, <1>7 DEF MediaInv, DetachedExpires
<1> QED BY <1>2, <1>3, <1>5, <1>6, <1>7, <1>8 DEF Ages

LEMMA AttachStep ==
    ASSUME MediaInv, NEW w \in Workers, AttachCommit(w)
    PROVE  MediaInv'
<1> DEFINE a == work[w].keys[1]
           of == work[w].of
<1>1. /\ Keeps(w, Free) /\ killed' = killed /\ stale' = stale /\ blob' = blob /\ thing' = thing
      /\ row' = Attached({a}, of) /\ There(a) /\ a \in Assets
    BY DEF AttachCommit, Answered, MediaInv, Working, At
<1>2. of \in Contexts /\ (of \in NeedsItsRow => thing[of].at = "there")
    BY DEF AttachCommit, MediaInv, Working, Known, At
<1> HIDE DEF a, of
<1>3. /\ row' \in [Assets -> FileRow] /\ Ages
      /\ \A c \in Assets : row'[c].at = row[c].at
      /\ row'[a].ctx = of
      /\ \A c \in Assets \ {a} : row'[c] = row[c]
      /\ DetachedExpires'
      /\ \A c \in Assets : ~Detached(row[c]) => ~Detached(row'[c])
    BY <1>1, <1>2, AttachedRows
<1>4. ASSUME NEW v \in Workers \ {w} PROVE Stays(v) /\ Arrives(v)
    BY <1>1, <1>3, ThingsStay DEF Arrives, MediaInv, Working, At
<1>5. MediaTypeOK
    BY DEF MediaInv
<1>6. MediaTypeOK'
    BY <1>1, <1>3, <1>4, <1>5, AnsweredMoves DEF MediaTypeOK, Keeps
<1>7. NamedKnown' /\ NeverEdited' /\ NamedIsAttached'
    BY <1>1, <1>3, <1>5 DEF MediaInv, NamedKnown, NeverEdited, NamedIsAttached, MediaTypeOK, ThingRow
<1>8. AttachedToStored'
    BY <1>1, <1>2, <1>3 DEF MediaInv, AttachedToStored
<1> QED BY <1>1, <1>3, <1>4, <1>6, <1>7, <1>8, AnsweredMoves DEF MediaInv

\* Files that are attached while a thing is written: those that it names and that were found.
LEMMA CreateStep ==
    ASSUME MediaInv, NEW w \in Workers, CreateCommit(w) \/ AddCommit(w)
    PROVE  MediaInv'
<1> DEFINE x == work[w]
           S == Kept(x) \cap x.found
<1>1. /\ Keeps(w, Free) /\ killed' = killed /\ stale' = stale /\ blob' = blob
      /\ row' = Attached(S, x.of)
      /\ \/ /\ At(w, "create") /\ Outcome(x) # "failed"
            /\ thing' = [thing EXCEPT ![x.of] = IF Outcome(x) = "lost" THEN Names("lost", {})
                                                ELSE Names("there", ToSet(x.keys))]
         \/ /\ At(w, "add")
            /\ thing' = [thing EXCEPT ![x.of] = Names(@.at, @.keys \cup Kept(x))]
    BY DEF CreateCommit, AddCommit, Answered
<1>2. MediaTypeOK /\ x \in FileWork /\ Working(x) /\ x.op \in {"create", "add"} /\ x.of \in Things
    BY <1>1 DEF MediaInv, MediaTypeOK, Working, At, Things
<1>3. /\ S \subseteq Assets /\ Kept(x) \subseteq ToSet(x.keys) /\ ToSet(x.keys) \subseteq Assets
      /\ \A a \in S : There(a)
      /\ Failing(x) = {} => Kept(x) = ToSet(x.keys)
    BY <1>2, KeptFiles
<1>4. x.of \in Contexts
    BY <1>2 DEF Contexts
<1>5. \A a \in ToSet(x.keys) : row[a].at # "none" /\ (a \notin x.found => ~Live(row[a]))
    BY <1>2 DEF Working
<1>6. PICK keys \in SUBSET Assets, at \in {"there", "lost"} :
        /\ thing' = [thing EXCEPT ![x.of] = Names(at, keys)]
        /\ \A a \in keys : a \in Kept(x) \/ (a \in thing[x.of].keys /\ thing[x.of].at = "there")
        /\ At(w, "add") \/ x.of \in NeedsItsRow => at = "there"
  <2>1. CASE At(w, "add")
    <3>1. /\ thing' = [thing EXCEPT ![x.of] = Names("there", thing[x.of].keys \cup Kept(x))]
          /\ thing[x.of].at = "there"
        BY <1>1, <1>2, <2>1 DEF At, Working, MediaTypeOK
    <3>2. thing[x.of].keys \subseteq Assets
        BY <1>2 DEF MediaTypeOK, ThingRow
    <3> QED BY <1>3, <2>1, <3>1, <3>2 DEF At
  <2>2. CASE At(w, "create") /\ Outcome(x) = "stored"
    <3>1. Failing(x) = {}
        BY <2>2 DEF Outcome
    <3> QED BY <1>1, <1>3, <2>2, <3>1 DEF At
  <2>3. CASE At(w, "create") /\ Outcome(x) # "stored"
    <3>1. Outcome(x) = "lost" /\ x.of \notin NeedsItsRow
        BY <1>1, <2>3 DEF Outcome, At
    <3> QED BY <1>1, <2>3, <3>1 DEF At
  <2> QED BY <1>1, <2>1, <2>2, <2>3
<1>7. /\ row' \in [Assets -> FileRow] /\ Ages
      /\ \A a \in Assets : row'[a].at = row[a].at /\ Live(row'[a]) = Live(row[a])
      /\ \A a \in S : row'[a].ctx = x.of /\ ~Detached(row'[a])
      /\ \A a \in Assets \ S : row'[a] = row[a]
      /\ DetachedExpires'
      /\ \A a \in Assets : ~Detached(row[a]) => ~Detached(row'[a])
    BY <1>1, <1>3, <1>4, AttachedRows
<1>8. /\ thing'[x.of].at = at /\ thing'[x.of].keys = keys
      /\ \A t \in Things \ {x.of} : thing'[t] = thing[t]
    BY <1>2, <1>6 DEF MediaTypeOK, Names
<1>9. thing' \in [Things -> ThingRow]
    BY <1>2, <1>6 DEF MediaTypeOK, ThingRow, Names
<1>10. thing[x.of].at = IF At(w, "create") THEN "none" ELSE "there"
    BY <1>1, <1>2 DEF Working, At
<1>11. x.of \in NeedsItsRow \/ thing[x.of].at = "there" => at = "there"
    BY <1>1, <1>6, <1>10
<1>12. thing[x.of].at # "edited" /\ "listing" \in NeedsItsRow
    BY <1>10 DEF NeedsItsRow
<1>13. ASSUME NEW v \in Workers \ {w} PROVE Stays(v) /\ Arrives(v)
  <2>1. At(v, "create") => work[v].of \in Things /\ work[v].of # x.of
    <3>1. At(v, "create") => work[v].of \in Things /\ thing[work[v].of].at = "none"
        BY DEF MediaInv, Working, At
    <3>2. At(w, "create") /\ At(v, "create") => work[v].of # x.of
        BY DEF MediaInv, NoShare
    <3> QED BY <1>10, <3>1, <3>2
  <2>2. Stays(v)
      BY <1>8, <1>11, <1>12, <2>1 DEF Stays, Things, NeedsItsRow
  <2>3. Arrives(v)
      BY <1>1, <1>7 DEF Arrives, MediaInv, Working, At
  <2> QED BY <2>2, <2>3
<1>14. /\ work' \in [Workers -> FileWork]
       /\ \A v \in Workers : Working(work[v])'
       /\ NoShare'
    BY <1>1, <1>7, <1>13, AnsweredMoves
<1>15. MediaTypeOK'
    BY <1>1, <1>2, <1>7, <1>9, <1>14 DEF MediaTypeOK, Keeps
<1> HIDE DEF x, S
<1>16. NamedKnown'
  <2>1. ASSUME NEW a \in keys PROVE a \in Assets /\ row[a].at # "none"
      BY <1>2, <1>3, <1>5, <1>6 DEF MediaInv, NamedKnown
  <2>2. ASSUME NEW t \in Things \ {x.of}, NEW a \in thing[t].keys PROVE a \in Assets /\ row[a].at # "none"
      BY <1>2 DEF MediaInv, NamedKnown, MediaTypeOK, ThingRow
  <2> QED BY <1>7, <1>8, <2>1, <2>2 DEF NamedKnown
<1>17. NamedIsAttached'
  <2>1. ASSUME NEW a \in keys PROVE ~Detached(row'[a])
    <3>1. CASE a \in Kept(x)
      <4>1. a \in S \/ (a \in ToSet(x.keys) /\ a \notin x.found)
          BY <1>3, <3>1 DEF S
      <4> QED BY <1>3, <1>5, <1>7, <4>1 DEF Detached
    <3>2. CASE a \in thing[x.of].keys /\ thing[x.of].at = "there"
        BY <1>2, <1>7, <3>2 DEF MediaInv, NamedIsAttached, MediaTypeOK, ThingRow
    <3> QED BY <1>6, <3>1, <3>2
  <2>2. ASSUME NEW t \in Things \ {x.of}, thing[t].at = "there", NEW a \in thing[t].keys
        PROVE  ~Detached(row'[a])
      BY <1>2, <1>7, <2>2 DEF MediaInv, NamedIsAttached, MediaTypeOK, ThingRow
  <2> QED BY <1>8, <2>1, <2>2 DEF NamedIsAttached
<1>18. AttachedToStored'
  <2>1. \A t \in NeedsItsRow : t \in Things /\ (thing[t].at = "there" => thing'[t].at = "there")
      BY <1>8, <1>11 DEF NeedsItsRow, Things
  <2>2. \A a \in S : row'[a].ctx \in NeedsItsRow => thing'[x.of].at = "there"
      BY <1>7, <1>8, <1>11
  <2> QED BY <1>7, <2>1, <2>2 DEF MediaInv, AttachedToStored
<1>19. NeverEdited'
    BY <1>8 DEF MediaInv, NeverEdited, NeedsItsRow, Things
<1> QED BY <1>7, <1>14, <1>15, <1>16, <1>17, <1>18, <1>19 DEF MediaInv

\* What a thing names may be dropped, or replaced by the edit of a post.
LEMMA KeysStep ==
    ASSUME MediaInv, NEW w \in Workers, KeysCommit(w)
    PROVE  MediaInv'
<1> DEFINE x == work[w]
<1>1. /\ Keeps(w, Free) /\ killed' = killed /\ stale' = stale /\ blob' = blob /\ row' = row
      /\ At(w, "remove") \/ At(w, "edit")
      /\ thing' = [thing EXCEPT ![x.of] = IF x.op = "edit" THEN Names("edited", ToSet(x.keys))
                                          ELSE Names(@.at, @.keys \ ToSet(x.keys))]
    BY DEF KeysCommit, Answered
<1>2. MediaTypeOK /\ x \in FileWork /\ Working(x)
    BY DEF MediaInv, MediaTypeOK
<1>3. /\ x.op = "edit" => x.of = "post" /\ thing["post"].at \in {"there", "edited"}
      /\ x.op # "edit" => x.of = "listing" /\ thing["listing"].at = "there"
      /\ x.op = "edit" => \A a \in ToSet(x.keys) : a \in Assets /\ row[a].at # "none"
    BY <1>1, <1>2, KeysOfList DEF Working, At, Things, FileWork
<1>4. PICK keys \in SUBSET Assets, at \in {"there", "edited"} :
        /\ thing' = [thing EXCEPT ![x.of] = Names(at, keys)]
        /\ \A a \in keys : row[a].at # "none"
        /\ at = "there" => keys \subseteq thing[x.of].keys
        /\ x.of = "listing" => at = "there"
        /\ x.of \in {"listing", "post"} /\ thing[x.of].at \in {"there", "edited"}
        /\ at = "there" => thing[x.of].at = "there"
  <2>1. CASE x.op = "edit"
      BY <1>1, <1>3, <2>1
  <2>2. CASE x.op # "edit"
    <3>1. PICK k : k = thing["listing"].keys \ ToSet(x.keys)
        OBVIOUS
    <3>2. x.of = "listing" /\ thing["listing"].at = "there"
        BY <1>3, <2>2
    <3>3. "listing" \in Things
        BY DEF Things
    <3>4. thing' = [thing EXCEPT !["listing"] = Names("there", k)]
        BY <1>1, <1>2, <2>2, <3>1, <3>2, <3>3 DEF MediaTypeOK
    <3>5. k \in SUBSET Assets /\ k \subseteq thing["listing"].keys
        BY <1>2, <3>1, <3>3 DEF MediaTypeOK, ThingRow
    <3>6. \A a \in k : row[a].at # "none"
        BY <3>3, <3>5 DEF MediaInv, NamedKnown
    <3> QED BY <3>2, <3>4, <3>5, <3>6
  <2> QED BY <2>1, <2>2
<1>5. /\ thing'[x.of].at = at /\ thing'[x.of].keys = keys
      /\ \A t \in Things \ {x.of} : thing'[t] = thing[t]
    BY <1>2, <1>4 DEF MediaTypeOK, Names, Things
<1>6. thing' \in [Things -> ThingRow]
    BY <1>2, <1>3, <1>4 DEF MediaTypeOK, ThingRow, Names
<1>7. ASSUME NEW v \in Workers \ {w} PROVE Stays(v)
  <2>1. At(v, "create") => work[v].of \in Things /\ work[v].of # x.of
      BY <1>4 DEF MediaInv, Working, At
  <2> QED BY <1>4, <1>5, <2>1 DEF Stays, Things, NeedsItsRow
<1>8. /\ work' \in [Workers -> FileWork]
      /\ \A v \in Workers : Working(work[v])'
      /\ NoShare'
    BY <1>1, <1>7, RowsStay, AnsweredMoves
<1>9. MediaTypeOK'
    BY <1>1, <1>2, <1>6, <1>8 DEF MediaTypeOK, Keeps
<1> HIDE DEF x
<1>10. NamedKnown' /\ NamedIsAttached'
    BY <1>1, <1>2, <1>3, <1>4, <1>5 DEF MediaInv, NamedKnown, NamedIsAttached, MediaTypeOK, ThingRow
<1>11. AttachedToStored'
    BY <1>1, <1>4, <1>5 DEF MediaInv, AttachedToStored, NeedsItsRow, Things
<1>12. DetachedExpires' /\ NeverEdited'
    BY <1>1, <1>4, <1>5 DEF MediaInv, DetachedExpires, NeverEdited, NeedsItsRow, Things
<1> QED BY <1>8, <1>9, <1>10, <1>11, <1>12 DEF MediaInv

\* A deletion and an expiry attach and detach nothing; a file that is due goes, storage
\* first, and its row after it.
LEMMA DeleteStep ==
    ASSUME MediaInv, NEW w \in Workers, DeleteCommit(w)
    PROVE  MediaInv'
<1> DEFINE a == work[w].keys[1]
<1>1. /\ Keeps(w, Free) /\ killed' = killed /\ stale' = stale /\ blob' = blob /\ thing' = thing
      /\ row' = [row EXCEPT ![a] = Row("there", @.ctx, @.ttl, "recent")] /\ There(a) /\ a \in Assets
    BY DEF DeleteCommit, Answered, MediaInv, Working, At
<1> HIDE DEF a
<1>2. MediaTypeOK
    BY DEF MediaInv
<1>3. row' \in [Assets -> FileRow]
    BY <1>1, <1>2 DEF MediaTypeOK, FileRow, Row
<1>4. /\ row'[a] = Row("there", row[a].ctx, row[a].ttl, "recent")
      /\ \A c \in Assets \ {a} : row'[c] = row[c]
    BY <1>1, <1>2 DEF MediaTypeOK
<1>5. row'[a].at = row[a].at /\ row'[a].ctx = row[a].ctx /\ ~Live(row'[a])
    BY <1>1, <1>4 DEF Row, There, Live
<1>6. Ages
    BY <1>4, <1>5 DEF Ages
<1>7. ASSUME NEW v \in Workers \ {w} PROVE Stays(v) /\ Arrives(v)
    BY <1>1, <1>4, <1>5, ThingsStay DEF Arrives, MediaInv, Working, At
<1>8. MediaTypeOK'
    BY <1>1, <1>2, <1>3, <1>6, <1>7, AnsweredMoves DEF MediaTypeOK, Keeps
<1>9. DetachedExpires' /\ AttachedToStored' /\ NeverEdited'
    BY <1>1, <1>4, <1>5 DEF MediaInv, DetachedExpires, AttachedToStored, NeverEdited, Detached
<1>10. NamedKnown' /\ NamedIsAttached'
    BY <1>1, <1>2, <1>4, <1>5 DEF MediaInv, NamedKnown, NamedIsAttached, MediaTypeOK, ThingRow, Detached
<1> QED BY <1>1, <1>6, <1>7, <1>8, <1>9, <1>10, AnsweredMoves DEF MediaInv

LEMMA PassStep ==
    ASSUME MediaInv, NEW a \in Assets, Pass(a)
    PROVE  MediaInv' /\ (Due(row[a]) => Due(row'[a]))
<1>1. /\ UNCHANGED <<blob, thing, work, overlapped, killed, stale>>
      /\ There(a)
      /\ row' = [row EXCEPT ![a] = Row("there", @.ctx, IF @.ttl = "set" THEN "past" ELSE @.ttl,
                                       IF @.del = "recent" THEN "old" ELSE @.del)]
    BY DEF Pass
<1>2. MediaTypeOK
    BY DEF MediaInv
<1>3. row' \in [Assets -> FileRow]
    BY <1>1, <1>2 DEF MediaTypeOK, FileRow, Row
<1>4. /\ row'[a] = Row("there", row[a].ctx, IF row[a].ttl = "set" THEN "past" ELSE row[a].ttl,
                       IF row[a].del = "recent" THEN "old" ELSE row[a].del)
      /\ \A c \in Assets \ {a} : row'[c] = row[c]
    BY <1>1, <1>2 DEF MediaTypeOK
<1>5. /\ row'[a].at = row[a].at /\ row'[a].ctx = row[a].ctx
      /\ row'[a].ttl = IF row[a].ttl = "set" THEN "past" ELSE row[a].ttl
      /\ row'[a].del = IF row[a].del = "recent" THEN "old" ELSE row[a].del
    BY <1>1, <1>4 DEF Row, There
<1>6. Detached(row'[a]) => Detached(row[a]) /\ (row[a].ttl # "none" => row'[a].ttl # "none")
    BY <1>5 DEF Detached, Live
<1>7. Ages
    BY <1>4, <1>5 DEF Ages, Live
<1>8. ASSUME NEW v \in Workers PROVE Working(work[v])'
  <2>1. Stays(v) /\ Arrives(v)
      BY <1>1, <1>4, <1>5, ThingsStay DEF Arrives, MediaInv, Working, At
  <2> QED BY <1>1, <1>7, <2>1, StillWorking
<1>9. MediaTypeOK' /\ NoShare'
    BY <1>1, <1>2, <1>3 DEF MediaTypeOK, MediaInv, NoShare, At
<1>10. DetachedExpires' /\ AttachedToStored' /\ NeverEdited'
    BY <1>1, <1>4, <1>5, <1>6 DEF MediaInv, DetachedExpires, AttachedToStored, NeverEdited
<1>11. NamedKnown' /\ NamedIsAttached'
    BY <1>1, <1>2, <1>4, <1>5, <1>6 DEF MediaInv, NamedKnown, NamedIsAttached, MediaTypeOK, ThingRow
<1>12. Due(row[a]) => Due(row'[a])
    BY <1>5 DEF Due, Detached, Live
<1> QED BY <1>8, <1>9, <1>10, <1>11, <1>12 DEF MediaInv

\* Where rows and things stay, and no file that is being uploaded goes.
LEMMA StorageStep ==
    ASSUME MediaInv, NEW w \in Workers, NEW y \in FileWork, y.op \in {"idle", "clean"},
           work' = [work EXCEPT ![w] = y], Working(y)', row' = row, thing' = thing,
           blob' \subseteq Assets, killed' \in BOOLEAN, UNCHANGED <<overlapped, stale>>,
           \A v \in Workers \ {w} : Arrives(v)
    PROVE  MediaInv'
<1>1. Ages /\ \A v \in Workers \ {w} : Stays(v) /\ Arrives(v)
    BY ThingsStay DEF Ages
<1>2. MediaTypeOK'
    BY <1>1, OneMoves DEF MediaInv, MediaTypeOK
<1>3. NamedKnown' /\ NeverEdited' /\ DetachedExpires' /\ NamedIsAttached' /\ AttachedToStored'
    BY DEF MediaInv, NamedKnown, NeverEdited, DetachedExpires, NamedIsAttached, AttachedToStored
<1> QED BY <1>1, <1>2, <1>3, OneMoves DEF MediaInv

LEMMA SweepStep ==
    ASSUME MediaInv, NEW w \in Workers, CleanBlob(w) \/ Killed(w) \/ Refused(w)
    PROVE  MediaInv'
<1>1. MediaTypeOK /\ Working(work[w]) /\ work[w] \in FileWork
    BY DEF MediaInv, MediaTypeOK
<1>2. CASE CleanBlob(w)
  <2>1. PICK a \in work[w].found :
          /\ At(w, "clean") /\ blob' = blob \ {a}
          /\ Keeps(w, Sweeps(work[w].bad, work[w].found \ {a}))
          /\ UNCHANGED <<row, thing, killed, stale>>
      BY <1>2 DEF CleanBlob
  <2>2. PICK y : y = Sweeps(work[w].bad, work[w].found \ {a})
      OBVIOUS
  <2>3. y \in FileWork /\ y.op = "clean" /\ y.bad = work[w].bad /\ y.found = work[w].found \ {a}
      BY <1>1, <2>2 DEF Sweeps, FileWork
  <2>4. a \in work[w].bad /\ row[a].at # "none" /\ Working(y)'
      BY <1>1, <2>1, <2>3 DEF Working, At
  <2>5. ASSUME NEW v \in Workers \ {w} PROVE Arrives(v)
      BY <2>1, <2>4 DEF Arrives, MediaInv, Working, At
  <2> QED BY <1>1, <2>1, <2>2, <2>3, <2>4, <2>5, StorageStep DEF Keeps, MediaTypeOK
<1>3. CASE Killed(w) \/ Refused(w)
  <2>1. Keeps(w, Free) /\ row' = row /\ thing' = thing /\ blob' = blob /\ stale' = stale /\ killed' \in BOOLEAN
      BY <1>1, <1>3 DEF Killed, Refused, Void, Answered, MediaTypeOK
  <2>2. PICK y : y = Free
      OBVIOUS
  <2>3. y \in FileWork /\ y.op = "idle" /\ Working(y)'
      BY <2>2 DEF Free, Holding, FileWork, Working
  <2>4. ASSUME NEW v \in Workers \ {w} PROVE Arrives(v)
      BY <2>1, RowsStay
  <2> QED BY <1>1, <2>1, <2>2, <2>3, <2>4, StorageStep DEF Keeps, MediaTypeOK
<1> QED BY <1>2, <1>3

LEMMA CleanStep ==
    ASSUME MediaInv, NEW w \in Workers, CleanCommit(w)
    PROVE  MediaInv'
<1> DEFINE due == work[w].bad
<1>1. /\ Keeps(w, Free) /\ killed' = killed /\ stale' = stale /\ blob' = blob /\ thing' = thing
      /\ At(w, "clean")
      /\ row' = [a \in Assets |-> IF a \in due THEN Row("gone", Nothing, "none", "no") ELSE row[a]]
    BY DEF CleanCommit, Answered
<1>2. MediaTypeOK /\ \A a \in due : a \in Assets /\ row[a].at # "none"
    BY <1>1 DEF MediaInv, MediaTypeOK, FileWork, Working, At
<1> HIDE DEF due
<1>3. row' \in [Assets -> FileRow]
    BY <1>1, <1>2 DEF MediaTypeOK, FileRow, Row
<1>4. /\ \A a \in due : row'[a].at = "gone" /\ row'[a].ctx = Nothing
      /\ \A a \in Assets \ due : row'[a] = row[a]
    BY <1>1, <1>2 DEF Row
<1>5. \A a \in due : ~Live(row'[a]) /\ ~Detached(row'[a])
    BY <1>4 DEF Live, Detached
<1>6. Ages
    BY <1>4, <1>5 DEF Ages
<1>7. ASSUME NEW v \in Workers \ {w} PROVE Stays(v) /\ Arrives(v)
  <2>1. At(v, "upload") => /\ work[v].keys[1] \in Assets \ due /\ work[v].keys[1] \in blob
                           /\ row[work[v].keys[1]].at = "none"
      BY <1>2 DEF MediaInv, Working, At
  <2> QED BY <1>1, <1>4, <2>1, ThingsStay DEF Arrives
<1>8. MediaTypeOK'
    BY <1>1, <1>2, <1>3, <1>6, <1>7, AnsweredMoves DEF MediaTypeOK, Keeps
<1>9. Nothing \notin NeedsItsRow
    BY MediaAssumption DEF NeedsItsRow, Contexts, Things
<1>10. DetachedExpires' /\ AttachedToStored' /\ NeverEdited'
    BY <1>1, <1>4, <1>5, <1>9 DEF MediaInv, DetachedExpires, AttachedToStored, NeverEdited
<1>11. NamedKnown' /\ NamedIsAttached'
    BY <1>1, <1>2, <1>4, <1>5 DEF MediaInv, NamedKnown, NamedIsAttached, MediaTypeOK, ThingRow
<1> QED BY <1>1, <1>6, <1>7, <1>8, <1>10, <1>11, AnsweredMoves DEF MediaInv

LEMMA MediaStep ==
    ASSUME MediaInv, [MediaNext]_mediaVars
    PROVE  MediaInv'
<1>1. ASSUME NEW w \in Workers, Answer(w) \/ Killed(w) PROVE MediaInv'
    BY <1>1, UploadStep, AttachStep, CreateStep, KeysStep, DeleteStep, SweepStep, CleanStep DEF Answer
<1>2. CASE OfferLapses \/ UNCHANGED mediaVars
  <2>1. UNCHANGED <<blob, row, thing, work, overlapped, killed>> /\ stale' \in BOOLEAN
      BY <1>2 DEF OfferLapses, mediaVars, MediaInv, MediaTypeOK
  <2>2. MediaTypeOK' /\ NoShare' /\ NamedKnown' /\ NeverEdited'
      BY <2>1 DEF MediaInv, MediaTypeOK, NoShare, NamedKnown, NeverEdited, At
  <2>3. \A w \in Workers : Working(work[w])'
      BY <2>1 DEF MediaInv, Working, Known
  <2>4. DetachedExpires' /\ NamedIsAttached' /\ AttachedToStored'
      BY <2>1 DEF MediaInv, DetachedExpires, NamedIsAttached, AttachedToStored
  <2> QED BY <2>2, <2>3, <2>4 DEF MediaInv
<1> QED BY <1>1, <1>2, MediaBegins, PassStep DEF MediaNext

LEMMA MediaInitInv == MediaInit => MediaInv
<1> SUFFICES ASSUME MediaInit PROVE MediaInv
    OBVIOUS
<1>1. Row("none", Nothing, "none", "no") \in FileRow /\ Names("none", {}) \in ThingRow
      /\ Free \in FileWork /\ Free.op = "idle"
    BY DEF Row, FileRow, Names, ThingRow, Free, Holding, FileWork
<1>2. MediaTypeOK
    BY <1>1 DEF MediaInit, MediaTypeOK
<1>3. ASSUME NEW w \in Workers PROVE work[w] = Free /\ Working(work[w])
    BY <1>1 DEF MediaInit, Working
<1>4. NoShare
    BY <1>1, <1>3 DEF NoShare, At
<1>5. /\ \A t \in Things : thing[t].at = "none" /\ thing[t].keys = {}
      /\ \A a \in Assets : row[a].at = "none" /\ row[a].ctx = Nothing
    BY DEF MediaInit, Row, Names
<1>6. NamedKnown /\ DetachedExpires /\ NamedIsAttached
    BY <1>5 DEF NamedKnown, DetachedExpires, NamedIsAttached, Detached, Live
<1>7. AttachedToStored /\ NeverEdited
    BY <1>5, MediaAssumption DEF AttachedToStored, NeverEdited, NeedsItsRow, Contexts, Things
<1> QED BY <1>2, <1>3, <1>4, <1>6, <1>7 DEF MediaInv

LEMMA MediaInvariance == MediaSpec => []MediaInv
BY MediaInitInv, MediaStep, PTL DEF MediaSpec

---------------------------------------------------------------------------
(* The files of the rows *)

\* While no requests overlap and nobody dies: a sweep goes over rows that are still due, and a
\* row whose file is not in the storage is one of them.
FilesThere ==
    /\ ~overlapped => Alone
    /\ ~overlapped /\ ~killed =>
        /\ \A w \in Workers : At(w, "clean") => \A a \in work[w].bad : Due(row[a])
        /\ \A a \in Assets : There(a) => a \in blob \/ \E w \in Workers : At(w, "clean") /\ a \in work[w].bad

LEMMA ReadKeepsFiles ==
    ASSUME MediaInv, FilesThere, NEW w \in Workers, MediaRead(w)
    PROVE  FilesThere'
<1>1. PICK x \in FileWork : MediaNoted(w, x) /\ (x.op = "clean" => \A a \in x.bad : Due(row[a]))
    BY MediaNote DEF MediaInv
<1>2. /\ At(w, "idle") /\ work' = [work EXCEPT ![w] = x]
      /\ row' = row /\ killed' = killed /\ blob \subseteq blob'
      /\ ~overlapped' => ~overlapped /\ \A v \in Workers : At(v, "idle")
    BY <1>1 DEF MediaNoted, Takes
<1>3. work'[w] = x /\ \A v \in Workers \ {w} : work'[v] = work[v]
    BY <1>2 DEF MediaInv, MediaTypeOK
<1>4. ~overlapped' => Alone'
    BY <1>2, <1>3 DEF Alone, At
<1>5. ASSUME ~overlapped', ~killed'
      PROVE  /\ \A v \in Workers : At(v, "clean")' => \A a \in work'[v].bad : Due(row'[a])
             /\ \A a \in Assets : There(a)' => a \in blob'
    BY <1>1, <1>2, <1>3, <1>5 DEF FilesThere, At, There
<1> QED BY <1>4, <1>5 DEF FilesThere

\* A request that writes is alone, and gives a row to no file but the one that it has put into
\* the storage.
LEMMA AnswerRows ==
    ASSUME MediaInv, NEW w \in Workers,
           \/ UploadCommit(w) \/ AttachCommit(w) \/ CreateCommit(w) \/ AddCommit(w)
           \/ KeysCommit(w) \/ DeleteCommit(w) \/ Refused(w)
    PROVE  /\ Keeps(w, Free) /\ blob' = blob /\ killed' = killed
           /\ ~At(w, "idle") /\ ~At(w, "clean")
           /\ \A a \in Assets : There(a)' => There(a) \/ a \in blob
<1>1. /\ Keeps(w, Free) /\ blob' = blob /\ killed' = killed
      /\ ~At(w, "idle") /\ ~At(w, "clean")
    BY DEF UploadCommit, AttachCommit, CreateCommit, AddCommit, KeysCommit, DeleteCommit, Refused,
           Void, Answered, At
<1>2. MediaTypeOK /\ Working(work[w]) /\ work[w] \in FileWork
    BY DEF MediaInv, MediaTypeOK
<1>3. CASE UploadCommit(w)
  <2> DEFINE k == work[w].keys[1]
             rows == Recorded(k, work[w].of)
  <2>1. k \in blob
      BY <1>2, <1>3 DEF UploadCommit, Working, At
  <2>2. \A a \in Assets \ {k} : rows[a] = row[a]
      BY <1>2 DEF Recorded, MediaTypeOK
  <2>3. \A a \in Assets : rows[a] \in FileRow => Expiring(rows)[a].at = rows[a].at
      BY DEF Expiring, FileRow
  <2>4. \A a \in Assets \ {k} : row'[a].at = row[a].at
      BY <1>2, <1>3, <2>2, <2>3 DEF UploadCommit, MediaTypeOK
  <2> QED BY <1>1, <2>1, <2>4 DEF There
<1>4. CASE AttachCommit(w) \/ CreateCommit(w) \/ AddCommit(w)
  <2>1. PICK S, ctx : row' = Attached(S, ctx) /\ \A a \in S \cap Assets : There(a)
      BY <1>2, <1>4, KeptFiles DEF AttachCommit, CreateCommit, AddCommit
  <2>2. \A a \in Assets : a \in S \/ row'[a] = row[a]
      BY <2>1 DEF Attached
  <2> QED BY <1>1, <2>1, <2>2 DEF There
<1>5. CASE KeysCommit(w) \/ Refused(w)
    BY <1>1, <1>5 DEF KeysCommit, Refused, Void, There
<1>6. CASE DeleteCommit(w)
  <2>1. There(work[w].keys[1]) /\ \A a \in Assets : a = work[w].keys[1] \/ row'[a] = row[a]
      BY <1>2, <1>6 DEF DeleteCommit, MediaTypeOK
  <2> QED BY <1>1, <2>1 DEF There
<1> QED BY <1>1, <1>3, <1>4, <1>5, <1>6

LEMMA AnswerKeepsFiles ==
    ASSUME MediaInv, FilesThere, NEW w \in Workers, Answer(w) \/ Killed(w)
    PROVE  FilesThere'
<1>1. MediaTypeOK
    BY DEF MediaInv
<1>2. CASE \/ UploadCommit(w) \/ AttachCommit(w) \/ CreateCommit(w) \/ AddCommit(w)
           \/ KeysCommit(w) \/ DeleteCommit(w) \/ Refused(w)
  <2>1. /\ Keeps(w, Free) /\ blob' = blob /\ killed' = killed
        /\ ~At(w, "idle") /\ ~At(w, "clean")
        /\ \A a \in Assets : There(a)' => There(a) \/ a \in blob
      BY <1>2, AnswerRows
  <2>2. overlapped' = overlapped /\ work'[w] = Free /\ \A v \in Workers \ {w} : work'[v] = work[v]
      BY <1>1, <2>1 DEF Keeps, MediaTypeOK
  <2>3. ~overlapped => /\ \A v \in Workers \ {w} : At(v, "idle")
                       /\ \A v \in Workers : At(v, "idle")'
      BY <2>1, <2>2 DEF FilesThere, Alone, At, Free, Holding
  <2>4. ~overlapped /\ ~killed => \A a \in Assets : There(a) => a \in blob
      BY <2>1, <2>3 DEF FilesThere, At
  <2> QED BY <2>1, <2>2, <2>3, <2>4 DEF FilesThere, Alone, At
<1>3. CASE CleanBlob(w)
  <2>1. PICK a \in work[w].found :
          /\ At(w, "clean") /\ blob' = blob \ {a}
          /\ Keeps(w, Sweeps(work[w].bad, work[w].found \ {a}))
          /\ UNCHANGED <<row, killed>>
      BY <1>3 DEF CleanBlob
  <2>2. a \in work[w].bad
      BY <2>1 DEF MediaInv, Working, At
  <2>3. /\ overlapped' = overlapped /\ \A v \in Workers \ {w} : work'[v] = work[v]
        /\ work'[w].op = work[w].op /\ work'[w].bad = work[w].bad
      BY <1>1, <2>1 DEF Keeps, MediaTypeOK, Sweeps, At
  <2>4. \A v \in Workers : work'[v].op = work[v].op /\ work'[v].bad = work[v].bad
      BY <2>3
  <2> QED BY <2>1, <2>2, <2>3, <2>4 DEF FilesThere, Alone, At, There
<1>4. CASE CleanCommit(w)
  <2>1. /\ At(w, "clean") /\ Keeps(w, Free) /\ UNCHANGED <<blob, killed>>
        /\ \A a \in Assets : row'[a] = IF a \in work[w].bad THEN Row("gone", Nothing, "none", "no") ELSE row[a]
      BY <1>4 DEF CleanCommit, Answered
  <2>2. overlapped' = overlapped /\ work'[w] = Free /\ \A v \in Workers \ {w} : work'[v] = work[v]
      BY <1>1, <2>1 DEF Keeps, MediaTypeOK
  <2>3. ~overlapped => /\ \A v \in Workers \ {w} : At(v, "idle")
                       /\ \A v \in Workers : At(v, "idle")'
      BY <2>1, <2>2 DEF FilesThere, Alone, At, Free, Holding
  <2>4. \A a \in Assets : There(a)' => There(a) /\ a \notin work[w].bad
      BY <2>1 DEF There, Row
  <2>5. ~overlapped /\ ~killed => \A a \in Assets : There(a) /\ a \notin work[w].bad => a \in blob
      BY <2>3 DEF FilesThere, At
  <2> QED BY <2>1, <2>2, <2>3, <2>4, <2>5 DEF FilesThere, Alone, At
<1>5. CASE Killed(w)
  <2>1. Keeps(w, Free) /\ killed'
      BY <1>5 DEF Killed
  <2>2. overlapped' = overlapped /\ work'[w] = Free /\ \A v \in Workers \ {w} : work'[v] = work[v]
      BY <1>1, <2>1 DEF Keeps, MediaTypeOK
  <2>3. ~overlapped' => Alone'
      BY <2>2 DEF FilesThere, Alone, At, Free, Holding
  <2> QED BY <2>1, <2>3 DEF FilesThere
<1> QED BY <1>2, <1>3, <1>4, <1>5 DEF Answer

LEMMA FilesInvariance == MediaSpec => []FilesThere
<1>1. MediaInit => FilesThere
  <2> SUFFICES ASSUME MediaInit PROVE FilesThere
      OBVIOUS
  <2>1. /\ \A w \in Workers : At(w, "idle")
        /\ \A a \in Assets : ~There(a)
      BY DEF MediaInit, At, Free, Holding, There, Row
  <2> QED BY <2>1 DEF FilesThere, Alone, At
<1>2. MediaInv /\ FilesThere /\ [MediaNext]_mediaVars => FilesThere'
  <2> SUFFICES ASSUME MediaInv, FilesThere, [MediaNext]_mediaVars PROVE FilesThere'
      OBVIOUS
  <2>1. ASSUME NEW a \in Assets, Pass(a) PROVE FilesThere'
    <3>1. /\ UNCHANGED <<blob, work, overlapped, killed>>
          /\ There(a)
          /\ \A c \in Assets : c # a => row'[c] = row[c]
        BY <2>1 DEF Pass, MediaInv, MediaTypeOK
    <3>2. Due(row[a]) => Due(row'[a])
        BY <2>1, PassStep
    <3>3. \A w \in Workers : work[w].bad \subseteq Assets
        BY DEF MediaInv, MediaTypeOK, FileWork
    <3> QED BY <3>1, <3>2, <3>3 DEF FilesThere, Alone, At, There
  <2>2. CASE OfferLapses \/ UNCHANGED mediaVars
      BY <2>2 DEF OfferLapses, mediaVars, FilesThere, Alone, At, There
  <2> QED BY <2>1, <2>2, ReadKeepsFiles, AnswerKeepsFiles DEF MediaNext
<1> QED BY <1>1, <1>2, MediaInvariance, PTL DEF MediaSpec

---------------------------------------------------------------------------
(* What a sweep picks *)

\* Nothing but the reading of a sweep lets a worker hold rows to delete, and they are due.
LEMMA SweepPicks ==
    ASSUME MediaInv, [MediaNext]_mediaVars, NEW w \in Workers, ~At(w, "clean"), At(w, "clean")'
    PROVE  \A a \in work'[w].bad : Due(row[a])
<1>1. MediaTypeOK
    BY DEF MediaInv
<1>2. ASSUME NEW v \in Workers, Keeps(v, Free) PROVE FALSE
  <2>1. work'[v] = Free /\ \A u \in Workers \ {v} : work'[u] = work[u]
      BY <1>1, <1>2 DEF Keeps, MediaTypeOK
  <2> QED BY <2>1 DEF At, Free, Holding
<1>3. ASSUME NEW v \in Workers, Answer(v) \/ Killed(v) PROVE FALSE
  <2>1. CASE CleanBlob(v)
    <3>1. At(v, "clean") /\ \A u \in Workers \ {v} : work'[u] = work[u]
        BY <1>1, <2>1 DEF CleanBlob, Keeps, MediaTypeOK
    <3> QED BY <3>1 DEF At
  <2>2. CASE CleanCommit(v) \/ Killed(v)
      BY <1>2, <2>2 DEF CleanCommit, Killed, Answered
  <2>3. CASE ~CleanBlob(v) /\ ~CleanCommit(v) /\ ~Killed(v)
      BY <1>2, <1>3, <2>3, AnswerRows DEF Answer
  <2> QED BY <2>1, <2>2, <2>3
<1>4. ASSUME \E a \in Assets : Pass(a) PROVE FALSE
    BY <1>4 DEF Pass, At
<1>5. ASSUME OfferLapses \/ UNCHANGED mediaVars PROVE FALSE
    BY <1>5 DEF OfferLapses, mediaVars, At
<1>6. PICK v \in Workers : MediaRead(v)
    BY <1>3, <1>4, <1>5 DEF MediaNext
<1>7. PICK x \in FileWork : MediaNoted(v, x) /\ (x.op = "clean" => \A a \in x.bad : Due(row[a]))
    BY <1>1, <1>6, MediaNote DEF MediaInv
<1>8. work'[v] = x /\ \A u \in Workers \ {v} : work'[u] = work[u]
    BY <1>1, <1>7 DEF MediaNoted, Takes, MediaTypeOK
<1> QED BY <1>7, <1>8 DEF At

---------------------------------------------------------------------------
(* The theorems *)

\* The rows, the things and what the workers hold keep their shapes.
THEOREM MediaTypeCorrect == MediaSpec => []MediaTypeOK
BY MediaInvariance, PTL DEF MediaInv

\* No file that is attached to nothing escapes the sweep, whatever interleaves or dies.
THEOREM SweepMissesNone == MediaSpec => []DetachedExpires
BY MediaInvariance, PTL DEF MediaInv

\* No sweep picks a file that a thing has named since it was created, unless its owner has
\* deleted it: the file is attached, and only what is attached to nothing expires.
THEOREM NamedFilesStay == MediaSpec => SweepSparesNamed
<1> DEFINE Spares ==
        \A w \in Workers : ~At(w, "clean") /\ At(w, "clean")' =>
            \A t \in Things : thing[t].at = "there" =>
                \A a \in thing[t].keys \cap work'[w].bad : row[a].del # "no"
<1>1. MediaInv /\ [MediaNext]_mediaVars => Spares
  <2> SUFFICES ASSUME MediaInv, [MediaNext]_mediaVars,
                      NEW w \in Workers, ~At(w, "clean"), At(w, "clean")',
                      NEW t \in Things, thing[t].at = "there",
                      NEW a \in thing[t].keys \cap work'[w].bad
               PROVE  row[a].del # "no"
      OBVIOUS
  <2>1. Due(row[a]) /\ ~Detached(row[a])
      BY SweepPicks DEF MediaInv, NamedIsAttached
  <2> QED BY <2>1 DEF Due
<1> QED BY <1>1, MediaInvariance, PTL DEF MediaSpec, SweepSparesNamed

\* A listing or a status whose creation was undone keeps none of the files attached to it,
\* and what a user attaches by its id is attached to one that is there.
THEOREM NothingHangsLoose == MediaSpec => []AttachedToStored
BY MediaInvariance, PTL DEF MediaInv

\* While no requests overlap and no worker dies, a file in use is in the storage.
THEOREM FilesInUseAreThere == MediaSpec => []AttachedHasBlob
<1>1. MediaInv /\ FilesThere => AttachedHasBlob
    BY DEF MediaInv, MediaTypeOK, FilesThere, AttachedHasBlob, There, Live, Detached, Due, FileRow
<1> QED BY <1>1, MediaInvariance, FilesInvariance, PTL
=============================================================================
