------------------------ MODULE Groups_Feed_proofs ------------------------
(***************************************************************************)
(* Two components that share nothing but Serving, the way their requests are *)
(* served: no theorem of one uses anything of the other.                     *)
(*                                                                           *)
(* Groups: what the unique keys and the single transaction of a removal      *)
(* give, for any users, roles, codes and number of workers.                  *)
(*                                                                           *)
(* Feed: what the counters of posts, polls, communities and channels are     *)
(* worth, and what a dispatcher of reminders may rely on, for any users,     *)
(* comments, options, reminders and number of workers.                       *)
(***************************************************************************)
EXTENDS Groups, Feed, FiniteSetTheorems, TLAPS

---------------------------------------------------------------------------
(* Groups: what a worker that has read something may rely on until it writes *)

\* What a worker that has read something may rely on until it writes: nothing takes a
\* member's row away, and a code goes from unused to live to revoked.
Promise(x) ==
    /\ x.op \in {"role", "remove", "ban"} => Took(x.on)
    /\ x.op = "invite" => x.code \in Codes /\ invite[x.code] = "unused"
    /\ x.op = "revoke" =>
        x.code \in Codes /\ invite[x.code] # "unused" /\ (x.fresh \/ shown # x.code)

\* Two workers never write one code.
Distinct == \A v, w \in Workers :
    v # w /\ work[v].op = "invite" /\ work[w].op = "invite" => work[v].code # work[w].code

\* Whoever is banned was a member and has left.
BannedLeft == \A u \in banned : member[u].at = "out"

IInv ==
    /\ TypeOK
    /\ RoomFollowsGroup
    /\ BannedLeft
    /\ ShownIsLive
    /\ Distinct
    /\ \A w \in Workers : Promise(work[w])

\* What holds beside it while requests do not overlap.
Insiders == {u \in Users : In(u)}
Fresh(x) ==
    /\ x.op \in {"insert", "letin", "remove", "ban"} => x.count = count
    /\ x.op \in {"insert", "letin"} => ~In(x.on)
    /\ x.op \in {"remove", "ban"} => In(x.on)
Serial ==
    ~overlapped =>
        /\ Alone
        /\ count = Cardinality(Insiders)
        /\ \A w \in Workers : Fresh(work[w])

tables == <<requests, approval, member, room, count, banned, ask, invite, shown>>

---------------------------------------------------------------------------
(* A request reads *)

\* Whatever a request reads, it holds a well-formed note of it that is true.
LEMMA BeginNote ==
    ASSUME TypeOK, NEW w \in Workers, Begin(w)
    PROVE  \E x \in Held :
             /\ At(w, "idle")
             /\ work' = [work EXCEPT ![w] = x]
             /\ overlapped' = (overlapped \/ \E v \in Workers \ {w} : ~At(v, "idle"))
             /\ UNCHANGED tables
             /\ Promise(x)
             /\ Fresh(x)
             /\ x.op = "invite" => \A v \in Workers : work[v].code # x.code
<1> DEFINE Noted(x) ==
        /\ At(w, "idle")
        /\ work' = [work EXCEPT ![w] = x]
        /\ overlapped' = (overlapped \/ \E v \in Workers \ {w} : ~At(v, "idle"))
        /\ UNCHANGED tables
        /\ Promise(x)
        /\ Fresh(x)
        /\ x.op = "invite" => \A v \in Workers : work[v].code # x.code
<1>r. "GUEST" \in Roles /\ Creator \in Users /\ count \in Nat /\ \A u \in Users : AccountRole(u) \in Roles
    BY GroupAssumption DEF TypeOK, AccountRole
<1>1. ASSUME NEW by \in Users, NEW on \in Users, NEW r \in Roles, AddRead(w, by, on, r)
      PROVE  \E x \in Held : Noted(x)
    <2> DEFINE x == Reads("insert", on, r, FALSE)
    <2>1. x \in Held BY <1>r DEF Held, Reads, ReadsCode
    <2>2. Start(w, "add", x) BY <1>1 DEF AddRead
    <2>3. Promise(x) /\ Fresh(x) BY <1>1 DEF AddRead, Promise, Fresh, Took, In, Reads, ReadsCode
    <2>4. x.op = "invite" => \A v \in Workers : work[v].code # x.code
        BY <1>1 DEF AddRead, Reads, ReadsCode
    <2> HIDE DEF x
    <2> QED BY <2>1, <2>2, <2>3, <2>4 DEF Start, Takes, tables
<1>2. ASSUME NEW by \in Users, NEW on \in Users, NEW r \in Roles, RoleRead(w, by, on, r)
      PROVE  \E x \in Held : Noted(x)
    <2> DEFINE x == Reads("role", on, r, FALSE)
    <2>1. x \in Held BY <1>r DEF Held, Reads, ReadsCode
    <2>2. Start(w, "add", x) BY <1>2 DEF RoleRead
    <2>3. Promise(x) /\ Fresh(x) BY <1>2 DEF RoleRead, Promise, Fresh, Took, In, Reads, ReadsCode
    <2>4. x.op = "invite" => \A v \in Workers : work[v].code # x.code
        BY <1>2 DEF RoleRead, Reads, ReadsCode
    <2> HIDE DEF x
    <2> QED BY <2>1, <2>2, <2>3, <2>4 DEF Start, Takes, tables
<1>3. ASSUME NEW by \in Users, NEW on \in Users, RemoveRead(w, by, on)
      PROVE  \E x \in Held : Noted(x)
    <2> DEFINE x == Reads("remove", on, "GUEST", FALSE)
    <2>1. x \in Held BY <1>r DEF Held, Reads, ReadsCode
    <2>2. Start(w, "remove", x) BY <1>3 DEF RemoveRead, Removable
    <2>3. Promise(x) /\ Fresh(x) BY <1>3 DEF RemoveRead, Removable, Promise, Fresh, Took, In, Reads, ReadsCode
    <2>4. x.op = "invite" => \A v \in Workers : work[v].code # x.code
        BY <1>3 DEF RemoveRead, Removable, Reads, ReadsCode
    <2> HIDE DEF x
    <2> QED BY <2>1, <2>2, <2>3, <2>4 DEF Start, Takes, tables
<1>4. ASSUME NEW by \in Users, NEW on \in Users, BanRead(w, by, on)
      PROVE  \E x \in Held : Noted(x)
    <2> DEFINE x == Reads("ban", on, "GUEST", on \notin banned)
    <2>1. x \in Held BY <1>r DEF Held, Reads, ReadsCode
    <2>2. Start(w, "ban", x) BY <1>4 DEF BanRead, Removable
    <2>3. Promise(x) /\ Fresh(x) BY <1>4 DEF BanRead, Removable, Promise, Fresh, Took, In, Reads, ReadsCode
    <2>4. x.op = "invite" => \A v \in Workers : work[v].code # x.code
        BY <1>4 DEF BanRead, Removable, Reads, ReadsCode
    <2> HIDE DEF x
    <2> QED BY <2>1, <2>2, <2>3, <2>4 DEF Start, Takes, tables
<1>5. ASSUME NEW by \in Users, NEW on \in Users, NEW approve \in BOOLEAN, ReviewRead(w, by, on, approve)
      PROVE  \E x \in Held : Noted(x)
    <2> DEFINE x == Reads(IF approve /\ on \notin banned /\ ~In(on) THEN "letin" ELSE "review", on, AccountRole(on), approve)
    <2>1. x \in Held BY <1>r DEF Held, Reads, ReadsCode
    <2>2. Start(w, "review", x) BY <1>5 DEF ReviewRead
    <2>3. Promise(x) /\ Fresh(x) BY <1>5 DEF ReviewRead, Promise, Fresh, Took, In, Reads, ReadsCode
    <2>4. x.op = "invite" => \A v \in Workers : work[v].code # x.code
        BY <1>5 DEF ReviewRead, Reads, ReadsCode
    <2> HIDE DEF x
    <2> QED BY <2>1, <2>2, <2>3, <2>4 DEF Start, Takes, tables
<1>6. ASSUME NEW u \in Users, JoinRead(w, u)
      PROVE  \E x \in Held : Noted(x)
    <2> DEFINE x == Reads("insert", u, AccountRole(u), FALSE)
    <2>1. x \in Held BY <1>r DEF Held, Reads, ReadsCode
    <2>2. Start(w, "join", x) BY <1>6 DEF JoinRead
    <2>3. Promise(x) /\ Fresh(x) BY <1>6 DEF JoinRead, Promise, Fresh, Took, In, Reads, ReadsCode
    <2>4. x.op = "invite" => \A v \in Workers : work[v].code # x.code
        BY <1>6 DEF JoinRead, Reads, ReadsCode
    <2> HIDE DEF x
    <2> QED BY <2>1, <2>2, <2>3, <2>4 DEF Start, Takes, tables
<1>7. ASSUME NEW u \in Users, AskRead(w, u)
      PROVE  \E x \in Held : Noted(x)
    <2> DEFINE x == Reads("ask", u, "GUEST", ask[u] = "NONE")
    <2>1. x \in Held BY <1>r DEF Held, Reads, ReadsCode
    <2>2. Start(w, "join", x) BY <1>7 DEF AskRead
    <2>3. Promise(x) /\ Fresh(x) BY <1>7 DEF AskRead, Promise, Fresh, Took, In, Reads, ReadsCode
    <2>4. x.op = "invite" => \A v \in Workers : work[v].code # x.code
        BY <1>7 DEF AskRead, Reads, ReadsCode
    <2> HIDE DEF x
    <2> QED BY <2>1, <2>2, <2>3, <2>4 DEF Start, Takes, tables
<1>8. ASSUME NEW u \in Users, NEW c \in Codes, InviteRead(w, u, c)
      PROVE  \E x \in Held : Noted(x)
    <2> DEFINE x == ReadsCode("invite", c, FALSE)
    <2>1. x \in Held BY <1>r DEF Held, Reads, ReadsCode
    <2>2. Start(w, "invite", x) BY <1>8 DEF InviteRead
    <2>3. Promise(x) /\ Fresh(x) BY <1>8 DEF InviteRead, Promise, Fresh, Took, In, Reads, ReadsCode
    <2>4. x.op = "invite" => \A v \in Workers : work[v].code # x.code
        BY <1>8 DEF InviteRead, Reads, ReadsCode
    <2> HIDE DEF x
    <2> QED BY <2>1, <2>2, <2>3, <2>4 DEF Start, Takes, tables
<1>9. ASSUME NEW u \in Users, NEW c \in Codes, RevokeRead(w, u, c)
      PROVE  \E x \in Held : Noted(x)
    <2> DEFINE x == ReadsCode("revoke", c, shown = c)
    <2>1. x \in Held BY <1>r DEF Held, Reads, ReadsCode
    <2>2. Start(w, "revoke", x) BY <1>9 DEF RevokeRead
    <2>3. Promise(x) /\ Fresh(x) BY <1>9 DEF RevokeRead, Promise, Fresh, Took, In, Reads, ReadsCode
    <2>4. x.op = "invite" => \A v \in Workers : work[v].code # x.code
        BY <1>9 DEF RevokeRead, Reads, ReadsCode
    <2> HIDE DEF x
    <2> QED BY <2>1, <2>2, <2>3, <2>4 DEF Start, Takes, tables
<1>10. ASSUME NEW u \in Users, NEW k, PostRead(w, u, k)
      PROVE  \E x \in Held : Noted(x)
    <2> DEFINE x == Reads("post", Creator, "GUEST", FALSE)
    <2>1. x \in Held BY <1>r DEF Held, Reads, ReadsCode
    <2>2. Start(w, "post", x) BY <1>10 DEF PostRead
    <2>3. Promise(x) /\ Fresh(x) BY <1>10 DEF PostRead, Promise, Fresh, Took, In, Reads, ReadsCode
    <2>4. x.op = "invite" => \A v \in Workers : work[v].code # x.code
        BY <1>10 DEF PostRead, Reads, ReadsCode
    <2> HIDE DEF x
    <2> QED BY <2>1, <2>2, <2>3, <2>4 DEF Start, Takes, tables
<1> QED BY <1>1, <1>2, <1>3, <1>4, <1>5, <1>6, <1>7, <1>8, <1>9, <1>10 DEF Begin

\* Beginning a request keeps the invariant: the tables stay, and its note is true.
LEMMA BeginStep ==
    ASSUME IInv, NEW w \in Workers, Begin(w)
    PROVE  IInv'
<1>1. TypeOK /\ RoomFollowsGroup /\ BannedLeft /\ ShownIsLive /\ Distinct
      /\ \A v \in Workers : Promise(work[v])
    BY DEF IInv
<1>2. PICK x \in Held :
        /\ work' = [work EXCEPT ![w] = x]
        /\ overlapped' = (overlapped \/ \E v \in Workers \ {w} : ~At(v, "idle"))
        /\ UNCHANGED tables
        /\ Promise(x)
        /\ x.op = "invite" => \A v \in Workers : work[v].code # x.code
    BY <1>1, BeginNote
<1>3. TypeOK'
    BY <1>1, <1>2 DEF TypeOK, tables
<1>4. RoomFollowsGroup' /\ BannedLeft' /\ ShownIsLive'
    BY <1>1, <1>2 DEF RoomFollowsGroup, BannedLeft, ShownIsLive, tables
<1>5. \A v \in Workers : work'[v] = IF v = w THEN x ELSE work[v]
    BY <1>1, <1>2 DEF TypeOK
<1>6. Distinct'
    BY <1>1, <1>2, <1>5 DEF Distinct
<1>7. ASSUME NEW v \in Workers PROVE Promise(work[v])'
    BY <1>1, <1>2, <1>5 DEF Promise, Took, tables
<1> QED BY <1>3, <1>4, <1>6, <1>7 DEF IInv

\* It also keeps what holds while requests do not overlap.
LEMMA BeginSerial ==
    ASSUME IInv, Serial, NEW w \in Workers, Begin(w)
    PROVE  Serial'
<1>1. PICK x \in Held :
        /\ At(w, "idle")
        /\ work' = [work EXCEPT ![w] = x]
        /\ overlapped' = (overlapped \/ \E v \in Workers \ {w} : ~At(v, "idle"))
        /\ UNCHANGED tables
        /\ Fresh(x)
    BY BeginNote DEF IInv
<1> SUFFICES ASSUME ~overlapped'
             PROVE  Alone' /\ count' = Cardinality(Insiders)'
                    /\ \A v \in Workers : Fresh(work[v])'
    BY DEF Serial
<1>2. ~overlapped /\ \A v \in Workers \ {w} : At(v, "idle")
    BY <1>1
<1>3. \A v \in Workers : work'[v] = IF v = w THEN x ELSE work[v]
    BY <1>1 DEF IInv, TypeOK
<1>4. Alone'
    BY <1>2, <1>3 DEF Alone, At
<1>5. count' = Cardinality(Insiders)'
    BY <1>1, <1>2 DEF Serial, Insiders, In, tables
<1>6. ASSUME NEW v \in Workers PROVE Fresh(work[v])'
    BY <1>1, <1>2, <1>3 DEF Serial, Fresh, In, tables
<1> QED BY <1>4, <1>5, <1>6

---------------------------------------------------------------------------
(* A request writes *)

\* A worker that is done holds nothing; the others hold what they held.
LEMMA DoneNotes ==
    ASSUME TypeOK, NEW w \in Workers, Done(w)
    PROVE  /\ work' \in [Workers -> Held]
           /\ work'[w] = Idle
           /\ \A v \in Workers \ {w} : work'[v] = work[v]
           /\ requests' = requests /\ approval' = approval /\ overlapped' = overlapped
<1>1. Idle \in Held BY GroupAssumption DEF Idle, Held
<1> QED BY <1>1 DEF TypeOK, Done, Keeps

\* The codes of two workers stay apart when one of them is done.
LEMMA DoneDistinct ==
    ASSUME TypeOK, Distinct, NEW w \in Workers, Done(w)
    PROVE  Distinct'
BY DoneNotes DEF Distinct, Idle

\* An insertion is refused to whoever has a row, so it leaves the banned out; it gives
\* the group and its conversation the member at once.
LEMMA InsertStep ==
    ASSUME IInv, NEW w \in Workers, InsertCommit(w) \/ LetInCommit(w)
    PROVE  IInv'
<1>1. TypeOK /\ RoomFollowsGroup /\ BannedLeft /\ ShownIsLive /\ Distinct
      /\ \A v \in Workers : Promise(work[v])
    BY DEF IInv
<1>2. /\ Inserted(On(w), work[w].role) /\ room' = Attached(On(w))
      /\ count' = work[w].count + 1 /\ Done(w)
      /\ UNCHANGED <<banned, invite, shown>>
      /\ ask' = ask \/ ask' = [ask EXCEPT ![On(w)] = "APPROVED"]
    BY DEF InsertCommit, LetInCommit
<1>3. work[w] \in Held /\ On(w) \in Users /\ work[w].role \in Roles /\ work[w].count \in Nat
    BY <1>1 DEF TypeOK, Held, On
<1>4. TypeOK'
  <2>1. member' \in [Users -> MemberRow]
      BY <1>1, <1>2, <1>3 DEF TypeOK, MemberRow, Places, Inserted
  <2>2. room' \in [Users -> Places]
      BY <1>1, <1>2, <1>3 DEF TypeOK, Places, Attached
  <2>3. ask' \in [Users -> AskStates] /\ count' \in Nat
      BY <1>1, <1>2, <1>3 DEF TypeOK, AskStates
  <2> QED BY <1>1, <1>2, <2>1, <2>2, <2>3, DoneNotes DEF TypeOK
<1>5. RoomFollowsGroup'
    BY <1>1, <1>2, <1>3 DEF TypeOK, RoomFollowsGroup, Inserted, Attached
<1>6. BannedLeft'
    BY <1>1, <1>2, <1>3 DEF TypeOK, BannedLeft, Inserted, Took
<1>7. ShownIsLive'
    BY <1>1, <1>2 DEF ShownIsLive
<1>8. ASSUME NEW v \in Workers PROVE Promise(work[v])'
  <2>1. \A u \in Users : Took(u) => Took(u)'
      BY <1>1, <1>2, <1>3 DEF TypeOK, Took, Inserted
  <2>2. work[v].on \in Users /\ (work'[v] = work[v] \/ work'[v] = Idle)
      BY <1>1, <1>2, DoneNotes DEF TypeOK, Held
  <2> QED BY <1>1, <1>2, <2>1, <2>2 DEF Promise, Idle
<1> QED BY <1>1, <1>2, <1>4, <1>5, <1>6, <1>7, <1>8, DoneDistinct DEF IInv

\* A removal and a ban leave the group and its conversation at once, and a ban leaves a
\* row behind that no insertion gets past.
LEMMA LeaveStep ==
    ASSUME IInv, NEW w \in Workers, RemoveCommit(w) \/ BanCommit(w)
    PROVE  IInv'
<1>1. TypeOK /\ RoomFollowsGroup /\ BannedLeft /\ ShownIsLive /\ Distinct
      /\ \A v \in Workers : Promise(work[v])
    BY DEF IInv
<1>2. /\ Left(w) /\ Done(w) /\ work[w].op \in {"remove", "ban"}
      /\ UNCHANGED <<ask, invite, shown>>
      /\ banned' = banned \/ banned' = banned \cup {On(w)}
    BY DEF RemoveCommit, BanCommit, At
<1>3. On(w) \in Users /\ work[w].count \in Nat /\ Took(On(w)) /\ room[On(w)] # "never"
    BY <1>1, <1>2 DEF TypeOK, Held, On, Promise, Took, RoomFollowsGroup
<1>4. TypeOK'
  <2>1. member' \in [Users -> MemberRow]
      BY <1>1, <1>2, <1>3 DEF TypeOK, MemberRow, Places, Left
  <2>2. room' \in [Users -> Places]
      BY <1>1, <1>2, <1>3 DEF TypeOK, Places, Left
  <2>3. banned' \subseteq Users /\ count' \in Nat
      BY <1>1, <1>2, <1>3 DEF TypeOK, Left
  <2> QED BY <1>1, <1>2, <2>1, <2>2, <2>3, DoneNotes DEF TypeOK
<1>5. \A u \in Users : /\ member'[u].at = IF u = On(w) THEN "out" ELSE member[u].at
                       /\ room'[u] = IF u = On(w) THEN "out" ELSE room[u]
    BY <1>1, <1>2, <1>3 DEF TypeOK, MemberRow, Left
<1>6. RoomFollowsGroup' /\ BannedLeft' /\ ShownIsLive'
    BY <1>1, <1>2, <1>3, <1>5 DEF TypeOK, RoomFollowsGroup, BannedLeft, ShownIsLive
<1>7. ASSUME NEW v \in Workers PROVE Promise(work[v])'
  <2>1. \A u \in Users : Took(u) => Took(u)'
      BY <1>5 DEF Took
  <2>2. work[v].on \in Users /\ (work'[v] = work[v] \/ work'[v] = Idle)
      BY <1>1, <1>2, DoneNotes DEF TypeOK, Held
  <2> QED BY <1>1, <1>2, <2>1, <2>2 DEF Promise, Idle
<1> QED BY <1>1, <1>2, <1>4, <1>6, <1>7, DoneDistinct DEF IInv

\* A role, a request and a review touch nobody's place.
LEMMA RecordStep ==
    ASSUME IInv, NEW w \in Workers,
           RoleCommit(w) \/ AskCommit(w) \/ ReviewCommit(w) \/ PostCommit(w) \/ KeyRefuses(w)
    PROVE  IInv' /\ count' = count /\ \A u \in Users : In(u)' = In(u)
<1>1. TypeOK /\ RoomFollowsGroup /\ BannedLeft /\ ShownIsLive /\ Distinct
      /\ \A v \in Workers : Promise(work[v])
    BY DEF IInv
<1>2. On(w) \in Users /\ work[w].role \in Roles
    BY <1>1 DEF TypeOK, Held, On
<1>3. /\ Done(w) /\ UNCHANGED <<room, count, banned, invite, shown>>
      /\ member' = member \/ member' = [member EXCEPT ![On(w)].role = work[w].role]
      /\ ask' = ask \/ \E a \in AskStates : ask' = [ask EXCEPT ![On(w)] = a]
    BY DEF RoleCommit, AskCommit, ReviewCommit, PostCommit, KeyRefuses, AskStates
<1>4. /\ member' \in [Users -> MemberRow]
      /\ \A u \in Users : member'[u].at = member[u].at
    BY <1>1, <1>2, <1>3 DEF TypeOK, MemberRow
<1>5. TypeOK'
    BY <1>1, <1>2, <1>3, <1>4, DoneNotes DEF TypeOK
<1>6. RoomFollowsGroup' /\ BannedLeft' /\ ShownIsLive'
    BY <1>1, <1>3, <1>4 DEF TypeOK, RoomFollowsGroup, BannedLeft, ShownIsLive
<1>7. ASSUME NEW v \in Workers PROVE Promise(work[v])'
  <2>1. \A u \in Users : Took(u) => Took(u)'
      BY <1>4 DEF Took
  <2>2. work[v].on \in Users /\ (work'[v] = work[v] \/ work'[v] = Idle)
      BY <1>1, <1>3, DoneNotes DEF TypeOK, Held
  <2> QED BY <1>1, <1>3, <2>1, <2>2 DEF Promise, Idle
<1> QED BY <1>1, <1>3, <1>4, <1>5, <1>6, <1>7, DoneDistinct DEF IInv, In

\* A code is made live by the one worker that drew it, and the group stops showing a
\* code in the transaction that revokes it.
LEMMA CodeStep ==
    ASSUME IInv, NEW w \in Workers, InviteCommit(w) \/ RevokeCommit(w)
    PROVE  IInv'
<1>1. TypeOK /\ RoomFollowsGroup /\ BannedLeft /\ ShownIsLive /\ Distinct
      /\ \A v \in Workers : Promise(work[v])
    BY DEF IInv
<1>2. Done(w) /\ UNCHANGED <<member, room, count, banned, ask>>
    BY DEF InviteCommit, RevokeCommit
<1>3. work[w].code \in Codes
    BY <1>1 DEF Promise, InviteCommit, RevokeCommit, At
<1>4. TypeOK'
    BY <1>1, <1>2, <1>3, DoneNotes DEF TypeOK, InviteStates, InviteCommit, RevokeCommit
<1>5. RoomFollowsGroup' /\ BannedLeft'
    BY <1>1, <1>2 DEF RoomFollowsGroup, BannedLeft
<1>6. NoCode \notin Codes /\ FirstCode \notin Codes \cup {NoCode}
    BY GroupAssumption
<1>7. CASE InviteCommit(w)
  <2>1. /\ At(w, "invite") /\ shown' = work[w].code
        /\ \A c \in Codes : invite'[c] = IF c = work[w].code THEN "live" ELSE invite[c]
      BY <1>1, <1>3, <1>7 DEF TypeOK, InviteCommit
  <2>2. ShownIsLive'
      BY <1>3, <1>6, <2>1 DEF ShownIsLive
  <2>3. ASSUME NEW v \in Workers PROVE Promise(work[v])'
    <3>1. CASE v = w
        BY <1>1, <1>2, <3>1, DoneNotes DEF Promise, Idle
    <3>2. CASE v # w
      <4>1. work'[v] = work[v] /\ Promise(work[v]) /\ Promise(work[w])
          BY <1>1, <1>2, <3>2, DoneNotes
      <4>2. work[v].op \in {"invite", "revoke"} => work[v].code # work[w].code
          BY <1>1, <2>1, <3>2, <4>1 DEF Distinct, Promise, At
      <4> QED BY <1>2, <2>1, <4>1, <4>2 DEF Promise, Took
    <3> QED BY <3>1, <3>2
  <2> QED BY <1>1, <1>2, <1>4, <1>5, <2>2, <2>3, DoneDistinct DEF IInv
<1>8. CASE RevokeCommit(w)
  <2>1. /\ At(w, "revoke") /\ shown' = IF work[w].fresh THEN NoCode ELSE shown
        /\ \A c \in Codes : invite'[c] = IF c = work[w].code THEN "revoked" ELSE invite[c]
      BY <1>1, <1>3, <1>8 DEF TypeOK, RevokeCommit
  <2>2. ShownIsLive'
      BY <1>1, <1>3, <1>6, <2>1 DEF TypeOK, ShownIsLive, Promise, At
  <2>3. ASSUME NEW v \in Workers PROVE Promise(work[v])'
    <3>1. CASE v = w
        BY <1>1, <1>2, <3>1, DoneNotes DEF Promise, Idle
    <3>2. CASE v # w
      <4>1. work'[v] = work[v] /\ Promise(work[v]) /\ Promise(work[w])
          BY <1>1, <1>2, <3>2, DoneNotes
      <4>2. work[v].op = "invite" => work[v].code # work[w].code
          BY <2>1, <4>1 DEF Promise, At
      <4> QED BY <1>2, <1>6, <2>1, <4>1, <4>2 DEF Promise, Took
    <3> QED BY <3>1, <3>2
  <2> QED BY <1>1, <1>2, <1>4, <1>5, <2>2, <2>3, DoneDistinct DEF IInv
<1> QED BY <1>7, <1>8

\* Every step of a worker keeps the invariant.
LEMMA NextStep ==
    ASSUME IInv, [Next]_vars
    PROVE  IInv'
<1>1. ASSUME NEW w \in Workers, Begin(w) PROVE IInv'
    BY <1>1, BeginStep
<1>2. ASSUME NEW w \in Workers, Commit(w) PROVE IInv'
    BY <1>2, InsertStep, LeaveStep, RecordStep, CodeStep DEF Commit
<1>3. CASE UNCHANGED vars
    BY <1>3 DEF vars, IInv, TypeOK, RoomFollowsGroup, BannedLeft, ShownIsLive, Distinct,
                Promise, Took
<1> QED BY <1>1, <1>2, <1>3 DEF Next

LEMMA InitInv == Init => IInv
<1> SUFFICES ASSUME Init PROVE IInv
    OBVIOUS
<1>1. Idle \in Held /\ Creator \in Users /\ FirstCode \notin Codes
    BY GroupAssumption DEF Idle, Held
<1>2. TypeOK
  <2>1. member \in [Users -> MemberRow]
    <3>1. PICK r \in Roles :
            member = [u \in Users |-> IF u = Creator THEN [at |-> "in", role |-> r]
                                                     ELSE [at |-> "never", role |-> "GUEST"]]
        BY DEF Init
    <3>2. "GUEST" \in Roles
        BY GroupAssumption
    <3> QED BY <3>1, <3>2 DEF MemberRow, Places
  <2>2. room \in [Users -> Places] /\ ask \in [Users -> AskStates]
        /\ invite \in [Codes -> InviteStates]
      BY DEF Init, Places, AskStates, InviteStates
  <2> QED BY <1>1, <2>1, <2>2 DEF Init, TypeOK
<1>3. RoomFollowsGroup /\ BannedLeft /\ ShownIsLive
    BY <1>1 DEF Init, RoomFollowsGroup, BannedLeft, ShownIsLive
<1>4. Distinct /\ \A w \in Workers : Promise(work[w])
    BY DEF Init, Distinct, Promise, Idle
<1> QED BY <1>2, <1>3, <1>4 DEF IInv

LEMMA Invariance == Spec => []IInv
BY InitInv, NextStep, PTL DEF Spec

---------------------------------------------------------------------------
(* Counting *)

\* While requests do not overlap, whoever writes is alone, and its note is still true.
LEMMA CommitSerial ==
    ASSUME IInv, Serial, NEW w \in Workers, Commit(w)
    PROVE  Serial'
<1>1. TypeOK /\ Done(w)
    BY DEF IInv, Commit, InsertCommit, LetInCommit, KeyRefuses, RoleCommit, RemoveCommit, BanCommit,
           AskCommit, ReviewCommit, InviteCommit, RevokeCommit, PostCommit
<1> SUFFICES ASSUME ~overlapped'
             PROVE  Alone' /\ count' = Cardinality(Insiders)'
                    /\ \A v \in Workers : Fresh(work[v])'
    BY DEF Serial
<1>2. ~overlapped /\ Alone /\ count = Cardinality(Insiders) /\ Fresh(work[w])
    BY <1>1, DoneNotes DEF Serial
<1>3. ~At(w, "idle")
    BY DEF Commit, At, InsertCommit, LetInCommit, KeyRefuses, RoleCommit, RemoveCommit, BanCommit,
           AskCommit, ReviewCommit, InviteCommit, RevokeCommit, PostCommit
<1>4. \A v \in Workers : work'[v].op = "idle"
    BY <1>1, <1>2, <1>3, DoneNotes DEF Alone, At, Idle
<1>5. Alone' /\ \A v \in Workers : Fresh(work[v])'
    BY <1>4 DEF Alone, At, Fresh
<1>6. On(w) \in Users /\ IsFiniteSet(Insiders)
    BY <1>1, GroupAssumption, FS_Subset DEF TypeOK, Held, On, Insiders
<1>7. CASE InsertCommit(w) \/ LetInCommit(w)
  <2>1. Insiders' = Insiders \cup {On(w)}
      BY <1>1, <1>6, <1>7 DEF TypeOK, Insiders, In, InsertCommit, LetInCommit, Inserted, MemberRow
  <2>2. On(w) \notin Insiders /\ count' = count + 1
      BY <1>2, <1>7 DEF Fresh, InsertCommit, LetInCommit, At, On, Insiders
  <2>3. Cardinality(Insiders \cup {On(w)}) = Cardinality(Insiders) + 1
      BY <1>6, <2>2, FS_AddElement
  <2> QED BY <1>2, <1>5, <2>1, <2>2, <2>3
<1>8. CASE RemoveCommit(w) \/ BanCommit(w)
  <2>1. Insiders' = Insiders \ {On(w)}
      BY <1>1, <1>6, <1>8 DEF TypeOK, Insiders, In, RemoveCommit, BanCommit, Left, MemberRow
  <2>2. On(w) \in Insiders /\ work[w].count = count
      BY <1>2, <1>6, <1>8 DEF Fresh, RemoveCommit, BanCommit, At, On, Insiders
  <2>3. Cardinality(Insiders \ {On(w)}) = Cardinality(Insiders) - 1
      BY <1>6, <2>2, FS_RemoveElement
  <2>4. Cardinality(Insiders) # 0
      BY <1>6, <2>2, FS_EmptySet
  <2>5. count' = count - 1
      BY <1>2, <1>8, <2>2, <2>4 DEF RemoveCommit, BanCommit, Left
  <2> QED BY <1>2, <1>5, <2>1, <2>3, <2>5
<1>9. CASE InviteCommit(w) \/ RevokeCommit(w)
  <2>1. Insiders' = Insiders /\ count' = count
      BY <1>9 DEF Insiders, In, InviteCommit, RevokeCommit
  <2> QED BY <1>2, <1>5, <2>1
<1>10. CASE RoleCommit(w) \/ AskCommit(w) \/ ReviewCommit(w) \/ PostCommit(w) \/ KeyRefuses(w)
  <2>1. Insiders' = Insiders /\ count' = count
      BY <1>10, RecordStep DEF Insiders
  <2> QED BY <1>2, <1>5, <2>1
<1> QED BY <1>7, <1>8, <1>9, <1>10 DEF Commit

LEMMA SerialInvariance == Spec => []Serial
<1>1. Init => Serial
  <2> SUFFICES ASSUME Init PROVE Serial
      OBVIOUS
  <2>1. Insiders = {Creator}
      BY GroupAssumption DEF Init, Insiders, In
  <2>2. Cardinality(Insiders) = 1
      BY <2>1, FS_Singleton
  <2> QED BY <2>2 DEF Init, Serial, Alone, At, Fresh, Idle
<1>2. IInv /\ Serial /\ [Next]_vars => Serial'
  <2> SUFFICES ASSUME IInv, Serial, [Next]_vars PROVE Serial'
      OBVIOUS
  <2>1. CASE UNCHANGED vars
      BY <2>1 DEF vars, Serial, Alone, At, Fresh, Insiders, In
  <2> QED BY <2>1, BeginSerial, CommitSerial DEF Next
<1> QED BY <1>1, <1>2, Invariance, PTL DEF Spec

---------------------------------------------------------------------------
(* The theorems *)

\* The tables and the workers' notes keep their shapes.
THEOREM TypeCorrect == Spec => []TypeOK
BY Invariance, PTL DEF IInv

\* Whoever is banned is out of the group and of its conversation for good, however the
\* ban interleaves with joining, adding and letting in.
THEOREM BannedStayOut == Spec => []BannedIsOut
<1>1. IInv => BannedIsOut
    BY DEF IInv, TypeOK, BannedLeft, RoomFollowsGroup, BannedIsOut, In
<1> QED BY <1>1, Invariance, PTL

\* The conversation has the group's members in every reachable state.
THEOREM RoomAndGroupAgree == Spec => []RoomFollowsGroup
BY Invariance, PTL DEF IInv

\* Once its code is an invite's, a group shows no code that somebody has revoked, and its
\* first code only as long as no invite was ever made.
THEOREM ShownCodeIsLive == Spec => []ShownIsLive
BY Invariance, PTL DEF IInv

\* As long as no two requests have overlapped, the counter is the number of members.
THEOREM CountIsRight == Spec => []CountIsMembers
<1>1. Serial => CountIsMembers
    BY DEF Serial, CountIsMembers, Insiders
<1> QED BY <1>1, SerialInvariance, PTL

---------------------------------------------------------------------------
(* Feed: the invariant *)

\* What a request has noted names what there is, whoever else is at work.  A dispatcher
\* has notified the user whose reminder it is to mark.
Carried(x) ==
    /\ x.op \in {"rows", "rsvp"} => x.by \in People
    /\ x.op \in {"comment", "uncomment", "best"} => x.on \in Comments
    /\ x.op = "rsvp" => x.to \in {"going", "not_going"}
    /\ x.op = "announce" => x.to \in {"member_count", "subscriber_count"} /\ x.due \subseteq People
    /\ x.op = "remind" => /\ x.due \subseteq Reminders
                          /\ x.mark # Nothing => notices[x.mark[1]] > 0

\* What a request has noted is still so.
UpToDate(x) ==
    /\ x.op = "rows" => /\ \A s \in Counted \cap (x.add \cup x.drop) : x.seen[s] = counter[s]
                        /\ \A s \in x.add : x.by \notin rows[s]
                        /\ \A s \in x.drop : x.by \in rows[s]
                        /\ x.lost = {}
    /\ x.op = "comment" => ~There(x.on) /\ x.n = post.replies
    /\ x.op = "uncomment" => There(x.on) /\ x.n = post.replies
    /\ x.op = "rsvp" /\ x.n = 1 => Rows(x.by) = {}
    /\ x.op = "remind" => /\ \A r \in x.due : reminder[r] = "due" /\ r # x.mark
                          /\ x.mark # Nothing => reminder[x.mark] = "due"

\* The post of a poll or an event comes with it, and has no comments before.
PostComes == made = {} /\ requests.names \cap {"vote", "rsvp"} # {} =>
    ~post.live /\ post.replies = 0 /\ \A c \in Comments : ~There(c)

\* A user has one reminder.
OneReminder == \A r, q \in Reminders :
    r[1] = q[1] /\ reminder[r] # "none" /\ reminder[q] # "none" => r = q

\* Whoever was reminded has a reminder that is marked, or is about to be.
Accounted(u) == \E r \in Reminders :
    /\ r[1] = u
    /\ reminder[r] = "sent" \/ \E w \in Workers : At(w, "remind") /\ work[w].mark = r

FeedHeld == FeedTypeOK /\ SentWasNotified /\ PostComes /\ \A w \in Workers : Carried(work[w])

\* As long as no two requests have overlapped.
FeedSerial ==
    /\ ~overlapped => /\ Alone
                      /\ \A w \in Workers : UpToDate(work[w])
                      /\ OneReminder
    /\ CountersCount
    /\ ~overlapped /\ ~killed => \A u \in People : notices[u] <= 1 /\ (notices[u] > 0 => Accounted(u))

---------------------------------------------------------------------------
(* Feed: what a request notes when it begins *)

Notes(w, x) ==
    /\ x \in FeedWork /\ Carried(x) /\ UpToDate(x) /\ x.op # "idle"
    /\ Takes(w, x)
    /\ UNCHANGED <<feedTables, killed>>

LEMMA FreeIsFeedWork == Free \in FeedWork
BY DEF Free, FeedWork

LEMMA TurnNotes ==
    ASSUME FeedHeld, NEW w \in Workers, NEW name, NEW u \in People,
           NEW add \in SUBSET (Counted \cup Plain), NEW drop \in SUBSET (Counted \cup Plain),
           \A s \in add : u \notin rows[s], \A s \in drop : u \in rows[s],
           Turn(w, name, u, add, drop)
    PROVE  \E x : Notes(w, x)
<1>1. PICK x : x = [Free EXCEPT !.op = "rows", !.by = u, !.add = add, !.drop = drop,
        !.seen = [s \in Counted |-> IF s \in add \cup drop THEN counter[s] ELSE 0]]
    OBVIOUS
<1>2. [s \in Counted |-> IF s \in add \cup drop THEN counter[s] ELSE 0] \in [Counted -> Nat]
    BY DEF FeedHeld, FeedTypeOK
<1>3. x \in FeedWork /\ x.op = "rows" /\ x.by = u /\ x.add = add /\ x.drop = drop /\ x.lost = {}
      /\ x.seen = [s \in Counted |-> IF s \in add \cup drop THEN counter[s] ELSE 0]
    BY <1>1, <1>2 DEF Free, FeedWork
<1>4. Carried(x) /\ UpToDate(x)
    BY <1>3 DEF Carried, UpToDate
<1>5. Takes(w, x) /\ UNCHANGED <<feedTables, killed>>
    BY <1>1 DEF Turn, Asks
<1> QED BY <1>3, <1>4, <1>5 DEF Notes

LEMMA WithIsIn ==
    ASSUME NEW u, NEW S
    PROVE  /\ With(u, S) \subseteq S /\ \A s \in With(u, S) : u \in rows[s]
           /\ Without(u, S) \subseteq S /\ \A s \in Without(u, S) : u \notin rows[s]
BY DEF With, Without

\* What a user adds or takes back at a request is not there, or is.
LEMMA RowsNote ==
    ASSUME FeedHeld, NEW w \in Workers, NEW u \in People,
           \/ ReactRead(w, u) \/ SaveRead(w, u) \/ JoinCommunityRead(w, u) \/ FollowRead(w, u)
           \/ UnfollowRead(w, u) \/ ViewRead(w, u) \/ ReactStatusRead(w, u) \/ ReactMessageRead(w, u)
           \/ SaveMessageRead(w, u) \/ DeleteForMeRead(w, u) \/ MuteRead(w, u)
           \/ \E c \in Comments : ReactCommentRead(w, u, c)
           \/ \E S \in SUBSET Options : VoteRead(w, u, S)
    PROVE  \E x : Notes(w, x)
<1> DEFINE K == Counted \cup Plain
<1>1. {"reaction_count", "member_count", "subscriber_count"} \subseteq K /\ Plain \subseteq K
      /\ Options \subseteq K /\ Comments \subseteq K
    BY DEF Counted
<1>2. ASSUME NEW name, NEW S \in SUBSET K, NEW T \in SUBSET K,
             Turn(w, name, u, Without(u, S), With(u, T))
      PROVE  \E x : Notes(w, x)
  <2>1. Without(u, S) \in SUBSET K /\ With(u, T) \in SUBSET K
      BY WithIsIn
  <2> QED BY <1>2, <2>1, WithIsIn, TurnNotes
<1>3. ASSUME NEW name, NEW s \in K, u \notin rows[s], Turn(w, name, u, {s}, {})
      PROVE  \E x : Notes(w, x)
    BY <1>3, TurnNotes
<1>4. ASSUME NEW name, NEW s \in K, u \in rows[s], Turn(w, name, u, {}, {s})
      PROVE  \E x : Notes(w, x)
    BY <1>4, TurnNotes
<1>5. ASSUME ReactRead(w, u) PROVE \E x : Notes(w, x)
    BY <1>1, <1>2, <1>5 DEF ReactRead
<1>6. ASSUME SaveRead(w, u) PROVE \E x : Notes(w, x)
    BY <1>1, <1>2, <1>6 DEF SaveRead, Plain
<1>7. ASSUME JoinCommunityRead(w, u) PROVE \E x : Notes(w, x)
    BY <1>1, <1>3, <1>7 DEF JoinCommunityRead
<1>8. ASSUME FollowRead(w, u) PROVE \E x : Notes(w, x)
    BY <1>1, <1>3, <1>8 DEF FollowRead
<1>9. ASSUME UnfollowRead(w, u) PROVE \E x : Notes(w, x)
    BY <1>1, <1>4, <1>9 DEF UnfollowRead
<1>10. ASSUME ViewRead(w, u) PROVE \E x : Notes(w, x)
    BY <1>1, <1>3, <1>10 DEF ViewRead, Plain
<1>11. ASSUME ReactStatusRead(w, u) PROVE \E x : Notes(w, x)
    BY <1>1, <1>2, <1>11 DEF ReactStatusRead, Plain
<1>12. ASSUME ReactMessageRead(w, u) PROVE \E x : Notes(w, x)
    BY <1>1, <1>2, <1>12 DEF ReactMessageRead, Plain
<1>13. ASSUME SaveMessageRead(w, u) PROVE \E x : Notes(w, x)
    BY <1>1, <1>3, <1>13 DEF SaveMessageRead, Plain
<1>14. ASSUME DeleteForMeRead(w, u) PROVE \E x : Notes(w, x)
    BY <1>1, <1>4, <1>14 DEF DeleteForMeRead, Plain
<1>15. ASSUME MuteRead(w, u) PROVE \E x : Notes(w, x)
    BY <1>1, <1>2, <1>15 DEF MuteRead, Plain
<1>16. ASSUME NEW c \in Comments, ReactCommentRead(w, u, c) PROVE \E x : Notes(w, x)
    BY <1>1, <1>2, <1>16 DEF ReactCommentRead
<1>17. ASSUME NEW S \in SUBSET Options, VoteRead(w, u, S) PROVE \E x : Notes(w, x)
    BY <1>1, <1>2, <1>17 DEF VoteRead, Dropped
<1> QED BY <1>5, <1>6, <1>7, <1>8, <1>9, <1>10, <1>11, <1>12, <1>13, <1>14, <1>15, <1>16, <1>17

\* One that follows again, announces or answers an invitation.
LEMMA PersonNotes ==
    ASSUME FeedHeld, NEW w \in Workers, NEW u \in People,
           \/ FollowAgainRead(w, u)
           \/ \E s \in {"member_count", "subscriber_count"} : AnnounceRead(w, u, s)
           \/ \E response \in {"going", "not_going"} : RsvpRead(w, u, response)
    PROVE  \E x : Notes(w, x)
<1> USE DEF FeedHeld
<1>1. ASSUME FollowAgainRead(w, u) PROVE \E x : Notes(w, x)
  <2>1. PICK x : x = [Free EXCEPT !.op = "rows", !.by = u,
                         !.to = IF u \in admins THEN "all" ELSE "none"]
      OBVIOUS
  <2>2. x \in FeedWork /\ x.op = "rows" /\ x.by = u /\ x.add = {} /\ x.drop = {} /\ x.lost = {}
      BY <2>1 DEF Free, FeedWork
  <2>3. Carried(x) /\ UpToDate(x)
      BY <2>2 DEF Carried, UpToDate
  <2>4. Takes(w, x) /\ UNCHANGED <<feedTables, killed>>
      BY <1>1, <2>1 DEF FollowAgainRead, Asks
  <2> QED BY <2>2, <2>3, <2>4 DEF Notes
<1>2. ASSUME NEW s \in {"member_count", "subscriber_count"}, AnnounceRead(w, u, s)
      PROVE  \E x : Notes(w, x)
  <2>1. PICK x : x = [Free EXCEPT !.op = "announce", !.by = u, !.to = s, !.due = rows[s] \ {u}]
      OBVIOUS
  <2>2. rows[s] \subseteq People
      BY DEF FeedTypeOK, Counted
  <2>3. x \in FeedWork /\ x.op = "announce" /\ x.to = s /\ x.due \subseteq People
      BY <2>1, <2>2 DEF Free, FeedWork
  <2>4. Carried(x) /\ UpToDate(x)
      BY <2>3 DEF Carried, UpToDate
  <2>5. Takes(w, x) /\ UNCHANGED <<feedTables, killed>>
      BY <1>2, <2>1 DEF AnnounceRead, Asks
  <2> QED BY <2>3, <2>4, <2>5 DEF Notes
<1>3. ASSUME NEW response \in {"going", "not_going"}, RsvpRead(w, u, response)
      PROVE  \E x : Notes(w, x)
  <2>1. PICK x : x = [Free EXCEPT !.op = "rsvp", !.by = u, !.to = response,
                           !.fresh = rsvp[u] = "none",
                           !.n = IF response = "going" /\ ~late /\ Rows(u) = {} THEN 1 ELSE 0]
      OBVIOUS
  <2>2. x \in FeedWork /\ x.op = "rsvp" /\ x.by = u /\ x.to = response
        /\ x.n = IF response = "going" /\ ~late /\ Rows(u) = {} THEN 1 ELSE 0
    <3>1. (rsvp[u] = "none") \in BOOLEAN
        OBVIOUS
    <3> QED BY <2>1, <3>1 DEF Free, FeedWork
  <2>3. Carried(x) /\ UpToDate(x)
      BY <2>2 DEF Carried, UpToDate
  <2>4. Takes(w, x) /\ UNCHANGED <<feedTables, killed>>
      BY <1>3, <2>1 DEF RsvpRead, Asks
  <2> QED BY <2>2, <2>3, <2>4 DEF Notes
<1> QED BY <1>1, <1>2, <1>3

\* A request about a comment, the post, the poll, the reminders or the status.
LEMMA OtherNotes ==
    ASSUME FeedHeld, NEW w \in Workers,
           \/ \E c \in Comments :
               \/ UncommentRead(w, c)
               \/ \E p \in Comments \cup {Nothing} : CommentRead(w, c, p) \/ BestRead(w, c, p)
           \/ DeletePostRead(w) \/ CloseRead(w) \/ DispatchRead(w) \/ ExpireRead(w)
    PROVE  \E x : Notes(w, x)
<1> USE DEF FeedHeld
<1>0. post.replies \in Nat
    BY DEF FeedTypeOK
<1>1. ASSUME NEW c \in Comments, UncommentRead(w, c) PROVE \E x : Notes(w, x)
  <2>1. PICK x : x = [Free EXCEPT !.op = "uncomment", !.on = c, !.n = post.replies]
      OBVIOUS
  <2>2. x \in FeedWork /\ x.op = "uncomment" /\ x.on = c /\ x.n = post.replies
      BY <1>0, <2>1 DEF Free, FeedWork
  <2>3. Carried(x) /\ UpToDate(x)
      BY <1>1, <2>2 DEF Carried, UpToDate, UncommentRead
  <2>4. Takes(w, x) /\ UNCHANGED <<feedTables, killed>>
      BY <1>1, <2>1 DEF UncommentRead, Asks
  <2> QED BY <2>2, <2>3, <2>4 DEF Notes
<1>2. ASSUME NEW c \in Comments, NEW p \in Comments \cup {Nothing}, CommentRead(w, c, p)
      PROVE  \E x : Notes(w, x)
  <2>1. PICK x : x = [Free EXCEPT !.op = "comment", !.on = c, !.of = p, !.n = post.replies]
      OBVIOUS
  <2>2. x \in FeedWork /\ x.op = "comment" /\ x.on = c /\ x.n = post.replies
      BY <1>0, <2>1 DEF Free, FeedWork
  <2>3. Carried(x) /\ UpToDate(x)
      BY <1>2, <2>2 DEF Carried, UpToDate, CommentRead, There
  <2>4. Takes(w, x) /\ UNCHANGED <<feedTables, killed>>
      BY <1>2, <2>1 DEF CommentRead, Asks
  <2> QED BY <2>2, <2>3, <2>4 DEF Notes
<1>3. ASSUME NEW c \in Comments, NEW p \in Comments \cup {Nothing}, BestRead(w, c, p)
      PROVE  \E x : Notes(w, x)
  <2>1. PICK x : x = [Free EXCEPT !.op = "best", !.on = c, !.of = p]
      OBVIOUS
  <2>2. x \in FeedWork /\ x.op = "best" /\ x.on = c
      BY <2>1 DEF Free, FeedWork
  <2>3. Carried(x) /\ UpToDate(x)
      BY <2>2 DEF Carried, UpToDate
  <2>4. Takes(w, x) /\ UNCHANGED <<feedTables, killed>>
      BY <1>3, <2>1 DEF BestRead, Asks
  <2> QED BY <2>2, <2>3, <2>4 DEF Notes
<1>4. ASSUME NEW op \in {"unpost", "close", "expire"}, NEW name, Asks(w, name, [Free EXCEPT !.op = op])
      PROVE  \E x : Notes(w, x)
  <2>1. PICK x : x = [Free EXCEPT !.op = op]
      OBVIOUS
  <2>2. x \in FeedWork /\ x.op = op
      BY <2>1 DEF Free, FeedWork
  <2>3. Carried(x) /\ UpToDate(x)
      BY <2>2 DEF Carried, UpToDate
  <2>4. Takes(w, x) /\ UNCHANGED <<feedTables, killed>>
      BY <1>4, <2>1 DEF Asks
  <2> QED BY <2>2, <2>3, <2>4 DEF Notes
<1>5. ASSUME DispatchRead(w) PROVE \E x : Notes(w, x)
  <2> DEFINE due == {r \in Reminders : reminder[r] = "due"}
  <2>1. PICK x : x = [Free EXCEPT !.op = "remind", !.due = due]
      OBVIOUS
  <2>2. x \in FeedWork /\ x.op = "remind" /\ x.due = due /\ x.mark = Nothing
      BY <2>1 DEF Free, FeedWork
  <2>3. Carried(x) /\ UpToDate(x)
      BY <2>2, FeedAssumption DEF Carried, UpToDate, FeedAssumption
  <2>4. Takes(w, x) /\ UNCHANGED <<feedTables, killed>>
      BY <1>5, <2>1 DEF DispatchRead, Asks
  <2> QED BY <2>2, <2>3, <2>4 DEF Notes
<1>6. (\E name : Asks(w, name, [Free EXCEPT !.op = "unpost"])) => \E x : Notes(w, x)
    BY <1>4
<1>7. (\E name : Asks(w, name, [Free EXCEPT !.op = "close"])) => \E x : Notes(w, x)
    BY <1>4
<1>8. (\E name : Asks(w, name, [Free EXCEPT !.op = "expire"])) => \E x : Notes(w, x)
    BY <1>4
<1> QED BY <1>1, <1>2, <1>3, <1>5, <1>6, <1>7, <1>8 DEF DeletePostRead, CloseRead, ExpireRead

LEMMA ReadNotes ==
    ASSUME FeedHeld, NEW w \in Workers, Read(w)
    PROVE  CreatePoll(w) \/ CreateEvent(w) \/ \E x : Notes(w, x)
<1>1. requests.users \subseteq People
    BY FeedAssumption DEF FeedHeld, FeedTypeOK, FeedAssumption
<1> QED BY <1>1, RowsNote, PersonNotes, OtherNotes DEF Read

---------------------------------------------------------------------------
(* Feed: what holds whoever is at work *)

\* What is noted names what there is, as long as no notification is taken back.
LEMMA StaysCarried ==
    ASSUME FeedTypeOK, NEW x \in FeedWork, Carried(x),
           \A u \in People : notices[u] > 0 => notices'[u] > 0
    PROVE  Carried(x)'
<1>1. x.mark # Nothing => x.mark \in Reminders /\ x.mark[1] \in People
    BY FeedAssumption DEF FeedAssumption, FeedWork
<1> QED BY <1>1 DEF Carried

LEMMA FreeCarries == Carried(Free) /\ Carried(Free)'
BY DEF Carried, Free

LEMMA KeptIsCarried ==
    ASSUME FeedHeld, NEW w \in Workers, NEW x \in FeedWork, Carried(x)',
           work' = [work EXCEPT ![w] = x],
           \A u \in People : notices[u] > 0 => notices'[u] > 0
    PROVE  work' \in [Workers -> FeedWork] /\ (\A v \in Workers : Carried(work[v]))'
<1>1. work \in [Workers -> FeedWork]
    BY DEF FeedHeld, FeedTypeOK
<1>2. ASSUME NEW v \in Workers
      PROVE  Carried(work[v])'
  <2>1. CASE v = w
      BY <1>1, <2>1 DEF Carried
  <2>2. CASE v # w
    <3>1. PICK y : y = work[v]
        OBVIOUS
    <3>2. y \in FeedWork /\ Carried(y) /\ y = work'[v]
        BY <1>1, <2>2, <3>1 DEF FeedHeld
    <3>3. Carried(y)'
        BY <3>2, StaysCarried DEF FeedHeld
    <3> QED BY <3>2, <3>3 DEF Carried
  <2> QED BY <2>1, <2>2
<1> QED BY <1>1, <1>2

\* The tables that a request leaves alone are as they were.
LEMMA NotedHeld ==
    ASSUME FeedHeld, NEW w \in Workers, NEW x, Notes(w, x)
    PROVE  FeedHeld'
<1> USE DEF Notes, Takes, feedTables, social, talk
<1>1. Carried(x)'
    BY StaysCarried DEF FeedHeld
<1>2. work' \in [Workers -> FeedWork] /\ (\A v \in Workers : Carried(work[v]))'
    BY <1>1, KeptIsCarried
<1>3. overlapped' \in BOOLEAN
    BY DEF FeedHeld, FeedTypeOK
<1> QED BY <1>2, <1>3 DEF FeedHeld, FeedTypeOK, SentWasNotified, PostComes, There

LEMMA DoneIsCarried ==
    ASSUME FeedHeld, NEW w \in Workers, Keeps(w, Free),
           \A u \in People : notices[u] > 0 => notices'[u] > 0
    PROVE  /\ work' \in [Workers -> FeedWork] /\ (\A v \in Workers : Carried(work[v]))'
           /\ requests' = requests /\ overlapped' = overlapped
<1>1. work' = [work EXCEPT ![w] = Free] /\ requests' = requests /\ overlapped' = overlapped
    BY DEF Keeps
<1>2. PICK x : x = Free
    OBVIOUS
<1>3. x \in FeedWork /\ Carried(x)' /\ work' = [work EXCEPT ![w] = x]
    BY <1>1, <1>2, FreeIsFeedWork, FreeCarries
<1>4. work' \in [Workers -> FeedWork] /\ (\A v \in Workers : Carried(work[v]))'
    BY <1>3, KeptIsCarried
<1> QED BY <1>1, <1>4

LEMMA LeftHeld ==
    ASSUME FeedHeld, NEW w \in Workers, Keeps(w, Free), UNCHANGED feedTables, killed' \in BOOLEAN
    PROVE  FeedHeld'
<1> USE DEF feedTables, social, talk
<1>1. work' \in [Workers -> FeedWork] /\ (\A v \in Workers : Carried(work[v]))'
      /\ requests' = requests /\ overlapped' = overlapped
    BY DoneIsCarried
<1> QED BY <1>1 DEF FeedHeld, FeedTypeOK, SentWasNotified, PostComes, There

LEMMA RowsHeld ==
    ASSUME FeedHeld, NEW w \in Workers, RowsCommit(w)
    PROVE  FeedHeld'
<1>0. FeedTypeOK
    BY DEF FeedHeld
<1>1. PICK x : x = work[w]
    OBVIOUS
<1>2. x \in FeedWork /\ x.op = "rows" /\ x.by \in People
    BY <1>0, <1>1 DEF FeedTypeOK, RowsCommit, At, FeedHeld, Carried
<1> DEFINE deleted == x.drop \ x.lost
<1>3. /\ rows' = [s \in Counted \cup Plain |->
                        IF s \in x.add THEN rows[s] \cup {x.by}
                        ELSE IF s \in deleted THEN rows[s] \ {x.by} ELSE rows[s]]
      /\ counter' = [s \in Counted |-> NewCount(x, s)]
      /\ admins' = IF x.to = "all" \/ "subscriber_count" \in deleted THEN admins \ {x.by} ELSE admins
      /\ muted' = IF "muted_conversations" \in x.add THEN muted \cup {x.by}
                    ELSE IF "muted_conversations" \in x.drop THEN muted \ {x.by} ELSE muted
      /\ work' = [v \in Workers |-> IF v = w THEN Free ELSE Losing(v, x)]
      /\ UNCHANGED <<requests, post, comment, social, heard, overlapped, killed>>
    BY <1>1 DEF RowsCommit
<1>4. rows' \in [Counted \cup Plain -> SUBSET People]
    BY <1>0, <1>2, <1>3 DEF FeedTypeOK
<1>5. counter' \in [Counted -> Nat]
  <2>1. \A s \in Counted : x.seen[s] \in Nat /\ counter[s] \in Nat
      BY <1>0, <1>2 DEF FeedTypeOK, FeedWork
  <2>2. \A s \in Counted : NewCount(x, s) \in Nat
      BY <2>1 DEF NewCount
  <2> QED BY <1>3, <2>2
<1>6. admins' \in SUBSET People /\ muted' \in SUBSET People
    BY <1>0, <1>2, <1>3 DEF FeedTypeOK
<1>7. ASSUME NEW v \in Workers
      PROVE  work'[v] \in FeedWork /\ Carried(work[v])'
  <2>1. CASE v = w
    <3>1. work'[v] = Free
        BY <1>3, <2>1
    <3> QED BY <3>1, FreeIsFeedWork, FreeCarries DEF Carried
  <2>2. CASE v # w
    <3>1. PICK y : y = work[v]
        OBVIOUS
    <3>2. PICK z : z = work'[v]
        OBVIOUS
    <3>3. z = y \/ \E S : S \subseteq x.drop /\ z = [y EXCEPT !.lost = @ \cup S]
      <4> DEFINE S == {s \in x.drop : s \in y.drop \/ y.to = "all"}
      <4>1. z = Losing(v, x)
          BY <1>3, <2>2, <3>2
      <4>2. z = y \/ z = [y EXCEPT !.lost = @ \cup S]
          BY <3>1, <4>1 DEF Losing
      <4>3. S \subseteq x.drop
          OBVIOUS
      <4> HIDE DEF S
      <4> QED BY <4>2, <4>3
    <3>4. y \in FeedWork /\ Carried(y)
        BY <1>0, <3>1 DEF FeedTypeOK, FeedHeld
    <3>5. z \in FeedWork /\ z.op = y.op /\ z.by = y.by /\ z.on = y.on /\ z.to = y.to /\ z.due = y.due
          /\ z.mark = y.mark
        BY <1>2, <3>3, <3>4 DEF FeedWork
    <3>6. Carried(z)
        BY <3>4, <3>5 DEF Carried
    <3>7. Carried(z)'
        BY <1>0, <1>3, <3>5, <3>6, StaysCarried DEF social
    <3> QED BY <3>2, <3>5, <3>7 DEF Carried
  <2> QED BY <2>1, <2>2
<1>8. work' \in [Workers -> FeedWork]
  <2>1. work' = [v \in Workers |-> work'[v]]
      BY <1>3
  <2> QED BY <1>7, <2>1
<1>9. FeedTypeOK'
    BY <1>0, <1>3, <1>4, <1>5, <1>6, <1>8 DEF FeedTypeOK, social
<1> QED BY <1>3, <1>7, <1>9 DEF FeedHeld, SentWasNotified, PostComes, There, social

\* The post and its comments.
LEMMA PostHeld ==
    ASSUME FeedHeld, NEW w \in Workers,
           CommentCommit(w) \/ UncommentCommit(w) \/ BestCommit(w) \/ DeletePostCommit(w)
    PROVE  FeedHeld'
<1> USE DEF FeedHeld, Answered
<1>0. FeedTypeOK
    OBVIOUS
<1>1. PICK x : x = work[w]
    OBVIOUS
<1>2. x \in FeedWork /\ Carried(x)
    BY <1>1 DEF FeedTypeOK
<1>3. Keeps(w, Free) /\ UNCHANGED <<rows, counter, admins, social, talk, killed>>
    BY DEF CommentCommit, UncommentCommit, BestCommit, DeletePostCommit
<1>4. work' \in [Workers -> FeedWork] /\ (\A v \in Workers : Carried(work[v]))'
      /\ requests' = requests /\ overlapped' = overlapped
    BY <1>3, DoneIsCarried DEF social
<1>5. ASSUME comment' \in [Comments -> CommentRow],
             post' \in [live : BOOLEAN, replies : Nat, best : Comments \cup {Nothing}],
             PostComes'
      PROVE  FeedHeld'
  <2>1. FeedTypeOK'
      BY <1>0, <1>3, <1>4, <1>5 DEF FeedTypeOK, social, talk
  <2> QED BY <1>3, <1>4, <1>5, <2>1 DEF SentWasNotified, social
<1>6. comment \in [Comments -> CommentRow] /\ post.replies \in Nat
      /\ post \in [live : BOOLEAN, replies : Nat, best : Comments \cup {Nothing}]
    BY DEF FeedTypeOK
<1>7. post.live => ~(made = {} /\ requests.names \cap {"vote", "rsvp"} # {})
    BY DEF PostComes
<1>8. made' = made /\ requests' = requests
    BY <1>3, <1>4 DEF social
<1>9. CASE CommentCommit(w)
  <2>1. /\ x.op = "comment" /\ post.live
        /\ comment' = [comment EXCEPT ![x.on].at = "there", ![x.on].parent = x.of]
        /\ post' = [post EXCEPT !.replies = x.n + 1]
      BY <1>1, <1>9 DEF CommentCommit, At
  <2>2. x.on \in Comments /\ x.of \in Comments \cup {Nothing} /\ x.n + 1 \in Nat
      BY <1>2, <2>1 DEF FeedWork, Carried
  <2>3. comment' \in [Comments -> CommentRow]
      BY <1>6, <2>1, <2>2 DEF CommentRow
  <2>4. post' \in [live : BOOLEAN, replies : Nat, best : Comments \cup {Nothing}]
      BY <1>6, <2>1, <2>2
  <2>5. PostComes'
      BY <1>7, <1>8, <2>1 DEF PostComes
  <2> QED BY <1>5, <2>3, <2>4, <2>5
<1>10. CASE UncommentCommit(w)
  <2>1. /\ x.op = "uncomment" /\ post.live
        /\ comment' = [comment EXCEPT ![x.on] = [at |-> "gone", parent |-> Nothing, best |-> FALSE]]
        /\ post' = [post EXCEPT !.replies = IF x.n = 0 THEN 0 ELSE x.n - 1]
      BY <1>1, <1>10 DEF UncommentCommit, At
  <2>2. x.on \in Comments /\ (IF x.n = 0 THEN 0 ELSE x.n - 1) \in Nat
      BY <1>2, <2>1 DEF FeedWork, Carried
  <2>3. comment' \in [Comments -> CommentRow]
      BY <1>6, <2>1, <2>2 DEF CommentRow
  <2>4. post' \in [live : BOOLEAN, replies : Nat, best : Comments \cup {Nothing}]
      BY <1>6, <2>1, <2>2
  <2>5. PostComes'
      BY <1>7, <1>8, <2>1 DEF PostComes
  <2> QED BY <1>5, <2>3, <2>4, <2>5
<1>11. CASE BestCommit(w)
  <2>1. /\ x.op = "best" /\ post.live
        /\ comment' = [c \in Comments |-> IF c = x.on THEN [comment[c] EXCEPT !.best = TRUE]
                                          ELSE IF c = x.of THEN [comment[c] EXCEPT !.best = FALSE]
                                          ELSE comment[c]]
        /\ post' = [post EXCEPT !.best = x.on]
      BY <1>1, <1>11 DEF BestCommit, At
  <2>2. x.on \in Comments
      BY <1>2, <2>1 DEF Carried
  <2>3. comment' \in [Comments -> CommentRow]
    <3>1. ASSUME NEW row \in CommentRow, NEW b \in BOOLEAN
          PROVE  [row EXCEPT !.best = b] \in CommentRow
        BY DEF CommentRow
    <3>2. \A c \in Comments : comment[c] \in CommentRow
        BY <1>6
    <3>3. \A c \in Comments : comment'[c] \in CommentRow
        BY <2>1, <3>1, <3>2
    <3> QED BY <2>1, <3>3
  <2>4. post' \in [live : BOOLEAN, replies : Nat, best : Comments \cup {Nothing}]
      BY <1>6, <2>1, <2>2
  <2>5. PostComes'
      BY <1>7, <1>8, <2>1 DEF PostComes
  <2> QED BY <1>5, <2>3, <2>4, <2>5
<1>12. CASE DeletePostCommit(w)
  <2>1. post' = [post EXCEPT !.live = FALSE] /\ comment' = comment
      BY <1>12 DEF DeletePostCommit
  <2>2. post' \in [live : BOOLEAN, replies : Nat, best : Comments \cup {Nothing}]
        /\ post'.replies = post.replies /\ ~post'.live
      BY <1>6, <2>1
  <2>3. PostComes'
      BY <1>8, <2>1, <2>2 DEF PostComes, There
  <2> QED BY <1>5, <1>6, <2>1, <2>2, <2>3
<1> QED BY <1>9, <1>10, <1>11, <1>12

\* Reminders that are sent.
LEMMA NoticedGrows ==
    ASSUME FeedTypeOK, NEW q \in People, notices' = Noticed(q)
    PROVE  /\ notices' \in [People -> 0 .. MaxNotices]
           /\ \A u \in People : notices[u] > 0 => notices'[u] > 0
           /\ notices'[q] > 0 /\ notices'[q] <= notices[q] + 1
           /\ \A u \in People \ {q} : notices'[u] = notices[u]
<1>1. MaxNotices \in Nat \ {0}
    BY FeedAssumption DEF FeedAssumption
<1>2. \A u \in People : notices[u] \in 0 .. MaxNotices
    BY DEF FeedTypeOK
<1>3. notices' = [notices EXCEPT ![q] = IF notices[q] < MaxNotices THEN notices[q] + 1 ELSE notices[q]]
    BY DEF Noticed
<1>4. notices \in [People -> 0 .. MaxNotices]
    BY DEF FeedTypeOK
<1> QED BY <1>1, <1>2, <1>3, <1>4

LEMMA NotifyHeld ==
    ASSUME FeedHeld, NEW w \in Workers, DispatchNotify(w)
    PROVE  FeedHeld'
<1> USE DEF FeedHeld
<1>0. FeedTypeOK
    OBVIOUS
<1>1. PICK x : x = work[w]
    OBVIOUS
<1>2. x \in FeedWork /\ Carried(x) /\ x.op = "remind"
    BY <1>1 DEF FeedTypeOK, DispatchNotify, At
<1>3. PICK r \in x.due :
        /\ notices' = Noticed(r[1])
        /\ reminder' = Marked(r, x.mark)
        /\ work' = [work EXCEPT ![w].due = @ \ {r}, ![w].mark = r]
    BY <1>1 DEF DispatchNotify
<1>4. UNCHANGED <<requests, rows, counter, admins, post, comment, made, poll, rsvp, status, late, talk,
                   overlapped, killed>>
    BY DEF DispatchNotify
<1>5. x.due \subseteq Reminders /\ r \in Reminders /\ r[1] \in People /\ r # Nothing
    BY <1>2, FeedAssumption DEF Carried, FeedAssumption
<1>6. /\ notices' \in [People -> 0 .. MaxNotices]
      /\ \A u \in People : notices[u] > 0 => notices'[u] > 0
      /\ notices'[r[1]] > 0
    BY <1>0, <1>3, <1>5, NoticedGrows
<1>7. PICK z : z = [x EXCEPT !.due = @ \ {r}, !.mark = r]
    OBVIOUS
<1>8. z \in FeedWork /\ z.op = "remind" /\ z.due \subseteq Reminders /\ z.mark = r
    BY <1>2, <1>5, <1>7 DEF FeedWork
<1>9. work' = [work EXCEPT ![w] = z]
    BY <1>0, <1>1, <1>3, <1>7 DEF FeedTypeOK
<1>10. Carried(z)'
    BY <1>6, <1>8 DEF Carried
<1>11. work' \in [Workers -> FeedWork] /\ (\A v \in Workers : Carried(work[v]))'
    BY <1>6, <1>8, <1>9, <1>10, KeptIsCarried
<1>12. reminder \in [Reminders -> {"none", "due", "sent"}]
    BY DEF FeedTypeOK
<1>13. reminder' \in [Reminders -> {"none", "due", "sent"}]
    BY <1>3, <1>12 DEF Marked
<1>14. FeedTypeOK'
    BY <1>0, <1>4, <1>6, <1>11, <1>13 DEF FeedTypeOK, talk
<1>15. SentWasNotified'
  <2> SUFFICES ASSUME NEW s \in Reminders, reminder'[s] = "sent"
               PROVE  notices'[s[1]] > 0
      BY DEF SentWasNotified
  <2>1. s[1] \in People
      BY FeedAssumption DEF FeedAssumption
  <2>2. CASE reminder[s] = "sent"
      BY <1>6, <2>1, <2>2 DEF SentWasNotified
  <2>3. CASE reminder[s] # "sent"
    <3>1. x.mark = s
        BY <1>3, <1>12, <2>3 DEF Marked
    <3>2. s # Nothing
        BY FeedAssumption DEF FeedAssumption
    <3> QED BY <1>2, <1>6, <2>1, <3>1, <3>2 DEF Carried
  <2> QED BY <2>2, <2>3
<1> QED BY <1>4, <1>11, <1>14, <1>15 DEF PostComes, There

LEMMA EndHeld ==
    ASSUME FeedHeld, NEW w \in Workers, DispatchEnd(w)
    PROVE  FeedHeld'
<1> USE DEF FeedHeld
<1>0. FeedTypeOK
    OBVIOUS
<1>1. PICK x : x = work[w]
    OBVIOUS
<1>2. x \in FeedWork /\ Carried(x) /\ x.op = "remind"
    BY <1>1 DEF FeedTypeOK, DispatchEnd, At
<1>3. /\ reminder' = [reminder EXCEPT ![x.mark] = "sent"] /\ Keeps(w, Free)
      /\ UNCHANGED <<rows, counter, admins, post, comment, made, poll, rsvp, notices, status, late, talk,
                     killed>>
    BY <1>1 DEF DispatchEnd, Answered
<1>4. work' \in [Workers -> FeedWork] /\ (\A v \in Workers : Carried(work[v]))'
      /\ requests' = requests /\ overlapped' = overlapped
    BY <1>3, DoneIsCarried
<1>5. reminder \in [Reminders -> {"none", "due", "sent"}]
    BY DEF FeedTypeOK
<1>6. reminder' \in [Reminders -> {"none", "due", "sent"}]
    BY <1>3, <1>5
<1>7. FeedTypeOK'
    BY <1>0, <1>3, <1>4, <1>6 DEF FeedTypeOK, talk
<1>8. SentWasNotified'
  <2> SUFFICES ASSUME NEW s \in Reminders, reminder'[s] = "sent"
               PROVE  notices'[s[1]] > 0
      BY DEF SentWasNotified
  <2>1. CASE reminder[s] = "sent"
      BY <1>3, <2>1 DEF SentWasNotified
  <2>2. CASE reminder[s] # "sent"
    <3>1. x.mark = s /\ s # Nothing
        BY <1>3, <1>5, <2>2, FeedAssumption DEF FeedAssumption
    <3> QED BY <1>2, <1>3, <3>1 DEF Carried
  <2> QED BY <2>1, <2>2
<1> QED BY <1>3, <1>4, <1>7, <1>8 DEF PostComes, There

LEMMA RsvpHeld ==
    ASSUME FeedHeld, NEW w \in Workers, RsvpCommit(w)
    PROVE  FeedHeld'
<1> USE DEF FeedHeld
<1>0. FeedTypeOK
    OBVIOUS
<1>1. PICK x : x = work[w]
    OBVIOUS
<1>2. x.to \in {"going", "not_going"}
    BY <1>1 DEF RsvpCommit, At, Carried
<1>3. /\ rsvp' = [rsvp EXCEPT ![x.by] = x.to] /\ Keeps(w, Free)
      /\ \/ reminder' = reminder
         \/ \E r \in Reminders : reminder[r] = "none" /\ reminder' = [reminder EXCEPT ![r] = "due"]
      /\ UNCHANGED <<rows, counter, admins, post, comment, made, poll, notices, status, late, talk, killed>>
    BY <1>1 DEF RsvpCommit, Answered
<1>4. work' \in [Workers -> FeedWork] /\ (\A v \in Workers : Carried(work[v]))'
      /\ requests' = requests /\ overlapped' = overlapped
    BY <1>3, DoneIsCarried
<1>5. reminder \in [Reminders -> {"none", "due", "sent"}] /\ rsvp \in [People -> {"none", "going", "not_going"}]
    BY DEF FeedTypeOK
<1>6. reminder' \in [Reminders -> {"none", "due", "sent"}]
      /\ \A r \in Reminders : reminder'[r] = "sent" => reminder[r] = "sent"
    BY <1>3, <1>5
<1>7. rsvp' \in [People -> {"none", "going", "not_going"}]
    BY <1>2, <1>3, <1>5
<1>8. FeedTypeOK'
    BY <1>0, <1>3, <1>4, <1>6, <1>7 DEF FeedTypeOK, talk
<1> QED BY <1>3, <1>4, <1>6, <1>8 DEF SentWasNotified, PostComes, There

\* The poll, the event and the status.
LEMMA CreateHeld ==
    ASSUME FeedHeld, NEW w \in Workers, CreatePoll(w) \/ CreateEvent(w)
    PROVE  FeedHeld'
<1> USE DEF FeedHeld
<1>1. /\ made' \in SUBSET {"poll", "event"} /\ made' # {}
      /\ post' = FeedPost
      /\ poll' = poll \/ poll' \in [multiple : BOOLEAN, closed : {FALSE}]
      /\ UNCHANGED <<requests, rows, counter, admins, comment, rsvp, reminder, notices, status, late,
                     talk, work, overlapped, killed>>
    BY DEF CreatePoll, CreateEvent
<1>2. post' \in [live : BOOLEAN, replies : Nat, best : Comments \cup {Nothing}]
    BY <1>1 DEF FeedPost
<1>3. poll' \in [multiple : BOOLEAN, closed : BOOLEAN]
    BY <1>1 DEF FeedTypeOK
<1>4. FeedTypeOK'
    BY <1>1, <1>2, <1>3 DEF FeedTypeOK, talk
<1> QED BY <1>1, <1>4 DEF SentWasNotified, PostComes, Carried

LEMMA StateHeld ==
    ASSUME FeedHeld, NEW w \in Workers, CloseCommit(w) \/ ExpireCommit(w)
    PROVE  FeedHeld'
<1> USE DEF FeedHeld, Answered
<1>1. /\ Keeps(w, Free)
      /\ poll' = poll \/ poll' = [poll EXCEPT !.closed = TRUE]
      /\ status' \in {status, "down"}
      /\ UNCHANGED <<rows, counter, admins, post, comment, made, rsvp, reminder, notices, late, talk, killed>>
    BY DEF CloseCommit, ExpireCommit
<1>2. work' \in [Workers -> FeedWork] /\ (\A v \in Workers : Carried(work[v]))'
      /\ requests' = requests /\ overlapped' = overlapped
    BY <1>1, DoneIsCarried
<1>3. poll' \in [multiple : BOOLEAN, closed : BOOLEAN] /\ status' \in {"up", "down"}
    BY <1>1 DEF FeedTypeOK
<1>4. FeedTypeOK'
    BY <1>1, <1>2, <1>3 DEF FeedTypeOK, talk
<1> QED BY <1>1, <1>2, <1>4 DEF SentWasNotified, PostComes, There

\* Announcements.
LEMMA TalkHeld ==
    ASSUME FeedHeld, NEW w \in Workers, AnnounceCommit(w)
    PROVE  FeedHeld'
<1> USE DEF FeedHeld, Answered
<1>0. FeedTypeOK
    OBVIOUS
<1>1. PICK x : x = work[w]
    OBVIOUS
<1>2. x \in FeedWork /\ Carried(x)
    BY <1>1 DEF FeedTypeOK
<1>3. Keeps(w, Free) /\ UNCHANGED <<rows, counter, admins, post, comment, social, muted, killed>>
    BY DEF AnnounceCommit
<1>4. work' \in [Workers -> FeedWork] /\ (\A v \in Workers : Carried(work[v]))'
      /\ requests' = requests /\ overlapped' = overlapped
    BY <1>3, DoneIsCarried DEF social
<1>5. x.op = "announce" /\ heard' = heard \cup {<<x.to, u>> : u \in x.due}
    BY <1>1 DEF AnnounceCommit, At
<1>6. x.to \in {"member_count", "subscriber_count"} /\ x.due \subseteq People
    BY <1>2, <1>5 DEF Carried
<1>7. heard' \in SUBSET ({"member_count", "subscriber_count"} \X People)
    BY <1>0, <1>5, <1>6 DEF FeedTypeOK
<1>8. FeedTypeOK'
    BY <1>0, <1>3, <1>4, <1>7 DEF FeedTypeOK, social
<1> QED BY <1>3, <1>4, <1>8 DEF SentWasNotified, PostComes, There, social

LEMMA PassHeld ==
    ASSUME FeedHeld, Pass
    PROVE  FeedHeld'
<1> USE DEF FeedHeld
<1>1. /\ late' = TRUE
      /\ UNCHANGED <<requests, rows, counter, admins, post, comment, made, poll, rsvp, reminder, notices,
                     status, muted, heard, work, overlapped, killed>>
    BY DEF Pass, talk
<1>2. FeedTypeOK'
    BY <1>1 DEF FeedTypeOK
<1> QED BY <1>1, <1>2 DEF SentWasNotified, PostComes, There, Carried

LEMMA FeedHeldInit == FeedInit => FeedHeld
<1> SUFFICES ASSUME FeedInit PROVE FeedHeld
    OBVIOUS
<1>1. \A s : Founded(s) \subseteq People /\ IsFiniteSet(Founded(s)) /\ Cardinality(Founded(s)) \in Nat
  <2>1. Founder \in People /\ IsFiniteSet({Founder}) /\ Cardinality({Founder}) = 1
        /\ IsFiniteSet({}) /\ Cardinality({}) = 0
      BY FeedAssumption, FS_Singleton, FS_EmptySet DEF FeedAssumption
  <2> QED BY <2>1 DEF Founded
<1>2. work \in [Workers -> FeedWork] /\ \A w \in Workers : Carried(work[w])
    BY FreeIsFeedWork, FreeCarries DEF FeedInit
<1>3. (requests.names \cap {"vote", "rsvp"} = {}) \in BOOLEAN
    OBVIOUS
<1>4. post \in [live : BOOLEAN, replies : Nat, best : Comments \cup {Nothing}]
    BY <1>3 DEF FeedInit
<1>5. notices \in [People -> 0 .. MaxNotices]
    BY FeedAssumption DEF FeedInit, FeedAssumption
<1>6. Founder \in People
    BY FeedAssumption DEF FeedAssumption
<1>7. FeedTypeOK
    BY <1>1, <1>2, <1>4, <1>5, <1>6 DEF FeedInit, FeedTypeOK, CommentRow
<1>8. SentWasNotified /\ PostComes
    BY DEF FeedInit, SentWasNotified, PostComes, There
<1> QED BY <1>2, <1>7, <1>8 DEF FeedHeld

LEMMA FeedHeldNext == FeedHeld /\ [FeedNext]_feedVars => FeedHeld'
<1> SUFFICES ASSUME FeedHeld, [FeedNext]_feedVars PROVE FeedHeld'
    OBVIOUS
<1>1. CASE UNCHANGED feedVars
    BY <1>1 DEF feedVars, feedTables, social, talk, FeedHeld, FeedTypeOK, SentWasNotified, PostComes, There, Carried
<1>2. ASSUME NEW w \in Workers, Read(w) PROVE FeedHeld'
    BY <1>2, ReadNotes, NotedHeld, CreateHeld
<1>3. ASSUME NEW w \in Workers, Undone(w) \/ DispatchKilled(w) PROVE FeedHeld'
  <2>1. killed' \in BOOLEAN /\ Keeps(w, Free) /\ UNCHANGED feedTables
      BY <1>3 DEF Undone, Answered, DispatchKilled, FeedHeld, FeedTypeOK
  <2> QED BY <2>1, LeftHeld
<1>4. ASSUME NEW w \in Workers, Answer(w) PROVE FeedHeld'
  <2>1. RowsRefused(w) \/ PostRefuses(w) \/ RsvpRefused(w) => Undone(w)
      BY DEF RowsRefused, PostRefuses, RsvpRefused
  <2> QED BY <1>3, <1>4, <2>1, RowsHeld, PostHeld, NotifyHeld, EndHeld, RsvpHeld, StateHeld, TalkHeld
          DEF Answer, Dispatch
<1> QED BY <1>1, <1>2, <1>3, <1>4, PassHeld DEF FeedNext

\* The tables and what the workers keep of them stay what they are declared to be.
THEOREM FeedTypeCorrect == FeedSpec => []FeedTypeOK
<1>1. FeedHeld => FeedTypeOK
    BY DEF FeedHeld
<1> QED BY <1>1, FeedHeldInit, FeedHeldNext, PTL DEF FeedSpec

\* A reminder that dispatch_event_reminders has marked as sent was sent, however many
\* dispatchers there are, whatever else they overlap, and wherever they die.
THEOREM MarkedWasSent == FeedSpec => []SentWasNotified
<1>1. FeedHeld => SentWasNotified
    BY DEF FeedHeld
<1> QED BY <1>1, FeedHeldInit, FeedHeldNext, PTL DEF FeedSpec

---------------------------------------------------------------------------
(* Feed: what holds as long as no two requests have overlapped *)

\* The tables agree with each other.
Agreed ==
    /\ OneReminder
    /\ \A s \in Counted : counter[s] = Cardinality(rows[s])
    /\ post.replies = Cardinality({c \in Comments : There(c)})
    /\ muted = rows["muted_conversations"]

AllReminded == ~killed => \A u \in People : notices[u] <= 1 /\ (notices[u] > 0 => Accounted(u))

LEMMA SerialParts == FeedSerial <=>
    (~overlapped => Alone /\ (\A w \in Workers : UpToDate(work[w])) /\ Agreed /\ AllReminded)
BY DEF FeedSerial, CountersCount, Agreed, AllReminded

LEMMA SerialNext ==
    ASSUME ~overlapped' =>
               (Alone /\ (\A w \in Workers : UpToDate(work[w])) /\ Agreed /\ AllReminded)'
    PROVE  FeedSerial'
BY DEF FeedSerial, CountersCount, Agreed, AllReminded

LEMMA FreeIsIdle == Free.op = "idle"
BY DEF Free

\* The request that ends was the only one.
LEMMA LastLeaves ==
    ASSUME Alone, NEW w \in Workers, ~At(w, "idle"), work'[w].op = "idle",
           \A v \in Workers \ {w} : work'[v].op = work[v].op
    PROVE  /\ \A v \in Workers : work'[v].op = "idle"
           /\ Alone' /\ (\A v \in Workers : UpToDate(work[v]))'
<1>1. \A v \in Workers : work'[v].op = "idle"
    BY DEF Alone, At
<1>2. ASSUME NEW v \in Workers PROVE UpToDate(work[v])'
    BY <1>1 DEF UpToDate
<1> QED BY <1>1, <1>2 DEF Alone, At

LEMMA KeepsNothing ==
    ASSUME FeedHeld, Alone, NEW w \in Workers, ~At(w, "idle"), Keeps(w, Free)
    PROVE  /\ \A v \in Workers : work'[v].op = "idle"
           /\ Alone' /\ (\A v \in Workers : UpToDate(work[v]))'
           /\ overlapped' = overlapped
<1>1. work' = [work EXCEPT ![w] = Free] /\ overlapped' = overlapped
    BY DEF Keeps
<1>2. work \in [Workers -> FeedWork]
    BY DEF FeedHeld, FeedTypeOK
<1>3. work'[w].op = "idle" /\ \A v \in Workers \ {w} : work'[v].op = work[v].op
    BY <1>1, <1>2, FreeIsIdle
<1> QED BY <1>1, <1>3, LastLeaves

\* Whoever ends anything but a dispatch leaves nothing to mark.
LEMMA StillReminded ==
    ASSUME Alone, AllReminded, NEW w \in Workers, ~At(w, "idle"), ~At(w, "remind"),
           \A r \in Reminders : reminder[r] = "sent" => reminder'[r] = "sent",
           notices' = notices, killed' = killed
    PROVE  AllReminded'
<1> SUFFICES ASSUME ~killed, NEW u \in People
             PROVE  notices'[u] <= 1 /\ (notices'[u] > 0 => Accounted(u)')
    BY DEF AllReminded
<1>1. \A v \in Workers : ~At(v, "remind")
    BY DEF Alone, At
<1> QED BY <1>1 DEF AllReminded, Accounted

\* A request begins, and is the only one.
LEMMA NotedSerial ==
    ASSUME FeedHeld, FeedSerial, NEW w \in Workers, NEW x, Notes(w, x)
    PROVE  FeedSerial'
<1> SUFFICES ASSUME ~overlapped'
             PROVE  (Alone /\ (\A v \in Workers : UpToDate(work[v])) /\ Agreed /\ AllReminded)'
    BY SerialNext
<1> USE DEF Notes, Takes, feedTables, social, talk
<1>1. ~overlapped /\ (\A v \in Workers : At(v, "idle")) /\ work' = [work EXCEPT ![w] = x]
    OBVIOUS
<1>2. Agreed /\ AllReminded
    BY <1>1, SerialParts
<1>3. work \in [Workers -> FeedWork]
    BY DEF FeedHeld, FeedTypeOK
<1>4. work'[w] = x /\ \A v \in Workers \ {w} : work'[v] = work[v] /\ work[v].op = "idle"
    BY <1>1, <1>3 DEF At
<1>5. Alone'
    BY <1>4 DEF Alone, At
<1>6. ASSUME NEW v \in Workers PROVE UpToDate(work[v])'
  <2>1. CASE v = w
      BY <1>4, <2>1 DEF UpToDate, There, Rows
  <2>2. CASE v # w
      BY <1>4, <2>2 DEF UpToDate
  <2> QED BY <2>1, <2>2
<1>7. Agreed'
    BY <1>2 DEF Agreed, OneReminder, There
<1>8. AllReminded'
    BY <1>1, <1>2 DEF AllReminded, Accounted, At
<1> QED BY <1>5, <1>6, <1>7, <1>8

\* One is refused, or dies.
LEMMA LeftSerial ==
    ASSUME FeedHeld, FeedSerial, NEW w \in Workers, ~At(w, "idle"), Keeps(w, Free), UNCHANGED feedTables,
           ~killed' => killed' = killed /\ ~At(w, "remind")
    PROVE  FeedSerial'
<1> SUFFICES ASSUME ~overlapped'
             PROVE  (Alone /\ (\A v \in Workers : UpToDate(work[v])) /\ Agreed /\ AllReminded)'
    BY SerialNext
<1> USE DEF feedTables, social, talk
<1>1. ~overlapped
    BY DEF Keeps
<1>2. Alone /\ Agreed /\ AllReminded
    BY <1>1, SerialParts
<1>3. Alone' /\ (\A v \in Workers : UpToDate(work[v]))'
    BY <1>2, KeepsNothing
<1>4. Agreed'
    BY <1>2 DEF Agreed, OneReminder, There
<1>5. AllReminded'
  <2>1. CASE killed'
      BY <2>1 DEF AllReminded
  <2>2. CASE ~killed'
      BY <1>2, <2>2, StillReminded
  <2> QED BY <2>1, <2>2
<1> QED BY <1>3, <1>4, <1>5

\* One more row, one less, and what counts them.
LEMMA RowsSerial ==
    ASSUME FeedHeld, FeedSerial, NEW w \in Workers, RowsCommit(w)
    PROVE  FeedSerial'
<1> SUFFICES ASSUME ~overlapped'
             PROVE  (Alone /\ (\A v \in Workers : UpToDate(work[v])) /\ Agreed /\ AllReminded)'
    BY SerialNext
<1>0. FeedTypeOK
    BY DEF FeedHeld
<1>1. PICK x : x = work[w]
    OBVIOUS
<1> DEFINE deleted == x.drop \ x.lost
<1>2. /\ At(w, "rows")
      /\ rows' = [s \in Counted \cup Plain |->
                        IF s \in x.add THEN rows[s] \cup {x.by}
                        ELSE IF s \in deleted THEN rows[s] \ {x.by} ELSE rows[s]]
      /\ counter' = [s \in Counted |-> NewCount(x, s)]
      /\ muted' = IF "muted_conversations" \in x.add THEN muted \cup {x.by}
                    ELSE IF "muted_conversations" \in x.drop THEN muted \ {x.by} ELSE muted
      /\ work' = [v \in Workers |-> IF v = w THEN Free ELSE Losing(v, x)]
      /\ UNCHANGED <<requests, post, comment, social, heard, overlapped, killed>>
    BY <1>1 DEF RowsCommit
<1>3. Alone /\ Agreed /\ AllReminded /\ UpToDate(x)
    BY <1>1, <1>2, SerialParts
<1>4. x \in FeedWork /\ x.op = "rows"
    BY <1>0, <1>1, <1>2 DEF FeedTypeOK, At
<1>5. /\ \A s \in Counted \cap (x.add \cup x.drop) : x.seen[s] = counter[s]
      /\ \A s \in x.add : x.by \notin rows[s]
      /\ \A s \in x.drop : x.by \in rows[s]
      /\ x.lost = {}
    BY <1>3, <1>4 DEF UpToDate
<1>6. Alone' /\ (\A v \in Workers : UpToDate(work[v]))'
  <2>1. \A v \in Workers : work[v] \in FeedWork
      BY <1>0 DEF FeedTypeOK
  <2>2. \A v \in Workers : Losing(v, x).op = work[v].op
    <3> SUFFICES ASSUME NEW v \in Workers PROVE Losing(v, x).op = work[v].op
        OBVIOUS
    <3>1. PICK y : y = work[v]
        OBVIOUS
    <3>2. y \in FeedWork
        BY <2>1, <3>1
    <3>3. PICK S : S = {s \in x.drop : s \in y.drop \/ y.to = "all"}
        OBVIOUS
    <3>4. Losing(v, x) = y \/ Losing(v, x) = [y EXCEPT !.lost = @ \cup S]
        BY <3>1, <3>3 DEF Losing
    <3>5. [y EXCEPT !.lost = @ \cup S].op = y.op
        BY <3>2 DEF FeedWork
    <3> QED BY <3>1, <3>4, <3>5
  <2>3. work'[w].op = "idle" /\ \A v \in Workers \ {w} : work'[v].op = work[v].op
      BY <1>2, <2>2, FreeIsIdle
  <2>4. ~At(w, "idle")
      BY <1>2 DEF At
  <2> QED BY <1>3, <2>3, <2>4, LastLeaves
<1>7. ASSUME NEW s \in Counted
      PROVE  counter'[s] = Cardinality(rows'[s])
  <2> DEFINE R == rows[s]
  <2>1. IsFiniteSet(R) /\ Cardinality(R) \in Nat /\ counter[s] = Cardinality(R)
    <3>1. R \subseteq People
        BY <1>0 DEF FeedTypeOK
    <3>2. IsFiniteSet(People)
        BY FeedAssumption DEF FeedAssumption
    <3> QED BY <1>3, <3>1, <3>2, FS_Subset, FS_CardinalityType DEF Agreed
  <2>2. CASE s \in x.add
    <3>1. counter'[s] = counter[s] + 1 /\ rows'[s] = R \cup {x.by} /\ x.by \notin R
        BY <1>2, <1>5, <2>2 DEF NewCount
    <3> HIDE DEF R
    <3> QED BY <2>1, <3>1, FS_AddElement
  <2>3. CASE s \in x.drop /\ s \notin x.add
    <3>1. counter'[s] = (IF counter[s] = 0 THEN 0 ELSE counter[s] - 1) /\ rows'[s] = R \ {x.by} /\ x.by \in R
        BY <1>2, <1>5, <2>3 DEF NewCount
    <3> HIDE DEF R
    <3>2. Cardinality(R \ {x.by}) = Cardinality(R) - 1
        BY <2>1, <3>1, FS_RemoveElement
    <3>3. Cardinality(R) # 0
        BY <2>1, <3>1, FS_EmptySet
    <3> QED BY <2>1, <3>1, <3>2, <3>3
  <2>4. CASE s \notin x.add \cup x.drop
    <3>1. counter'[s] = counter[s] /\ rows'[s] = R
        BY <1>2, <2>4 DEF NewCount
    <3> QED BY <2>1, <3>1
  <2> QED BY <2>2, <2>3, <2>4
<1>8. muted' = rows'["muted_conversations"]
  <2>1. "muted_conversations" \in Counted \cup Plain
      BY DEF Plain
  <2> QED BY <1>2, <1>3, <1>5, <2>1 DEF Agreed
<1>9. Agreed'
    BY <1>2, <1>3, <1>7, <1>8 DEF Agreed, OneReminder, There, social
<1>10. AllReminded'
    BY <1>2, <1>3, StillReminded DEF At, social
<1> QED BY <1>6, <1>9, <1>10

\* A comment that is written or deleted, and the post's replies.
LEMMA CommentsSerial ==
    ASSUME FeedHeld, FeedSerial, NEW w \in Workers,
           CommentCommit(w) \/ UncommentCommit(w) \/ BestCommit(w) \/ DeletePostCommit(w)
    PROVE  FeedSerial'
<1> SUFFICES ASSUME ~overlapped'
             PROVE  (Alone /\ (\A v \in Workers : UpToDate(work[v])) /\ Agreed /\ AllReminded)'
    BY SerialNext
<1>0. FeedTypeOK
    BY DEF FeedHeld
<1>1. PICK x : x = work[w]
    OBVIOUS
<1>2. /\ Keeps(w, Free) /\ UNCHANGED <<rows, counter, admins, social, talk, killed>>
      /\ ~At(w, "idle") /\ ~At(w, "remind")
    BY DEF CommentCommit, UncommentCommit, BestCommit, DeletePostCommit, Answered, At
<1>3. Alone /\ Agreed /\ AllReminded /\ UpToDate(x)
    BY <1>1, <1>2, SerialParts DEF Keeps
<1>4. Alone' /\ (\A v \in Workers : UpToDate(work[v]))'
    BY <1>2, <1>3, KeepsNothing
<1>5. AllReminded'
    BY <1>2, <1>3, StillReminded DEF social
<1>6. x \in FeedWork /\ Carried(x)
    BY <1>0, <1>1 DEF FeedTypeOK, FeedHeld
<1> DEFINE T == {c \in Comments : There(c)}
<1>7. IsFiniteSet(T) /\ Cardinality(T) \in Nat /\ post.replies = Cardinality(T)
  <2>1. IsFiniteSet(T)
      BY FeedAssumption, FS_Subset DEF FeedAssumption
  <2> QED BY <1>3, <2>1, FS_CardinalityType DEF Agreed
<1>8. comment \in [Comments -> CommentRow]
      /\ post \in [live : BOOLEAN, replies : Nat, best : Comments \cup {Nothing}]
    BY <1>0 DEF FeedTypeOK
<1>9. ASSUME post'.replies = Cardinality({c \in Comments : comment'[c].at = "there"})
      PROVE  Agreed'
    BY <1>2, <1>3, <1>9 DEF Agreed, OneReminder, There, social, talk
<1>10. CASE CommentCommit(w)
  <2>1. /\ x.op = "comment"
        /\ comment' = [comment EXCEPT ![x.on].at = "there", ![x.on].parent = x.of]
        /\ post' = [post EXCEPT !.replies = x.n + 1]
      BY <1>1, <1>10 DEF CommentCommit, At
  <2>2. x.on \in Comments /\ x.on \notin T /\ x.n = post.replies
      BY <1>3, <1>6, <2>1 DEF UpToDate, Carried
  <2>3. {c \in Comments : comment'[c].at = "there"} = T \cup {x.on}
    <3>1. \A c \in Comments \ {x.on} : comment'[c] = comment[c]
        BY <1>8, <2>1
    <3>2. comment'[x.on].at = "there"
        BY <1>8, <2>1, <2>2 DEF CommentRow
    <3> QED BY <2>2, <3>1, <3>2 DEF There
  <2>4. post'.replies = Cardinality(T) + 1
      BY <1>7, <1>8, <2>1, <2>2
  <2> HIDE DEF T
  <2>5. Cardinality(T \cup {x.on}) = Cardinality(T) + 1
      BY <1>7, <2>2, FS_AddElement
  <2>6. post'.replies = Cardinality({c \in Comments : comment'[c].at = "there"})
      BY <2>3, <2>4, <2>5
  <2> QED BY <1>4, <1>5, <1>9, <2>6
<1>11. CASE UncommentCommit(w)
  <2>1. /\ x.op = "uncomment"
        /\ comment' = [comment EXCEPT ![x.on] = [at |-> "gone", parent |-> Nothing, best |-> FALSE]]
        /\ post' = [post EXCEPT !.replies = IF x.n = 0 THEN 0 ELSE x.n - 1]
      BY <1>1, <1>11 DEF UncommentCommit, At
  <2>2. x.on \in Comments /\ x.on \in T /\ x.n = post.replies
      BY <1>3, <1>6, <2>1 DEF UpToDate, Carried
  <2>3. {c \in Comments : comment'[c].at = "there"} = T \ {x.on}
      BY <1>8, <2>1, <2>2 DEF There
  <2>4. post'.replies = IF Cardinality(T) = 0 THEN 0 ELSE Cardinality(T) - 1
      BY <1>7, <1>8, <2>1, <2>2
  <2> HIDE DEF T
  <2>5. Cardinality(T \ {x.on}) = Cardinality(T) - 1
      BY <1>7, <2>2, FS_RemoveElement
  <2>6. Cardinality(T) # 0
      BY <1>7, <2>2, FS_EmptySet
  <2>7. post'.replies = Cardinality(T \ {x.on})
      BY <1>7, <2>4, <2>5, <2>6
  <2>8. post'.replies = Cardinality({c \in Comments : comment'[c].at = "there"})
      BY <2>3, <2>7
  <2> QED BY <1>4, <1>5, <1>9, <2>8
<1>12. CASE BestCommit(w)
  <2>1. /\ comment' = [c \in Comments |-> IF c = x.on THEN [comment[c] EXCEPT !.best = TRUE]
                                          ELSE IF c = x.of THEN [comment[c] EXCEPT !.best = FALSE]
                                          ELSE comment[c]]
        /\ post' = [post EXCEPT !.best = x.on]
      BY <1>1, <1>12 DEF BestCommit
  <2>2. ASSUME NEW row \in CommentRow, NEW b
        PROVE  [row EXCEPT !.best = b].at = row.at
      BY DEF CommentRow
  <2>3. \A c \in Comments : comment'[c].at = comment[c].at
      BY <1>8, <2>1, <2>2
  <2>4. {c \in Comments : comment'[c].at = "there"} = T
      BY <2>3 DEF There
  <2>5. post'.replies = post.replies
      BY <1>8, <2>1
  <2>6. post'.replies = Cardinality({c \in Comments : comment'[c].at = "there"})
      BY <1>7, <2>4, <2>5
  <2> QED BY <1>4, <1>5, <1>9, <2>6
<1>13. CASE DeletePostCommit(w)
  <2>1. post'.replies = post.replies /\ comment' = comment
      BY <1>8, <1>13 DEF DeletePostCommit
  <2>2. {c \in Comments : comment'[c].at = "there"} = T
      BY <2>1 DEF There
  <2>3. post'.replies = Cardinality({c \in Comments : comment'[c].at = "there"})
      BY <1>7, <2>1, <2>2
  <2> QED BY <1>4, <1>5, <1>9, <2>3
<1> QED BY <1>10, <1>11, <1>12, <1>13

\* The poll is closed, the status taken down, an announcement heard: nothing counts them.
LEMMA QuietSerial ==
    ASSUME FeedHeld, FeedSerial, NEW w \in Workers, CloseCommit(w) \/ ExpireCommit(w) \/ AnnounceCommit(w)
    PROVE  FeedSerial'
<1> SUFFICES ASSUME ~overlapped'
             PROVE  (Alone /\ (\A v \in Workers : UpToDate(work[v])) /\ Agreed /\ AllReminded)'
    BY SerialNext
<1>1. /\ Keeps(w, Free) /\ ~At(w, "idle") /\ ~At(w, "remind")
      /\ UNCHANGED <<rows, counter, post, comment, made, reminder, notices, muted, killed>>
    BY DEF CloseCommit, ExpireCommit, AnnounceCommit, Answered, At, social, talk
<1>2. Alone /\ Agreed /\ AllReminded
    BY <1>1, SerialParts DEF Keeps
<1>3. Alone' /\ (\A v \in Workers : UpToDate(work[v]))'
    BY <1>1, <1>2, KeepsNothing
<1>4. Agreed'
    BY <1>1, <1>2 DEF Agreed, OneReminder, There
<1>5. AllReminded'
    BY <1>1, <1>2, StillReminded
<1> QED BY <1>3, <1>4, <1>5

\* The only reminder of a user is the one that this answer to the invitation brings.
LEMMA RsvpSerial ==
    ASSUME FeedHeld, FeedSerial, NEW w \in Workers, RsvpCommit(w)
    PROVE  FeedSerial'
<1> SUFFICES ASSUME ~overlapped'
             PROVE  (Alone /\ (\A v \in Workers : UpToDate(work[v])) /\ Agreed /\ AllReminded)'
    BY SerialNext
<1>0. FeedTypeOK
    BY DEF FeedHeld
<1>1. PICK x : x = work[w]
    OBVIOUS
<1>2. /\ Keeps(w, Free) /\ x.op = "rsvp" /\ ~At(w, "idle") /\ ~At(w, "remind")
      /\ \/ reminder' = reminder
         \/ /\ x.n = 1
            /\ \E r \in Reminders : r[1] = x.by /\ reminder[r] = "none" /\ reminder' = [reminder EXCEPT ![r] = "due"]
      /\ UNCHANGED <<rows, counter, admins, post, comment, made, poll, notices, status, late, talk, killed>>
    BY <1>1 DEF RsvpCommit, Answered, At
<1>3. Alone /\ Agreed /\ AllReminded /\ UpToDate(x)
    BY <1>1, <1>2, SerialParts DEF Keeps
<1>4. Alone' /\ (\A v \in Workers : UpToDate(work[v]))'
    BY <1>2, <1>3, KeepsNothing
<1>5. reminder \in [Reminders -> {"none", "due", "sent"}]
    BY <1>0 DEF FeedTypeOK
<1>6. \A r \in Reminders : reminder[r] = "sent" => reminder'[r] = "sent"
    BY <1>2, <1>5
<1>7. AllReminded'
    BY <1>2, <1>3, <1>6, StillReminded
<1>8. OneReminder'
  <2>1. CASE reminder' = reminder
      BY <1>3, <2>1 DEF Agreed, OneReminder
  <2>2. CASE x.n = 1 /\ reminder' # reminder
    <3>1. PICK r \in Reminders :
              r[1] = x.by /\ reminder' = [reminder EXCEPT ![r] = "due"]
        BY <1>2, <2>2
    <3>2. \A q \in Reminders : q[1] = x.by => reminder[q] = "none"
        BY <1>2, <1>3, <2>2 DEF UpToDate, Rows
    <3> QED BY <1>3, <1>5, <3>1, <3>2 DEF Agreed, OneReminder
  <2> QED BY <1>2, <2>1, <2>2
<1>9. Agreed'
    BY <1>2, <1>3, <1>8 DEF Agreed, There, talk
<1> QED BY <1>4, <1>7, <1>9

\* The dispatcher is the only one at work: a user who has been notified has the one
\* reminder there is of them marked, or next to be marked, so that it is not due.
LEMMA NotifySerial ==
    ASSUME FeedHeld, FeedSerial, NEW w \in Workers, DispatchNotify(w)
    PROVE  FeedSerial'
<1> SUFFICES ASSUME ~overlapped'
             PROVE  (Alone /\ (\A v \in Workers : UpToDate(work[v])) /\ Agreed /\ AllReminded)'
    BY SerialNext
<1>0. FeedTypeOK
    BY DEF FeedHeld
<1>1. PICK x : x = work[w]
    OBVIOUS
<1>2. x \in FeedWork /\ x.op = "remind" /\ Carried(x)
    BY <1>0, <1>1 DEF FeedTypeOK, FeedHeld, DispatchNotify, At
<1>3. PICK r \in x.due :
        /\ notices' = Noticed(r[1])
        /\ reminder' = Marked(r, x.mark)
        /\ work' = [work EXCEPT ![w].due = @ \ {r}, ![w].mark = r]
    BY <1>1 DEF DispatchNotify
<1>4. UNCHANGED <<requests, rows, counter, admins, post, comment, made, poll, rsvp, status, late, talk,
                   overlapped, killed>>
    BY DEF DispatchNotify
<1>5. Alone /\ Agreed /\ AllReminded /\ UpToDate(x)
    BY <1>1, <1>4, SerialParts
<1>6. /\ \A q \in x.due : reminder[q] = "due" /\ q # x.mark
      /\ x.mark # Nothing => x.mark \in Reminders /\ reminder[x.mark] = "due"
    BY <1>2, <1>5 DEF UpToDate, FeedWork
<1>7. x.due \subseteq Reminders /\ r \in Reminders /\ r[1] \in People /\ Nothing \notin Reminders
    BY <1>2, FeedAssumption DEF Carried, FeedAssumption
<1>8. reminder \in [Reminders -> {"none", "due", "sent"}]
    BY <1>0 DEF FeedTypeOK
<1>9. \A q \in Reminders : reminder'[q] = IF q = x.mark THEN "sent" ELSE reminder[q]
    BY <1>3, <1>6, <1>7, <1>8 DEF Marked
<1>10. PICK z : z = [x EXCEPT !.due = @ \ {r}, !.mark = r]
    OBVIOUS
<1>11. z.op = "remind" /\ z.due = x.due \ {r} /\ z.mark = r
    BY <1>2, <1>10 DEF FeedWork
<1>12. work'[w] = z /\ \A v \in Workers \ {w} : work'[v] = work[v]
    BY <1>0, <1>1, <1>3, <1>10 DEF FeedTypeOK
<1>13. \A v \in Workers \ {w} : work[v].op = "idle"
    BY <1>1, <1>2, <1>5 DEF Alone, At
<1>14. Alone'
    BY <1>12, <1>13 DEF Alone, At
<1>15. ASSUME NEW v \in Workers PROVE UpToDate(work[v])'
  <2>1. CASE v = w
    <3>1. (\A q \in z.due : reminder'[q] = "due" /\ q # z.mark) /\ reminder'[z.mark] = "due"
        BY <1>6, <1>7, <1>9, <1>11
    <3> QED BY <1>11, <1>12, <2>1, <3>1 DEF UpToDate
  <2>2. CASE v # w
      BY <1>12, <1>13, <2>2 DEF UpToDate
  <2> QED BY <2>1, <2>2
<1>16. OneReminder'
  <2>1. \A q \in Reminders : reminder'[q] # "none" <=> reminder[q] # "none"
      BY <1>6, <1>7, <1>9
  <2> QED BY <1>5, <2>1 DEF Agreed, OneReminder
<1>17. Agreed'
    BY <1>4, <1>5, <1>16 DEF Agreed, There, talk
<1>18. AllReminded'
  <2> SUFFICES ASSUME ~killed, NEW u \in People
               PROVE  notices'[u] <= 1 /\ (notices'[u] > 0 => Accounted(u)')
      BY <1>4 DEF AllReminded
  <2>1. notices[u] <= 1 /\ (notices[u] > 0 => Accounted(u))
      BY <1>5 DEF AllReminded
  <2>2. Accounted(u) => \E q \in Reminders : q[1] = u /\ (reminder[q] = "sent" \/ q = x.mark)
      BY <1>1, <1>13 DEF Accounted, At
  <2>3. notices[u] \in Nat /\ notices'[r[1]] <= notices[r[1]] + 1
        /\ \A v \in People \ {r[1]} : notices'[v] = notices[v]
      BY <1>0, <1>3, <1>7, NoticedGrows, FeedAssumption DEF FeedTypeOK, FeedAssumption
  <2>4. CASE u = r[1]
    <3>1. notices[u] = 0
      <4> SUFFICES ASSUME notices[u] > 0 PROVE FALSE
          BY <2>3
      <4>1. PICK q \in Reminders : q[1] = u /\ (reminder[q] = "sent" \/ q = x.mark)
          BY <2>1, <2>2
      <4>2. reminder[q] # "none" /\ reminder[r] = "due" /\ r # x.mark
          BY <1>6, <1>7, <4>1
      <4>3. q = r
          BY <1>5, <1>7, <2>4, <4>1, <4>2 DEF Agreed, OneReminder
      <4> QED BY <4>1, <4>2, <4>3
    <3>2. notices' \in [People -> 0 .. MaxNotices]
        BY <1>0, <1>3, <1>7, NoticedGrows
    <3>3. notices'[u] <= 1
        BY <2>3, <2>4, <3>1
    <3>4. Accounted(u)'
        BY <1>7, <1>11, <1>12, <2>4 DEF Accounted, At
    <3> QED BY <3>3, <3>4
  <2>5. CASE u # r[1]
    <3>1. notices'[u] = notices[u]
        BY <2>3, <2>5
    <3>2. Accounted(u) => Accounted(u)'
        BY <1>9, <2>2 DEF Accounted
    <3> QED BY <2>1, <3>1, <3>2
  <2> QED BY <2>4, <2>5
<1> QED BY <1>14, <1>15, <1>17, <1>18

LEMMA EndSerial ==
    ASSUME FeedHeld, FeedSerial, NEW w \in Workers, DispatchEnd(w)
    PROVE  FeedSerial'
<1> SUFFICES ASSUME ~overlapped'
             PROVE  (Alone /\ (\A v \in Workers : UpToDate(work[v])) /\ Agreed /\ AllReminded)'
    BY SerialNext
<1>0. FeedTypeOK
    BY DEF FeedHeld
<1>1. PICK x : x = work[w]
    OBVIOUS
<1>2. /\ reminder' = [reminder EXCEPT ![x.mark] = "sent"] /\ Keeps(w, Free) /\ x.op = "remind"
      /\ UNCHANGED <<rows, counter, admins, post, comment, made, poll, rsvp, notices, status, late, talk,
                     killed>>
      /\ ~At(w, "idle")
    BY <1>1 DEF DispatchEnd, Answered, At
<1>3. Alone /\ Agreed /\ AllReminded /\ UpToDate(x)
    BY <1>1, <1>2, SerialParts DEF Keeps
<1>4. Alone' /\ (\A v \in Workers : UpToDate(work[v]))'
    BY <1>2, <1>3, KeepsNothing
<1>5. x.mark \in Reminders => reminder[x.mark] = "due"
    BY <1>2, <1>3, FeedAssumption DEF UpToDate, FeedAssumption
<1>6. reminder \in [Reminders -> {"none", "due", "sent"}]
    BY <1>0 DEF FeedTypeOK
<1>7. \A q \in Reminders : reminder'[q] = IF q = x.mark THEN "sent" ELSE reminder[q]
    BY <1>2, <1>6
<1>8. OneReminder'
  <2>1. \A q \in Reminders : reminder'[q] # "none" <=> reminder[q] # "none"
      BY <1>5, <1>7
  <2> QED BY <1>3, <2>1 DEF Agreed, OneReminder
<1>9. Agreed'
    BY <1>2, <1>3, <1>8 DEF Agreed, There, talk
<1>10. AllReminded'
  <2>1. \A v \in Workers \ {w} : work[v].op = "idle"
      BY <1>1, <1>2, <1>3 DEF Alone, At
  <2>2. ASSUME NEW u \in People, Accounted(u) PROVE Accounted(u)'
      BY <1>1, <1>7, <2>1, <2>2 DEF Accounted, At
  <2> QED BY <1>2, <1>3, <2>2 DEF AllReminded
<1> QED BY <1>4, <1>9, <1>10

\* A poll or an event comes with its post, which has no comments yet.
LEMMA CreateSerial ==
    ASSUME FeedHeld, FeedSerial, NEW w \in Workers, CreatePoll(w) \/ CreateEvent(w)
    PROVE  FeedSerial'
<1> SUFFICES ASSUME ~overlapped'
             PROVE  (Alone /\ (\A v \in Workers : UpToDate(work[v])) /\ Agreed /\ AllReminded)'
    BY SerialNext
<1>1. /\ post' = FeedPost /\ made = {} /\ requests.names \cap {"vote", "rsvp"} # {}
      /\ UNCHANGED <<requests, rows, counter, admins, comment, rsvp, reminder, notices, status, late,
                     talk, work, overlapped, killed>>
    BY DEF CreatePoll, CreateEvent
<1>2. post'.replies = post.replies
    BY <1>1 DEF FeedHeld, PostComes, FeedPost
<1>3. Alone /\ (\A v \in Workers : UpToDate(work[v])) /\ Agreed /\ AllReminded
    BY <1>1, SerialParts
<1>4. Alone' /\ Agreed' /\ AllReminded'
    BY <1>1, <1>2, <1>3 DEF Alone, At, Agreed, AllReminded, OneReminder, Accounted, There, talk
<1>5. ASSUME NEW v \in Workers PROVE UpToDate(work[v])'
    BY <1>1, <1>2, <1>3 DEF UpToDate, There, Rows, talk
<1> QED BY <1>4, <1>5

\* Time passes.
LEMMA PassSerial ==
    ASSUME FeedHeld, FeedSerial, Pass
    PROVE  FeedSerial'
<1> SUFFICES ASSUME ~overlapped'
             PROVE  (Alone /\ (\A v \in Workers : UpToDate(work[v])) /\ Agreed /\ AllReminded)'
    BY SerialNext
<1>1. UNCHANGED <<requests, rows, counter, admins, post, comment, made, poll, rsvp, reminder, notices,
                  status, muted, heard, work, overlapped, killed>>
    BY DEF Pass, talk
<1>2. Alone /\ (\A v \in Workers : UpToDate(work[v])) /\ Agreed /\ AllReminded
    BY <1>1, SerialParts
<1>3. Alone' /\ Agreed' /\ AllReminded'
    BY <1>1, <1>2 DEF Alone, At, Agreed, AllReminded, OneReminder, Accounted, There
<1>4. ASSUME NEW v \in Workers PROVE UpToDate(work[v])'
    BY <1>1, <1>2 DEF UpToDate, There, Rows
<1> QED BY <1>3, <1>4

LEMMA FeedSerialInit == FeedInit => FeedSerial
<1> SUFFICES ASSUME FeedInit PROVE FeedSerial
    OBVIOUS
<1>1. \A w \in Workers : work[w].op = "idle"
    BY FreeIsIdle DEF FeedInit
<1>2. Alone /\ \A w \in Workers : UpToDate(work[w])
    BY <1>1 DEF Alone, At, UpToDate
<1>3. OneReminder /\ AllReminded
    BY DEF FeedInit, OneReminder, AllReminded
<1>4. \A s \in Counted : counter[s] = Cardinality(rows[s])
    BY DEF FeedInit
<1>5. {c \in Comments : There(c)} = {} /\ post.replies = 0
    BY DEF FeedInit, There
<1>8. muted = rows["muted_conversations"]
  <2>1. Founded("muted_conversations") = {} /\ "muted_conversations" \in Counted \cup Plain
      BY DEF Founded, Plain
  <2> QED BY <2>1 DEF FeedInit
<1>9. Agreed
    BY <1>3, <1>4, <1>5, <1>8, FS_EmptySet DEF Agreed
<1> QED BY <1>2, <1>3, <1>9, SerialParts

LEMMA FeedSerialNext == FeedHeld /\ FeedSerial /\ [FeedNext]_feedVars => FeedSerial'
<1> SUFFICES ASSUME FeedHeld, FeedSerial, [FeedNext]_feedVars PROVE FeedSerial'
    OBVIOUS
<1>1. CASE UNCHANGED feedVars
  <2> USE <1>1 DEF feedVars, feedTables, social, talk
  <2>1. ASSUME ~overlapped' PROVE Alone' /\ Agreed' /\ AllReminded'
      BY <2>1, SerialParts DEF Alone, At, Agreed, AllReminded, OneReminder, Accounted, There
  <2>2. ASSUME ~overlapped', NEW v \in Workers PROVE UpToDate(work[v])'
      BY <2>2, SerialParts DEF UpToDate, There, Rows
  <2> QED BY <2>1, <2>2, SerialNext
<1>2. ASSUME NEW w \in Workers, Read(w) PROVE FeedSerial'
    BY <1>2, ReadNotes, NotedSerial, CreateSerial
<1>3. ASSUME NEW w \in Workers, Undone(w), ~At(w, "idle"), ~At(w, "remind") PROVE FeedSerial'
    BY <1>3, LeftSerial DEF Undone, Answered
<1>4. ASSUME NEW w \in Workers, DispatchKilled(w) PROVE FeedSerial'
  <2>1. ~At(w, "idle") /\ Keeps(w, Free) /\ UNCHANGED feedTables
      BY <1>4 DEF DispatchKilled, At
  <2>2. ~killed' => killed' = killed /\ ~At(w, "remind")
      BY <1>4 DEF DispatchKilled
  <2> QED BY <2>1, <2>2, LeftSerial
<1>5. ASSUME NEW w \in Workers, Answer(w) PROVE FeedSerial'
  <2>1. RowsRefused(w) \/ PostRefuses(w) \/ RsvpRefused(w)
        => Undone(w) /\ ~At(w, "idle") /\ ~At(w, "remind")
      BY DEF RowsRefused, PostRefuses, RsvpRefused, At
  <2> QED BY <1>3, <1>5, <2>1, RowsSerial, CommentsSerial, NotifySerial, EndSerial, RsvpSerial,
             QuietSerial DEF Answer, Dispatch
<1> QED BY <1>1, <1>2, <1>4, <1>5, PassSerial DEF FeedNext

LEMMA FeedInvariant == FeedSpec => [](FeedHeld /\ FeedSerial)
<1>1. FeedInit => FeedHeld /\ FeedSerial
    BY FeedHeldInit, FeedSerialInit
<1>2. FeedHeld /\ FeedSerial /\ [FeedNext]_feedVars => (FeedHeld /\ FeedSerial)'
    BY FeedHeldNext, FeedSerialNext
<1> QED BY <1>1, <1>2, PTL DEF FeedSpec

\* As long as no two requests have overlapped, reaction_count, the votes of each option,
\* member_count, subscriber_count and reply_count are what the tables hold,
\* whatever is toggled, changed, taken back or refused.
THEOREM CountersAreRight == FeedSpec => []CountersCount
<1>1. FeedSerial => CountersCount
    BY DEF FeedSerial
<1> QED BY <1>1, FeedInvariant, PTL

\* dispatch_event_reminders reminds nobody twice, unless requests overlapped or it died.
THEOREM NobodyRemindedTwice == FeedSpec => []RemindedOnce
<1>1. FeedSerial => RemindedOnce
    BY DEF FeedSerial, RemindedOnce
<1> QED BY <1>1, FeedInvariant, PTL
=============================================================================
