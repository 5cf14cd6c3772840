------------------------------- MODULE Groups -------------------------------
(***************************************************************************)
(* One group, its members and the conversation they talk in                  *)
(* (group_service, api/groups, messaging_service.send_message).  A request   *)
(* reads what it decides from, then writes in one transaction; the workers   *)
(* interleave, and only the unique keys of the tables tell them apart.       *)
(***************************************************************************)
EXTENDS Serving, Integers, FiniteSets

CONSTANTS
    Users,
    Creator,
    Roles,          \* bound: of the nine roles, the ones in play
    PrimaryRole,    \* the role of a user's account
    Codes,          \* bound: the codes of invites
    FirstCode,      \* the code that the group is created with
    NoCode          \* no invite code

ASSUME GroupAssumption ==
    /\ Creator \in Users /\ IsFiniteSet(Users)
    /\ "GUEST" \in Roles
    /\ PrimaryRole \in [Users -> STRING]
    /\ NoCode \notin Codes /\ FirstCode \notin Codes \cup {NoCode}

VARIABLES
    approval,   \* groups.require_approval
    member,     \* group_members: whether a user has a row, has left, and as what
    room,       \* conversation_members of the group's conversation
    count,      \* groups.member_count
    banned,     \* group_bans
    ask,        \* group_join_requests
    invite,     \* group_invites
    shown       \* groups.invite_code

vars == <<requests, approval, member, room, count, banned, ask, invite, shown, work, overlapped>>

Places == {"never", "in", "out"}
MemberRow == [at : Places, role : Roles]
AskStates == {"NONE", "PENDING", "APPROVED", "DENIED"}
InviteStates == {"unused", "live", "revoked"}
Held == [op : {"idle", "insert", "letin", "role", "remove", "ban", "ask", "review", "invite",
               "revoke", "post"},
         on : Users, role : Roles, count : Nat, fresh : BOOLEAN, code : Codes \cup {NoCode}]

\* Who asked no longer matters.
Idle == [op |-> "idle", on |-> Creator, role |-> "GUEST",
         count |-> 0, fresh |-> FALSE, code |-> NoCode]
On(w) == work[w].on

\* create_group: whoever creates it is its first member, in the role they asked for, and
\* it shows a code that no invite stands for.
Init ==
    /\ requests \in Mixes
    /\ approval \in BOOLEAN
    /\ \E r \in Roles :
        member = [u \in Users |-> IF u = Creator THEN [at |-> "in", role |-> r]
                                                 ELSE [at |-> "never", role |-> "GUEST"]]
    /\ room = [u \in Users |-> IF u = Creator THEN "in" ELSE "never"]
    /\ count = 1
    /\ banned = {}
    /\ ask = [u \in Users |-> "NONE"]
    /\ invite = [c \in Codes |-> "unused"]
    /\ shown = FirstCode
    /\ work = [w \in Workers |-> Idle]
    /\ overlapped = FALSE

---------------------------------------------------------------------------
(* Who may do what *)

DefaultPermissions ==
    LET leads == {"ADMIN", "MODERATOR", "COOPERATIVE_LEADER"}
    IN  [can_message |-> leads \cup {"EXPERT", "FARMER", "BUYER", "SUPPLIER", "LOGISTICS"},
         can_add_members |-> leads,
         can_edit_group |-> {"ADMIN"},
         can_send_announcements |-> leads,
         can_invite |-> leads \cup {"EXPERT", "FARMER"}]

AdminRoles == {"ADMIN", "MODERATOR", "COOPERATIVE_LEADER"}

In(u) == member[u].at = "in"

\* No override of a role's permissions is ever written.
May(u, permission) == In(u) /\ member[u].role \in DefaultPermissions[permission]

\* send_message: a member of the conversation and of the group, allowed to talk.
MaySpeak(u) == room[u] = "in" /\ May(u, "can_message")

AccountRole(u) == IF PrimaryRole[u] \in Roles THEN PrimaryRole[u] ELSE "GUEST"

---------------------------------------------------------------------------
(* A request reads *)

Start(w, name, x) ==
    /\ name \in requests /\ Takes(w, x)
    /\ UNCHANGED <<approval, member, room, count, banned, ask, invite, shown>>

\* About a user; what changes the number of members has read it.
Reads(op, on, role, fresh) ==
    [op |-> op, on |-> on, role |-> role, fresh |-> fresh, code |-> NoCode,
     count |-> IF op \in {"insert", "letin", "remove", "ban"} THEN count ELSE 0]

\* About an invite code.
ReadsCode(op, c, fresh) ==
    [op |-> op, on |-> Creator, role |-> "GUEST", fresh |-> fresh, code |-> c, count |-> 0]

\* Somebody who is not in is added; the news of it is sent to the conversation.
AddRead(w, by, on, role) ==
    /\ May(by, "can_add_members") /\ on \notin banned
    /\ ~In(on) /\ MaySpeak(by)
    /\ Start(w, "add", Reads("insert", on, role, FALSE))

\* A member who is added once more changes role.
RoleRead(w, by, on, role) ==
    /\ May(by, "can_add_members") /\ May(by, "can_edit_group") /\ on \notin banned
    /\ In(on) /\ member[on].role # role
    /\ Start(w, "add", Reads("role", on, role, FALSE))

Removable(by, on) ==
    /\ May(by, "can_add_members") /\ In(on)
    /\ ~(on = Creator /\ member[on].role = "ADMIN")

RemoveRead(w, by, on) == Removable(by, on) /\ Start(w, "remove", Reads("remove", on, "GUEST", FALSE))

BanRead(w, by, on) ==
    /\ May(by, "can_edit_group") /\ Removable(by, on)
    /\ Start(w, "ban", Reads("ban", on, "GUEST", on \notin banned))

\* join_group of a group that takes everybody.
JoinRead(w, u) ==
    /\ ~approval /\ u \notin banned /\ ~In(u)
    /\ Start(w, "join", Reads("insert", u, AccountRole(u), FALSE))

\* join_group of one that reviews: a request, or the denied one once more.
AskRead(w, u) ==
    /\ approval /\ u \notin banned /\ ~In(u) /\ ask[u] \in {"NONE", "DENIED"}
    /\ Start(w, "join", Reads("ask", u, "GUEST", ask[u] = "NONE"))

\* approve_join_request: an approved user who is neither banned nor in is let in.
ReviewRead(w, by, on, approve) ==
    /\ In(by) /\ member[by].role \in AdminRoles /\ ask[on] = "PENDING"
    /\ LET admits == approve /\ on \notin banned /\ ~In(on)
       IN  Start(w, "review", Reads(IF admits THEN "letin" ELSE "review", on, AccountRole(on), approve))

InviteRead(w, by, c) ==
    /\ May(by, "can_invite") /\ invite[c] = "unused"
    /\ \A v \in Workers : work[v].code # c          \* a random code is nobody else's
    /\ Start(w, "invite", ReadsCode("invite", c, FALSE))

\* Mutant: a revoked code stays the one the group shows.
RevokeRead_Shown(w, by, c) ==
    /\ May(by, "can_invite") /\ invite[c] # "unused"
    /\ Start(w, "revoke", ReadsCode("revoke", c, FALSE))

\* Only an invite's code can be revoked, which the group's first one is not (404).
RevokeRead(w, by, c) ==
    /\ May(by, "can_invite") /\ invite[c] # "unused"
    /\ Start(w, "revoke", ReadsCode("revoke", c, shown = c))

\* announce also speaks in the conversation; an item or a document only asks for the
\* permission to.
PostAllowed(u, kind) ==
    CASE kind = "announcement" -> May(u, "can_send_announcements") /\ MaySpeak(u)
      [] kind = "message" -> MaySpeak(u)
      [] kind = "knowledge" -> May(u, "can_message")

PostRead(w, u, kind) ==
    /\ PostAllowed(u, kind)
    /\ Start(w, "post", Reads("post", Creator, "GUEST", FALSE))

---------------------------------------------------------------------------
(* And writes *)

Done(w) == Keeps(w, Idle) /\ UNCHANGED approval
Took(u) == member[u].at # "never"

\* _attach_to_conversation
Attached(u) == [room EXCEPT ![u] = "in"]

\* Mutant: the row of a former member is used again.
Inserted_Returns(u, role) ==
    member' = [member EXCEPT ![u] = [at |-> "in", role |-> role]]

\* uq_group_member: whoever was a member once has a row, and no second one is inserted.
Inserted(u, role) ==
    /\ ~Took(u)
    /\ member' = [member EXCEPT ![u] = [at |-> "in", role |-> role]]

InsertCommit(w) ==
    /\ At(w, "insert")
    /\ Inserted(On(w), work[w].role)
    /\ room' = Attached(On(w))
    /\ count' = work[w].count + 1
    /\ UNCHANGED <<banned, ask, invite, shown>>
    /\ Done(w)

LetInCommit(w) ==
    /\ At(w, "letin")
    /\ Inserted(On(w), work[w].role)
    /\ room' = Attached(On(w))
    /\ count' = work[w].count + 1
    /\ ask' = [ask EXCEPT ![On(w)] = "APPROVED"]
    /\ UNCHANGED <<banned, invite, shown>>
    /\ Done(w)

\* A unique key refuses the row (uq_group_member, uq_group_ban,
\* uq_group_join_request): the whole request is undone.
KeyRefuses(w) ==
    /\ \/ work[w].op \in {"insert", "letin"} /\ Took(On(w))
       \/ At(w, "ban") /\ work[w].fresh /\ On(w) \in banned
       \/ At(w, "ask") /\ work[w].fresh /\ ask[On(w)] # "NONE"
    /\ UNCHANGED <<member, room, count, banned, ask, invite, shown>>
    /\ Done(w)

RoleCommit(w) ==
    /\ At(w, "role")
    /\ member' = [member EXCEPT ![On(w)].role = work[w].role]
    /\ UNCHANGED <<room, count, banned, ask, invite, shown>>
    /\ Done(w)

\* Mutants: the conversation keeps its member; nobody is counted off.
Left_StillTalks(w) ==
    /\ member' = [member EXCEPT ![On(w)].at = "out"]
    /\ room' = room
    /\ count' = IF work[w].count = 0 THEN 0 ELSE work[w].count - 1

Left_Uncounted(w) ==
    /\ member' = [member EXCEPT ![On(w)].at = "out"]
    /\ room' = [room EXCEPT ![On(w)] = IF @ = "never" THEN @ ELSE "out"]
    /\ count' = work[w].count

\* remove_member leaves the group and its conversation in one transaction.
Left(w) ==
    /\ member' = [member EXCEPT ![On(w)].at = "out"]
    /\ room' = [room EXCEPT ![On(w)] = IF @ = "never" THEN @ ELSE "out"]
    /\ count' = IF work[w].count = 0 THEN 0 ELSE work[w].count - 1

RemoveCommit(w) ==
    /\ At(w, "remove") /\ Left(w)
    /\ UNCHANGED <<banned, ask, invite, shown>>
    /\ Done(w)

BanCommit(w) ==
    /\ At(w, "ban") /\ (work[w].fresh => On(w) \notin banned)
    /\ Left(w)
    /\ banned' = banned \cup {On(w)}
    /\ UNCHANGED <<ask, invite, shown>>
    /\ Done(w)

AskCommit(w) ==
    /\ At(w, "ask") /\ (work[w].fresh => ask[On(w)] = "NONE")
    /\ ask' = [ask EXCEPT ![On(w)] = "PENDING"]
    /\ UNCHANGED <<member, room, count, banned, invite, shown>>
    /\ Done(w)

\* Nobody is let in: the request is declined, or its user is banned or a member already.
ReviewCommit(w) ==
    /\ At(w, "review")
    /\ ask' = [ask EXCEPT ![On(w)] = IF work[w].fresh THEN "APPROVED" ELSE "DENIED"]
    /\ UNCHANGED <<member, room, count, banned, invite, shown>>
    /\ Done(w)

InviteCommit(w) ==
    /\ At(w, "invite")
    /\ invite' = [invite EXCEPT ![work[w].code] = "live"]
    /\ shown' = work[w].code
    /\ UNCHANGED <<member, room, count, banned, ask>>
    /\ Done(w)

RevokeCommit(w) ==
    /\ At(w, "revoke")
    /\ invite' = [invite EXCEPT ![work[w].code] = "revoked"]
    /\ shown' = IF work[w].fresh THEN NoCode ELSE shown
    /\ UNCHANGED <<member, room, count, banned, ask>>
    /\ Done(w)

\* The row that is written is read by nobody here.
PostCommit(w) ==
    /\ At(w, "post")
    /\ UNCHANGED <<member, room, count, banned, ask, invite, shown>>
    /\ Done(w)

---------------------------------------------------------------------------
Begin(w) ==
    \/ \E by, on \in Users :
        \/ \E r \in Roles : AddRead(w, by, on, r) \/ RoleRead(w, by, on, r)
        \/ RemoveRead(w, by, on)
        \/ BanRead(w, by, on)
        \/ \E approve \in BOOLEAN : ReviewRead(w, by, on, approve)
    \/ \E u \in Users : JoinRead(w, u) \/ AskRead(w, u)
    \/ \E u \in Users, c \in Codes : InviteRead(w, u, c) \/ RevokeRead(w, u, c)
    \/ \E u \in Users, k \in {"announcement", "message", "knowledge"} : PostRead(w, u, k)

Commit(w) ==
    \/ InsertCommit(w)
    \/ LetInCommit(w)
    \/ KeyRefuses(w)
    \/ RoleCommit(w)
    \/ RemoveCommit(w)
    \/ BanCommit(w)
    \/ AskCommit(w)
    \/ ReviewCommit(w)
    \/ InviteCommit(w)
    \/ RevokeCommit(w)
    \/ PostCommit(w)

Next == \E w \in Workers : Begin(w) \/ Commit(w)

Spec == Init /\ [][Next]_vars

---------------------------------------------------------------------------
(* Properties *)

\* The shapes of the tables and of what the workers hold (models/group).
TypeOK ==
    /\ requests \in Mixes
    /\ approval \in BOOLEAN
    /\ member \in [Users -> MemberRow]
    /\ room \in [Users -> Places]
    /\ count \in Nat
    /\ banned \subseteq Users
    /\ ask \in [Users -> AskStates]
    /\ invite \in [Codes -> InviteStates]
    /\ shown \in Codes \cup {FirstCode, NoCode}
    /\ work \in [Workers -> Held]
    /\ overlapped \in BOOLEAN

\* Whoever is banned is out, of the group and of its conversation, whatever a request
\* that read before the ban does after it (ban_member against join_group, add_members
\* and approve_join_request).
BannedIsOut == \A u \in banned : ~In(u) /\ room[u] # "in"

\* The conversation's members are the group's, through every interleaving of joining,
\* adding, letting in and removing.
RoomFollowsGroup == \A u \in Users : room[u] = member[u].at

\* Once its code is an invite's, a group shows no revoked one, and never its first one
\* again, however invitations and revocations interleave (create_invite, revoke_invite).
ShownIsLive ==
    /\ shown \in Codes => invite[shown] = "live"
    /\ shown = FirstCode => \A c \in Codes : invite[c] = "unused"

\* The code that a group shows can be revoked: that of a new group cannot, there is no
\* invite for it.
ShownHasInvite == shown # NoCode => shown \in Codes

\* While requests have not overlapped, member_count is the number of members.
CountIsMembers == ~overlapped => count = Cardinality({u \in Users : In(u)})

\* member_count is the number of members whatever overlaps: it is not.
CountNeverDrifts == count = Cardinality({u \in Users : In(u)})

\* A request that is PENDING can still be granted: its user has no row that the key
\* would refuse a second one for, or is a member.
PendingCanBeGranted == \A u \in Users : ask[u] = "PENDING" => member[u].at # "out"
===========================================================================
