-------------------------------- MODULE Feed --------------------------------
(***************************************************************************)
(* What people do with one post, a poll, an event, a status, a community, a   *)
(* channel and a message (post_service, social_service, status_service,      *)
(* community_service, channel_service, messaging_service).  Nearly all of it *)
(* is a row of a user and a counter kept beside the rows: a request reads    *)
(* both, and writes them later, in one transaction.  The workers interleave; *)
(* the keys of the tables and the foreign keys are all that tells them apart. *)
(* Forwarding is not here: every call of forward_messages ends in a NameError *)
(* before it reads anything, for MessageForward is never imported.           *)
(***************************************************************************)
EXTENDS Serving, Integers, FiniteSets

\* A mix has the names of requests and the users who make them.
CONSTANTS
    People,
    Founder,        \* of the community and of the channel
    Comments,       \* bound: comments written to the post
    Options,        \* of the poll
    Reminders,      \* bound: the reminder rows, pairs of a user and a number
    MaxNotices,     \* bound: reminders sent to one user are counted up to it
    MaxCount,       \* bound: a request that reads a counter reads less
    Nothing

Counted == {"reaction_count", "member_count", "subscriber_count"} \cup Options \cup Comments
Plain == {"saved_posts", "status_views", "status_reactions",
          "message_reactions", "saved_messages", "muted_conversations"}

ASSUME FeedAssumption ==
    /\ Founder \in People
    /\ IsFiniteSet(People) /\ IsFiniteSet(Comments)
    /\ MaxNotices \in Nat \ {0} /\ MaxCount \in Nat
    /\ \A r \in Reminders : r[1] \in People
    /\ \A m \in Mixes : m.users \subseteq People
    /\ Nothing \notin Comments \cup Reminders

VARIABLES
    rows,       \* reactions, votes, memberships, followers, views, saved posts: whose
    counter,    \* the column that counts them
    admins,     \* the followers of the channel whose notify_level is "admin"
    post,       \* whether the post is there, its reply_count and its best answer
    comment,    \* the comments, what they answer and which is marked best
    made,       \* whether the poll and the event are there
    poll,       \* multiple_choice and closed
    rsvp,       \* event_participants
    reminder,   \* event_reminders
    notices,    \* EVENT_REMINDER notifications
    status,     \* whether the status has been taken down
    late,       \* reminders are due and the status has expired
    muted,      \* the members of the conversation whose row says so
    heard,      \* of an announcement or of a channel's post: where, and who has been told
    killed      \* a dispatcher died

social == <<made, poll, rsvp, reminder, notices, status, late>>
talk == <<muted, heard>>
feedTables == <<rows, counter, admins, post, comment, social, talk>>
feedVars == <<requests, feedTables, work, overlapped, killed>>

Free == [op |-> "idle", by |-> Nothing, add |-> {}, drop |-> {}, seen |-> [s \in Counted |-> 0],
         on |-> Nothing, of |-> Nothing, n |-> 0, to |-> "none", fresh |-> FALSE,
         due |-> {}, mark |-> Nothing, lost |-> {}]
There(c) == comment[c].at = "there"

\* Whoever creates the community or the channel is in it, and is counted.
Founded(s) == IF s \in {"member_count", "subscriber_count"} THEN {Founder} ELSE {}

\* The post is a user's own; that of a poll or an event comes with it.
FeedInit ==
    /\ requests \in Mixes
    /\ rows = [s \in Counted \cup Plain |-> Founded(s)]
    /\ counter = [s \in Counted |-> Cardinality(Founded(s))]
    /\ admins = {Founder}
    /\ post = [live |-> requests.names \cap {"vote", "rsvp"} = {}, replies |-> 0, best |-> Nothing]
    /\ made = {}
    /\ comment = [c \in Comments |-> [at |-> "unwritten", parent |-> Nothing, best |-> FALSE]]
    /\ poll = [multiple |-> FALSE, closed |-> FALSE]
    /\ rsvp = [u \in People |-> "none"]
    /\ reminder = [r \in Reminders |-> "none"]
    /\ notices = [u \in People |-> 0]
    /\ status = "up"
    /\ late = FALSE
    /\ muted = {}
    /\ heard = {}
    /\ work = [w \in Workers |-> Free]
    /\ overlapped = FALSE
    /\ killed = FALSE

Asks(w, name, x) ==
    /\ name \in requests.names /\ Takes(w, x)
    /\ UNCHANGED <<feedTables, killed>>

Answered(w) == Keeps(w, Free) /\ UNCHANGED killed
Undone(w) == Answered(w) /\ UNCHANGED feedTables

---------------------------------------------------------------------------
(* Rows and their counters *)

\* A user's rows are to be added to some tables and taken from others.
Turn(w, name, u, add, drop) ==
    /\ \A s \in Counted \cap add : counter[s] < MaxCount
    /\ Asks(w, name, [Free EXCEPT !.op = "rows", !.by = u, !.add = add, !.drop = drop,
        !.seen = [s \in Counted |-> IF s \in add \cup drop THEN counter[s] ELSE 0]])

With(u, S) == {s \in S : u \in rows[s]}
Without(u, S) == {s \in S : u \notin rows[s]}

\* The same reaction once more takes it back; another one changes the row in place.
ReactRead(w, u) ==
    /\ post.live
    /\ Turn(w, "react", u, Without(u, {"reaction_count"}), With(u, {"reaction_count"}))

ReactCommentRead(w, u, c) ==
    /\ There(c)
    /\ Turn(w, "like", u, Without(u, {c}), With(u, {c}))

SaveRead(w, u) ==
    /\ post.live
    /\ Turn(w, "save", u, Without(u, {"saved_posts"}), With(u, {"saved_posts"}))

\* A vote replaces the user's earlier one.
Dropped(u, S) == With(u, Options \ S)

VoteRead(w, u, S) ==
    /\ "poll" \in made /\ ~poll.closed
    /\ S # {} /\ (poll.multiple \/ Cardinality(S) = 1)
    /\ Turn(w, "vote", u, Without(u, S), Dropped(u, S))

JoinCommunityRead(w, u) ==
    /\ u \notin rows["member_count"]
    /\ Turn(w, "join", u, {"member_count"}, {})

FollowRead(w, u) ==
    /\ u \notin rows["subscriber_count"]
    /\ Turn(w, "follow", u, {"subscriber_count"}, {})

\* follow sets the level of a follower to "all", whatever it was.
FollowAgainRead(w, u) ==
    /\ u \in rows["subscriber_count"]
    /\ Asks(w, "follow", [Free EXCEPT !.op = "rows", !.by = u,
                             !.to = IF u \in admins THEN "all" ELSE "none"])

UnfollowRead(w, u) ==
    /\ u \in rows["subscriber_count"]
    /\ Turn(w, "follow", u, {}, {"subscriber_count"})

ViewRead(w, u) ==
    /\ u \notin rows["status_views"]
    /\ Turn(w, "status", u, {"status_views"}, {})

\* A reaction to a status, or with no emoji the end of it.
ReactStatusRead(w, u) ==
    Turn(w, "status", u, Without(u, {"status_reactions"}), With(u, {"status_reactions"}))

\* No emoji takes the reaction back; another one changes the row in place.
ReactMessageRead(w, u) ==
    Turn(w, "message", u, Without(u, {"message_reactions"}), With(u, {"message_reactions"}))

SaveMessageRead(w, u) ==
    /\ u \notin rows["saved_messages"]
    /\ Turn(w, "message", u, {"saved_messages"}, {})

\* delete_for_me hides nothing: it deletes what the user has saved of the message.
DeleteForMeRead(w, u) ==
    /\ u \in rows["saved_messages"]
    /\ Turn(w, "message", u, {}, {"saved_messages"})

MuteRead(w, u) ==
    Turn(w, "message", u, Without(u, {"muted_conversations"}), With(u, {"muted_conversations"}))

\* What a row hangs on is still there (foreign keys, and the counter's own row).
Stands(s) ==
    /\ s \in {"reaction_count", "saved_posts"} => post.live
    /\ s \in Comments => There(s)

\* No second row of the same user.
KeyFree(x) == \A s \in x.add : x.by \notin rows[s]

Accepted(x) ==
    /\ KeyFree(x)
    /\ x.to = "all" => x.by \in rows["subscriber_count"] /\ "subscriber_count" \notin x.lost
    /\ \A s \in x.add \cup x.drop : Stands(s)

\* Mutant: what is taken back is not counted off.
NewCount_Up(x, s) == IF s \in x.add THEN x.seen[s] + 1 ELSE counter[s]

\* The counter is what was read, one more or one less, and never below zero.
NewCount(x, s) ==
    CASE s \in x.add -> x.seen[s] + 1
      [] s \in x.drop -> IF x.seen[s] = 0 THEN 0 ELSE x.seen[s] - 1
      [] OTHER -> counter[s]

\* A row is deleted by its id: what replaces it is another row, which those who have
\* read this one do not touch.
Losing(v, x) ==
    IF work[v].by # x.by THEN work[v]
    ELSE [work[v] EXCEPT !.lost = @ \cup {s \in x.drop : s \in work[v].drop \/ work[v].to = "all"}]

RowsCommit(w) ==
    LET x == work[w]
        deleted == x.drop \ x.lost
    IN  /\ At(w, "rows") /\ Accepted(x)
        /\ rows' = [s \in Counted \cup Plain |->
                        IF s \in x.add THEN rows[s] \cup {x.by}
                        ELSE IF s \in deleted THEN rows[s] \ {x.by} ELSE rows[s]]
        /\ counter' = [s \in Counted |-> NewCount(x, s)]
        /\ admins' = IF x.to = "all" \/ "subscriber_count" \in deleted THEN admins \ {x.by} ELSE admins
        /\ muted' = IF "muted_conversations" \in x.add THEN muted \cup {x.by}
                    ELSE IF "muted_conversations" \in x.drop THEN muted \ {x.by} ELSE muted
        /\ work' = [v \in Workers |-> IF v = w THEN Free ELSE Losing(v, x)]
        /\ UNCHANGED <<requests, post, comment, social, heard, overlapped, killed>>

\* react_status answers all the same, every other request fails.
RowsRefused(w) == At(w, "rows") /\ ~Accepted(work[w]) /\ Undone(w)

---------------------------------------------------------------------------
(* The post and its comments *)

CommentRead(w, c, parent) ==
    /\ post.live /\ comment[c].at = "unwritten"
    /\ \A v \in Workers : work[v].on # c
    /\ parent # Nothing => There(parent)
    /\ Asks(w, "comment", [Free EXCEPT !.op = "comment", !.on = c, !.of = parent, !.n = post.replies])

CommentCommit(w) ==
    LET x == work[w]
    IN  /\ At(w, "comment") /\ post.live /\ (x.of # Nothing => There(x.of))
        /\ comment' = [comment EXCEPT ![x.on].at = "there", ![x.on].parent = x.of]
        /\ post' = [post EXCEPT !.replies = x.n + 1]
        /\ UNCHANGED <<rows, counter, admins, social, talk>>
        /\ Answered(w)

UncommentRead(w, c) ==
    /\ There(c)
    /\ Asks(w, "uncomment", [Free EXCEPT !.op = "uncomment", !.on = c, !.n = post.replies])

\* Reactions and replies refuse the deletion of what they hang on; a row that somebody
\* else has deleted is no error, and is counted off once more.
Unreferenced(c) == rows[c] = {} /\ \A d \in Comments : There(d) => comment[d].parent # c

UncommentCommit(w) ==
    LET x == work[w]
    IN  /\ At(w, "uncomment") /\ post.live /\ Unreferenced(x.on)
        /\ comment' = [comment EXCEPT ![x.on] = [at |-> "gone", parent |-> Nothing, best |-> FALSE]]
        /\ post' = [post EXCEPT !.replies = IF x.n = 0 THEN 0 ELSE x.n - 1]
        /\ UNCHANGED <<rows, counter, admins, social, talk>>
        /\ Answered(w)

Best == {c \in Comments : There(c) /\ comment[c].best}

OldBest == IF Best = {} THEN {Nothing} ELSE Best

\* mark_best_answer finds the comment that is marked now, if there is one.
BestRead(w, c, old) ==
    /\ post.live /\ There(c)
    /\ old \in OldBest
    /\ Asks(w, "best", [Free EXCEPT !.op = "best", !.on = c, !.of = old])

BestCommit(w) ==
    LET x == work[w]
    IN  /\ At(w, "best") /\ post.live /\ There(x.on) /\ (x.of # Nothing => There(x.of))
        /\ comment' = [c \in Comments |-> IF c = x.on THEN [comment[c] EXCEPT !.best = TRUE]
                                          ELSE IF c = x.of THEN [comment[c] EXCEPT !.best = FALSE]
                                          ELSE comment[c]]
        /\ post' = [post EXCEPT !.best = x.on]
        /\ UNCHANGED <<rows, counter, admins, social, talk>>
        /\ Answered(w)

DeletePostRead(w) == post.live /\ Asks(w, "unpost", [Free EXCEPT !.op = "unpost"])

DeletePostCommit(w) ==
    /\ At(w, "unpost")
    /\ rows["reaction_count"] = {} /\ rows["saved_posts"] = {} /\ \A c \in Comments : ~There(c)
    /\ post' = [post EXCEPT !.live = FALSE]
    /\ UNCHANGED <<rows, counter, admins, comment, social, talk>>
    /\ Answered(w)

\* A foreign key or a row that is gone makes the request fail.
PostRefuses(w) ==
    LET x == work[w]
    IN  /\ \/ At(w, "comment") /\ ~(post.live /\ (x.of # Nothing => There(x.of)))
           \/ At(w, "uncomment") /\ ~(post.live /\ Unreferenced(x.on))
           \/ At(w, "best") /\ ~(post.live /\ There(x.on) /\ (x.of # Nothing => There(x.of)))
           \/ /\ At(w, "unpost")
              /\ \/ rows["reaction_count"] # {} \/ rows["saved_posts"] # {}
                 \/ \E c \in Comments : There(c)
        /\ Undone(w)

---------------------------------------------------------------------------
(* Poll, event, status *)

FeedPost == [live |-> TRUE, replies |-> 0, best |-> Nothing]

\* A poll, or an event, with the post that shows it in the feed: the one post there is here.
CreatePoll(w) ==
    /\ "vote" \in requests.names /\ made = {} /\ At(w, "idle")
    /\ made' = {"poll"}
    /\ poll' \in [multiple : BOOLEAN, closed : {FALSE}]
    /\ post' = FeedPost
    /\ UNCHANGED <<requests, rows, counter, admins, comment, rsvp, reminder, notices, status, late,
                   talk, work, overlapped, killed>>

CreateEvent(w) ==
    /\ "rsvp" \in requests.names /\ made = {} /\ At(w, "idle")
    /\ made' = {"event"}
    /\ post' = FeedPost
    /\ UNCHANGED <<requests, rows, counter, admins, comment, poll, rsvp, reminder, notices, status, late,
                   talk, work, overlapped, killed>>

CloseRead(w) == "poll" \in made /\ ~poll.closed /\ Asks(w, "close", [Free EXCEPT !.op = "close"])

CloseCommit(w) ==
    /\ At(w, "close")
    /\ poll' = [poll EXCEPT !.closed = TRUE]
    /\ UNCHANGED <<rows, counter, admins, post, comment, made, rsvp, reminder, notices, status, late, talk>>
    /\ Answered(w)

\* Mutant: the reminders there are already are not looked for.
Rows_None(u) == {}

Rows(u) == {r \in Reminders : r[1] = u /\ reminder[r] # "none"}

\* Whoever is going gets a reminder, unless there is one or it is too late for it.
RsvpRead(w, u, response) ==
    /\ "event" \in made
    /\ Asks(w, "rsvp", [Free EXCEPT !.op = "rsvp", !.by = u, !.to = response,
                           !.fresh = rsvp[u] = "none",
                           !.n = IF response = "going" /\ ~late /\ Rows(u) = {} THEN 1 ELSE 0])

RsvpCommit(w) ==
    LET x == work[w]
        free == {r \in Reminders : r[1] = x.by /\ reminder[r] = "none"}
    IN  /\ At(w, "rsvp") /\ (x.fresh => rsvp[x.by] = "none")
        /\ rsvp' = [rsvp EXCEPT ![x.by] = x.to]
        /\ IF x.n = 1 /\ free # {}
           THEN \E r \in free : reminder' = [reminder EXCEPT ![r] = "due"]
           ELSE reminder' = reminder
        /\ UNCHANGED <<rows, counter, admins, post, comment, made, poll, notices, status, late, talk>>
        /\ Answered(w)

\* uq_event_participant
RsvpRefused(w) == At(w, "rsvp") /\ work[w].fresh /\ rsvp[work[w].by] # "none" /\ Undone(w)

\* dispatch_event_reminders, by the administrators' endpoint; the task has no schedule.
DispatchRead(w) ==
    LET due == {r \in Reminders : reminder[r] = "due"}
    IN  /\ late /\ due # {}
        /\ Asks(w, "remind", [Free EXCEPT !.op = "remind", !.due = due])

\* Mutant: the first notification takes all the marks with it.
Marked_Early(r, mark) == [s \in Reminders |-> IF reminder[s] = "due" THEN "sent" ELSE reminder[s]]

\* What the commit of the notification of r writes besides it: the mark of the one before.
Marked(r, mark) == IF mark = Nothing THEN reminder ELSE [reminder EXCEPT ![mark] = "sent"]

Noticed(u) == [notices EXCEPT ![u] = IF @ < MaxNotices THEN @ + 1 ELSE @]

\* notify commits: the notification, and the mark of the reminder before it.
DispatchNotify(w) ==
    /\ At(w, "remind")
    /\ \E r \in work[w].due :
        /\ notices' = Noticed(r[1])
        /\ reminder' = Marked(r, work[w].mark)
        /\ work' = [work EXCEPT ![w].due = @ \ {r}, ![w].mark = r]
    /\ UNCHANGED <<requests, rows, counter, admins, post, comment, made, poll, rsvp, status, late, talk,
                   overlapped, killed>>

\* Mutant: what follows the last notification is not committed.
DispatchEnd_Uncommitted(w) == At(w, "remind") /\ work[w].due = {} /\ Undone(w)

DispatchEnd(w) ==
    /\ At(w, "remind") /\ work[w].due = {}
    /\ reminder' = [reminder EXCEPT ![work[w].mark] = "sent"]
    /\ UNCHANGED <<rows, counter, admins, post, comment, made, poll, rsvp, notices, status, late, talk>>
    /\ Answered(w)

\* The dispatcher's process dies, with the mark that was not committed.
DispatchKilled(w) ==
    /\ At(w, "remind") /\ ~killed
    /\ Keeps(w, Free)
    /\ killed' = TRUE
    /\ UNCHANGED feedTables

ExpireRead(w) == late /\ status = "up" /\ Asks(w, "status", [Free EXCEPT !.op = "expire"])

ExpireCommit(w) ==
    /\ At(w, "expire")
    /\ status' = "down"
    /\ UNCHANGED <<rows, counter, admins, post, comment, made, poll, rsvp, reminder, notices, late, talk>>
    /\ Answered(w)

---------------------------------------------------------------------------
(* Announcements *)

\* Only an administrator announces: a community's for good, a channel's by its row.
MayTell(u, s) == IF s = "member_count" THEN u = Founder ELSE u \in admins

AnnounceRead(w, u, s) ==
    /\ MayTell(u, s)
    /\ Asks(w, "announce", [Free EXCEPT !.op = "announce", !.by = u, !.to = s, !.due = rows[s] \ {u}])

AnnounceCommit(w) ==
    /\ At(w, "announce")
    /\ heard' = heard \cup {<<work[w].to, u>> : u \in work[w].due}
    /\ UNCHANGED <<rows, counter, admins, post, comment, social, muted>>
    /\ Answered(w)

Pass ==
    /\ ~late /\ requests.names \cap {"remind", "status"} # {}
    /\ late' = TRUE
    /\ UNCHANGED <<requests, rows, counter, admins, post, comment, made, poll, rsvp, reminder, notices,
                   status, talk, work, overlapped, killed>>

---------------------------------------------------------------------------
Read(w) ==
    \/ \E u \in requests.users :
        \/ ReactRead(w, u)
        \/ SaveRead(w, u)
        \/ JoinCommunityRead(w, u)
        \/ FollowRead(w, u)
        \/ FollowAgainRead(w, u)
        \/ UnfollowRead(w, u)
        \/ ViewRead(w, u)
        \/ ReactStatusRead(w, u)
        \/ ReactMessageRead(w, u)
        \/ SaveMessageRead(w, u)
        \/ DeleteForMeRead(w, u)
        \/ MuteRead(w, u)
        \/ \E s \in {"member_count", "subscriber_count"} : AnnounceRead(w, u, s)
        \/ \E c \in Comments : ReactCommentRead(w, u, c)
        \/ \E S \in SUBSET Options : VoteRead(w, u, S)
        \/ \E response \in {"going", "not_going"} : RsvpRead(w, u, response)
    \/ \E c \in Comments :
        \/ UncommentRead(w, c)
        \/ \E p \in Comments \cup {Nothing} : CommentRead(w, c, p) \/ BestRead(w, c, p)
    \/ DeletePostRead(w)
    \/ CreatePoll(w)
    \/ CreateEvent(w)
    \/ CloseRead(w)
    \/ DispatchRead(w)
    \/ ExpireRead(w)

Dispatch(w) == DispatchNotify(w) \/ DispatchEnd(w)

Answer(w) ==
    \/ RowsCommit(w)
    \/ RowsRefused(w)
    \/ CommentCommit(w)
    \/ UncommentCommit(w)
    \/ BestCommit(w)
    \/ DeletePostCommit(w)
    \/ PostRefuses(w)
    \/ CloseCommit(w)
    \/ RsvpCommit(w)
    \/ RsvpRefused(w)
    \/ Dispatch(w)
    \/ ExpireCommit(w)
    \/ AnnounceCommit(w)

FeedNext == Pass \/ \E w \in Workers : Read(w) \/ Answer(w) \/ DispatchKilled(w)

FeedSpec == FeedInit /\ [][FeedNext]_feedVars

\* Time passes, and what has begun is carried on; no administrator has to dispatch anything.
FairSpec ==
    /\ FeedSpec
    /\ WF_feedVars(Pass)
    /\ \A w \in Workers : WF_feedVars(Answer(w))

---------------------------------------------------------------------------
(* Properties *)

\* What a worker keeps of what it has read.
FeedWork == [
    op : {"idle", "rows", "comment", "uncomment", "best", "unpost", "close", "rsvp", "remind",
          "expire", "announce"},
    by : People \cup {Nothing},
    add : SUBSET (Counted \cup Plain), drop : SUBSET (Counted \cup Plain), seen : [Counted -> Nat],
    on : Comments \cup {Nothing}, of : Comments \cup {Nothing},
    n : Nat,
    to : {"none", "all", "going", "not_going", "member_count", "subscriber_count"},
    fresh : BOOLEAN,
    due : SUBSET (Reminders \cup People), mark : Reminders \cup {Nothing},
    lost : SUBSET (Counted \cup Plain)]

CommentRow == [at : {"unwritten", "there", "gone"}, parent : Comments \cup {Nothing}, best : BOOLEAN]

\* The tables hold what their columns admit.
FeedTypeOK ==
    /\ requests \in Mixes
    /\ rows \in [Counted \cup Plain -> SUBSET People]
    /\ counter \in [Counted -> Nat]
    /\ admins \in SUBSET People
    /\ post \in [live : BOOLEAN, replies : Nat, best : Comments \cup {Nothing}]
    /\ comment \in [Comments -> CommentRow]
    /\ made \in SUBSET {"poll", "event"}
    /\ poll \in [multiple : BOOLEAN, closed : BOOLEAN]
    /\ rsvp \in [People -> {"none", "going", "not_going"}]
    /\ reminder \in [Reminders -> {"none", "due", "sent"}]
    /\ notices \in [People -> 0 .. MaxNotices]
    /\ status \in {"up", "down"}
    /\ late \in BOOLEAN
    /\ muted \in SUBSET People
    /\ heard \in SUBSET ({"member_count", "subscriber_count"} \X People)
    /\ work \in [Workers -> FeedWork]
    /\ overlapped \in BOOLEAN
    /\ killed \in BOOLEAN

\* As long as no two requests have overlapped, every counter is the number of rows it
\* stands for, through toggles, changed votes and refused requests, and whoever has
\* muted the conversation is marked so among its members.
CountersCount == ~overlapped =>
    /\ \A s \in Counted : counter[s] = Cardinality(rows[s])
    /\ post.replies = Cardinality({c \in Comments : There(c)})
    /\ muted = rows["muted_conversations"]

\* A poll with a single choice has at most one vote of each user (vote: "This poll
\* allows a single choice only"), as long as no two requests have overlapped.
OneChoice == ~overlapped /\ ~poll.multiple => \A u \in People : Cardinality(With(u, Options)) <= 1

\* As long as no two requests have overlapped, one comment at most is the best answer,
\* and it is the one the post names.
BestIsOne == ~overlapped =>
    /\ Cardinality(Best) <= 1
    /\ \A c \in Best : post.best = c

\* A reminder that is marked as sent was sent, whether dispatchers overlap or die.
SentWasNotified == \A r \in Reminders : reminder[r] = "sent" => notices[r[1]] > 0

\* Nobody is reminded twice, unless requests overlapped or a dispatcher died.
RemindedOnce == ~overlapped /\ ~killed => \A u \in People : notices[u] <= 1

\* Every reminder that a dispatcher has found is eventually marked as sent, the last one
\* too, unless a dispatcher dies, and whatever another dispatcher does meanwhile.
Found(r) == \E w \in Workers : At(w, "remind") /\ r \in work[w].due
FoundIsMarked == \A r \in Reminders : Found(r) ~> reminder[r] = "sent" \/ killed

\* A reminder that is due is eventually sent: not unless an administrator asks for it, as
\* the task is on no schedule.
DueIsSent == \A r \in Reminders : reminder[r] = "due" ~> reminder[r] = "sent"

\* A poll with a single choice has at most one vote of each user, whatever overlaps: it
\* has two when one user votes twice at once.
OneChoiceAlways == ~poll.multiple => \A u \in People : Cardinality(With(u, Options)) <= 1

\* The best answer that a post names is there: it is not when the comment was deleted.
BestIsThere == post.best # Nothing => There(post.best)

\* Somebody can post to the channel: nobody can once its founder has followed it.
ChannelHasAdmin == admins # {}

\* Whoever is reminded is still going: whoever has changed their mind is reminded too.
RemindedAreGoing == [][\A u \in People : notices'[u] > notices[u] => rsvp[u] = "going"]_feedVars

\* Whoever is told of a channel's post or an announcement is in the channel or the
\* community: not if they have left it after the request has read who is.
ToldBelong == [][\A h \in heard' \ heard : h[2] \in rows[h[1]]]_feedVars
===========================================================================
