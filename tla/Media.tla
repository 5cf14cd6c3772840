-------------------------------- MODULE Media --------------------------------
(***************************************************************************)
(* Uploads (media_service, storage_service) and what takes them: posts,      *)
(* listings, statuses and voice reports.  A file lies in the storage, which  *)
(* knows no transactions; its row in media_assets says what it is attached   *)
(* to, and a sweep reclaims what nothing took.  A file and its thumbnail are *)
(* one; all the files are of one user, who names only what was uploaded.     *)
(***************************************************************************)
EXTENDS Serving, Integers, FiniteSets, SequencesExt

\* A mix has the names of requests and the things that they are about.
CONSTANTS
    Assets,
    Nothing

Things == {"post", "listing", "status", "report"}

\* A user may attach a file to any id, and nobody looks whether anything has it: "elsewhere"
\* is whatever is none of the things, be it a profile or nothing at all.
Contexts == Things \cup {"elsewhere"}

\* Creating these finds the rows of deleted files too, which cannot be attached.
FindsDeleted == {"post", "status"}

\* What follows a rolled back attachment fails here, and undoes everything.
NeedsItsRow == {"listing", "status"}

ASSUME MediaAssumption == Nothing \notin Contexts

VARIABLES
    blob,       \* the files of the storage
    row,        \* media_assets
    thing,      \* the posts, listings...: stored or not, and the keys they name
    killed,     \* a worker died
    stale       \* an offer has lapsed that nobody has answered

mediaVars == <<requests, blob, row, thing, work, overlapped, killed, stale>>

Holding(op, keys, of, found, bad) == [op |-> op, keys |-> keys, of |-> of, found |-> found, bad |-> bad]
\* A sweep holds the rows it deletes, and of their files those that are still there.
Sweeps(due, left) == [op |-> "clean", keys |-> <<>>, of |-> Nothing, found |-> left, bad |-> due]
Free == Holding("idle", <<>>, Nothing, {}, {})

Row(at, ctx, ttl, del) == [at |-> at, ctx |-> ctx, ttl |-> ttl, del |-> del]
Names(at, keys) == [at |-> at, keys |-> keys]
There(a) == row[a].at = "there"
Live(r) == r.at = "there" /\ r.del = "no"
Detached(r) == Live(r) /\ r.ctx = Nothing

\* The lists of keys of a request.
Lists == {s \in SeqOf(Assets, Cardinality(Assets)) : IsInjective(s)}

MediaInit ==
    /\ requests \in Mixes
    /\ blob = {}
    /\ row = [a \in Assets |-> Row("none", Nothing, "none", "no")]
    /\ thing = [t \in Things |-> Names("none", {})]
    /\ work = [w \in Workers |-> Free]
    /\ overlapped = FALSE
    /\ killed = FALSE
    /\ stale = FALSE

Asks(w, name, x) ==
    /\ name \in requests.names /\ Takes(w, x)
    /\ UNCHANGED <<row, thing, killed, stale>>

Answered(w) == Keeps(w, Free) /\ UNCHANGED <<killed, stale>>
Void(w) == Answered(w) /\ UNCHANGED <<blob, row, thing>>

---------------------------------------------------------------------------
(* Uploading *)

\* A fresh random key, and the file under it.
Stored(a) == row[a].at = "none" /\ a \notin blob /\ blob' = blob \cup {a}

\* The ids that a user can give: a thing's is made by the server and known from then on.
Given(ctx) ==
    /\ ctx \in requests.things
    /\ ctx \in Things => thing[ctx].at \in {"there", "edited"}

\* media/upload, with something to attach the file to at once.
UploadPut(w, a, ctx) ==
    /\ Given(ctx)
    /\ Stored(a)
    /\ Asks(w, "upload", Holding("upload", <<a>>, ctx, {}, {}))

\* uploads/<category>, or media/upload without it.
FilePut(w, a) ==
    /\ Stored(a)
    /\ Asks(w, "upload", Holding("upload", <<a>>, Nothing, {}, {}))

\* record_upload
Recorded(a, ctx) == [row EXCEPT ![a] = Row("there", ctx, "none", "no")]

\* Mutant: only the files that came before are given an expiry.
Expiring_Earlier(rows) ==
    [a \in Assets |-> IF Detached(rows[a]) /\ rows[a].ttl = "none" /\ There(a)
                      THEN [rows[a] EXCEPT !.ttl = "set"] ELSE rows[a]]

\* expire_detached: whatever is attached to nothing gets an expiry.
Expiring(rows) ==
    [a \in Assets |-> IF Detached(rows[a]) /\ rows[a].ttl = "none"
                      THEN [rows[a] EXCEPT !.ttl = "set"] ELSE rows[a]]

UploadCommit(w) ==
    LET x == work[w]
        rows == Recorded(x.keys[1], x.of)
    IN  /\ At(w, "upload")
        /\ row' = IF x.of = Nothing THEN Expiring(rows) ELSE rows
        /\ UNCHANGED <<blob, thing>>
        /\ Answered(w)

---------------------------------------------------------------------------
(* Attaching *)

Attached(S, ctx) ==
    [a \in Assets |-> IF a \in S THEN Row("there", ctx, "none", row[a].del) ELSE row[a]]

\* The endpoint of its own, which takes a file from wherever it is attached to whatever id
\* it is given.
AttachRead(w, a, ctx) ==
    /\ Live(row[a]) /\ Given(ctx)
    /\ Asks(w, "attach", Holding("attach", <<a>>, ctx, {}, {}))
    /\ UNCHANGED blob

AttachCommit(w) ==
    LET a == work[w].keys[1]
    IN  /\ At(w, "attach") /\ There(a)
        /\ row' = Attached({a}, work[w].of)
        /\ UNCHANGED <<blob, thing>>
        /\ Answered(w)

\* The rows of the keys are looked up one after the other.
Reading(w, op, t, K) ==
    LET found == {a \in ToSet(K) : There(a) /\ (t \in FindsDeleted \/ row[a].del = "no")}
    IN  /\ t \in requests.things
        /\ \A a \in ToSet(K) : row[a].at # "none"
        /\ Asks(w, op, Holding(op, K, t, found, {a \in found : row[a].del # "no"}))
        /\ UNCHANGED blob

CreateRead(w, t, K) ==
    /\ thing[t].at = "none" /\ \A v \in Workers : ~(At(v, "create") /\ work[v].of = t)
    /\ Reading(w, "create", t, K)
AddRead(w, K) == K # <<>> /\ thing["listing"].at = "there" /\ Reading(w, "add", "listing", K)

\* The places of a request's keys that cannot be attached: the row is deleted, or gone.
Failing(x) ==
    {i \in DOMAIN x.keys : x.keys[i] \in x.bad \/ (x.keys[i] \in x.found /\ ~There(x.keys[i]))}

\* Mutant: the first file only.
Kept_First(x) == {x.keys[i] : i \in {1} \cap (DOMAIN x.keys \ Failing(x))}

\* An attachment that fails rolls back all that the request has done until then.
Kept(x) == {x.keys[i] : i \in {j \in DOMAIN x.keys : \A f \in Failing(x) : j > f}}

\* Mutant: what the request does after the rollback is committed for all of them.
Outcome_Kept(x) == IF Failing(x) = {} THEN "stored" ELSE "lost"

\* Without its row, a listing cannot have photos nor a status an audience; the request for
\* a post or a report goes on without it.
Outcome(x) ==
    IF Failing(x) = {} THEN "stored" ELSE IF x.of \in NeedsItsRow THEN "failed" ELSE "lost"

CreateCommit(w) ==
    LET x == work[w]
    IN  /\ At(w, "create") /\ Outcome(x) # "failed"
        /\ row' = Attached(Kept(x) \cap x.found, x.of)
        /\ thing' = [thing EXCEPT ![x.of] = IF Outcome(x) = "lost" THEN Names("lost", {})
                                            ELSE Names("there", ToSet(x.keys))]
        /\ UNCHANGED blob
        /\ Answered(w)

\* Photos for a listing that is there: those before the failing one are lost.
AddCommit(w) ==
    LET x == work[w]
    IN  /\ At(w, "add")
        /\ row' = Attached(Kept(x) \cap x.found, x.of)
        /\ thing' = [thing EXCEPT ![x.of] = Names(@.at, @.keys \cup Kept(x))]
        /\ UNCHANGED blob
        /\ Answered(w)

\* remove_listing_media drops the listing's own rows and leaves the files attached.
RemovePhotosRead(w, K) ==
    /\ thing["listing"].at = "there" /\ ToSet(K) \cap thing["listing"].keys # {}
    /\ Asks(w, "add", Holding("remove", K, "listing", {}, {}))
    /\ UNCHANGED blob

\* edit_post takes other keys and attaches none.
EditPostRead(w, K) ==
    /\ thing["post"].at \in {"there", "edited"}
    /\ \A a \in ToSet(K) : row[a].at # "none"
    /\ Asks(w, "edit", Holding("edit", K, "post", {}, {}))
    /\ UNCHANGED blob

KeysCommit(w) ==
    LET x == work[w]
    IN  /\ At(w, "remove") \/ At(w, "edit")
        /\ thing' = [thing EXCEPT ![x.of] =
                        IF x.op = "edit" THEN Names("edited", ToSet(x.keys))
                        ELSE Names(@.at, @.keys \ ToSet(x.keys))]
        /\ UNCHANGED <<blob, row>>
        /\ Answered(w)

---------------------------------------------------------------------------
(* Deleting and reclaiming *)

DeleteFileRead(w, a) ==
    /\ Live(row[a])
    /\ Asks(w, "delete", Holding("delete", <<a>>, Nothing, {}, {}))
    /\ UNCHANGED blob

DeleteCommit(w) ==
    LET a == work[w].keys[1]
    IN  /\ At(w, "delete") /\ There(a)
        /\ row' = [row EXCEPT ![a] = Row("there", @.ctx, @.ttl, "recent")]
        /\ UNCHANGED <<blob, thing>>
        /\ Answered(w)

\* The row that was read is gone, or the listing or status has lost its own, or there is no
\* such kind of thing as the upload was to be attached to: its file stays in the storage.
Refused(w) ==
    LET x == work[w]
    IN  /\ \/ At(w, "upload") /\ x.of = "elsewhere"
           \/ (At(w, "attach") \/ At(w, "delete")) /\ ~There(x.keys[1])
           \/ At(w, "create") /\ Outcome(x) = "failed"
        /\ Void(w)

\* Mutant: a file that is attached may have expired too.
Due_Attached(r) == r.at = "there" /\ (r.del = "old" \/ r.ttl = "past" \/ r.ctx = "elsewhere")

\* Deleted for longer than the grace period, or attached to nothing past the expiry.
Due(r) == (r.at = "there" /\ r.del = "old") \/ (Detached(r) /\ r.ttl = "past")

\* cleanup_orphans, for an administrator or in the sweep.
CleanRead(w) ==
    LET due == {a \in Assets : Due(row[a])}
    IN  /\ due # {}
        /\ Asks(w, "clean", Sweeps(due, due))
        /\ UNCHANGED blob

\* A file leaves the storage before its row goes.
CleanBlob(w) ==
    /\ At(w, "clean")
    /\ \E a \in work[w].found :
        /\ blob' = blob \ {a}
        /\ Keeps(w, Sweeps(work[w].bad, work[w].found \ {a}))
    /\ UNCHANGED <<row, thing, killed, stale>>


\* The rows go, whatever has become of them.
CleanCommit(w) ==
    /\ At(w, "clean") /\ work[w].found = {}
    /\ row' = [a \in Assets |-> IF a \in work[w].bad THEN Row("gone", Nothing, "none", "no") ELSE row[a]]
    /\ UNCHANGED <<blob, thing>>
    /\ Answered(w)

\* A worker dies between what it did to the storage and its commit.
Killed(w) ==
    /\ ~killed /\ (At(w, "upload") \/ At(w, "clean"))
    /\ killed' = TRUE
    /\ Keeps(w, Free)
    /\ UNCHANGED <<blob, row, thing, stale>>

Pass(a) ==
    /\ There(a) /\ (row[a].ttl = "set" \/ row[a].del = "recent")
    /\ row' = [row EXCEPT ![a] = Row("there", @.ctx, IF @.ttl = "set" THEN "past" ELSE @.ttl,
                                     IF @.del = "recent" THEN "old" ELSE @.del)]
    /\ UNCHANGED <<requests, blob, thing, work, overlapped, killed, stale>>

\* An offer lapses, or the parties reject or withdraw it after all.
OfferLapses ==
    /\ "offer" \in requests.names
    /\ stale' = ~stale
    /\ UNCHANGED <<requests, blob, row, thing, work, overlapped, killed>>

\* expire_marketplace_objects: the media come last, and an offer that has lapsed makes the
\* whole sweep fail before it gets to them, every time.
SweepRead(w) == ~stale /\ CleanRead(w)

---------------------------------------------------------------------------
MediaRead(w) ==
    \/ \E a \in Assets :
        \/ \E ctx \in Contexts : UploadPut(w, a, ctx) \/ AttachRead(w, a, ctx)
        \/ FilePut(w, a)
        \/ DeleteFileRead(w, a)
    \/ \E K \in Lists :
        \/ \E t \in Things : CreateRead(w, t, K)
        \/ AddRead(w, K)
        \/ RemovePhotosRead(w, K)
        \/ EditPostRead(w, K)
    \/ CleanRead(w)

Answer(w) ==
    \/ UploadCommit(w)
    \/ AttachCommit(w)
    \/ CreateCommit(w)
    \/ AddCommit(w)
    \/ KeysCommit(w)
    \/ DeleteCommit(w)
    \/ Refused(w)
    \/ CleanBlob(w)
    \/ CleanCommit(w)

MediaNext ==
    \/ \E w \in Workers : MediaRead(w) \/ Answer(w) \/ Killed(w)
    \/ \E a \in Assets : Pass(a)
    \/ OfferLapses

MediaSpec == MediaInit /\ [][MediaNext]_mediaVars

\* Time passes, what has begun is carried on, and the sweep runs every minute.  No
\* administrator has to clean up.
FairSpec ==
    /\ MediaSpec
    /\ \A a \in Assets : WF_mediaVars(Pass(a))
    /\ \A w \in Workers : WF_mediaVars(Answer(w))
    /\ SF_mediaVars(\E w \in Workers : SweepRead(w))

---------------------------------------------------------------------------
(* Properties *)

\* The shapes of the tables and of what the workers hold.
FileRow == [at : {"none", "there", "gone"}, ctx : Contexts \cup {Nothing},
            ttl : {"none", "set", "past"}, del : {"no", "recent", "old"}]
ThingRow == [at : {"none", "there", "edited", "lost"}, keys : SUBSET Assets]
FileWork == [op : {"idle", "upload", "attach", "create", "add", "remove", "edit", "delete", "clean"},
             keys : Seq(Assets), of : Contexts \cup {Nothing},
             found : SUBSET Assets, bad : SUBSET Assets]
MediaTypeOK ==
    /\ blob \subseteq Assets
    /\ row \in [Assets -> FileRow]
    /\ thing \in [Things -> ThingRow]
    /\ work \in [Workers -> FileWork]
    /\ overlapped \in BOOLEAN /\ killed \in BOOLEAN /\ stale \in BOOLEAN

\* A file that is attached to nothing has an expiry, so that the sweep will find it,
\* whatever overlaps or dies.
DetachedExpires == \A a \in Assets : Detached(row[a]) => row[a].ttl # "none"

\* The files that a thing named when it was created were all attached, although an
\* attachment that fails undoes those before it.
NamedIsAttached ==
    \A t \in Things : thing[t].at = "there" => \A a \in thing[t].keys : ~Detached(row[a])

\* A sweep picks no file that a thing has named since it was created, unless its owner has
\* deleted it.  One that it picked before the thing was created it takes all the same
\* (AttachedHasBlobAlways).
SweepSparesNamed ==
    [][\A w \in Workers : ~At(w, "clean") /\ At(w, "clean")' =>
          \A t \in Things : thing[t].at = "there" =>
              \A a \in thing[t].keys \cap work'[w].bad : row[a].del # "no"]_mediaVars

\* A listing or a status whose creation was undone keeps none of the files that its
\* creation had attached to it.
AttachedToStored ==
    \A a \in Assets : row[a].ctx \in NeedsItsRow => thing[row[a].ctx].at = "there"

\* A file in use is in the storage, as long as no requests have overlapped and no worker
\* has died.
AttachedHasBlob == ~overlapped /\ ~killed =>
    \A a \in Assets : Live(row[a]) /\ row[a].ctx # Nothing => a \in blob

\* Whatever was deleted, or is attached to nothing, is reclaimed in the end, row and file,
\* unless it is attached before, or an offer lapses.
Unused(a) == There(a) /\ (Detached(row[a]) \/ row[a].del # "no")
Reclaimed(a) == (row[a].at = "gone" /\ a \notin blob) \/ (Live(row[a]) /\ row[a].ctx # Nothing)

\* Whatever is not used is reclaimed: not after an offer that nobody answers has lapsed.
UnusedAlwaysReclaimed == \A a \in Assets : Unused(a) ~> Reclaimed(a)

\* What is created is stored: a post that names a deleted file is not.
CreatedIsStored == \A t \in Things : thing[t].at # "lost"

\* The files of an edited post are attached: they are not, and the sweep takes them.
EditedIsAttached == \A a \in thing["post"].keys : ~Detached(row[a])

\* A file in use is in the storage: a sweep that has read its row takes it all the same.
AttachedHasBlobAlways == \A a \in Assets : Live(row[a]) /\ row[a].ctx # Nothing => a \in blob

\* Photos removed from a listing are detached ("Detach photos from a listing"): they
\* stay attached to it, and nothing reclaims them.
RemovedIsDetached ==
    [][\A a \in thing["listing"].keys : a \notin thing["listing"].keys' => row'[a].ctx # "listing"]_mediaVars

\* What a file is attached to is there: attach_asset takes any id.
AttachedToSomething == \A a \in Assets : row[a].ctx # "elsewhere"
===========================================================================
