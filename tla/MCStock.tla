------------------------------ MODULE MCStock ------------------------------
(***************************************************************************)
(* Instances of Stock for TLC: a listing of one unit and one of two, taken  *)
(* from batches that any order may draw on.                                  *)
(***************************************************************************)
EXTENDS Stock, TLC

CONSTANTS s1, s2

OneThenTwo == [l \in Listings |-> IF l = 1 THEN 1 ELSE 2]
Mix(sessions, listings, operations) ==
    [sessions |-> sessions, listings |-> listings, operations |-> operations]

Handling == {"accept", "draft", "counter", "reject", "withdraw", "lapse", "transition", "cancel", "die"}

\* All that happens to offers and orders, one request after the other; in two sessions,
\* selling and cancelling, selling across the batches, selling while the seller restocks,
\* and the life of one listing from its draft on.
Mixture == {
    Mix({s1}, {2}, Handling), Mix({s2}, {2}, Handling),
    Mix({s1, s2}, {2}, {"draft", "transition", "cancel"}),
    Mix({s1, s2}, {1, 2}, {"accept", "draft"}),
    Mix({s1, s2}, {1}, {"draft", "restock"}),
    Mix({s1, s2}, {2}, {"create", "edit", "publish", "state", "draft"}) }

\* For the counterexamples: one session, or two, do everything to one listing.
Everything == { Mix(S, {2}, Handling \cup {"restock"}) : S \in {{s1}, {s2}, {s1, s2}} }
DraftsAndCancels == { Mix({s1, s2}, {2}, {"draft", "cancel"}) }
Workers == Permutations(Sessions)
===========================================================================
