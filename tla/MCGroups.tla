------------------------------ MODULE MCGroups ------------------------------
(***************************************************************************)
(* Instances of Groups for TLC.                                             *)
(***************************************************************************)
EXTENDS Groups, TLC

AllGuests == [u \in Users |-> "CONSUMER"]
\* Who comes and goes, what they ask for, and what only members may do.
Mixture == {{"add", "remove", "ban"}, {"add", "join", "ban"},
          {"join", "review", "remove", "ban"},
          {"add", "invite", "revoke", "post"}}
Symmetry == Permutations(Workers) \cup Permutations(Users \ {Creator}) \cup Permutations(Codes)
===========================================================================
