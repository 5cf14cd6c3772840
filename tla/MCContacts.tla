----------------------------- MODULE MCContacts -----------------------------
(***************************************************************************)
(* Instances of Contacts for TLC: the connection, the follows and the        *)
(* conversation, each together with what bars it.                            *)
(***************************************************************************)
EXTENDS Contacts, TLC

Mixture == {
    {"request", "accept", "decline", "cancel", "remove", "block", "unblock", "follow"},
    {"start", "send", "read", "block"},
    {"start", "send", "edit", "delete"} }

Symmetry == Permutations(Users) \cup Permutations(Workers)
=============================================================================
