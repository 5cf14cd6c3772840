----------------------------- MODULE MessageLog -----------------------------
(***************************************************************************)
(* What the conversations promise their members: each is a log to which      *)
(* messages are added at the end, any number at a time, and in which nothing *)
(* is ever moved, replaced, repeated or left empty.  A reader who has seen a *)
(* number has seen everything below it.                                      *)
(***************************************************************************)
EXTENDS Sequences, SequencesExt

CONSTANTS
    Conversations,
    Messages

VARIABLE log        \* for each conversation, what is stored under each number

Init == log = [c \in Conversations |-> <<>>]

\* Each place of a log holds one message, and no two the same one.
WellFormed(l) == IsInjective(l) /\ \A i \in DOMAIN l : \E m \in Messages : l[i] = {m}

Extend == \A c \in Conversations : IsPrefix(log[c], log'[c]) /\ WellFormed(log'[c])

Spec == Init /\ [][Extend]_log
===========================================================================
