---------------------------- MODULE MCOutboxSync ----------------------------
(***************************************************************************)
(* Instances of OutboxSync for TLC.                                         *)
(***************************************************************************)
EXTENDS OutboxSync, TLC

CONSTANTS a, b, market, village

\* The last message is b's, the others are a's.
TwoPhones == [o \in Ops |-> IF o = NumOps THEN b ELSE a]
\* Messages go to the two conversations in turn.
TwoRooms == [o \in Ops |-> IF o % 2 = 1 THEN market ELSE village]
\* Phones a and b write to the two conversations in opposite orders.
Halves == [o \in Ops |-> IF 2 * o <= NumOps THEN a ELSE b]
Crossed == [o \in Ops |-> IF o \in {1, NumOps} THEN market ELSE village]

OnePhone == [o \in Ops |-> a]
OneRoom == [o \in Ops |-> market]

\* What is calm only forbids some steps, so safety is explored where it is not.
Troubled == ~calm

\* The network is fine from the start.
SettledSpec == FairSpec /\ calm = TRUE

Workers == Permutations(Requests)
===========================================================================
