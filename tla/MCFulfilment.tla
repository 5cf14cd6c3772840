--------------------------- MODULE MCFulfilment ---------------------------
(***************************************************************************)
(* Instances of Fulfilment for TLC: one order, one or two carriers.         *)
(***************************************************************************)
EXTENDS Fulfilment, TLC

Symmetry == Permutations(Carriers)
===========================================================================
