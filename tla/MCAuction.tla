----------------------------- MODULE MCAuction -----------------------------
(***************************************************************************)
(* Instances of Auction for TLC.                                            *)
(***************************************************************************)
EXTENDS Auction, TLC

Symmetry == Permutations(Workers)
===========================================================================
