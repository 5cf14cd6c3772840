--------------------------- MODULE MCSettlement ---------------------------
(***************************************************************************)
(* Instances of Settlement for TLC: every order is sold by the same seller, *)
(* so that two settlements meet on the seller's and on the sink's wallet.    *)
(***************************************************************************)
EXTENDS Settlement, TLC

CONSTANTS seller, sink, FreeOrders  \* orders whose fee rounds to zero

OneSeller == [o \in Orders |-> seller]
NetTwo == [o \in Orders |-> 2]
FeeOne == [o \in Orders |-> IF o \in FreeOrders THEN 0 ELSE 1]

\* Distinct notices per report: all kinds once; a success twice; no progress reports.
Once == [r \in Reports |-> 1]
TwoSuccesses == [r \in Reports |-> CASE r = "SUCCEEDED" -> 2 [] r = "PROCESSING" -> 0 [] OTHER -> 1]
DecisionsOnce == [r \in Reports |-> IF r = "PROCESSING" THEN 0 ELSE 1]
SuccessOnly == [r \in Reports |-> IF r = "SUCCEEDED" THEN 1 ELSE 0]
FailureOnly == [r \in Reports |-> IF r = "FAILED" THEN 1 ELSE 0]

Workers == Permutations(Sessions)
===========================================================================
