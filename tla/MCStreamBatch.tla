--------------------------- MODULE MCStreamBatch ---------------------------
(***************************************************************************)
(* Instances of StreamBatch for TLC.                                       *)
(***************************************************************************)
EXTENDS StreamBatch

\* Only ranks 1 and 2, of one half of six, exchange an op.
NeighbourOps ==
  [s \in 0 .. World - 1 |-> [r \in 0 .. World - 1 |->
     IF {s, r} = {1, 2} THEN 1 ELSE 0]]

\* Ranks whose budgets give different step sizes.
UnevenStep == [r \in 0 .. World - 1 |-> IF r = 2 THEN 1 ELSE 2]
=============================================================================
