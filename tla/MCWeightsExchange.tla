------------------------- MODULE MCWeightsExchange -------------------------
(***************************************************************************)
(* An instance of WeightsExchange for TLC.                                 *)
(***************************************************************************)
EXTENDS WeightsExchange

CONSTANTS d1, d2, d3, e1, e2

\* The first engine has the first two devices.
MCEngineOf == [d \in Devices |-> IF d \in {d1, d2} THEN e1 ELSE e2]

\* The ranks of the two sides come in other orders.
MCWorkerRank == [d \in Devices |-> IF d = d1 THEN 0 ELSE IF d = d2 THEN 1 ELSE 2]
MCTrainRank  == [d \in Devices |-> IF d = d1 THEN 2 ELSE IF d = d2 THEN 0 ELSE 1]
=============================================================================
