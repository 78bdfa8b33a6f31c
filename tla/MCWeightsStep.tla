--------------------------- MODULE MCWeightsStep ---------------------------
(***************************************************************************)
(* Instances of WeightsStep for TLC.                                       *)
(***************************************************************************)
EXTENDS WeightsStep

CONSTANTS d1, d2, d3, e1, e2

\* One device for each engine.
MCSingleEngineOf == [d \in Devices |-> IF d = d1 THEN e1 ELSE e2]
=============================================================================
