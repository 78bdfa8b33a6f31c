--------------------------- MODULE MCRingTransfer ---------------------------
(***************************************************************************)
(* Instances of RingTransfer for TLC: counts of segments by sender and     *)
(* receiver.                                                               *)
(***************************************************************************)
EXTENDS RingTransfer

CONSTANTS t1, i1, i2

\* Two segments for three lanes: two lanes have one, the third has none.
LanesCount == [s \in Senders |-> [r \in Receivers |-> 2]]

\* A broadcast of three segments: the only lane reuses its slot.
BroadcastCount == [s \in Senders |-> [r \in Receivers |-> 3]]
=============================================================================
