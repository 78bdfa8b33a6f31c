-------------------------- MODULE ColocateExchange --------------------------
(***************************************************************************)
(* What a colocated exchange promises its caller (the weights writer and   *)
(* reader that share the ranks): when the call returns on a rank, all the  *)
(* weights it has for others and all that others have for it are moved.    *)
(***************************************************************************)
CONSTANTS
  Members,  \* the ranks
  Streams   \* the pairs <<s, r>> of ranks with operations from s to r

VARIABLES
  moved,    \* the pairs whose operations are done at both ends
  returned  \* the ranks whose call has returned

vars == <<moved, returned>>

Init == moved = {} /\ returned = {}

Move(p) ==
  /\ p \in Streams \ moved
  /\ moved' = moved \cup {p}
  /\ UNCHANGED returned

Return(r) ==
  /\ r \in Members \ returned
  /\ {p \in Streams : r \in {p[1], p[2]}} \subseteq moved
  /\ returned' = returned \cup {r}
  /\ UNCHANGED moved

Next == (\E p \in Streams : Move(p)) \/ (\E r \in Members : Return(r))

Spec == Init /\ [][Next]_vars
=============================================================================
