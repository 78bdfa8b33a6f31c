------------------------- MODULE ColocateTransports -------------------------
(***************************************************************************)
(* The two transports of colocated training and inference, and the promise *)
(* both keep (ColocateExchange): the stream transport of StreamBatch, and  *)
(* the staged one of TwoPhaseStages, on worlds of their own.               *)
(***************************************************************************)
EXTENDS StreamBatch

CONSTANTS
  StagesWorld,  \* ranks of the staged exchange
  StagesPlan    \* its pairs of ranks with operations

VARIABLES transport, stage, at, busy, posted

stagesVars == <<stage, at, busy, posted>>

stages == INSTANCE TwoPhaseStages WITH World <- StagesWorld, Plan <- StagesPlan

\* A world of one has no stage: the call returns at once.
ASSUME StagesAssumption ==
  /\ StagesWorld \in Nat \ {0, 1}
  /\ StagesPlan \subseteq {p \in stages!Ranks \X stages!Ranks : p[1] # p[2]}

TransportInit ==
  /\ transport \in {"stream", "stages"}
  /\ Init /\ stages!Init

TransportNext ==
  \/ transport = "stream" /\ Next /\ UNCHANGED <<transport, stagesVars>>
  \/ transport = "stages" /\ stages!Next /\ UNCHANGED <<transport, vars>>

TransportVars == <<transport, vars, stagesVars>>

\* Every rank's thread keeps running.
TransportSpec ==
  TransportInit /\ [][TransportNext]_TransportVars /\ WF_TransportVars(TransportNext)
-----------------------------------------------------------------------------
(***************************************************************************)
(* Properties, the transports' own under their names.                      *)
(***************************************************************************)
\* Of the stream transport a pair is moved when both ends have posted all its
\* operations, of the staged one when both have posted their call; a rank has
\* returned behind its last batch or stage.
Pairs == {p \in Ranks \X Ranks : p[1] # p[2] /\ Ops[p[1]][p[2]] > 0}

StreamMoved == {p \in Pairs : /\ sent[p[1]][p[2]] = Ops[p[1]][p[2]]
                              /\ received[p[2]][p[1]] = Ops[p[1]][p[2]]}
StagesMoved == {p \in StagesPlan : \A kind \in {"send", "recv"} :
                                     <<p[1], p[2], kind>> \in posted}

StreamReturned == {r \in Ranks : pc[r] = "done"}
StagesReturned == {r \in stages!Ranks : stage[r] = StagesWorld}

streamPromise ==
  INSTANCE ColocateExchange WITH
    Members <- Ranks, Streams <- Pairs, moved <- StreamMoved, returned <- StreamReturned

stagesPromise ==
  INSTANCE ColocateExchange WITH
    Members <- stages!Ranks, Streams <- StagesPlan,
    moved <- StagesMoved, returned <- StagesReturned

\* A call that returns on a rank has moved all of the rank's weights, in
\* whatever order the ranks come: both transports keep the promise. (The one
\* that is not chosen takes no step.)
ImplementsExchange == streamPromise!Spec /\ stagesPromise!Spec

\* The recursive partition among w ranks.
partition(w) == INSTANCE StreamBatch WITH World <- w

\* In worlds of 2, 4, 8 and more ranks every two ranks are in opposite halves
\* in exactly one round, which each finds alone: what they have for each other
\* is neither left out nor sent twice. (Looked at once.)
EveryPairMeetsOnce ==
  transport = "stream" /\ (\A r \in Ranks : pc[r] = "plan") =>
    \A w \in {2, 4, 8, 16, 32} : \A r, q \in 0 .. w - 1 : r # q =>
      /\ \E k \in 0 .. partition(w)!Rounds - 1 : q \in partition(w)!OtherHalf(r, k)
      /\ \A k, j \in 0 .. partition(w)!Rounds - 1 :
           q \in partition(w)!OtherHalf(r, k) /\ r \in partition(w)!OtherHalf(q, j) => k = j

\* The exchange ends on every rank.
EveryExchangeEnds ==
  <>(\/ transport = "stream" /\ \A r \in Ranks : pc[r] = "done"
     \/ transport = "stages" /\ \A r \in stages!Ranks : stage[r] = StagesWorld)
=============================================================================
