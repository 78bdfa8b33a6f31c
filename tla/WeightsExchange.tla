-------------------------- MODULE WeightsExchange --------------------------
(***************************************************************************)
(* Bootstrap within the first step of WeightsStep. write_weights releases  *)
(* the memory of a colocated training rank first and then initializes the  *)
(* writer; update_weights begins with the initialization of the reader.    *)
(* Everything else waits for it: a process takes the steps of one of the   *)
(* two modules at a time.                                                  *)
(***************************************************************************)
EXTENDS WeightsStep

CONSTANTS WorkerRank, TrainRank

VARIABLES keys, tboot, eboot, wboot, mapping

boot == INSTANCE Bootstrap

bootVars == <<keys, tboot, eboot, wboot, mapping>>

\* The ranks of Bootstrap and the devices of WeightsStep are the same.
ASSUME ExchangeAssumption == boot!BootAssumption /\ TrainRank[Root] = 0

ExchangeInit == Init /\ boot!Init

TrainerReady(t) ==
  \/ tboot[t] = "ready"
  \/ tpc[t] \in {"idle", "resumed", "announce"}

\* The training rank in write_weights, behind the release of its memory.
Writing(t) == tpc[t] \in {"save", "write"} /\ tboot[t] # "ready"

EngineReady(e) == eboot[e] = "ready" \/ epc[e] \in {"new", "idle"}

Updating(e) == epc[e] \notin {"new", "idle"} /\ eboot[e] # "ready"

TrainerMoves(t) ==
  \/ TrainerReady(t) /\ TrainerStep(t) /\ UNCHANGED bootVars
  \/ Writing(t) /\ boot!TrainerBoot(t) /\ UNCHANGED vars

EngineMoves(e) ==
  \/ EngineReady(e) /\ EngineStep(e) /\ UNCHANGED bootVars
  \/ Updating(e) /\ boot!EngineBoot(e) /\ UNCHANGED vars

WorkerMoves(d) ==
  \/ eboot[EngineOf[d]] = "ready" /\ WorkerStep(d) /\ UNCHANGED bootVars
  \/ boot!WorkerBoot(d) /\ UNCHANGED vars

ExchangeNext ==
  \/ \E d \in Devices : TrainerMoves(d) \/ WorkerMoves(d)
  \/ \E e \in Engines : EngineMoves(e)

ExchangeVars == <<vars, bootVars>>

\* Every process keeps running: no time-out of 10000 s is modelled.
ExchangeSpec ==
  /\ ExchangeInit
  /\ [][ExchangeNext]_ExchangeVars
  /\ \A d \in Devices :
       WF_ExchangeVars(TrainerMoves(d)) /\ WF_ExchangeVars(WorkerMoves(d))
  /\ \A e \in Engines : WF_ExchangeVars(EngineMoves(e))
-----------------------------------------------------------------------------
(***************************************************************************)
(* Properties.                                                             *)
(***************************************************************************)

\* Nobody moves weights through the group before every member of it has been
\* through the trial batch: a message of the trial is never met by weights.
TriedBeforeUse ==
  (\/ \E t \in Devices : tpc[t] = "sending"
   \/ \E d \in Devices : wpc[d] = "exchange")
  => \A m \in boot!Members : boot!Has(m, "tried")

\* A worker that maps a training rank's buffers has that rank, the one of its
\* own device, in its mapping, and knows all the others.
MappingIsWhole ==
  \A d \in Devices : colocate /\ wpc[d] # "idle" => mapping[d] = Devices
=============================================================================
