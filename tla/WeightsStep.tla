---------------------------- MODULE WeightsStep ----------------------------
(***************************************************************************)
(* One weights update, step after step, as the training processes          *)
(* (writer/weights_writer.py write_weights, writer/nccl_writer.py), the    *)
(* inference engines (reader/weights_reader.py update_weights) and the     *)
(* workers of the engines (reader/nccl_reader.py) run it.                  *)
(*                                                                         *)
(* They meet at the keys of the meta server and at dist.barrier. Every     *)
(* call of the meta server client is one step here; MetaServer models the  *)
(* retries and the delays below it. In colocated mode a device holds a     *)
(* training process and a worker; in separated mode Devices only numbers   *)
(* both. The transfers are those of RingTransfer and StreamBatch: here     *)
(* they end when everybody they need has entered.                          *)
(*                                                                         *)
(* The driver is the program that calls write_weights and update_weights:  *)
(* tests/weights_exchange_multi_vllm_it.py joins both before it goes on.   *)
(***************************************************************************)
EXTENDS Integers, Sequences, FiniteSets

CONSTANTS
  Devices,    \* training ranks, and workers
  Engines,    \* inference engines
  EngineOf,   \* the engine of a worker
  Root,       \* training rank 0
  Steps       \* bound: number of updates

\* There are finitely many processes, and every engine has a worker.
ASSUME StepAssumption ==
  /\ IsFiniteSet(Devices) /\ IsFiniteSet(Engines)
  /\ EngineOf \in [Devices -> Engines]
  /\ \A e \in Engines : \E d \in Devices : EngineOf[d] = e
  /\ Root \in Devices
  /\ Steps \in Nat

VARIABLES
  colocate,     \* enable_colocate_mode, the same everywhere
  validated,    \* the steps that are validated against a checkpoint on disk
  tpc, tdone,   \* training ranks: position in write_weights, steps written
  epc, edone,   \* engines: position in update_weights, steps updated
  wpc, wdone,   \* workers: position in the update, steps received
  store,        \* the keys of the meta server
  saved,        \* the step of the shards a training rank has on disk
  tmem,         \* its weights are on the device
  shared,       \* its shared buffers for the worker are
  emem          \* the weights of an engine are on its devices

config      == <<colocate, validated>>
trainerVars == <<tpc, tdone, saved, tmem, shared>>
engineVars  == <<epc, edone, emem>>
workerVars  == <<wpc, wdone>>
vars == <<config, trainerVars, engineVars, workerVars, store>>

(***************************************************************************)
(* A boolean key exists or not; a set key that does not exist is empty.    *)
(***************************************************************************)
EmptyStore == [
  inited     |-> {},     \* num_inited_inference_engines
  optimizers |-> FALSE,  \* all_training_offloaded_optimizers
  load       |-> FALSE,  \* weights_ready_for_load
  send       |-> {},     \* weights_ready_for_send
  offloaded  |-> {},     \* all_training_offloaded_weights
  serialized |-> {},     \* training_serialized_weights_*: <<device, step>>
  updated    |-> {},     \* weights_update_finished_*
  written    |-> {},     \* write_finished_*
  finished   |-> {}]     \* finished_weights_update_engines

\* The positions of each process, in the order of the code.
TrainerPcs ==
  <<"idle", "resumed", "announce", "save", "saved", "publish", "poll",
    "dropSend", "dropLoad", "validated", "write", "sending", "offload", "share",
    "waitUpdated", "freed", "waitFinished", "finished", "dropFinished",
    "dropOptimizers", "dropOffloaded">>

EnginePcs ==
  <<"new", "idle", "waitLoad", "waitOptimizers", "loading", "addSend",
    "readSend", "pollSend", "release", "waitOffloaded", "update", "report",
    "resumeCache", "failed">>

WorkerPcs == <<"idle", "exchange", "signal", "barrier", "waitWritten">>

Elements(seq) == {seq[i] : i \in DOMAIN seq}

At(pcs, pc) == CHOOSE i \in DOMAIN pcs : pcs[i] = pc

Step(done) == done + 1

\* The rank or worker has reached position pc of step s.
TrainerReached(t, s, pc) ==
  \/ tdone[t] >= s
  \/ tdone[t] = s - 1 /\ At(TrainerPcs, tpc[t]) >= At(TrainerPcs, pc)

WorkerReached(d, s, pc) ==
  \/ wdone[d] >= s
  \/ wdone[d] = s - 1 /\ At(WorkerPcs, wpc[d]) >= At(WorkerPcs, pc)
-----------------------------------------------------------------------------
TypeOK ==
  /\ colocate \in BOOLEAN
  /\ validated \subseteq 1 .. Steps
  /\ tpc   \in [Devices -> Elements(TrainerPcs)]
  /\ epc   \in [Engines -> Elements(EnginePcs)]
  /\ wpc   \in [Devices -> Elements(WorkerPcs)]
  /\ tdone \in [Devices -> 0 .. Steps]
  /\ edone \in [Engines -> 0 .. Steps]
  /\ wdone \in [Devices -> 0 .. Steps]
  /\ saved \in [Devices -> 0 .. Steps]
  /\ tmem  \in [Devices -> BOOLEAN]
  /\ shared \in [Devices -> BOOLEAN]
  /\ emem  \in [Engines -> BOOLEAN]
  /\ store \in [inited     : SUBSET Engines,
                optimizers : BOOLEAN,
                load       : BOOLEAN,
                send       : SUBSET Engines,
                offloaded  : SUBSET Devices,
                serialized : SUBSET (Devices \X (1 .. Steps)),
                updated    : SUBSET (Devices \X (1 .. Steps)),
                written    : SUBSET (Devices \X (1 .. Steps)),
                finished   : SUBSET Engines]

Init ==
  /\ colocate \in BOOLEAN
  /\ validated \in SUBSET (1 .. Steps)
  /\ tpc   = [t \in Devices |-> "idle"]
  /\ epc   = [e \in Engines |-> "new"]
  /\ wpc   = [d \in Devices |-> "idle"]
  /\ tdone = [t \in Devices |-> 0]
  /\ edone = [e \in Engines |-> 0]
  /\ wdone = [d \in Devices |-> 0]
  /\ saved = [t \in Devices |-> 0]
  \* A colocated writer releases its memory when it is initialized.
  /\ tmem  = [t \in Devices |-> ~colocate]
  /\ shared = [t \in Devices |-> FALSE]
  /\ emem  = [e \in Engines |-> TRUE]
  /\ store = EmptyStore
-----------------------------------------------------------------------------
(***************************************************************************)
(* The training ranks: write_weights.                                      *)
(***************************************************************************)

Goto(t, pc) == tpc' = [tpc EXCEPT ![t] = pc]

AfterInitialize(t) ==
  IF Step(tdone[t]) \in validated THEN "save" ELSE "write"

Return(t) ==
  /\ tdone' = [tdone EXCEPT ![t] = @ + 1]
  /\ Goto(t, "idle")

\* dist.barrier over the training ranks.
TrainersAt(t, pc) ==
  /\ tpc[t] = pc
  /\ \A u \in Devices : TrainerReached(u, Step(tdone[t]), pc)

\* The driver starts a rank when everybody has ended the step before. In the
\* first step a colocated rank waits for all engines to be initialized.
WriteStart(t) ==
  /\ tpc[t] = "idle"
  /\ tdone[t] < Steps
  /\ \A u \in Devices : tdone[u] >= tdone[t]
  /\ \A e \in Engines : edone[e] >= tdone[t]
  /\ colocate /\ tdone[t] = 0 => Cardinality(store.inited) >= Cardinality(Engines)
  /\ tmem' = [tmem EXCEPT ![t] = TRUE]
  /\ Goto(t, IF colocate THEN "resumed" ELSE AfterInitialize(t))
  /\ UNCHANGED <<config, tdone, saved, shared, engineVars, workerVars, store>>

ResumedBarrier(t) ==
  /\ TrainersAt(t, "resumed")
  /\ Goto(t, IF t = Root THEN "announce" ELSE AfterInitialize(t))
  /\ UNCHANGED <<config, tdone, saved, tmem, shared, engineVars, workerVars, store>>

AnnounceOptimizers(t) ==
  /\ tpc[t] = "announce"
  /\ store' = [store EXCEPT !.optimizers = TRUE]
  /\ Goto(t, AfterInitialize(t))
  /\ UNCHANGED <<config, tdone, saved, tmem, shared, engineVars, workerVars>>

\* _validate_weights: save_hf_checkpoint.
Save(t) ==
  /\ tpc[t] = "save"
  /\ saved' = [saved EXCEPT ![t] = Step(tdone[t])]
  /\ Goto(t, "saved")
  /\ UNCHANGED <<config, tdone, tmem, shared, engineVars, workerVars, store>>

\* Mutant of SavedBarrier: rank 0 does not wait for the others.
SavedNoBarrier(t) ==
  /\ tpc[t] = "saved"
  /\ Goto(t, IF t = Root THEN "publish" ELSE "validated")
  /\ UNCHANGED <<config, tdone, saved, tmem, shared, engineVars, workerVars, store>>

SavedBarrier(t) ==
  /\ TrainersAt(t, "saved")
  /\ Goto(t, IF t = Root THEN "publish" ELSE "validated")
  /\ UNCHANGED <<config, tdone, saved, tmem, shared, engineVars, workerVars, store>>

PublishLoad(t) ==
  /\ tpc[t] = "publish"
  /\ store' = [store EXCEPT !.load = TRUE]
  /\ Goto(t, "poll")
  /\ UNCHANGED <<config, tdone, saved, tmem, shared, engineVars, workerVars>>

\* Rank 0 polls until every engine has read the checkpoint.
SeeSend(t) ==
  /\ tpc[t] = "poll"
  /\ Cardinality(store.send) = Cardinality(Engines)
  /\ Goto(t, "dropSend")
  /\ UNCHANGED <<config, tdone, saved, tmem, shared, engineVars, workerVars, store>>

\* Mutant of DropSend: the key is left for the next step.
KeepSend(t) ==
  /\ tpc[t] = "dropSend"
  /\ Goto(t, "dropLoad")
  /\ UNCHANGED <<config, tdone, saved, tmem, shared, engineVars, workerVars, store>>

DropSend(t) ==
  /\ tpc[t] = "dropSend"
  /\ store' = [store EXCEPT !.send = {}]
  /\ Goto(t, "dropLoad")
  /\ UNCHANGED <<config, tdone, saved, tmem, shared, engineVars, workerVars>>

DropLoad(t) ==
  /\ tpc[t] = "dropLoad"
  /\ store' = [store EXCEPT !.load = FALSE]
  /\ Goto(t, "validated")
  /\ UNCHANGED <<config, tdone, saved, tmem, shared, engineVars, workerVars>>

ValidatedBarrier(t) ==
  /\ TrainersAt(t, "validated")
  /\ Goto(t, "write")
  /\ UNCHANGED <<config, tdone, saved, tmem, shared, engineVars, workerVars, store>>

\* Separated mode: send and the barrier of the joint group.
Send(t) ==
  /\ ~colocate
  /\ tpc[t] = "write"
  /\ Goto(t, "sending")
  /\ UNCHANGED <<config, tdone, saved, tmem, shared, engineVars, workerVars, store>>

Sent(t) ==
  /\ tpc[t] = "sending"
  /\ \A u \in Devices :
       /\ TrainerReached(u, Step(tdone[t]), "sending")
       /\ WorkerReached(u, Step(tdone[t]), "exchange")
  /\ Return(t)
  /\ UNCHANGED <<config, saved, tmem, shared, engineVars, workerVars, store>>

\* Colocated mode: the weights are converted and leave the device.
Offload(t) ==
  /\ colocate
  /\ tpc[t] = "write"
  /\ tmem' = [tmem EXCEPT ![t] = FALSE]
  /\ Goto(t, "offload")
  /\ UNCHANGED <<config, tdone, saved, shared, engineVars, workerVars, store>>

\* Mutant of AnnounceOffload: the key is put, not added to.
AnnounceOffloadPut(t) ==
  /\ tpc[t] = "offload"
  /\ store' = [store EXCEPT !.offloaded = {t}]
  /\ Goto(t, "share")
  /\ UNCHANGED <<config, tdone, saved, tmem, shared, engineVars, workerVars>>

AnnounceOffload(t) ==
  /\ tpc[t] = "offload"
  /\ store' = [store EXCEPT !.offloaded = @ \cup {t}]
  /\ Goto(t, "share")
  /\ UNCHANGED <<config, tdone, saved, tmem, shared, engineVars, workerVars>>

Share(t) ==
  /\ tpc[t] = "share"
  /\ shared' = [shared EXCEPT ![t] = TRUE]
  /\ store' = [store EXCEPT !.serialized = @ \cup {<<t, Step(tdone[t])>>}]
  /\ Goto(t, "waitUpdated")
  /\ UNCHANGED <<config, tdone, saved, tmem, engineVars, workerVars>>

\* The key of this device and step: nobody else deletes it.
FreeShared(t) ==
  /\ tpc[t] = "waitUpdated"
  /\ <<t, Step(tdone[t])>> \in store.updated
  /\ store' = [store EXCEPT !.updated = @ \ {<<t, Step(tdone[t])>>}]
  /\ shared' = [shared EXCEPT ![t] = FALSE]
  /\ Goto(t, "freed")
  /\ UNCHANGED <<config, tdone, saved, tmem, engineVars, workerVars>>

AnnounceWritten(t) ==
  /\ tpc[t] = "freed"
  /\ store' = [store EXCEPT !.written = @ \cup {<<t, Step(tdone[t])>>}]
  /\ Goto(t, "waitFinished")
  /\ UNCHANGED <<config, tdone, saved, tmem, shared, engineVars, workerVars>>

\* _finish_weights_update.
SeeFinished(t) ==
  /\ tpc[t] = "waitFinished"
  /\ Cardinality(store.finished) >= Cardinality(Engines)
  /\ Goto(t, "finished")
  /\ UNCHANGED <<config, tdone, saved, tmem, shared, engineVars, workerVars, store>>

FinishedBarrier(t) ==
  /\ TrainersAt(t, "finished")
  /\ IF t = Root
     THEN Goto(t, "dropFinished") /\ UNCHANGED tdone
     ELSE Return(t)
  /\ UNCHANGED <<config, saved, tmem, shared, engineVars, workerVars, store>>

DropFinished(t) ==
  /\ tpc[t] = "dropFinished"
  /\ store' = [store EXCEPT !.finished = {}]
  /\ Goto(t, "dropOptimizers")
  /\ UNCHANGED <<config, tdone, saved, tmem, shared, engineVars, workerVars>>

DropOptimizers(t) ==
  /\ tpc[t] = "dropOptimizers"
  /\ store' = [store EXCEPT !.optimizers = FALSE]
  /\ Goto(t, "dropOffloaded")
  /\ UNCHANGED <<config, tdone, saved, tmem, shared, engineVars, workerVars>>

\* Mutant of DropOffloaded: the key is left for the next step.
KeepOffloaded(t) ==
  /\ tpc[t] = "dropOffloaded"
  /\ Return(t)
  /\ UNCHANGED <<config, saved, tmem, shared, engineVars, workerVars, store>>

DropOffloaded(t) ==
  /\ tpc[t] = "dropOffloaded"
  /\ store' = [store EXCEPT !.offloaded = {}]
  /\ Return(t)
  /\ UNCHANGED <<config, saved, tmem, shared, engineVars, workerVars>>
-----------------------------------------------------------------------------
(***************************************************************************)
(* The engines: update_weights.                                            *)
(***************************************************************************)

EngineGoto(e, pc) == epc' = [epc EXCEPT ![e] = pc]

\* A colocated engine releases its memory when it is initialized.
Initialize(e) ==
  /\ epc[e] = "new"
  /\ emem' = [emem EXCEPT ![e] = ~colocate]
  /\ store' = [store EXCEPT !.inited = @ \cup {e}]
  /\ EngineGoto(e, "idle")
  /\ UNCHANGED <<config, edone, trainerVars, workerVars>>

AfterPreValidate == IF colocate THEN "release" ELSE "update"

\* The driver starts an engine when the engines and rank 0 have ended the
\* step before.
UpdateStart(e) ==
  /\ epc[e] = "idle"
  /\ edone[e] < Steps
  /\ tdone[Root] >= edone[e]
  /\ \A f \in Engines : epc[f] # "new" /\ edone[f] >= edone[e]
  /\ EngineGoto(e, IF Step(edone[e]) \in validated
                   THEN "waitLoad" ELSE AfterPreValidate)
  /\ UNCHANGED <<config, edone, emem, trainerVars, workerVars, store>>

\* _pre_validate_weights.
SeeLoad(e) ==
  /\ epc[e] = "waitLoad"
  /\ store.load
  /\ EngineGoto(e, IF colocate THEN "waitOptimizers" ELSE "loading")
  /\ UNCHANGED <<config, edone, emem, trainerVars, workerVars, store>>

ResumeForLoad(e) ==
  /\ epc[e] = "waitOptimizers"
  /\ store.optimizers
  /\ emem' = [emem EXCEPT ![e] = TRUE]
  /\ EngineGoto(e, "loading")
  /\ UNCHANGED <<config, edone, trainerVars, workerVars, store>>

\* update_weights_from_disk and the snapshot of what it loaded.
Load(e) ==
  /\ epc[e] = "loading"
  /\ EngineGoto(e, "addSend")
  /\ UNCHANGED <<config, edone, emem, trainerVars, workerVars, store>>

AddSend(e) ==
  /\ epc[e] = "addSend"
  /\ store' = [store EXCEPT !.send = @ \cup {e}]
  /\ EngineGoto(e, "readSend")
  /\ UNCHANGED <<config, edone, emem, trainerVars, workerVars>>

AllSent == Cardinality(store.send) = Cardinality(Engines)

\* The first get_object: when the writer has deleted the key it returns None,
\* and len(None) raises.
ReadSend(e) ==
  /\ epc[e] = "readSend"
  /\ EngineGoto(e, IF store.send = {} THEN "failed"
                   ELSE IF AllSent THEN AfterPreValidate
                   ELSE "pollSend")
  /\ UNCHANGED <<config, edone, emem, trainerVars, workerVars, store>>

\* The polls after it take a deleted key for the end of the wait.
SeeAllSent(e) ==
  /\ epc[e] = "pollSend"
  /\ store.send = {} \/ AllSent
  /\ EngineGoto(e, AfterPreValidate)
  /\ UNCHANGED <<config, edone, emem, trainerVars, workerVars, store>>

\* _pre_validate_weights and update_weights release the memory in turn; the
\* second release finds nothing to do.
Release(e) ==
  /\ epc[e] = "release"
  /\ emem' = [emem EXCEPT ![e] = FALSE]
  /\ EngineGoto(e, "waitOffloaded")
  /\ UNCHANGED <<config, edone, trainerVars, workerVars, store>>

\* _pre_update_weights.
ResumeWeights(e) ==
  /\ epc[e] = "waitOffloaded"
  /\ Cardinality(store.offloaded) >= Cardinality(Devices)
  /\ emem' = [emem EXCEPT ![e] = TRUE]
  /\ EngineGoto(e, "update")
  /\ UNCHANGED <<config, edone, trainerVars, workerVars, store>>

\* execute_task_in_model_worker returns when all workers have. The engine then
\* verifies the weights on its own.
Updated(e) ==
  /\ epc[e] = "update"
  /\ \A d \in Devices : EngineOf[d] = e => wdone[d] = Step(edone[e])
  /\ IF colocate
     THEN EngineGoto(e, "report") /\ UNCHANGED edone
     ELSE /\ EngineGoto(e, "idle")
          /\ edone' = [edone EXCEPT ![e] = @ + 1]
  /\ UNCHANGED <<config, emem, trainerVars, workerVars, store>>

ReportFinished(e) ==
  /\ epc[e] = "report"
  /\ store' = [store EXCEPT !.finished = @ \cup {e}]
  /\ EngineGoto(e, "resumeCache")
  /\ UNCHANGED <<config, edone, emem, trainerVars, workerVars>>

ResumeCache(e) ==
  /\ epc[e] = "resumeCache"
  /\ EngineGoto(e, "idle")
  /\ edone' = [edone EXCEPT ![e] = @ + 1]
  /\ UNCHANGED <<config, emem, trainerVars, workerVars, store>>
-----------------------------------------------------------------------------
(***************************************************************************)
(* The workers: what execute_task_in_model_worker runs. The flush of the   *)
(* scheduler's cache that ends it is left out.                             *)
(***************************************************************************)

WorkerGoto(d, pc) == wpc' = [wpc EXCEPT ![d] = pc]

Called(d) ==
  /\ wpc[d] = "idle"
  /\ epc[EngineOf[d]] = "update"
  /\ wdone[d] = edone[EngineOf[d]]

\* Separated mode: recv and the barrier of the joint group.
Receive(d) ==
  /\ ~colocate
  /\ Called(d)
  /\ WorkerGoto(d, "exchange")
  /\ UNCHANGED <<config, wdone, trainerVars, engineVars, store>>

Received(d) ==
  /\ ~colocate
  /\ wpc[d] = "exchange"
  /\ \A u \in Devices :
       /\ TrainerReached(u, Step(wdone[d]), "sending")
       /\ WorkerReached(u, Step(wdone[d]), "exchange")
  /\ wdone' = [wdone EXCEPT ![d] = @ + 1]
  /\ WorkerGoto(d, "idle")
  /\ UNCHANGED <<config, trainerVars, engineVars, store>>

\* collect_training_weights maps the buffers of the device's training rank.
Collect(d) ==
  /\ colocate
  /\ Called(d)
  /\ <<d, Step(wdone[d])>> \in store.serialized
  /\ WorkerGoto(d, "exchange")
  /\ UNCHANGED <<config, wdone, trainerVars, engineVars, store>>

\* Mutant of Exchange: completion is signalled before the mapping is closed.
ExchangeSignalFirst(d) ==
  /\ colocate
  /\ wpc[d] = "exchange"
  /\ \A u \in Devices : WorkerReached(u, Step(wdone[d]), "exchange")
  /\ IF <<d, Step(wdone[d])>> \notin store.updated
     THEN /\ store' = [store EXCEPT !.updated = @ \cup {<<d, Step(wdone[d])>>}]
          /\ UNCHANGED wpc
     ELSE /\ WorkerGoto(d, "barrier")
          /\ UNCHANGED store
  /\ UNCHANGED <<config, wdone, trainerVars, engineVars>>

\* The exchange needs every worker; the mapping is closed after it.
Exchange(d) ==
  /\ colocate
  /\ wpc[d] = "exchange"
  /\ \A u \in Devices : WorkerReached(u, Step(wdone[d]), "exchange")
  /\ WorkerGoto(d, "signal")
  /\ UNCHANGED <<config, wdone, trainerVars, engineVars, store>>

SignalUpdated(d) ==
  /\ wpc[d] = "signal"
  /\ store' = [store EXCEPT !.updated = @ \cup {<<d, Step(wdone[d])>>}]
  /\ WorkerGoto(d, "barrier")
  /\ UNCHANGED <<config, wdone, trainerVars, engineVars>>

WorkersBarrier(d) ==
  /\ wpc[d] = "barrier"
  /\ \A u \in Devices : WorkerReached(u, Step(wdone[d]), "barrier")
  /\ WorkerGoto(d, "waitWritten")
  /\ UNCHANGED <<config, wdone, trainerVars, engineVars, store>>

\* Mutant of TakeWritten: the worker does not wait for the training rank.
SkipWritten(d) ==
  /\ wpc[d] = "waitWritten"
  /\ wdone' = [wdone EXCEPT ![d] = @ + 1]
  /\ WorkerGoto(d, "idle")
  /\ UNCHANGED <<config, trainerVars, engineVars, store>>

\* get_object_then_delete.
TakeWritten(d) ==
  /\ wpc[d] = "waitWritten"
  /\ <<d, Step(wdone[d])>> \in store.written
  /\ store' = [store EXCEPT !.written = @ \ {<<d, Step(wdone[d])>>}]
  /\ wdone' = [wdone EXCEPT ![d] = @ + 1]
  /\ WorkerGoto(d, "idle")
  /\ UNCHANGED <<config, trainerVars, engineVars>>
-----------------------------------------------------------------------------
TrainerStep(t) ==
  \/ WriteStart(t) \/ ResumedBarrier(t) \/ AnnounceOptimizers(t) \/ Save(t)
  \/ SavedBarrier(t) \/ PublishLoad(t) \/ SeeSend(t) \/ DropSend(t)
  \/ DropLoad(t) \/ ValidatedBarrier(t) \/ Send(t) \/ Sent(t) \/ Offload(t)
  \/ AnnounceOffload(t) \/ Share(t) \/ FreeShared(t) \/ AnnounceWritten(t)
  \/ SeeFinished(t) \/ FinishedBarrier(t) \/ DropFinished(t)
  \/ DropOptimizers(t) \/ DropOffloaded(t)

EngineStep(e) ==
  \/ Initialize(e) \/ UpdateStart(e) \/ SeeLoad(e) \/ ResumeForLoad(e)
  \/ Load(e) \/ AddSend(e) \/ ReadSend(e) \/ SeeAllSent(e) \/ Release(e)
  \/ ResumeWeights(e) \/ Updated(e) \/ ReportFinished(e) \/ ResumeCache(e)

WorkerStep(d) ==
  \/ Receive(d) \/ Received(d) \/ Collect(d) \/ Exchange(d)
  \/ SignalUpdated(d) \/ WorkersBarrier(d) \/ TakeWritten(d)

Next ==
  \/ \E d \in Devices : TrainerStep(d) \/ WorkerStep(d)
  \/ \E e \in Engines : EngineStep(e)

Spec == Init /\ [][Next]_vars

\* Every process keeps running: no time-out of 10000 s is modelled.
FairSpec ==
  /\ Spec
  /\ \A d \in Devices : WF_vars(TrainerStep(d)) /\ WF_vars(WorkerStep(d))
  /\ \A e \in Engines : WF_vars(EngineStep(e))
-----------------------------------------------------------------------------
(***************************************************************************)
(* Properties.                                                             *)
(***************************************************************************)

\* While an engine reads the checkpoint every rank has written its shards of
\* this step, and none has overwritten them.
LoadsWholeCheckpoint ==
  \A e \in Engines : epc[e] = "loading" =>
    \A t \in Devices : saved[t] = Step(edone[e])

\* A colocated engine takes its memory back for the exchange only when no
\* training rank has weights on a device, and holds it alone to the end.
WeightsNeverShareDevice ==
  \A e \in Engines, t \in Devices :
    colocate /\ epc[e] \in {"update", "report", "resumeCache"} => ~tmem[t]

\* The buffers a worker has mapped are not freed under it.
MappedBuffersLive == \A d \in Devices : wpc[d] = "exchange" /\ colocate => shared[d]

\* An engine takes its cache back when the buffers on its devices are freed.
CacheAfterBuffersFreed ==
  \A e \in Engines : epc[e] = "resumeCache" =>
    \A d \in Devices : EngineOf[d] = e => ~shared[d]

\* Between two steps no key is left that the next step could take for its own.
StepLeavesNoKeys ==
  (/\ \A t, d \in Devices : tpc[t] = "idle" /\ wdone[d] = tdone[t]
   /\ \A e \in Engines : \A t \in Devices : epc[e] = "idle" /\ edone[e] = tdone[t])
  => store = [EmptyStore EXCEPT !.inited = store.inited,
                                !.serialized = store.serialized]

\* _pre_validate_weights expects the writer to delete the key it polls.
NoReaderFails == \A e \in Engines : epc[e] # "failed"

\* Every update ends, unless a reader has failed.
EveryUpdateEnds ==
  <>(\/ /\ \A d \in Devices : tdone[d] = Steps /\ wdone[d] = Steps
        /\ \A e \in Engines : edone[e] = Steps
     \/ \E e \in Engines : epc[e] = "failed")
=============================================================================
