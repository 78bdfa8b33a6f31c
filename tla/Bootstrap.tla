----------------------------- MODULE Bootstrap -----------------------------
(***************************************************************************)
(* The first call of write_weights and update_weights: _initialize of the  *)
(* writer (writer/weights_writer.py, writer/nccl_writer.py), of an engine's *)
(* reader (reader/weights_reader.py) and of its workers                    *)
(* (reader/nccl_reader.py). They exchange configuration, metadata and the  *)
(* address of the group over the meta server, form the group, and try it   *)
(* out with one message and one batch (util/process_group.py).             *)
(*                                                                         *)
(* In the group the workers come first and the training ranks after them;  *)
(* in colocated mode it has the workers only. The meta server is new: keys *)
(* of an earlier run are not modelled.                                     *)
(***************************************************************************)
EXTENDS Integers, FiniteSets

CONSTANTS
  Devices,     \* training ranks, and workers
  Engines,     \* inference engines
  EngineOf,    \* the engine of a worker
  WorkerRank,  \* transfer rank of a worker: engine by engine
  TrainRank    \* global rank of a training rank

World == Cardinality(Devices)

\* What WeightsExchange assumes of the ranks. One worker alone in colocated
\* mode would send to itself.
BootAssumption ==
  /\ EngineOf \in [Devices -> Engines]
  /\ WorkerRank \in [Devices -> 0 .. World - 1]
  /\ TrainRank \in [Devices -> 0 .. World - 1]
  /\ \A d, u \in Devices : d # u => WorkerRank[d] # WorkerRank[u] /\ TrainRank[d] # TrainRank[u]
  /\ World > 1

VARIABLES
  colocate,  \* enable_colocate_mode
  keys,      \* the keys of the meta server
  tboot,     \* position of a training rank
  eboot,     \* position of an engine
  wboot,     \* position of a worker
  mapping    \* the devices a worker has in training_device_mapping

bootVars == <<keys, tboot, eboot, wboot, mapping>>

TrainRoot  == CHOOSE t \in Devices : TrainRank[t] = 0
First      == CHOOSE d \in Devices : WorkerRank[d] = 0
LastWorker == CHOOSE d \in Devices : WorkerRank[d] = World - 1
LastTrain  == CHOOSE t \in Devices : TrainRank[t] = World - 1

TrainerPlaces ==
  <<"conf", "gather", "putMeta", "getMeta", "broadcast", "entry", "master",
    "group", "handshake", "batch", "tried", "ready">>
EnginePlaces == <<"conf", "putMeta", "getMeta", "workers", "ready">>
WorkerPlaces ==
  <<"master", "group", "handshake", "batch", "tried", "entry", "waitWorkers",
    "waitTrainers", "ready">>

Place(places, place) == CHOOSE i \in DOMAIN places : places[i] = place

Init ==
  /\ keys = [conf |-> FALSE, inferMeta |-> FALSE, trainMeta |-> FALSE,
             master |-> FALSE, workers |-> {}, trainers |-> {}]
  /\ tboot = [t \in Devices |-> "conf"]
  /\ eboot = [e \in Engines |-> "conf"]
  /\ wboot = [d \in Devices |-> "master"]
  /\ mapping = [d \in Devices |-> {}]

TrainerHas(t, place) == Place(TrainerPlaces, tboot[t]) >= Place(TrainerPlaces, place)
WorkerHas(d, place)  == Place(WorkerPlaces, wboot[d]) >= Place(WorkerPlaces, place)

TrainerTo(t, place) ==
  tboot' = [tboot EXCEPT ![t] = place] /\ UNCHANGED <<eboot, wboot, mapping>>
EngineTo(e, place) ==
  eboot' = [eboot EXCEPT ![e] = place] /\ UNCHANGED <<tboot, wboot, mapping>>
WorkerTo(d, place) ==
  wboot' = [wboot EXCEPT ![d] = place] /\ UNCHANGED <<tboot, eboot>>
-----------------------------------------------------------------------------
(***************************************************************************)
(* The group. A member is a worker or a training rank; all of them go the  *)
(* same way through "group", "handshake", "batch" and "tried".             *)
(***************************************************************************)
Workers  == {<<"worker", d>> : d \in Devices}
Trainers == {<<"trainer", t>> : t \in Devices}
Members  == IF colocate THEN Workers ELSE Workers \cup Trainers

MemberRank(m) ==
  IF m[1] = "worker" THEN WorkerRank[m[2]] ELSE World + TrainRank[m[2]]

Has(m, place) ==
  IF m[1] = "worker" THEN WorkerHas(m[2], place) ELSE TrainerHas(m[2], place)

\* init_weights_update_group meets all members at the address, and so do the
\* barrier after it and the one that ends setup_batch_isend_irecv.
AllHave(place) == \A m \in Members : Has(m, place)

LastMember == IF colocate THEN <<"worker", LastWorker>> ELSE <<"trainer", LastTrain>>

\* _shake_hands_with_writer, _shake_hands_with_reader: rank 0 receives from the
\* last rank, the others go on.
HandsShaken(m) ==
  /\ m = <<"worker", First>> => Has(LastMember, "handshake")
  /\ m = LastMember => Has(<<"worker", First>>, "handshake")

\* setup_batch_isend_irecv: the halves of an even world in pairs, an odd one in
\* a ring.
Partners(m) ==
  LET size == Cardinality(Members)
      half == size \div 2 IN
    {n \in Members :
       IF size % 2 = 0
       THEN MemberRank(n) \in {MemberRank(m) - half, MemberRank(m) + half}
       ELSE MemberRank(n) \in {(MemberRank(m) + 1) % size, (MemberRank(m) - 1) % size}}

BatchMet(m) == \A n \in Partners(m) : Has(n, "batch")

\* Mutant of GroupTried: the batch is not followed by a barrier.
GroupTriedAlone == TRUE

GroupTried == AllHave("tried")
-----------------------------------------------------------------------------
(***************************************************************************)
(* The training ranks.                                                     *)
(***************************************************************************)
GetConf(t) ==
  /\ tboot[t] = "conf"
  /\ keys.conf
  /\ TrainerTo(t, "gather")
  /\ UNCHANGED keys

\* McoreParamMetaResolver: all_gather_object of the raw metadata.
Gather(t) ==
  /\ tboot[t] = "gather"
  /\ \A u \in Devices : TrainerHas(u, "gather")
  /\ TrainerTo(t, IF t = TrainRoot THEN "putMeta" ELSE "broadcast")
  /\ UNCHANGED keys

PutTrainMeta(t) ==
  /\ tboot[t] = "putMeta"
  /\ keys' = [keys EXCEPT !.trainMeta = TRUE]
  /\ TrainerTo(t, "getMeta")

GetInferMeta(t) ==
  /\ tboot[t] = "getMeta"
  /\ keys.inferMeta
  /\ TrainerTo(t, "broadcast")
  /\ UNCHANGED keys

\* broadcast_object_list from rank 0, and num_infer_engines, which every engine
\* has put before its configuration.
Broadcast(t) ==
  /\ tboot[t] = "broadcast"
  /\ TrainerHas(TrainRoot, "broadcast")
  /\ TrainerTo(t, IF colocate THEN "entry" ELSE "master")
  /\ UNCHANGED keys

\* _init_writer_in_colocate_mode.
AddTrainer(t) ==
  /\ tboot[t] = "entry"
  /\ keys' = [keys EXCEPT !.trainers = @ \cup {t}]
  /\ TrainerTo(t, "ready")

GetMaster(t) ==
  /\ tboot[t] = "master"
  /\ keys.master
  /\ TrainerTo(t, "group")
  /\ UNCHANGED keys

TrainerInGroup(t) ==
  /\ \/ tboot[t] = "group" /\ AllHave("group") /\ TrainerTo(t, "handshake")
     \/ tboot[t] = "handshake" /\ HandsShaken(<<"trainer", t>>) /\ TrainerTo(t, "batch")
     \/ tboot[t] = "batch" /\ BatchMet(<<"trainer", t>>) /\ TrainerTo(t, "tried")
     \/ tboot[t] = "tried" /\ GroupTried /\ TrainerTo(t, "ready")
  /\ UNCHANGED keys
-----------------------------------------------------------------------------
(***************************************************************************)
(* The engines.                                                            *)
(***************************************************************************)
PutConf(e) ==
  /\ eboot[e] = "conf"
  /\ keys' = [keys EXCEPT !.conf = TRUE]
  /\ EngineTo(e, IF e = EngineOf[First] THEN "putMeta" ELSE "getMeta")

PutInferMeta(e) ==
  /\ eboot[e] = "putMeta"
  /\ keys' = [keys EXCEPT !.inferMeta = TRUE]
  /\ EngineTo(e, "getMeta")

GetTrainMeta(e) ==
  /\ eboot[e] = "getMeta"
  /\ keys.trainMeta
  /\ EngineTo(e, "workers")
  /\ UNCHANGED keys

\* execute_task_in_model_worker returns when all its workers have.
WorkersReady(e) ==
  /\ eboot[e] = "workers"
  /\ \A d \in Devices : EngineOf[d] = e => wboot[d] = "ready"
  /\ EngineTo(e, "ready")
  /\ UNCHANGED keys
-----------------------------------------------------------------------------
(***************************************************************************)
(* The workers: _init_in_tp_worker.                                        *)
(***************************************************************************)
Address(d) ==
  /\ wboot[d] = "master"
  /\ eboot[EngineOf[d]] = "workers"
  /\ IF d = First
     THEN keys' = [keys EXCEPT !.master = TRUE]
     ELSE keys.master /\ UNCHANGED keys
  /\ WorkerTo(d, "group")
  /\ UNCHANGED mapping

WorkerInGroup(d) ==
  /\ \/ wboot[d] = "group" /\ AllHave("group") /\ WorkerTo(d, "handshake")
     \/ wboot[d] = "handshake" /\ HandsShaken(<<"worker", d>>) /\ WorkerTo(d, "batch")
     \/ wboot[d] = "batch" /\ BatchMet(<<"worker", d>>) /\ WorkerTo(d, "tried")
     \/ /\ wboot[d] = "tried"
        /\ GroupTried
        /\ WorkerTo(d, IF colocate THEN "entry" ELSE "ready")
  /\ UNCHANGED <<keys, mapping>>

\* _init_reader_in_colocate_mode.
AddWorker(d) ==
  /\ wboot[d] = "entry"
  /\ keys' = [keys EXCEPT !.workers = @ \cup {d}]
  /\ WorkerTo(d, "waitWorkers")
  /\ UNCHANGED mapping

SeeWorkers(d) ==
  /\ wboot[d] = "waitWorkers"
  /\ Cardinality(keys.workers) >= World
  /\ WorkerTo(d, "waitTrainers")
  /\ UNCHANGED <<keys, mapping>>

\* Mutant of SeeTrainers: the set is read without the wait.
SeeTrainersAtOnce(d) ==
  /\ wboot[d] = "waitTrainers"
  /\ mapping' = [mapping EXCEPT ![d] = keys.trainers]
  /\ WorkerTo(d, "ready")
  /\ UNCHANGED keys

\* The full set no longer changes, so that wait and get_set are one step.
SeeTrainers(d) ==
  /\ wboot[d] = "waitTrainers"
  /\ Cardinality(keys.trainers) >= World
  /\ mapping' = [mapping EXCEPT ![d] = keys.trainers]
  /\ WorkerTo(d, "ready")
  /\ UNCHANGED keys

TrainerBoot(t) ==
  \/ GetConf(t) \/ Gather(t) \/ PutTrainMeta(t) \/ GetInferMeta(t) \/ Broadcast(t)
  \/ AddTrainer(t) \/ GetMaster(t) \/ TrainerInGroup(t)

EngineBoot(e) == PutConf(e) \/ PutInferMeta(e) \/ GetTrainMeta(e) \/ WorkersReady(e)

WorkerBoot(d) ==
  Address(d) \/ WorkerInGroup(d) \/ AddWorker(d) \/ SeeWorkers(d) \/ SeeTrainers(d)
=============================================================================
