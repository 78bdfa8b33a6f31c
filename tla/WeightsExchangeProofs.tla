----------------------- MODULE WeightsExchangeProofs -----------------------
(***************************************************************************)
(* Proofs about the update protocol, for every number of devices, engines  *)
(* and steps, in both modes, whichever steps are validated: WeightsStep,   *)
(* and then WeightsExchange, which takes no step of the protocol that      *)
(* WeightsStep does not take, so that what is proved of one holds of the   *)
(* other. The bootstrap itself keeps the processes out of the group until  *)
(* all of them have tried it.                                              *)
(***************************************************************************)
EXTENDS WeightsExchange, FiniteNumbers


-----------------------------------------------------------------------------
(***************************************************************************)
(* The positions of write_weights.                                         *)
(***************************************************************************)

\* How far a training rank has come in a step.
Polling   == {"publish", "poll", "dropSend", "dropLoad"}
Dropping  == {"dropFinished", "dropOptimizers", "dropOffloaded"}
Ending    == {"finished"} \cup Dropping
Freed     == {"freed", "waitFinished"} \cup Ending
Offloaded == {"share", "waitUpdated"} \cup Freed
Saved     == {"saved", "validated", "write", "sending", "offload"} \cup
             Polling \cup Offloaded

LEMMA TrainerPositions ==
  Elements(TrainerPcs) = {"idle", "resumed", "announce", "save"} \cup Saved
BY DEF Elements, TrainerPcs, Saved, Polling, Offloaded, Freed, Ending, Dropping

LEMMA TrainerPcsApart ==
  \A i, j \in 1 .. 21 : TrainerPcs[i] = TrainerPcs[j] => i = j
BY DEF TrainerPcs

LEMMA AtIs ==
  ASSUME NEW i \in 1 .. 21
  PROVE  At(TrainerPcs, TrainerPcs[i]) = i
<1>1. DOMAIN TrainerPcs = 1 .. 21
  BY DEF TrainerPcs
<1>2. QED
  BY <1>1, TrainerPcsApart DEF At

LEMMA ReachedIs ==
  ASSUME NEW u \in Devices, tpc[u] \in Elements(TrainerPcs), NEW s,
         NEW i \in 1 .. 21, TrainerReached(u, s, TrainerPcs[i])
  PROVE  \/ tdone[u] >= s
         \/ tdone[u] = s - 1 /\ \E j \in i .. 21 : tpc[u] = TrainerPcs[j]
<1>1. PICK j \in 1 .. 21 : tpc[u] = TrainerPcs[j]
  <2>1. DOMAIN TrainerPcs = 1 .. 21
    BY DEF TrainerPcs
  <2>2. QED
    BY <2>1 DEF Elements
<1>2. At(TrainerPcs, tpc[u]) = j /\ At(TrainerPcs, TrainerPcs[i]) = i
  BY <1>1, AtIs
<1>3. QED
  BY <1>1, <1>2 DEF TrainerReached

\* Who has passed a point of the code.
RankPast(d, s, S) == tdone[d] >= s \/ (Step(tdone[d]) = s /\ tpc[d] \in S)

LEMMA Reached ==
  ASSUME NEW u \in Devices, tpc[u] \in Elements(TrainerPcs), tdone[u] \in Nat,
         NEW s \in Nat
  PROVE  /\ TrainerReached(u, s, "saved") => RankPast(u, s, Saved)
         /\ TrainerReached(u, s, "validated") =>
              RankPast(u, s, Saved \ ({"saved"} \cup Polling))
         /\ TrainerReached(u, s, "sending") =>
              RankPast(u, s, {"sending", "offload"} \cup Offloaded)
         /\ TrainerReached(u, s, "finished") => RankPast(u, s, Ending)
<1>0. tdone[u] = s - 1 => Step(tdone[u]) = s
  BY DEF Step
<1>1. ASSUME TrainerReached(u, s, "saved")
      PROVE  RankPast(u, s, Saved)
  <2>1. TrainerPcs[5] = "saved" /\ \A j \in 5 .. 21 : TrainerPcs[j] \in Saved
    BY DEF TrainerPcs, Saved, Polling, Offloaded, Freed, Ending, Dropping
  <2>2. QED
    BY <1>0, <1>1, <2>1, ReachedIs DEF RankPast
<1>2. ASSUME TrainerReached(u, s, "validated")
      PROVE  RankPast(u, s, Saved \ ({"saved"} \cup Polling))
  <2>1. /\ TrainerPcs[10] = "validated"
        /\ \A j \in 10 .. 21 : TrainerPcs[j] \in Saved \ ({"saved"} \cup Polling)
    BY DEF TrainerPcs, Saved, Polling, Offloaded, Freed, Ending, Dropping
  <2>2. QED
    BY <1>0, <1>2, <2>1, ReachedIs DEF RankPast
<1>3. ASSUME TrainerReached(u, s, "sending")
      PROVE  RankPast(u, s, {"sending", "offload"} \cup Offloaded)
  <2>1. /\ TrainerPcs[12] = "sending"
        /\ \A j \in 12 .. 21 : TrainerPcs[j] \in {"sending", "offload"} \cup Offloaded
    BY DEF TrainerPcs, Offloaded, Freed, Ending, Dropping
  <2>2. QED
    BY <1>0, <1>3, <2>1, ReachedIs DEF RankPast
<1>4. ASSUME TrainerReached(u, s, "finished")
      PROVE  RankPast(u, s, Ending)
  <2>1. TrainerPcs[18] = "finished" /\ \A j \in 18 .. 21 : TrainerPcs[j] \in Ending
    BY DEF TrainerPcs, Ending, Dropping
  <2>2. QED
    BY <1>0, <1>4, <2>1, ReachedIs DEF RankPast
<1>5. QED
  BY <1>1, <1>2, <1>3, <1>4
-----------------------------------------------------------------------------
(***************************************************************************)
(* Types.                                                                  *)
(***************************************************************************)

\* The names of the positions.
LEMMA Positions ==
  /\ {"idle", "resumed", "announce", "save", "saved", "publish", "poll",
      "dropSend", "dropLoad", "validated", "write", "sending", "offload", "share",
      "waitUpdated", "freed", "waitFinished", "finished", "dropFinished",
      "dropOptimizers", "dropOffloaded"} \subseteq Elements(TrainerPcs)
  /\ {"new", "idle", "waitLoad", "waitOptimizers", "loading", "addSend",
      "readSend", "pollSend", "release", "waitOffloaded", "update", "report",
      "resumeCache", "failed"} \subseteq Elements(EnginePcs)
  /\ {"idle", "exchange", "signal", "barrier", "waitWritten"}
       \subseteq Elements(WorkerPcs)
BY DEF Elements, TrainerPcs, EnginePcs, WorkerPcs

\* A process within a step is within one of the steps there are.
Bounded ==
  /\ \A t \in Devices : tpc[t] # "idle" => tdone[t] < Steps
  /\ \A e \in Engines : epc[e] \notin {"new", "idle"} => edone[e] < Steps
  /\ \A d \in Devices : wpc[d] # "idle" => wdone[d] < Steps

Stores == [inited     : SUBSET Engines,
           optimizers : BOOLEAN,
           load       : BOOLEAN,
           send       : SUBSET Engines,
           offloaded  : SUBSET Devices,
           serialized : SUBSET (Devices \X (1 .. Steps)),
           updated    : SUBSET (Devices \X (1 .. Steps)),
           written    : SUBSET (Devices \X (1 .. Steps)),
           finished   : SUBSET Engines]

TypeInv == TypeOK /\ Bounded

LEMMA TrainerStore ==
  ASSUME TypeInv, NEW t \in Devices, TrainerStep(t)
  PROVE  store' \in Stores
<1>1. store \in Stores
  BY DEF TypeInv, TypeOK, Stores
<1>2. CASE UNCHANGED store
  BY <1>1, <1>2
<1>3. CASE AnnounceOptimizers(t) \/ PublishLoad(t) \/ DropSend(t) \/ DropLoad(t)
  <2>1. CASE AnnounceOptimizers(t) \/ PublishLoad(t)
    BY <1>1, <2>1 DEF AnnounceOptimizers, PublishLoad, Stores
  <2>2. CASE DropSend(t) \/ DropLoad(t)
    BY <1>1, <2>2 DEF DropSend, DropLoad, Stores
  <2>3. QED
    BY <1>3, <2>1, <2>2
<1>4. CASE AnnounceOffload(t) \/ DropOffloaded(t)
  BY <1>1, <1>4 DEF AnnounceOffload, DropOffloaded, Stores
<1>5. CASE Share(t) \/ AnnounceWritten(t) \/ FreeShared(t)
  <2>1. <<t, Step(tdone[t])>> \in Devices \X (1 .. Steps)
    <3>1. tpc[t] # "idle"
      BY <1>5 DEF Share, AnnounceWritten, FreeShared
    <3>2. tdone[t] \in 0 .. Steps /\ tdone[t] < Steps /\ Steps \in Nat
      BY <3>1, StepAssumption DEF TypeInv, TypeOK, Bounded
    <3>3. QED
      BY <3>2 DEF Step
  <2>2. CASE Share(t)
    BY <1>1, <2>1, <2>2 DEF Share, Stores
  <2>3. CASE AnnounceWritten(t)
    BY <1>1, <2>1, <2>3 DEF AnnounceWritten, Stores
  <2>4. CASE FreeShared(t)
    BY <1>1, <2>1, <2>4 DEF FreeShared, Stores
  <2>5. QED
    BY <1>5, <2>2, <2>3, <2>4
<1>6. CASE DropFinished(t) \/ DropOptimizers(t)
  BY <1>1, <1>6 DEF DropFinished, DropOptimizers, Stores
<1>7. QED
  BY <1>2, <1>3, <1>4, <1>5, <1>6
  DEF TrainerStep, WriteStart, ResumedBarrier, AnnounceOptimizers, Save, SavedBarrier,
      PublishLoad, SeeSend, DropSend, DropLoad, ValidatedBarrier, Send, Sent,
      Offload, AnnounceOffload, Share, FreeShared, AnnounceWritten,
      SeeFinished, FinishedBarrier, DropFinished, DropOptimizers,
      DropOffloaded

LEMMA TrainerTypeInv ==
  ASSUME TypeInv, NEW t \in Devices, TrainerStep(t)
  PROVE  TypeInv'
<1> USE Positions, StepAssumption
    DEF TypeInv, TypeOK, Bounded, TrainerStep, Goto, Return, Step, config,
        engineVars, workerVars, AfterInitialize, TrainersAt,
        WriteStart, ResumedBarrier, AnnounceOptimizers, Save, SavedBarrier,
        PublishLoad, SeeSend, DropSend, DropLoad, ValidatedBarrier, Send, Sent,
        Offload, AnnounceOffload, Share, FreeShared, AnnounceWritten,
        SeeFinished, FinishedBarrier, DropFinished, DropOptimizers,
        DropOffloaded
<1>1. tdone' \in [Devices -> 0 .. Steps]
  OBVIOUS
<1>2. tpc' \in [Devices -> Elements(TrainerPcs)]
  OBVIOUS
<1>3. /\ tmem' \in [Devices -> BOOLEAN]
      /\ shared' \in [Devices -> BOOLEAN]
      /\ saved' \in [Devices -> 0 .. Steps]
  <2>1. tmem' \in [Devices -> BOOLEAN]
    OBVIOUS
  <2>2. shared' \in [Devices -> BOOLEAN]
    OBVIOUS
  <2>3. saved' \in [Devices -> 0 .. Steps]
    OBVIOUS
  <2>4. QED
    BY <2>1, <2>2, <2>3
<1>4. /\ config' = config /\ engineVars' = engineVars /\ workerVars' = workerVars
  OBVIOUS
<1>5. \A u \in Devices : tpc'[u] # "idle" => tdone'[u] < Steps
  OBVIOUS
<1>6. store' \in Stores
  BY TrainerStore
<1>7. QED
  BY <1>1, <1>2, <1>3, <1>4, <1>5, <1>6 DEF Stores

-----------------------------------------------------------------------------
(***************************************************************************)
(* What a training rank does in a step, and how far it may be from others. *)
(***************************************************************************)

Leaving == {"sending"} \cup Ending

\* What its position says of the mode, of its memory and of its shards.
RankIs(t) ==
  /\ tpc[t] \in {"announce"} \cup Polling \cup Dropping => t = Root
  /\ tpc[t] = "sending" => ~colocate
  /\ tpc[t] \in {"resumed", "announce", "offload"} \cup Offloaded => colocate
  /\ colocate /\ tpc[t] \in {"idle", "offload"} \cup Offloaded => ~tmem[t]
  /\ shared[t] => tpc[t] = "waitUpdated"
  /\ tpc[t] = "waitUpdated" => shared[t]
  /\ tpc[t] \in {"save", "saved"} \cup Polling => Step(tdone[t]) \in validated
  /\ tpc[t] \in Saved /\ Step(tdone[t]) \in validated => saved[t] = Step(tdone[t])

RankInv == \A t \in Devices : RankIs(t)

\* A rank within a step is behind nobody; a rank that has ended a step before
\* another is idle, and the other about to end it.
NobodyBehind ==
  \A t \in Devices : tpc[t] # "idle" =>
    /\ \A e \in Engines : tdone[t] <= edone[e]
    /\ \A u \in Devices : tdone[t] <= tdone[u]

Apart ==
  \A t, u \in Devices : tdone[u] > tdone[t] =>
    /\ tdone[u] = Step(tdone[t])
    /\ tpc[u] = "idle"
    /\ tpc[t] \in Leaving

\* Rank 0 cleans up when every rank has seen that all engines are finished.
RootLast ==
  tpc[Root] \in Dropping =>
    \A u \in Devices : tdone[u] = tdone[Root] => tpc[u] \in Ending

LEMMA TrainerFrame ==
  ASSUME TypeInv, NEW t \in Devices, TrainerStep(t)
  PROVE  /\ colocate' = colocate /\ validated' = validated
         /\ epc' = epc /\ edone' = edone /\ emem' = emem
         /\ wpc' = wpc /\ wdone' = wdone
         /\ \A u \in Devices \ {t} :
              /\ tpc'[u] = tpc[u] /\ tdone'[u] = tdone[u] /\ saved'[u] = saved[u]
              /\ tmem'[u] = tmem[u] /\ shared'[u] = shared[u]
<1> USE DEF TypeInv, TypeOK, TrainerStep, Goto, Return, config, engineVars,
        workerVars,
        WriteStart, ResumedBarrier, AnnounceOptimizers, Save, SavedBarrier,
        PublishLoad, SeeSend, DropSend, DropLoad, ValidatedBarrier, Send, Sent,
        Offload, AnnounceOffload, Share, FreeShared, AnnounceWritten,
        SeeFinished, FinishedBarrier, DropFinished, DropOptimizers,
        DropOffloaded
<1>1. /\ colocate' = colocate /\ validated' = validated
      /\ epc' = epc /\ edone' = edone /\ emem' = emem
      /\ wpc' = wpc /\ wdone' = wdone
  OBVIOUS
<1>2. ASSUME NEW u \in Devices \ {t}
      PROVE  /\ tpc'[u] = tpc[u] /\ tdone'[u] = tdone[u] /\ saved'[u] = saved[u]
             /\ tmem'[u] = tmem[u] /\ shared'[u] = shared[u]
  <2>1. tpc'[u] = tpc[u] /\ tdone'[u] = tdone[u]
    OBVIOUS
  <2>2. saved'[u] = saved[u] /\ tmem'[u] = tmem[u] /\ shared'[u] = shared[u]
    OBVIOUS
  <2>3. QED
    BY <2>1, <2>2
<1>3. QED
  BY <1>1, <1>2

\* What a rank has passed it has passed to the end of the step.
Stages == {Leaving, Ending, Freed, {"waitUpdated"} \cup Freed,
           {"waitFinished"} \cup Ending, Offloaded, Saved, {"sending"}}

\* A rank starts a step, works in one, or ends one.
Starts(t) ==
  /\ tpc[t] = "idle" /\ tpc'[t] \in {"resumed", "save", "write"}
  /\ tdone'[t] = tdone[t] /\ saved' = saved /\ store' = store
  /\ \A u \in Devices : tdone[u] >= tdone[t]
  /\ \A e \in Engines : edone[e] >= tdone[t]

Works(t) ==
  /\ tpc[t] # "idle" /\ tpc'[t] # "idle" /\ tdone'[t] = tdone[t]
  /\ \A S \in Stages : tpc[t] \in S => tpc'[t] \in S
  /\ tpc'[t] \in Dropping /\ tpc[t] \notin Dropping =>
       \A u \in Devices : RankPast(u, Step(tdone[t]), Ending)
  /\ tpc[t] \in Saved => saved'[t] = saved[t]

Ends(t) ==
  /\ tpc[t] \in Leaving /\ tpc'[t] = "idle" /\ tdone'[t] = Step(tdone[t])
  /\ saved' = saved /\ tmem' = tmem /\ shared' = shared
  /\ \A u \in Devices : RankPast(u, Step(tdone[t]), Leaving)
  /\ colocate => \A u \in Devices : RankPast(u, Step(tdone[t]), Ending)
  /\ ~colocate => \A u \in Devices : WorkerReached(u, Step(tdone[t]), "exchange")

LEMMA RankMoves ==
  ASSUME TypeInv, RankInv, NobodyBehind, RootLast, NEW t \in Devices, TrainerStep(t)
  PROVE  Starts(t) \/ Works(t) \/ Ends(t)
<1> USE DEF TypeInv, TypeOK, Goto, Return, AfterInitialize, config, engineVars,
        workerVars, TrainersAt
<1>1. CASE WriteStart(t)
  BY <1>1 DEF WriteStart, Starts
<1>2. CASE ResumedBarrier(t) \/ AnnounceOptimizers(t) \/ Save(t)
  BY <1>2 DEF ResumedBarrier, AnnounceOptimizers, Save, Works, Stages, Leaving, Ending,
              Freed, Offloaded, Saved, Polling, Dropping
<1>3. CASE \/ SavedBarrier(t) \/ PublishLoad(t) \/ SeeSend(t) \/ DropSend(t)
           \/ DropLoad(t) \/ ValidatedBarrier(t)
  BY <1>3 DEF SavedBarrier, PublishLoad, SeeSend, DropSend, DropLoad,
              ValidatedBarrier, Works, Stages, Leaving, Ending, Freed, Offloaded, Saved,
              Polling, Dropping
<1>4. CASE \/ Send(t) \/ Offload(t) \/ AnnounceOffload(t) \/ Share(t)
           \/ FreeShared(t) \/ AnnounceWritten(t) \/ SeeFinished(t)
  BY <1>4 DEF Send, Offload, AnnounceOffload, Share, FreeShared, AnnounceWritten,
              SeeFinished, Works, Stages, Leaving, Ending, Freed, Offloaded, Saved,
              Polling, Dropping
<1>5. CASE DropFinished(t) \/ DropOptimizers(t)
  BY <1>5 DEF DropFinished, DropOptimizers, Works, Stages, Leaving, Ending, Freed,
              Offloaded, Saved, Polling, Dropping
<1>6. Step(tdone[t]) \in Nat /\ \A u \in Devices : tdone[u] \in Nat
  BY StepAssumption DEF Step
<1>7. CASE Sent(t)
  <2>1. ~colocate /\ tpc[t] = "sending"
    BY <1>7 DEF Sent, RankInv, RankIs
  <2>2. ASSUME NEW u \in Devices
        PROVE  RankPast(u, Step(tdone[t]), Leaving)
    <3>1. RankPast(u, Step(tdone[t]), {"sending", "offload"} \cup Offloaded)
      BY <1>6, <1>7, Reached DEF Sent
    <3>2. tpc[u] \notin {"offload"} \cup Offloaded
      BY <2>1 DEF RankInv, RankIs
    <3>3. QED
      BY <3>1, <3>2 DEF RankPast, Leaving
  <2>3. QED
    BY <1>7, <2>1, <2>2 DEF Sent, Ends, Leaving, Step
<1>8. CASE FinishedBarrier(t)
  <2>1. \A u \in Devices : RankPast(u, Step(tdone[t]), Ending)
    BY <1>6, <1>8, Reached DEF FinishedBarrier
  <2>2. \A u \in Devices : RankPast(u, Step(tdone[t]), Leaving)
    BY <2>1 DEF RankPast, Leaving
  <2>3. colocate
    BY <1>8 DEF FinishedBarrier, RankInv, RankIs, Offloaded, Freed, Ending
  <2>4. CASE t = Root
    BY <1>8, <2>1, <2>4
    DEF FinishedBarrier, Works, Stages, Leaving, Ending, Freed, Offloaded, Saved,
        Polling, Dropping
  <2>5. CASE t # Root
    BY <1>8, <2>1, <2>2, <2>3, <2>5 DEF FinishedBarrier, Ends, Leaving, Ending, Step
  <2>6. QED
    BY <2>4, <2>5
<1>9. CASE DropOffloaded(t)
  <2>1. t = Root /\ colocate /\ tpc[Root] \in Dropping
    BY <1>9 DEF DropOffloaded, RankInv, RankIs, Offloaded, Freed, Ending, Dropping
  <2>2. ASSUME NEW u \in Devices
        PROVE  RankPast(u, Step(tdone[t]), Ending)
    <3>1. tdone[t] <= tdone[u]
      BY <1>9 DEF DropOffloaded, NobodyBehind
    <3>2. QED
      BY <2>1, <1>6, <3>1 DEF RootLast, RankPast, Step
  <2>3. \A u \in Devices : RankPast(u, Step(tdone[t]), Leaving)
    BY <2>2 DEF RankPast, Leaving
  <2>4. QED
    BY <1>9, <2>1, <2>2, <2>3 DEF DropOffloaded, Ends, Leaving, Ending, Dropping, Step
<1>10. QED
  BY <1>1, <1>2, <1>3, <1>4, <1>5, <1>7, <1>8, <1>9 DEF TrainerStep

LEMMA TrainerRankInv ==
  ASSUME TypeInv, RankInv, NobodyBehind, RootLast, NEW t \in Devices, TrainerStep(t)
  PROVE  RankInv'
<1>1. ASSUME NEW u \in Devices, u # t
      PROVE  RankIs(u)'
  BY <1>1, TrainerFrame DEF RankInv, RankIs
<1>2. RankIs(t)'
  <2>0. RankIs(t) /\ colocate' = colocate /\ validated' = validated
    BY TrainerFrame DEF RankInv
  <2> USE DEF TypeInv, TypeOK, Goto, Return, AfterInitialize, TrainersAt, Step,
              RankIs, Leaving, Ending, Freed, Offloaded, Saved, Polling, Dropping
  <2>1. CASE WriteStart(t) \/ ResumedBarrier(t) \/ AnnounceOptimizers(t)
    BY <2>0, <2>1 DEF WriteStart, ResumedBarrier, AnnounceOptimizers
  <2>2. CASE Save(t) \/ SavedBarrier(t) \/ ValidatedBarrier(t)
    BY <2>0, <2>2 DEF Save, SavedBarrier, ValidatedBarrier
  <2>3. CASE PublishLoad(t) \/ SeeSend(t) \/ DropSend(t) \/ DropLoad(t)
    BY <2>0, <2>3 DEF PublishLoad, SeeSend, DropSend, DropLoad
  <2>4. CASE Send(t) \/ Sent(t) \/ Offload(t) \/ AnnounceOffload(t)
    BY <2>0, <2>4 DEF Send, Sent, Offload, AnnounceOffload
  <2>5. CASE Share(t) \/ FreeShared(t) \/ AnnounceWritten(t) \/ SeeFinished(t)
    BY <2>0, <2>5 DEF Share, FreeShared, AnnounceWritten, SeeFinished
  <2>6. CASE \/ FinishedBarrier(t) \/ DropFinished(t) \/ DropOptimizers(t)
             \/ DropOffloaded(t)
    BY <2>0, <2>6 DEF FinishedBarrier, DropFinished, DropOptimizers, DropOffloaded
  <2>7. QED
    BY <2>1, <2>2, <2>3, <2>4, <2>5, <2>6 DEF TrainerStep
<1>3. QED
  BY <1>1, <1>2 DEF RankInv

LEMMA TrainerOrder ==
  ASSUME TypeInv, RankInv, NobodyBehind, Apart, RootLast, NEW t \in Devices,
         TrainerStep(t)
  PROVE  NobodyBehind' /\ Apart' /\ RootLast'
<1>1. /\ edone' = edone
      /\ \A u \in Devices \ {t} : tpc'[u] = tpc[u] /\ tdone'[u] = tdone[u]
  BY TrainerFrame
<1>2. Starts(t) \/ Works(t) \/ Ends(t)
  BY RankMoves
<1>3. \A u \in Devices : tdone[u] \in Nat
  BY StepAssumption DEF TypeInv, TypeOK
<1>4. \A e \in Engines : edone[e] \in Nat
  BY StepAssumption DEF TypeInv, TypeOK
<1>5. NobodyBehind'
  <2>1. CASE Starts(t)
    BY <1>1, <1>3, <1>4, <2>1 DEF Starts, NobodyBehind
  <2>2. CASE Works(t)
    BY <1>1, <1>3, <1>4, <2>2 DEF Works, NobodyBehind
  <2>3. CASE Ends(t)
    BY <1>1, <1>3, <1>4, <2>3 DEF Ends, NobodyBehind, Step
  <2>4. QED
    BY <1>2, <2>1, <2>2, <2>3
<1>6. Apart'
  <2>1. CASE Starts(t)
    BY <1>1, <1>3, <2>1 DEF Starts, Apart, Leaving, Ending, Dropping
  <2>2. CASE Works(t)
    BY <1>1, <1>3, <2>2 DEF Works, Apart, Stages
  <2>3. CASE Ends(t)
    <3>1. \A u \in Devices : tdone[t] <= tdone[u]
      BY <2>3 DEF Ends, NobodyBehind, Leaving, Ending, Dropping
    <3>2. ASSUME NEW u \in Devices \ {t}, tdone'[t] > tdone'[u]
          PROVE  /\ tdone'[t] = Step(tdone'[u]) /\ tpc'[u] \in Leaving
      BY <1>1, <1>3, <2>3, <3>1, <3>2 DEF Ends, RankPast, Step
    <3>3. ASSUME NEW u \in Devices \ {t}, tdone'[u] > tdone'[t]
          PROVE  FALSE
      BY <1>1, <1>3, <2>3, <3>3 DEF Ends, Apart, Step
    <3>4. ASSUME NEW x \in Devices, NEW y \in Devices, tdone'[y] > tdone'[x]
          PROVE  /\ tdone'[y] = Step(tdone'[x]) /\ tpc'[y] = "idle"
                 /\ tpc'[x] \in Leaving
      <4>1. tdone'[x] \in Nat
        BY <1>1, <1>3, <2>3 DEF Ends, Step
      <4>2. CASE x = t
        BY <3>3, <3>4, <4>1, <4>2
      <4>3. CASE y = t /\ x # t
        BY <2>3, <3>2, <3>4, <4>3 DEF Ends
      <4>4. CASE x # t /\ y # t
        BY <1>1, <3>4, <4>4 DEF Apart
      <4>5. QED
        BY <4>2, <4>3, <4>4
    <3>5. QED
      BY <3>4 DEF Apart
  <2>4. QED
    BY <1>2, <2>1, <2>2, <2>3
<1>7. RootLast'
  <2>0. Root \in Devices
    BY StepAssumption
  <2>1. CASE Starts(t)
    BY <1>1, <2>0, <2>1 DEF Starts, RootLast, Dropping, Ending
  <2>2. CASE Works(t)
    <3>1. CASE t = Root /\ tpc[Root] \notin Dropping
      BY <1>1, <1>3, <2>2, <3>1 DEF Works, RootLast, RankPast, Step, Ending
    <3>2. CASE t = Root /\ tpc[Root] \in Dropping
      BY <1>1, <2>2, <3>2 DEF Works, RootLast, Ending
    <3>3. CASE t # Root
      BY <1>1, <2>0, <2>2, <3>3 DEF Works, RootLast, Stages
    <3>4. QED
      BY <3>1, <3>2, <3>3
  <2>3. CASE Ends(t)
    <3>1. tpc'[Root] \in Dropping => t # Root /\ tpc[Root] \in Dropping
      BY <1>1, <2>0, <2>3 DEF Ends, Dropping
    <3>2. tpc[Root] \in Dropping => tdone[Root] <= tdone[t]
      BY <2>0 DEF NobodyBehind, Dropping
    <3>3. QED
      BY <1>1, <1>3, <2>0, <2>3, <3>1, <3>2 DEF Ends, RootLast, Step
  <2>4. QED
    BY <1>2, <2>1, <2>2, <2>3
<1>8. QED
  BY <1>5, <1>6, <1>7
-----------------------------------------------------------------------------
(***************************************************************************)
(* The keys, and what they tell the others.                                *)
(***************************************************************************)

\* While a checkpoint is on offer every rank has its shards of the step on
\* disk and is held back by rank 0.
CheckpointInv ==
  /\ store.load => tpc[Root] \in {"poll", "dropSend", "dropLoad"}
  /\ tpc[Root] \in Polling =>
       \A u \in Devices : tdone[u] = tdone[Root] /\ tpc[u] \in Saved

\* Rank 0 waits for the engines that read the checkpoint; an engine is counted
\* once it has.
HasAdded == {"readSend", "pollSend", "release", "waitOffloaded", "update", "failed"}

SendInv ==
  \A e \in Engines :
    /\ epc[e] \in {"waitOptimizers", "loading", "addSend"} =>
         tpc[Root] = "poll" /\ edone[e] = tdone[Root] /\ e \notin store.send
    /\ e \in store.send => tpc[Root] \in {"poll", "dropSend"}
    /\ e \in store.send \/ tpc[Root] \in {"dropSend", "dropLoad"} =>
         edone[e] = tdone[Root] /\ epc[e] \in HasAdded

EngineInv ==
  \A e \in Engines :
    /\ epc[e] \notin {"new", "idle"} => edone[e] <= tdone[Root]
    /\ epc[e] \in {"release", "waitOffloaded", "report", "resumeCache"} => colocate
    /\ epc[e] \in {"report", "resumeCache"} =>
         \A d \in Devices : EngineOf[d] = e => wdone[d] = Step(edone[e])

\* The rank is in the step of the engine, at one of the positions, or has ended
\* it and cannot start another.
Within(t, e, S) ==
  \/ tdone[t] = edone[e] /\ tpc[t] \in S
  \/ tdone[t] = Step(edone[e]) /\ tpc[t] = "idle"

LoadingInv ==
  \A e \in Engines : epc[e] \in {"waitOptimizers", "loading"} =>
    \A t \in Devices : saved[t] = Step(edone[e]) /\ Within(t, e, Saved)

OwnInv ==
  \A e \in Engines : colocate /\ epc[e] \in {"update", "report", "resumeCache"} =>
    \A t \in Devices : Within(t, e, Offloaded)

\* Who is counted as offloaded has offloaded in the step of rank 0.
OffloadedInv ==
  \A t \in store.offloaded :
    /\ colocate
    /\ \/ tdone[t] = tdone[Root] /\ tpc[t] \in Offloaded
       \/ t # Root /\ tdone[t] = Step(tdone[Root]) /\ tpc[t] = "idle"

WorkerInv ==
  \A d \in Devices :
    /\ wpc[d] # "idle" => epc[EngineOf[d]] = "update" /\ wdone[d] = edone[EngineOf[d]]
    /\ wpc[d] \in {"signal", "barrier", "waitWritten"} => colocate

WorkerPast(d, s) ==
  wdone[d] >= s \/ (Step(wdone[d]) = s /\ wpc[d] \in {"barrier", "waitWritten"})

\* The keys of a device and a step tell its rank and its worker how far the
\* other has come.
BuffersInv ==
  /\ \A p \in store.serialized : RankPast(p[1], p[2], {"waitUpdated"} \cup Freed)
  /\ \A p \in store.updated : WorkerPast(p[1], p[2])
  /\ \A p \in store.written : RankPast(p[1], p[2], {"waitFinished"} \cup Ending)
  /\ colocate => \A d \in Devices :
       /\ WorkerPast(d, tdone[d])
       /\ tpc[d] \in Freed => WorkerPast(d, Step(tdone[d]))
       /\ RankPast(d, wdone[d], {"waitFinished"} \cup Ending)
       /\ wpc[d] = "exchange" => <<d, Step(wdone[d])>> \in store.serialized

SentInv ==
  ~colocate => \A d, u \in Devices : RankPast(u, wdone[d], {"sending"})

\* A key outlives neither its reader nor the step.
KeysInv ==
  /\ store.optimizers =>
       colocate /\ tpc[Root] \notin {"idle", "resumed", "announce", "dropOffloaded"}
  /\ \A p \in store.updated : colocate /\ ~RankPast(p[1], p[2], Freed)
  /\ \A p \in store.written : colocate /\ wdone[p[1]] < p[2]

FinishedInv ==
  \A e \in Engines :
    /\ e \in store.finished =>
         /\ tpc[Root] \in Offloaded \ {"dropOptimizers", "dropOffloaded"}
         /\ \/ epc[e] = "resumeCache" /\ edone[e] = tdone[Root]
            \/ edone[e] = Step(tdone[Root])
    /\ colocate /\ RankPast(Root, Step(edone[e]), Ending) => epc[e] = "resumeCache"

RanksInv == TypeInv /\ RankInv /\ NobodyBehind /\ Apart /\ RootLast

IInv ==
  /\ RanksInv
  /\ CheckpointInv /\ SendInv /\ EngineInv /\ LoadingInv /\ OwnInv
  /\ OffloadedInv /\ WorkerInv /\ BuffersInv /\ SentInv /\ KeysInv /\ FinishedInv

LEMMA TrainerNumbers ==
  ASSUME TypeInv
  PROVE  /\ Root \in Devices
         /\ \A u \in Devices : tdone[u] \in Nat /\ wdone[u] \in Nat
         /\ \A e \in Engines : edone[e] \in Nat
         /\ store.offloaded \subseteq Devices
         /\ store.send \subseteq Engines /\ store.finished \subseteq Engines
         /\ \A p \in store.serialized \cup store.updated \cup store.written :
              p[1] \in Devices /\ p[2] \in Nat /\ p = <<p[1], p[2]>>
BY StepAssumption DEF TypeInv, TypeOK

\* Which key a step of a rank changes.
LEMMA TrainerKeys ==
  ASSUME TypeInv, NEW t \in Devices, TrainerStep(t)
  PROVE  /\ store'.optimizers = store.optimizers
              \/ AnnounceOptimizers(t) \/ DropOptimizers(t)
         /\ store'.load = store.load \/ PublishLoad(t) \/ DropLoad(t)
         /\ store'.send = store.send \/ DropSend(t)
         /\ store'.offloaded = store.offloaded
              \/ AnnounceOffload(t) \/ DropOffloaded(t)
         /\ store'.serialized = store.serialized \/ Share(t)
         /\ store'.updated = store.updated \/ FreeShared(t)
         /\ store'.written = store.written \/ AnnounceWritten(t)
         /\ store'.finished = store.finished \/ DropFinished(t)
<1>0. store \in Stores
  BY DEF TypeInv, TypeOK, Stores
<1>1. CASE UNCHANGED store
  BY <1>1
<1>2. CASE \/ AnnounceOptimizers(t) \/ PublishLoad(t) \/ DropSend(t) \/ DropLoad(t)
           \/ AnnounceOffload(t)
  BY <1>0, <1>2
  DEF AnnounceOptimizers, PublishLoad, DropSend, DropLoad, AnnounceOffload, Stores
<1>3. CASE Share(t) \/ FreeShared(t) \/ AnnounceWritten(t)
  BY <1>0, <1>3 DEF Share, FreeShared, AnnounceWritten, Stores
<1>4. CASE DropFinished(t) \/ DropOptimizers(t) \/ DropOffloaded(t)
  BY <1>0, <1>4 DEF DropFinished, DropOptimizers, DropOffloaded, Stores
<1>5. QED
  BY <1>1, <1>2, <1>3, <1>4
  DEF TrainerStep, WriteStart, ResumedBarrier, AnnounceOptimizers, Save, SavedBarrier,
      PublishLoad, SeeSend, DropSend, DropLoad, ValidatedBarrier, Send, Sent,
      Offload, AnnounceOffload, Share, FreeShared, AnnounceWritten,
      SeeFinished, FinishedBarrier, DropFinished, DropOptimizers,
      DropOffloaded

LEMMA TrainerCheckpoint ==
  ASSUME RanksInv, CheckpointInv, NEW t \in Devices, TrainerStep(t)
  PROVE  CheckpointInv'
<1> USE DEF RanksInv
<1>1. \A u \in Devices \ {t} : tpc'[u] = tpc[u] /\ tdone'[u] = tdone[u]
  BY TrainerFrame
<1>2. Starts(t) \/ Works(t) \/ Ends(t)
  BY RankMoves
<1>3. /\ Root \in Devices
      /\ \A u \in Devices : tdone[u] \in Nat
  BY TrainerNumbers
<1>4. store'.load => tpc'[Root] \in {"poll", "dropSend", "dropLoad"}
  <2>1. CASE t # Root
    <3>1. store'.load = store.load
      BY <2>1, TrainerKeys DEF RankInv, RankIs, PublishLoad, DropLoad, Polling
    <3>2. QED
      BY <1>1, <1>3, <2>1, <3>1 DEF CheckpointInv
  <2>2. CASE PublishLoad(Root) \/ DropLoad(Root) \/ SeeSend(Root) \/ DropSend(Root)
    BY <1>3, <2>2 DEF PublishLoad, DropLoad, SeeSend, DropSend, CheckpointInv,
                      TypeInv, TypeOK, Goto
  <2>3. CASE t = Root /\ ~(PublishLoad(t) \/ DropLoad(t) \/ SeeSend(t) \/ DropSend(t))
    <3>1. store'.load = store.load
      BY <2>3, TrainerKeys
    <3>2. tpc[Root] \notin {"poll", "dropSend", "dropLoad"}
      BY <2>3
      DEF TrainerStep, TrainersAt, WriteStart, ResumedBarrier, AnnounceOptimizers, Save,
      SavedBarrier, PublishLoad, SeeSend, DropSend, DropLoad, ValidatedBarrier, Send, Sent,
      Offload, AnnounceOffload, Share, FreeShared, AnnounceWritten,
      SeeFinished, FinishedBarrier, DropFinished, DropOptimizers,
      DropOffloaded
    <3>3. QED
      BY <3>1, <3>2 DEF CheckpointInv
  <2>4. QED
    BY <2>1, <2>2, <2>3
<1>5. ASSUME tpc'[Root] \in Polling, NEW u \in Devices
      PROVE  tdone'[u] = tdone'[Root] /\ tpc'[u] \in Saved
  <2>1. CASE t = Root /\ tpc[Root] \notin Polling
    <3>1. SavedBarrier(Root)
      BY <1>3, <1>5, <2>1 DEF TrainerStep, TrainersAt, Goto, Return, AfterInitialize,
        TypeInv, TypeOK, Polling, WriteStart, ResumedBarrier, AnnounceOptimizers, Save,
        SavedBarrier, PublishLoad, SeeSend, DropSend, DropLoad, ValidatedBarrier, Send, Sent,
      Offload, AnnounceOffload, Share, FreeShared, AnnounceWritten,
      SeeFinished, FinishedBarrier, DropFinished, DropOptimizers,
      DropOffloaded
    <3>2. RankPast(u, Step(tdone[Root]), Saved) /\ tpc[Root] = "saved"
      BY <1>3, <3>1, Reached DEF SavedBarrier, TrainersAt, TypeInv, TypeOK, Step
    <3>3. tdone[u] <= tdone[Root] /\ tdone[Root] <= tdone[u]
      BY <1>3, <3>2 DEF Apart, NobodyBehind, Leaving, Ending, Dropping
    <3>4. tdone[u] = tdone[Root] /\ tpc[u] \in Saved
      BY <1>3, <3>2, <3>3 DEF RankPast, Step
    <3>5. tdone' = tdone /\ (u # Root => tpc'[u] = tpc[u])
      BY <1>1, <2>1, <3>1 DEF SavedBarrier
    <3>6. QED
      BY <1>5, <3>4, <3>5 DEF Saved
  <2>2. CASE t = Root /\ tpc[Root] \in Polling
    <3>1. Works(Root)
      BY <1>2, <2>2 DEF Starts, Ends, Polling, Leaving, Ending, Dropping
    <3>2. QED
      BY <1>1, <2>2, <3>1 DEF Works, Stages, CheckpointInv
  <2>3. CASE t # Root
    <3>1. tpc[Root] \in Polling /\ tdone'[Root] = tdone[Root]
      BY <1>1, <1>3, <1>5, <2>3
    <3>2. tdone[t] = tdone[Root] /\ tpc[t] \in Saved
      BY <3>1 DEF CheckpointInv
    <3>3. ~Starts(t)
      BY <3>2 DEF Starts, Saved, Polling, Offloaded, Freed, Ending, Dropping
    <3>4. ~Ends(t)
      BY <1>3, <3>1, <3>2
      DEF Ends, RankPast, Step, Polling, Leaving, Ending, Dropping
    <3>5. QED
      BY <1>1, <1>2, <3>1, <3>2, <3>3, <3>4 DEF Works, Stages, CheckpointInv
  <2>4. QED
    BY <2>1, <2>2, <2>3
<1>6. QED
  BY <1>4, <1>5 DEF CheckpointInv

\* From one of the later positions to the next.
LEMMA TrainerEnters ==
  ASSUME TypeInv, RankInv, NEW t \in Devices, TrainerStep(t)
  PROVE  /\ tpc'[t] \in Freed => tpc[t] \in Freed \/ FreeShared(t)
         /\ tpc'[t] \in Ending => tpc[t] \in Ending \/ SeeFinished(t)
         /\ tpc'[t] \in {"dropSend", "dropLoad"} =>
              tpc[t] \in {"dropSend", "dropLoad"} \/ SeeSend(t)
         /\ tpc[t] = "poll" => SeeSend(t)
         /\ tpc[t] = "dropSend" => DropSend(t)
         /\ tpc[t] = "dropLoad" => DropLoad(t)
         /\ tpc'[t] = "dropSend" => SeeSend(t)
         /\ tpc'[t] = "dropOptimizers" => DropFinished(t)
         /\ tpc'[t] = "dropOffloaded" => DropOptimizers(t)
         /\ tpc[t] = "dropOffloaded" => DropOffloaded(t)
         /\ colocate /\ tpc'[t] = "idle" /\ t = Root => tpc[t] = "dropOffloaded"
<1> USE DEF TypeInv, TypeOK, RankInv, RankIs, TrainerStep, TrainersAt, Goto, Return,
        AfterInitialize, Freed, Ending, Dropping,
        WriteStart, ResumedBarrier, AnnounceOptimizers, Save, SavedBarrier,
      PublishLoad, SeeSend, DropSend, DropLoad, ValidatedBarrier, Send, Sent,
      Offload, AnnounceOffload, Share, FreeShared, AnnounceWritten,
      SeeFinished, FinishedBarrier, DropFinished, DropOptimizers,
      DropOffloaded
<1>1. tpc'[t] \in Freed => tpc[t] \in Freed \/ FreeShared(t)
  OBVIOUS
<1>2. tpc'[t] \in Ending => tpc[t] \in Ending \/ SeeFinished(t)
  OBVIOUS
<1>3. /\ tpc'[t] \in {"dropSend", "dropLoad"} =>
           tpc[t] \in {"dropSend", "dropLoad"} \/ SeeSend(t)
      /\ tpc'[t] = "dropSend" => SeeSend(t)
  OBVIOUS
<1>4. /\ tpc[t] = "poll" => SeeSend(t)
      /\ tpc[t] = "dropSend" => DropSend(t)
      /\ tpc[t] = "dropLoad" => DropLoad(t)
      /\ tpc[t] = "dropOffloaded" => DropOffloaded(t)
  OBVIOUS
<1>5. /\ tpc'[t] = "dropOptimizers" => DropFinished(t)
      /\ tpc'[t] = "dropOffloaded" => DropOptimizers(t)
  OBVIOUS
<1>6. colocate /\ tpc'[t] = "idle" /\ t = Root => tpc[t] = "dropOffloaded"
  OBVIOUS
<1>7. QED
  BY <1>1, <1>2, <1>3, <1>4, <1>5, <1>6

LEMMA TrainerSend ==
  ASSUME RanksInv, SendInv, CheckpointInv, NEW t \in Devices, TrainerStep(t)
  PROVE  SendInv'
<1> USE DEF RanksInv
<1>1. /\ epc' = epc /\ edone' = edone
      /\ \A u \in Devices \ {t} : tpc'[u] = tpc[u] /\ tdone'[u] = tdone[u]
  BY TrainerFrame
<1>2. /\ Root \in Devices /\ store.send \subseteq Engines
  BY TrainerNumbers
<1>3. CASE t # Root
  <2>1. store'.send = store.send
    BY <1>3, TrainerKeys DEF RankInv, RankIs, DropSend, Polling
  <2>2. QED
    BY <1>1, <1>2, <1>3, <2>1 DEF SendInv
<1>4. CASE SeeSend(Root)
  <2>1. store.send = Engines
    <3>1. Cardinality(store.send) >= Cardinality(Engines)
      <4>1. Cardinality(Engines) \in Nat
        BY StepAssumption, FS_CardinalityType
      <4>2. QED
        BY <1>4, <4>1 DEF SeeSend
    <3>2. QED
      BY <1>2, <3>1, StepAssumption, WholeSet
  <2>2. /\ tpc'[Root] = "dropSend" /\ tdone' = tdone /\ store' = store
        /\ epc' = epc /\ edone' = edone
    BY <1>2, <1>4 DEF SeeSend, Goto, TypeInv, TypeOK, engineVars
  <2>3. QED
    BY <2>1, <2>2 DEF SendInv
<1>5. CASE DropSend(Root)
  <2>1. /\ tpc[Root] = "dropSend" /\ tpc'[Root] = "dropLoad" /\ tdone' = tdone
        /\ store'.send = {} /\ epc' = epc /\ edone' = edone
    BY <1>2, <1>5 DEF DropSend, Goto, TypeInv, TypeOK, engineVars
  <2>2. QED
    BY <2>1 DEF SendInv, HasAdded
<1>6. CASE t = Root /\ ~SeeSend(t) /\ ~DropSend(t)
  <2>1. /\ store'.send = store.send /\ tpc[Root] \notin {"poll", "dropSend"}
    BY <1>6, TrainerKeys, TrainerEnters
  <2>2. tpc'[Root] \notin {"dropSend", "dropLoad"}
    <3>1. tpc[Root] = "dropLoad" => DropLoad(Root)
      BY <1>6, TrainerEnters
    <3>2. DropLoad(Root) => tpc'[Root] = "validated"
      BY <1>2 DEF DropLoad, Goto, TypeInv, TypeOK
    <3>3. QED
      BY <1>6, <2>1, <3>1, <3>2, TrainerEnters
  <2>3. QED
    BY <1>1, <2>1, <2>2 DEF SendInv
<1>7. QED
  BY <1>3, <1>4, <1>5, <1>6

LEMMA TrainerEngines ==
  ASSUME RanksInv, EngineInv, LoadingInv, OwnInv, NEW t \in Devices, TrainerStep(t)
  PROVE  EngineInv' /\ LoadingInv' /\ OwnInv'
<1> USE DEF RanksInv
<1>1. /\ colocate' = colocate /\ epc' = epc /\ edone' = edone /\ wdone' = wdone
      /\ \A u \in Devices \ {t} :
           tpc'[u] = tpc[u] /\ tdone'[u] = tdone[u] /\ saved'[u] = saved[u]
  BY TrainerFrame
<1>2. Starts(t) \/ Works(t) \/ Ends(t)
  BY RankMoves
<1>3. /\ Root \in Devices
      /\ \A u \in Devices : tdone[u] \in Nat
      /\ \A e \in Engines : edone[e] \in Nat
  BY TrainerNumbers
<1>4. EngineInv'
  <2>1. tdone'[Root] >= tdone[Root]
    BY <1>1, <1>2, <1>3 DEF Starts, Works, Ends, Step
  <2>2. tdone'[Root] \in Nat
    BY <1>1, <1>2, <1>3 DEF Starts, Works, Ends, Step
  <2>3. QED
    BY <1>1, <1>3, <2>1, <2>2 DEF EngineInv
<1>5. ASSUME NEW e \in Engines, NEW S \in {Offloaded, Saved}, Within(t, e, S)
      PROVE  Within(t, e, S)' /\ saved'[t] = saved[t]
  <2>0. Leaving \cap S \subseteq S /\ "idle" \notin S /\ S \in Stages
    BY DEF Stages, Saved, Polling, Offloaded, Freed, Ending, Dropping
  <2>1. ~Starts(t)
    BY <1>3, <1>5, <2>0 DEF Starts, Within, Step
  <2>2. CASE Works(t)
    <3>1. tpc[t] \in S /\ tdone[t] = edone[e]
      BY <1>5, <2>2 DEF Works, Within
    <3>2. tpc'[t] \in S /\ tdone'[t] = edone'[e]
      BY <1>1, <2>0, <2>2, <3>1 DEF Works
    <3>3. tpc[t] \in Saved
      BY <3>1 DEF Saved
    <3>4. QED
      BY <2>2, <3>2, <3>3 DEF Works, Within
  <2>3. CASE Ends(t)
    <3>1. tdone[t] = edone[e]
      BY <1>5, <2>3 DEF Ends, Within, Leaving, Ending, Dropping
    <3>2. QED
      BY <1>1, <2>3, <3>1 DEF Ends, Within, Step
  <2>4. QED
    BY <1>2, <2>1, <2>2, <2>3
<1>6. ASSUME NEW e \in Engines, NEW S, NEW u \in Devices \ {t}, Within(u, e, S)
      PROVE  Within(u, e, S)' /\ saved'[u] = saved[u]
  BY <1>1, <1>6 DEF Within, Step
<1>7. LoadingInv'
  BY <1>1, <1>5, <1>6 DEF LoadingInv, Step
<1>8. OwnInv'
  BY <1>1, <1>5, <1>6 DEF OwnInv
<1>9. QED
  BY <1>4, <1>7, <1>8

LEMMA TrainerOffloaded ==
  ASSUME RanksInv, OffloadedInv, NEW t \in Devices, TrainerStep(t)
  PROVE  OffloadedInv'
<1> USE DEF RanksInv
<1>1. /\ colocate' = colocate
      /\ \A u \in Devices \ {t} : tpc'[u] = tpc[u] /\ tdone'[u] = tdone[u]
  BY TrainerFrame
<1>2. Starts(t) \/ Works(t) \/ Ends(t)
  BY RankMoves
<1>3. /\ Root \in Devices /\ store.offloaded \subseteq Devices
      /\ \A u \in Devices : tdone[u] \in Nat
  BY TrainerNumbers
<1>4. CASE DropOffloaded(t)
  <2>1. store'.offloaded = {}
    BY <1>4 DEF DropOffloaded, TypeInv, TypeOK
  <2>2. QED
    BY <2>1 DEF OffloadedInv
<1>5. CASE AnnounceOffload(t)
  <2>1. /\ tpc[t] = "offload" /\ tpc'[t] = "share" /\ tdone' = tdone
        /\ store'.offloaded = store.offloaded \cup {t}
    BY <1>5 DEF AnnounceOffload, Goto, TypeInv, TypeOK
  <2>2. tdone[t] = tdone[Root]
    BY <1>3, <2>1 DEF NobodyBehind, Apart, Leaving, Ending, Dropping
  <2>3. colocate
    BY <2>1 DEF RankInv, RankIs
  <2>4. QED
    BY <1>1, <1>3, <2>1, <2>2, <2>3 DEF OffloadedInv, Offloaded
<1>6. CASE ~DropOffloaded(t) /\ ~AnnounceOffload(t)
  <2>1. store'.offloaded = store.offloaded
    BY <1>6, TrainerKeys
  <2>2. CASE Starts(t)
    BY <1>1, <1>3, <2>1, <2>2
    DEF Starts, OffloadedInv, Step, Offloaded, Freed, Ending, Dropping
  <2>3. CASE Works(t)
    BY <1>1, <1>3, <2>1, <2>3 DEF Works, Stages, OffloadedInv
  <2>4. CASE Ends(t) /\ t # Root
    BY <1>1, <1>3, <2>1, <2>4 DEF Ends, OffloadedInv, Leaving, Ending, Dropping
  <2>5. CASE Ends(t) /\ t = Root
    <3>1. ~colocate
      BY <1>6, <2>5, TrainerEnters DEF Ends
    <3>2. QED
      BY <2>1, <3>1 DEF OffloadedInv
  <2>6. QED
    BY <1>2, <2>2, <2>3, <2>4, <2>5
<1>7. QED
  BY <1>4, <1>5, <1>6

\* What a rank has passed it has passed for good.
LEMMA PastGrows ==
  ASSUME RanksInv, NEW t \in Devices, TrainerStep(t), NEW d \in Devices, NEW s \in Nat,
         NEW S \in {Leaving, Ending, Freed, {"waitUpdated"} \cup Freed,
                    {"waitFinished"} \cup Ending, {"sending"}},
         RankPast(d, s, S)
  PROVE  RankPast(d, s, S)'
<1> USE DEF RanksInv
<1>1. \A u \in Devices \ {t} : tpc'[u] = tpc[u] /\ tdone'[u] = tdone[u]
  BY TrainerFrame
<1>2. Starts(t) \/ Works(t) \/ Ends(t)
  BY RankMoves
<1>3. \A u \in Devices : tdone[u] \in Nat
  BY TrainerNumbers
<1>4. "idle" \notin S /\ S \in Stages
  BY DEF Stages, Leaving, Freed, Ending, Dropping
<1>5. CASE d # t
  BY <1>1, <1>5 DEF RankPast, Step
<1>6. CASE d = t /\ Starts(t)
  BY <1>3, <1>4, <1>6 DEF RankPast, Step, Starts
<1>7. CASE d = t /\ Works(t)
  BY <1>3, <1>4, <1>7 DEF RankPast, Step, Works
<1>8. CASE d = t /\ Ends(t)
  BY <1>3, <1>8 DEF RankPast, Step, Ends
<1>9. QED
  BY <1>2, <1>5, <1>6, <1>7, <1>8

LEMMA TrainerBuffers ==
  ASSUME RanksInv, BuffersInv, NEW t \in Devices, TrainerStep(t)
  PROVE  BuffersInv'
<1> USE DEF RanksInv
<1>1. /\ colocate' = colocate /\ wpc' = wpc /\ wdone' = wdone
      /\ \A u \in Devices \ {t} : tpc'[u] = tpc[u] /\ tdone'[u] = tdone[u]
  BY TrainerFrame
<1>2. Starts(t) \/ Works(t) \/ Ends(t)
  BY RankMoves
<1>3. /\ \A u \in Devices : tdone[u] \in Nat /\ wdone[u] \in Nat
      /\ \A p \in store.serialized \cup store.updated \cup store.written :
           p[1] \in Devices /\ p[2] \in Nat /\ p = <<p[1], p[2]>>
  BY TrainerNumbers
<1>4. \A d \in Devices, s \in Nat : WorkerPast(d, s)' <=> WorkerPast(d, s)
  BY <1>1 DEF WorkerPast
<1>5. \A p \in store'.serialized : RankPast(p[1], p[2], {"waitUpdated"} \cup Freed)'
  <2>1. \A p \in store.serialized : RankPast(p[1], p[2], {"waitUpdated"} \cup Freed)'
    BY <1>3, PastGrows DEF BuffersInv
  <2>2. CASE Share(t)
    <3>1. /\ store'.serialized = store.serialized \cup {<<t, Step(tdone[t])>>}
          /\ tpc'[t] = "waitUpdated" /\ tdone' = tdone
      BY <2>2 DEF Share, Goto, TypeInv, TypeOK
    <3>2. ASSUME NEW p, p = <<t, Step(tdone[t])>>
          PROVE  RankPast(p[1], p[2], {"waitUpdated"} \cup Freed)'
      BY <3>1, <3>2 DEF RankPast
    <3>3. QED
      BY <2>1, <3>1, <3>2
  <2>3. CASE ~Share(t)
    BY <2>1, <2>3, TrainerKeys
  <2>4. QED
    BY <2>2, <2>3
<1>6. \A p \in store'.updated : WorkerPast(p[1], p[2])'
  <2>1. store'.updated \subseteq store.updated
    <3>1. CASE FreeShared(t)
      BY <3>1 DEF FreeShared, TypeInv, TypeOK
    <3>2. CASE ~FreeShared(t)
      BY <3>2, TrainerKeys
    <3>3. QED
      BY <3>1, <3>2
  <2>2. QED
    BY <1>3, <1>4, <2>1 DEF BuffersInv
<1>7. \A p \in store'.written : RankPast(p[1], p[2], {"waitFinished"} \cup Ending)'
  <2>1. \A p \in store.written : RankPast(p[1], p[2], {"waitFinished"} \cup Ending)'
    BY <1>3, PastGrows DEF BuffersInv
  <2>2. CASE AnnounceWritten(t)
    <3>1. /\ store'.written = store.written \cup {<<t, Step(tdone[t])>>}
          /\ tpc'[t] = "waitFinished" /\ tdone' = tdone
      BY <2>2 DEF AnnounceWritten, Goto, TypeInv, TypeOK
    <3>2. ASSUME NEW p, p = <<t, Step(tdone[t])>>
          PROVE  RankPast(p[1], p[2], {"waitFinished"} \cup Ending)'
      BY <3>1, <3>2 DEF RankPast
    <3>3. QED
      BY <2>1, <3>1, <3>2
  <2>3. CASE ~AnnounceWritten(t)
    BY <2>1, <2>3, TrainerKeys
  <2>4. QED
    BY <2>2, <2>3
<1>8. ASSUME colocate, NEW d \in Devices
      PROVE  /\ WorkerPast(d, tdone[d])'
             /\ tpc'[d] \in Freed => WorkerPast(d, Step(tdone[d]))'
             /\ RankPast(d, wdone[d], {"waitFinished"} \cup Ending)'
             /\ wpc'[d] = "exchange" => <<d, Step(wdone'[d])>> \in store'.serialized
  <2>0. /\ WorkerPast(d, tdone[d])
        /\ tpc[d] \in Freed => WorkerPast(d, Step(tdone[d]))
        /\ RankPast(d, wdone[d], {"waitFinished"} \cup Ending)
        /\ wpc[d] = "exchange" => <<d, Step(wdone[d])>> \in store.serialized
    BY <1>8 DEF BuffersInv
  <2>1. WorkerPast(d, tdone[d])'
    <3>1. CASE d # t \/ ~Ends(t)
      BY <1>1, <1>2, <2>0, <3>1 DEF WorkerPast, Starts, Works
    <3>2. CASE d = t /\ Ends(t)
      <4>1. tpc[t] \in Freed
        BY <1>8, <3>2 DEF Ends, Leaving, RankInv, RankIs, Freed
      <4>2. QED
        BY <1>1, <2>0, <3>2, <4>1 DEF WorkerPast, Ends
    <3>3. QED
      BY <3>1, <3>2
  <2>2. ASSUME tpc'[d] \in Freed
        PROVE  WorkerPast(d, Step(tdone[d]))'
    <3>1. CASE d # t
      BY <1>1, <2>0, <2>2, <3>1 DEF WorkerPast, Step
    <3>2. CASE d = t /\ FreeShared(t)
      <4>1. <<t, Step(tdone[t])>> \in store.updated /\ tdone' = tdone
        BY <3>2 DEF FreeShared
      <4>2. WorkerPast(t, Step(tdone[t]))
        BY <4>1 DEF BuffersInv
      <4>3. QED
        BY <1>1, <3>2, <4>1, <4>2 DEF WorkerPast, Step
    <3>3. CASE d = t /\ tpc[t] \in Freed
      <4>1. tdone'[t] = tdone[t]
        BY <1>2, <2>2, <3>3 DEF Starts, Works, Ends, Freed, Ending, Dropping
      <4>2. QED
        BY <1>1, <2>0, <3>3, <4>1 DEF WorkerPast, Step
    <3>4. QED
      BY <2>2, <3>1, <3>2, <3>3, TrainerEnters
  <2>3. RankPast(d, wdone[d], {"waitFinished"} \cup Ending)'
    <3>1. \A s \in Nat : RankPast(d, s, {"waitFinished"} \cup Ending) =>
                         RankPast(d, s, {"waitFinished"} \cup Ending)'
      BY PastGrows
    <3>2. QED
      BY <1>1, <1>3, <2>0, <3>1 DEF RankPast
  <2>4. wpc'[d] = "exchange" => <<d, Step(wdone'[d])>> \in store'.serialized
    <3>1. store.serialized \subseteq store'.serialized
      <4>1. CASE Share(t)
        BY <4>1 DEF Share, TypeInv, TypeOK
      <4>2. CASE ~Share(t)
        BY <4>2, TrainerKeys
      <4>3. QED
        BY <4>1, <4>2
    <3>2. QED
      BY <1>1, <2>0, <3>1
  <2>5. QED
    BY <2>1, <2>2, <2>3, <2>4
<1>9. QED
  BY <1>1, <1>5, <1>6, <1>7, <1>8 DEF BuffersInv, Step

LEMMA TrainerSent ==
  ASSUME RanksInv, SentInv, NEW t \in Devices, TrainerStep(t)
  PROVE  SentInv'
<1>1. colocate' = colocate /\ wdone' = wdone /\ \A d \in Devices : wdone[d] \in Nat
  BY TrainerFrame, TrainerNumbers DEF RanksInv
<1>2. ASSUME NEW d \in Devices, NEW u \in Devices, ~colocate
      PROVE  RankPast(u, wdone[d], {"sending"})'
  <2>1. PICK s \in Nat : s = wdone[d]
    BY <1>1
  <2>2. RankPast(u, s, {"sending"})'
    BY <1>2, <2>1, PastGrows DEF SentInv
  <2>3. QED
    BY <1>1, <2>1, <2>2 DEF RankPast
<1>3. QED
  BY <1>1, <1>2 DEF SentInv

LEMMA TrainerKeysInv ==
  ASSUME RanksInv, BuffersInv, KeysInv, NEW t \in Devices, TrainerStep(t)
  PROVE  KeysInv'
<1> USE DEF RanksInv
<1>1. /\ colocate' = colocate /\ wdone' = wdone
      /\ \A u \in Devices \ {t} : tpc'[u] = tpc[u] /\ tdone'[u] = tdone[u]
  BY TrainerFrame
<1>2. Starts(t) \/ Works(t) \/ Ends(t)
  BY RankMoves
<1>3. /\ Root \in Devices
      /\ \A u \in Devices : tdone[u] \in Nat /\ wdone[u] \in Nat
      /\ \A p \in store.serialized \cup store.updated \cup store.written :
           p[1] \in Devices /\ p[2] \in Nat /\ p = <<p[1], p[2]>>
  BY TrainerNumbers
<1>4. ASSUME store'.optimizers
      PROVE  /\ colocate
             /\ tpc'[Root] \notin {"idle", "resumed", "announce", "dropOffloaded"}
  <2>1. CASE AnnounceOptimizers(t)
    BY <2>1 DEF AnnounceOptimizers, RankInv, RankIs, AfterInitialize, Goto, TypeInv,
                TypeOK
  <2>2. CASE DropOptimizers(t)
    BY <1>4, <2>2 DEF DropOptimizers, TypeInv, TypeOK
  <2>3. CASE ~AnnounceOptimizers(t) /\ ~DropOptimizers(t)
    <3>1. /\ store.optimizers /\ colocate
          /\ tpc[Root] \notin {"idle", "resumed", "announce", "dropOffloaded"}
      BY <1>4, <2>3, TrainerKeys DEF KeysInv
    <3>2. CASE t # Root
      BY <1>1, <1>3, <3>1, <3>2
    <3>3. CASE t = Root
      <4>1. Works(Root) \/ Ends(Root)
        BY <1>2, <3>1, <3>3 DEF Starts
      <4>2. tpc'[Root] \notin {"idle", "dropOffloaded"}
        BY <2>3, <3>1, <3>3, TrainerEnters
      <4>3. tpc'[Root] \notin {"resumed", "announce"}
        BY <3>1, <3>3 DEF TrainerStep, WriteStart, ResumedBarrier, TrainersAt,
          AnnounceOptimizers, Save, SavedBarrier, PublishLoad, SeeSend, DropSend,
          DropLoad, ValidatedBarrier, Send, Sent, Offload, AnnounceOffload, Share,
          FreeShared, AnnounceWritten, SeeFinished, FinishedBarrier, DropFinished,
          DropOptimizers, DropOffloaded, Goto, Return, AfterInitialize, TypeInv,
          TypeOK
      <4>4. QED
        BY <3>1, <4>2, <4>3
    <3>4. QED
      BY <3>2, <3>3
  <2>4. QED
    BY <2>1, <2>2, <2>3
<1>5. ASSUME NEW p \in store'.updated
      PROVE  colocate /\ ~RankPast(p[1], p[2], Freed)'
  <2>1. p \in store.updated /\ (FreeShared(t) => p # <<t, Step(tdone[t])>>)
    <3>1. CASE FreeShared(t)
      BY <1>5, <3>1 DEF FreeShared, TypeInv, TypeOK
    <3>2. CASE ~FreeShared(t)
      BY <1>5, <3>2, TrainerKeys
    <3>3. QED
      BY <3>1, <3>2
  <2>2. /\ colocate /\ ~RankPast(p[1], p[2], Freed)
        /\ p[1] \in Devices /\ p[2] \in Nat
    BY <1>3, <2>1 DEF KeysInv
  <2>3. CASE p[1] # t
    BY <1>1, <2>2, <2>3 DEF RankPast, Step
  <2>4. CASE p[1] = t /\ ~Ends(t)
    <3>1. tdone'[t] = tdone[t]
      BY <1>2, <2>4 DEF Starts, Works
    <3>2. tpc'[t] \in Freed => tpc[t] \in Freed \/ FreeShared(t)
      BY TrainerEnters
    <3>3. FreeShared(t) => Step(tdone[t]) # p[2]
      BY <1>3, <2>1, <2>4
    <3>4. QED
      BY <2>2, <2>4, <3>1, <3>2, <3>3 DEF RankPast, Step
  <2>5. CASE p[1] = t /\ Ends(t)
    <3>1. tpc[t] \in Freed /\ tpc'[t] = "idle" /\ tdone'[t] = Step(tdone[t])
      BY <2>2, <2>5 DEF Ends, Leaving, RankInv, RankIs, Freed
    <3>2. tdone[t] < p[2] /\ Step(tdone[t]) # p[2]
      BY <1>3, <2>2, <2>5, <3>1 DEF RankPast
    <3>3. QED
      BY <1>3, <2>2, <2>5, <3>1, <3>2 DEF RankPast, Step, Freed, Ending, Dropping
  <2>6. QED
    BY <1>1, <2>2, <2>3, <2>4, <2>5
<1>6. ASSUME NEW p \in store'.written
      PROVE  colocate /\ wdone[p[1]] < p[2]
  <2>1. CASE p \in store.written
    BY <2>1 DEF KeysInv
  <2>2. CASE p \notin store.written
    <3>1. AnnounceWritten(t)
      BY <1>6, <2>2, TrainerKeys
    <3>2. p = <<t, Step(tdone[t])>> /\ tpc[t] = "freed"
      BY <1>6, <2>2, <3>1 DEF AnnounceWritten, TypeInv, TypeOK
    <3>3. colocate
      BY <3>2 DEF RankInv, RankIs, Offloaded, Freed
    <3>4. RankPast(t, wdone[t], {"waitFinished"} \cup Ending)
      BY <3>3 DEF BuffersInv
    <3>5. wdone[t] <= tdone[t]
      BY <3>2, <3>4 DEF RankPast, Ending, Dropping
    <3>6. QED
      BY <1>3, <3>2, <3>3, <3>5 DEF Step
  <2>3. QED
    BY <2>1, <2>2
<1>7. QED
  BY <1>1, <1>4, <1>5, <1>6 DEF KeysInv

LEMMA TrainerFinished ==
  ASSUME RanksInv, FinishedInv, NEW t \in Devices, TrainerStep(t)
  PROVE  FinishedInv'
<1> USE DEF RanksInv
<1>1. /\ colocate' = colocate /\ epc' = epc /\ edone' = edone
      /\ \A u \in Devices \ {t} : tpc'[u] = tpc[u] /\ tdone'[u] = tdone[u]
  BY TrainerFrame
<1>2. Starts(t) \/ Works(t) \/ Ends(t)
  BY RankMoves
<1>3. /\ Root \in Devices /\ store.finished \subseteq Engines
      /\ \A u \in Devices : tdone[u] \in Nat
      /\ \A e \in Engines : edone[e] \in Nat
  BY TrainerNumbers
<1>4. ASSUME NEW e \in Engines, e \in store'.finished
      PROVE  /\ tpc'[Root] \in Offloaded \ {"dropOptimizers", "dropOffloaded"}
             /\ \/ epc[e] = "resumeCache" /\ edone[e] = tdone'[Root]
                \/ edone[e] = Step(tdone'[Root])
  <2>1. CASE DropFinished(t)
    BY <1>4, <2>1 DEF DropFinished, TypeInv, TypeOK
  <2>2. CASE ~DropFinished(t)
    <3>1. e \in store.finished
      BY <1>4, <2>2, TrainerKeys
    <3>2. /\ tpc[Root] \in Offloaded \ {"dropOptimizers", "dropOffloaded"}
          /\ \/ epc[e] = "resumeCache" /\ edone[e] = tdone[Root]
             \/ edone[e] = Step(tdone[Root])
      BY <3>1 DEF FinishedInv
    <3>3. CASE t # Root
      BY <1>1, <1>3, <3>2, <3>3
    <3>4. CASE t = Root
      <4>1. colocate
        BY <1>3, <3>2 DEF RankInv, RankIs
      <4>2. Works(Root)
        BY <1>2, <3>2, <3>4, <4>1, TrainerEnters
        DEF Starts, Ends, Offloaded, Freed, Ending, Dropping
      <4>3. tpc'[Root] \notin {"dropOptimizers", "dropOffloaded"}
        BY <2>2, <3>2, <3>4, TrainerEnters DEF DropOptimizers
      <4>4. QED
        BY <3>2, <4>2, <4>3 DEF Works, Stages
    <3>5. QED
      BY <3>3, <3>4
  <2>3. QED
    BY <2>1, <2>2
<1>5. ASSUME NEW e \in Engines, colocate, RankPast(Root, Step(edone[e]), Ending)'
      PROVE  epc[e] = "resumeCache"
  <2>1. CASE RankPast(Root, Step(edone[e]), Ending)
    BY <1>5, <2>1 DEF FinishedInv
  <2>2. CASE ~RankPast(Root, Step(edone[e]), Ending)
    <3>1. t = Root
      BY <1>1, <1>3, <1>5, <2>2 DEF RankPast, Step
    <3>2. CASE Ends(Root)
      <4>1. tpc[Root] \in Ending /\ tpc'[Root] = "idle" /\ tdone'[Root] = Step(tdone[Root])
        BY <1>3, <1>5, <3>2 DEF Ends, Leaving, RankInv, RankIs
      <4>2. QED
        BY <1>1, <1>3, <1>5, <2>2, <4>1 DEF RankPast, Step, Ending, Dropping
    <3>3. CASE ~Ends(Root)
      <4>1. tdone'[Root] = tdone[Root]
        BY <1>2, <3>1, <3>3 DEF Starts, Works
      <4>2. tpc'[Root] \in Ending /\ tpc[Root] \notin Ending /\ tdone[Root] = edone[e]
        BY <1>1, <1>3, <1>5, <2>2, <4>1 DEF RankPast, Step
      <4>3. SeeFinished(Root)
        BY <3>1, <4>2, TrainerEnters
      <4>4. store.finished = Engines
        BY <1>3, <4>3, StepAssumption, WholeSet DEF SeeFinished
      <4>5. QED
        BY <1>3, <4>2, <4>4 DEF FinishedInv, Step
    <3>4. QED
      BY <3>2, <3>3
  <2>3. QED
    BY <2>1, <2>2
<1>6. QED
  BY <1>1, <1>4, <1>5 DEF FinishedInv, Step
-----------------------------------------------------------------------------
(***************************************************************************)
(* The steps of an engine.                                                 *)
(***************************************************************************)

LEMMA EngineFrame ==
  ASSUME TypeInv, NEW e \in Engines, EngineStep(e)
  PROVE  /\ colocate' = colocate /\ validated' = validated
         /\ tpc' = tpc /\ tdone' = tdone /\ saved' = saved
         /\ tmem' = tmem /\ shared' = shared /\ wpc' = wpc /\ wdone' = wdone
         /\ \A f \in Engines \ {e} : epc'[f] = epc[f] /\ edone'[f] = edone[f]
         /\ edone'[e] = edone[e]
              \/ /\ edone'[e] = Step(edone[e]) /\ epc'[e] = "idle"
                 /\ Updated(e) \/ ResumeCache(e)
         /\ store'.optimizers = store.optimizers /\ store'.load = store.load
         /\ store'.offloaded = store.offloaded /\ store'.serialized = store.serialized
         /\ store'.updated = store.updated /\ store'.written = store.written
         /\ store'.send = store.send \/ AddSend(e)
         /\ store'.finished = store.finished \/ ReportFinished(e)
<1> USE DEF TypeInv, TypeOK, EngineStep, EngineGoto, config, trainerVars, workerVars,
        Initialize, UpdateStart, SeeLoad, ResumeForLoad, Load, AddSend, ReadSend,
        SeeAllSent, Release, ResumeWeights, Updated, ReportFinished, ResumeCache
<1>1. /\ colocate' = colocate /\ validated' = validated
      /\ tpc' = tpc /\ tdone' = tdone /\ saved' = saved
      /\ tmem' = tmem /\ shared' = shared /\ wpc' = wpc /\ wdone' = wdone
  OBVIOUS
<1>2. \A f \in Engines \ {e} : epc'[f] = epc[f] /\ edone'[f] = edone[f]
  OBVIOUS
<1>3. edone'[e] = edone[e]
        \/ /\ edone'[e] = Step(edone[e]) /\ epc'[e] = "idle"
           /\ Updated(e) \/ ResumeCache(e)
  BY DEF Step
<1>4. /\ store'.optimizers = store.optimizers /\ store'.load = store.load
      /\ store'.offloaded = store.offloaded /\ store'.serialized = store.serialized
      /\ store'.updated = store.updated /\ store'.written = store.written
      /\ store'.send = store.send \/ AddSend(e)
      /\ store'.finished = store.finished \/ ReportFinished(e)
  OBVIOUS
<1>5. QED
  BY <1>1, <1>2, <1>3, <1>4

LEMMA EngineTypeInv ==
  ASSUME TypeInv, NEW e \in Engines, EngineStep(e)
  PROVE  TypeInv'
<1> USE Positions, StepAssumption
    DEF TypeInv, TypeOK, Bounded, EngineStep, EngineGoto, Step, config, trainerVars,
        workerVars, AfterPreValidate,
        Initialize, UpdateStart, SeeLoad, ResumeForLoad, Load, AddSend, ReadSend,
        SeeAllSent, Release, ResumeWeights, Updated, ReportFinished, ResumeCache
<1>1. epc' \in [Engines -> Elements(EnginePcs)]
  OBVIOUS
<1>2. edone' \in [Engines -> 0 .. Steps]
  OBVIOUS
<1>3. emem' \in [Engines -> BOOLEAN]
  OBVIOUS
<1>4. store' \in Stores
  BY DEF Stores
<1>5. \A f \in Engines : epc'[f] \notin {"new", "idle"} => edone'[f] < Steps
  OBVIOUS
<1>6. config' = config /\ trainerVars' = trainerVars /\ workerVars' = workerVars
  OBVIOUS
<1>7. QED
  BY <1>1, <1>2, <1>3, <1>4, <1>5, <1>6 DEF Stores

LEMMA EngineRanks ==
  ASSUME RanksInv, NEW e \in Engines, EngineStep(e)
  PROVE  RanksInv'
<1> USE DEF RanksInv
<1>1. /\ colocate' = colocate /\ validated' = validated
      /\ tpc' = tpc /\ tdone' = tdone /\ saved' = saved
      /\ tmem' = tmem /\ shared' = shared
      /\ \A f \in Engines : edone'[f] = edone[f] \/ edone'[f] = Step(edone[f])
  BY EngineFrame
<1>2. RankInv' /\ Apart' /\ RootLast'
  BY <1>1 DEF RankInv, RankIs, Apart, RootLast
<1>3. NobodyBehind'
  BY <1>1, TrainerNumbers DEF NobodyBehind, Step
<1>4. QED
  BY <1>2, <1>3, EngineTypeInv

\* What only speaks of the ranks, the workers and their keys.
LEMMA EngineOthers ==
  ASSUME RanksInv, CheckpointInv, OffloadedInv, BuffersInv, SentInv, KeysInv,
         NEW e \in Engines, EngineStep(e)
  PROVE  /\ CheckpointInv' /\ OffloadedInv' /\ BuffersInv' /\ SentInv' /\ KeysInv'
<1>1. /\ colocate' = colocate /\ tpc' = tpc /\ tdone' = tdone
      /\ wpc' = wpc /\ wdone' = wdone
      /\ store'.optimizers = store.optimizers /\ store'.load = store.load
      /\ store'.offloaded = store.offloaded /\ store'.serialized = store.serialized
      /\ store'.updated = store.updated /\ store'.written = store.written
  BY EngineFrame DEF RanksInv
<1>2. CheckpointInv' /\ OffloadedInv'
  BY <1>1 DEF CheckpointInv, OffloadedInv
<1>3. BuffersInv'
  BY <1>1 DEF BuffersInv, RankPast, WorkerPast, Step
<1>4. SentInv' /\ KeysInv'
  BY <1>1 DEF SentInv, KeysInv, RankPast
<1>5. QED
  BY <1>2, <1>3, <1>4

LEMMA EngineEngineInv ==
  ASSUME RanksInv, EngineInv, NEW e \in Engines, EngineStep(e)
  PROVE  EngineInv'
<1>1. /\ colocate' = colocate /\ tdone' = tdone /\ wdone' = wdone
      /\ \A f \in Engines \ {e} : epc'[f] = epc[f] /\ edone'[f] = edone[f]
  BY EngineFrame DEF RanksInv
<1>2. /\ epc'[e] \notin {"new", "idle"} => edone'[e] <= tdone[Root]
      /\ epc'[e] \in {"release", "waitOffloaded", "report", "resumeCache"} => colocate
      /\ epc'[e] \in {"report", "resumeCache"} =>
           \A d \in Devices : EngineOf[d] = e => wdone[d] = Step(edone'[e])
  <2> USE DEF RanksInv, TypeInv, TypeOK, EngineInv, EngineStep, EngineGoto, AfterPreValidate,
        Initialize, UpdateStart, SeeLoad, ResumeForLoad, Load, AddSend, ReadSend,
        SeeAllSent, Release, ResumeWeights, Updated, ReportFinished, ResumeCache
  <2>1. epc'[e] \notin {"new", "idle"} => edone'[e] <= tdone[Root]
    OBVIOUS
  <2>2. epc'[e] \in {"release", "waitOffloaded", "report", "resumeCache"} => colocate
    OBVIOUS
  <2>3. epc'[e] \in {"report", "resumeCache"} =>
           \A d \in Devices : EngineOf[d] = e => wdone[d] = Step(edone'[e])
    OBVIOUS
  <2>4. QED
    BY <2>1, <2>2, <2>3
<1>3. QED
  BY <1>1, <1>2 DEF EngineInv

\* The offer of a checkpoint tells an engine that waits for it how far all are.
LEMMA LoadTells ==
  ASSUME RanksInv, CheckpointInv, EngineInv, NEW e \in Engines, SeeLoad(e)
  PROVE  /\ tpc[Root] \in {"poll", "dropSend", "dropLoad"}
         /\ \A t \in Devices : /\ tdone[t] = edone[e] /\ tpc[t] \in Saved
                               /\ saved[t] = Step(edone[e])
<1> USE DEF RanksInv
<1>1. /\ tpc[Root] \in {"poll", "dropSend", "dropLoad"}
      /\ \A u \in Devices : tdone[u] = tdone[Root] /\ tpc[u] \in Saved
  BY DEF CheckpointInv, SeeLoad, Polling
<1>2. tdone[Root] = edone[e]
  BY <1>1, TrainerNumbers DEF NobodyBehind, EngineInv, SeeLoad
<1>3. Step(tdone[Root]) \in validated
  BY <1>1, TrainerNumbers DEF RankInv, RankIs, Polling
<1>4. QED
  BY <1>1, <1>2, <1>3 DEF RankInv, RankIs

LEMMA EngineLoading ==
  ASSUME RanksInv, CheckpointInv, EngineInv, LoadingInv, NEW e \in Engines, EngineStep(e)
  PROVE  LoadingInv'
<1>1. /\ tpc' = tpc /\ tdone' = tdone /\ saved' = saved
      /\ \A f \in Engines \ {e} : epc'[f] = epc[f] /\ edone'[f] = edone[f]
  BY EngineFrame DEF RanksInv
<1>2. ASSUME epc'[e] \in {"waitOptimizers", "loading"}, NEW t \in Devices
      PROVE  saved[t] = Step(edone[e]) /\ Within(t, e, Saved) /\ edone'[e] = edone[e]
  <2>1. edone'[e] = edone[e]
    BY <1>2, EngineFrame DEF RanksInv
  <2>2. SeeLoad(e) \/ ResumeForLoad(e)
    BY <1>2 DEF RanksInv, TypeInv, TypeOK, EngineStep, EngineGoto, AfterPreValidate,
      Initialize, UpdateStart, SeeLoad, ResumeForLoad, Load, AddSend, ReadSend,
      SeeAllSent, Release, ResumeWeights, Updated, ReportFinished, ResumeCache
  <2>3. CASE SeeLoad(e)
    BY <2>1, <2>3, LoadTells DEF Within
  <2>4. CASE ResumeForLoad(e)
    BY <2>1, <2>4 DEF ResumeForLoad, LoadingInv
  <2>5. QED
    BY <2>2, <2>3, <2>4
<1>3. QED
  BY <1>1, <1>2 DEF LoadingInv, Within

LEMMA EngineOwn ==
  ASSUME RanksInv, EngineInv, OffloadedInv, OwnInv, NEW e \in Engines, EngineStep(e)
  PROVE  OwnInv'
<1> USE DEF RanksInv
<1>1. /\ colocate' = colocate /\ tpc' = tpc /\ tdone' = tdone
      /\ \A f \in Engines \ {e} : epc'[f] = epc[f] /\ edone'[f] = edone[f]
  BY EngineFrame
<1>2. ASSUME colocate, epc'[e] \in {"update", "report", "resumeCache"}, NEW t \in Devices
      PROVE  Within(t, e, Offloaded) /\ edone'[e] = edone[e]
  <2>1. edone'[e] = edone[e]
    BY <1>2, EngineFrame
  <2>2. ResumeWeights(e) \/ epc[e] \in {"update", "report"}
    BY <1>2 DEF TypeInv, TypeOK, EngineStep, EngineGoto, AfterPreValidate,
      Initialize, UpdateStart, SeeLoad, ResumeForLoad, Load, AddSend, ReadSend,
      SeeAllSent, Release, ResumeWeights, Updated, ReportFinished, ResumeCache
  <2>3. CASE ResumeWeights(e)
    <3>1. store.offloaded = Devices
      BY <2>3, TrainerNumbers, StepAssumption, WholeSet DEF ResumeWeights
    <3>2. tpc[Root] \in Offloaded
      BY <3>1, TrainerNumbers DEF OffloadedInv
    <3>3. tdone[Root] = edone[e]
      BY <2>3, <3>2, TrainerNumbers
      DEF NobodyBehind, EngineInv, ResumeWeights, Offloaded, Freed, Ending, Dropping
    <3>4. QED
      BY <2>1, <3>1, <3>3 DEF OffloadedInv, Within
  <2>4. CASE epc[e] \in {"update", "report"}
    BY <1>2, <2>1, <2>4 DEF OwnInv
  <2>5. QED
    BY <2>2, <2>3, <2>4
<1>3. QED
  BY <1>1, <1>2 DEF OwnInv, Within

LEMMA EngineWorkers ==
  ASSUME RanksInv, WorkerInv, NEW e \in Engines, EngineStep(e)
  PROVE  WorkerInv'
<1> USE DEF RanksInv
<1>1. /\ colocate' = colocate /\ wpc' = wpc /\ wdone' = wdone
      /\ \A f \in Engines \ {e} : epc'[f] = epc[f] /\ edone'[f] = edone[f]
  BY EngineFrame
<1>2. ASSUME NEW d \in Devices, EngineOf[d] = e, wpc[d] # "idle"
      PROVE  FALSE
  <2>1. epc[e] = "update" /\ wdone[d] = edone[e]
    BY <1>2 DEF WorkerInv
  <2>2. wdone[d] = Step(edone[e])
    BY <1>2, <2>1 DEF EngineStep, Initialize, UpdateStart, SeeLoad, ResumeForLoad, Load,
      AddSend, ReadSend, SeeAllSent, Release, ResumeWeights, Updated, ReportFinished,
      ResumeCache
  <2>3. QED
    BY <2>1, <2>2, TrainerNumbers DEF Step
<1>3. QED
  BY <1>1, <1>2, StepAssumption DEF WorkerInv

\* When an engine has updated its weights rank 0 no longer offers a checkpoint.
LEMMA UpdatedTells ==
  ASSUME RanksInv, SendInv, OwnInv, SentInv, NEW e \in Engines, Updated(e)
  PROVE  e \notin store.send /\ tpc[Root] \notin {"dropSend", "dropLoad"}
<1> USE DEF RanksInv
<1>1. SUFFICES ASSUME e \in store.send \/ tpc[Root] \in {"dropSend", "dropLoad"}
               PROVE  FALSE
  OBVIOUS
<1>2. edone[e] = tdone[Root] /\ tpc[Root] \in {"poll", "dropSend", "dropLoad"}
  BY <1>1 DEF SendInv
<1>3. Root \in Devices /\ tdone[Root] \in Nat
  BY TrainerNumbers
<1>4. CASE colocate
  <2>1. Within(Root, e, Offloaded)
    BY <1>3, <1>4 DEF OwnInv, Updated
  <2>2. QED
    BY <1>2, <2>1 DEF Within, Offloaded, Freed, Ending, Dropping
<1>5. CASE ~colocate
  <2>1. PICK d \in Devices : EngineOf[d] = e
    BY StepAssumption
  <2>2. wdone[d] = Step(edone[e])
    BY <2>1 DEF Updated
  <2>3. RankPast(Root, Step(edone[e]), {"sending"})
    BY <1>3, <1>5, <2>2 DEF SentInv
  <2>4. QED
    BY <1>2, <1>3, <2>3 DEF RankPast, Step
<1>6. QED
  BY <1>4, <1>5

LEMMA EngineSend ==
  ASSUME RanksInv, CheckpointInv, EngineInv, SendInv, OwnInv, SentInv,
         NEW e \in Engines, EngineStep(e)
  PROVE  SendInv'
<1> USE DEF RanksInv
<1>1. /\ tpc' = tpc /\ tdone' = tdone
      /\ \A f \in Engines \ {e} : epc'[f] = epc[f] /\ edone'[f] = edone[f]
  BY EngineFrame
<1>2. store'.send = store.send \/ (AddSend(e) /\ store'.send = store.send \cup {e})
  BY EngineFrame DEF AddSend, TypeInv, TypeOK
<1>3. /\ epc'[e] \in {"waitOptimizers", "loading", "addSend"} =>
           tpc[Root] = "poll" /\ edone'[e] = tdone[Root] /\ e \notin store'.send
      /\ e \in store'.send => tpc[Root] \in {"poll", "dropSend"}
      /\ e \in store'.send \/ tpc[Root] \in {"dropSend", "dropLoad"} =>
           edone'[e] = tdone[Root] /\ epc'[e] \in HasAdded
  <2>0. /\ epc[e] \in {"waitOptimizers", "loading", "addSend"} =>
             tpc[Root] = "poll" /\ edone[e] = tdone[Root] /\ e \notin store.send
        /\ e \in store.send => tpc[Root] \in {"poll", "dropSend"}
        /\ e \in store.send \/ tpc[Root] \in {"dropSend", "dropLoad"} =>
             edone[e] = tdone[Root] /\ epc[e] \in HasAdded
    BY DEF SendInv
  <2> USE DEF TypeInv, TypeOK, EngineGoto, HasAdded, AfterPreValidate
  <2>1. CASE SeeLoad(e)
    <3>1. tpc[Root] \in {"poll", "dropSend", "dropLoad"} /\ tdone[Root] = edone[e]
      BY <2>1, LoadTells, TrainerNumbers
    <3>2. QED
      BY <2>0, <2>1, <3>1 DEF SeeLoad
  <2>2. CASE Updated(e)
    BY <2>0, <2>2, UpdatedTells DEF Updated
  <2>3. CASE AddSend(e)
    BY <2>0, <2>3 DEF AddSend
  <2>4. CASE Initialize(e) \/ UpdateStart(e) \/ ReportFinished(e) \/ ResumeCache(e)
    BY <2>0, <2>4 DEF Initialize, UpdateStart, ReportFinished, ResumeCache
  <2>5. CASE \/ ResumeForLoad(e) \/ Load(e) \/ ReadSend(e) \/ SeeAllSent(e)
             \/ Release(e) \/ ResumeWeights(e)
    BY <2>0, <2>5
    DEF ResumeForLoad, Load, ReadSend, SeeAllSent, Release, ResumeWeights
  <2>6. QED
    BY <2>1, <2>2, <2>3, <2>4, <2>5 DEF EngineStep
<1>4. QED
  BY <1>1, <1>2, <1>3 DEF SendInv

LEMMA EngineFinished ==
  ASSUME RanksInv, EngineInv, OwnInv, FinishedInv, NEW e \in Engines, EngineStep(e)
  PROVE  FinishedInv'
<1> USE DEF RanksInv
<1>1. /\ colocate' = colocate /\ tpc' = tpc /\ tdone' = tdone
      /\ \A f \in Engines \ {e} : epc'[f] = epc[f] /\ edone'[f] = edone[f]
  BY EngineFrame
<1>2. \/ store'.finished = store.finished /\ ~ReportFinished(e)
      \/ ReportFinished(e) /\ store'.finished = store.finished \cup {e}
  BY EngineFrame DEF ReportFinished, TypeInv, TypeOK
<1>3. Root \in Devices /\ tdone[Root] \in Nat /\ edone[e] \in Nat
  BY TrainerNumbers
<1>4. ASSUME e \in store'.finished
      PROVE  /\ tpc[Root] \in Offloaded \ {"dropOptimizers", "dropOffloaded"}
             /\ \/ epc'[e] = "resumeCache" /\ edone'[e] = tdone[Root]
                \/ edone'[e] = Step(tdone[Root])
  <2>1. CASE ReportFinished(e)
    <3>1. Within(Root, e, Offloaded) /\ colocate
      BY <1>3, <2>1 DEF OwnInv, EngineInv, ReportFinished
    <3>2. ~RankPast(Root, Step(edone[e]), Ending)
      BY <2>1, <3>1 DEF FinishedInv, ReportFinished
    <3>3. tdone[Root] = edone[e] /\ tpc[Root] \in Offloaded \ Ending
      BY <1>3, <3>1, <3>2 DEF Within, RankPast, Step
    <3>4. epc'[e] = "resumeCache" /\ edone'[e] = edone[e]
      BY <2>1 DEF ReportFinished, EngineGoto, TypeInv, TypeOK
    <3>5. QED
      BY <3>3, <3>4 DEF Ending, Dropping
  <2>2. CASE ~ReportFinished(e)
    <3>1. /\ tpc[Root] \in Offloaded \ {"dropOptimizers", "dropOffloaded"}
          /\ \/ epc[e] = "resumeCache" /\ edone[e] = tdone[Root]
             \/ edone[e] = Step(tdone[Root])
      BY <1>2, <1>4, <2>2 DEF FinishedInv
    <3>2. CASE epc[e] = "resumeCache" /\ edone[e] = tdone[Root]
      <4>1. edone'[e] = Step(edone[e])
        BY <1>3, <3>2 DEF TypeInv, TypeOK, EngineStep, Initialize, UpdateStart, SeeLoad,
          ResumeForLoad, Load, AddSend, ReadSend, SeeAllSent, Release, ResumeWeights,
          Updated, ReportFinished, ResumeCache, Step
      <4>2. QED
        BY <3>1, <3>2, <4>1
    <3>3. CASE edone[e] = Step(tdone[Root])
      <4>1. epc[e] \in {"new", "idle"} /\ ~(tdone[Root] >= edone[e])
        BY <1>3, <3>3 DEF EngineInv, Step
      <4>2. edone'[e] = edone[e]
        BY <4>1, EngineFrame DEF Updated, ResumeCache
      <4>3. QED
        BY <3>1, <3>3, <4>2
    <3>4. QED
      BY <3>1, <3>2, <3>3
  <2>3. QED
    BY <2>1, <2>2
<1>5. ASSUME colocate, RankPast(Root, Step(edone'[e]), Ending)
      PROVE  epc'[e] = "resumeCache"
  <2>1. CASE edone'[e] = edone[e]
    <3>1. epc[e] = "resumeCache"
      BY <1>5, <2>1 DEF FinishedInv
    <3>2. edone'[e] = Step(edone[e])
      BY <1>3, <3>1 DEF TypeInv, TypeOK, EngineStep, Initialize, UpdateStart, SeeLoad,
        ResumeForLoad, Load, AddSend, ReadSend, SeeAllSent, Release, ResumeWeights,
        Updated, ReportFinished, ResumeCache, Step
    <3>3. QED
      BY <1>3, <2>1, <3>2 DEF Step
  <2>2. CASE edone'[e] = Step(edone[e]) /\ (Updated(e) \/ ResumeCache(e))
    <3>1. Within(Root, e, Offloaded)
      BY <1>3, <1>5, <2>2 DEF OwnInv, Updated, ResumeCache
    <3>2. QED
      BY <1>3, <1>5, <2>2, <3>1 DEF Within, RankPast, Step, Ending, Dropping
  <2>3. QED
    BY <2>1, <2>2, EngineFrame
<1>6. QED
  BY <1>1, <1>2, <1>4, <1>5 DEF FinishedInv, RankPast
-----------------------------------------------------------------------------
(***************************************************************************)
(* The steps of a worker.                                                  *)
(***************************************************************************)

LEMMA WorkerFrame ==
  ASSUME TypeInv, NEW d \in Devices, WorkerStep(d)
  PROVE  /\ colocate' = colocate /\ validated' = validated
         /\ tpc' = tpc /\ tdone' = tdone /\ saved' = saved
         /\ tmem' = tmem /\ shared' = shared /\ epc' = epc /\ edone' = edone
         /\ \A c \in Devices \ {d} : wpc'[c] = wpc[c] /\ wdone'[c] = wdone[c]
         /\ wdone'[d] = wdone[d]
              \/ /\ wdone'[d] = Step(wdone[d]) /\ wpc'[d] = "idle"
                 /\ Received(d) \/ TakeWritten(d)
         /\ store'.optimizers = store.optimizers /\ store'.load = store.load
         /\ store'.send = store.send /\ store'.offloaded = store.offloaded
         /\ store'.serialized = store.serialized /\ store'.finished = store.finished
         /\ store'.updated = store.updated \/ SignalUpdated(d)
         /\ store'.written = store.written \/ TakeWritten(d)
<1> USE DEF TypeInv, TypeOK, WorkerStep, WorkerGoto, config, trainerVars, engineVars,
        Receive, Received, Collect, Exchange, SignalUpdated, WorkersBarrier, TakeWritten
<1>1. /\ colocate' = colocate /\ validated' = validated
      /\ tpc' = tpc /\ tdone' = tdone /\ saved' = saved
      /\ tmem' = tmem /\ shared' = shared /\ epc' = epc /\ edone' = edone
  OBVIOUS
<1>2. \A c \in Devices \ {d} : wpc'[c] = wpc[c] /\ wdone'[c] = wdone[c]
  OBVIOUS
<1>3. wdone'[d] = wdone[d]
        \/ /\ wdone'[d] = Step(wdone[d]) /\ wpc'[d] = "idle"
           /\ Received(d) \/ TakeWritten(d)
  BY DEF Step
<1>4. /\ store'.optimizers = store.optimizers /\ store'.load = store.load
      /\ store'.send = store.send /\ store'.offloaded = store.offloaded
      /\ store'.serialized = store.serialized /\ store'.finished = store.finished
      /\ store'.updated = store.updated \/ SignalUpdated(d)
      /\ store'.written = store.written \/ TakeWritten(d)
  OBVIOUS
<1>5. QED
  BY <1>1, <1>2, <1>3, <1>4

LEMMA WorkerTypeInv ==
  ASSUME TypeInv, NEW d \in Devices, WorkerStep(d)
  PROVE  TypeInv'
<1> USE Positions, StepAssumption
    DEF TypeInv, TypeOK, Bounded, WorkerStep, WorkerGoto, Called, config, trainerVars,
        engineVars, Receive, Received, Collect, Exchange, SignalUpdated, WorkersBarrier,
        TakeWritten
<1>1. wpc' \in [Devices -> Elements(WorkerPcs)]
  OBVIOUS
<1>2. wdone' \in [Devices -> 0 .. Steps]
  OBVIOUS
<1>3. store' \in Stores
  <2>1. store \in Stores
    BY DEF Stores
  <2>2. CASE SignalUpdated(d)
    <3>1. <<d, Step(wdone[d])>> \in Devices \X (1 .. Steps)
      BY <2>2 DEF Step
    <3>2. QED
      BY <2>1, <2>2, <3>1 DEF Stores
  <2>3. CASE ~SignalUpdated(d)
    BY <2>1, <2>3 DEF Stores
  <2>4. QED
    BY <2>2, <2>3
<1>4. \A c \in Devices : wpc'[c] # "idle" => wdone'[c] < Steps
  OBVIOUS
<1>5. config' = config /\ trainerVars' = trainerVars /\ engineVars' = engineVars
  OBVIOUS
<1>6. QED
  BY <1>1, <1>2, <1>3, <1>4, <1>5 DEF Stores

\* What only speaks of the ranks, the engines and their keys.
LEMMA WorkerOthers ==
  ASSUME RanksInv, CheckpointInv, SendInv, LoadingInv, OwnInv, OffloadedInv, FinishedInv,
         NEW d \in Devices, WorkerStep(d)
  PROVE  /\ RanksInv' /\ CheckpointInv' /\ SendInv' /\ LoadingInv' /\ OwnInv'
         /\ OffloadedInv' /\ FinishedInv'
<1>1. /\ colocate' = colocate /\ validated' = validated
      /\ tpc' = tpc /\ tdone' = tdone /\ saved' = saved
      /\ tmem' = tmem /\ shared' = shared /\ epc' = epc /\ edone' = edone
      /\ store'.load = store.load
      /\ store'.send = store.send /\ store'.offloaded = store.offloaded
      /\ store'.finished = store.finished
  BY WorkerFrame DEF RanksInv
<1>2. RanksInv'
  BY <1>1, WorkerTypeInv DEF RanksInv, RankInv, RankIs, NobodyBehind, Apart, RootLast
<1>3. CheckpointInv' /\ SendInv'
  BY <1>1 DEF CheckpointInv, SendInv
<1>4. LoadingInv' /\ OwnInv' /\ OffloadedInv'
  BY <1>1 DEF LoadingInv, OwnInv, OffloadedInv, Within
<1>5. FinishedInv'
  BY <1>1 DEF FinishedInv, RankPast
<1>6. QED
  BY <1>2, <1>3, <1>4, <1>5

LEMMA WorkerEngines ==
  ASSUME RanksInv, EngineInv, WorkerInv, NEW d \in Devices, WorkerStep(d)
  PROVE  EngineInv' /\ WorkerInv'
<1> USE DEF RanksInv
<1>1. /\ colocate' = colocate /\ tdone' = tdone /\ epc' = epc /\ edone' = edone
      /\ \A c \in Devices \ {d} : wpc'[c] = wpc[c] /\ wdone'[c] = wdone[c]
  BY WorkerFrame
<1>2. /\ epc[EngineOf[d]] = "update" /\ wdone[d] = edone[EngineOf[d]]
      /\ wpc[d] \in {"signal", "barrier", "waitWritten"} => colocate
  BY DEF WorkerInv, WorkerStep, Called, Receive, Received, Collect, Exchange,
         SignalUpdated, WorkersBarrier, TakeWritten
<1>3. wpc'[d] # "idle" => wdone'[d] = wdone[d]
  BY WorkerFrame
<1>4. wpc'[d] \in {"signal", "barrier", "waitWritten"} => colocate
  BY <1>2 DEF TypeInv, TypeOK, WorkerStep, WorkerGoto, Receive, Received, Collect,
              Exchange, SignalUpdated, WorkersBarrier, TakeWritten
<1>5. EngineInv'
  BY <1>1, <1>2 DEF EngineInv
<1>6. WorkerInv'
  BY <1>1, <1>2, <1>3, <1>4 DEF WorkerInv
<1>7. QED
  BY <1>5, <1>6

LEMMA WorkerBuffers ==
  ASSUME RanksInv, WorkerInv, BuffersInv, NEW d \in Devices, WorkerStep(d)
  PROVE  BuffersInv'
<1> USE DEF RanksInv
<1>1. /\ colocate' = colocate /\ tpc' = tpc /\ tdone' = tdone
      /\ store'.serialized = store.serialized
      /\ \A c \in Devices \ {d} : wpc'[c] = wpc[c] /\ wdone'[c] = wdone[c]
  BY WorkerFrame
<1>2. /\ \A c \in Devices : tdone[c] \in Nat /\ wdone[c] \in Nat
      /\ \A p \in store.serialized \cup store.updated \cup store.written :
           p[1] \in Devices /\ p[2] \in Nat /\ p = <<p[1], p[2]>>
  BY TrainerNumbers
<1>3. /\ wdone'[d] = wdone[d] \/ wdone'[d] = Step(wdone[d])
      /\ wpc[d] \in {"barrier", "waitWritten"} =>
           wpc'[d] \in {"barrier", "waitWritten"} \/ wdone'[d] = Step(wdone[d])
  <2>1. wdone'[d] = wdone[d] \/ wdone'[d] = Step(wdone[d])
    BY WorkerFrame
  <2>2. ASSUME wpc[d] \in {"barrier", "waitWritten"}
        PROVE  wpc'[d] \in {"barrier", "waitWritten"} \/ wdone'[d] = Step(wdone[d])
    <3>1. WorkersBarrier(d) \/ TakeWritten(d)
      BY <2>2 DEF WorkerStep, Called, Receive, Received, Collect, Exchange, SignalUpdated
    <3>2. CASE WorkersBarrier(d)
      BY <3>2 DEF WorkersBarrier, WorkerGoto, TypeInv, TypeOK
    <3>3. CASE TakeWritten(d)
      BY <3>3 DEF TakeWritten, TypeInv, TypeOK, Step
    <3>4. QED
      BY <3>1, <3>2, <3>3
  <2>3. QED
    BY <2>1, <2>2
<1>4. ASSUME NEW c \in Devices, NEW s \in Nat, WorkerPast(c, s)
      PROVE  WorkerPast(c, s)'
  <2>1. CASE c # d
    BY <1>1, <1>4, <2>1 DEF WorkerPast, Step
  <2>2. CASE c = d
    BY <1>2, <1>3, <1>4, <2>2 DEF WorkerPast, Step
  <2>3. QED
    BY <2>1, <2>2
<1>5. \A p \in store'.serialized : RankPast(p[1], p[2], {"waitUpdated"} \cup Freed)'
  BY <1>1 DEF BuffersInv, RankPast
<1>6. \A p \in store'.updated : WorkerPast(p[1], p[2])'
  <2>1. \A p \in store.updated : WorkerPast(p[1], p[2])'
    BY <1>2, <1>4 DEF BuffersInv
  <2>2. CASE SignalUpdated(d)
    <3>1. /\ store'.updated = store.updated \cup {<<d, Step(wdone[d])>>}
          /\ wpc'[d] = "barrier" /\ wdone' = wdone
      BY <2>2 DEF SignalUpdated, WorkerGoto, TypeInv, TypeOK
    <3>2. ASSUME NEW p, p = <<d, Step(wdone[d])>>
          PROVE  WorkerPast(p[1], p[2])'
      BY <3>1, <3>2 DEF WorkerPast
    <3>3. QED
      BY <2>1, <3>1, <3>2
  <2>3. CASE ~SignalUpdated(d)
    BY <2>1, <2>3, WorkerFrame
  <2>4. QED
    BY <2>2, <2>3
<1>7. \A p \in store'.written : RankPast(p[1], p[2], {"waitFinished"} \cup Ending)'
  <2>1. store'.written \subseteq store.written
    <3>1. CASE TakeWritten(d)
      BY <3>1 DEF TakeWritten, TypeInv, TypeOK
    <3>2. CASE ~TakeWritten(d)
      BY <3>2, WorkerFrame
    <3>3. QED
      BY <3>1, <3>2
  <2>2. QED
    BY <1>1, <2>1 DEF BuffersInv, RankPast
<1>8. ASSUME colocate, NEW c \in Devices
      PROVE  /\ WorkerPast(c, tdone[c])'
             /\ tpc'[c] \in Freed => WorkerPast(c, Step(tdone[c]))'
             /\ RankPast(c, wdone[c], {"waitFinished"} \cup Ending)'
             /\ wpc'[c] = "exchange" => <<c, Step(wdone'[c])>> \in store'.serialized
  <2>0. /\ WorkerPast(c, tdone[c])
        /\ tpc[c] \in Freed => WorkerPast(c, Step(tdone[c]))
        /\ RankPast(c, wdone[c], {"waitFinished"} \cup Ending)
        /\ wpc[c] = "exchange" => <<c, Step(wdone[c])>> \in store.serialized
    BY <1>8 DEF BuffersInv
  <2>1. \A s \in Nat : WorkerPast(c, s) => WorkerPast(c, s)'
    BY <1>4
  <2>2. WorkerPast(c, tdone[c])'
    BY <1>1, <1>2, <2>0, <2>1 DEF WorkerPast
  <2>3. tpc'[c] \in Freed => WorkerPast(c, Step(tdone[c]))'
    <3>1. Step(tdone[c]) \in Nat
      BY <1>2 DEF Step
    <3>2. QED
      BY <1>1, <2>0, <2>1, <3>1 DEF WorkerPast, Step
  <2>4. RankPast(c, wdone[c], {"waitFinished"} \cup Ending)'
    <3>1. CASE wdone'[c] = wdone[c]
      BY <1>1, <2>0, <3>1 DEF RankPast
    <3>2. CASE wdone'[c] # wdone[c]
      <4>1. c = d /\ TakeWritten(d) /\ wdone'[d] = Step(wdone[d])
        BY <1>1, <1>8, <3>2, WorkerFrame DEF Received
      <4>2. RankPast(d, Step(wdone[d]), {"waitFinished"} \cup Ending)
        BY <4>1 DEF TakeWritten, BuffersInv
      <4>3. QED
        BY <1>1, <4>1, <4>2 DEF RankPast
    <3>3. QED
      BY <3>1, <3>2
  <2>5. wpc'[c] = "exchange" => <<c, Step(wdone'[c])>> \in store'.serialized
    <3>1. CASE c # d
      BY <1>1, <2>0, <3>1
    <3>2. CASE c = d /\ Collect(d)
      BY <1>1, <3>2 DEF Collect
    <3>3. CASE c = d /\ ~Collect(d)
      BY <1>8, <3>3 DEF TypeInv, TypeOK, WorkerStep, WorkerGoto, Receive, Received,
        Exchange, SignalUpdated, WorkersBarrier, TakeWritten
    <3>4. QED
      BY <3>1, <3>2, <3>3
  <2>6. QED
    BY <2>2, <2>3, <2>4, <2>5
<1>9. QED
  BY <1>1, <1>5, <1>6, <1>7, <1>8 DEF BuffersInv, Step

LEMMA WorkerKeys ==
  ASSUME RanksInv, WorkerInv, BuffersInv, SentInv, KeysInv, NEW d \in Devices, WorkerStep(d)
  PROVE  SentInv' /\ KeysInv'
<1> USE DEF RanksInv
<1>1. /\ colocate' = colocate /\ tpc' = tpc /\ tdone' = tdone
      /\ store'.optimizers = store.optimizers
      /\ \A c \in Devices \ {d} : wpc'[c] = wpc[c] /\ wdone'[c] = wdone[c]
  BY WorkerFrame
<1>2. /\ \A c \in Devices : tdone[c] \in Nat /\ wdone[c] \in Nat
      /\ \A p \in store.serialized \cup store.updated \cup store.written :
           p[1] \in Devices /\ p[2] \in Nat /\ p = <<p[1], p[2]>>
  BY TrainerNumbers
<1>3. ASSUME ~colocate, NEW c \in Devices, NEW u \in Devices
      PROVE  RankPast(u, wdone[c], {"sending"})'
  <2>1. RankPast(u, wdone[c], {"sending"})
    BY <1>3 DEF SentInv
  <2>2. CASE wdone'[c] = wdone[c]
    BY <1>1, <2>1, <2>2 DEF RankPast
  <2>3. CASE wdone'[c] # wdone[c]
    <3>1. c = d /\ Received(d) /\ wdone'[d] = Step(wdone[d])
      <4>1. c = d
        BY <1>1, <2>3
      <4>2. ~TakeWritten(d)
        BY <1>3 DEF TakeWritten, WorkerInv
      <4>3. QED
        BY <2>3, <4>1, <4>2, WorkerFrame
    <3>2. RankPast(u, Step(wdone[d]), {"sending", "offload"} \cup Offloaded)
      <4>1. PICK s \in Nat : s = Step(wdone[d])
        BY <1>2 DEF Step
      <4>2. tpc[u] \in Elements(TrainerPcs) /\ tdone[u] \in Nat
        BY <1>2 DEF TypeInv, TypeOK
      <4>3. TrainerReached(u, s, "sending")
        BY <3>1, <4>1 DEF Received
      <4>4. QED
        BY <4>1, <4>2, <4>3, Reached
    <3>3. RankPast(u, Step(wdone[d]), {"sending"})
      BY <1>3, <3>2 DEF RankPast, RankInv, RankIs
    <3>4. QED
      BY <1>1, <3>1, <3>3 DEF RankPast
  <2>4. QED
    BY <2>2, <2>3
<1>4. ASSUME NEW p \in store'.updated
      PROVE  colocate /\ ~RankPast(p[1], p[2], Freed)
  <2>1. CASE p \in store.updated
    BY <2>1 DEF KeysInv
  <2>2. CASE p \notin store.updated
    <3>1. SignalUpdated(d)
      BY <1>4, <2>2, WorkerFrame
    <3>2. p = <<d, Step(wdone[d])>> /\ wpc[d] = "signal"
      BY <1>4, <2>2, <3>1 DEF SignalUpdated, TypeInv, TypeOK
    <3>3. colocate
      BY <3>2 DEF WorkerInv
    <3>4. /\ WorkerPast(d, tdone[d])
          /\ tpc[d] \in Freed => WorkerPast(d, Step(tdone[d]))
      BY <3>3 DEF BuffersInv
    <3>5. QED
      BY <1>2, <3>2, <3>3, <3>4 DEF WorkerPast, RankPast, Step
  <2>3. QED
    BY <2>1, <2>2
<1>5. ASSUME NEW p \in store'.written
      PROVE  colocate /\ wdone'[p[1]] < p[2]
  <2>1. p \in store.written /\ (TakeWritten(d) => p # <<d, Step(wdone[d])>>)
    <3>1. CASE TakeWritten(d)
      BY <1>5, <3>1 DEF TakeWritten, TypeInv, TypeOK
    <3>2. CASE ~TakeWritten(d)
      BY <1>5, <3>2, WorkerFrame
    <3>3. QED
      BY <3>1, <3>2
  <2>2. /\ colocate /\ wdone[p[1]] < p[2]
        /\ p[1] \in Devices /\ p[2] \in Nat /\ p = <<p[1], p[2]>>
    BY <1>2, <2>1 DEF KeysInv
  <2>3. CASE wdone'[p[1]] = wdone[p[1]]
    BY <2>2, <2>3
  <2>4. CASE wdone'[p[1]] # wdone[p[1]]
    <3>1. p[1] = d /\ TakeWritten(d) /\ wdone'[d] = Step(wdone[d])
      BY <1>1, <2>2, <2>4, WorkerFrame DEF Received
    <3>2. p[2] # Step(wdone[d])
      BY <2>1, <2>2, <3>1
    <3>3. QED
      BY <1>2, <2>2, <3>1, <3>2 DEF Step
  <2>5. QED
    BY <2>3, <2>4
<1>6. QED
  BY <1>1, <1>3, <1>4, <1>5 DEF SentInv, KeysInv, RankPast
-----------------------------------------------------------------------------
(***************************************************************************)
(* The invariant.                                                          *)
(***************************************************************************)

LEMMA Initially ==
  ASSUME Init
  PROVE  IInv
<1> USE StepAssumption DEF Init, EmptyStore
<1>1. TypeInv
  BY Positions DEF TypeInv, TypeOK, Bounded
<1>2. RanksInv
  <2>1. \A t \in Devices : tpc[t] = "idle" /\ tdone[t] = 0 /\ ~shared[t]
    OBVIOUS
  <2>2. \A t \in Devices : colocate => ~tmem[t]
    OBVIOUS
  <2>3. RankInv
    BY <2>1, <2>2 DEF RankInv, RankIs, Saved, Polling, Offloaded, Freed, Ending, Dropping
  <2>4. NobodyBehind /\ Apart /\ RootLast
    BY <2>1 DEF NobodyBehind, Apart, RootLast, Dropping
  <2>5. QED
    BY <1>1, <2>3, <2>4 DEF RanksInv
<1>3. CheckpointInv /\ SendInv /\ EngineInv /\ LoadingInv /\ OwnInv
  BY DEF CheckpointInv, SendInv, EngineInv, LoadingInv, OwnInv, Polling
<1>4. OffloadedInv /\ WorkerInv
  BY DEF OffloadedInv, WorkerInv
<1>5. BuffersInv
  BY DEF BuffersInv, WorkerPast, RankPast, Freed, Ending, Dropping
<1>6. SentInv /\ KeysInv
  BY DEF SentInv, KeysInv, RankPast
<1>7. FinishedInv
  BY DEF FinishedInv, RankPast, Ending, Dropping, Step
<1>8. QED
  BY <1>2, <1>3, <1>4, <1>5, <1>6, <1>7 DEF IInv

LEMMA Preserved ==
  ASSUME IInv, [Next]_vars
  PROVE  IInv'
<1>1. ASSUME NEW t \in Devices, TrainerStep(t)
      PROVE  IInv'
  <2>1. RanksInv'
    BY <1>1, TrainerTypeInv, TrainerRankInv, TrainerOrder DEF IInv, RanksInv
  <2>2. CheckpointInv' /\ SendInv' /\ EngineInv' /\ LoadingInv' /\ OwnInv'
    BY <1>1, TrainerCheckpoint, TrainerSend, TrainerEngines DEF IInv
  <2>3. OffloadedInv' /\ BuffersInv' /\ SentInv' /\ KeysInv' /\ FinishedInv'
    BY <1>1, TrainerOffloaded, TrainerBuffers, TrainerSent, TrainerKeysInv,
       TrainerFinished DEF IInv
  <2>4. WorkerInv'
    BY <1>1, TrainerFrame DEF IInv, RanksInv, WorkerInv
  <2>5. QED
    BY <2>1, <2>2, <2>3, <2>4 DEF IInv
<1>2. ASSUME NEW d \in Devices, WorkerStep(d)
      PROVE  IInv'
  BY <1>2, WorkerOthers, WorkerEngines, WorkerBuffers, WorkerKeys DEF IInv
<1>3. ASSUME NEW e \in Engines, EngineStep(e)
      PROVE  IInv'
  BY <1>3, EngineRanks, EngineOthers, EngineEngineInv, EngineLoading, EngineOwn,
     EngineWorkers, EngineSend, EngineFinished DEF IInv
<1>4. ASSUME UNCHANGED vars
      PROVE  IInv'
  <2>1. /\ colocate' = colocate /\ validated' = validated /\ tpc' = tpc /\ tdone' = tdone
        /\ epc' = epc /\ edone' = edone /\ wpc' = wpc /\ wdone' = wdone
        /\ store' = store /\ saved' = saved /\ tmem' = tmem /\ shared' = shared
        /\ emem' = emem
    BY <1>4 DEF vars, config, trainerVars, engineVars, workerVars
  <2>2. RanksInv'
    BY <2>1 DEF IInv, RanksInv, TypeInv, TypeOK, Bounded, RankInv, RankIs, NobodyBehind,
                Apart, RootLast
  <2>3. CheckpointInv' /\ SendInv' /\ EngineInv' /\ LoadingInv' /\ OwnInv'
    BY <2>1 DEF IInv, CheckpointInv, SendInv, EngineInv, LoadingInv, OwnInv, Within
  <2>4. OffloadedInv' /\ WorkerInv' /\ BuffersInv'
    BY <2>1 DEF IInv, OffloadedInv, WorkerInv, BuffersInv, WorkerPast, RankPast, Step
  <2>5. SentInv' /\ KeysInv' /\ FinishedInv'
    BY <2>1 DEF IInv, SentInv, KeysInv, FinishedInv, RankPast
  <2>6. QED
    BY <2>2, <2>3, <2>4, <2>5 DEF IInv
<1>5. QED
  BY <1>1, <1>2, <1>3, <1>4 DEF Next

\* The parts of the invariant hold of every run of the protocol.
THEOREM Inductive == Spec => []IInv
<1>1. Init => IInv
  BY Initially
<1>2. IInv /\ [Next]_vars => IInv'
  BY Preserved
<1>3. QED
  BY <1>1, <1>2, PTL DEF Spec

\* Type correctness.
THEOREM TypeCorrect == Spec => []TypeOK
<1>1. IInv => TypeOK
  BY DEF IInv, RanksInv, TypeInv
<1>2. QED
  BY <1>1, Inductive, PTL

\* An engine that reads the checkpoint of a validated step (update_weights_from_disk)
\* finds the shards that every rank wrote for this step.
THEOREM LoadsWhole == Spec => []LoadsWholeCheckpoint
<1>1. IInv => LoadsWholeCheckpoint
  BY DEF IInv, LoadingInv, LoadsWholeCheckpoint
<1>2. QED
  BY <1>1, Inductive, PTL

\* No training rank has weights on a device while a colocated engine has its own
\* there (_pre_update_weights).
THEOREM OneOwner == Spec => []WeightsNeverShareDevice
<1>1. IInv => WeightsNeverShareDevice
  BY DEF IInv, RanksInv, RankInv, RankIs, OwnInv, Within, WeightsNeverShareDevice
<1>2. QED
  BY <1>1, Inductive, PTL

\* The buffers a colocated worker exchanges from are still shared by the rank.
THEOREM BuffersLive == Spec => []MappedBuffersLive
<1>1. IInv => MappedBuffersLive
  <2>1. SUFFICES ASSUME IInv, colocate, NEW d \in Devices, wpc[d] = "exchange"
                 PROVE  shared[d]
    BY DEF MappedBuffersLive
  <2>2. tdone[d] \in Nat /\ wdone[d] \in Nat
    BY <2>1, TrainerNumbers DEF IInv, RanksInv
  <2>3. RankPast(d, Step(wdone[d]), {"waitUpdated"} \cup Freed)
    <3>1. <<d, Step(wdone[d])>> \in store.serialized
      BY <2>1 DEF IInv, BuffersInv
    <3>2. QED
      BY <2>1, <3>1 DEF IInv, BuffersInv
  <2>4. ~(tdone[d] >= Step(wdone[d]))
    <3>1. WorkerPast(d, tdone[d])
      BY <2>1 DEF IInv, BuffersInv
    <3>2. QED
      BY <2>1, <2>2, <3>1 DEF WorkerPast, Step
  <2>5. tpc[d] \notin Freed
    <3>1. tpc[d] \in Freed => WorkerPast(d, Step(tdone[d]))
      BY <2>1 DEF IInv, BuffersInv
    <3>2. QED
      BY <2>1, <2>2, <2>3, <2>4, <3>1 DEF WorkerPast, RankPast, Step
  <2>6. QED
    BY <2>1, <2>3, <2>4, <2>5 DEF RankPast, IInv, RanksInv, RankInv, RankIs
<1>2. QED
  BY <1>1, Inductive, PTL

\* An engine takes its cache back (_post_update_weights) when no rank on its devices
\* shares buffers any more.
THEOREM CacheLast == Spec => []CacheAfterBuffersFreed
<1>1. IInv => CacheAfterBuffersFreed
  <2>1. SUFFICES ASSUME IInv, NEW e \in Engines, epc[e] = "resumeCache",
                        NEW d \in Devices, EngineOf[d] = e
                 PROVE  ~shared[d]
    BY DEF CacheAfterBuffersFreed
  <2>2. wdone[d] = Step(edone[e]) /\ colocate
    BY <2>1 DEF IInv, EngineInv
  <2>3. RankPast(d, Step(edone[e]), {"waitFinished"} \cup Ending)
    BY <2>1, <2>2 DEF IInv, BuffersInv
  <2>4. Within(d, e, Offloaded) /\ tdone[d] \in Nat /\ edone[e] \in Nat
    BY <2>1, <2>2, TrainerNumbers DEF IInv, OwnInv, RanksInv
  <2>5. tpc[d] # "waitUpdated"
    BY <2>3, <2>4 DEF RankPast, Within, Step, Ending, Dropping
  <2>6. QED
    BY <2>1, <2>5 DEF IInv, RanksInv, RankInv, RankIs
<1>2. QED
  BY <1>1, Inductive, PTL

\* What is left of the store between two steps.
LEMMA LeftStore ==
  ASSUME NEW a \in SUBSET Engines, NEW b \in SUBSET (Devices \X (1 .. Steps))
  PROVE  [EmptyStore EXCEPT !.inited = a, !.serialized = b]
           = [inited |-> a, optimizers |-> FALSE, load |-> FALSE, send |-> {},
              offloaded |-> {}, serialized |-> b, updated |-> {}, written |-> {},
              finished |-> {}]
<1> DEFINE Left == [EmptyStore EXCEPT !.inited = a, !.serialized = b]
<1>1. EmptyStore \in Stores
  BY DEF EmptyStore, Stores
<1>2. Left \in Stores
  BY <1>1 DEF Stores
<1>3. /\ Left.inited = a /\ Left.serialized = b
      /\ Left.optimizers = EmptyStore.optimizers /\ Left.load = EmptyStore.load
      /\ Left.send = EmptyStore.send /\ Left.offloaded = EmptyStore.offloaded
      /\ Left.updated = EmptyStore.updated /\ Left.written = EmptyStore.written
      /\ Left.finished = EmptyStore.finished
  BY <1>1 DEF Stores
<1>4. /\ EmptyStore.optimizers = FALSE /\ EmptyStore.load = FALSE
      /\ EmptyStore.send = {} /\ EmptyStore.offloaded = {}
      /\ EmptyStore.updated = {} /\ EmptyStore.written = {}
      /\ EmptyStore.finished = {}
  BY DEF EmptyStore
<1> HIDE DEF Left
<1>5. Left = [inited |-> Left.inited, optimizers |-> Left.optimizers,
              load |-> Left.load, send |-> Left.send, offloaded |-> Left.offloaded,
              serialized |-> Left.serialized, updated |-> Left.updated,
              written |-> Left.written, finished |-> Left.finished]
  BY <1>2 DEF Stores
<1>6. QED
  BY <1>3, <1>4, <1>5 DEF Left

\* When everybody has ended a step no key of it is left on the meta server but the
\* serialized weights.
THEOREM KeysGone == Spec => []StepLeavesNoKeys
<1>1. IInv => StepLeavesNoKeys
  <2>1. SUFFICES ASSUME IInv,
                        \A t, d \in Devices : tpc[t] = "idle" /\ wdone[d] = tdone[t],
                        \A e \in Engines : \A t \in Devices :
                          epc[e] = "idle" /\ edone[e] = tdone[t]
                 PROVE  store = [EmptyStore EXCEPT !.inited = store.inited,
                                                   !.serialized = store.serialized]
    BY DEF StepLeavesNoKeys
  <2>2. store \in Stores /\ Root \in Devices /\ tdone[Root] \in Nat
    BY <2>1, TrainerNumbers DEF IInv, RanksInv, TypeInv, TypeOK, Stores
  <2>3. store.optimizers = FALSE /\ store.load = FALSE
    BY <2>1, <2>2 DEF IInv, KeysInv, CheckpointInv, Stores
  <2>4. store.send = {}
    BY <2>1, <2>2 DEF IInv, SendInv, Stores
  <2>5. store.offloaded = {}
    <3>1. ASSUME NEW t \in store.offloaded
          PROVE  FALSE
      <4>1. tpc[t] = "idle" /\ tdone[t] = tdone[Root]
        BY <2>1, <2>2 DEF Stores
      <4>2. QED
        BY <2>1, <2>2, <4>1
        DEF IInv, OffloadedInv, Offloaded, Freed, Ending, Dropping, Step
    <3>2. QED
      BY <3>1
  <2>6. store.finished = {}
    BY <2>1, <2>2 DEF IInv, FinishedInv, Stores, Offloaded, Freed, Ending, Dropping
  <2>7. store.updated = {}
    <3>1. ASSUME NEW p \in store.updated
          PROVE  FALSE
      <4>1. p[1] \in Devices /\ p[2] \in Nat /\ wpc[p[1]] = "idle"
        <5>1. p[1] \in Devices /\ p[2] \in Nat
          BY <2>1, TrainerNumbers DEF IInv, RanksInv
        <5>2. wpc[p[1]] = "idle"
          BY <2>1, <2>2, <5>1, StepAssumption DEF IInv, WorkerInv
        <5>3. QED
          BY <5>1, <5>2
      <4>2. wdone[p[1]] >= p[2]
        BY <2>1, <4>1 DEF IInv, BuffersInv, WorkerPast
      <4>3. ~RankPast(p[1], p[2], Freed)
        BY <2>1 DEF IInv, KeysInv
      <4>4. QED
        BY <2>1, <4>1, <4>2, <4>3 DEF RankPast
    <3>2. QED
      BY <3>1
  <2>8. store.written = {}
    <3>1. ASSUME NEW p \in store.written
          PROVE  FALSE
      <4>1. p[1] \in Devices /\ p[2] \in Nat
        BY <2>1, TrainerNumbers DEF IInv, RanksInv
      <4>2. tdone[p[1]] >= p[2] /\ wdone[p[1]] < p[2]
        BY <2>1, <4>1
        DEF IInv, BuffersInv, KeysInv, RankPast, Ending, Dropping
      <4>3. QED
        BY <2>1, <4>1, <4>2, TrainerNumbers DEF IInv, RanksInv
    <3>2. QED
      BY <3>1
  <2>9. store = [inited |-> store.inited, optimizers |-> store.optimizers,
                 load |-> store.load, send |-> store.send, offloaded |-> store.offloaded,
                 serialized |-> store.serialized, updated |-> store.updated,
                 written |-> store.written, finished |-> store.finished]
    BY <2>2 DEF Stores
  <2>10. [EmptyStore EXCEPT !.inited = store.inited, !.serialized = store.serialized]
           = [inited |-> store.inited, optimizers |-> FALSE,
              load |-> FALSE, send |-> {}, offloaded |-> {},
              serialized |-> store.serialized, updated |-> {},
              written |-> {}, finished |-> {}]
    BY <2>2, LeftStore DEF Stores
  <2>11. QED
    BY <2>3, <2>4, <2>5, <2>6, <2>7, <2>8, <2>9, <2>10
<1>2. QED
  BY <1>1, Inductive, PTL

-----------------------------------------------------------------------------
(***************************************************************************)
(* The protocol with its bootstrap.                                        *)
(***************************************************************************)

\* A step is one of WeightsStep, or of the bootstrap and changes nothing of
\* WeightsStep.
LEMMA StepsOfOne ==
  ASSUME [ExchangeNext]_ExchangeVars
  PROVE  [Next]_vars
<1>1. CASE UNCHANGED ExchangeVars
  BY <1>1 DEF ExchangeVars
<1>2. ASSUME NEW d \in Devices, TrainerMoves(d) \/ WorkerMoves(d)
      PROVE  [Next]_vars
  BY <1>2 DEF TrainerMoves, WorkerMoves, Next
<1>3. ASSUME NEW e \in Engines, EngineMoves(e)
      PROVE  [Next]_vars
  BY <1>3 DEF EngineMoves, Next
<1>4. QED
  BY <1>1, <1>2, <1>3 DEF ExchangeNext

\* The bootstrap of write_weights and update_weights takes place within the first
\* step of the protocol.
THEOREM BootstrapIsWithin == ExchangeSpec => Spec
<1>1. ExchangeInit => Init
  BY DEF ExchangeInit
<1>2. [ExchangeNext]_ExchangeVars => [Next]_vars
  BY StepsOfOne
<1>3. QED
  BY <1>1, <1>2, PTL DEF ExchangeSpec, Spec

\* The safety properties of the protocol with its bootstrap.
THEOREM ExchangeIsSafe ==
  ExchangeSpec => [](/\ LoadsWholeCheckpoint /\ WeightsNeverShareDevice
                     /\ MappedBuffersLive /\ CacheAfterBuffersFreed
                     /\ StepLeavesNoKeys)
BY BootstrapIsWithin, LoadsWhole, OneOwner, BuffersLive, CacheLast, KeysGone, PTL
-----------------------------------------------------------------------------
(***************************************************************************)
(* The positions of the bootstrap.                                         *)
(***************************************************************************)
BootInfo == {"conf", "gather", "putMeta", "getMeta", "broadcast"}
InGroup  == {"master", "group", "handshake", "batch"}
Entered  == {"entry", "waitWorkers", "waitTrainers", "ready"}

TrainerBoots == BootInfo \cup InGroup \cup {"entry", "tried", "ready"}
EngineBoots  == {"conf", "putMeta", "getMeta", "workers", "ready"}
WorkerBoots  == InGroup \cup {"tried"} \cup Entered

Keys == [conf : BOOLEAN, inferMeta : BOOLEAN, trainMeta : BOOLEAN,
         master : BOOLEAN, workers : SUBSET Devices, trainers : SUBSET Devices]

\* In colocated mode a training rank stays out of the group; in separated mode
\* nobody has buffers to enter.
BootTypes ==
  /\ tboot \in [Devices -> TrainerBoots]
  /\ eboot \in [Engines -> EngineBoots]
  /\ wboot \in [Devices -> WorkerBoots]
  /\ keys \in Keys
  /\ mapping \in [Devices -> SUBSET Devices]

\* Every member of the group has been through the trial batch.
AllTried ==
  /\ \A d \in Devices : wboot[d] \in {"tried"} \cup Entered
  /\ ~colocate => \A t \in Devices : tboot[t] \in {"tried", "ready"}

\* Whoever has left the barrier behind the batch has seen everybody at it.
TriedInv ==
  /\ \A d \in Devices : wboot[d] \in Entered => AllTried
  /\ \A t \in Devices :
       /\ ~colocate /\ tboot[t] = "ready" => AllTried
       /\ ~colocate => tboot[t] # "entry"

\* An engine is ready after its workers, a worker after its mapping.
ReadyInv ==
  /\ \A d \in Devices : eboot[EngineOf[d]] = "ready" => wboot[d] = "ready"
  /\ \A d \in Devices : colocate /\ wboot[d] = "ready" => mapping[d] = Devices

\* What a process does after the bootstrap, it does when it is ready.
BeforeWriting == {"idle", "resumed", "announce", "save", "write"}

AfterInv ==
  /\ \A t \in Devices : tpc[t] \notin BeforeWriting => tboot[t] = "ready"
  /\ \A t \in Devices : tpc[t] = "sending" => ~colocate
  /\ \A d \in Devices : wpc[d] # "idle" => wboot[d] = "ready"

BootInv == BootTypes /\ TriedInv /\ ReadyInv /\ AfterInv

LEMMA TrainerPlaceIs ==
  ASSUME NEW i \in 1 .. 12
  PROVE  boot!Place(boot!TrainerPlaces, boot!TrainerPlaces[i]) = i
<1>1. DOMAIN boot!TrainerPlaces = 1 .. 12
  BY DEF boot!TrainerPlaces
<1>2. \A k, l \in 1 .. 12 : boot!TrainerPlaces[k] = boot!TrainerPlaces[l] => k = l
  BY DEF boot!TrainerPlaces
<1>3. QED
  BY <1>1, <1>2 DEF boot!Place

LEMMA WorkerPlaceIs ==
  ASSUME NEW i \in 1 .. 9
  PROVE  boot!Place(boot!WorkerPlaces, boot!WorkerPlaces[i]) = i
<1>1. DOMAIN boot!WorkerPlaces = 1 .. 9
  BY DEF boot!WorkerPlaces
<1>2. \A k, l \in 1 .. 9 : boot!WorkerPlaces[k] = boot!WorkerPlaces[l] => k = l
  BY DEF boot!WorkerPlaces
<1>3. QED
  BY <1>1, <1>2 DEF boot!Place

\* The Cardinality of the instance is that of its environment.
LEMMA CardinalityIs == \A S : boot!Cardinality(S) = Cardinality(S)
BY DEF boot!Cardinality, Cardinality

\* Who has come to "tried".
LEMMA TrainerTried ==
  ASSUME NEW t \in Devices, tboot[t] \in TrainerBoots \ {"entry"}
  PROVE  boot!TrainerHas(t, "tried") <=> tboot[t] \in {"tried", "ready"}
<1>1. PICK i \in 1 .. 12 :
        /\ tboot[t] = boot!TrainerPlaces[i]
        /\ i >= 11 <=> tboot[t] \in {"tried", "ready"}
  <2>1. /\ boot!TrainerPlaces[1] = "conf" /\ boot!TrainerPlaces[2] = "gather"
        /\ boot!TrainerPlaces[3] = "putMeta" /\ boot!TrainerPlaces[4] = "getMeta"
        /\ boot!TrainerPlaces[5] = "broadcast" /\ boot!TrainerPlaces[7] = "master"
        /\ boot!TrainerPlaces[8] = "group" /\ boot!TrainerPlaces[9] = "handshake"
        /\ boot!TrainerPlaces[10] = "batch" /\ boot!TrainerPlaces[11] = "tried"
        /\ boot!TrainerPlaces[12] = "ready"
    BY DEF boot!TrainerPlaces
  <2>2. QED
    BY <2>1 DEF TrainerBoots, BootInfo, InGroup
<1>2. boot!TrainerPlaces[11] = "tried"
  BY DEF boot!TrainerPlaces
<1>3. /\ boot!Place(boot!TrainerPlaces, tboot[t]) = i
      /\ boot!Place(boot!TrainerPlaces, "tried") = 11
  BY <1>1, <1>2, TrainerPlaceIs
<1>4. QED
  BY <1>1, <1>3 DEF boot!TrainerHas

LEMMA WorkerTried ==
  ASSUME NEW d \in Devices, wboot[d] \in WorkerBoots
  PROVE  boot!WorkerHas(d, "tried") <=> wboot[d] \in {"tried"} \cup Entered
<1>1. PICK i \in 1 .. 9 :
        /\ wboot[d] = boot!WorkerPlaces[i]
        /\ i >= 5 <=> wboot[d] \in {"tried"} \cup Entered
  <2>1. /\ boot!WorkerPlaces[1] = "master" /\ boot!WorkerPlaces[2] = "group"
        /\ boot!WorkerPlaces[3] = "handshake" /\ boot!WorkerPlaces[4] = "batch"
        /\ boot!WorkerPlaces[5] = "tried" /\ boot!WorkerPlaces[6] = "entry"
        /\ boot!WorkerPlaces[7] = "waitWorkers"
        /\ boot!WorkerPlaces[8] = "waitTrainers" /\ boot!WorkerPlaces[9] = "ready"
    BY DEF boot!WorkerPlaces
  <2>2. QED
    BY <2>1 DEF WorkerBoots, InGroup, Entered
<1>2. boot!WorkerPlaces[5] = "tried"
  BY DEF boot!WorkerPlaces
<1>3. /\ boot!Place(boot!WorkerPlaces, wboot[d]) = i
      /\ boot!Place(boot!WorkerPlaces, "tried") = 5
  BY <1>1, <1>2, WorkerPlaceIs
<1>4. QED
  BY <1>1, <1>3 DEF boot!WorkerHas

\* The barrier behind the trial batch.
LEMMA GroupTriedIs ==
  ASSUME BootTypes, \A t \in Devices : ~colocate => tboot[t] # "entry"
  PROVE  boot!AllHave("tried") <=> AllTried
<1>1. \A d \in Devices : /\ <<"worker", d>>[1] = "worker" /\ <<"worker", d>>[2] = d
                         /\ <<"trainer", d>>[1] = "trainer" /\ <<"trainer", d>>[2] = d
  OBVIOUS
<1>2. /\ \A d \in Devices : boot!Has(<<"worker", d>>, "tried")
                              <=> wboot[d] \in {"tried"} \cup Entered
      /\ \A t \in Devices : tboot[t] # "entry" =>
           (boot!Has(<<"trainer", t>>, "tried") <=> tboot[t] \in {"tried", "ready"})
  BY <1>1, TrainerTried, WorkerTried DEF boot!Has, BootTypes
<1>3. CASE colocate
  BY <1>2, <1>3 DEF boot!AllHave, boot!Members, boot!Workers, AllTried
<1>4. CASE ~colocate
  BY <1>2, <1>4 DEF boot!AllHave, boot!Members, boot!Workers, boot!Trainers, AllTried
<1>5. QED
  BY <1>3, <1>4
-----------------------------------------------------------------------------
(***************************************************************************)
(* The invariant of the bootstrap.                                         *)
(***************************************************************************)
LEMMA BootInitially == ExchangeInit => BootInv
<1> SUFFICES ASSUME ExchangeInit PROVE BootInv
  OBVIOUS
<1> USE DEF ExchangeInit, Init, boot!Init
<1>1. BootTypes
  BY DEF BootTypes, Keys, TrainerBoots, EngineBoots, WorkerBoots, BootInfo, InGroup, Entered
<1>2. TriedInv
  BY DEF TriedInv, Entered
<1>3. ReadyInv /\ AfterInv
  BY StepAssumption DEF ReadyInv, AfterInv, BeforeWriting, StepAssumption
<1>4. QED
  BY <1>1, <1>2, <1>3 DEF BootInv

LEMMA TrainerBootKeeps ==
  ASSUME BootInv, NEW t \in Devices, boot!TrainerBoot(t), UNCHANGED vars
  PROVE  BootInv'
<1> USE DEF boot!TrainerBoot, boot!GetConf, boot!Gather, boot!PutTrainMeta,
            boot!GetInferMeta, boot!Broadcast, boot!AddTrainer, boot!GetMaster,
            boot!TrainerInGroup, boot!TrainerTo
<1>1. /\ UNCHANGED <<colocate, tpc, wpc, eboot, wboot, mapping>>
      /\ tboot[t] # "ready"
  BY DEF vars, config, trainerVars, workerVars
<1>2. PICK p \in TrainerBoots : tboot' = [tboot EXCEPT ![t] = p]
  BY DEF TrainerBoots, BootInfo, InGroup
<1>3. BootTypes'
  <2>1. \/ UNCHANGED keys
        \/ keys' = [keys EXCEPT !.trainMeta = TRUE]
        \/ keys' = [keys EXCEPT !.trainers = @ \cup {t}]
    OBVIOUS
  <2>2. keys' \in Keys
    <3>1. keys \in Keys
      BY DEF BootInv, BootTypes
    <3>2. CASE UNCHANGED keys
      BY <3>1, <3>2
    <3>3. CASE keys' = [keys EXCEPT !.trainMeta = TRUE]
      BY <3>1, <3>3 DEF Keys
    <3>4. CASE keys' = [keys EXCEPT !.trainers = @ \cup {t}]
      BY <3>1, <3>4 DEF Keys
    <3>5. QED
      BY <2>1, <3>2, <3>3, <3>4
  <2>3. QED
    BY <1>1, <1>2, <2>2 DEF BootInv, BootTypes
<1>4. TriedInv'
  <2>1. ~colocate /\ tboot'[t] = "ready" => tboot[t] = "tried" /\ AllTried
    BY GroupTriedIs DEF BootInv, BootTypes, TriedInv, boot!GroupTried
  <2>2. ~colocate => tboot'[t] # "entry"
    BY DEF BootInv, BootTypes
  <2>3. AllTried => AllTried'
    BY <1>1, <1>2 DEF AllTried, BootInv, BootTypes
  <2>4. QED
    BY <1>1, <1>2, <2>1, <2>2, <2>3 DEF TriedInv, BootInv, BootTypes
<1>5. ReadyInv' /\ AfterInv'
  BY <1>1, <1>2 DEF ReadyInv, AfterInv, BootInv, BootTypes
<1>6. QED
  BY <1>3, <1>4, <1>5 DEF BootInv

LEMMA EngineBootKeeps ==
  ASSUME BootInv, NEW e \in Engines, boot!EngineBoot(e), UNCHANGED vars
  PROVE  BootInv'
<1> USE DEF boot!EngineBoot, boot!PutConf, boot!PutInferMeta, boot!GetTrainMeta,
            boot!WorkersReady, boot!EngineTo
<1>1. UNCHANGED <<colocate, tpc, wpc, tboot, wboot, mapping>>
  BY DEF vars, config, trainerVars, workerVars
<1>2. PICK p \in EngineBoots :
        /\ eboot' = [eboot EXCEPT ![e] = p]
        /\ p = "ready" => \A d \in Devices : EngineOf[d] = e => wboot[d] = "ready"
  BY DEF EngineBoots
<1>3. \/ UNCHANGED keys
      \/ keys' = [keys EXCEPT !.conf = TRUE]
      \/ keys' = [keys EXCEPT !.inferMeta = TRUE]
  OBVIOUS
<1>4. BootTypes'
  BY <1>1, <1>2, <1>3 DEF BootInv, BootTypes, Keys
<1>5. TriedInv' /\ AfterInv'
  BY <1>1 DEF BootInv, TriedInv, AfterInv, AllTried
<1>6. ReadyInv'
  BY <1>1, <1>2, StepAssumption DEF ReadyInv, BootInv, BootTypes, StepAssumption
<1>7. QED
  BY <1>4, <1>5, <1>6 DEF BootInv

LEMMA WorkerBootKeeps ==
  ASSUME BootInv, NEW d \in Devices, boot!WorkerBoot(d), UNCHANGED vars
  PROVE  BootInv'
<1> USE DEF boot!WorkerBoot, boot!Address, boot!WorkerInGroup, boot!AddWorker,
            boot!SeeWorkers, boot!SeeTrainers, boot!WorkerTo
<1>1. /\ UNCHANGED <<colocate, tpc, wpc, tboot, eboot>>
      /\ wboot[d] # "ready"
  BY DEF vars, config, trainerVars, workerVars
<1>2. PICK p \in WorkerBoots : wboot' = [wboot EXCEPT ![d] = p]
  BY DEF WorkerBoots, InGroup, Entered
<1>3. /\ keys' \in Keys
      /\ mapping' \in [Devices -> SUBSET Devices]
  <2>1. keys.trainers \subseteq Devices
    BY DEF BootInv, BootTypes, Keys
  <2>2. UNCHANGED mapping \/ mapping' = [mapping EXCEPT ![d] = keys.trainers]
    OBVIOUS
  <2>3. mapping' \in [Devices -> SUBSET Devices]
    BY <2>1, <2>2 DEF BootInv, BootTypes
  <2>4. \/ UNCHANGED keys
        \/ keys' = [keys EXCEPT !.master = TRUE]
        \/ keys' = [keys EXCEPT !.workers = @ \cup {d}]
    OBVIOUS
  <2>5. keys' \in Keys
    <3>1. keys \in Keys
      BY DEF BootInv, BootTypes
    <3>2. CASE UNCHANGED keys
      BY <3>1, <3>2
    <3>3. CASE keys' = [keys EXCEPT !.master = TRUE]
      BY <3>1, <3>3 DEF Keys
    <3>4. CASE keys' = [keys EXCEPT !.workers = @ \cup {d}]
      BY <3>1, <3>4 DEF Keys
    <3>5. QED
      BY <2>4, <3>2, <3>3, <3>4
  <2>6. QED
    BY <2>3, <2>5
<1>4. BootTypes'
  BY <1>1, <1>2, <1>3 DEF BootInv, BootTypes
<1>5. TriedInv'
  <2>1. wboot'[d] \in Entered => AllTried
    <3>1. CASE wboot[d] = "tried"
      BY <3>1, GroupTriedIs DEF BootInv, TriedInv, boot!GroupTried
    <3>2. CASE wboot[d] \in Entered
      BY <3>2 DEF BootInv, TriedInv
    <3>3. CASE wboot[d] \in InGroup
      BY <3>3 DEF BootInv, BootTypes, Entered, InGroup
    <3>4. QED
      BY <3>1, <3>2, <3>3 DEF BootInv, BootTypes, WorkerBoots
  <2>2. AllTried => AllTried'
    <3>1. wboot[d] \in {"tried"} \cup Entered => wboot'[d] \in {"tried"} \cup Entered
      BY DEF BootInv, BootTypes, Entered
    <3>2. QED
      BY <1>1, <1>2, <3>1 DEF AllTried, BootInv, BootTypes
  <2>3. QED
    BY <1>1, <1>2, <2>1, <2>2 DEF TriedInv, BootInv, BootTypes
<1>6. ReadyInv'
  <2>1. colocate /\ wboot'[d] = "ready" => mapping' = [mapping EXCEPT ![d] = Devices]
    <3>1. SUFFICES ASSUME colocate, wboot'[d] = "ready"
                   PROVE  mapping' = [mapping EXCEPT ![d] = Devices]
      OBVIOUS
    <3>2. CASE wboot[d] = "waitTrainers"
      <4>1. mapping' = [mapping EXCEPT ![d] = keys.trainers]
        BY <3>2
      <4>2. Cardinality(keys.trainers) >= Cardinality(Devices)
        <5>1. boot!Cardinality(keys.trainers) >= boot!World
          BY <3>2
        <5>2. QED
          BY <5>1, CardinalityIs DEF boot!World
      <4>3. keys.trainers = Devices
        BY <4>2, WholeSet, StepAssumption DEF BootInv, BootTypes, Keys, StepAssumption
      <4>4. QED
        BY <4>1, <4>3
    <3>3. CASE wboot[d] # "waitTrainers"
      BY <1>1, <3>1, <3>3 DEF BootInv, BootTypes
    <3>4. QED
      BY <3>2, <3>3
  <2>2. \A u \in Devices \ {d} : mapping'[u] = mapping[u] /\ wboot'[u] = wboot[u]
    BY DEF BootInv, BootTypes
  <2>3. QED
    BY <1>1, <1>2, <2>1, <2>2 DEF ReadyInv, BootInv, BootTypes
<1>7. AfterInv'
  BY <1>1, <1>2 DEF AfterInv, BootInv, BootTypes
<1>8. QED
  BY <1>4, <1>5, <1>6, <1>7 DEF BootInv

\* A step of the protocol itself leaves the bootstrap alone and comes to its own
\* positions after it.
LEMMA TrainerStepKeeps ==
  ASSUME BootInv, TypeInv, NEW t \in Devices, TrainerReady(t), TrainerStep(t),
         UNCHANGED bootVars
  PROVE  BootInv'
<1>1. UNCHANGED <<colocate, keys, tboot, eboot, wboot, mapping, wpc>>
  BY TrainerFrame DEF bootVars
<1>2. BootTypes' /\ TriedInv' /\ ReadyInv'
  BY <1>1 DEF BootInv, BootTypes, TriedInv, ReadyInv, AllTried
<1>3. PICK p : tpc' = [tpc EXCEPT ![t] = p] /\ (p \notin BeforeWriting =>
                 tpc[t] \notin {"idle", "resumed", "announce"})
               /\ (p = "sending" => ~colocate)
  BY DEF TrainerStep, WriteStart, ResumedBarrier, AnnounceOptimizers, Save,
     SavedBarrier, PublishLoad, SeeSend, DropSend, DropLoad, ValidatedBarrier, Send,
     Sent, Offload, AnnounceOffload, Share, FreeShared, AnnounceWritten, SeeFinished,
     FinishedBarrier, DropFinished, DropOptimizers, DropOffloaded, Goto, Return,
     AfterInitialize, TrainersAt, BeforeWriting
<1>4. p \notin BeforeWriting => tboot[t] = "ready"
  BY <1>3 DEF TrainerReady
<1>5. AfterInv'
  BY <1>1, <1>3, <1>4 DEF AfterInv, BootInv, TypeInv, TypeOK
<1>6. QED
  BY <1>2, <1>5 DEF BootInv

LEMMA EngineStepKeeps ==
  ASSUME BootInv, TypeInv, NEW e \in Engines, EngineStep(e), UNCHANGED bootVars
  PROVE  BootInv'
<1>1. UNCHANGED <<colocate, keys, tboot, eboot, wboot, mapping, tpc, wpc>>
  BY EngineFrame DEF bootVars
<1>2. QED
  BY <1>1 DEF BootInv, BootTypes, TriedInv, ReadyInv, AllTried, AfterInv

LEMMA WorkerStepKeeps ==
  ASSUME BootInv, TypeInv, NEW d \in Devices, eboot[EngineOf[d]] = "ready",
         WorkerStep(d), UNCHANGED bootVars
  PROVE  BootInv'
<1>1. UNCHANGED <<colocate, keys, tboot, eboot, wboot, mapping, tpc>>
  BY WorkerFrame DEF bootVars
<1>2. BootTypes' /\ TriedInv' /\ ReadyInv'
  BY <1>1 DEF BootInv, BootTypes, TriedInv, ReadyInv, AllTried
<1>3. \A u \in Devices \ {d} : wpc'[u] = wpc[u]
  BY DEF WorkerStep, Receive, Received, Collect, Exchange, SignalUpdated,
     WorkersBarrier, TakeWritten, WorkerGoto, TypeInv, TypeOK
<1>4. AfterInv'
  BY <1>1, <1>3 DEF AfterInv, BootInv, ReadyInv
<1>5. QED
  BY <1>2, <1>4 DEF BootInv

LEMMA BootPreserved ==
  ASSUME BootInv, TypeInv, [ExchangeNext]_ExchangeVars
  PROVE  BootInv'
<1>1. CASE UNCHANGED ExchangeVars
  BY <1>1 DEF ExchangeVars, vars, config, trainerVars, engineVars, workerVars,
     bootVars, BootInv, BootTypes, TriedInv, ReadyInv, AllTried, AfterInv
<1>2. ASSUME NEW t \in Devices, TrainerMoves(t) PROVE BootInv'
  BY <1>2, TrainerStepKeeps, TrainerBootKeeps DEF TrainerMoves
<1>3. ASSUME NEW d \in Devices, WorkerMoves(d) PROVE BootInv'
  BY <1>3, WorkerStepKeeps, WorkerBootKeeps DEF WorkerMoves
<1>4. ASSUME NEW e \in Engines, EngineMoves(e) PROVE BootInv'
  BY <1>4, EngineStepKeeps, EngineBootKeeps DEF EngineMoves
<1>5. QED
  BY <1>1, <1>2, <1>3, <1>4 DEF ExchangeNext

THEOREM BootInductive == ExchangeSpec => []BootInv
<1>1. IInv => TypeInv
  BY DEF IInv, RanksInv
<1>2. BootInv /\ TypeInv /\ [ExchangeNext]_ExchangeVars => BootInv'
  BY BootPreserved
<1>3. QED
  BY <1>1, <1>2, BootInitially, BootstrapIsWithin, Inductive, PTL DEF ExchangeSpec

\* Nobody moves weights before every member of the group has been through the trial
\* batch: a message of the trial is never met by weights.
THEOREM Tried == ExchangeSpec => []TriedBeforeUse
<1>1. BootInv => TriedBeforeUse
  <2>1. SUFFICES ASSUME BootInv,
                        \/ \E t \in Devices : tpc[t] = "sending"
                        \/ \E d \in Devices : wpc[d] = "exchange"
                 PROVE  boot!AllHave("tried")
    BY DEF TriedBeforeUse, boot!AllHave
  <2>2. AllTried
    BY <2>1 DEF BootInv, AfterInv, TriedInv, BeforeWriting, Entered
  <2>3. QED
    BY <2>1, <2>2, GroupTriedIs DEF BootInv, TriedInv
<1>2. QED
  BY <1>1, BootInductive, PTL

\* A worker that maps the buffers of a training rank knows all the ranks.
THEOREM Mapped == ExchangeSpec => []MappingIsWhole
<1>1. BootInv => MappingIsWhole
  BY DEF BootInv, AfterInv, ReadyInv, MappingIsWhole
<1>2. QED
  BY <1>1, BootInductive, PTL
=============================================================================
