---------------------------- MODULE StreamBatch ----------------------------
(***************************************************************************)
(* The colocated weight exchange: transfer/nccl_stream_batch.py.           *)
(*                                                                         *)
(* Every rank both sends its training shards and receives its inference    *)
(* shards. The ops of every pair of ranks are cut into chunks of step_size *)
(* ops (_run_chunked); a chunk is exchanged in rounds that halve the ranks *)
(* (execute_recursive_partition_stream_transfer), a round in two phases of *)
(* opposite directions, and a phase walks the peers in ascending order and *)
(* blocks on one batch_isend_irecv per peer (_execute_ops_concurrent).     *)
(*                                                                         *)
(* NCCL is external: the ops posted from s to r match those r posts from s *)
(* in order, and a batch completes when all its ops are matched.           *)
(***************************************************************************)
EXTENDS Integers, FiniteSetsExt

CONSTANTS
  World,      \* world_size: ranks of the weights_update_group
  Ops,        \* Ops[s][r]: ops of the transfer plan from s to r
  LocalStep   \* LocalStep[r]: chunk_bytes // max_index_bytes on r

Ranks == 0 .. World - 1

ASSUME WorldAssumption ==
  /\ World \in Nat \ {0}
  /\ Ops \in [Ranks -> [Ranks -> Nat]]
  /\ LocalStep \in [Ranks -> Nat \ {0}]
-----------------------------------------------------------------------------
(***************************************************************************)
(* The recursive partition.                                                *)
(***************************************************************************)

\* Mutant of Rounds: the round of neighbours is left out.
RoundsShort ==
  (CHOOSE k \in 0 .. World : 2^k <= World /\ World < 2^(k + 1)) - 1

\* int(math.log2(world_size)).
Rounds == CHOOSE k \in 0 .. World : 2^k <= World /\ World < 2^(k + 1)

PartitionSize(k) == World \div 2^k
Half(k)          == PartitionSize(k) \div 2
Base(r, k)       == (r \div PartitionSize(k)) * PartitionSize(k)
InFirstHalf(r, k) == r - Base(r, k) < Half(k)

\* Only ranks that exist have ops.
OtherHalf(r, k) ==
  Ranks \cap (IF InFirstHalf(r, k)
              THEN Base(r, k) + Half(k) .. Base(r, k) + PartitionSize(k) - 1
              ELSE Base(r, k) .. Base(r, k) + Half(k) - 1)

\* Mutant of Sends: both halves send first.
SendsFirst(r, k, phase) == phase = 1

\* Phase 1: the first half sends and the second receives; phase 2 mirrors it.
Sends(r, k, phase) == InFirstHalf(r, k) <=> phase = 1
-----------------------------------------------------------------------------
(***************************************************************************)
(* Chunks. A batch <<c, k, phase, peer>> is what a rank exchanges with one *)
(* peer in a phase of a round of a chunk.                                  *)
(***************************************************************************)
Smaller(a, b) == IF a < b THEN a ELSE b

\* len(ops[c * step : (c + 1) * step]).
SliceLength(len, c, step) == Smaller(len, (c + 1) * step) - Smaller(len, c * step)

\* ceil(max(max_send_len, max_recv_len) / step), at least 1.
LocalChunks(r, step) ==
  LET longest == Max({Ops[r][q] : q \in Ranks \ {r}} \cup
                     {Ops[q][r] : q \in Ranks \ {r}} \cup {0})
  IN  Max({1, (longest + step - 1) \div step})

BatchLength(r, b, step) ==
  SliceLength(IF Sends(r, b[2], b[3]) THEN Ops[r][b[4]] ELSE Ops[b[4]][r],
              b[1], step)

\* The batches of a rank; a peer without ops in the chunk is skipped.
Batches(r, step, chunks) ==
  {b \in (0 .. chunks - 1) \X (0 .. Rounds - 1) \X {1, 2} \X (Ranks \ {r}) :
     b[4] \in OtherHalf(r, b[2]) /\ BatchLength(r, b, step) > 0}

\* The order of the loops: chunks, rounds, phases, ascending peers.
Before(a, b) ==
  \E i \in 1 .. 4 : a[i] < b[i] /\ \A j \in 1 .. i - 1 : a[j] = b[j]

First(S) == CHOOSE b \in S : \A a \in S \ {b} : Before(b, a)
-----------------------------------------------------------------------------
VARIABLES
  chunked,   \* AWEX_CHUNK_MB > 0, the same on every rank
  pc,        \* where the rank is
  step,      \* its step_size
  chunks,    \* its n_chunks
  todo,      \* the batches it has still to run
  batch,     \* the batch it waits for
  sent,      \* sent[s][r]: ops s has posted to r
  received   \* received[r][s]: receives r has posted from s

vars == <<chunked, pc, step, chunks, todo, batch, sent, received>>

NoBatch == <<0, 0, 1, 0>>

\* The ranges of the variables of every rank.
TypeOK ==
  /\ chunked  \in BOOLEAN
  /\ pc       \in [Ranks -> {"plan", "min", "max", "run", "wait", "done"}]
  /\ step     \in [Ranks -> Nat \ {0}]
  /\ chunks   \in [Ranks -> Nat \ {0}]
  /\ todo     \in [Ranks -> SUBSET (Nat \X Nat \X {1, 2} \X Ranks)]
  /\ batch    \in [Ranks -> Nat \X Nat \X {1, 2} \X Ranks]
  /\ sent     \in [Ranks -> [Ranks -> Nat]]
  /\ received \in [Ranks -> [Ranks -> Nat]]

Init ==
  /\ chunked \in BOOLEAN
  /\ pc       = [r \in Ranks |-> "plan"]
  /\ step     = LocalStep
  /\ chunks   = [r \in Ranks |-> 1]
  /\ todo     = [r \in Ranks |-> {}]
  /\ batch    = [r \in Ranks |-> NoBatch]
  /\ sent     = [r \in Ranks |-> [q \in Ranks |-> 0]]
  /\ received = [r \in Ranks |-> [q \in Ranks |-> 0]]

\* Without AWEX_CHUNK_MB everything is one chunk of all the ops.
PlanWhole(r) ==
  LET longest == Max({Ops[s][q] : s, q \in Ranks} \cup {1}) IN
    /\ ~chunked
    /\ pc[r] = "plan"
    /\ step' = [step EXCEPT ![r] = longest]
    /\ todo' = [todo EXCEPT ![r] = Batches(r, longest, 1)]
    /\ pc'   = [pc EXCEPT ![r] = "run"]
    /\ UNCHANGED <<chunked, chunks, batch, sent, received>>

\* The rank has sampled its own step size and enters the MIN all_reduce.
PlanChunks(r) ==
  /\ chunked
  /\ pc[r] = "plan"
  /\ pc' = [pc EXCEPT ![r] = "min"]
  /\ UNCHANGED <<chunked, step, chunks, todo, batch, sent, received>>

\* Mutant of MinReduce: every rank keeps its own step size.
MinReduceLocal(r) ==
  /\ pc[r] = "min"
  /\ chunks' = [chunks EXCEPT ![r] = LocalChunks(r, step[r])]
  /\ pc'     = [pc EXCEPT ![r] = "max"]
  /\ UNCHANGED <<chunked, step, todo, batch, sent, received>>

\* The MIN all_reduce returns once every rank has entered it; from the common
\* step size the rank derives its number of chunks and enters the MAX one.
MinReduce(r) ==
  LET least == Min({LocalStep[q] : q \in Ranks}) IN
    /\ pc[r] = "min"
    /\ \A q \in Ranks : pc[q] # "plan"
    /\ step'   = [step EXCEPT ![r] = least]
    /\ chunks' = [chunks EXCEPT ![r] = LocalChunks(r, least)]
    /\ pc'     = [pc EXCEPT ![r] = "max"]
    /\ UNCHANGED <<chunked, todo, batch, sent, received>>

MaxReduce(r) ==
  LET most == Max({chunks[q] : q \in Ranks}) IN
    /\ pc[r] = "max"
    /\ \A q \in Ranks : pc[q] \notin {"plan", "min"}
    /\ chunks' = [chunks EXCEPT ![r] = most]
    /\ todo'   = [todo EXCEPT ![r] = Batches(r, step[r], most)]
    /\ pc'     = [pc EXCEPT ![r] = "run"]
    /\ UNCHANGED <<chunked, step, batch, sent, received>>

\* batch_isend_irecv for the next peer that has ops.
Post(r) ==
  LET b    == First(todo[r])
      peer == b[4]
      n    == BatchLength(r, b, step[r]) IN
    /\ pc[r] = "run"
    /\ todo[r] # {}
    /\ batch' = [batch EXCEPT ![r] = b]
    /\ IF Sends(r, b[2], b[3])
       THEN /\ sent' = [sent EXCEPT ![r][peer] = @ + n]
            /\ UNCHANGED received
       ELSE /\ received' = [received EXCEPT ![r][peer] = @ + n]
            /\ UNCHANGED sent
    /\ todo'  = [todo EXCEPT ![r] = @ \ {b}]
    /\ pc'    = [pc EXCEPT ![r] = "wait"]
    /\ UNCHANGED <<chunked, step, chunks>>

\* All ops the rank has posted to the batch's peer are matched.
Matched(r) ==
  LET peer == batch[r][4] IN
    IF Sends(r, batch[r][2], batch[r][3])
    THEN received[peer][r] >= sent[r][peer]
    ELSE sent[peer][r] >= received[r][peer]

\* wait and synchronize return.
Complete(r) ==
  /\ pc[r] = "wait"
  /\ Matched(r)
  /\ pc' = [pc EXCEPT ![r] = "run"]
  /\ UNCHANGED <<chunked, step, chunks, todo, batch, sent, received>>

Finish(r) ==
  /\ pc[r] = "run"
  /\ todo[r] = {}
  /\ pc' = [pc EXCEPT ![r] = "done"]
  /\ UNCHANGED <<chunked, step, chunks, todo, batch, sent, received>>

RankStep(r) ==
  \/ PlanWhole(r) \/ PlanChunks(r) \/ MinReduce(r) \/ MaxReduce(r)
  \/ Post(r) \/ Complete(r) \/ Finish(r)

Next == \E r \in Ranks : RankStep(r)

Spec == Init /\ [][Next]_vars

\* Every rank's thread keeps running. A rank takes finitely many steps, so that
\* fairness of all of them together is as much as fairness of each.
FairSpec == Spec /\ WF_vars(Next)
-----------------------------------------------------------------------------
(***************************************************************************)
(* Properties.                                                             *)
(***************************************************************************)

\* What a rank waits for is still ahead of the peer: the batch of the same
\* chunk, round and phase is one the peer has yet to post, so that no batch is
\* ever met by half of another.
PeerStillOwesBatch ==
  \A r \in Ranks :
    LET b == batch[r] IN
      pc[r] = "wait" /\ ~Matched(r) =>
        \/ pc[b[4]] \in {"plan", "min", "max"}
        \/ <<b[1], b[2], b[3], r>> \in todo[b[4]]

\* A rank that has finished has exchanged every op with every other rank.
FinishedHasExchangedAll ==
  \A r \in Ranks : pc[r] = "done" =>
    \A q \in Ranks \ {r} :
      sent[r][q] = Ops[r][q] /\ received[r][q] = Ops[q][r]

=============================================================================
