---------------------------- MODULE TransferPlan ----------------------------
(***************************************************************************)
(* The transfer plan: transfer/transfer_plan.py, and the point-to-point    *)
(* exchange that runs it: nccl_build_send_ops, nccl_build_recv_ops and     *)
(* batch_send_recv of transfer/nccl_comm.py, or _send_recv_one_by_one of   *)
(* the writer and the reader.                                              *)
(*                                                                         *)
(* Every rank has the metadata of all parameters of both sides and derives *)
(* from it, on its own, the operations it takes part in. Nobody compares   *)
(* the plans: NCCL matches the k-th send of a pair of ranks with the k-th  *)
(* receive, whatever they are (external).                                  *)
(*                                                                         *)
(* A parameter, a name, has a sequence of replicas; a replica is a set of  *)
(* shards [rank, offset, shape], the rank counted within its side. Names   *)
(* are numbers, and sorted as such. An element of a tensor is a           *)
(* coordinate, a tuple; what the training side holds there is the          *)
(* element's coordinate in the whole parameter. In the transfer group the  *)
(* inference ranks come first, engine by engine, then the training ranks.  *)
(* Every rank holds at most one shard of a parameter.                      *)
(***************************************************************************)
EXTENDS Integers, Sequences, SequencesExt

CONSTANTS
  Deployments,    \* records [instance, engines, training, strict, infer,
                  \* train]: ranks of one engine, engines, training ranks,
                  \* strict_param_key_match, and the replicas of every
                  \* parameter on both sides
  Embed, LmHead,  \* the tied pair of parameters
  PruneThreshold  \* prune_threshold, 10000 in the code

ASSUME DeploymentsAssumption ==
  \A d \in Deployments :
    d.instance \in Nat \ {0} /\ d.engines \in Nat \ {0} /\ d.training \in Nat \ {0}

\* Two shards with nothing in common: one ends before the other in a dimension.
Apart(a, b) ==
  \E x \in DOMAIN a.offset : \/ a.offset[x] + a.shape[x] <= b.offset[x]
                            \/ b.offset[x] + b.shape[x] <= a.offset[x]

\* What _build_params_meta promises of the metadata of a deployment.
ShardsAreBoxes(meta) ==
  \A name \in DOMAIN meta : \A i \in DOMAIN meta[name] : \A s \in meta[name][i] :
    s.offset \in Seq(Nat) /\ s.shape \in Seq(Nat) /\ Len(s.shape) = Len(s.offset)

RankHasOneShard(meta) ==
  \A name \in DOMAIN meta : \A i, j \in DOMAIN meta[name] :
    \A s \in meta[name][i], t \in meta[name][j] : s.rank = t.rank => i = j /\ s = t

ReplicaIsApart(meta) ==
  \A name \in DOMAIN meta : \A i \in DOMAIN meta[name] :
    \A s, t \in meta[name][i] : s # t => Apart(s, t)

IsFinite(meta) ==
  /\ IsFiniteSet(DOMAIN meta)
  /\ \A name \in DOMAIN meta : \A i \in DOMAIN meta[name] : IsFiniteSet(meta[name][i])

ASSUME MetadataAssumption ==
  \A d \in Deployments :
    /\ ShardsAreBoxes(d.infer) /\ ShardsAreBoxes(d.train)
    /\ RankHasOneShard(d.infer) /\ RankHasOneShard(d.train)
    /\ ReplicaIsApart(d.train)
    /\ IsFinite(d.infer) /\ IsFinite(d.train)
    /\ DOMAIN d.infer \subseteq Nat
    /\ \A name \in DOMAIN d.infer : \A i \in DOMAIN d.infer[name] :
         \A s \in d.infer[name][i] : s.rank \in 0 .. d.instance - 1
    /\ \A name \in DOMAIN d.train : \A j \in DOMAIN d.train[name] :
         \A s \in d.train[name][j] : s.rank \in 0 .. d.training - 1
    /\ \A name \in DOMAIN d.infer :
         DOMAIN d.infer[name] = 1 .. Len(d.infer[name]) /\ Len(d.infer[name]) \in Nat \ {0}
    /\ \A name \in DOMAIN d.infer \cap DOMAIN d.train :
         /\ DOMAIN d.train[name] = 1 .. Len(d.train[name])
         /\ Len(d.train[name]) \in Nat \ {0}
         /\ \A i \in DOMAIN d.infer[name], j \in DOMAIN d.train[name] :
              \A s \in d.infer[name][i], t \in d.train[name][j] :
                DOMAIN s.offset = DOMAIN t.offset

VARIABLES
  deployment,  \* chosen in Init, the same metadata at every rank
  status,      \* of a rank: "new", "built" or "raised"
  plan,        \* of a rank: the operations with each opposite rank
  batch,       \* AWEX_USE_BATCH_SEND_RECV, the same at every rank
  done,        \* of a pair: how many of its operations are done
  received     \* what receivers have: [rank, name, cell, value, from]

vars == <<deployment, status, plan, batch, done, received>>

Names(meta) == DOMAIN meta

InferWorld(d) == d.instance * d.engines
InferRanks(d) == 0 .. InferWorld(d) - 1
TrainRanks(d) == InferWorld(d) .. InferWorld(d) + d.training - 1
Ranks(d)      == InferRanks(d) \cup TrainRanks(d)

\* All the elements of a tensor.
Elements(shape) ==
  {x \in [DOMAIN shape -> 0 .. Max(Range(shape)) - 1] :
     \A i \in DOMAIN shape : x[i] < shape[i]}

Plus(a, b)  == [i \in DOMAIN a |-> a[i] + b[i]]
Minus(a, b) == [i \in DOMAIN a |-> a[i] - b[i]]

\* The element x of the parameter is in the shard. Every replica of the training
\* side is whole: it has what the inference shards take of the parameter.
Holds(shard, x) ==
  \A i \in DOMAIN shard.offset :
    shard.offset[i] <= x[i] /\ x[i] < shard.offset[i] + shard.shape[i]

ASSUME ReplicasAreWhole ==
  \A d \in Deployments : \A name \in DOMAIN d.infer \cap DOMAIN d.train :
    \A i \in DOMAIN d.infer[name], j \in DOMAIN d.train[name] :
      \A s \in d.infer[name][i] : \A x \in Elements(s.shape) :
        \E t \in d.train[name][j] : Holds(t, Plus(s.offset, x))

-----------------------------------------------------------------------------
(***************************************************************************)
(* build_weights_mapping_operations.                                       *)
(***************************************************************************)

\* Mutant of AllowedAlias: an extra name is taken for an alias of any other.
AnyAlias(name, infer, train) == (infer \cap train) # {}

\* _is_allowed_infer_only_alias.
AllowedAlias(name, infer, train) ==
  \/ name = LmHead /\ Embed \in infer \cap train
  \/ name = Embed /\ LmHead \in infer \cap train

KeyMismatch(d) ==
  LET infer == Names(d.infer)
      train == Names(d.train) IN
    \/ train \ infer # {}
    \/ d.strict /\ infer # train
    \/ \E name \in infer \ train : ~AllowedAlias(name, infer, train)

\* Mutant of InferTransferRank: every engine is taken for the first.
InferTransferRankOfInstance(shard, engine, d) == shard.rank

\* _compute_shard_transfer_rank.
InferTransferRank(shard, engine, d) == shard.rank + engine * d.instance

TrainTransferRank(shard, d) == shard.rank + InferWorld(d)

\* The inference replicas, engine by engine, counted from 0, with the shards'
\* ranks in the transfer group; and those of the training side.
Placed(shard, rank) == [rank |-> rank, offset |-> shard.offset, shape |-> shard.shape]

InferReplica(i, name, d) ==
  LET replicas == d.infer[name] IN
    {Placed(shard, InferTransferRank(shard, i \div Len(replicas), d)) :
       shard \in replicas[(i % Len(replicas)) + 1]}
TrainReplica(j, name, d) ==
  {Placed(shard, TrainTransferRank(shard, d)) : shard \in d.train[name][j]}

\* Mutant of Assigned: every training replica sends to every inference one.
AssignedAll(i, name, d) == 1 .. Len(d.train[name])

\* Round robin: the training replica of the i-th inference replica.
Assigned(i, name, d) == {(i % Len(d.train[name])) + 1}

\* _find_overlapping_regions, of two shards.
Start(a, b) == [i \in DOMAIN a.offset |-> Max({a.offset[i], b.offset[i]})]
End(a, b) ==
  [i \in DOMAIN a.offset |->
     Min({a.offset[i] + a.shape[i], b.offset[i] + b.shape[i]})]
Overlap(a, b) == \A i \in DOMAIN a.offset : Start(a, b)[i] < End(a, b)[i]

\* Mutant of Operation: the offset in the parameter instead of the shard's.
OperationGlobal(name, send_rank, send, recv_rank, recv) ==
  [name        |-> name,
   send_rank   |-> send_rank,
   recv_rank   |-> recv_rank,
   send_offset |-> Start(send, recv),
   recv_offset |-> Minus(Start(send, recv), recv.offset),
   shape       |-> Minus(End(send, recv), Start(send, recv))]

\* _build_region_communication_plan.
Operation(name, send_rank, send, recv_rank, recv) ==
  [name        |-> name,
   send_rank   |-> send_rank,
   recv_rank   |-> recv_rank,
   send_offset |-> Minus(Start(send, recv), send.offset),
   recv_offset |-> Minus(Start(send, recv), recv.offset),
   shape       |-> Minus(End(send, recv), Start(send, recv))]

\* All shards of one side's metadata.
Shards(meta) ==
  UNION {UNION {{<<name, i>>} \X meta[name][i] : i \in DOMAIN meta[name]} :
           name \in Names(meta)}

Pruned(d) ==
  d.engines * Cardinality(Shards(d.infer)) + Cardinality(Shards(d.train))
    > PruneThreshold

\* Mutant of Kept: the rank is compared as if there were one engine.
KeptOfInstance(own, r, d) ==
  IF Pruned(d) /\ own THEN {r % d.instance} ELSE Ranks(d)

\* The ranks whose shards rank r looks at, on its own side and on the other one:
\* when the metadata is large, of its own side only itself.
Kept(own, r, d) == IF Pruned(d) /\ own THEN {r} ELSE Ranks(d)

\* _find_overlapping_regions of two replicas, as rank r sees them.
Regions(name, i, j, r, d) ==
  {p \in TrainReplica(j, name, d) \X InferReplica(i, name, d) :
     /\ p[1].rank \in Kept(r \in TrainRanks(d), r, d)
     /\ p[2].rank \in Kept(r \in InferRanks(d), r, d)
     /\ Overlap(p[1], p[2])}

\* _build_parameter_communication_plan of rank r.
ParameterOperations(name, r, d) ==
  UNION {UNION {{Operation(name, p[1].rank, p[1], p[2].rank, p[2]) :
                   p \in Regions(name, i, j, r, d)} : j \in Assigned(i, name, d)} :
           i \in 0 .. d.engines * Len(d.infer[name]) - 1}

\* build_weights_mapping_operations of rank r, all parameters.
MappingOperations(r, d) ==
  UNION {ParameterOperations(name, r, d) :
           name \in Names(d.infer) \cap Names(d.train)}

\* The sort key of _group_operations_by_rank, and the order of tuples.
SortKey(op) == <<op.name>> \o op.send_offset \o op.recv_offset

Before(op1, op2) ==
  LET a == SortKey(op1)
      b == SortKey(op2) IN
    \E i \in DOMAIN a \cap DOMAIN b :
      /\ a[i] < b[i]
      /\ \A j \in 1 .. i - 1 : a[j] = b[j]

Sorted(ops) ==
  [k \in 1 .. Cardinality(ops) |->
     CHOOSE op \in ops : Cardinality({o \in ops : Before(o, op)}) = k - 1]

\* build_local_transfer_plan: the operations r takes part in, by opposite rank.
LocalPlan(r, d) ==
  LET isTrain   == r \in TrainRanks(d)
      Own(op)   == IF isTrain THEN op.send_rank ELSE op.recv_rank
      Other(op) == IF isTrain THEN op.recv_rank ELSE op.send_rank
      mine      == {op \in MappingOperations(r, d) : Own(op) = r}
  IN [peer \in {Other(op) : op \in mine} |->
        Sorted({op \in mine : Other(op) = peer})]
-----------------------------------------------------------------------------
NoPlan == <<>>

Init ==
  /\ deployment \in Deployments
  /\ status = [r \in Ranks(deployment) |-> "new"]
  /\ plan = [r \in Ranks(deployment) |-> NoPlan]
  /\ batch \in BOOLEAN
  /\ done = [pair \in TrainRanks(deployment) \X InferRanks(deployment) |-> 0]
  /\ received = {}

\* A rank builds its plan, or refuses the metadata.
Build(r) ==
  /\ status[r] = "new"
  /\ IF KeyMismatch(deployment)
     THEN /\ status' = [status EXCEPT ![r] = "raised"]
          /\ UNCHANGED plan
     ELSE /\ status' = [status EXCEPT ![r] = "built"]
          /\ plan' = [plan EXCEPT ![r] = LocalPlan(r, deployment)]
  /\ UNCHANGED <<deployment, batch, done, received>>

\* The operations of a rank with a peer, in the order in which they are posted.
With(r, peer) == IF peer \in DOMAIN plan[r] THEN plan[r][peer] ELSE <<>>

\* Where the shard of a training rank begins in the parameter.
SendOrigin(s, name) ==
  (CHOOSE shard \in UNION {TrainReplica(j, name, deployment) :
                             j \in DOMAIN deployment.train[name]} :
     shard.rank = s).offset

\* What the receive of op2 gets from the send of op1.
Delivered(op1, op2) ==
  {[rank  |-> op2.recv_rank,
    name  |-> op2.name,
    cell  |-> Plus(op2.recv_offset, x),
    value |-> Plus(SendOrigin(op1.send_rank, op1.name), Plus(op1.send_offset, x)),
    from  |-> op1.send_rank] :
     x \in Elements(op2.shape)}

\* The next n sends and receives of a pair of ranks, the k-th with the k-th. A
\* send and a receive of different sizes never end.
Advance(s, r, n) ==
  LET next == done[<<s, r>>] + 1 .. done[<<s, r>>] + n IN
    /\ {status[s], status[r]} = {"built"}
    /\ next \subseteq DOMAIN With(s, r) \cap DOMAIN With(r, s)
    /\ \A k \in next : With(s, r)[k].shape = With(r, s)[k].shape
    /\ done' = [done EXCEPT ![<<s, r>>] = @ + n]

Move(s, r, n) ==
  /\ Advance(s, r, n)
  /\ received' = received \cup
       UNION {Delivered(With(s, r)[k], With(r, s)[k]) :
                k \in done[<<s, r>>] + 1 .. done[<<s, r>>] + n}
  /\ UNCHANGED <<deployment, status, plan, batch>>

\* batch_send_recv: everything is posted at once, all of a pair together.
AllPosted(s, r) ==
  /\ batch
  /\ done[<<s, r>>] < Len(With(s, r))
  /\ Len(With(s, r)) = Len(With(r, s))

ExchangeBatch(s, r) == AllPosted(s, r) /\ Move(s, r, Len(With(s, r)))

DoneWith(r, peer) == IF r \in TrainRanks(deployment) THEN done[<<r, peer>>] ELSE done[<<peer, r>>]

\* Mutant of Turn: a pass begins with another peer at every rank, to spread the
\* load.
TurnStaggered(r, peer) ==
  LET Place(p) == (p - r) % Cardinality(DOMAIN plan[r]) IN
    \A p \in DOMAIN plan[r] :
      DoneWith(r, p) >= Min({Len(plan[r][p]),
        DoneWith(r, peer) + (IF Place(p) < Place(peer) THEN 1 ELSE 0)})

\* The order in which a rank posts operations: in passes over its peers, sorted,
\* one operation of each; the next one with peer has its turn when the earlier
\* ones are done.
Turn(r, peer) ==
  \A p \in DOMAIN plan[r] :
    DoneWith(r, p) >= Min({Len(plan[r][p]),
                           DoneWith(r, peer) + (IF p < peer THEN 1 ELSE 0)})

\* _send_recv_one_by_one: a rank waits for each operation before the next, and
\* a send ends with its receive.
OnePosted(s, r) ==
  /\ ~batch
  /\ {status[s], status[r]} = {"built"}
  /\ Turn(s, r)
  /\ Turn(r, s)

ExchangeOne(s, r) == OnePosted(s, r) /\ Move(s, r, 1)

\* A rank is done when it has exchanged everything with all its peers.
Done(r) ==
  /\ status[r] = "built"
  /\ \A peer \in DOMAIN plan[r] : DoneWith(r, peer) = Len(plan[r][peer])

Over ==
  \/ \A r \in Ranks(deployment) : status[r] = "raised"
  \/ \A r \in Ranks(deployment) : Done(r)

Next ==
  \/ \E r \in Ranks(deployment) : Build(r)
  \/ \E s \in TrainRanks(deployment), r \in InferRanks(deployment) :
       ExchangeBatch(s, r) \/ ExchangeOne(s, r)

Spec == Init /\ [][Next]_vars

\* Every rank builds its plan and every matched transfer makes progress.
Starts ==
  \E r \in Ranks(deployment), how \in {"built", "raised"} :
    status[r] = "new" /\ status' = [status EXCEPT ![r] = how]

Progress ==
  \E s \in TrainRanks(deployment), r \in InferRanks(deployment) :
    \/ AllPosted(s, r) /\ Advance(s, r, Len(With(s, r)))
    \/ OnePosted(s, r) /\ Advance(s, r, 1)

FairSpec == Spec /\ WF_status(Starts) /\ WF_done(Progress)
-----------------------------------------------------------------------------
(***************************************************************************)
(* Properties.                                                             *)
(***************************************************************************)

\* Types: operations join a training rank and an inference rank, and their slices
\* begin inside the shards.
TypeOK ==
  /\ deployment \in Deployments
  /\ status \in [Ranks(deployment) -> {"new", "built", "raised"}]
  /\ \A r \in Ranks(deployment) : \A peer \in DOMAIN plan[r] :
       \A op \in Range(plan[r][peer]) :
         /\ {op.send_rank, op.recv_rank} = {r, peer}
         /\ op.send_rank \in TrainRanks(deployment)
         /\ op.recv_rank \in InferRanks(deployment)
         /\ \A i \in DOMAIN op.shape :
              op.shape[i] > 0 /\ op.send_offset[i] >= 0 /\ op.recv_offset[i] >= 0
  /\ done \in [TrainRanks(deployment) \X InferRanks(deployment) -> Nat]

\* Two ranks that have built their plans, each alone, pruned or not, agree on
\* all their operations and on the order: what the receiver expects k-th is
\* what the sender sends k-th.
PairsAgree ==
  \A s \in TrainRanks(deployment), r \in InferRanks(deployment) :
    {status[s], status[r]} = {"built"} => With(s, r) = With(r, s)

\* What op1 writes ends before what op2 writes, in a dimension.
Below(op1, op2) ==
  \E x \in DOMAIN op1.shape :
    op1.recv_offset[x] + op1.shape[x] <= op2.recv_offset[x]

\* A cell of an inference tensor is in at most one receive of its rank's plan:
\* receives run concurrently, and two of them could land in any order.
EveryCellOnce ==
  \A r \in InferRanks(deployment) :
    LET ops == UNION {Range(plan[r][peer]) : peer \in DOMAIN plan[r]} IN
      \A op1, op2 \in ops :
        op1 # op2 /\ op1.name = op2.name => Below(op1, op2) \/ Below(op2, op1)

\* A parameter whose weights come with the other one of the tied pair.
ByAlias(name) ==
  \/ name = LmHead /\ Embed \in Names(deployment.train)
  \/ name = Embed /\ LmHead \in Names(deployment.train)

\* When all ranks are done, every cell of every inference shard, of every
\* engine and replica, holds the element of its own coordinate and nothing
\* else has been written; only the tied pair may be served by its alias.
DeliveredWhole ==
  (\A r \in Ranks(deployment) : Done(r)) =>
    \A name \in Names(deployment.infer) :
      \/ name \notin Names(deployment.train) /\ ByAlias(name)
      \/ \A i \in 0 .. deployment.engines * Len(deployment.infer[name]) - 1 :
           \A shard \in deployment.infer[name]
                           [(i % Len(deployment.infer[name])) + 1] :
             LET rank == shard.rank
                   + (i \div Len(deployment.infer[name])) * deployment.instance IN
               {<<t.cell, t.value>> : t \in {t \in received :
                                              t.rank = rank /\ t.name = name}}
                 = {<<x, Plus(shard.offset, x)>> : x \in Elements(shard.shape)}

\* Every transfer ends: all ranks refuse the metadata, or all finish; also when
\* every rank blocks in one operation after the other.
EveryTransferEnds == <>Over
=============================================================================
