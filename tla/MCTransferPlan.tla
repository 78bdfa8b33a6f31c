--------------------------- MODULE MCTransferPlan ---------------------------
(***************************************************************************)
(* Instances of TransferPlan for TLC: deployments small enough to check,   *)
(* with the shapes _build_params_meta gives (one shard per rank, replicas   *)
(* by rank, one replica per rank when a parameter is not sharded).         *)
(***************************************************************************)
EXTENDS ModelDeployment

Shard(rank, offset, shape) == [rank |-> rank, offset |-> offset, shape |-> shape]

\* Parameters 1 and 2 are tied, 3 is a vector, 4 a matrix.

\* Two engines of two ranks and three training ranks: 1 is replicated on both
\* sides, 2 only on the inference side, 3 is cut into halves and thirds, 4 by
\* columns and by rows. Pruned.
Crossed ==
  [instance |-> 2, engines |-> 2, training |-> 3, strict |-> FALSE,
   infer |->
     <<[i \in 1 .. 2 |-> {Shard(i - 1, <<0>>, <<2>>)}],
       [i \in 1 .. 2 |-> {Shard(i - 1, <<0>>, <<2>>)}],
       <<{Shard(i, <<3 * i>>, <<3>>) : i \in 0 .. 1}>>,
       <<{Shard(i, <<0, i>>, <<3, 1>>) : i \in 0 .. 1}>> >>,
   train |->
     [name \in {1, 3, 4} |->
        CASE name = 1 -> [i \in 1 .. 3 |-> {Shard(i - 1, <<0>>, <<2>>)}]
          [] name = 3 -> <<{Shard(i, <<2 * i>>, <<2>>) : i \in 0 .. 2}>>
          [] name = 4 -> <<{Shard(i, <<i, 0>>, <<1, 2>>) : i \in 0 .. 2}>>]]

\* Three engines of one rank and two training replicas of two shards. Small,
\* hence not pruned.
Replicated ==
  [instance |-> 1, engines |-> 3, training |-> 4, strict |-> TRUE,
   infer |-> [name \in {3} |-> <<{Shard(0, <<0>>, <<4>>)}>>],
   train |-> [name \in {3} |->
                [j \in 1 .. 2 |->
                   {Shard(2 * (j - 1) + i, <<2 * i>>, <<2>>) : i \in 0 .. 1}]]]

\* Metadata that must be refused: a parameter too many on the inference side,
\* one too few, and a tied one where keys must match.
ExtraName   == [Replicated EXCEPT !.strict = FALSE,
                  !.infer = [name \in {3, 4} |-> Replicated.infer[3]]]
MissingName == [Replicated EXCEPT !.strict = FALSE,
                  !.train = [name \in {2, 3} |-> Replicated.train[3]]]
StrictTied  == [Crossed EXCEPT !.strict = TRUE]

\* A dense model of two layers, tied, two heads to a group, on one rank to a
\* side; the layouts below differ from it.
Dense1 ==
  [split |-> <<2>>, heads |-> 4, groups |-> 2, mlp |-> 2, experts |-> 0, vocab |-> 2,
   tied |-> TRUE, fused |-> TRUE,
   world |-> 1, tp |-> 1, pp |-> 1, vp |-> 1, ep |-> 1, etp |-> 1,
   itp |-> 1, attn_tp |-> 1, iep |-> 1, engines |-> 1]

\* Two training ranks share the layers; two inference ranks.
TensorParallel ==
  [Dense1 EXCEPT !.split = <<1>>, !.world = 2, !.tp = 2, !.itp = 2, !.attn_tp = 2]

\* Attention whole on every training rank (qkv is declared NO_SHARDING), in two
\* stages of two ranks that share the context; inference ranks cut it: the topology
\* that tests/test_attn_tp_sharding_cp_bug.py calls broken.
WholeAttention ==
  [TensorParallel EXCEPT !.split = <<1, 1>>, !.world = 4, !.tp = 1, !.pp = 2]

\* More inference ranks than groups: keys and values have copies.
CopiedKeys == [TensorParallel EXCEPT !.itp = 4, !.attn_tp = 4, !.mlp = 4, !.vocab = 4]

\* The other family, with data parallel training.
SplitFamily == [TensorParallel EXCEPT !.fused = FALSE, !.tied = FALSE]
SplitFull   == [SplitFamily EXCEPT !.tp = 1]

\* Two stages with two chunks each, of one layer or two.
Pipeline == [Dense1 EXCEPT !.split = <<1, 1, 2, 1>>, !.world = 2, !.pp = 2, !.vp = 2]
PipelineUntied == [Pipeline EXCEPT !.tied = FALSE, !.fused = FALSE, !.split = <<2, 1, 0, 1>>]

\* Experts: on training ranks by expert, on inference ranks by expert, or cut.
Experts == [TensorParallel EXCEPT !.experts = 4, !.ep = 2, !.vocab = 4]
ExpertsAll == {[Experts EXCEPT !.iep = iep, !.etp = etp, !.ep = ep] :
                 iep \in {1, 2}, etp \in {1, 2}, ep \in {1, 2}}

\* Attention whole on every inference rank, the rest cut.
DataParallelAttention ==
  [Experts EXCEPT !.world = 1, !.tp = 1, !.ep = 1, !.attn_tp = 1, !.tied = FALSE]

\* Experts cut among two ranks and spread over two, in training; on an inference
\* engine of four ranks.
ExpertsCut == [Experts EXCEPT !.world = 4, !.etp = 2]
ExpertsServedCut ==
  [Experts EXCEPT !.world = 1, !.tp = 1, !.ep = 1, !.itp = 4, !.attn_tp = 2, !.iep = 2,
                  !.tied = FALSE]

Layouts ==
  {Dense1, TensorParallel, WholeAttention, CopiedKeys, SplitFamily, SplitFull, Pipeline,
   PipelineUntied, DataParallelAttention, ExpertsCut, ExpertsServedCut}
  \cup {l \in ExpertsAll : l.ep * l.etp <= l.world}

AllDeployments ==
  {Crossed, Replicated, ExtraName, MissingName, StrictTied} \cup Accepted(Layouts)

\* Experts cut among more ranks than the rest of the model is.
ExpertsCutFiner ==
  [ExpertsCut EXCEPT !.world = 8, !.etp = 4, !.mlp = 4, !.experts = 2, !.itp = 1,
                     !.attn_tp = 1]
FinerDeployments == Accepted({ExpertsCutFiner})
=============================================================================
