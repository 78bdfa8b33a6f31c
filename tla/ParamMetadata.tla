--------------------------- MODULE ParamMetadata ---------------------------
(***************************************************************************)
(* The metadata of the parameters: meta/train_meta_resolver.py,            *)
(* meta/infer_meta_resolver.py and meta/meta_resolver.py, with the         *)
(* sharding strategies of sharding/param_sharding.py and models/ling.py,   *)
(* and the check of both sides' metadata in util/common.py.                *)
(*                                                                         *)
(* Every rank reports the names and shapes of its converted parameters; no *)
(* report says where in the whole parameter the shard lies. That is worked *)
(* out from the rank's place in the groups and from a sharding strategy    *)
(* that goes by the name alone. A wrong guess of the right shape is seen   *)
(* by nobody.                                                              *)
(***************************************************************************)
EXTENDS WeightsConverter

LastStage(pp, l) == pp = l.pp - 1

\* Mutant of GlobalLayer: the chunks of a stage are counted before the next
\* stage's.
GlobalLayerByStage(pp, vp, local, l) ==
  local + FoldSet(LAMBDA k, n : n + Cardinality(LocalLayers(k[1], k[2], l)), 0,
                  {k \in (0 .. l.pp - 1) \X (0 .. l.vp - 1) :
                     k[1] < pp \/ (k[1] = pp /\ k[2] < vp)})

\* _build_pp_stage_layer_id_map and _process_mcore_pp_name: the local layers that
\* the ranks of a stage report, counted chunk by chunk and in a chunk stage by
\* stage.
GlobalLayer(pp, vp, local, l) ==
  local + FoldSet(LAMBDA k, n : n + Cardinality(LocalLayers(k[1], k[2], l)), 0,
                  {k \in (0 .. l.pp - 1) \X (0 .. l.vp - 1) :
                     k[2] < vp \/ (k[2] = vp /\ k[1] < pp)})

\* The alias of tied weights: on the last stage, when the embedding is among
\* params and no output layer is. An inference rank looks at all it has, a
\* training rank at what one of its parameters converts to.
WithAlias(params, last, l) ==
  params \cup
    {Param(LmHeadName, p.tensor) :
       p \in {p \in params : /\ l.tied /\ last /\ p.name = EmbedName
                             /\ \A o \in params : o.name # LmHeadName}}

\* _collect_model_param_raw_info and convert_parameters: what training rank r
\* has to send.
TrainParams(r, l) ==
  LET pp == TrainRankInfo(r, l).pp_rank
      Of(vp, local) ==
        LET layer == FirstLayer(pp, vp, l) + local IN
          {Param(InLayer(GlobalLayer(pp, vp, local, l), p.name), p.tensor) :
             p \in UNION {ConvertLayerParam(layer, s, r, l) : s \in McoreLayer(layer, r, l)}}
  IN UNION {UNION {Of(vp, local) : local \in LocalLayers(pp, vp, l)} : vp \in 0 .. l.vp - 1}
     \cup UNION {WithAlias({ConvertEnd(s)}, LastStage(pp, l), l) : s \in McoreEnds(r, l)}

\* _get_model_param_info and initialize: what inference rank r receives.
InferParams(r, l) ==
  UNION {{Param(InLayer(layer, p.name), p.tensor) :
            p \in UNION {InferLayerParam(s, r, l) : s \in SglangLayer(layer, r, l)}} :
           layer \in 0 .. FoldLeft(+, 0, l.split) - 1}
  \cup WithAlias(SglangEnds(r, l), TRUE, l)

\* Both by name.
ByName(params) ==
  [n \in {p.name : p \in params} |-> (CHOOSE p \in params : p.name = n).tensor]
-----------------------------------------------------------------------------
(***************************************************************************)
(* The sharding strategies. side is what differs between the two.          *)
(***************************************************************************)

TrainSide(l) ==
  [tp |-> l.tp, attn_tp |-> l.tp, ep |-> l.ep, ep_tp |-> l.etp, dp_attention |-> FALSE]
InferSide(l) ==
  [tp |-> l.itp, attn_tp |-> l.attn_tp, ep |-> l.iep,
   ep_tp |-> IF l.iep > 1 THEN l.itp \div l.iep ELSE 1, dp_attention |-> l.attn_tp < l.itp]

\* The rank that tells the shards apart, for the sharding type.
None == "none"
If(yes, key) == IF yes THEN key ELSE None

\* get_attention_sharding_strategy.
AttentionSharding(side) ==
  IF side.dp_attention THEN If(side.attn_tp > 1, "attn_tp_rank") ELSE If(side.tp > 1, "tp_rank")

\* get_embedding_sharding_strategy, Ling's and the default one.
EmbeddingSharding(side, l) ==
  IF l.fused THEN If(~side.dp_attention /\ side.tp > 1, "tp_rank") ELSE AttentionSharding(side)

\* get_expert_sharding_strategy.
ExpertSharding(side) ==
  CASE side.ep > 1 /\ side.ep_tp > 1 -> "ep_tp_rank"
    [] side.ep > 1 /\ side.ep_tp = 1 -> "ep_rank"
    [] side.ep = 1 -> If(side.tp > 1, "tp_rank")

\* get_sharding_strategy: by name. Only the fused family's attention is called
\* attention; the other one's self_attn is sharded like any unknown name.
Sharding(name, side, l) ==
  LET kind == name % 100 IN
    IF side.tp = 1 THEN None
    ELSE CASE name = EmbedName -> EmbeddingSharding(side, l)
           [] name = LmHeadName -> If(side.tp > 1, "tp_rank")
           [] name = FinalNorm -> None
           [] name >= 100 /\ kind \in {Norm, Router} -> None
           [] name >= 100 /\ kind \in Expert(0) .. Mlp - 1 -> ExpertSharding(side)
           [] name >= 100 /\ kind \in {Qkv, Dense} /\ l.fused -> AttentionSharding(side)
           [] OTHER -> If(side.tp > 1, "tp_rank")

\* get_default_sharding_dim, from 1: the dense layer and the down projection are
\* cut along the columns.
ShardingDim(name) ==
  IF name >= 100 /\ (name % 100 = Dense \/ (name % 100 >= 10 /\ name % 10 = Down))
  THEN 2 ELSE 1
-----------------------------------------------------------------------------
(***************************************************************************)
(* _build_params_meta.                                                     *)
(***************************************************************************)

\* The ranks of the i-th replica: the i-th of every group, by the group's key,
\* then sorted again by tp_rank; the sort is stable.
ReplicaRanks(groups, i, info) ==
  LET members == [g \in DOMAIN groups |-> groups[g][i]]
      Less(a, b) == \/ info[members[a]].tp_rank < info[members[b]].tp_rank
                    \/ info[members[a]].tp_rank = info[members[b]].tp_rank /\ a < b
      order == SetToSortSeq(DOMAIN members, Less)
  IN [x \in DOMAIN order |-> members[order[x]]]

Ascending(S) == SelectSeq([i \in 1 .. Max(S) + 1 |-> i - 1], LAMBDA r : r \in S)

\* The ranks that report a name, in the order of the reports, by key.
Groups(ranks, key, info) ==
  LET keys == Ascending({info[r][key] : r \in Range(ranks)}) IN
    [g \in DOMAIN keys |-> SelectSeq(ranks, LAMBDA r : info[r][key] = keys[g])]

Replicas(ranks, key, info) ==
  IF key = None THEN [i \in DOMAIN ranks |-> << ranks[i] >>]
  ELSE LET groups == Groups(ranks, key, info) IN
         [i \in DOMAIN groups[1] |-> ReplicaRanks(groups, i, info)]

ShapeOf(tensor) == [x \in DOMAIN tensor |-> Len(tensor[x])]

\* Mutant of Located: an offset runs on from the replica before.
LocatedOnward(replica, name, held, i) ==
  {[rank   |-> replica[k],
    offset |-> [x \in DOMAIN held[replica[k]][name] |->
                  IF x # ShardingDim(name) THEN 0
                  ELSE (i + k - 2) * Len(held[replica[k]][name][x])],
    shape  |-> ShapeOf(held[replica[k]][name])] : k \in DOMAIN replica}

\* The shards of the i-th replica with their offsets: one after the other along
\* the sharding dimension.
Located(replica, name, held, i) ==
  {[rank   |-> replica[k],
    offset |-> [x \in DOMAIN held[replica[k]][name] |->
                  IF x # ShardingDim(name) THEN 0
                  ELSE FoldLeft(LAMBDA n, r : n + Len(held[r][name][x]), 0,
                                SubSeq(replica, 1, k - 1))],
    shape  |-> ShapeOf(held[replica[k]][name])] : k \in DOMAIN replica}

\* The metadata of the ranks that hold held: by name a sequence of replicas.
ParamsMeta(held, info, side, l) ==
  LET names == UNION {DOMAIN held[r] : r \in DOMAIN held}
      ReplicasOf(n) ==
        Replicas(Ascending({r \in DOMAIN held : n \in DOMAIN held[r]}),
                 Sharding(n, side, l), info)
  IN [n \in names |->
        LET replicas == ReplicasOf(n) IN
          [i \in DOMAIN replicas |-> Located(replicas[i], n, held, i)]]

\* global_shape: the first replica's.
GlobalShape(name, meta) ==
  LET first == meta[name][1]
      any   == CHOOSE s \in first : TRUE
  IN [x \in DOMAIN any.shape |->
        IF x # ShardingDim(name) THEN any.shape[x]
        ELSE FoldSet(LAMBDA s, n : n + s.shape[x], 0, first)]

\* check_train_infer_params_meta of the parameters that both sides have: their
\* shapes, and that the larger number of shards is a multiple of the other one.
ShapesAgree(train, infer) ==
  \A n \in DOMAIN train \cap DOMAIN infer :
    LET t == Cardinality(train[n][1])
        i == Cardinality(infer[n][1])
    IN /\ GlobalShape(n, train) = GlobalShape(n, infer)
       /\ Max({t, i}) % Min({t, i}) = 0
-----------------------------------------------------------------------------
TrainHeld(l) == [r \in 0 .. l.world - 1 |-> ByName(TrainParams(r, l))]
InferHeld(l) == [r \in 0 .. l.itp - 1 |-> ByName(InferParams(r, l))]

TrainMeta(held, l) ==
  ParamsMeta(held, [r \in DOMAIN held |-> TrainRankInfo(r, l)], TrainSide(l), l)
InferMeta(held, l) ==
  ParamsMeta(held, [r \in DOMAIN held |-> InferRankInfo(r, l)], InferSide(l), l)
=============================================================================
