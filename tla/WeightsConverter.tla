-------------------------- MODULE WeightsConverter --------------------------
(***************************************************************************)
(* What a training rank and an inference rank hold, and what the weights   *)
(* converters make of it: converter/mcore_converter.py with the variants   *)
(* of models/ling.py and models/qwen3_moe.py, and                          *)
(* converter/sglang_converter.py.                                          *)
(*                                                                         *)
(* Both converters map the engine's own parameters to the same names with  *)
(* the same meaning, so that a transfer can copy one into the other. They  *)
(* run apart from each other, on ranks with different parallel layouts,    *)
(* and only names and shapes are ever compared.                            *)
(*                                                                         *)
(* A tensor is a sequence of axes, an axis a sequence of labels that say   *)
(* what the model keeps there: <<"q", layer, 0, head>> is a query head of  *)
(* a layer, <<"gate", layer, expert, i>> a part of an expert. A head, a    *)
(* part of the MLP and the hidden dimension are one row or column each.    *)
(*                                                                         *)
(* A layout l is a record: the model (split, the layers of every pipeline  *)
(* chunk; heads, groups, mlp, experts, 0 in a dense model; vocab; tied;    *)
(* fused, the family that keeps q, k and v in one parameter), the training *)
(* side's parallel sizes (world, tp, pp, vp, ep, etp) and the inference    *)
(* side's (itp, attn_tp, iep, engines).                                    *)
(***************************************************************************)
EXTENDS Integers, Sequences, SequencesExt, FiniteSetsExt

CONSTANTS EmbedName, LmHeadName   \* the names of the tied pair

\* torch.chunk, the i-th chunk of n, from 0.
Chunk(s, n, i) ==
  LET size == (Len(s) + n - 1) \div n IN
    SubSeq(s, i * size + 1, Min({Len(s), (i + 1) * size}))

\* torch.cat of chunks f[0 .. n-1].
Cat(f, n) == FlattenSeq([i \in 1 .. n |-> f[i - 1]])

Labels(what, layer, expert, n) == [i \in 1 .. n |-> <<what, layer, expert, i - 1>>]

Hidden == <<"hidden">>

\* Names: numbers, in place of the strings. A layer counts from 0.
FinalNorm == 3
Qkv    == 1
Query  == 2
Key    == 3
Value  == 4
Dense  == 5
Norm   == 6
Router == 7
Mlp    == 90
Expert(e) == 10 * (e + 1)
Gate == 0
Up   == 1
Down == 2
InLayer(layer, kind) == 100 * (layer + 1) + kind

\* A source parameter of an engine: what it is, its expert and its tensor.
Source(what, expert, tensor) == [what |-> what, expert |-> expert, tensor |-> tensor]

\* A converted parameter.
Param(name, tensor) == [name |-> name, tensor |-> tensor]
-----------------------------------------------------------------------------
(***************************************************************************)
(* The training engine: Megatron's ranks and what it puts on them.         *)
(***************************************************************************)

\* get_mcore_rank_info: the order of Megatron's groups is tensor, then (expert)
\* data, then pipeline parallel.
TrainRankInfo(r, l) ==
  [tp_rank    |-> r % l.tp,
   attn_tp_rank |-> r % l.tp,
   pp_rank    |-> r \div (l.world \div l.pp),
   ep_tp_rank |-> r % l.etp,
   ep_rank    |-> (r \div l.etp) % l.ep]

\* The rows of the packed q, k and v: group by group its queries, key and value.
Packed(layer, l) ==
  FlattenSeq([g \in 1 .. l.groups |->
    Chunk(Labels("q", layer, 0, l.heads), l.groups, g - 1)
      \o << <<"k", layer, 0, g - 1>>, <<"v", layer, 0, g - 1>> >>])

GateUp(layer, expert, n, i, l) ==
  << Chunk(Labels("gate", layer, expert, l.mlp), n, i)
       \o Chunk(Labels("up", layer, expert, l.mlp), n, i), Hidden >>

DownOf(layer, expert, n, i, l) ==
  << Hidden, Chunk(Labels("down", layer, expert, l.mlp), n, i) >>

\* A layer on a training rank; experts count from 0 on every rank.
McoreLayer(layer, r, l) ==
  LET info  == TrainRankInfo(r, l)
      local == l.experts \div l.ep
  IN {Source("linear_qkv", 0, << Chunk(Packed(layer, l), l.tp, info.tp_rank), Hidden >>),
      Source("linear_proj", 0,
        << Hidden, Chunk(Labels("o", layer, 0, l.heads), l.tp, info.tp_rank) >>),
      Source("layernorm", 0, << << <<"norm", layer, 0, 0>> >> >>)}
     \cup IF l.experts = 0
          THEN {Source("linear_fc1", 0, GateUp(layer, 0, l.tp, info.tp_rank, l)),
                Source("linear_fc2", 0, DownOf(layer, 0, l.tp, info.tp_rank, l))}
          ELSE {Source("router", 0, << Labels("router", layer, 0, l.experts), Hidden >>)}
               \cup UNION {
                 {Source("expert_fc1", e,
                    GateUp(layer, e + info.ep_rank * local, l.etp, info.ep_tp_rank, l)),
                  Source("expert_fc2", e,
                    DownOf(layer, e + info.ep_rank * local, l.etp, info.ep_tp_rank, l))} :
                 e \in 0 .. local - 1}

\* The layers of the model before chunk vp of stage pp, of which there are
\* l.split[..]: chunks go round the stages.
ChunkIndex(pp, vp, l) == vp * l.pp + pp + 1
FirstLayer(pp, vp, l) == FoldLeft(+, 0, SubSeq(l.split, 1, ChunkIndex(pp, vp, l) - 1))
LocalLayers(pp, vp, l) == 0 .. l.split[ChunkIndex(pp, vp, l)] - 1

\* Embedding, final norm and output layer. A tied output layer is a parameter of
\* its own only on another stage than the embedding.
McoreEnds(r, l) ==
  LET info  == TrainRankInfo(r, l)
      Vocab(what) == << Chunk(Labels(what, 0, 0, l.vocab), l.tp, info.tp_rank), Hidden >>
      last  == info.pp_rank = l.pp - 1
  IN {Source("word_embeddings", 0, Vocab("vocab")) : x \in {1} \cap {1 - info.pp_rank}}
     \cup IF ~last THEN {}
          ELSE {Source("final_layernorm", 0, << << <<"final", 0, 0, 0>> >> >>)}
               \cup IF l.tied /\ l.pp = 1 THEN {}
                    ELSE {Source("output_layer", 0, Vocab(IF l.tied THEN "vocab" ELSE "head"))}
-----------------------------------------------------------------------------
(***************************************************************************)
(* McoreToHFWeightConverter.                                               *)
(***************************************************************************)

\* Mutant of Unpacked: the packed rows are taken for all queries, then all
\* keys, then all values.
UnpackedInThirds(w, part, l) ==
  LET groups == (Len(w) * l.groups) \div (l.heads + 2 * l.groups)
      q      == Len(w) - 2 * groups
  IN CASE part = "query" -> SubSeq(w, 1, q)
       [] part = "key"   -> SubSeq(w, q + 1, q + groups)
       [] part = "value" -> SubSeq(w, q + groups + 1, Len(w))

\* The queries, keys or values of the packed rows w of so many groups:
\* transform_mcore_qkv_weight, the compact format, and _split_gqa_qkv.
Unpacked(w, part, l) ==
  LET queries == l.heads \div l.groups
      groups  == Len(w) \div (queries + 2)
      Of(g)   == Chunk(w, groups, g)
  IN Cat([g \in 0 .. groups - 1 |->
            CASE part = "query" -> SubSeq(Of(g), 1, queries)
              [] part = "key"   -> SubSeq(Of(g), queries + 1, queries + 1)
              [] part = "value" -> SubSeq(Of(g), queries + 2, queries + 2)], groups)

\* get_full_tensor: the rows of all ranks of r's tensor parallel group.
FullQkv(layer, r, l) ==
  Cat([i \in 0 .. l.tp - 1 |->
         (CHOOSE s \in McoreLayer(layer, (r - (r % l.tp)) + i, l) :
            s.what = "linear_qkv").tensor[1]], l.tp)

\* convert_qkv_weight_along_tp_attention: the rows in the order in which the
\* inference ranks hold them, a key and a value once for each rank that has a
\* copy, and of those the share of the training rank.
ConvertQkv(layer, r, l) ==
  LET full == FullQkv(layer, r, l)
      Shards(part) ==
        LET all == Unpacked(full, part, l) IN
          [i \in 0 .. l.attn_tp - 1 |->
             IF part # "query" /\ l.attn_tp >= l.groups
             THEN Chunk(all, l.groups, i \div (l.attn_tp \div l.groups))
             ELSE Chunk(all, l.attn_tp, i)]
      merged == Cat([i \in 0 .. l.attn_tp - 1 |->
                       Shards("query")[i] \o Shards("key")[i] \o Shards("value")[i]],
                    l.attn_tp)
  IN Chunk(merged, l.tp, TrainRankInfo(r, l).attn_tp_rank)

\* _convert_attention_param of a fused and of a split family.
ConvertAttention(layer, s, r, l) ==
  IF s.what = "linear_proj" THEN {Param(Dense, s.tensor)}
  ELSE IF l.fused THEN {Param(Qkv, << ConvertQkv(layer, r, l), Hidden >>)}
  ELSE {Param(Query, << Unpacked(s.tensor[1], "query", l), Hidden >>),
        Param(Key,   << Unpacked(s.tensor[1], "key", l), Hidden >>),
        Param(Value, << Unpacked(s.tensor[1], "value", l), Hidden >>)}

\* _convert_linear, and the same of the inference side, _split_gate_up: the
\* first half of the rows is the gate. base says whose.
ConvertLinear(base, isFc1, tensor) ==
  IF isFc1
  THEN {Param(base + Gate, << Chunk(tensor[1], 2, 0), tensor[2] >>),
        Param(base + Up,   << Chunk(tensor[1], 2, 1), tensor[2] >>)}
  ELSE {Param(base + Down, tensor)}

\* Mutant of GlobalExpert: experts are dealt out to the ranks one by one.
GlobalExpertDealt(e, r, l) == e * l.ep + TrainRankInfo(r, l).ep_rank

\* _convert_mlp_param: the global number of a rank's expert.
GlobalExpert(e, r, l) == e + TrainRankInfo(r, l).ep_rank * (l.experts \div l.ep)

\* convert_param, of a layer's parameter, without the layer.
ConvertLayerParam(layer, s, r, l) ==
  CASE s.what \in {"linear_qkv", "linear_proj"} -> ConvertAttention(layer, s, r, l)
    [] s.what = "layernorm" -> {Param(Norm, s.tensor)}
    [] s.what = "router" -> {Param(Router, s.tensor)}
    [] s.what \in {"linear_fc1", "linear_fc2"} ->
         ConvertLinear(Mlp, s.what = "linear_fc1", s.tensor)
    [] s.what \in {"expert_fc1", "expert_fc2"} ->
         ConvertLinear(Expert(GlobalExpert(s.expert, r, l)), s.what = "expert_fc1", s.tensor)

\* convert_param, of the other parameters.
ConvertEnd(s) ==
  Param(CASE s.what = "word_embeddings" -> EmbedName
          [] s.what = "output_layer" -> LmHeadName
          [] s.what = "final_layernorm" -> FinalNorm, s.tensor)
-----------------------------------------------------------------------------
(***************************************************************************)
(* The inference engine: what an SGLang rank holds and its converter.      *)
(***************************************************************************)

\* get_sglang_rank_info.
InferRankInfo(r, l) ==
  LET ep_tp == l.itp \div l.iep IN
    [tp_rank      |-> r,
     attn_tp_rank |-> r % l.attn_tp,
     pp_rank      |-> 0,
     ep_rank      |-> IF l.iep > 1 THEN r \div ep_tp ELSE 0,
     ep_tp_rank   |-> IF l.iep > 1 THEN r % ep_tp ELSE 0]

\* qkv_proj of an inference rank: its queries, then its keys, then its values;
\* when there are more ranks than groups several have the same key.
FusedQkv(layer, r, l) ==
  LET i == InferRankInfo(r, l).attn_tp_rank
      KeyValue(what) ==
        LET all == Labels(what, layer, 0, l.groups) IN
          IF l.attn_tp >= l.groups THEN << all[i \div (l.attn_tp \div l.groups) + 1] >>
                                   ELSE Chunk(all, l.attn_tp, i)
  IN Chunk(Labels("q", layer, 0, l.heads), l.attn_tp, i) \o KeyValue("k") \o KeyValue("v")

\* A layer on an inference rank. Attention is cut among attn_tp ranks, the MLP
\* among all, experts by expert and then among the ranks that share one.
SglangLayer(layer, r, l) ==
  LET info  == InferRankInfo(r, l)
      local == l.experts \div l.iep
      share == IF l.iep > 1 THEN info.ep_tp_rank ELSE info.tp_rank
      ways  == IF l.iep > 1 THEN l.itp \div l.iep ELSE l.itp
  IN {Source("qkv_proj", 0, << FusedQkv(layer, r, l), Hidden >>),
      Source("dense", 0,
        << Hidden, Chunk(Labels("o", layer, 0, l.heads), l.attn_tp, info.attn_tp_rank) >>),
      Source("layernorm", 0, << << <<"norm", layer, 0, 0>> >> >>)}
     \cup IF l.experts = 0
          THEN {Source("gate_up_proj", 0, GateUp(layer, 0, l.itp, info.tp_rank, l)),
                Source("down_proj", 0, DownOf(layer, 0, l.itp, info.tp_rank, l))}
          ELSE {Source("gate", 0, << Labels("router", layer, 0, l.experts), Hidden >>)}
               \cup UNION {
                 {Source("w13", e, GateUp(layer, e + info.ep_rank * local, ways, share, l)),
                  Source("w2",  e, DownOf(layer, e + info.ep_rank * local, ways, share, l))} :
                 e \in 0 .. local - 1}

\* _convert_attention_param: split by the number of heads, or kept.
InferAttention(tensor, l) ==
  LET units == l.heads + 2 * l.groups
      q     == (Len(tensor[1]) * l.heads) \div units
      kv    == (Len(tensor[1]) * l.groups) \div units
      Rows(first, size) == << SubSeq(tensor[1], first, first + size - 1), tensor[2] >>
  IN IF l.fused THEN {Param(Qkv, tensor)}
     ELSE {Param(Query, Rows(1, q)),
           Param(Key,   Rows(q + 1, kv)),
           Param(Value, Rows(q + kv + 1, kv))}

\* _convert_expert_tp_param and _convert_expert_moe_param: the global number.
InferExpert(e, r, l) == e + InferRankInfo(r, l).ep_rank * (l.experts \div l.iep)

\* convert_param of a layer's parameter.
InferLayerParam(s, r, l) ==
  CASE s.what = "qkv_proj" -> InferAttention(s.tensor, l)
    [] s.what = "dense" -> {Param(Dense, s.tensor)}
    [] s.what = "layernorm" -> {Param(Norm, s.tensor)}
    [] s.what = "gate" -> {Param(Router, s.tensor)}
    [] s.what \in {"gate_up_proj", "down_proj"} ->
         ConvertLinear(Mlp, s.what = "gate_up_proj", s.tensor)
    [] s.what \in {"w13", "w2"} ->
         ConvertLinear(Expert(InferExpert(s.expert, r, l)), s.what = "w13", s.tensor)

\* The other parameters, with their names; with data parallel attention every
\* rank has the embedding whole. A tied output layer is no parameter.
SglangEnds(r, l) ==
  LET Vocab(what, n) == << Chunk(Labels(what, 0, 0, l.vocab), n, r), Hidden >>
      ways == IF l.attn_tp < l.itp THEN 1 ELSE l.itp
  IN {Param(EmbedName, << Chunk(Labels("vocab", 0, 0, l.vocab), ways, r % ways), Hidden >>),
      Param(FinalNorm, << << <<"final", 0, 0, 0>> >> >>)}
     \cup IF l.tied THEN {} ELSE {Param(LmHeadName, Vocab("head", l.itp))}
=============================================================================
