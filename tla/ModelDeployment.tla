-------------------------- MODULE ModelDeployment --------------------------
(***************************************************************************)
(* A model on both sides, from the layout of the engines to the weights in *)
(* the inference tensors: converters and metadata (ParamMetadata) feed the *)
(* transfer plan (TransferPlan).                                           *)
(***************************************************************************)
EXTENDS TransferPlan

INSTANCE ParamMetadata WITH EmbedName <- Embed, LmHeadName <- LmHead

\* The deployment of a layout, with the metadata that both sides work out.
DeploymentOf(l) ==
  [instance |-> l.itp, engines |-> l.engines, training |-> l.world, strict |-> FALSE,
   infer |-> InferMeta(InferHeld(l), l), train |-> TrainMeta(TrainHeld(l), l),
   layout |-> l]

\* The layouts that WeightsReader.initialize and WeightsWriter.initialize let
\* pass; those of other names are left to the plan to refuse.
Accepted(layouts) ==
  {d \in {DeploymentOf(l) : l \in layouts} : ShapesAgree(d.train, d.infer)}

\* What a tensor keeps at a cell.
At(tensor, cell) == [x \in DOMAIN cell |-> tensor[x][cell[x] + 1]]

\* When all ranks are done, every cell of an inference tensor that has been
\* written holds the weight that the inference engine keeps there: the two
\* converters, the two sides' metadata and the plan, each worked out by itself,
\* mean the same by a name and a coordinate.
LoadedWeights ==
  ("layout" \in DOMAIN deployment /\ \A r \in Ranks(deployment) : Done(r)) =>
    LET train == TrainHeld(deployment.layout)
        infer == InferHeld(deployment.layout)
    IN \A t \in received :
         At(train[t.from - InferWorld(deployment)][t.name],
            Minus(t.value, SendOrigin(t.from, t.name)))
           = At(infer[t.rank % deployment.instance][t.name], t.cell)
=============================================================================
