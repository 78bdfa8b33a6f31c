# Awex in TLA+

Awex moves the weights of a model from the processes that train it to the
engines that serve it, once per training step. These modules model the parts of
it in which processes, GPU blocks and messages have to agree: the two device
transports and their kernels, the two colocated exchanges, the bootstrap and the
update protocol over the meta server, the meta server itself, and, from the
layout of the ranks to the weights in the inference tensors, the converters, the
metadata and the transfer plan that every rank derives on its own. TLC checks
them on small instances; TLAPS proves the safety of the ring transport, of the
recursive partition's batches and of the bootstrap and the update protocol, the
agreement of the plans and what their exchange delivers, and the meta server's
promises for every size.

Paths below are relative to `src/awex/`.

## 1. Inventory

| component | files | state | operations |
|---|---|---|---|
| device ring transport | `transfer/nccl_device.py`, `nccl_device_ext.cu`, `impls/*.cuh` | per rank: `last_sequence`, control block (epoch, error); per slot: ready and consumed ticket, payload; per block: position of its loop | `launch` on both sides, the kernel's blocks, the completion barrier |
| device transport V2 | `transfer/nccl_device_v2*` | per rank: the fixed plan, the window's header; per connection: FIFO slots or GIN signals and credits, payload; per group of warps: two threads | `launch`, `initialize_sparse_window`, the kernel's blocks, the GIN reset barrier |
| device batch lowering | `transfer/tensor_layout.py`, `nccl_device_v2.py`, `nccl_device_v2/device_v2_lowering.h` | cached tasks and batches | tasks of both sides, parts, works, batches |
| recursive-partition colocate transport | `transfer/nccl_stream_batch.py` | per rank: step size, chunk, round, phase, peer; ops posted to NCCL | `_run_chunked`, `execute_recursive_partition_stream_transfer`, `_execute_ops_concurrent` |
| two-phase staged transport | `transfer/nccl_comm.py` | per rank: stage, phase | `update_weights_in_colocate_mode`, `compute_two_phase_partition` |
| bootstrap | `writer/*`, `reader/*`, `util/process_group.py` | `infer_conf`, `*_params_meta`, `master_info` and handshake keys, the process group | `_initialize` of writer, engines and workers |
| weights update protocol | `writer/weights_writer.py`, `writer/nccl_writer.py`, `reader/weights_reader.py`, `reader/nccl_reader.py`, `engine/mcore.py` | keys of the meta server, memory on the devices, shared buffers, checkpoints | `write_weights`, `update_weights`, the workers' `update_weights` |
| meta server | `meta/meta_server.py` | storage, id counter; per client: attempts of a call | put/get/delete/add handlers, retries, `wait_set_until_size`, `barrier` |
| transfer plan | `transfer/transfer_plan.py`, helpers of `nccl_comm.py` | none between calls: every rank computes its own operations from shared metadata | `build_local_transfer_plan`, `batch_send_recv` |
| parameter metadata, sharding | `meta/*_resolver.py`, `meta/weight_meta.py`, `sharding/*` | pure | names, shards and replicas of a parameter; the check of both sides |
| weights converters, models | `converter/*`, `models/*` | pure | splits, joins and renames of fused tensors |
| engines, plugins, astate, utilities | `engine/*`, `vllm_*`, `*/astate_*`, `util/*`, `config.py` | - | glue |

How they interact. The driver calls `write_weights` in every training process
and `update_weights` in every engine. The first call initializes both sides: they
exchange configuration, metadata and the address of a process group over the meta
server, form the group and try it out. From then on both sides meet at keys of
the meta server and call a transport for the same step; the transport moves the
operations of the transfer plan, which each rank derived from the metadata, which
the ranks derived from the converted parameters and their place in the layout. In
colocated mode a training process and an engine's worker share a device: the
weights go through shared (IPC) buffers and the worker sends on behalf of the
training process, while memory is handed back and forth.

Which behaviours are hard, and what makes each component correct:

* **ring transport** - every wait of a kernel is a spin on words another rank's
  block writes, bounded by a time-out; a launch can fail on one rank and succeed
  on another, and the next step starts on the slots it left. Correct: a slot is
  never written while it is read; a launch that reports success has moved exactly
  its step; a full slot is never overwritten; every launch ends.
* **transport V2** - the two ends of a pair cut the same stream on their own, the
  threads of a group decide on their own whether a wait failed, windows and
  signals are wiped at every launch while peers may already be running. Correct:
  both ends have the same steps, a payload is not overwritten before it is taken,
  nothing is wiped that has been sent, credits never run ahead, launches end.
* **recursive partition** - all ranks block in the same nested loops without any
  global synchronization. Correct: no cycle of waits, batches meet the batches
  they belong to, all pairs are served.
* **two-phase stages** - correct if the two ends of every edge take opposite roles.
* **bootstrap and update protocol** - keys and barriers created and removed by
  different processes. Correct: nobody uses the group before all its members have
  tried it, no key outlives its step, memory has one owner, checkpoints are read
  whole, nobody waits for ever.
* **meta server** - HTTP requests that are retried and may run twice or late.
  Correct: unique ids, a wait that means everybody, everybody leaves.
* **transfer plan** - two ranks compute the same list independently. Correct: the
  k-th send is the k-th receive, and every element arrives once.
* **converters and metadata** - both sides give a name and a place to every row
  and column of what they hold, each from its own layout, and only names and shapes
  are ever compared. Correct: equal name and place mean equal weight.

`PROJECT.json` lists every hazard at its line with the properties that cover it,
or says why none does.

## 2. Modules

| module | models | uses |
|---|---|---|
| `StepDelivery` | abstract: what `send`/`recv` of the ring transport promise | - |
| `RingTransfer` | the kernel, its host loop, the completion barrier | instances `StepDelivery` |
| `RingTransferProofs` | theorems about `RingTransfer` | extends `RingTransfer` |
| `DeviceBatch` | the tasks of both sides of a stream, and which element each byte is | - |
| `DeviceV2Lowering` | channels, parts, works, batches and payload slots | extends `DeviceBatch` |
| `DeviceV2` | the second device transport: host, blocks, two threads per group, network | extends `DeviceV2Lowering` |
| `DeviceV2Proofs` | theorems about `DeviceV2`: launches, slots, credits | extends `DeviceV2` |
| `DeviceV2DeliveryProofs` | ... and what is delivered | extends `DeviceV2Proofs` |
| `ColocateExchange` | abstract: what a colocated exchange promises its caller | - |
| `StreamBatch` | `NcclColocateStreamBatchTransport` | - |
| `TwoPhaseStages` | `NcclColocateTransport` | - |
| `ColocateTransports` | the two colocated transports against their promise | extends `StreamBatch`; instances `TwoPhaseStages`, `ColocateExchange` |
| `ColocateProofs` | theorems about both colocated transports | extends `ColocateTransports` |
| `Bootstrap` | the first call on both sides | - |
| `WeightsStep` | the update protocol | - |
| `WeightsExchange` | bootstrap and steps of the same processes | extends `WeightsStep`, instances `Bootstrap` |
| `WeightsExchangeProofs` | theorems about `WeightsStep` and `WeightsExchange` | extends `WeightsExchange` |
| `MetaServer` | the meta server and its clients | - |
| `MetaServerProofs` | theorems about `MetaServer` | extends `MetaServer` |
| `TransferPlan` | `TransferPlanBuilder` and the exchange that runs a plan over NCCL | - |
| `TransferPlanProofs` | theorems about `TransferPlan` | extends `TransferPlan` |
| `FiniteNumbers` | lemmas about finite sets of numbers | - |
| `WeightsConverter` | what a rank holds, and the Megatron and SGLang converters | - |
| `ParamMetadata` | names, places, shards and replicas; the check of both sides | extends `WeightsConverter` |
| `ModelDeployment` | a model from the layouts to the loaded weights | extends `TransferPlan`, instances `ParamMetadata` |
| `MC*` | constants of the instances TLC checks | the module of the name |

### RingTransfer

One block owns one (peer, lane) pair of a launch: `SendBlocks`, `RecvBlocks`.
`spc`/`rpc` say where a block is: the epoch handshake, the wait for a free slot,
the copy, the publication (`mark_ready`), the final wait (`drain`). `ready`,
`consumed` and `data` are a slot's tickets and payload in the receiver's window.
Each wait over several targets sees them one at a time. The copies are two steps
wide (the block is in `copy`, then in `publish`), so that a race on a slot is a
state. A multicast sender's stores reach the window of every rank (`Reached`), as
the multimem mapping does. `SAbort`/`RAbort` are `wait_timed_out` and the shared
error word. A launch that fails leaves slots, tickets and epoch as they are, and
the caller may launch the next step.

A payload is named by the ticket of the segment it carries, so
`ReceiverReturnIsCurrent` says that bytes of an older step were not taken for this
step's. Segments themselves (shape, strides, 16-byte copies) are abstracted.

### DeviceBatch, DeviceV2Lowering, DeviceV2

`DeviceBatch` binds the operations of a plan to tasks: the sender's follow the
spans of the fused source tensor (`SliceLayoutFragments`), the receiver's its view.
`SourceElement` and `TargetElement` say which element of the logical tensor a byte
of a task is. `DeviceV2Lowering` is what each rank computes from its own tasks,
step by step (`WithTasks` to `WithWorks`): the channels of a peer from the topology
or the GIN budget, the parts of a stream, its works with their first FIFO step, the
batches of a channel (`FillBatch`, a round robin over the peers), the numbering of
the payload slots. Sizes are those of the deployment: an element is a byte, the
alignment 2 instead of 4096.

`DeviceV2` runs it. `Launch` to `Complete` are the host; `PublishEpoch`, `Gate`,
`NextBatch`, `EndBlock` are a block. Of a group's threads two are kept: the first
(`lead`), which waits and stands for those that copy, and the last (`post`), which
publishes. They meet at the named barriers (`FirstBarrier`, `MainBarrier`) and each
reads the error word for itself. LSA connections have `ready` and `consumed` words
that the sender and the receiver write into each other's windows, GIN connections
puts, signals and credits on their way (`DeliverPut`, `DeliverCredit`; credits may
overtake each other). A deployment with `kernels` FALSE only makes plans; with
`timeout` any wait may give up.

### StreamBatch, TwoPhaseStages, ColocateTransports

`Batches` is what the nested loops of a rank do, as a set of `<<chunk, round,
phase, peer>>`, ordered by `Before`; `Post` and `Complete` are the two halves of
`batch_isend_irecv` + wait. NCCL is external: ops of a pair match in order. The
step size comes from the MIN all_reduce and the number of chunks from the MAX one.

`Partition` is the arithmetic of `compute_two_phase_partition` (gcd, modular
inverse, parity). The class is not the one the readers construct now
(`NcclColocateStreamBatchTransport` is), but it is kept in the code.
`ColocateTransports` has a rank use one or the other; both implement
`ColocateExchange`: when the call returns on a rank, all it had to send and to
receive is moved.

### Bootstrap, WeightsStep, WeightsExchange

Positions `TrainerPcs`, `EnginePcs`, `WorkerPcs` follow `write_weights`,
`update_weights` of the engine and `update_weights` of the worker line by line;
every client call of the meta server is one step. `tmem`, `emem`, `shared` say who
holds memory on a device; `saved` is the step of a rank's shards on disk. The
transports are abstracted to joint entry. `Bootstrap` is the first call of the same
processes in the same way: `tboot`, `eboot`, `wboot`. `WeightsExchange` composes
them: a process initializes at the point of its first call where the code does, and
takes steps of `WeightsStep` before and after.

### MetaServer

`Send`, `Handle`, `Retry` and the `...Returns` actions are the halves of a client
call; an abandoned request is in `late` until the server runs it. Handlers are
atomic: they do not await between reading and changing the storage.

### WeightsConverter, ParamMetadata, TransferPlan, ModelDeployment

The state of a rank of `TransferPlan` is its plan; `deployment` is the metadata all
ranks share. The functions of `TransferPlanBuilder` are operators of the same order:
`KeyMismatch`, `Assigned` (round robin of replicas), `Overlap`, `Operation`, `Kept`
(pruning), `LocalPlan` (filter, group, sort). `Build` runs them at one rank. A shard
is a box of coordinates, and what a training rank sends is the coordinate itself, so
that `DeliveredWhole` can say that every cell got its own element. `ExchangeBatch` is
a pair's part of a batched launch; `ExchangeOne` is one blocking operation at the
head of both ranks' lists, in the order `nccl_build_send_ops` and
`nccl_build_recv_ops` build them (`Turn`). NCCL is external: the k-th send of a pair
meets the k-th receive.

A tensor of `WeightsConverter` is a sequence of axes whose rows and columns carry
labels: which head, which part of which expert's MLP, which word. `McoreLayer` and
`SglangLayer` are what the engines hold under a layout (external);
`ConvertLayerParam` and `InferLayerParam` are the converters. `ParamMetadata` gives
the names their global layer (`GlobalLayer`), works out each shard's offset and
replica from the ranks' places and the strategy's idea of the name, and checks the
two sides (`ShapesAgree`). `ModelDeployment` feeds both sides' metadata into
`TransferPlan`; `LoadedWeights` follows every delivered cell back to the training
rank's tensor and compares labels.

## 3. Runs

| run | instance | shows |
|---|---|---|
| `ring_broadcast` | 1 multicast sender, 2 receivers, 1 lane, 3 segments, 2 steps, any wait may time out | slots are never shared, success means the step's own data, a full slot is frozen, every launch returns, refinement of `StepDelivery`, the inductive invariant |
| `ring_lanes` | 1 stream of 2 segments over 3 lanes, 3 steps, no time-outs | `NoMissedEpoch`, `SenderReturnIsDelivered`, `EveryStepCompletes` |
| `colocate` | 4 ranks with uneven plans and step sizes, in chunks or whole; 4 ranks in stages | matching of batches, refinement of `ColocateExchange`, termination; `EveryPairMeetsOnce` for worlds of 2 to 32 |
| `stream_odd` | 6 ranks | **violation**: pairs of ranks that never exchange |
| `exchange` | 3 devices, 2 engines, from the bootstrap through 2 steps, both modes, any steps validated | the tried group, memory ownership, checkpoints, keys, termination |
| `step_handshake` | 2 devices, 2 engines, 1 step | **violation**: an engine reads a key that was deleted |
| `meta_retries` | 2 ranks, 2 attempts | unique ids, meaning of the wait, all leave a wait without delete |
| `meta_barrier` | 2 ranks | **violation**: the barrier's set is deleted under a slower rank |
| `device_v2` | 7 deployments of 2 to 4 ranks that run, over LSA, GIN or both, up to 2 launches, 2 of them with time-outs; 2 of 4 and 6 ranks that only make plans | both ends lower alike, every byte once, FIFO steps in order, nothing overwritten or wiped, success means delivery, credits, termination |
| `device_v2_gin` | 1 sender, 2 receivers on other nodes | **violation**: the ends of a pair choose other channels |
| `transfer_plan` | crossed shardings, replicas and three deployments that are refused; fifteen layouts of a model of two to five layers | `PairsAgree`, `EveryCellOnce`, `DeliveredWhole`, `LoadedWeights`, termination, batched and one by one |
| `experts_finer` | experts cut among 4 ranks, the rest among 2 | **violation**: an expert's rows are permuted |

Why the bounds are enough. The second step of the ring is the first that meets
slots with tickets of an earlier step; three segments make the only lane reuse its
slot, and fewer segments than lanes leave a lane without one; two receivers make a
sender wait for several targets.

`device_v2` varies one thing per deployment: `Crossed` has two senders and two
receivers whose blocks run batches of one work, the smallest cycle of waits there
could be; `FanOut` has FIFOs of one slot and fused tensors; `Again` launches twice; `Remote`
does so over a GIN FIFO that wraps, with credits returned in batches; `Mixed` has both kinds of
peer in one batch; `Impatient` and `ImpatientRemote` time out at any wait; `Wide` has
more peers than works in a batch, streams whose parts are no whole steps, and tasks
that are cut anywhere; `Square` has several GIN peers with equal streams, where the
shares agree. The costly properties of plans are evaluated in the one state in which all
ranks have theirs.

The recursive partition has a middle round from eight ranks on: `EveryPairMeetsOnce`
covers the arithmetic there, four ranks the interleavings. In the update protocol the
second step is the first that meets keys of an earlier one; two engines of unequal
size make sets fill in any order, and the two sides number their ranks differently.
Two attempts are the first that run a request twice.

The deployments of the plan are the smallest in which shards cross (halves against
thirds, columns against rows), replicas do not divide each other, and the shards of
one engine are not those of the next; the threshold of pruning is lowered so that
one deployment is pruned and one is not. (Halves against thirds do not pass
`check_train_infer_params_meta` in full; they stand for metadata a caller hands to
the builder itself.) The layouts cover each parallel dimension at a size where it
can go wrong: tensor parallel below and above the number of key groups, pipeline
stages with two chunks of unequal length, tied and untied, experts by rank, cut, or
both, data parallel attention. No symmetry is used: runs are small and most check
liveness.

Every cfg turns deadlock checking off: all models stop, after the last step,
chunk, stage or call. That they stop only there is what the liveness properties
say (`EveryStepCompletes`, `EveryExchangeEnds`, `EveryUpdateEnds`,
`EveryWaiterLeaves`, `EveryLaunchCompletes`, `EveryTransferEnds`).

### Fairness

In `RingTransfer` and `MetaServer`, weak fairness of each thread, block or client,
never of a single choice inside it: a CUDA block is resident until it exits (the
launch refuses grids that do not fit), a host thread runs on after its call returns.
A rank is only obliged to start the next step when the last one succeeded, never to
retry. Time-outs are not fair: nothing obliges them unless the block could do nothing
else, in which case the elapsed time will. In `MetaServer` requests that are sent are
handled; that an abandoned request is run late is possible but not obliged. In
`WeightsExchange` every process keeps running. In `TransferPlan`, `StreamBatch`,
`TwoPhaseStages` and `DeviceV2` every action is taken finitely often and none can be
undone, so that weak fairness of all of them together obliges each that stays
possible. `EveryLaunchCompletes` is stated where no wait times out: with time-outs
the two threads of a group may part at the error word, and one waits at the named
barrier for the other for ever (`device_v2_kernel.cuh:73`), which the model has.

### Disagreements found

Five runs expect a violation; `findings` in `PROJECT.json` quotes the lines. The
sixth disagreement is with a test, and what contradicts it is that a property holds.

1. `stream_odd` - for a world size that is not a power of two, the integer halves
   of the recursive partition leave pairs of ranks out; all ranks finish.
2. `step_handshake` - `_pre_validate_weights` adds the engine to a set and reads
   it in a second call; the writer may have deleted it in between.
3. `meta_barrier` - rank 0 deletes the set slower ranks still poll.
4. `device_v2_gin` - a rank shares its GIN channels among its own peers and never
   learns of its peer's choice: a sender with two remote receivers and a receiver
   with one sender cut their stream differently.
5. `experts_finer` - the shards of an expert are ordered by the expert's tensor
   parallel rank and then sorted again by the model's: with the former group larger
   than the latter they get each other's offsets.
6. `transfer_plan` - `tests/test_attn_tp_sharding_cp_bug.py` (lines 18-22, 104-109
   and 121-124) says that with training `attn_tp` 1, hence qkv declared
   `NO_SHARDING`, and inference TP above 1 "the transfer plan again only covers infer
   tp_rank 0 and the qkv weights on tp_rank > 0 stay all-zero". The code modelled
   here does not do that: a training rank without attention TP converts and declares
   the whole tensor (`mcore_converter.py:1219-1228`), it is a replica by itself
   (`meta_resolver.py:147-149`), the plan intersects it with every shard of its
   inference replica (`transfer_plan.py:394-402`), and each rank gets its rows. The
   layout `WholeAttention` of `MCTransferPlan` is the test's topology, and
   `ExpertsServedCut` and `SplitFull` share its trigger; on all three
   `DeliveredWhole` and `LoadedWeights` hold: every inference rank is written every
   cell of qkv, and with the right weight. What the test asserts, the declaration, is
   what the code does; it leaves a check of the plan as a TODO (lines 30-33). Its
   words about the plan are the likelier error; the collapse at run time that it
   reports is not explained by the code modelled here and may have a cause outside it
   (linear attention and FP8 are not modelled).

Others have no run. In `TwoPhaseStages` with a world of three, TLC finds two
neighbours in the same phase (a cycle of odd length has no two-colouring), against
the docstring of `compute_two_phase_partition`; no code constructs the class any
more. A colocated deployment of a single worker hands its trial message to itself
in a blocking call; `BootAssumption` has two. The divergence of threads is above.

## 4. Proofs

`RingTransferProofs` is checked by TLAPS for every set of senders and receivers,
any plan, any number of lanes, any multicast senders, any number of steps, with or
without time-outs. It uses `RanksAssumption` (senders and receivers are disjoint),
`SizesAssumption` (types) and `MulticastAssumption` (a multicast sender has
identical streams for all its targets, which `nccl_device.py` establishes before it
selects multicast). TLC evaluates the assumptions in every run of the module.

* `TypeCorrect`: `Spec => []TypeOK`.
* `Inductive`: `Spec => []IInv`. None of the safety properties is inductive. To
  know that a slot is not written while it is read, one needs who owns it: a
  sender between its wait and its publication has all its targets' slots free
  (`SenderOwnsSlots`), a receiver past its wait has its slot full with its own
  ticket (`ReaderOwnsSlot`), and a slot belongs to one block on each side. To know
  that a free slot stays free between the wait on one target and the wait on the
  next, one needs that the receiver can only act on a full slot. To know what the
  payload is, full slots hold what their ticket names (`FullSlotIsFilled`), and an
  active receiver block has consumed nothing of what it still has to do
  (`ConsumedIsPast`), which is what makes an old ticket differ from the one it
  waits for. The lanes are walked by `LaneIsCopied` and `ConsumedIsCopied`, and
  `AcknowledgedIsDelivered` turns the last acknowledged ticket of a lane into
  delivery of the whole lane.
* `SlotExclusion`, `ReceiverReturn`, `SenderReturn`, `SlotsFree` follow from
  `IInv`; `FrozenSlots` is an action property from it.
* `Implements`: `Spec => ImplementsDelivery`. The copy of a receiver is `Deliver`,
  the end of its kernel is `Return` or `Throw`; every other step stutters. It
  needs `IReady` as well (no ticket is ahead of its sender).
* `EpochsAreSeen`: `Spec => []NoMissedEpoch`, from `IInv` and `IBarrier` (no rank
  is more than the barrier it waits in ahead of another).

`FiniteNumbers` has the lemmas about finite sets and numbers that the other modules
cite: a set has a smallest and a greatest number (`LeastNumber`, `GreatestNumber`);
when no two elements of a finite set are in each other's way their places in it are
all the numbers below its size (`PlacesAreTaken`), which is what sorting comes to; and
powers of two grow and divide one another (`PowersGrow`, `PowersDivide`). Each is
proved from the library's theorems about cardinality, instead of an induction: of the
subsets with a property one takes a smallest, and a power of two is a number of
subsets.

`TransferPlanProofs` is about every deployment, any shards and any threshold.

* `PlansAgree`: `Spec => []PairsAgree`. The invariant it needs says that every built
  plan is `LocalPlan` of its rank (`PlansAreLocal`). The rest is about operators: of a
  sender and a receiver, when plans are pruned, one looks at its own training shards
  and all inference shards and the other the other way round; `SameOperations` shows
  that both find the same operations between them, because an operation names the
  ranks of its two shards, and equal sets sort to equal lists.
* `ReceivesAreApart`: two operations of one receiver on one parameter write disjoint
  boxes. A transfer rank determines the engine and the rank in it (`SameEngine`), so
  a rank receives a parameter in one place of one replica (`OneReceiver`), from one
  training replica, whose shards are apart; what they write is apart as well
  (`ApartIsKept`).
* `CellsOnce`: `Spec => []EveryCellOnce`, the same of the plans in the state: the
  operations of two peers, or two of one peer's list, are different operations. That
  a list names an operation once, and all of its set, is `PlacesAreTaken`: of two
  operations with a peer one comes before the other, because two of the same name
  with the same offsets would write the same cells.
* `DeliveryInductive`: `Spec => []DeliveryInv`: what the receivers have is what the
  first `done` operations of each pair deliver, no more and no less, and a pair has
  done no more than it has. It uses that plans are made once (`PlansAreLocal`), so
  that the k-th operation of a pair stays the k-th.
* `WholeDelivery`: `Spec => []DeliveredWhole`, from `DeliveryInv`, `PairsAgree` and
  `EveryCellOnce`. A cell of an inference shard lies in a shard of the training replica
  assigned to it (`ReplicasAreWhole`); the overlap of the two is an operation of both
  ranks' plans, and moves the element of the cell's own coordinate into it. In the
  other direction what an operation delivers is a cell of a shard of its receiver.

The theorems use `DeploymentsAssumption`, `MetadataAssumption` and `ReplicasAreWhole`,
which say of the metadata what `_build_params_meta` establishes: shards are finitely
many boxes, a rank has at most one shard of a parameter, the shards of a training
replica do not overlap and leave no element out that an inference shard has. TLC
evaluates them of the metadata that `ParamMetadata` computes.

`MetaServerProofs` is about every number of ranks and of attempts.

* `TypeCorrect`: `Spec => []TypeOK`, with `InCall`: a rank that is in no call has
  nothing on the wire.
* `IdsUnique`: `Spec => []IdsAreUnique`. `IdInv` speaks of the id a rank has and of
  the one in an answer on its way to it: all of them are below the counter and
  different. A request that is run late moves the counter and answers nobody.
* `WaitForAll`: `Spec => []WaitIsForAll`. `WaitInv` says that whoever is in the set,
  in an answer or late with its request to be added has asked to be, and a rank that
  has asked stays one (`AskersGrow`); a set as large as the world is then the world
  (`AllOfRanks`).

`ColocateProofs` is first about the stream transport among any number of ranks, any
ops, step sizes and chunk limits. That the partitions of every round have ranks in them, because `Rounds` is the
logarithm rounded down, is `RoundsHavePartitions`.

* `TypeCorrect`: `Spec => []TypeOK`, with `Reduced`: whoever has left the two
  reductions has their results, which are the same for all (`CommonStep`,
  `CommonChunks`).
* `Inductive`: `Spec => []IInv`. `LockStep` says of any two ranks that the batches
  they have left with each other are twins of one another (`InStep`), or that one of
  them waits in the first of these and the other has still to post it (`Ahead`).
  It holds because a batch of a rank has a twin of the same length at its peer
  (`TwinIsBatch`: opposite halves take opposite roles) and both run their batches in
  the order of the loops, in which one of the shared batches is first for both
  (`NotBothBefore`).
* `BatchesMeet`: `Spec => []PeerStillOwesBatch`: a rank that waits in a batch that is
  not matched waits for a peer that has still to post it.

The rest of it is about both transports, any plan, and of the stream transport the
worlds of a power of two (`PowerOfTwo`, a hypothesis of the theorems that need it: the
run `stream_odd` shows what six ranks leave out).

* `MeetOnce`: among 2^n ranks every two are in opposite halves in one round and no
  other. The partitions of round k are the blocks of 2^(n-k) ranks (`SizeOf`); two
  ranks are in opposite halves in the last round in which they share a block
  (`OtherHalfIs`), and who shares a block shares the larger ones (`BlocksNest`).
  `PairsMeetOnce` is the property the run checks, from it.
* `WholeChunks`: `Spec => []PairsInv`. `LockStep` relates two ranks and does not say how
  much they have exchanged; `Amounts` says it of one rank, a peer and a way: the counts
  are those of the first m chunks, and the batches of later chunks are exactly those
  left. It is kept because a slice that is not empty has one batch (`BatchOfSlice`,
  `OneBatchOfSlice`: here the two meet once), slices behind an empty one are empty,
  and the first batch left is of the first chunk not through (`FirstLeft`).
* `AllExchanged`: `Spec => []FinishedHasExchangedAll`: a rank with nothing left has
  posted all that is planned (`NothingLeft`), since the common chunks are enough for the
  longest list of any rank (`ChunksSuffice`).
* `StagesInductive`: `stages!Spec => []StagesInv`: who has left a phase of a stage has
  posted its call, and so has the peer (`LeftHaveMet`). It does not need the barriers,
  nor the partition: they keep the calls of a stage apart, which NCCL's order needs, and
  a rank that ends a phase has waited for its peer in any case.
* `BothImplementExchange`: `TransportSpec => ImplementsExchange`. A post moves at most its
  own pair, and the step behind the last batch or barrier is `Return`: a rank of the
  stream transport with nothing left is in step with every peer, so that the peers'
  counts are complete as well; one behind the last stage has been `i` ahead and `i`
  behind of every rank (`StageOfPair`). `StagesAssumption` has at least two ranks: a
  world of one has no stage.

`WeightsExchangeProofs` is about any finite sets of devices and engines (every engine has
a worker: `StepAssumption`), any number of steps, both modes and any validation
schedule.

* `TypeCorrect`: `Spec => []TypeOK`.
* `Inductive`: `Spec => []IInv`. A key tells its reader how far its writer has come,
  but only if the key is of this step; so the invariant relates keys to positions.
  `NobodyBehind` and `Apart`: a training rank that works is behind no engine and no
  rank, and ranks differ by the step one of them is about to end. `RootLast`: rank 0
  cleans up when all ranks have passed their last wait. `CheckpointInv` and
  `SendInv`: while a checkpoint is on offer all ranks are held back behind their
  shards, and who is in the send set has read it. `OffloadedInv` and `OwnInv`: who is
  counted as offloaded is so in the step of rank 0, and stays so while an engine
  owns the devices. `BuffersInv`: of a rank and the worker of its device each knows
  from the key of the step what the other has passed. `KeysInv` and `FinishedInv`:
  no key survives the step of its reader, and rank 0 ends no step before every
  engine has reported.
* `LoadsWhole`, `OneOwner`, `BuffersLive`, `CacheLast`, `KeysGone` follow from `IInv`.
* `BootstrapIsWithin`: every behaviour with the bootstrap is
  one of `WeightsStep`, because a process takes a step of one or of the other;
  `ExchangeIsSafe` states the five properties of it.
* `BootInductive`: `ExchangeSpec => []BootInv`. Whoever has left the barrier behind the
  trial batch has seen all members at it (`TriedInv`), and nobody goes back behind it;
  a worker is ready after its mapping, an engine after its workers (`ReadyInv`); what a
  process does in the protocol after its first steps it does when it is ready
  (`AfterInv`).
* `Tried`: `ExchangeSpec => []TriedBeforeUse`, `Mapped`: `ExchangeSpec =>
  []MappingIsWhole`, from `BootInv`.

`DeviceV2Proofs` is about every deployment: any number of ranks, nodes, channels and
launches, any operations, any sizes, with and without time-outs (`DeploymentsAssumption`
says that there is a number of ranks and of channels, that senders are ranks and send
to ranks that are none, and that a FIFO has a slot).

* `LaunchInductive`: `Spec => []LaunchInv`. `StepsInv`: nobody is in a step before
  everybody has ended the one before, since a rank is idle only behind the completion
  barrier. `EpochInv`: the epoch in a window never runs ahead of its owner's step, and
  reaches it only behind the reset of the window. So whoever reads an epoch of its own
  step or later reads of a cleared window (`GateInv`); where GIN is enabled the world
  barrier says it of all ranks, unless it timed out and left the error word set
  (`BarrierInv`). Both stay true whatever the others do next (`OnceCleared`).
* `ClearedWindows`: `Spec => []PeerHasReset`. A peer is one whose epoch the gate polls, or
  GIN is enabled (`PolledOrGin`); it cannot be a step ahead of a rank in its kernel, nor
  idle, because of `StepsInv`. The theorem does not need that the group is still at
  work, which the property says. What the plans contain is not used either.
* `StreamInductive`: `Spec /\ StepsInOrder => []StreamInv`. `StepsInOrder` is of the
  first state only: it says of every rank's plan, by itself, that the works of a peer
  in the batches of a channel number the steps of its FIFO without a gap, that a batch
  has one of them, and that a sender drains the last. The plans come out of folds over
  tasks, so that it would take an induction over data to prove; the run `device_v2`
  checks it of all its deployments. That both ends lower the same works is not used:
  a receiver with other works waits for ever, or reads what is of another step, and
  still no slot is overwritten. The invariant has, for every end of a stream,
  - `EndInv`: where its two threads are in the work of the running batch, how far one
    is ahead of the other while no error is read, and that a wait that succeeded
    allows the copy behind it (`EndCopy`), the last one all of them (`EndDone`).
    `ToCopy`, `ToPost` and `Credited` turn places into FIFO steps, across batches;
  - `NearInv`, over the sender's window: both words of a slot are of steps the sender
    has copied, no running receiver is past them, and what nobody has taken is of a
    copied step that no word calls consumed. The `cache` of a thread is in it because
    a wait may pass on what it has loaded for an earlier slice, with an error set;
  - `FarInv`, over the network: puts are numbered one after the other from what has
    arrived; what is credited or on its way back is no more than what has arrived
    (`FarQueue`, with the sum of the credits, which may overtake each other) and
    exactly what the receiver's last thread has published (`FarReceiver`); outside a
    step both ranks are in, nothing is on its way (`FarAlone`), which is why a reset
    of signals loses none;
  - `QueuesInv`, `BegunInv`, `ReturnedInv`: messages belong to such streams, and a rank
    that has not begun or has returned has no thread left.
* `PayloadsAreTaken`: `Spec /\ StepsInOrder => []NoOverwrite`, from it: a slot that is
  free for a step holds, if anything, what is a whole ring older (`SameRemainder`).
* `CreditsAreEarned`: `Spec /\ StepsInOrder => []NoCreditInAdvance`.

`DeviceV2DeliveryProofs` goes on from there to what the callers of `send` and `recv` rely on.

* `DeliveryInductive`: `Spec /\ StepsInOrder /\ WorksMatch /\ WholeStreams =>
  []DeliveredInv`. Two more hypotheses on the plans, again of the first state only,
  since plans never change: the two ends of every stream have the same works, and the
  steps of a receiver's works carry as many bytes as the stream has. The run
  `device_v2` checks both (`BothEndsAgree`, `EveryByteOnce`); `device_v2_gin` has plans
  that break the first, and for those the theorem claims nothing. A step of a FIFO then
  has one meaning at both ends (`SameSteps`): launch, offset and bytes, `Piece`. The
  invariant adds to `StreamInv`,
  - `NearMore`, over the sender's window: every step a receiver may take for ready and
    has yet to copy is in its slot (`NearHeld`). A word, the receiver's `cache` or the
    sender's own place may be what shows it, and it has to hold with the sender's
    error word set as well. A slot is free for the next round because what the
    sender has seen consumed is consumed (`NearSeen`) and what is consumed is copied
    (`NearTaken`); before the receiver has come to the step nothing is
    (`NearAlone`), which is why its reset finds the words empty;
  - `FarMore`, over the network, the same in two parts: what has yet to arrive is in
    the sender's staging slots (`FarStays`), so that a put carries what it should,
    and what has arrived and is not copied in the receiver's (`FarHeld`);
  - `LandedInv`, of a pair: a receiver that has met no error has in place exactly the
    sum of the steps it has copied, over all its channels (`LandedSoFar`), so
    all of them when it returns (`LandedAll`). One that has met an error may have less,
    but not when everything is acknowledged (`LandedLate`): it publishes nothing any
    more, and what it published before it had copied.
* `ReceiversAreCurrent`: `... => []ReceiverReturnIsCurrent`, from `LandedAll`.
* `SendersAreDelivered`: `... => []SenderReturnIsDelivered`. A sender that returned has
  seen all steps acknowledged (`NearAcked`, `FarAcked`), or had none; the receiver has
  returned, is a launch further, or is late or at work with all of it in place.

Only model-checked: all liveness properties (fairness is out of the prover's
reach); `LoadedWeights`, which follows a cell through the converters' recursive
functions; and what the plans of `DeviceV2` contain (`BothEndsAgree`, `StreamsAgree`,
`EveryByteOnce`, `StepsInOrder`): these are folds and recursive functions over tasks,
whose result for every input would take an induction over data. All that `DeviceV2`
does with its plans is proved from what those say of them.

## 5. Not modelled

* Bytes: vectorised copies, dtypes, strides in bytes, the FP8 casts of converters.
* The lowering of the first device transport: `Count` is given, and with it that
  both sides cut an operation alike (`annotate_qwen3_dense_transfer_plan`).
* Discovery: NVLink and GIN capabilities are inputs of `DeviceV2`; so is what
  Megatron, SGLang and vLLM hold on a rank. vLLM's rank information and converter,
  MLA, linear attention, biases and shared experts are left out.
* A second run against the same meta server, the destruction of process groups,
  communicators and windows.
* The comparison of validated weights and the dumps; updates after one that failed.
* Strings of names. `Qkv` is one name on both sides; the base converters rename the
  fused parameter each in its own way (`mcore_converter.py:678-690`,
  `sglang_converter.py:115-118`), the converters of `ling_linear.py` to the same
  name. Where the names differ the plan refuses the model, which `KeyMismatch` has.
* Empty metadata, for which `build_weights_mapping_operations` returns an empty plan
  (`transfer_plan.py:235-237`): every deployment has parameters on both sides.
* Engine internals: vLLM, SGLang, Megatron and the astate library are not part of
  the repository.
* Time-outs of the 10000 s polls and of NCCL's watchdog: they kill the process.

## 6. What could follow

1. The lowering of the first device transport on both sides, which would discharge
   `MulticastAssumption` and the equality of both sides' `Count`.
2. `MetaServer` with two generations of a key and `Bootstrap` against a server that
   still has the keys of an earlier run; `WeightsStep` with failing updates and the
   validation schedule.
3. The remaining converters: MLA, linear attention, vLLM.
4. Closed forms of what `DeviceV2Lowering` folds together, from which `StepsInOrder`,
   `WorksMatch` and `WholeStreams` could be proved where both ends count alike.
