---------------------------- MODULE RingTransfer ----------------------------
(***************************************************************************)
(* The nccl_device transport: the persistent CUDA kernel that moves one    *)
(* step's weights from training ranks (senders) to inference ranks         *)
(* (receivers) through ring slots in the receivers' symmetric windows, and *)
(* the host loop around it.                                                *)
(*                                                                         *)
(*   transfer/impls/device_transfer.cuh    transfer_impl, the kernel       *)
(*   transfer/impls/ring_slot.cuh          slots, tickets, bounded waits   *)
(*   transfer/nccl_device_ext.cu           launch, ring descriptor         *)
(*   transfer/nccl_device.py               step sequence, multicast rule   *)
(*   writer/nccl_writer.py, reader/nccl_reader.py   completion barrier     *)
(*                                                                         *)
(* One CUDA block owns one (peer, lane) pair of a launch. A block of a     *)
(* sender fills slot (receiver, sender, lane) with segments lane, lane+Q,  *)
(* lane+2Q, ... and the block of the receiver with the same lane empties   *)
(* it. A slot holds two tickets: it is free when ready = consumed. A       *)
(* multicast sender has one block per lane for all its receivers and its   *)
(* stores reach the window of EVERY rank of the communicator.              *)
(*                                                                         *)
(* A payload is identified by the ticket of the segment it belongs to: the *)
(* weights of step n are what segments <<n, o>> carry.                     *)
(***************************************************************************)
EXTENDS Integers, FiniteSets

CONSTANTS
  Senders,        \* training ranks
  Receivers,      \* inference ranks
  SlotsPerPeer,   \* ring_slots_per_peer: lanes of a (sender, receiver) pair
  Count,          \* Count[s][r]: segments s sends to r in every step
  Multicast,      \* senders that publish through the multimem mapping
  MaxSequence,    \* largest sequence (UINT32_MAX in the code)
  MayTimeout      \* whether timeout_cycles can elapse before a peer answers

Ranks    == Senders \cup Receivers
Lanes    == 0 .. SlotsPerPeer - 1
Peers(s) == {r \in Receivers : Count[s][r] > 0}

ASSUME RanksAssumption ==
  Senders \cap Receivers = {}

ASSUME SizesAssumption ==
  /\ SlotsPerPeer \in Nat \ {0}
  /\ Count \in [Senders -> [Receivers -> Nat]]
  /\ MaxSequence \in Nat
  /\ MayTimeout \in BOOLEAN

\* A multicast group has identical task streams for every target, and a
\* multicast sender has no stream outside the group.
ASSUME MulticastAssumption ==
  /\ Multicast \subseteq Senders
  /\ \A s \in Multicast : \A q, r \in Peers(s) : Count[s][q] = Count[s][r]

\* The target sets of a sender's task streams: one per active peer.
Streams(s) ==
  IF s \in Multicast THEN {Peers(s)} \ {{}} ELSE {{r} : r \in Peers(s)}

\* The windows a store of sender s into its stream g reaches.
Reached(s, g) == IF s \in Multicast THEN Receivers ELSE g

\* Segments of a stream: those of any of its targets.
StreamCount(s, g) == Count[s][CHOOSE r \in g : TRUE]

\* Sender blocks <<s, g, l>>; slots and receiver blocks <<r, s, l>>; segments
\* <<r, s, o>>.
SendBlocks == {b \in Senders \X (SUBSET Receivers) \X Lanes :
                 b[2] \in Streams(b[1])}
Slots      == Receivers \X Senders \X Lanes
RecvBlocks == {b \in Slots : Count[b[2]][b[1]] > 0}
Segments   == UNION {{<<p[1], p[2], o>> : o \in 0 .. Count[p[2]][p[1]] - 1} :
                       p \in Receivers \X Senders}

Sequences   == 0 .. MaxSequence
\* (sequence << 32) | (ordinal + 1): the two words of the ticket. <<0, 0>> is
\* the zero the windows are memset to.
Ticket      == Sequences \X Nat
NoTicket    == <<0, 0>>
make_ticket(sequence, ordinal) == <<sequence, ordinal + 1>>
-----------------------------------------------------------------------------
VARIABLES
  host,      \* what the rank's process is doing
  sequence,  \* last_sequence: of the rank's newest launch
  epoch,     \* ControlBlock.epoch of the rank's window
  error,     \* ControlBlock.error of the rank's window
  barriers,  \* completion barriers the rank has entered
  ready,     \* RingSlotState.ready_ticket
  consumed,  \* RingSlotState.consumed_ticket
  data,      \* the payload bytes of a slot
  spc,       \* sender block: where it is
  sord,      \* sender block: ordinal of its loop
  swait,     \* sender block: ranks its current wait loop has not seen yet
  rpc,       \* receiver block: where it is
  rord,      \* receiver block: ordinal of its loop
  rwait,     \* receiver block: ranks whose epoch it has not seen yet
  tensor     \* the receivers' destination tensors, by segment

hostVars == <<host, sequence, error, barriers>>
slotVars == <<ready, consumed, data>>
sendVars == <<spc, sord, swait>>
recvVars == <<rpc, rord, rwait>>
vars == <<host, sequence, epoch, error, barriers, ready, consumed, data,
          spc, sord, swait, rpc, rord, rwait, tensor>>

SendPC == {"epoch", "free", "copy", "publish", "drain", "exit"}
RecvPC == {"epoch", "ready", "copy", "consume", "exit"}
HostPC == {"idle", "kernel", "barrier", "failed"}

TypeOK ==
  /\ host     \in [Ranks -> HostPC]
  /\ sequence \in [Ranks -> Sequences]
  /\ epoch    \in [Ranks -> Sequences]
  /\ error    \in [Ranks -> {0, 1}]
  /\ barriers \in [Ranks -> Nat]
  /\ ready    \in [Slots -> Ticket]
  /\ consumed \in [Slots -> Ticket]
  /\ data     \in [Slots -> Ticket]
  /\ spc      \in [SendBlocks -> SendPC]
  /\ sord     \in [SendBlocks -> Nat]
  /\ swait    \in [SendBlocks -> SUBSET Ranks]
  /\ rpc      \in [RecvBlocks -> RecvPC]
  /\ rord     \in [RecvBlocks -> Nat]
  /\ rwait    \in [RecvBlocks -> SUBSET Ranks]
  /\ tensor   \in [Segments -> Ticket]

\* make_state: the window is zeroed when it is created, before any launch.
\* The tensors hold whatever the engine loaded first.
Init ==
  /\ host     = [r \in Ranks |-> "idle"]
  /\ sequence = [r \in Ranks |-> 0]
  /\ epoch    = [r \in Ranks |-> 0]
  /\ error    = [r \in Ranks |-> 0]
  /\ barriers = [r \in Ranks |-> 0]
  /\ ready    = [q \in Slots |-> NoTicket]
  /\ consumed = [q \in Slots |-> NoTicket]
  /\ data     = [q \in Slots |-> NoTicket]
  /\ spc      = [b \in SendBlocks |-> "exit"]
  /\ sord     = [b \in SendBlocks |-> 0]
  /\ swait    = [b \in SendBlocks |-> {}]
  /\ rpc      = [b \in RecvBlocks |-> "exit"]
  /\ rord     = [b \in RecvBlocks |-> 0]
  /\ rwait    = [b \in RecvBlocks |-> {}]
  /\ tensor   = [x \in Segments |-> NoTicket]
-----------------------------------------------------------------------------
(***************************************************************************)
(* The host.                                                               *)
(***************************************************************************)

\* launch: the sequence must exceed the last one, the local error word is
\* cleared, and every block starts in the epoch handshake, where it first
\* looks at its own window and then at its peers'. A rank whose previous
\* launch threw may be called again, with the next step.
Launch(r) ==
  /\ host[r] \in {"idle", "failed"}
  /\ sequence[r] < MaxSequence
  /\ host'     = [host EXCEPT ![r] = "kernel"]
  /\ sequence' = [sequence EXCEPT ![r] = @ + 1]
  /\ error'    = [error EXCEPT ![r] = 0]
  /\ spc'   = [b \in SendBlocks |-> IF b[1] = r THEN "epoch" ELSE spc[b]]
  /\ sord'  = [b \in SendBlocks |-> IF b[1] = r THEN b[3] ELSE sord[b]]
  /\ swait' = [b \in SendBlocks |-> IF b[1] = r THEN {r} \cup b[2] ELSE swait[b]]
  /\ rpc'   = [b \in RecvBlocks |-> IF b[1] = r THEN "epoch" ELSE rpc[b]]
  /\ rord'  = [b \in RecvBlocks |-> IF b[1] = r THEN b[3] ELSE rord[b]]
  /\ rwait' = [b \in RecvBlocks |-> IF b[1] = r THEN {r, b[2]} ELSE rwait[b]]
  /\ UNCHANGED <<epoch, barriers, ready, consumed, data, tensor>>

\* Thread 0 of block 0 publishes the rank's generation.
PublishEpoch(r) ==
  /\ host[r] = "kernel"
  /\ epoch[r] # sequence[r]
  /\ epoch' = [epoch EXCEPT ![r] = sequence[r]]
  /\ UNCHANGED <<hostVars, slotVars, sendVars, recvVars, tensor>>

BlocksExited(r) ==
  /\ \A b \in SendBlocks : b[1] = r => spc[b] = "exit"
  /\ \A b \in RecvBlocks : b[1] = r => rpc[b] = "exit"

\* Mutant of KernelEnd: the error word is not looked at.
KernelEndUnchecked(r) ==
  /\ host[r] = "kernel"
  /\ epoch[r] = sequence[r]
  /\ BlocksExited(r)
  /\ host' = [host EXCEPT ![r] = "barrier"]
  /\ barriers' = [barriers EXCEPT ![r] = @ + 1]
  /\ UNCHANGED <<sequence, error, epoch, slotVars, sendVars, recvVars, tensor>>

\* The kernel has returned; launch throws if the error word is set, otherwise
\* the step goes on to the completion barrier of the transfer group.
KernelEnd(r) ==
  /\ host[r] = "kernel"
  /\ epoch[r] = sequence[r]
  /\ BlocksExited(r)
  /\ IF error[r] # 0
     THEN /\ host' = [host EXCEPT ![r] = "failed"]
          /\ UNCHANGED barriers
     ELSE /\ host' = [host EXCEPT ![r] = "barrier"]
          /\ barriers' = [barriers EXCEPT ![r] = @ + 1]
  /\ UNCHANGED <<sequence, error, epoch, slotVars, sendVars, recvVars, tensor>>

\* Mutant of BarrierExit: no completion barrier.
BarrierExitAlone(r) ==
  /\ host[r] = "barrier"
  /\ host' = [host EXCEPT ![r] = "idle"]
  /\ UNCHANGED <<sequence, error, barriers, epoch, slotVars, sendVars, recvVars,
                 tensor>>

\* dist.barrier: collectives of a group match in call order, so the n-th
\* barrier of a rank is the n-th barrier of every other.
BarrierExit(r) ==
  /\ host[r] = "barrier"
  /\ \A q \in Ranks : barriers[q] >= barriers[r]
  /\ host' = [host EXCEPT ![r] = "idle"]
  /\ UNCHANGED <<sequence, error, barriers, epoch, slotVars, sendVars, recvVars,
                 tensor>>
-----------------------------------------------------------------------------
(***************************************************************************)
(* The sender's block b = <<s, g, l>>. Its wait loops over several targets  *)
(* see them one at a time: swait[b] holds those not seen yet. The loop's   *)
(* own order is one of the orders allowed here.                            *)
(***************************************************************************)
STicket(b)  == make_ticket(sequence[b[1]], sord[b])
SlotAt(b, t) == <<t, b[1], b[3]>>

\* Mutant of SSeen: the loop over the targets ends after the first.
SSeenFirst(b, t, next, todo) ==
  /\ spc'   = [spc EXCEPT ![b] = next]
  /\ swait' = [swait EXCEPT ![b] = todo]

\* One wait of a loop has succeeded for t; the last one moves the block to
\* `next' with `todo' as the ranks of the next loop.
SSeen(b, t, next, todo) ==
  LET left == swait[b] \ {t} IN
    /\ spc'   = [spc EXCEPT ![b] = IF left = {} THEN next ELSE @]
    /\ swait' = [swait EXCEPT ![b] = IF left = {} THEN todo ELSE left]

\* wait_for_ticket on the epochs; a lane past the stream's end has no task.
SEpoch(b, t) ==
  /\ spc[b] = "epoch"
  /\ t \in swait[b]
  /\ epoch[t] = sequence[b[1]]
  /\ IF sord[b] < StreamCount(b[1], b[2])
     THEN SSeen(b, t, "free", b[2])
     ELSE SSeen(b, t, "exit", {})
  /\ UNCHANGED <<hostVars, epoch, slotVars, sord, recvVars, tensor>>

\* Mutant of SFree: the slot is reused without its acknowledgement.
SFreeUnchecked(b, t) ==
  /\ spc[b] = "free"
  /\ t \in swait[b]
  /\ SSeen(b, t, "copy", {})
  /\ UNCHANGED <<hostVars, epoch, slotVars, sord, recvVars, tensor>>

\* wait_until_free on the slot of one target.
SFree(b, t) ==
  /\ spc[b] = "free"
  /\ t \in swait[b]
  /\ ready[SlotAt(b, t)] = consumed[SlotAt(b, t)]
  /\ SSeen(b, t, "copy", {})
  /\ UNCHANGED <<hostVars, epoch, slotVars, sord, recvVars, tensor>>

\* copy_tensor_to_contiguous or its multicast form.
SCopy(b) ==
  /\ spc[b] = "copy"
  /\ data' = [q \in Slots |->
                IF \E t \in Reached(b[1], b[2]) : q = SlotAt(b, t)
                THEN STicket(b) ELSE data[q]]
  /\ spc'  = [spc EXCEPT ![b] = "publish"]
  /\ UNCHANGED <<hostVars, epoch, ready, consumed, sord, swait, recvVars, tensor>>

\* Mutant of SPublish: the kernel returns without the final wait.
SPublishNoDrain(b) ==
  LET more == sord[b] + SlotsPerPeer < StreamCount(b[1], b[2]) IN
    /\ spc[b] = "publish"
    /\ ready' = [q \in Slots |->
                   IF \E t \in Reached(b[1], b[2]) : q = SlotAt(b, t)
                   THEN STicket(b) ELSE ready[q]]
    /\ spc'   = [spc EXCEPT ![b] = IF more THEN "free" ELSE "exit"]
    /\ sord'  = [sord EXCEPT ![b] = IF more THEN @ + SlotsPerPeer ELSE @]
    /\ swait' = [swait EXCEPT ![b] = IF more THEN b[2] ELSE {}]
    /\ UNCHANGED <<hostVars, epoch, consumed, data, recvVars, tensor>>

\* mark_ready or multimem_store_release_u64, then the loop's next ordinal.
\* After the last one the block waits for its last ticket to be consumed, and
\* sord keeps that ordinal.
SPublish(b) ==
  LET more == sord[b] + SlotsPerPeer < StreamCount(b[1], b[2]) IN
    /\ spc[b] = "publish"
    /\ ready' = [q \in Slots |->
                   IF \E t \in Reached(b[1], b[2]) : q = SlotAt(b, t)
                   THEN STicket(b) ELSE ready[q]]
    /\ spc'   = [spc EXCEPT ![b] = IF more THEN "free" ELSE "drain"]
    /\ sord'  = [sord EXCEPT ![b] = IF more THEN @ + SlotsPerPeer ELSE @]
    /\ swait' = [swait EXCEPT ![b] = b[2]]
    /\ UNCHANGED <<hostVars, epoch, consumed, data, recvVars, tensor>>

\* Mutant of SDrain: waits for the stream's last ordinal, not the lane's.
SDrainStream(b, t) ==
  /\ spc[b] = "drain"
  /\ t \in swait[b]
  /\ consumed[SlotAt(b, t)] =
       make_ticket(sequence[b[1]], StreamCount(b[1], b[2]) - 1)
  /\ SSeen(b, t, "exit", {})
  /\ UNCHANGED <<hostVars, epoch, slotVars, sord, recvVars, tensor>>

\* wait_for_ticket on consumed_ticket, for the last ticket of the lane.
SDrain(b, t) ==
  /\ spc[b] = "drain"
  /\ t \in swait[b]
  /\ consumed[SlotAt(b, t)] = STicket(b)
  /\ SSeen(b, t, "exit", {})
  /\ UNCHANGED <<hostVars, epoch, slotVars, sord, recvVars, tensor>>

\* A wait gives up: another block of the rank has set the error word, or
\* timeout_cycles have passed and this block sets it.
SAbort(b) ==
  /\ spc[b] \in {"epoch", "free", "drain"}
  /\ error[b[1]] # 0 \/ MayTimeout
  /\ error' = [error EXCEPT ![b[1]] = 1]
  /\ spc'   = [spc EXCEPT ![b] = "exit"]
  /\ swait' = [swait EXCEPT ![b] = {}]
  /\ UNCHANGED <<host, sequence, barriers, epoch, slotVars, sord, recvVars, tensor>>
-----------------------------------------------------------------------------
(***************************************************************************)
(* The receiver's block b = <<r, s, l>>, whose slot is Slots element b.    *)
(***************************************************************************)
RTicket(b) == make_ticket(sequence[b[1]], rord[b])

REpoch(b, t) ==
  LET left == rwait[b] \ {t} IN
    /\ rpc[b] = "epoch"
    /\ t \in rwait[b]
    /\ epoch[t] = sequence[b[1]]
    /\ rwait' = [rwait EXCEPT ![b] = left]
    /\ rpc'   = [rpc EXCEPT ![b] =
                   IF left # {} THEN @
                   ELSE IF rord[b] < Count[b[2]][b[1]] THEN "ready" ELSE "exit"]
    /\ UNCHANGED <<hostVars, epoch, slotVars, sendVars, rord, tensor>>

\* wait_for_ticket on ready_ticket.
RReady(b) ==
  /\ rpc[b] = "ready"
  /\ ready[b] = RTicket(b)
  /\ rpc' = [rpc EXCEPT ![b] = "copy"]
  /\ UNCHANGED <<hostVars, epoch, slotVars, sendVars, rord, rwait, tensor>>

\* copy_contiguous_to_tensor.
RCopy(b) ==
  /\ rpc[b] = "copy"
  /\ tensor' = [tensor EXCEPT ![<<b[1], b[2], rord[b]>>] = data[b]]
  /\ rpc'    = [rpc EXCEPT ![b] = "consume"]
  /\ UNCHANGED <<hostVars, epoch, slotVars, sendVars, rord, rwait>>

\* mark_consumed, then the loop's next ordinal.
RConsume(b) ==
  /\ rpc[b] = "consume"
  /\ consumed' = [consumed EXCEPT ![b] = RTicket(b)]
  /\ rord'     = [rord EXCEPT ![b] = @ + SlotsPerPeer]
  /\ rpc'      = [rpc EXCEPT ![b] =
                    IF rord[b] + SlotsPerPeer < Count[b[2]][b[1]]
                    THEN "ready" ELSE "exit"]
  /\ UNCHANGED <<hostVars, epoch, ready, data, sendVars, rwait, tensor>>

\* Mutant of RAbort: no bound on the epoch handshake.
RAbortReady(b) ==
  /\ rpc[b] = "ready"
  /\ error[b[1]] # 0 \/ MayTimeout
  /\ error' = [error EXCEPT ![b[1]] = 1]
  /\ rpc'   = [rpc EXCEPT ![b] = "exit"]
  /\ rwait' = [rwait EXCEPT ![b] = {}]
  /\ UNCHANGED <<host, sequence, barriers, epoch, slotVars, sendVars, rord, tensor>>

\* The waits of a receiver give up in the same way.
RAbort(b) ==
  /\ rpc[b] \in {"epoch", "ready"}
  /\ error[b[1]] # 0 \/ MayTimeout
  /\ error' = [error EXCEPT ![b[1]] = 1]
  /\ rpc'   = [rpc EXCEPT ![b] = "exit"]
  /\ rwait' = [rwait EXCEPT ![b] = {}]
  /\ UNCHANGED <<host, sequence, barriers, epoch, slotVars, sendVars, rord, tensor>>
-----------------------------------------------------------------------------
HostStep(r) == Launch(r) \/ PublishEpoch(r) \/ KernelEnd(r) \/ BarrierExit(r)
SendStep(b) ==
  \/ \E t \in swait[b] : SEpoch(b, t) \/ SFree(b, t) \/ SDrain(b, t)
  \/ SCopy(b) \/ SPublish(b) \/ SAbort(b)
RecvStep(b) ==
  \/ \E t \in rwait[b] : REpoch(b, t)
  \/ RReady(b) \/ RCopy(b) \/ RConsume(b) \/ RAbort(b)

Next ==
  \/ \E r \in Ranks : HostStep(r)
  \/ \E b \in SendBlocks : SendStep(b)
  \/ \E b \in RecvBlocks : RecvStep(b)

Spec == Init /\ [][Next]_vars

\* Every host thread and every resident block keeps running, and a rank that
\* finished a step is given the next one. Nothing obliges the caller to try
\* again after a failure.
Fairness ==
  /\ \A r \in Ranks :
       /\ WF_vars(PublishEpoch(r) \/ KernelEnd(r) \/ BarrierExit(r))
       /\ WF_vars(host[r] = "idle" /\ Launch(r))
  /\ \A b \in SendBlocks : WF_vars(SendStep(b))
  /\ \A b \in RecvBlocks : WF_vars(RecvStep(b))

FairSpec == Spec /\ Fairness
-----------------------------------------------------------------------------
(***************************************************************************)
(* Properties.                                                             *)
(***************************************************************************)

\* A slot is never written while its receiver is reading it: the copies into
\* it (transfer_impl, copy and publish) exclude the copy out of it.
SlotExclusive ==
  \A b \in SendBlocks : \A t \in b[2] :
    spc[b] \in {"copy", "publish"} =>
      rpc[SlotAt(b, t)] \notin {"copy", "consume"}

\* When a receiver's launch returns without error, every segment of every
\* tensor holds the weights of exactly that step, whatever timeouts and
\* failed launches came before on any rank.
ReceiverReturnIsCurrent ==
  \A x \in Segments :
    host[x[1]] = "barrier" => tensor[x] = make_ticket(sequence[x[1]], x[3])

\* When a sender's launch returns without error, none of its receivers still
\* lacks a segment of that step: the wait for the lanes' last tickets covers
\* all the segments before them.
SenderReturnIsDelivered ==
  \A x \in Segments : host[x[2]] = "barrier" => tensor[x][1] >= sequence[x[2]]

\* A successful launch of the sender leaves every slot it used free, so the
\* next step can start; a slot left full by a failed launch therefore makes
\* every later launch of that sender fail.
SuccessLeavesSlotsFree ==
  \A b \in SendBlocks : \A t \in b[2] :
    host[b[1]] = "barrier" => ready[SlotAt(b, t)] = consumed[SlotAt(b, t)]

\* No launch of the rank has ever thrown.
NeverFailed(r) ==
  barriers[r] = sequence[r] - (IF host[r] = "kernel" THEN 1 ELSE 0)

\* The epoch words are compared for equality, so a block that looks too late
\* would wait for a generation that is gone. The completion barrier rules that
\* out as long as no launch has failed.
NoMissedEpoch ==
  (\A r \in Ranks : NeverFailed(r)) =>
    /\ \A b \in SendBlocks : \A t \in swait[b] :
         spc[b] = "epoch" => epoch[t] <= sequence[b[1]]
    /\ \A b \in RecvBlocks : \A t \in rwait[b] :
         rpc[b] = "epoch" => epoch[t] <= sequence[b[1]]

\* A slot a failed launch left full stays as it is for ever: no later launch
\* overwrites or consumes it, it fails instead.
FullSlotIsFrozen ==
  [][\A q \in RecvBlocks :
       /\ ready[q] # consumed[q]
       /\ ready[q][1] < sequence[q[1]]
       => UNCHANGED <<ready[q], consumed[q], data[q]>>]_vars

\* The calls of the hosts over StepDelivery: a launch is a call that runs
\* until its kernel has ended, and the ticket a segment was copied under tells
\* the step whose weights it holds.
Delivery == INSTANCE StepDelivery WITH
  call    <- [r \in Ranks |-> IF host[r] = "kernel" THEN "running"
                              ELSE IF host[r] = "failed" THEN "threw"
                              ELSE "returned"],
  step    <- sequence,
  version <- [x \in Segments |-> tensor[x][1]]

\* The ring protocol implements the promise of send and recv.
ImplementsDelivery == Delivery!Spec

\* With timeouts every launch returns, with or without error: no block can
\* hold its kernel for ever.
EveryLaunchReturns ==
  \A r \in Ranks : host[r] = "kernel" ~> host[r] # "kernel"

\* Without timeouts every step completes on every rank: no wait of the kernel
\* and no barrier waits for something that cannot come.
EveryStepCompletes ==
  <>(\A r \in Ranks : sequence[r] = MaxSequence /\ host[r] = "idle")
-----------------------------------------------------------------------------
(***************************************************************************)
(* The inductive invariant behind SlotExclusive, ReceiverReturnIsCurrent   *)
(* and SuccessLeavesSlotsFree.                                             *)
(***************************************************************************)
Free(q) == ready[q] = consumed[q]

\* The segments lane l handles.
OfLane(o, l) == \E k \in 0 .. o : o = l + k * SlotsPerPeer

\* Between its wait and its store a sender has all its targets' slots to
\* itself, a slot the wait has seen free stays free until then, and what it
\* copied stays there until it publishes.
SenderOwnsSlots(b) ==
  \A t \in b[2] :
    /\ \/ spc[b] \in {"copy", "publish"}
       \/ spc[b] = "free" /\ t \notin swait[b]
       => Free(SlotAt(b, t))
    /\ spc[b] = "publish" => data[SlotAt(b, t)] = STicket(b)

\* A full slot holds the payload its ready ticket names.
FullSlotIsFilled(q) == ~Free(q) => data[q] = ready[q]

\* A block past its wait reads the slot of the segment it is at.
ReaderOwnsSlot(b) ==
  rpc[b] \in {"copy", "consume"} => ready[b] = RTicket(b) /\ ~Free(b)

\* A receiver has consumed nothing of what its block still has to do.
ConsumedIsPast(b) ==
  /\ consumed[b][1] <= sequence[b[1]]
  /\ rpc[b] # "exit" /\ consumed[b][1] = sequence[b[1]]
       => consumed[b][2] <= rord[b]

\* Segment x is one of those block b of a receiver handles.
Handles(b, x) == x[1] = b[1] /\ x[2] = b[2] /\ OfLane(x[3], b[3])

\* The loop of a receiver's block is at an ordinal of its lane, and has copied
\* every earlier segment of the lane in this launch.
LaneIsCopied(b) ==
  /\ sequence[b[1]] > 0 => OfLane(rord[b], b[3])
  /\ \A x \in Segments :
       /\ Handles(b, x)
       /\ x[3] < rord[b] \/ (rpc[b] = "consume" /\ x[3] = rord[b])
       => tensor[x] = make_ticket(sequence[b[1]], x[3])

\* When a receiver's block may be active, and what a finished one has done.
RecvProgress(b) ==
  /\ host[b[1]] # "kernel" => rpc[b] = "exit"
  /\ host[b[1]] # "idle" => sequence[b[1]] > 0
  /\ rpc[b] \in {"ready", "copy", "consume"} => rord[b] < Count[b[2]][b[1]]
  /\ rpc[b] = "exit" /\ sequence[b[1]] > 0 /\ host[b[1]] # "failed"
       => \/ rord[b] >= Count[b[2]][b[1]]
          \/ host[b[1]] = "kernel" /\ error[b[1]] # 0

\* What a receiver has acknowledged in a lane, it has copied.
ConsumedIsCopied(b) ==
  \A x \in Segments :
    Handles(b, x) /\ x[3] < consumed[b][2] => tensor[x][1] >= consumed[b][1]

\* No tensor is ahead of its receiver.
TensorNotAhead(x) == tensor[x][1] <= sequence[x[1]]

\* The loop of a sender's block is at an ordinal of its lane; a slot without
\* segments is never used; a block that drains has filled every slot with the
\* last segment of its lane.
SendProgress(b) ==
  /\ host[b[1]] # "kernel" => spc[b] = "exit"
  /\ host[b[1]] # "idle" => sequence[b[1]] > 0
  /\ spc[b] \in {"free", "copy", "publish", "drain"} =>
       sord[b] < StreamCount(b[1], b[2])
  /\ spc[b] # "exit" => OfLane(sord[b], b[3])
  /\ spc[b] = "epoch" => sord[b] = b[3]
  /\ b[3] >= StreamCount(b[1], b[2]) => \A t \in b[2] : Free(SlotAt(b, t))
  /\ spc[b] = "drain" =>
       /\ sord[b] + SlotsPerPeer >= StreamCount(b[1], b[2])
       /\ \A t \in b[2] : ready[SlotAt(b, t)] = STicket(b)

\* A sender's block has seen target t acknowledge the last segment of its lane.
Acknowledged(b, t) ==
  \/ spc[b] = "drain" /\ t \notin swait[b]
  \/ /\ spc[b] = "exit"
     /\ sequence[b[1]] > 0
     /\ host[b[1]] # "failed"
     /\ ~(host[b[1]] = "kernel" /\ error[b[1]] # 0)

\* A target that has acknowledged the lane has emptied its slot and holds the
\* lane's segments of the step.
AcknowledgedIsDelivered(b) ==
  \A t \in b[2] : Acknowledged(b, t) =>
    /\ Free(SlotAt(b, t))
    /\ \A x \in Segments :
         Handles(SlotAt(b, t), x) => tensor[x][1] >= sequence[b[1]]

\* No ticket in a slot is ahead of the slot's sender.
SlotNotAhead(q) == ready[q][1] <= sequence[q[2]]

SendInv(b) ==
  SenderOwnsSlots(b) /\ SendProgress(b) /\ AcknowledgedIsDelivered(b)

RecvInv(b) ==
  /\ FullSlotIsFilled(b)
  /\ ReaderOwnsSlot(b)
  /\ ConsumedIsPast(b)
  /\ LaneIsCopied(b)
  /\ RecvProgress(b)
  /\ ConsumedIsCopied(b)

IInv ==
  /\ TypeOK
  /\ \A b \in SendBlocks : SendInv(b)
  /\ \A b \in RecvBlocks : RecvInv(b)
  /\ \A x \in Segments : TensorNotAhead(x)

\* No rank is more than the barrier it waits in ahead of another.
IBarrier ==
  \A t, q \in Ranks :
    /\ epoch[t] <= sequence[t]
    /\ barriers[t] <= barriers[q] + (IF host[t] = "barrier" THEN 1 ELSE 0)

\* A receiver copies nothing its sender has not started to send.
IReady == \A q \in Slots : SlotNotAhead(q)
=============================================================================
