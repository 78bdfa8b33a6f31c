------------------------------ MODULE DeviceV2 ------------------------------
(***************************************************************************)
(* The second device transport at work: nccl_device_v2_ext.cu (launch),    *)
(* device_v2_kernel.cuh, device_v2_primitives.cuh and device_v2_gin.cuh.   *)
(*                                                                         *)
(* Every rank launches a kernel per step: a block for every channel of its *)
(* schedule, which runs the channel's batches one after the other, a group *)
(* of warps per work. A work's slices go through a FIFO that lies in the   *)
(* sender's window when both ranks are in one LSA team (the receiver reads *)
(* it over NVLink and writes consumed_step back), and in both windows when *)
(* they are not (GIN puts, ready signals and credits).                     *)
(*                                                                         *)
(* Two of a group's threads are told apart: the first, which waits for the *)
(* slot and stands for the copying threads, and the last, which publishes. *)
(* Each reads the window's error word for itself.                          *)
(***************************************************************************)
EXTENDS DeviceV2Lowering

\* The set of the deployments checked. Beyond the fields of
\* DeviceV2Lowering a deployment has `launches', the bound on the steps it
\* transfers, `timeout', whether a wait may run out of timeout_cycles, and
\* `kernels', whether kernels are run or plans only made.
CONSTANT Deployments

\* Training ranks send to inference ranks; a FIFO has a slot.
ASSUME DeploymentsAssumption ==
  \A dep \in Deployments :
    /\ dep.world \in Nat /\ dep.channels \in Nat /\ dep.senders \subseteq Ranks(dep)
    /\ Pairs(dep) \subseteq dep.senders \X (Ranks(dep) \ dep.senders)
    /\ dep.depth \in Nat \ {0} /\ dep.ginDepth \in Nat \ {0}

VARIABLES
  d,            \* the deployment
  plan,         \* what a rank computes at its first launch
  host,         \* where the rank's call of launch is
  seq,          \* its step's sequence, also the epoch of its kernel
  epoch, error, \* the header of its window
  block,        \* of a rank and a channel: the block's place
  lead, post,   \* of a rank, a channel and a peer: the two threads' places
  slice,        \* ... the slice of the work the first thread is at
  cache,        \* ... its step_cache
  filled,       \* ... whether its last wait succeeded: *ready
  ready,        \* ready_step of a slot <<sender, receiver, channel, index>>
  consumed,     \* consumed_step of the same slot
  payload,      \* what a payload slot holds
  unread,       \* the payload slots whose content nobody has taken yet
  puts, credits,          \* GIN messages on their way, by <<from, to, channel>>
  readySignal, creditSignal,  \* GIN signals of <<from, to, channel>>, at `to'
  landed        \* bytes of <<sender, receiver>>'s stream in place since launch

threads == <<lead, post, slice, cache, filled>>
fifo    == <<ready, consumed>>
gin     == <<puts, credits, readySignal, creditSignal>>
memory  == <<payload, unread, landed>>
vars    == <<d, plan, host, seq, epoch, error, block, threads, fifo, gin, memory>>

-----------------------------------------------------------------------------
(***************************************************************************)
(* What a rank computes at its first launch and keeps (plan_initialized).  *)
(* It depends on nothing but the deployment: it is there from the start.   *)
(***************************************************************************)
R == DOMAIN host
Sends(r) == r \in d.senders

\* `dep' is the deployment with what the ranks compute out of it.
FixedPlan(dep, r) ==
  [schedule |-> Schedule(dep, r),
   bytes    |-> [p \in PeersOf(d, r) |-> dep.bytes[<<r, p>>]],
   slot     |-> [p \in PeersOf(d, r) |-> PayloadSlot(d, r, p)],
   credit   |-> CreditBatch(d, r)]

\* The connections of a rank: <<rank, peer, channel>>. A group of warps of
\* the channel's block serves one when the running batch has a work for it.
Links == {l \in R \X R \X (0 .. d.channels - 1) : PairOf(l[1], l[2], d) \in Pairs(d)}
Blocks == R \X (0 .. d.channels - 1)
BlockOf(e) == <<e[1], e[3]>>
Back(e) == <<e[2], e[1], e[3]>>

\* A block's batches, the work its group for a connection is running, and
\* the FIFO step of its slice k.
Works(b) == plan[b[1]].schedule[b[2]]
WorkOf(e) == CHOOSE w \in ToSet(Works(BlockOf(e))[block[BlockOf(e)].at]) : w.peer = e[2]
StepAt(e, k) == WorkOf(e).first + k - 1

\* v2FifoSlot, v2FifoPayload and v2GinPayloadOffset.
Slot(e, step) ==
  IF Sends(e[1]) THEN <<e[1], e[2], e[3], step % WorkOf(e).depth>>
                 ELSE <<e[2], e[1], e[3], step % WorkOf(e).depth>>
Payload(owner, peer, c, step, depth) ==
  <<owner, plan[owner].slot[peer], c, step % depth>>

Gin(e) == Network(d, e[1], e[2])

\* The payload slot a group copies to (a sender) or from (a receiver).
CopySlot(e, k) ==
  LET owner == IF Sends(e[1]) \/ Gin(e) THEN e[1] ELSE e[2]
      peer  == IF owner = e[1] THEN e[2] ELSE e[1]
  IN  Payload(owner, peer, e[3], StepAt(e, k), WorkOf(e).depth)

\* What slice k of the work carries in the rank's current step.
Content(e, k) ==
  [seq |-> seq[e[1]], offset |-> WorkOf(e).offset + (k - 1) * WorkOf(e).step,
   bytes |-> SliceBytes(WorkOf(e), k)]
Empty == [seq |-> 0, offset |-> 0, bytes |-> 0]

\* The slots of the LSA connections, and the payload slots of all windows.
Slots == {<<l[1], l[2], l[3], i>> :
            l \in {m \in Links : Sends(m[1]) /\ ~Gin(m)}, i \in 0 .. d.depth - 1}
PayloadSpace ==
  {<<l[1], PayloadSlot(d, l[1], l[2]), l[3], i>> :
     l \in {m \in Links : Sends(m[1]) \/ Gin(m)},
     i \in 0 .. (IF \E m \in Links : Gin(m) THEN Larger(d.depth, d.ginDepth) ELSE d.depth) - 1}

Init ==
  /\ d \in Deployments
  /\ host = [r \in Ranks(d) |-> "idle"]
  /\ \E d1 \in {WithTasks(d)} : \E d2 \in {WithBytes(d1)} :
     \E d3 \in {WithChannels(d2)} : \E d4 \in {WithParts(d3)} :
     \E d5 \in {WithWorks(d4)} :
       plan = [r \in R |-> FixedPlan(d5, r)]
  /\ seq = [r \in R |-> 0]
  /\ epoch = [r \in R |-> 0]
  /\ error = [r \in R |-> FALSE]
  /\ block = [b \in Blocks |-> [pc |-> "off", at |-> 1]]
  /\ lead = [e \in Links |-> "out"]
  /\ post = [e \in Links |-> "out"]
  /\ slice = [e \in Links |-> 1]
  /\ cache = [e \in Links |-> 0]
  /\ filled = [e \in Links |-> TRUE]
  /\ ready = [s \in Slots |-> 0]
  /\ consumed = [s \in Slots |-> 0]
  /\ payload = [p \in PayloadSpace |-> Empty]
  /\ unread = {}
  /\ puts = [l \in Links |-> <<>>]
  /\ credits = [l \in Links |-> <<>>]
  /\ readySignal = [l \in Links |-> 0]
  /\ creditSignal = [l \in Links |-> 0]
  /\ landed = [q \in Pairs(d) |-> 0]

-----------------------------------------------------------------------------
(***************************************************************************)
(* The host.                                                               *)
(***************************************************************************)

\* send or recv: launch, up to the first collective of the first step. The
\* receiver's tensors hold the step before.
Launch(r) ==
  /\ host[r] = "idle" /\ seq[r] < d.launches
  /\ host' = [host EXCEPT ![r] = IF seq[r] = 0 THEN "register" ELSE "reset"]
  /\ seq' = [seq EXCEPT ![r] = @ + 1]
  /\ landed' = [q \in DOMAIN landed |-> IF q[2] = r THEN 0 ELSE landed[q]]
  /\ UNCHANGED <<d, plan, epoch, error, block, threads, fifo, gin, payload, unread>>

\* initialize_sparse_window: all-gathers and a collective registration.
Register(r) ==
  /\ host[r] = "register"
  /\ \A q \in R : seq[q] > 0
  /\ host' = [host EXCEPT ![r] = "reset"]
  /\ UNCHANGED <<d, plan, seq, epoch, error, block, threads, fifo, gin, memory>>

StartKernel(r) ==
  LET used == DOMAIN plan[r].schedule
  IN  block' = [b \in DOMAIN block |->
        IF b[1] # r \/ b[2] \notin used THEN block[b]
        ELSE [pc |-> IF b[2] = Min(used) THEN "epoch" ELSE "gate", at |-> 1]]

\* cudaMemsetAsync of the control region and v2GinResetSignalsKernel up to
\* its barrier.
Reset(r) ==
  /\ host[r] = "reset" /\ d.kernels
  /\ epoch' = [epoch EXCEPT ![r] = 0]
  /\ error' = [error EXCEPT ![r] = FALSE]
  /\ ready' = [s \in DOMAIN ready |-> IF s[1] = r THEN 0 ELSE ready[s]]
  /\ consumed' = [s \in DOMAIN ready |-> IF s[1] = r THEN 0 ELSE consumed[s]]
  /\ IF GinEnabled(d)
     THEN /\ host' = [host EXCEPT ![r] = "barrier"]
          /\ readySignal' = [l \in DOMAIN puts |-> IF l[2] = r THEN 0 ELSE readySignal[l]]
          /\ creditSignal' = [l \in DOMAIN puts |-> IF l[2] = r THEN 0 ELSE creditSignal[l]]
          /\ UNCHANGED block
     ELSE /\ host' = [host EXCEPT ![r] = "kernel"]
          /\ StartKernel(r)
          /\ UNCHANGED <<readySignal, creditSignal>>
  /\ UNCHANGED <<d, plan, seq, threads, puts, credits, memory>>

\* Mutant of AtBarrier: the barrier waits for the ranks of its own node.
AtBarrierOfNode(r) ==
  \A q \in {x \in R : d.node[x] = d.node[r]} :
    seq[q] >= seq[r] /\ ~(seq[q] = seq[r] /\ host[q] \in {"register", "reset"})

\* Every rank of the world has reset its signals for this step.
AtBarrier(r) ==
  \A q \in R : seq[q] >= seq[r] /\ ~(seq[q] = seq[r] /\ host[q] \in {"register", "reset"})

\* The world barrier of v2GinResetSignalsKernel, which may time out: the
\* kernel is launched all the same.
GinBarrier(r) ==
  /\ host[r] = "barrier"
  /\ \/ AtBarrier(r) /\ UNCHANGED error
     \/ d.timeout /\ ~AtBarrier(r) /\ error' = [error EXCEPT ![r] = TRUE]
  /\ host' = [host EXCEPT ![r] = "kernel"]
  /\ StartKernel(r)
  /\ UNCHANGED <<d, plan, seq, epoch, threads, fifo, gin, memory>>

\* cudaStreamSynchronize and the check of header.error.
Synchronize(r) ==
  /\ host[r] = "kernel"
  /\ \A b \in DOMAIN block : b[1] = r => block[b].pc = "off"
  /\ host' = [host EXCEPT ![r] = IF error[r] THEN "threw" ELSE "returned"]
  /\ UNCHANGED <<d, plan, seq, epoch, error, block, threads, fifo, gin, memory>>

\* The completion barrier of the writer and the reader.
Complete(r) ==
  /\ host[r] = "returned"
  /\ \A q \in R : seq[q] > seq[r] \/ (seq[q] = seq[r] /\ host[q] \in {"returned", "idle"})
  /\ host' = [host EXCEPT ![r] = "idle"]
  /\ UNCHANGED <<d, plan, seq, epoch, error, block, threads, fifo, gin, memory>>

-----------------------------------------------------------------------------
(***************************************************************************)
(* A block: device_v2_kernel and v2RunBatch.                               *)
(***************************************************************************)

\* The first block publishes the epoch.
PublishEpoch(b) ==
  /\ block[b].pc = "epoch"
  /\ epoch' = [epoch EXCEPT ![b[1]] = seq[b[1]]]
  /\ block' = [block EXCEPT ![b].pc = "gate"]
  /\ UNCHANGED <<d, plan, host, seq, error, threads, fifo, gin, memory>>

\* Puts the threads of a batch's groups at its start, or ends the block. The
\* final flush of the block's GIN context is in EndBlock.
EnterBatch(b, n) ==
  IF n > Len(Works(b))
  THEN /\ block' = [block EXCEPT ![b] = [pc |-> "flush", at |-> 1]]
       /\ UNCHANGED threads
  ELSE LET mine == {<<b[1], w.peer, b[2]>> : w \in ToSet(Works(b)[n])}
           Set(f, v) == [e \in DOMAIN f |-> IF e \in mine THEN v ELSE f[e]]
       IN  /\ block' = [block EXCEPT ![b] = [pc |-> "run", at |-> n]]
           /\ lead' = Set(lead, "wait")
           /\ post' = Set(post, IF Sends(b[1]) THEN "main" ELSE "bar")
           /\ slice' = Set(slice, 1)
           /\ cache' = Set(cache, 0)
           /\ filled' = Set(filled, TRUE)

\* The block's first thread polls the LSA peers' epochs in turn.
Gate(b) ==
  LET r == b[1]
      peers == LsaPeers(d, r)
  IN  /\ block[b].pc = "gate"
      /\ IF block[b].at > Len(peers)
         THEN EnterBatch(b, 1) /\ UNCHANGED error
         ELSE /\ UNCHANGED threads
              /\ \/ /\ epoch[peers[block[b].at]] >= seq[r] /\ ~error[r]
                    /\ block' = [block EXCEPT ![b].at = @ + 1]
                    /\ UNCHANGED error
                 \/ /\ error[r] \/ d.timeout
                    /\ block' = [block EXCEPT ![b] = [pc |-> "off", at |-> 1]]
                    /\ error' = [error EXCEPT ![r] = TRUE]
      /\ UNCHANGED <<d, plan, host, seq, epoch, fifo, gin, memory>>

\* __syncthreads at the end of v2RunBatch: all threads of all groups.
NextBatch(b) ==
  /\ block[b].pc = "run"
  /\ \A e \in DOMAIN lead : BlockOf(e) = b => lead[e] = "out" /\ post[e] = "out"
  /\ EnterBatch(b, block[b].at + 1)
  /\ UNCHANGED <<d, plan, host, seq, epoch, error, fifo, gin, memory>>

\* gin.flush: the block's puts have left their buffers.
EndBlock(b) ==
  /\ block[b].pc = "flush"
  /\ \A l \in DOMAIN puts : BlockOf(l) = b => puts[l] = <<>>
  /\ block' = [block EXCEPT ![b].pc = "off"]
  /\ UNCHANGED <<d, plan, host, seq, epoch, error, threads, fifo, gin, memory>>

-----------------------------------------------------------------------------
(***************************************************************************)
(* Waits of a group's first thread.                                        *)
(***************************************************************************)

\* Mutant of FreeFrom: a slot is taken for free a step too early.
FreeFromEarly(step, depth) == step - depth - 1

\* The step that must have been consumed before a slot is free for `step'.
FreeFrom(step, depth) == step - depth

\* What v2WaitReady, v2WaitFree, v2WaitConsumed and v2GinWaitSignal load,
\* and the value they need.
Awaited(e) ==
  LET w    == WorkOf(e)
      step == StepAt(e, slice[e])
      r    == e[1]
      to   == Back(e)
      needed == IF lead[e] = "drain" THEN step - 1
                ELSE IF Sends(r) THEN FreeFrom(step, w.depth) ELSE step
      read == IF Gin(e) THEN (IF Sends(r) THEN creditSignal[to] ELSE readySignal[to])
              ELSE IF Sends(r)
                   THEN consumed[Slot(e, IF lead[e] = "drain" THEN step - 1 ELSE step)]
                   ELSE ready[Slot(e, step)]
  IN  [needed |-> needed, read |-> read]

\* The next place of the first thread when its wait has ended.
Waited(e) == IF lead[e] = "drain" THEN "drained" ELSE IF Sends(e[1]) THEN "copy" ELSE "bar"

\* The wait succeeds. An LSA wait remembers what it loaded for the rest of
\* the batch, and gives up when it had to load and the error word is set.
WaitPasses(e) ==
  LET a == Awaited(e)
      known == IF Gin(e) THEN a.read ELSE cache[e]
  IN  /\ lead[e] \in {"wait", "drain"}
      /\ \/ known >= a.needed /\ UNCHANGED cache
         \/ /\ known < a.needed /\ a.read >= a.needed /\ ~error[e[1]]
            /\ cache' = [cache EXCEPT ![e] = a.read]
      /\ filled' = IF Gin(e) /\ Sends(e[1]) /\ lead[e] = "wait" /\ a.needed <= 0
                   THEN filled ELSE [filled EXCEPT ![e] = TRUE]
      /\ lead' = [lead EXCEPT ![e] = Waited(e)]
      /\ UNCHANGED <<d, plan, host, seq, epoch, error, block, post, slice, fifo, gin, memory>>

\* The wait gives up: another thread has set the error word, or it times out.
WaitGivesUp(e) ==
  LET a == Awaited(e)
      known == IF Gin(e) THEN a.read ELSE cache[e]
  IN  /\ lead[e] \in {"wait", "drain"}
      /\ known < a.needed
      /\ error[e[1]] \/ d.timeout
      /\ error' = [error EXCEPT ![e[1]] = TRUE]
      /\ filled' = [filled EXCEPT ![e] = FALSE]
      /\ lead' = [lead EXCEPT ![e] = Waited(e)]
      /\ UNCHANGED <<d, plan, host, seq, epoch, block, post, slice, cache, fifo, gin, memory>>

-----------------------------------------------------------------------------
(***************************************************************************)
(* A slice: v2RunSend, v2RunRecv, v2GinRunSend and v2GinRunRecv.           *)
(***************************************************************************)

\* The receivers' first barrier.
FirstBarrier(e) ==
  /\ lead[e] = "bar" /\ post[e] = "bar"
  /\ lead' = [lead EXCEPT ![e] = "copy"]
  /\ post' = [post EXCEPT ![e] = "main"]
  /\ UNCHANGED <<d, plan, host, seq, epoch, error, block, slice, cache, filled, fifo, gin, memory>>

\* v2CopyFragmentsToContiguous.
CopyOut(e) ==
  /\ lead[e] = "copy" /\ Sends(e[1])
  /\ lead' = [lead EXCEPT ![e] = "main"]
  /\ IF filled[e]
     THEN /\ payload' = [payload EXCEPT ![CopySlot(e, slice[e])] = Content(e, slice[e])]
          /\ unread' = unread \cup {CopySlot(e, slice[e])}
     ELSE UNCHANGED <<payload, unread>>
  /\ UNCHANGED <<d, plan, host, seq, epoch, error, block, post, slice, cache, filled, fifo, gin, landed>>

\* v2CopyContiguousToFragments. Only the bytes of the slice and step that
\* belong there count as landed.
CopyIn(e) ==
  LET from == CopySlot(e, slice[e])
  IN  /\ lead[e] = "copy" /\ ~Sends(e[1])
      /\ lead' = [lead EXCEPT ![e] = "main"]
      /\ IF filled[e]
         THEN /\ unread' = unread \ {from}
              /\ landed' = [landed EXCEPT ![<<e[2], e[1]>>] =
                   IF payload[from] = Content(e, slice[e])
                   THEN @ + payload[from].bytes ELSE @]
         ELSE UNCHANGED <<unread, landed>>
      /\ UNCHANGED <<d, plan, host, seq, epoch, error, block, post, slice, cache, filled, fifo, gin, payload>>

\* The barrier after the copy, and the one after the final wait.
MainBarrier(e) ==
  /\ \/ /\ lead[e] = "main" /\ post[e] = "main"
        /\ lead' = [lead EXCEPT ![e] = "check"]
        /\ post' = [post EXCEPT ![e] = "post"]
     \/ /\ lead[e] = "drained" /\ post[e] = "drained"
        /\ lead' = [lead EXCEPT ![e] = "out"]
        /\ post' = [post EXCEPT ![e] = "out"]
  /\ UNCHANGED <<d, plan, host, seq, epoch, error, block, slice, cache, filled, fifo, gin, memory>>

\* The slice the last thread is at: the first one is a slice ahead of it, or
\* past the work, from its own check to the next barrier.
PostSlice(e) ==
  IF lead[e] \in {"check", "out"} THEN slice[e] ELSE slice[e] - 1

\* Mutant of CreditsReturned: a batch that the work's end cuts short is
\* credited whole.
CreditsReturnedWhole(batch, k, last) == IF last \/ k % batch = 0 THEN batch ELSE 0

\* Mutant of CreditsReturned: the steps after a work's last whole batch are
\* not credited.
CreditsReturnedFull(batch, k, last) == IF k % batch = 0 THEN batch ELSE 0

\* returned_credits after slice k of a work, 0 for no message.
CreditsReturned(batch, k, last) ==
  IF k % batch = 0 THEN batch ELSE IF last THEN k % batch ELSE 0

\* What the last thread publishes of a slice when the error word is clear.
Publish(e, k) ==
  LET step == StepAt(e, k)
      returned == CreditsReturned(plan[e[1]].credit, k, k = WorkSteps(WorkOf(e)))
  IN  CASE Gin(e) /\ Sends(e[1]) ->
             /\ puts' = [puts EXCEPT ![e] = Append(@, [step |-> step, depth |-> WorkOf(e).depth])]
             /\ UNCHANGED <<fifo, credits>>
        [] Gin(e) /\ ~Sends(e[1]) ->
             /\ credits' = IF returned = 0 THEN credits
                           ELSE [credits EXCEPT ![e] = Append(@, returned)]
             /\ UNCHANGED <<fifo, puts>>
        [] ~Gin(e) /\ Sends(e[1]) ->
             /\ ready' = [ready EXCEPT ![Slot(e, step)] = step]
             /\ UNCHANGED <<consumed, puts, credits>>
        [] OTHER ->
             /\ consumed' = [consumed EXCEPT ![Slot(e, step)] = step]
             /\ UNCHANGED <<ready, puts, credits>>

\* The last thread publishes, unless it reads an error.
Post(e) ==
  /\ post[e] = "post"
  /\ post' = [post EXCEPT ![e] = "check"]
  /\ IF error[e[1]] THEN UNCHANGED <<fifo, puts, credits>> ELSE Publish(e, PostSlice(e))
  /\ UNCHANGED <<d, plan, host, seq, epoch, error, block, lead, slice, cache, filled,
                 readySignal, creditSignal, memory>>

\* Mutant of AfterSlice: the final wait is left out.
AfterSliceUndrained(e, k, next) == IF k < WorkSteps(WorkOf(e)) THEN next ELSE "out"

\* Where a thread goes after slice k when it read no error.
AfterSlice(e, k, next) ==
  IF k < WorkSteps(WorkOf(e)) THEN next
  ELSE IF WorkOf(e).final /\ Sends(e[1])
       THEN (IF next = "wait" THEN "drain" ELSE "drained")
       ELSE "out"

\* Each thread's own read of the error word at the end of a slice.
LeadCheck(e) ==
  LET next == IF error[e[1]] THEN "out" ELSE AfterSlice(e, slice[e], "wait")
  IN  /\ lead[e] = "check"
      /\ lead' = [lead EXCEPT ![e] = next]
      /\ slice' = IF next \in {"wait", "drain"} THEN [slice EXCEPT ![e] = @ + 1] ELSE slice
      /\ UNCHANGED <<d, plan, host, seq, epoch, error, block, post, cache, filled, fifo, gin, memory>>

PostCheck(e) ==
  /\ post[e] = "check"
  /\ post' = [post EXCEPT ![e] =
       IF error[e[1]] THEN "out"
       ELSE AfterSlice(e, PostSlice(e), IF Sends(e[1]) THEN "main" ELSE "bar")]
  /\ UNCHANGED <<d, plan, host, seq, epoch, error, block, lead, slice, cache, filled, fifo, gin, memory>>

-----------------------------------------------------------------------------
(***************************************************************************)
(* The network (external): the puts of one context to one peer complete in *)
(* order, each before its signal; credits may overtake each other.         *)
(***************************************************************************)
DeliverPut(l) ==
  /\ puts[l] # <<>>
  /\ LET from == Payload(l[1], l[2], l[3], Head(puts[l]).step, Head(puts[l]).depth)
         to   == Payload(l[2], l[1], l[3], Head(puts[l]).step, Head(puts[l]).depth)
     IN  /\ payload' = [payload EXCEPT ![to] = payload[from]]
         /\ unread' = (unread \ {from}) \cup {to}
  /\ puts' = [puts EXCEPT ![l] = Tail(@)]
  /\ readySignal' = [readySignal EXCEPT ![l] = @ + 1]
  /\ UNCHANGED <<d, plan, host, seq, epoch, error, block, threads, fifo, credits, creditSignal, landed>>

DeliverCredit(l) ==
  /\ \E i \in DOMAIN credits[l] :
       /\ credits' = [credits EXCEPT ![l] = RemoveAt(@, i)]
       /\ creditSignal' = [creditSignal EXCEPT ![l] = @ + credits[l][i]]
  /\ UNCHANGED <<d, plan, host, seq, epoch, error, block, threads, fifo, puts, readySignal, memory>>

HostStep(r) == Launch(r) \/ Register(r) \/ Reset(r) \/ GinBarrier(r) \/ Synchronize(r) \/ Complete(r)
BlockStep(b) == PublishEpoch(b) \/ Gate(b) \/ NextBatch(b) \/ EndBlock(b)
ThreadStep(e) ==
  \/ WaitPasses(e) \/ WaitGivesUp(e) \/ FirstBarrier(e) \/ CopyOut(e) \/ CopyIn(e)
  \/ MainBarrier(e) \/ Post(e) \/ LeadCheck(e) \/ PostCheck(e)

Next ==
  \/ \E r \in R : HostStep(r)
  \/ \E b \in DOMAIN block : BlockStep(b)
  \/ \E e \in DOMAIN lead : ThreadStep(e)
  \/ \E l \in DOMAIN puts : DeliverPut(l) \/ DeliverCredit(l)

Spec == Init /\ [][Next]_vars

\* The blocks of a rank's kernel are resident together (there are no more
\* channels than multiprocessors) and make progress, the hosts call, and the
\* network delivers. Every action is taken finitely often, so that this is
\* as much as fairness of each of them.
FairSpec == Spec /\ WF_vars(Next)
-----------------------------------------------------------------------------
(***************************************************************************)
(* Properties.                                                             *)
(***************************************************************************)
\* Every rank has made its plan and none has started. Plans do not change:
\* they are looked at then.
PlansMade == \A r \in R : seq[r] = 1 /\ host[r] = "reset"

\* The batches an end's block runs and the slots of its FIFO; its works in
\* one batch, and the last FIFO step of those in the batches before the n-th.
Used(e)  == e[3] \in DOMAIN plan[e[1]].schedule
Count(e) == Len(Works(BlockOf(e)))
Depth(e) == IF Gin(e) THEN d.ginDepth ELSE d.depth
WorksIn(e, n) ==
  IF e[3] \in DOMAIN plan[e[1]].schedule /\ n \in 1 .. Len(Works(BlockOf(e)))
  THEN {w \in ToSet(Works(BlockOf(e))[n]) : w.peer = e[2]} ELSE {}
StepsBefore(e, n) ==
  Max({0} \cup UNION {{w.first + WorkSteps(w) - 1 : w \in WorksIn(e, i)} : i \in 1 .. n - 1})
LastStep(e) == IF Used(e) THEN StepsBefore(e, Count(e) + 1) ELSE 0

\* The works of an end, and what the two ends of a stream have in common of
\* one: all but the peer.
PlannedWorks(e) == IF Used(e) THEN UNION {WorksIn(e, n) : n \in 1 .. Count(e)} ELSE {}
Division(w) == <<w.channel, w.offset, w.bytes, w.first, w.step, w.depth, w.final>>

\* Both ends of every pair divide their stream into the same works, on the
\* same channels, with the same FIFO steps: "both ends of every peer pair
\* choose the same p2pnChannelsPerPeer value" (device_v2_topology.h), "This
\* symmetric edge coloring gives consecutive peers disjoint channel groups"
\* (device_v2_lowering.h). Looked at when every rank has made its plan.
WorksMatch ==
  \A e \in Links : {Division(w) : w \in PlannedWorks(e)} = {Division(w) : w \in PlannedWorks(Back(e))}
BothEndsAgree == PlansMade => WorksMatch

\* The task of a sequence of tasks that byte x of their stream is in, and
\* which of its bytes.
Located(tasks, x) ==
  LET Begin(i) == Total([j \in 1 .. i - 1 |-> tasks[j].bytes])
      i == CHOOSE k \in DOMAIN tasks : Begin(k) <= x /\ x < Begin(k) + tasks[k].bytes
  IN  [task |-> tasks[i], byte |-> x - Begin(i)]

\* Every byte of the stream between two ranks is the same element of the
\* logical tensor for the sender, which may read it from another tensor's
\* spans, and for the receiver, which writes its view.
StreamsAgree ==
  PlansMade => \A q \in Pairs(d) :
    /\ plan[q[1]].bytes[q[2]] = plan[q[2]].bytes[q[1]]
    /\ \A sent \in {Tasks(d, q[1], q[2])}, kept \in {Tasks(d, q[2], q[1])} :
         \A x \in 0 .. plan[q[1]].bytes[q[2]] - 1 :
           \A from \in {Located(sent, x)}, to \in {Located(kept, x)} :
             /\ from.task.op = to.task.op
             /\ SourceElement(d.ops[q], from.task, from.byte)
                  = TargetElement(d.ops[q], to.task, to.byte)

\* The steps of an end's FIFO are numbered one after the other through the
\* batches of its block, at most one work of the peer in each, a step carries
\* something, and a sender waits behind the last: "Each batch contains at most
\* one work per peer, so concurrent warp groups never race on the same (peer,
\* channel) FIFO step stream" (device_v2_lowering.h).
StepsInOrder ==
  \A e \in Links : e[3] \in DOMAIN plan[e[1]].schedule =>
    /\ Len(Works(BlockOf(e))) \in Nat
    /\ \A n \in 1 .. Len(Works(BlockOf(e))) : \A w \in WorksIn(e, n) :
         /\ WorksIn(e, n) = {w}
         /\ WorkSteps(w) \in Nat \ {0} /\ w.first = StepsBefore(e, n) + 1
         /\ w.depth = Depth(e) /\ w.channel = e[3]
         /\ \A k \in 1 .. WorkSteps(w) : SliceBytes(w, k) \in Nat \ {0}
         /\ \/ w.final \/ ~Sends(e[1])
            \/ StepsBefore(e, n + 1) # StepsBefore(e, Len(Works(BlockOf(e))) + 1)

\* The work that a step of an end's FIFO is of, the bytes of the step, and of
\* the first n steps.
WorkAt(e, t) == CHOOSE w \in PlannedWorks(e) : w.first <= t /\ t < w.first + WorkSteps(w)
StepBytes(e, t) == SliceBytes(WorkAt(e, t), t - WorkAt(e, t).first + 1)
BytesThrough(e, n) == Total([t \in 1 .. n |-> StepBytes(e, t)])

\* The steps of a receiver's FIFOs, of all channels, carry the whole stream.
WholeStreams ==
  \A q \in Pairs(d) :
    Total([c \in 1 .. d.channels |->
             LET e == <<q[2], q[1], c - 1>> IN BytesThrough(e, LastStep(e))])
      = plan[q[2]].bytes[q[1]]

\* Every byte of every task is in exactly one fragment of one work, for the
\* sender and for the receiver, and the steps of the works come to as many.
EveryByteOnce ==
  PlansMade => WholeStreams /\ \A e \in Ends(d) : \A tasks \in {Tasks(d, e[1], e[2])} :
    \A lengths \in {[i \in DOMAIN tasks |-> tasks[i].bytes]} :
      LET pieces == UNION {{<<w, f>> : f \in ToSet(Fragments(lengths, w))} :
                             w \in UNION {PlannedWorks(<<e[1], e[2], c>>) : c \in 0 .. d.channels - 1}}
      IN  \A i \in DOMAIN lengths : \A x \in 0 .. lengths[i] - 1 :
            Cardinality({p \in pieces : p[2].task = i /\ p[2].from <= x
                                          /\ x < p[2].from + p[2].bytes}) = 1

\* Nothing is copied over a payload that nobody has taken yet: not by a
\* sender into its window or its staging slot, not by a put into the
\* receiver's window.
NoOverwrite ==
  /\ \A e \in DOMAIN lead : lead[e] = "copy" /\ Sends(e[1]) /\ filled[e] =>
       CopySlot(e, slice[e]) \notin unread
  /\ \A l \in DOMAIN puts : puts[l] # <<>> =>
       Payload(l[2], l[1], l[3], Head(puts[l]).step, Head(puts[l]).depth) \notin unread

\* A receiver whose recv returned has every byte of its step.
ReceiverReturnIsCurrent ==
  \A q \in Pairs(d) : host[q[2]] \in {"returned", "idle"} /\ seq[q[2]] > 0 =>
    landed[q] = plan[q[2]].bytes[q[1]]

\* A sender whose send returned has had every byte of its step taken.
SenderReturnIsDelivered ==
  \A q \in Pairs(d) : host[q[1]] \in {"returned", "idle"} /\ seq[q[1]] > 0 =>
    seq[q[2]] > seq[q[1]] \/ landed[q] = plan[q[2]].bytes[q[1]]

\* A block moves payload only while the peer is in the same launch and has
\* cleared its window for it: a memset or a signal reset erases nothing.
PeerHasReset ==
  \A e \in DOMAIN lead :
    block[BlockOf(e)].pc = "run" /\ lead[e] # "out" /\ ~error[e[1]] =>
      seq[e[2]] = seq[e[1]] /\ host[e[2]] \notin {"idle", "register", "reset"}

\* A sender is never credited for a step that did not arrive.
NoCreditInAdvance ==
  \A l \in DOMAIN puts : ~Sends(l[1]) /\ host[l[1]] = "kernel" /\ ~error[l[1]] =>
    creditSignal[l] <= readySignal[Back(l)]

\* Where no wait times out, every launch of every rank ends in success: the
\* batches of different ranks never wait for each other in a circle.
EveryLaunchCompletes ==
  d.kernels /\ ~d.timeout => <>(\A r \in R : seq[r] = d.launches /\ host[r] = "idle")
=============================================================================
