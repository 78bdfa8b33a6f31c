------------------------- MODULE DeviceV2Lowering -------------------------
(***************************************************************************)
(* What every rank of the second device transport computes from its own    *)
(* half of a transfer plan before a kernel runs: the channels of a peer    *)
(* (device_v2_topology.h, device_v2_gin_config.h), the works of a channel  *)
(* and their batches (device_v2_lowering.h) and the place of a peer's      *)
(* payload in the window (nccl_device_v2_ext.cu).                          *)
(*                                                                         *)
(* Nothing of it is exchanged: a sender and a receiver use the same FIFO   *)
(* steps only because each one's computation ends the same.                *)
(*                                                                         *)
(* A deployment d is a record                                              *)
(*   world, senders   the ranks are 0 .. world - 1                         *)
(*   ops              for every <<sender, receiver>> its operations        *)
(*   annotated        the receivers' plans know the source spans           *)
(*   node, links      of a rank: its LSA team, its NVLink switch links     *)
(*   channels         max_channels, already a power of two                 *)
(*   maxWorks         kMaxWorksPerBatch                                    *)
(*   alignment        of the parts of a stream (4096 in the code)          *)
(*   depth, step, chunk           of the LSA FIFOs                         *)
(*   ginDepth, ginStep, ginChunk  of the GIN FIFOs                         *)
(*   connections      ginConnectionCount of the communicator               *)
(* and gains, step by step, the fields tasks, bytes, peerChannels, parts   *)
(* and works, of every end <<rank, peer>> of a stream: see WithTasks.      *)
(***************************************************************************)
EXTENDS DeviceBatch

Smaller(a, b) == IF a < b THEN a ELSE b
Larger(a, b)  == IF a < b THEN b ELSE a

\* v2DivUp and v2DivideUp.
DivUp(value, divisor) == (value + divisor - 1) \div divisor

\* The power of two the code's doubling loops stop at.
PowerOfTwoUp(value) == CHOOSE p \in {2 ^ k : k \in 0 .. 6} :
                         p >= value /\ (p = 1 \/ p \div 2 < value)

Ranks(d) == 0 .. d.world - 1
Pairs(d) == DOMAIN d.ops

PairOf(me, peer, d) == IF me \in d.senders THEN <<me, peer>> ELSE <<peer, me>>

\* The ends of the streams: <<rank, peer>>.
Ends(d) == {e \in Ranks(d) \X Ranks(d) : PairOf(e[1], e[2], d) \in Pairs(d)}

\* The tasks a rank has for a peer.
Tasks(d, me, peer) ==
  IF me \in d.senders THEN SendTasks(d.ops[<<me, peer>>])
                      ELSE RecvTasks(d.ops[<<peer, me>>], d.annotated)

Network(d, me, peer) == d.node[me] # d.node[peer]
PeersOf(d, me) == {p \in Ranks(d) : PairOf(me, p, d) \in Pairs(d)}

\* sorted: the ranks of a set, the lowest first.
Ascending(ranks) ==
  [k \in 1 .. Cardinality(ranks) |->
     CHOOSE r \in ranks : Cardinality({o \in ranks : o < r}) = k - 1]

\* build_tasks: the peers in the order of the batch, which _operation_groups
\* sorts by rank; those on the node of the rank, and those it needs GIN for.
ActivePeers(d, me) == Ascending(PeersOf(d, me))
LsaPeers(d, me) == Ascending({p \in PeersOf(d, me) : ~Network(d, me, p)})
GinPeers(d, me) == Ascending({p \in PeersOf(d, me) : Network(d, me, p)})

\* initialize_sparse_window: GIN is enabled on every rank when one needs it.
GinEnabled(d) == \E r \in Ranks(d) : GinPeers(d, r) # <<>>
-----------------------------------------------------------------------------
(***************************************************************************)
(* The channels a peer may use.                                            *)
(***************************************************************************)

\* discoverV2Topology: the fewest any pair of the communicator could use, so
\* that both ends of a pair choose the same number.
ChannelsPerPeer(d) ==
  LET Raw(a, b) == IF Network(d, a, b) THEN 2
                   ELSE 2 * Larger(1, Smaller(d.links[a], d.links[b]))
      raws == {Raw(p[1], p[2]) : p \in {q \in Ranks(d) \X Ranks(d) : q[1] < q[2]}}
  IN  Smaller(d.channels, PowerOfTwoUp(Min(raws \cup {64})))

\* v2ConfigureGinChannels, with several GIN peers: each gets the channels its
\* FIFO window asks for, and then, the largest stream first, doublings out of
\* what is left of the budget.
WeightedGinChannels(d, me) ==
  LET base    == Smaller(d.channels, PowerOfTwoUp(2 * d.connections))
      budget  == Smaller(d.channels, 6 * d.connections)
      peers   == GinPeers(d, me)
      Bytes(p) == d.bytes[<<me, p>>]
      all     == Total([i \in DOMAIN peers |-> Bytes(peers[i])])
      Window(p) == PowerOfTwoUp(Smaller(base,
                     Larger(1, DivUp(Bytes(p), d.ginStep * d.ginDepth))))
      Weight(p) == IF all = 0 THEN 1 ELSE DivUp(budget * Bytes(p), all)
      largestFirst == SortSeq(peers, LAMBDA p, q : Bytes(p) > Bytes(q))
      assigned == Total([i \in DOMAIN peers |-> Window(peers[i])])
      \* One turn of the doubling loop of peer p.
      Double(state, p) ==
        LET mine == state.of[p] IN
          IF /\ mine <= state.left
             /\ 2 * mine <= Weight(p)
             /\ mine <= d.channels \div 2
          THEN [left |-> state.left - mine, of |-> [state.of EXCEPT ![p] = 2 * mine]]
          ELSE state
      Grow(state, p) == FoldLeft(LAMBDA s, i : Double(s, p), state, <<1, 2, 3, 4, 5, 6>>)
  IN  FoldLeft(Grow,
               [left |-> Larger(0, budget - assigned),
                of |-> [p \in ToSet(peers) |-> Window(p)]],
               largestFirst).of

\* The number of channels of a rank's peer: v2ConfigureGinChannels overrides
\* the topology's for a GIN peer. The whole budget goes to an only GIN peer.
PeerChannels(d, me, peer) ==
  IF ~Network(d, me, peer) THEN ChannelsPerPeer(d)
  ELSE IF Len(GinPeers(d, me)) = 1
       THEN Smaller(d.channels, PowerOfTwoUp(Smaller(d.channels, 6 * d.connections)))
       ELSE WeightedGinChannels(d, me)[peer]

\* v2ChannelsForBytes.
ChannelsForBytes(bytes, minimum, maximum, step, network) ==
  LET minPart == Larger(1, IF network THEN step \div 2 ELSE step \div 8)
      maxPart == IF network THEN step ELSE step * 32
      first   == Larger(1, Smaller(minimum, DivUp(bytes, minPart)))
      Part(k) == IF k = 0 THEN Larger(minPart, DivUp(bytes, first))
                          ELSE DivUp(bytes, first * 2 ^ k)
      Grows(k) == Part(k) > maxPart /\ first * 2 ^ k <= maximum \div 2
  IN  IF bytes = 0 THEN 1
      ELSE first * 2 ^ (CHOOSE k \in 0 .. 6 : ~Grows(k) /\ \A j \in 0 .. k - 1 : Grows(j))

\* The part of lowerFixedTasks that chooses the number of parts of a stream.
PartCount(d, me, peer) ==
  LET network == Network(d, me, peer)
      maximum == Larger(1, Smaller(d.peerChannels[<<me, peer>>], d.channels))
      halvings == {maximum \div 2 ^ k : k \in 0 .. 6}
      minimum == Max({m \in halvings : m = 1 \/ (m # 0 /\ m * d.world <= d.channels)})
  IN  ChannelsForBytes(d.bytes[<<me, peer>>], minimum, maximum,
                       IF network THEN d.ginStep ELSE d.step, network)

\* v2ReverseBits of the lowest bits of a value.
ReverseBits(value, bits) ==
  FoldLeft(LAMBDA r, bit : 2 * r + ((value \div 2 ^ (bit - 1)) % 2), 0,
           [i \in 1 .. bits |-> i])

\* Mutant of LsaChannelBase: a rank counts from itself.
LsaChannelBaseFromMe(d, me, peer) ==
  ReverseBits(me * d.world + peer, CHOOSE bits \in 0 .. 6 : 2 ^ bits = d.channels)

\* v2LsaChannelBase.
LsaChannelBase(d, me, peer) ==
  ReverseBits(Smaller(me, peer) * d.world + Larger(me, peer),
              CHOOSE bits \in 0 .. 6 : 2 ^ bits = d.channels)

\* v2GinChannelBase.
GinChannelBase(d, me, peer, count) ==
  ((me + peer) % Larger(1, d.channels \div count)) * count

\* Mutant of PartBounds: the parts are as long as the alignment allows.
PartBoundsFloor(d, parts, part, bytes) ==
  LET size == ((bytes \div parts) \div d.alignment) * d.alignment
  IN  <<Smaller(part * size, bytes), Smaller((part + 1) * size, bytes)>>

\* v2PartBounds.
PartBounds(d, parts, part, bytes) ==
  LET size == DivUp(DivUp(bytes, parts), d.alignment) * d.alignment
  IN  <<Smaller(part * size, bytes), Smaller((part + 1) * size, bytes)>>

\* v2TransferStepBytes.
TransferStepBytes(bytes, step, network) ==
  IF ~network THEN step
  ELSE IF bytes < step THEN Larger(1, step \div 4)
  ELSE IF bytes < 8 * step THEN Larger(1, step \div 2)
  ELSE step
-----------------------------------------------------------------------------
(***************************************************************************)
(* Works: a chunk of one part of the stream with a peer.                   *)
(***************************************************************************)

\* v2AppendFragments: what of which task a work covers, at which of its bytes.
Fragments(lengths, work) ==
  LET Begin(i) == Total(SubSeq(lengths, 1, i - 1))
      past     == work.offset + work.bytes
      covered  == SetToSortSeq({i \in DOMAIN lengths :
                    /\ lengths[i] # 0
                    /\ work.offset < Begin(i) + lengths[i] /\ Begin(i) < past}, <)
      Fragment(i) ==
        LET from == Larger(Begin(i), work.offset)
        IN  [task |-> i, from |-> from - Begin(i), at |-> from - work.offset,
             bytes |-> Smaller(Begin(i) + lengths[i], past) - from]
  IN  [k \in DOMAIN covered |-> Fragment(covered[k])]

\* The works of the stream with one peer, in the order they are queued.
PeerWorks(d, me, peer) ==
  LET bytes   == d.bytes[<<me, peer>>]
      network == Network(d, me, peer)
      parts   == d.parts[<<me, peer>>]
      base    == IF network THEN GinChannelBase(d, me, peer, parts)
                            ELSE LsaChannelBase(d, me, peer)
      step    == TransferStepBytes(bytes, IF network THEN d.ginStep ELSE d.step, network)
      PartWorks(part) ==
        LET bounds == PartBounds(d, parts, part, bytes)
            length == bounds[2] - bounds[1]
            chosen == IF network THEN d.ginChunk ELSE d.chunk
            chunk  == IF chosen = 0 THEN length ELSE chosen
            count  == IF length = 0 THEN 0 ELSE DivUp(length, chunk)
        IN  [k \in 1 .. count |->
               [peer    |-> peer,
                channel |-> (base + part) % d.channels,
                offset  |-> bounds[1] + (k - 1) * chunk,
                bytes   |-> Smaller(chunk, length - (k - 1) * chunk),
                first   |-> 1 + (k - 1) * DivUp(chunk, step),
                step    |-> step,
                depth   |-> IF network THEN d.ginDepth ELSE d.depth,
                final   |-> k = count]]
  IN  IF bytes = 0 THEN <<>>
      ELSE Concat([i \in 1 .. parts |-> PartWorks(i - 1)])

\* Steps of a work, and the bytes of its k-th one.
WorkSteps(work) == DivUp(work.bytes, work.step)
SliceBytes(work, k) == Smaller(work.step, work.bytes - (k - 1) * work.step)
-----------------------------------------------------------------------------
(***************************************************************************)
(* Batches: works of different peers that the block of a channel runs at   *)
(* the same time, taken from the peers' queues round robin.                *)
(***************************************************************************)
\* Mutant of FillBatch: a peer's queue gives its newest work.
FillBatchNewest(state, peers, maxWorks) ==
  LET n       == Len(peers)
      scan    == [i \in 1 .. n |-> ((state.from + i - 1) % n) + 1]
      filled  == SelectSeq(scan, LAMBDA i : state.queues[peers[i]] # <<>>)
      taken   == SubSeq(filled, 1, Smaller(maxWorks, Len(filled)))
  IN  IF taken = <<>> THEN state
      ELSE [batches |-> Append(state.batches,
                          [k \in DOMAIN taken |-> Last(state.queues[peers[taken[k]]])]),
            queues  |-> [p \in DOMAIN state.queues |->
                           IF p \in {peers[i] : i \in ToSet(taken)}
                           THEN Front(state.queues[p]) ELSE state.queues[p]],
            from    |-> Last(taken) % n]

\* One batch: one scan of the peers, from the one after the last it took of.
FillBatch(state, peers, maxWorks) ==
  LET n       == Len(peers)
      scan    == [i \in 1 .. n |-> ((state.from + i - 1) % n) + 1]
      filled  == SelectSeq(scan, LAMBDA i : state.queues[peers[i]] # <<>>)
      taken   == SubSeq(filled, 1, Smaller(maxWorks, Len(filled)))
      peersOf == {peers[i] : i \in ToSet(taken)}
  IN  IF taken = <<>> THEN state
      ELSE [batches |-> Append(state.batches,
                          [k \in DOMAIN taken |-> Head(state.queues[peers[taken[k]]])]),
            queues  |-> [p \in DOMAIN state.queues |->
                           IF p \in peersOf THEN Tail(state.queues[p])
                                            ELSE state.queues[p]],
            from    |-> Last(taken) % n]

\* The batches of a channel, of whose works there is a queue per peer.
Batches(d, peers, works) ==
  FoldLeft(LAMBDA s, i : FillBatch(s, peers, d.maxWorks),
           [batches |-> <<>>, from |-> 0,
            queues  |-> [p \in ToSet(peers) |-> SelectSeq(works, LAMBDA w : w.peer = p)]],
           works).batches

\* lowerFixedTasks: the batches of every channel that has a work.
Schedule(d, me) ==
  LET peers == ActivePeers(d, me)
      works == Concat([i \in DOMAIN peers |-> d.works[<<me, peers[i]>>]])
      used  == {w.channel : w \in ToSet(works)}
  IN  [c \in used |-> Batches(d, peers, SelectSeq(works, LAMBDA w : w.channel = c))]

\* What the ranks compute on the way to their schedules, each step out of the
\* ones before it: the tasks of every end of a stream and the bytes they come
\* to, ...
WithTasks(d) ==
  d @@ [tasks |-> [e \in Ends(d) |-> Tasks(d, e[1], e[2])]]

WithBytes(d) ==
  d @@ [bytes |-> [e \in Ends(d) |->
                     Total([i \in DOMAIN d.tasks[e] |-> d.tasks[e][i].bytes])]]

\* ... the channels and the parts of it, ...
WithChannels(d) ==
  d @@ [peerChannels |-> [e \in Ends(d) |-> PeerChannels(d, e[1], e[2])]]

WithParts(d) == d @@ [parts |-> [e \in Ends(d) |-> PartCount(d, e[1], e[2])]]

\* ... and its works.
WithWorks(d) == d @@ [works |-> [e \in Ends(d) |-> PeerWorks(d, e[1], e[2])]]
-----------------------------------------------------------------------------
(***************************************************************************)
(* The window.                                                             *)
(***************************************************************************)

\* initialize_sparse_window: the payload slots of a window are numbered in
\* the order of the active peers, and only a sender, or a rank with GIN
\* peers, has any. -1 for a peer that has none.
PayloadSlot(d, owner, peer) ==
  LET holders == Ascending({p \in PeersOf(d, owner) : owner \in d.senders \/ Network(d, owner, p)})
  IN  IF \E i \in DOMAIN holders : holders[i] = peer
      THEN (CHOOSE i \in DOMAIN holders : holders[i] = peer) - 1
      ELSE -1

\* v2GinCreditBatch: how many steps a receiver consumes per credit message.
CreditBatch(d, me) ==
  IF Len(GinPeers(d, me)) > 1 THEN 1
  ELSE Smaller(4, Larger(1, d.ginDepth \div 2))
=============================================================================
