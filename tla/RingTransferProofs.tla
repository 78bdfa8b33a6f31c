------------------------- MODULE RingTransferProofs -------------------------
(***************************************************************************)
(* Proofs about RingTransfer, for every set of ranks, number of slots,     *)
(* segment counts and choice of multicast senders.                         *)
(***************************************************************************)
EXTENDS RingTransfer, TLAPS

-----------------------------------------------------------------------------
(***************************************************************************)
(* Blocks, slots and segments.                                             *)
(***************************************************************************)

\* The components of a slot, and of a receiver's block, which is a slot.
LEMMA SlotParts ==
  ASSUME NEW q \in Slots
  PROVE  /\ q = <<q[1], q[2], q[3]>>
         /\ q[1] \in Receivers /\ q[2] \in Senders /\ q[3] \in Lanes
         /\ q[1] \in Ranks /\ q[2] \in Ranks
         /\ Count[q[2]][q[1]] \in Nat
BY SizesAssumption DEF Slots, Ranks

\* A segment names a pair of ranks and one of the ordinals of their stream.
LEMMA SegmentParts ==
  /\ \A x \in Segments :
       /\ x = <<x[1], x[2], x[3]>>
       /\ x[1] \in Receivers /\ x[2] \in Senders /\ x[3] \in Nat
       /\ x[1] \in Ranks /\ x[2] \in Ranks
       /\ x[3] < Count[x[2]][x[1]]
  /\ \A r \in Receivers, s \in Senders, o \in Nat :
       o < Count[s][r] => <<r, s, o>> \in Segments
<1>1. ASSUME NEW x \in Segments
      PROVE  /\ x = <<x[1], x[2], x[3]>>
             /\ x[1] \in Receivers /\ x[2] \in Senders /\ x[3] \in Nat
             /\ x[1] \in Ranks /\ x[2] \in Ranks
             /\ x[3] < Count[x[2]][x[1]]
  <2>1. PICK p \in Receivers \X Senders :
          x \in {<<p[1], p[2], o>> : o \in 0 .. Count[p[2]][p[1]] - 1}
    BY <1>1 DEF Segments
  <2>2. PICK o \in 0 .. Count[p[2]][p[1]] - 1 : x = <<p[1], p[2], o>>
    BY <2>1
  <2>3. Count[p[2]][p[1]] \in Nat
    BY SizesAssumption
  <2> QED
    BY <2>2, <2>3 DEF Ranks
<1>2. ASSUME NEW r \in Receivers, NEW s \in Senders, NEW o \in Nat,
             o < Count[s][r]
      PROVE  <<r, s, o>> \in Segments
  <2>1. Count[s][r] \in Nat /\ o \in 0 .. Count[s][r] - 1
    BY <1>2, SizesAssumption
  <2>2. <<r, s>> \in Receivers \X Senders /\ <<r, s>>[1] = r /\ <<r, s>>[2] = s
    OBVIOUS
  <2> QED
    BY <2>1, <2>2 DEF Segments
<1> QED
  BY <1>1, <1>2

\* All targets of a stream have its number of segments.
LEMMA StreamCountOfTarget ==
  ASSUME NEW s \in Senders, NEW g \in Streams(s)
  PROVE  /\ g \subseteq Receivers
         /\ \E t \in g : TRUE
         /\ \A t \in g : /\ Count[s][t] = StreamCount(s, g)
                         /\ Count[s][t] > 0
<1>1. CASE s \in Multicast
  <2>1. g = Peers(s) /\ g # {}
    BY <1>1 DEF Streams
  <2>2. (CHOOSE r \in g : TRUE) \in g
    BY <2>1
  <2> QED
    BY <1>1, <2>1, <2>2, MulticastAssumption DEF Peers, StreamCount
<1>2. CASE s \notin Multicast
  <2>1. PICK r \in Peers(s) : g = {r}
    BY <1>2 DEF Streams
  <2>2. (CHOOSE u \in g : TRUE) = r
    BY <2>1
  <2> QED
    BY <2>1, <2>2 DEF Peers, StreamCount
<1> QED
  BY <1>1, <1>2

\* The components of a sender's block, and the slots of its targets.
LEMMA SendBlockParts ==
  ASSUME NEW b \in SendBlocks
  PROVE  /\ b = <<b[1], b[2], b[3]>>
         /\ b[1] \in Senders /\ b[1] \in Ranks /\ b[2] \in Streams(b[1])
         /\ b[2] \subseteq Receivers /\ b[2] \subseteq Ranks
         /\ b[3] \in Lanes
         /\ StreamCount(b[1], b[2]) \in Nat
         /\ \E t \in b[2] : TRUE
         /\ \A t \in b[2] :
              /\ SlotAt(b, t) \in RecvBlocks
              /\ Count[b[1]][t] = StreamCount(b[1], b[2])
<1>1. /\ b = <<b[1], b[2], b[3]>>
      /\ b[1] \in Senders /\ b[2] \in Streams(b[1]) /\ b[3] \in Lanes
  BY DEF SendBlocks
<1>2. /\ b[2] \subseteq Receivers
      /\ \E t \in b[2] : TRUE
      /\ \A t \in b[2] : /\ Count[b[1]][t] = StreamCount(b[1], b[2])
                         /\ Count[b[1]][t] > 0
  BY <1>1, StreamCountOfTarget
<1>3. StreamCount(b[1], b[2]) \in Nat
  BY <1>1, <1>2, SizesAssumption
<1>4. ASSUME NEW t \in b[2] PROVE SlotAt(b, t) \in RecvBlocks
  BY <1>1, <1>2 DEF SlotAt, RecvBlocks, Slots
<1> QED
  BY <1>1, <1>2, <1>3, <1>4 DEF Ranks

\* The stores of a block reach no slot of another block's target: streams of
\* one sender are disjoint, and what a multicast store reaches beyond its
\* targets is a slot without a reader.
LEMMA ReachedIsTarget ==
  ASSUME NEW b \in SendBlocks, NEW t \in Reached(b[1], b[2]),
         SlotAt(b, t) \in RecvBlocks
  PROVE  t \in b[2]
<1>1. Count[b[1]][t] > 0 /\ t \in Receivers
  BY DEF SlotAt, RecvBlocks, Slots
<1> QED
  BY <1>1, SendBlockParts DEF Reached, Streams, Peers

LEMMA OneBlockPerSlot ==
  ASSUME NEW b \in SendBlocks, NEW c \in SendBlocks,
         NEW t \in b[2], NEW u \in c[2], SlotAt(b, t) = SlotAt(c, u)
  PROVE  b = c
<1>1. t = u /\ b[1] = c[1] /\ b[3] = c[3]
  BY DEF SlotAt
<1>2. b[2] \in Streams(b[1]) /\ c[2] \in Streams(b[1])
  BY <1>1, SendBlockParts
<1>3. b[2] = c[2]
  <2>1. CASE b[1] \in Multicast
    BY <1>2, <2>1 DEF Streams
  <2>2. CASE b[1] \notin Multicast
    <3>1. PICK r \in Peers(b[1]) : b[2] = {r}
      BY <1>2, <2>2 DEF Streams
    <3>2. PICK q \in Peers(b[1]) : c[2] = {q}
      BY <1>2, <2>2 DEF Streams
    <3> QED
      BY <1>1, <3>1, <3>2
  <2> QED
    BY <2>1, <2>2
<1> QED
  BY <1>1, <1>3, SendBlockParts

\* Two ordinals of a lane are equal or at least SlotsPerPeer apart.
LEMMA LaneStep ==
  ASSUME NEW l \in Lanes, NEW o \in Nat, NEW p \in Nat,
         OfLane(o, l), OfLane(p, l)
  PROVE  /\ o < p + SlotsPerPeer => o <= p
         /\ OfLane(p + SlotsPerPeer, l)
         /\ l <= o
<1>1. PICK j \in 0 .. o : o = l + j * SlotsPerPeer
  BY DEF OfLane
<1>2. PICK k \in 0 .. p : p = l + k * SlotsPerPeer
  BY DEF OfLane
<1>3. SlotsPerPeer \in Nat \ {0} /\ l \in Nat
  BY SizesAssumption DEF Lanes
<1>4. p + SlotsPerPeer = l + (k + 1) * SlotsPerPeer
  BY <1>2, <1>3
<1>5. o < p + SlotsPerPeer => j < k + 1
  BY <1>1, <1>3, <1>4
<1>6. j < k + 1 => j * SlotsPerPeer <= k * SlotsPerPeer
  BY <1>3
<1>7. j * SlotsPerPeer >= 0 /\ k * SlotsPerPeer >= 0
  BY <1>3
<1>8. k + 1 \in 0 .. p + SlotsPerPeer
  BY <1>2, <1>3, <1>7
<1> QED
  BY <1>1, <1>2, <1>3, <1>4, <1>5, <1>6, <1>7, <1>8 DEF OfLane

\* An ordinal belongs to at most one lane.
LEMMA OneLane ==
  ASSUME NEW l \in Lanes, NEW m \in Lanes, NEW o \in Nat,
         OfLane(o, l), OfLane(o, m)
  PROVE  l = m
<1>1. PICK j \in 0 .. o : o = l + j * SlotsPerPeer
  BY DEF OfLane
<1>2. PICK k \in 0 .. o : o = m + k * SlotsPerPeer
  BY DEF OfLane
<1>3. /\ SlotsPerPeer \in Nat \ {0} /\ l \in Nat /\ m \in Nat
      /\ l < SlotsPerPeer /\ m < SlotsPerPeer
  BY SizesAssumption DEF Lanes
<1>4. ~ j < k
  <2> SUFFICES ASSUME j < k PROVE FALSE
    OBVIOUS
  <2>1. (j + 1) * SlotsPerPeer <= k * SlotsPerPeer
    BY <1>3
  <2>2. (j + 1) * SlotsPerPeer = j * SlotsPerPeer + SlotsPerPeer
    BY <1>3
  <2> QED
    BY <1>1, <1>2, <1>3, <2>1, <2>2
<1>5. ~ k < j
  <2> SUFFICES ASSUME k < j PROVE FALSE
    OBVIOUS
  <2>1. (k + 1) * SlotsPerPeer <= j * SlotsPerPeer
    BY <1>3
  <2>2. (k + 1) * SlotsPerPeer = k * SlotsPerPeer + SlotsPerPeer
    BY <1>3
  <2> QED
    BY <1>1, <1>2, <1>3, <2>1, <2>2
<1> QED
  BY <1>1, <1>2, <1>3, <1>4, <1>5

\* An ordinal belongs to the lane it leaves as a remainder.
LEMMA SomeLane ==
  ASSUME NEW o \in Nat
  PROVE  \E l \in Lanes : OfLane(o, l)
<1>1. SlotsPerPeer \in Nat \ {0}
  BY SizesAssumption
<1>2. o % SlotsPerPeer \in Lanes
  BY <1>1 DEF Lanes
<1>3. o = (o % SlotsPerPeer) + (o \div SlotsPerPeer) * SlotsPerPeer
  BY <1>1
<1>4. o \div SlotsPerPeer \in 0 .. o
  BY <1>1
<1> QED
  BY <1>2, <1>3, <1>4 DEF OfLane

-----------------------------------------------------------------------------
(***************************************************************************)
(* Every action preserves the types.                                       *)
(***************************************************************************)

\* Tickets of the program are tickets.
LEMMA TicketType ==
  ASSUME NEW n \in Sequences, NEW o \in Nat
  PROVE  /\ make_ticket(n, o) \in Ticket
         /\ make_ticket(n, o)[1] = n /\ make_ticket(n, o)[2] = o + 1
         /\ NoTicket \in Ticket /\ 0 \in Sequences
BY SizesAssumption DEF make_ticket, Ticket, NoTicket, Sequences

LEMMA TypeInit == Init => TypeOK
<1> SUFFICES ASSUME Init PROVE TypeOK
  OBVIOUS
<1>1. 0 \in Sequences /\ NoTicket \in Ticket
  BY SizesAssumption DEF Sequences, Ticket, NoTicket
<1> QED
  BY <1>1 DEF Init, TypeOK, HostPC, SendPC, RecvPC

LEMMA TypeNext == TypeOK /\ [Next]_vars => TypeOK'
<1> SUFFICES ASSUME TypeOK, [Next]_vars PROVE TypeOK'
  OBVIOUS
<1>1. ASSUME NEW r \in Ranks, Launch(r) PROVE TypeOK'
  <2>1. sequence[r] + 1 \in Sequences
    BY <1>1, SizesAssumption DEF Launch, TypeOK, Sequences
  <2>2. \A b \in SendBlocks : b[3] \in Nat /\ {r} \cup b[2] \in SUBSET Ranks
    BY SendBlockParts, SizesAssumption DEF Lanes
  <2>3. \A b \in RecvBlocks : b[3] \in Nat /\ {r, b[2]} \in SUBSET Ranks
    BY SlotParts, SizesAssumption DEF Lanes, RecvBlocks
  <2>4. /\ host' \in [Ranks -> HostPC]
        /\ sequence' \in [Ranks -> Sequences]
        /\ error' \in [Ranks -> {0, 1}]
    BY <1>1, <2>1 DEF Launch, TypeOK, HostPC
  <2>5. /\ spc' \in [SendBlocks -> SendPC]
        /\ sord' \in [SendBlocks -> Nat]
        /\ swait' \in [SendBlocks -> SUBSET Ranks]
    BY <1>1, <2>2 DEF Launch, TypeOK, SendPC
  <2>6. /\ rpc' \in [RecvBlocks -> RecvPC]
        /\ rord' \in [RecvBlocks -> Nat]
        /\ rwait' \in [RecvBlocks -> SUBSET Ranks]
    BY <1>1, <2>3 DEF Launch, TypeOK, RecvPC
  <2> QED
    BY <1>1, <2>4, <2>5, <2>6 DEF Launch, TypeOK
<1>2. ASSUME NEW r \in Ranks, PublishEpoch(r) \/ KernelEnd(r) \/ BarrierExit(r)
      PROVE TypeOK'
  BY <1>2 DEF PublishEpoch, KernelEnd, BarrierExit, TypeOK, HostPC,
              hostVars, slotVars, sendVars, recvVars
<1>3. ASSUME NEW b \in SendBlocks, NEW t \in swait[b],
             SEpoch(b, t) \/ SFree(b, t) \/ SDrain(b, t)
      PROVE TypeOK'
  <2>1. b[2] \in SUBSET Ranks
    BY SendBlockParts
  <2> QED
    BY <1>3, <2>1 DEF SEpoch, SFree, SDrain, SSeen, TypeOK, SendPC,
              hostVars, slotVars, sendVars, recvVars
<1>4. ASSUME NEW b \in SendBlocks, SCopy(b) \/ SPublish(b) \/ SAbort(b)
      PROVE TypeOK'
  <2>1. b[2] \in SUBSET Ranks /\ b[1] \in Ranks
    BY SendBlockParts
  <2>2. STicket(b) \in Ticket
    BY <2>1, TicketType DEF STicket, TypeOK
  <2>3. SlotsPerPeer \in Nat
    BY SizesAssumption
  <2>4. CASE SCopy(b)
    BY <2>2, <2>4 DEF SCopy, TypeOK, SendPC, hostVars, slotVars, sendVars, recvVars
  <2>5. CASE SPublish(b)
    BY <2>1, <2>2, <2>3, <2>5
       DEF SPublish, TypeOK, SendPC, hostVars, slotVars, sendVars, recvVars
  <2>6. CASE SAbort(b)
    BY <2>1, <2>6 DEF SAbort, TypeOK, SendPC, hostVars, slotVars, sendVars, recvVars
  <2> QED
    BY <1>4, <2>4, <2>5, <2>6
<1>5. ASSUME NEW b \in RecvBlocks, NEW t \in rwait[b], REpoch(b, t)
      PROVE TypeOK'
  BY <1>5 DEF REpoch, TypeOK, RecvPC, hostVars, slotVars, sendVars, recvVars
<1>6. ASSUME NEW b \in RecvBlocks,
             RReady(b) \/ RCopy(b) \/ RConsume(b) \/ RAbort(b)
      PROVE TypeOK'
  <2>1. b \in Slots /\ b[1] \in Ranks
    BY SlotParts DEF RecvBlocks
  <2>2. RTicket(b) \in Ticket
    BY <2>1, TicketType DEF RTicket, TypeOK
  <2>3. SlotsPerPeer \in Nat
    BY SizesAssumption
  <2>4. CASE RReady(b)
    BY <2>4 DEF RReady, TypeOK, RecvPC, hostVars, slotVars, sendVars, recvVars
  <2>5. CASE RCopy(b)
    BY <2>1, <2>5 DEF RCopy, TypeOK, RecvPC, hostVars, slotVars, sendVars, recvVars
  <2>6. CASE RConsume(b)
    BY <2>1, <2>2, <2>3, <2>6
       DEF RConsume, TypeOK, RecvPC, hostVars, slotVars, sendVars, recvVars
  <2>7. CASE RAbort(b)
    BY <2>1, <2>7 DEF RAbort, TypeOK, RecvPC, hostVars, slotVars, sendVars, recvVars
  <2> QED
    BY <1>6, <2>4, <2>5, <2>6, <2>7
<1>7. CASE UNCHANGED vars
  BY <1>7 DEF vars, TypeOK
<1> QED
  BY <1>1, <1>2, <1>3, <1>4, <1>5, <1>6, <1>7
     DEF Next, HostStep, SendStep, RecvStep

\* Every state of every behaviour of the transport is of the declared types.
THEOREM TypeCorrect == Spec => []TypeOK
<1>1. Init => TypeOK
  BY TypeInit
<1>2. TypeOK /\ [Next]_vars => TypeOK'
  BY TypeNext
<1> QED
  BY <1>1, <1>2, PTL DEF Spec

-----------------------------------------------------------------------------
(***************************************************************************)
(* The inductive invariant. What a step leaves alone is framed by two      *)
(* lemmas; then one lemma per action shows the conjuncts it can disturb.   *)
(***************************************************************************)

\* An action leaves a rank's host alone, but for setting the error word.
HostSame(r) ==
  /\ host'[r] = host[r]
  /\ sequence'[r] = sequence[r]
  /\ error[r] # 0 => error'[r] # 0

SlotSame(q) ==
  ready'[q] = ready[q] /\ consumed'[q] = consumed[q] /\ data'[q] = data[q]

SendSame(b) == spc'[b] = spc[b] /\ sord'[b] = sord[b] /\ swait'[b] = swait[b]

RecvSame(b) == rpc'[b] = rpc[b] /\ rord'[b] = rord[b]

\* Everything the parts of the invariant are compared by is a number.
LEMMA TypeFacts ==
  ASSUME TypeOK
  PROVE  /\ \A r \in Ranks : sequence[r] \in Nat
         /\ \A q \in Slots : /\ consumed[q] \in Ticket
                             /\ consumed[q][1] \in Nat /\ consumed[q][2] \in Nat
         /\ \A x \in Segments : tensor[x][1] \in Nat
         /\ \A b \in SendBlocks : sord[b] \in Nat
         /\ \A b \in RecvBlocks : rord[b] \in Nat
<1>1. \A k \in Ticket : k[1] \in Nat /\ k[2] \in Nat
  BY SizesAssumption DEF Ticket, Sequences
<1> QED
  BY <1>1, SizesAssumption DEF TypeOK, Sequences

\* A receiver's block is a slot of two ranks.
LEMMA RecvBlockParts ==
  ASSUME NEW b \in RecvBlocks
  PROVE  /\ b \in Slots /\ b = <<b[1], b[2], b[3]>>
         /\ b[1] \in Ranks /\ b[1] \in Receivers /\ b[2] \in Senders
         /\ b[3] \in Lanes /\ b[3] \in Nat
         /\ Count[b[2]][b[1]] \in Nat
BY SlotParts, SizesAssumption DEF RecvBlocks, Lanes

\* A sender's block keeps its invariant when its host, itself and its targets'
\* slots are left alone and no tensor goes back.
LEMMA SendFrame ==
  ASSUME IInv, TypeOK', NEW b \in SendBlocks, HostSame(b[1]), SendSame(b),
         \A t \in b[2] : SlotSame(SlotAt(b, t)),
         \A x \in Segments : tensor[x][1] <= tensor'[x][1]
  PROVE  SendInv(b)'
<1>1. SendInv(b) /\ TypeOK
  BY DEF IInv
<1>2. b[1] \in Ranks /\ sequence[b[1]] \in Nat
  BY <1>1, SendBlockParts, TypeFacts
<1>3. \A x \in Segments : tensor[x][1] \in Nat /\ tensor'[x][1] \in Nat
  <2>1. \A k \in Ticket : k[1] \in Nat
    BY SizesAssumption DEF Ticket, Sequences
  <2> QED
    BY <1>1, <2>1 DEF TypeOK
<1>4. SenderOwnsSlots(b)'
  BY <1>1 DEF SendInv, SenderOwnsSlots, SlotAt, Free, STicket, HostSame,
              SendSame, SlotSame
<1>5. SendProgress(b)'
  BY <1>1 DEF SendInv, SendProgress, SlotAt, Free, STicket, HostSame,
              SendSame, SlotSame
<1>6. AcknowledgedIsDelivered(b)'
  <2> SUFFICES ASSUME NEW t \in b[2], Acknowledged(b, t)'
      PROVE /\ Free(SlotAt(b, t))'
            /\ \A x \in Segments :
                 Handles(SlotAt(b, t), x)' => tensor'[x][1] >= sequence'[b[1]]
    BY DEF AcknowledgedIsDelivered
  <2>1. Acknowledged(b, t)
    BY DEF Acknowledged, HostSame, SendSame
  <2>2. /\ Free(SlotAt(b, t))
        /\ \A x \in Segments :
             Handles(SlotAt(b, t), x) => tensor[x][1] >= sequence[b[1]]
    BY <1>1, <2>1 DEF SendInv, AcknowledgedIsDelivered
  <2>3. Free(SlotAt(b, t))'
    BY <2>2 DEF Free, SlotSame, SlotAt
  <2>4. ASSUME NEW x \in Segments, Handles(SlotAt(b, t), x)'
        PROVE  tensor'[x][1] >= sequence'[b[1]]
    <3>1. Handles(SlotAt(b, t), x)
      BY <2>4 DEF Handles, SlotAt, OfLane
    <3> QED
      BY <1>2, <1>3, <2>2, <3>1 DEF HostSame
  <2> QED
    BY <2>3, <2>4
<1> QED
  BY <1>4, <1>5, <1>6 DEF SendInv

\* A receiver's block keeps its invariant when its host, itself, its slot and
\* its lane's segments are left alone.
LEMMA RecvFrame ==
  ASSUME IInv, NEW b \in RecvBlocks, HostSame(b[1]), RecvSame(b), SlotSame(b),
         \A x \in Segments : Handles(b, x) => tensor'[x] = tensor[x]
  PROVE  RecvInv(b)'
<1>1. RecvInv(b)
  BY DEF IInv
<1>2. FullSlotIsFilled(b)' /\ ReaderOwnsSlot(b)'
  BY <1>1 DEF RecvInv, FullSlotIsFilled, ReaderOwnsSlot, Free, RTicket,
              HostSame, RecvSame, SlotSame
<1>3. ConsumedIsPast(b)' /\ RecvProgress(b)'
  BY <1>1 DEF RecvInv, ConsumedIsPast, RecvProgress, HostSame, RecvSame, SlotSame
<1>4. LaneIsCopied(b)'
  BY <1>1 DEF RecvInv, LaneIsCopied, Handles, HostSame, RecvSame, SlotSame
<1>5. ConsumedIsCopied(b)'
  BY <1>1 DEF RecvInv, ConsumedIsCopied, Handles, HostSame, SlotSame
<1> QED
  BY <1>2, <1>3, <1>4, <1>5 DEF RecvInv

LEMMA InvInit == Init => IInv
<1> SUFFICES ASSUME Init PROVE IInv
  OBVIOUS
<1>1. TypeOK
  BY TypeInit
<1>2. \A q \in Slots : ready[q] = NoTicket /\ consumed[q] = NoTicket
  BY DEF Init
<1>3. NoTicket[1] = 0 /\ NoTicket[2] = 0
  BY DEF NoTicket
<1>4. \A r \in Ranks : host[r] = "idle" /\ sequence[r] = 0
  BY DEF Init
<1>5. ASSUME NEW b \in SendBlocks PROVE SendInv(b)
  <2>1. b[1] \in Ranks /\ \A t \in b[2] : SlotAt(b, t) \in Slots
    BY SendBlockParts, RecvBlockParts
  <2>2. spc[b] = "exit"
    BY DEF Init
  <2>3. SenderOwnsSlots(b)
    BY <1>2, <2>1, <2>2 DEF SenderOwnsSlots
  <2>4. SendProgress(b)
    BY <1>2, <1>4, <2>1, <2>2 DEF SendProgress, Free
  <2>5. AcknowledgedIsDelivered(b)
    BY <1>4, <2>1, <2>2 DEF AcknowledgedIsDelivered, Acknowledged
  <2> QED
    BY <2>3, <2>4, <2>5 DEF SendInv
<1>6. ASSUME NEW b \in RecvBlocks PROVE RecvInv(b)
  <2>1. b \in Slots /\ b[1] \in Ranks
    BY RecvBlockParts
  <2>2. rpc[b] = "exit" /\ rord[b] = 0
    BY DEF Init
  <2>3. \A x \in Segments : x[3] \in Nat
    BY SegmentParts
  <2>4. FullSlotIsFilled(b) /\ ReaderOwnsSlot(b)
    BY <1>2, <2>1, <2>2 DEF FullSlotIsFilled, ReaderOwnsSlot, Free
  <2>5. ConsumedIsPast(b) /\ RecvProgress(b)
    BY <1>2, <1>3, <1>4, <2>1, <2>2 DEF ConsumedIsPast, RecvProgress
  <2>6. LaneIsCopied(b)
    BY <1>4, <2>1, <2>2, <2>3 DEF LaneIsCopied
  <2>7. ConsumedIsCopied(b)
    BY <1>2, <1>3, <2>1, <2>3 DEF ConsumedIsCopied
  <2> QED
    BY <2>4, <2>5, <2>6, <2>7 DEF RecvInv
<1>7. ASSUME NEW x \in Segments PROVE TensorNotAhead(x)
  <2>1. tensor[x] = NoTicket /\ x[1] \in Ranks
    BY SegmentParts DEF Init
  <2> QED
    BY <1>3, <1>4, <2>1 DEF TensorNotAhead
<1> QED
  BY <1>1, <1>5, <1>6, <1>7 DEF IInv

\* Launch: the blocks of r start their lanes; no other rank sees a difference.
LEMMA LaunchInv ==
  ASSUME IInv, TypeOK', NEW r \in Ranks, Launch(r)
  PROVE  IInv'
<1>1. /\ host[r] # "kernel"
      /\ \A q \in Ranks :
           /\ sequence[q] \in Nat
           /\ sequence'[q] = IF q = r THEN sequence[q] + 1 ELSE sequence[q]
           /\ host'[q] = IF q = r THEN "kernel" ELSE host[q]
           /\ error'[q] = IF q = r THEN 0 ELSE error[q]
           /\ q # r => HostSame(q)
  BY TypeFacts DEF Launch, IInv, TypeOK, HostSame
<1>2. /\ UNCHANGED <<ready, consumed, data, tensor>>
      /\ \A q \in Slots : SlotSame(q)
  BY DEF Launch, SlotSame
<1>3. ASSUME NEW b \in SendBlocks PROVE SendInv(b)'
  <2>1. /\ b[1] \in Ranks /\ b[3] \in Nat /\ b[3] \in Lanes
        /\ \A t \in b[2] : SlotAt(b, t) \in Slots
    BY SendBlockParts, RecvBlockParts, SizesAssumption DEF Lanes
  <2>2. CASE b[1] # r
    <3>1. SendSame(b)
      BY <2>2 DEF Launch, SendSame
    <3>2. \A x \in Segments : tensor[x][1] <= tensor'[x][1]
      BY <1>2, TypeFacts DEF IInv
    <3> QED
      BY <1>1, <1>2, <2>1, <2>2, <3>1, <3>2, SendFrame
  <2>3. CASE b[1] = r
    <3>1. spc'[b] = "epoch" /\ sord'[b] = b[3]
      BY <2>3 DEF Launch
    <3>2. SendProgress(b)
      BY DEF IInv, SendInv
    <3>3. SenderOwnsSlots(b)'
      BY <3>1 DEF SenderOwnsSlots
    <3>4. OfLane(b[3], b[3])
      BY <2>1, SizesAssumption DEF OfLane
    <3>5. SendProgress(b)'
      BY <1>1, <1>2, <2>1, <2>3, <3>1, <3>2, <3>4 DEF SendProgress, Free
    <3>6. AcknowledgedIsDelivered(b)'
      BY <3>1 DEF AcknowledgedIsDelivered, Acknowledged
    <3> QED
      BY <3>3, <3>5, <3>6 DEF SendInv
  <2> QED
    BY <2>2, <2>3
<1>4. ASSUME NEW b \in RecvBlocks PROVE RecvInv(b)'
  <2>1. b \in Slots /\ b[1] \in Ranks /\ b[3] \in Lanes /\ b[3] \in Nat
    BY RecvBlockParts
  <2>2. CASE b[1] # r
    <3>1. RecvSame(b)
      BY <2>2 DEF Launch, RecvSame
    <3> QED
      BY <1>1, <1>2, <2>1, <2>2, <3>1, RecvFrame
  <2>3. CASE b[1] = r
    <3>1. rpc'[b] = "epoch" /\ rord'[b] = b[3]
      BY <2>3 DEF Launch
    <3>2. RecvInv(b) /\ TypeOK
      BY DEF IInv
    <3>3. FullSlotIsFilled(b)' /\ ReaderOwnsSlot(b)'
      BY <1>2, <3>1, <3>2 DEF RecvInv, FullSlotIsFilled, ReaderOwnsSlot, Free
    <3>4. ConsumedIsPast(b)'
      BY <1>1, <1>2, <2>1, <2>3, <3>2, TypeFacts DEF RecvInv, ConsumedIsPast
    <3>5. OfLane(b[3], b[3])
      BY <2>1, SizesAssumption DEF OfLane
    <3>6. \A x \in Segments : OfLane(x[3], b[3]) => x[3] \in Nat /\ b[3] <= x[3]
      BY <2>1, <3>5, LaneStep, SegmentParts
    <3>7. LaneIsCopied(b)'
      BY <2>1, <3>1, <3>5, <3>6 DEF LaneIsCopied, Handles, OfLane
    <3>8. RecvProgress(b)'
      BY <1>1, <2>1, <2>3, <3>1 DEF RecvProgress
    <3>9. ConsumedIsCopied(b)'
      BY <1>2, <3>2 DEF RecvInv, ConsumedIsCopied, Handles
    <3> QED
      BY <3>3, <3>4, <3>7, <3>8, <3>9 DEF RecvInv
  <2> QED
    BY <2>2, <2>3
<1>5. ASSUME NEW x \in Segments PROVE TensorNotAhead(x)'
  <2>1. x[1] \in Ranks /\ tensor[x][1] \in Nat /\ TensorNotAhead(x)
    BY SegmentParts, TypeFacts DEF IInv
  <2> QED
    BY <1>1, <1>2, <2>1 DEF TensorNotAhead
<1> QED
  BY <1>3, <1>4, <1>5 DEF IInv

\* PublishEpoch, KernelEnd, BarrierExit: a rank leaves its kernel only when all
\* its blocks have exited, and enters the barrier only without an error.
LEMMA HostInv ==
  ASSUME IInv, TypeOK', NEW r \in Ranks,
         PublishEpoch(r) \/ KernelEnd(r) \/ BarrierExit(r)
  PROVE  IInv'
<1>1. /\ UNCHANGED <<sequence, error, ready, consumed, data, spc, sord, swait,
                     rpc, rord, tensor>>
      /\ \A q \in Ranks \ {r} : host'[q] = host[q]
      /\ \/ host'[r] = host[r]
         \/ /\ host[r] = "kernel" /\ BlocksExited(r)
            /\ \/ host'[r] = "failed"
               \/ host'[r] = "barrier" /\ error[r] = 0
         \/ host[r] = "barrier" /\ host'[r] = "idle"
  BY DEF PublishEpoch, KernelEnd, BarrierExit, IInv, TypeOK, hostVars,
         slotVars, sendVars, recvVars
<1>2. /\ \A q \in Slots : SlotSame(q)
      /\ \A x \in Segments : tensor[x][1] <= tensor'[x][1]
  BY <1>1, TypeFacts DEF SlotSame, IInv
<1>3. \A q \in Ranks : q # r \/ host'[q] = host[q] => HostSame(q)
  BY <1>1 DEF HostSame
<1>4. ASSUME NEW b \in SendBlocks PROVE SendInv(b)'
  <2>1. /\ b[1] \in Ranks /\ SendSame(b)
        /\ \A t \in b[2] : SlotSame(SlotAt(b, t))
    BY <1>1, <1>2, SendBlockParts, RecvBlockParts DEF SendSame
  <2>2. CASE b[1] # r \/ host'[r] = host[r]
    BY <1>2, <1>3, <2>1, <2>2, SendFrame
  <2>3. CASE b[1] = r /\ host'[r] # host[r]
    <3>1. SendInv(b) /\ TypeOK
      BY DEF IInv
    <3>2. spc[b] = "exit"
      BY <1>1, <2>3, <3>1 DEF BlocksExited, SendInv, SendProgress
    <3>3. SenderOwnsSlots(b)'
      BY <1>1, <3>2 DEF SenderOwnsSlots
    <3>4. SendProgress(b)'
      BY <1>1, <2>3, <3>1, <3>2 DEF SendInv, SendProgress, Free
    <3>5. AcknowledgedIsDelivered(b)'
      BY <1>1, <2>3, <3>1, <3>2
         DEF SendInv, AcknowledgedIsDelivered, Acknowledged, Free, Handles
    <3> QED
      BY <3>3, <3>4, <3>5 DEF SendInv
  <2> QED
    BY <2>2, <2>3
<1>5. ASSUME NEW b \in RecvBlocks PROVE RecvInv(b)'
  <2>1. b \in Slots /\ b[1] \in Ranks /\ RecvSame(b)
    BY <1>1, RecvBlockParts DEF RecvSame
  <2>2. CASE b[1] # r \/ host'[r] = host[r]
    BY <1>1, <1>2, <1>3, <2>1, <2>2, RecvFrame
  <2>3. CASE b[1] = r /\ host'[r] # host[r]
    <3>1. RecvInv(b)
      BY DEF IInv
    <3>2. rpc[b] = "exit"
      BY <1>1, <2>3, <3>1 DEF BlocksExited, RecvInv, RecvProgress
    <3>3. FullSlotIsFilled(b)' /\ ReaderOwnsSlot(b)' /\ ConsumedIsPast(b)'
      BY <1>1, <3>1, <3>2
         DEF RecvInv, FullSlotIsFilled, ReaderOwnsSlot, ConsumedIsPast, Free
    <3>4. LaneIsCopied(b)' /\ ConsumedIsCopied(b)'
      BY <1>1, <3>1 DEF RecvInv, LaneIsCopied, ConsumedIsCopied, Handles
    <3>5. RecvProgress(b)'
      BY <1>1, <2>3, <3>1, <3>2 DEF RecvInv, RecvProgress
    <3> QED
      BY <3>3, <3>4, <3>5 DEF RecvInv
  <2> QED
    BY <2>2, <2>3
<1>6. \A x \in Segments : TensorNotAhead(x)'
  BY <1>1 DEF IInv, TensorNotAhead
<1> QED
  BY <1>4, <1>5, <1>6 DEF IInv

\* What the steps of a sender's block share: hosts keep running, tensors and
\* receivers' blocks stay as they are, and so do the other blocks of senders.
LEMMA SendStepFrame ==
  ASSUME IInv, TypeOK', NEW b \in SendBlocks,
         UNCHANGED <<host, sequence, rpc, rord, tensor>>,
         \A r \in Ranks : error[r] # 0 => error'[r] # 0,
         \A c \in SendBlocks \ {b} : SendSame(c),
         \A q \in RecvBlocks :
           (\A t \in b[2] : q # SlotAt(b, t)) => SlotSame(q),
         SendInv(b)',
         \A t \in b[2] : SlotSame(SlotAt(b, t)) \/ RecvInv(SlotAt(b, t))'
  PROVE  IInv'
<1>1. \A r \in Ranks : HostSame(r)
  BY DEF HostSame
<1>2. \A x \in Segments : tensor[x][1] <= tensor'[x][1]
  BY TypeFacts DEF IInv
<1>3. ASSUME NEW c \in SendBlocks PROVE SendInv(c)'
  <2>1. CASE c = b
    BY <2>1
  <2>2. CASE c # b
    <3>1. ASSUME NEW u \in c[2] PROVE SlotSame(SlotAt(c, u))
      <4>1. \A t \in b[2] : SlotAt(c, u) # SlotAt(b, t)
        BY <2>2, OneBlockPerSlot
      <4> QED
        BY <4>1, SendBlockParts
    <3>2. c[1] \in Ranks
      BY SendBlockParts
    <3> QED
      BY <1>1, <1>2, <2>2, <3>1, <3>2, SendFrame
  <2> QED
    BY <2>1, <2>2
<1>4. ASSUME NEW q \in RecvBlocks PROVE RecvInv(q)'
  <2>1. CASE SlotSame(q)
    <3>1. q[1] \in Ranks /\ RecvSame(q)
      BY RecvBlockParts DEF RecvSame
    <3> QED
      BY <1>1, <2>1, <3>1, RecvFrame
  <2>2. CASE ~SlotSame(q)
    BY <2>2
  <2> QED
    BY <2>1, <2>2
<1>5. \A x \in Segments : TensorNotAhead(x)'
  BY DEF IInv, TensorNotAhead
<1> QED
  BY <1>3, <1>4, <1>5 DEF IInv

\* SEpoch, SFree, SDrain, SAbort: the waits of a sender's block.
LEMMA SendWaitInv ==
  ASSUME IInv, TypeOK', NEW b \in SendBlocks, NEW t \in swait[b],
         SEpoch(b, t) \/ SFree(b, t) \/ SDrain(b, t)
  PROVE  IInv'
<1>1. /\ UNCHANGED <<host, sequence, error, ready, consumed, data, sord, rpc, rord,
                     tensor>>
      /\ \A c \in SendBlocks \ {b} : SendSame(c)
      /\ \A q \in RecvBlocks : SlotSame(q)
  BY DEF SEpoch, SFree, SDrain, SSeen, IInv, TypeOK, hostVars, slotVars,
         recvVars, SendSame, SlotSame
<1>2. /\ SendInv(b) /\ TypeOK
      /\ b[1] \in Ranks /\ sequence[b[1]] \in Nat /\ sord[b] \in Nat
      /\ StreamCount(b[1], b[2]) \in Nat /\ b[3] \in Lanes
      /\ \A u \in b[2] : SlotAt(b, u) \in RecvBlocks /\ SlotAt(b, u) \in Slots
  BY SendBlockParts, RecvBlockParts, TypeFacts DEF IInv
<1> SUFFICES SendInv(b)'
  BY <1>1, <1>2, SendStepFrame
<1>3. CASE SEpoch(b, t)
  <2>1. CASE spc'[b] = "epoch"
    <3>1. SenderOwnsSlots(b)'
      BY <2>1 DEF SenderOwnsSlots
    <3>2. SendProgress(b)'
      BY <1>1, <1>2, <1>3, <2>1 DEF SEpoch, SendInv, SendProgress, Free
    <3>3. AcknowledgedIsDelivered(b)'
      BY <2>1 DEF AcknowledgedIsDelivered, Acknowledged
    <3> QED
      BY <3>1, <3>2, <3>3 DEF SendInv
  <2>2. CASE spc'[b] = "free"
    <3>1. sord[b] < StreamCount(b[1], b[2]) /\ swait'[b] = b[2]
      BY <1>2, <1>3, <2>2 DEF SEpoch, SSeen, TypeOK
    <3>2. SenderOwnsSlots(b)'
      BY <2>2, <3>1 DEF SenderOwnsSlots
    <3>3. SendProgress(b)'
      BY <1>1, <1>2, <1>3, <2>2, <3>1 DEF SEpoch, SendInv, SendProgress, Free
    <3>4. AcknowledgedIsDelivered(b)'
      BY <2>2 DEF AcknowledgedIsDelivered, Acknowledged
    <3> QED
      BY <3>2, <3>3, <3>4 DEF SendInv
  <2>3. CASE spc'[b] = "exit"
    <3>1. ~(sord[b] < StreamCount(b[1], b[2])) /\ sord[b] = b[3]
      BY <1>2, <1>3, <2>3 DEF SEpoch, SSeen, TypeOK, SendInv, SendProgress
    <3>2. SenderOwnsSlots(b)'
      BY <2>3 DEF SenderOwnsSlots
    <3>3. SendProgress(b)'
      BY <1>1, <1>2, <1>3, <2>3, <3>1 DEF SEpoch, SendInv, SendProgress, Free
    <3>4. \A u \in b[2] : Free(SlotAt(b, u))
      BY <1>2, <3>1 DEF SendInv, SendProgress
    <3>5. ASSUME NEW u \in b[2], NEW x \in Segments PROVE ~Handles(SlotAt(b, u), x)
      <4>1. /\ Count[b[1]][u] = StreamCount(b[1], b[2])
            /\ x[3] < Count[x[2]][x[1]] /\ x[3] \in Nat
        BY SendBlockParts, SegmentParts
      <4>2. OfLane(b[3], b[3])
        BY <1>2, <3>1, SizesAssumption DEF OfLane
      <4>3. OfLane(x[3], b[3]) => b[3] <= x[3]
        BY <1>2, <3>1, <4>1, <4>2, LaneStep
      <4> QED
        BY <1>2, <3>1, <4>1, <4>3 DEF Handles, SlotAt
    <3>6. AcknowledgedIsDelivered(b)'
      BY <1>1, <3>4, <3>5 DEF AcknowledgedIsDelivered, Free, Handles, SlotAt
    <3> QED
      BY <3>2, <3>3, <3>6 DEF SendInv
  <2> QED
    BY <1>2, <1>3, <2>1, <2>2, <2>3 DEF SEpoch, SSeen, TypeOK
<1>4. CASE SFree(b, t)
  <2>1. /\ spc[b] = "free" /\ Free(SlotAt(b, t))
        /\ \/ spc'[b] = "free" /\ swait'[b] = swait[b] \ {t}
           \/ spc'[b] = "copy" /\ swait[b] = {t}
    BY <1>2, <1>4 DEF SFree, SSeen, TypeOK, Free
  <2>2. SenderOwnsSlots(b)'
    BY <1>1, <1>2, <2>1 DEF SendInv, SenderOwnsSlots, Free
  <2>3. SendProgress(b)'
    BY <1>1, <1>2, <2>1 DEF SendInv, SendProgress, Free
  <2>4. AcknowledgedIsDelivered(b)'
    BY <2>1 DEF AcknowledgedIsDelivered, Acknowledged
  <2> QED
    BY <2>2, <2>3, <2>4 DEF SendInv
<1>5. CASE SDrain(b, t)
  <2>1. /\ spc[b] = "drain" /\ consumed[SlotAt(b, t)] = STicket(b)
        /\ sord[b] < StreamCount(b[1], b[2])
        /\ \/ spc'[b] = "drain" /\ swait'[b] = swait[b] \ {t}
           \/ spc'[b] = "exit" /\ swait[b] = {t}
    BY <1>2, <1>5 DEF SDrain, SSeen, TypeOK, SendInv, SendProgress
  <2>2. SenderOwnsSlots(b)'
    BY <2>1 DEF SenderOwnsSlots
  <2>3. SendProgress(b)'
    BY <1>1, <1>2, <2>1 DEF SendInv, SendProgress, Free, STicket
  <2>4. t \in b[2] => Free(SlotAt(b, t))
    BY <1>2, <2>1 DEF SendInv, SendProgress, Free
  <2>5. ASSUME NEW x \in Segments, t \in b[2], Handles(SlotAt(b, t), x)
        PROVE  tensor[x][1] >= sequence[b[1]]
    <3>1. /\ Count[b[1]][t] = StreamCount(b[1], b[2])
          /\ x[3] < Count[x[2]][x[1]] /\ x[3] \in Nat /\ OfLane(x[3], b[3])
          /\ x[2] = b[1] /\ x[1] = t
      BY <2>5, SendBlockParts, SegmentParts DEF Handles, SlotAt
    <3>2. SlotsPerPeer \in Nat
      BY SizesAssumption
    <3>3. x[3] < sord[b] + SlotsPerPeer
      BY <1>2, <2>1, <3>1, <3>2 DEF SendInv, SendProgress
    <3>4. x[3] <= sord[b]
      BY <1>2, <2>1, <3>1, <3>3, LaneStep DEF SendInv, SendProgress
    <3>5. consumed[SlotAt(b, t)] = <<sequence[b[1]], sord[b] + 1>>
      BY <2>1 DEF STicket, make_ticket
    <3> QED
      BY <1>2, <2>5, <3>1, <3>4, <3>5 DEF IInv, RecvInv, ConsumedIsCopied
  <2>6. AcknowledgedIsDelivered(b)'
    <3> SUFFICES ASSUME NEW u \in b[2], Acknowledged(b, u)'
                 PROVE  /\ Free(SlotAt(b, u))'
                        /\ \A x \in Segments :
                             Handles(SlotAt(b, u), x)' => tensor'[x][1] >= sequence'[b[1]]
      BY DEF AcknowledgedIsDelivered
    <3>1. u = t \/ Acknowledged(b, u)
      BY <2>1 DEF Acknowledged
    <3>2. /\ Free(SlotAt(b, u))
          /\ \A x \in Segments :
               Handles(SlotAt(b, u), x) => tensor[x][1] >= sequence[b[1]]
      BY <1>2, <2>4, <2>5, <3>1 DEF SendInv, AcknowledgedIsDelivered
    <3> QED
      BY <1>1, <3>2 DEF Free, Handles, SlotAt, OfLane
  <2> QED
    BY <2>2, <2>3, <2>6 DEF SendInv
<1> QED
  BY <1>3, <1>4, <1>5

\* SAbort: a block that gives up acknowledges nothing, because its rank's error
\* word is set.
LEMMA SendAbortInv ==
  ASSUME IInv, TypeOK', NEW b \in SendBlocks, SAbort(b)
  PROVE  IInv'
<1>1. /\ SendInv(b) /\ b[1] \in Ranks
      /\ \A u \in b[2] : SlotAt(b, u) \in RecvBlocks
  BY SendBlockParts DEF IInv
<1>2. /\ UNCHANGED <<host, sequence, ready, consumed, data, sord, rpc, rord, tensor>>
      /\ \A r \in Ranks : error[r] # 0 => error'[r] # 0
      /\ error'[b[1]] = 1 /\ spc[b] # "exit" /\ spc'[b] = "exit"
      /\ \A c \in SendBlocks \ {b} : SendSame(c)
      /\ \A q \in RecvBlocks : SlotSame(q)
  BY <1>1 DEF SAbort, IInv, TypeOK, slotVars, recvVars, SendSame, SlotSame
<1>3. SenderOwnsSlots(b)'
  BY <1>2 DEF SenderOwnsSlots
<1>4. SendProgress(b)'
  BY <1>1, <1>2 DEF SendInv, SendProgress, Free
<1>5. host'[b[1]] = "kernel"
  BY <1>1, <1>2 DEF SendInv, SendProgress
<1>6. AcknowledgedIsDelivered(b)'
  BY <1>2, <1>5 DEF AcknowledgedIsDelivered, Acknowledged
<1>7. SendInv(b)'
  BY <1>3, <1>4, <1>6 DEF SendInv
<1> QED
  BY <1>1, <1>2, <1>7, SendStepFrame

\* SCopy: the slots written are free, so no reader and no full slot notices.
LEMMA SendCopyInv ==
  ASSUME IInv, TypeOK', NEW b \in SendBlocks, SCopy(b)
  PROVE  IInv'
<1>1. /\ SendInv(b) /\ b[1] \in Ranks
      /\ \A t \in b[2] : SlotAt(b, t) \in RecvBlocks /\ SlotAt(b, t) \in Slots
      /\ b[2] \subseteq Reached(b[1], b[2])
  BY SendBlockParts, RecvBlockParts DEF IInv, Reached
<1>2. /\ UNCHANGED <<host, sequence, error, ready, consumed, sord, swait, rpc,
                     rord, tensor>>
      /\ spc[b] = "copy" /\ spc'[b] = "publish"
      /\ \A c \in SendBlocks \ {b} : SendSame(c)
      /\ \A q \in Slots : data'[q] = IF \E t \in Reached(b[1], b[2]) : q = SlotAt(b, t)
                                     THEN STicket(b) ELSE data[q]
  BY DEF SCopy, IInv, TypeOK, hostVars, recvVars, SendSame
<1>3. ASSUME NEW q \in RecvBlocks, \A t \in b[2] : q # SlotAt(b, t)
      PROVE  SlotSame(q)
  <2>1. q \in Slots /\ ~ \E t \in Reached(b[1], b[2]) : q = SlotAt(b, t)
    BY <1>3, ReachedIsTarget, RecvBlockParts
  <2> QED
    BY <1>2, <2>1 DEF SlotSame
<1>4. SendInv(b)'
  <2>1. SenderOwnsSlots(b)'
    BY <1>1, <1>2 DEF SendInv, SenderOwnsSlots, Free, STicket, SlotAt
  <2>2. SendProgress(b)'
    BY <1>1, <1>2 DEF SendInv, SendProgress, Free
  <2>3. AcknowledgedIsDelivered(b)'
    BY <1>2 DEF AcknowledgedIsDelivered, Acknowledged
  <2> QED
    BY <2>1, <2>2, <2>3 DEF SendInv
<1>5. ASSUME NEW t \in b[2] PROVE RecvInv(SlotAt(b, t))'
  <2> DEFINE q == SlotAt(b, t)
  <2>1. RecvInv(q) /\ Free(q)
    BY <1>1, <1>2 DEF IInv, SendInv, SenderOwnsSlots
  <2> HIDE DEF q
  <2>2. FullSlotIsFilled(q)' /\ ReaderOwnsSlot(q)'
    BY <1>2, <2>1
       DEF RecvInv, FullSlotIsFilled, ReaderOwnsSlot, Free, RTicket
  <2>3. ConsumedIsPast(q)' /\ RecvProgress(q)'
    BY <1>2, <2>1 DEF RecvInv, ConsumedIsPast, RecvProgress
  <2>4. LaneIsCopied(q)' /\ ConsumedIsCopied(q)'
    BY <1>2, <2>1 DEF RecvInv, LaneIsCopied, ConsumedIsCopied, Handles
  <2>5. RecvInv(q)'
    BY <2>2, <2>3, <2>4 DEF RecvInv
  <2> QED
    BY <2>5 DEF q
<1> QED
  BY <1>1, <1>2, <1>3, <1>4, <1>5, SendStepFrame

\* SPublish: the slots become full with what was copied into them.
LEMMA SendPublishInv ==
  ASSUME IInv, TypeOK', NEW b \in SendBlocks, SPublish(b)
  PROVE  IInv'
<1>1. /\ SendInv(b) /\ TypeOK /\ b[1] \in Ranks /\ b[3] \in Lanes /\ sord[b] \in Nat
      /\ StreamCount(b[1], b[2]) \in Nat
      /\ \A t \in b[2] : SlotAt(b, t) \in RecvBlocks /\ SlotAt(b, t) \in Slots
      /\ b[2] \subseteq Reached(b[1], b[2])
  BY SendBlockParts, RecvBlockParts, TypeFacts DEF IInv, Reached
<1>2. /\ UNCHANGED <<host, sequence, error, consumed, data, rpc, rord, tensor>>
      /\ spc[b] = "publish" /\ swait'[b] = b[2]
      /\ IF sord[b] + SlotsPerPeer < StreamCount(b[1], b[2])
         THEN spc'[b] = "free" /\ sord'[b] = sord[b] + SlotsPerPeer
         ELSE spc'[b] = "drain" /\ sord'[b] = sord[b]
      /\ \A c \in SendBlocks \ {b} : SendSame(c)
      /\ \A q \in Slots : ready'[q] = IF \E t \in Reached(b[1], b[2]) : q = SlotAt(b, t)
                                      THEN STicket(b) ELSE ready[q]
  BY DEF SPublish, IInv, TypeOK, hostVars, recvVars, SendSame
<1>3. ASSUME NEW q \in RecvBlocks, \A t \in b[2] : q # SlotAt(b, t)
      PROVE  SlotSame(q)
  <2>1. q \in Slots /\ ~ \E t \in Reached(b[1], b[2]) : q = SlotAt(b, t)
    BY <1>3, ReachedIsTarget, RecvBlockParts
  <2> QED
    BY <1>2, <2>1 DEF SlotSame
<1>4. SendInv(b)'
  <2>1. SenderOwnsSlots(b)'
    BY <1>2 DEF SenderOwnsSlots
  <2>2. /\ OfLane(sord[b], b[3]) /\ OfLane(sord[b] + SlotsPerPeer, b[3])
        /\ b[3] <= sord[b] /\ sord[b] < StreamCount(b[1], b[2])
    BY <1>1, <1>2, LaneStep DEF SendInv, SendProgress
  <2>3. b[3] < StreamCount(b[1], b[2])
    BY <1>1, <2>2 DEF Lanes
  <2>4. \A t \in b[2] : ready'[SlotAt(b, t)] = STicket(b)
    BY <1>1, <1>2
  <2>5. SlotsPerPeer \in Nat /\ b[3] \in Nat
    BY <1>1, SizesAssumption DEF Lanes
  <2>6. SendProgress(b)'
    BY <1>1, <1>2, <2>2, <2>3, <2>4, <2>5
       DEF SendInv, SendProgress, STicket, SlotAt
  <2>7. AcknowledgedIsDelivered(b)'
    BY <1>2 DEF AcknowledgedIsDelivered, Acknowledged
  <2> QED
    BY <2>1, <2>6, <2>7 DEF SendInv
<1>5. ASSUME NEW t \in b[2] PROVE RecvInv(SlotAt(b, t))'
  <2> DEFINE q == SlotAt(b, t)
  <2>1. /\ RecvInv(q) /\ Free(q)
        /\ data[q] = STicket(b) /\ ready'[q] = STicket(b)
    BY <1>1, <1>2 DEF IInv, SendInv, SenderOwnsSlots
  <2> HIDE DEF q
  <2>2. FullSlotIsFilled(q)'
    BY <1>2, <2>1 DEF FullSlotIsFilled
  <2>3. ReaderOwnsSlot(q)'
    BY <1>2, <2>1 DEF RecvInv, ReaderOwnsSlot
  <2>4. ConsumedIsPast(q)' /\ RecvProgress(q)'
    BY <1>2, <2>1 DEF RecvInv, ConsumedIsPast, RecvProgress
  <2>5. LaneIsCopied(q)' /\ ConsumedIsCopied(q)'
    BY <1>2, <2>1 DEF RecvInv, LaneIsCopied, ConsumedIsCopied, Handles
  <2>6. RecvInv(q)'
    BY <2>2, <2>3, <2>4, <2>5 DEF RecvInv
  <2> QED
    BY <2>6 DEF q
<1> QED
  BY <1>1, <1>2, <1>3, <1>4, <1>5, SendStepFrame

\* What the steps of a receiver's block share: only it, the tensors of its lane
\* and the acknowledgement of its slot change, and that only in a full slot.
LEMMA RecvStepFrame ==
  ASSUME IInv, TypeOK', NEW b \in RecvBlocks,
         UNCHANGED <<host, sequence, ready, data, spc, sord, swait>>,
         \A r \in Ranks : error[r] # 0 => error'[r] # 0,
         \A q \in Slots \ {b} : consumed'[q] = consumed[q],
         consumed'[b] = consumed[b] \/ ~Free(b),
         \A c \in RecvBlocks \ {b} : RecvSame(c),
         \A x \in Segments : /\ ~Handles(b, x) => tensor'[x] = tensor[x]
                             /\ tensor[x][1] <= tensor'[x][1]
                             /\ TensorNotAhead(x)',
         RecvInv(b)'
  PROVE  IInv'
<1>1. \A r \in Ranks : HostSame(r)
  BY DEF HostSame
<1>2. \A q \in Slots : q # b \/ consumed'[q] = consumed[q] => SlotSame(q)
  BY DEF SlotSame
<1>3. ASSUME NEW c \in RecvBlocks PROVE RecvInv(c)'
  <2>1. CASE c = b
    BY <2>1
  <2>2. CASE c # b
    <3>1. c[1] \in Ranks /\ SlotSame(c)
      BY <1>2, <2>2, RecvBlockParts
    <3>2. \A x \in Segments : Handles(c, x) => ~Handles(b, x)
      BY <2>2, OneLane, SegmentParts, RecvBlockParts DEF Handles
    <3> QED
      BY <1>1, <2>2, <3>1, <3>2, RecvFrame
  <2> QED
    BY <2>1, <2>2
<1>4. ASSUME NEW c \in SendBlocks PROVE SendInv(c)'
  <2>1. /\ SendInv(c) /\ c[1] \in Ranks /\ SendSame(c)
        /\ \A u \in c[2] : SlotAt(c, u) \in Slots
    BY SendBlockParts, RecvBlockParts DEF IInv, SendSame
  <2>2. CASE \A u \in c[2] : SlotSame(SlotAt(c, u))
    BY <1>1, <2>1, <2>2, SendFrame
  <2>3. CASE \E u \in c[2] : ~SlotSame(SlotAt(c, u))
    <3>1. PICK u \in c[2] : SlotAt(c, u) = b /\ ~Free(b)
      BY <1>2, <2>1, <2>3
    <3>2. \A t \in c[2] : t # u => SlotSame(SlotAt(c, t))
      BY <1>2, <2>1, <3>1 DEF SlotAt
    <3>3. /\ spc[c] \notin {"copy", "publish"}
          /\ ~(spc[c] = "free" /\ u \notin swait[c])
      BY <2>1, <3>1 DEF SendInv, SenderOwnsSlots
    <3>4. SenderOwnsSlots(c)'
      BY <2>1, <3>2, <3>3
         DEF SendInv, SenderOwnsSlots, SlotSame, Free, SlotAt, STicket
    <3>5. ~(c[3] >= StreamCount(c[1], c[2]))
      BY <2>1, <3>1 DEF SendInv, SendProgress
    <3>6. SendProgress(c)'
      BY <1>1, <2>1, <3>5
         DEF SendInv, SendProgress, STicket, SlotAt, HostSame
    <3>7. AcknowledgedIsDelivered(c)'
      <4> SUFFICES ASSUME NEW t \in c[2], Acknowledged(c, t)'
          PROVE  /\ Free(SlotAt(c, t))'
                 /\ \A x \in Segments :
                      Handles(SlotAt(c, t), x)' => tensor'[x][1] >= sequence'[c[1]]
        BY DEF AcknowledgedIsDelivered
      <4>1. Acknowledged(c, t)
        BY <1>1, <2>1 DEF Acknowledged, HostSame
      <4>2. /\ Free(SlotAt(c, t))
            /\ \A x \in Segments :
                 Handles(SlotAt(c, t), x) => tensor[x][1] >= sequence[c[1]]
        BY <2>1, <4>1 DEF SendInv, AcknowledgedIsDelivered
      <4>3. t # u
        BY <3>1, <4>2
      <4>4. Free(SlotAt(c, t))'
        BY <3>2, <4>2, <4>3 DEF Free, SlotSame, SlotAt
      <4>5. \A x \in Segments : tensor[x][1] \in Nat /\ tensor'[x][1] \in Nat
        <5>1. \A k \in Ticket : k[1] \in Nat
          BY SizesAssumption DEF Ticket, Sequences
        <5> QED
          BY <5>1 DEF IInv, TypeOK
      <4>6. sequence[c[1]] \in Nat
        BY <2>1, TypeFacts DEF IInv
      <4> QED
        BY <4>2, <4>4, <4>5, <4>6 DEF Handles, SlotAt, OfLane
    <3> QED
      BY <3>4, <3>6, <3>7 DEF SendInv
  <2> QED
    BY <2>2, <2>3
<1> QED
  BY <1>3, <1>4 DEF IInv

\* REpoch, RReady, RAbort: the waits of a receiver's block. A slot whose ready
\* ticket is the one awaited is full, since the receiver has not consumed it.
LEMMA RecvWaitInv ==
  ASSUME IInv, TypeOK', NEW b \in RecvBlocks,
         (\E t \in rwait[b] : REpoch(b, t)) \/ RReady(b) \/ RAbort(b)
  PROVE  IInv'
<1>1. /\ RecvInv(b) /\ TypeOK /\ b \in Slots /\ b[1] \in Ranks
      /\ sequence[b[1]] \in Nat /\ rord[b] \in Nat
      /\ consumed[b] \in Ticket /\ consumed[b][2] \in Nat
      /\ Count[b[2]][b[1]] \in Nat
  BY RecvBlockParts, TypeFacts DEF IInv
<1>2. /\ UNCHANGED <<host, sequence, ready, consumed, data, spc, sord, swait,
                     rord, tensor>>
      /\ \A r \in Ranks : error[r] # 0 => error'[r] # 0
      /\ \A c \in RecvBlocks \ {b} : RecvSame(c)
  BY <1>1 DEF REpoch, RReady, RAbort, TypeOK, hostVars, slotVars, sendVars, RecvSame
<1>3. /\ rpc[b] # "exit" /\ rpc[b] # "consume"
      /\ rpc'[b] # "consume"
      /\ rpc'[b] = "ready" => rord[b] < Count[b[2]][b[1]]
      /\ rpc'[b] = "copy" => rpc[b] = "ready" /\ ready[b] = RTicket(b)
      /\ rpc'[b] = "exit" => \/ rord[b] >= Count[b[2]][b[1]]
                             \/ error'[b[1]] = 1
  BY <1>1 DEF REpoch, RReady, RAbort, TypeOK, RecvInv, RecvProgress
<1>4. FullSlotIsFilled(b)' /\ ConsumedIsPast(b)'
  BY <1>1, <1>2, <1>3 DEF RecvInv, FullSlotIsFilled, ConsumedIsPast, Free
<1>5. ReaderOwnsSlot(b)'
  <2> SUFFICES ASSUME rpc'[b] = "copy"
               PROVE  ready[b] = RTicket(b) /\ ready[b] # consumed[b]
    BY <1>2, <1>3 DEF ReaderOwnsSlot, Free, RTicket
  <2>1. ready[b] = <<sequence[b[1]], rord[b] + 1>>
    BY <1>3 DEF RTicket, make_ticket
  <2>2. ready[b] = consumed[b] => consumed[b][2] <= rord[b]
    BY <1>1, <1>3, <2>1 DEF RecvInv, ConsumedIsPast
  <2> QED
    BY <1>1, <1>3, <2>1, <2>2
<1>6. LaneIsCopied(b)' /\ ConsumedIsCopied(b)'
  BY <1>1, <1>2, <1>3 DEF RecvInv, LaneIsCopied, ConsumedIsCopied, Handles
<1>7. RecvProgress(b)'
  BY <1>1, <1>2, <1>3 DEF RecvInv, RecvProgress
<1>8. RecvInv(b)'
  BY <1>4, <1>5, <1>6, <1>7 DEF RecvInv
<1>9. \A x \in Segments : /\ tensor[x][1] <= tensor'[x][1]
                          /\ TensorNotAhead(x)'
  BY <1>1, <1>2, TypeFacts DEF IInv, TensorNotAhead
<1> QED
  BY <1>1, <1>2, <1>8, <1>9, RecvStepFrame

\* RCopy: the slot is full of the segment the block is at.
LEMMA RecvCopyInv ==
  ASSUME IInv, TypeOK', NEW b \in RecvBlocks, RCopy(b)
  PROVE  IInv'
<1> DEFINE y == <<b[1], b[2], rord[b]>>
<1>1. /\ RecvInv(b) /\ TypeOK /\ b \in Slots /\ b[1] \in Ranks /\ b[3] \in Lanes
      /\ b[1] \in Receivers /\ b[2] \in Senders
      /\ sequence[b[1]] \in Nat /\ sequence[b[1]] \in Sequences /\ rord[b] \in Nat
      /\ consumed[b][2] \in Nat /\ consumed[b][1] \in Nat
  BY RecvBlockParts, TypeFacts DEF IInv, TypeOK
<1>2. /\ UNCHANGED <<host, sequence, error, ready, consumed, data, spc, sord, swait,
                     rord>>
      /\ rpc[b] = "copy" /\ rpc'[b] = "consume"
      /\ tensor' = [tensor EXCEPT ![y] = data[b]]
      /\ \A c \in RecvBlocks \ {b} : RecvSame(c)
  BY <1>1 DEF RCopy, TypeOK, hostVars, slotVars, sendVars, RecvSame
<1>3. rord[b] < Count[b[2]][b[1]] /\ host[b[1]] = "kernel" /\ sequence[b[1]] > 0
  BY <1>1, <1>2 DEF RecvInv, RecvProgress
<1>4. y \in Segments /\ OfLane(rord[b], b[3]) /\ Handles(b, y)
  BY <1>1, <1>3, SegmentParts DEF RecvInv, LaneIsCopied, Handles
<1>5. /\ ready[b] = RTicket(b) /\ ready[b] # consumed[b]
      /\ data[b] = RTicket(b)
  BY <1>1, <1>2 DEF RecvInv, ReaderOwnsSlot, FullSlotIsFilled, Free
<1>6. /\ RTicket(b) = make_ticket(sequence[b[1]], rord[b])
      /\ RTicket(b)[1] = sequence[b[1]]
  BY <1>1, TicketType DEF RTicket
<1>7. /\ tensor'[y] = make_ticket(sequence[b[1]], rord[b])
      /\ \A x \in Segments : x # y => tensor'[x] = tensor[x]
  BY <1>1, <1>2, <1>4, <1>5, <1>6 DEF TypeOK
<1>8. \A x \in Segments : /\ tensor[x][1] \in Nat
                          /\ TensorNotAhead(x)
                          /\ x = <<x[1], x[2], x[3]>> /\ x[3] \in Nat
  BY <1>1, TypeFacts, SegmentParts DEF IInv
<1>9. tensor'[y][1] = sequence[b[1]] /\ tensor[y][1] <= sequence[b[1]]
  BY <1>4, <1>6, <1>7, <1>8 DEF TensorNotAhead, RTicket
<1> HIDE DEF y
<1>10. \A x \in Segments : tensor[x][1] <= tensor'[x][1] /\ TensorNotAhead(x)'
  <2>1. y[1] = b[1]
    BY DEF y
  <2> QED
    BY <1>1, <1>2, <1>7, <1>8, <1>9, <2>1 DEF TensorNotAhead
<1>11. FullSlotIsFilled(b)' /\ ReaderOwnsSlot(b)' /\ ConsumedIsPast(b)'
  BY <1>1, <1>2, <1>5
     DEF RecvInv, FullSlotIsFilled, ReaderOwnsSlot, ConsumedIsPast, Free, RTicket
<1>12. RecvProgress(b)'
  BY <1>1, <1>2, <1>3 DEF RecvInv, RecvProgress
<1>13. LaneIsCopied(b)'
  <2>1. ASSUME NEW x \in Segments, Handles(b, x), x[3] = rord[b] PROVE x = y
    BY <1>8, <2>1 DEF y, Handles
  <2>2. y[3] = rord[b]
    BY DEF y
  <2> QED
    BY <1>1, <1>2, <1>4, <1>7, <1>8, <2>1, <2>2
       DEF RecvInv, LaneIsCopied, Handles
<1>14. ConsumedIsCopied(b)'
  <2>1. \A x \in Segments : tensor'[x][1] \in Nat
    <3>1. \A k \in Ticket : k[1] \in Nat
      BY SizesAssumption DEF Ticket, Sequences
    <3> QED
      BY <3>1 DEF TypeOK
  <2> QED
    BY <1>1, <1>2, <1>8, <1>10, <2>1 DEF RecvInv, ConsumedIsCopied, Handles
<1>15. RecvInv(b)'
  BY <1>11, <1>12, <1>13, <1>14 DEF RecvInv
<1> QED
  BY <1>1, <1>2, <1>4, <1>7, <1>10, <1>15, RecvStepFrame

\* RConsume: the block acknowledges what it has just copied.
LEMMA RecvConsumeInv ==
  ASSUME IInv, TypeOK', NEW b \in RecvBlocks, RConsume(b)
  PROVE  IInv'
<1>1. /\ RecvInv(b) /\ TypeOK /\ b \in Slots /\ b[1] \in Ranks /\ b[3] \in Lanes
      /\ sequence[b[1]] \in Nat /\ rord[b] \in Nat /\ SlotsPerPeer \in Nat \ {0}
      /\ Count[b[2]][b[1]] \in Nat
  BY RecvBlockParts, TypeFacts, SizesAssumption DEF IInv
<1>2. /\ UNCHANGED <<host, sequence, error, ready, data, spc, sord, swait, tensor>>
      /\ rpc[b] = "consume"
      /\ rord'[b] = rord[b] + SlotsPerPeer
      /\ rpc'[b] = IF rord[b] + SlotsPerPeer < Count[b[2]][b[1]] THEN "ready" ELSE "exit"
      /\ consumed'[b] = RTicket(b)
      /\ \A q \in Slots \ {b} : consumed'[q] = consumed[q]
      /\ \A c \in RecvBlocks \ {b} : RecvSame(c)
  BY <1>1 DEF RConsume, TypeOK, hostVars, sendVars, RecvSame
<1>3. ready[b] = RTicket(b) /\ ~Free(b)
  BY <1>1, <1>2 DEF RecvInv, ReaderOwnsSlot
<1>4. RTicket(b)[1] = sequence[b[1]] /\ RTicket(b)[2] = rord[b] + 1
  BY DEF RTicket, make_ticket
<1>5. OfLane(rord[b], b[3]) /\ host[b[1]] = "kernel" /\ sequence[b[1]] > 0
  BY <1>1, <1>2 DEF RecvInv, RecvProgress, LaneIsCopied
<1>6. FullSlotIsFilled(b)' /\ ReaderOwnsSlot(b)'
  BY <1>2, <1>3 DEF FullSlotIsFilled, ReaderOwnsSlot, Free
<1>7. ConsumedIsPast(b)'
  BY <1>1, <1>2, <1>4 DEF ConsumedIsPast
<1>8. RecvProgress(b)'
  BY <1>1, <1>2, <1>5 DEF RecvProgress
<1>9. ASSUME NEW x \in Segments, Handles(b, x), x[3] <= rord[b]
      PROVE  tensor[x] = make_ticket(sequence[b[1]], x[3])
  BY <1>1, <1>2, <1>9, SegmentParts DEF RecvInv, LaneIsCopied
<1>10. LaneIsCopied(b)'
  <2>1. OfLane(rord[b] + SlotsPerPeer, b[3])
    BY <1>1, <1>5, LaneStep
  <2>2. ASSUME NEW x \in Segments, Handles(b, x), x[3] < rord[b] + SlotsPerPeer
        PROVE  x[3] <= rord[b]
    BY <1>1, <1>5, <2>2, LaneStep, SegmentParts DEF Handles
  <2> QED
    BY <1>1, <1>2, <1>9, <2>1, <2>2 DEF LaneIsCopied, Handles
<1>11. ConsumedIsCopied(b)'
  <2>1. ASSUME NEW x \in Segments, Handles(b, x), x[3] < rord[b] + 1
        PROVE  tensor[x][1] = sequence[b[1]]
    BY <1>1, <1>9, <2>1, SegmentParts DEF make_ticket
  <2> QED
    BY <1>1, <1>2, <1>4, <2>1 DEF ConsumedIsCopied, Handles
<1>12. RecvInv(b)'
  BY <1>6, <1>7, <1>8, <1>10, <1>11 DEF RecvInv
<1>13. \A x \in Segments : /\ tensor[x][1] <= tensor'[x][1]
                           /\ TensorNotAhead(x)'
  BY <1>1, <1>2, TypeFacts DEF IInv, TensorNotAhead
<1> QED
  BY <1>1, <1>2, <1>3, <1>12, <1>13, RecvStepFrame

LEMMA InvNext == IInv /\ [Next]_vars => IInv'
<1> SUFFICES ASSUME IInv, [Next]_vars PROVE IInv'
  OBVIOUS
<1>1. TypeOK'
  BY TypeNext DEF IInv
<1>2. ASSUME NEW r \in Ranks, HostStep(r) PROVE IInv'
  BY <1>1, <1>2, LaunchInv, HostInv DEF HostStep
<1>3. ASSUME NEW b \in SendBlocks, SendStep(b) PROVE IInv'
  BY <1>1, <1>3, SendWaitInv, SendAbortInv, SendCopyInv, SendPublishInv
     DEF SendStep
<1>4. ASSUME NEW b \in RecvBlocks, RecvStep(b) PROVE IInv'
  BY <1>1, <1>4, RecvWaitInv, RecvCopyInv, RecvConsumeInv DEF RecvStep
<1>5. CASE UNCHANGED vars
  <2>1. \A b \in SendBlocks : SendInv(b)'
    <3> SUFFICES ASSUME NEW b \in SendBlocks PROVE SendInv(b)'
      OBVIOUS
    <3>1. /\ HostSame(b[1]) /\ SendSame(b)
          /\ \A t \in b[2] : SlotSame(SlotAt(b, t))
      BY <1>5 DEF vars, HostSame, SendSame, SlotSame
    <3>2. \A x \in Segments : tensor[x][1] <= tensor'[x][1]
      BY <1>5, TypeFacts DEF vars, IInv
    <3> QED
      BY <1>1, <3>1, <3>2, SendFrame
  <2>2. \A b \in RecvBlocks : RecvInv(b)'
    BY <1>5, RecvFrame DEF vars, HostSame, RecvSame, SlotSame
  <2>3. \A x \in Segments : TensorNotAhead(x)'
    BY <1>5 DEF vars, IInv, TensorNotAhead
  <2> QED
    BY <1>1, <2>1, <2>2, <2>3 DEF IInv
<1> QED
  BY <1>2, <1>3, <1>4, <1>5 DEF Next

\* The inductive invariant holds in every state of every behaviour.
THEOREM Inductive == Spec => []IInv
<1>1. Init => IInv
  BY InvInit
<1>2. IInv /\ [Next]_vars => IInv'
  BY InvNext
<1> QED
  BY <1>1, <1>2, PTL DEF Spec

-----------------------------------------------------------------------------
(***************************************************************************)
(* What the invariant shows.                                               *)
(***************************************************************************)

\* A block writes a slot only while it is free, and a block reads one only
\* while it is full.
LEMMA InvSlotExclusive == IInv => SlotExclusive
<1> SUFFICES ASSUME IInv, NEW b \in SendBlocks, NEW t \in b[2],
                    spc[b] \in {"copy", "publish"}
             PROVE  rpc[SlotAt(b, t)] \notin {"copy", "consume"}
  BY DEF SlotExclusive
<1>1. Free(SlotAt(b, t))
  BY DEF IInv, SendInv, SenderOwnsSlots
<1>2. ReaderOwnsSlot(SlotAt(b, t))
  BY SendBlockParts DEF IInv, RecvInv
<1> QED
  BY <1>1, <1>2 DEF ReaderOwnsSlot

\* Segment x has a block of its receiver that handles it.
LEMMA SegmentBlock ==
  ASSUME NEW x \in Segments
  PROVE  \E b \in RecvBlocks : Handles(b, x) /\ b[1] = x[1] /\ b[2] = x[2]
<1>1. /\ x[1] \in Receivers /\ x[2] \in Senders /\ x[3] \in Nat
      /\ x[3] < Count[x[2]][x[1]] /\ Count[x[2]][x[1]] \in Nat
  BY SegmentParts, SizesAssumption
<1>2. PICK l \in Lanes : OfLane(x[3], l)
  BY <1>1, SomeLane
<1>3. <<x[1], x[2], l>> \in RecvBlocks
  BY <1>1 DEF RecvBlocks, Slots
<1> QED
  BY <1>2, <1>3 DEF Handles

LEMMA InvReceiverReturn == IInv => ReceiverReturnIsCurrent
<1> SUFFICES ASSUME IInv, NEW x \in Segments, host[x[1]] = "barrier"
             PROVE  tensor[x] = make_ticket(sequence[x[1]], x[3])
  BY DEF ReceiverReturnIsCurrent
<1>1. PICK b \in RecvBlocks : Handles(b, x) /\ b[1] = x[1] /\ b[2] = x[2]
  BY SegmentBlock
<1>2. LaneIsCopied(b) /\ RecvProgress(b)
  BY DEF IInv, RecvInv
<1>3. rord[b] >= Count[b[2]][b[1]]
  BY <1>1, <1>2 DEF RecvProgress
<1>4. x[3] < rord[b]
  BY <1>1, <1>3, SegmentParts, RecvBlockParts, TypeFacts DEF IInv
<1> QED
  BY <1>1, <1>2, <1>4 DEF LaneIsCopied

\* Segment x has a block of its sender that fills its slot.
LEMMA SegmentSendBlock ==
  ASSUME NEW x \in Segments
  PROVE  \E b \in SendBlocks : x[1] \in b[2] /\ b[1] = x[2]
                               /\ Handles(SlotAt(b, x[1]), x)
<1>1. PICK q \in RecvBlocks : Handles(q, x) /\ q[1] = x[1] /\ q[2] = x[2]
  BY SegmentBlock
<1>2. x[1] \in Peers(x[2]) /\ Peers(x[2]) \subseteq Receivers
  BY <1>1, RecvBlockParts DEF RecvBlocks, Peers
<1>3. PICK g \in Streams(x[2]) : x[1] \in g
  BY <1>2 DEF Streams
<1>4. g \in SUBSET Receivers
  BY <1>1, <1>3, RecvBlockParts, StreamCountOfTarget
<1>5. <<x[2], g, q[3]>> \in SendBlocks
  BY <1>1, <1>3, <1>4, RecvBlockParts DEF SendBlocks
<1> QED
  BY <1>1, <1>3, <1>5 DEF Handles, SlotAt

LEMMA InvSenderReturn == IInv => SenderReturnIsDelivered
<1> SUFFICES ASSUME IInv, NEW x \in Segments, host[x[2]] = "barrier"
             PROVE  tensor[x][1] >= sequence[x[2]]
  BY DEF SenderReturnIsDelivered
<1>1. PICK b \in SendBlocks : x[1] \in b[2] /\ b[1] = x[2]
                              /\ Handles(SlotAt(b, x[1]), x)
  BY SegmentSendBlock
<1>2. Acknowledged(b, x[1]) /\ AcknowledgedIsDelivered(b)
  BY <1>1 DEF IInv, SendInv, SendProgress, Acknowledged
<1> QED
  BY <1>1, <1>2 DEF AcknowledgedIsDelivered

LEMMA InvSlotsFree == IInv => SuccessLeavesSlotsFree
<1> SUFFICES ASSUME IInv, NEW b \in SendBlocks, NEW t \in b[2],
                    host[b[1]] = "barrier"
             PROVE  Free(SlotAt(b, t))
  BY DEF SuccessLeavesSlotsFree, Free
<1>1. Acknowledged(b, t) /\ AcknowledgedIsDelivered(b)
  BY DEF IInv, SendInv, SendProgress, Acknowledged
<1> QED
  BY <1>1 DEF AcknowledgedIsDelivered

\* A slot is never written while its receiver reads it, in any number of
\* steps, with any failures.
THEOREM SlotExclusion == Spec => []SlotExclusive
BY Inductive, InvSlotExclusive, PTL

\* A receiver's launch that returns without error leaves exactly its own
\* step's segments in the tensors.
THEOREM ReceiverReturn == Spec => []ReceiverReturnIsCurrent
BY Inductive, InvReceiverReturn, PTL

\* A sender's launch that returns without error has been acknowledged for
\* every segment by every receiver.
THEOREM SenderReturn == Spec => []SenderReturnIsDelivered
BY Inductive, InvSenderReturn, PTL

\* A sender's launch that returns without error leaves all its slots free.
THEOREM SlotsFree == Spec => []SuccessLeavesSlotsFree
BY Inductive, InvSlotsFree, PTL

\* A slot left full by an earlier step of its receiver is never written, since
\* its sender sees it full, nor acknowledged, since no ticket awaited is its.
LEMMA NextFrozen ==
  ASSUME IInv, [Next]_vars, NEW q \in RecvBlocks,
         ready[q] # consumed[q], ready[q][1] < sequence[q[1]]
  PROVE  UNCHANGED <<ready[q], consumed[q], data[q]>>
<1>1. ASSUME NEW r \in Ranks, HostStep(r)
      PROVE  UNCHANGED <<ready[q], consumed[q], data[q]>>
  BY <1>1 DEF HostStep, Launch, PublishEpoch, KernelEnd, BarrierExit, slotVars
<1>2. ASSUME NEW b \in SendBlocks, SendStep(b)
      PROVE  UNCHANGED <<ready[q], consumed[q], data[q]>>
  <2>1. CASE SCopy(b) \/ SPublish(b)
    <3>1. ASSUME NEW t \in Reached(b[1], b[2]) PROVE q # SlotAt(b, t)
      <4> SUFFICES ASSUME q = SlotAt(b, t) PROVE FALSE
        OBVIOUS
      <4>1. t \in b[2]
        BY ReachedIsTarget
      <4> QED
        BY <2>1, <4>1 DEF SCopy, SPublish, IInv, SendInv, SenderOwnsSlots, Free
    <3>2. q \in Slots
      BY RecvBlockParts
    <3> QED
      BY <2>1, <3>1, <3>2 DEF SCopy, SPublish, IInv, TypeOK
  <2>2. CASE ~(SCopy(b) \/ SPublish(b))
    BY <1>2, <2>2 DEF SendStep, SEpoch, SFree, SDrain, SAbort, slotVars
  <2> QED
    BY <2>1, <2>2
<1>3. ASSUME NEW b \in RecvBlocks, RecvStep(b)
      PROVE  UNCHANGED <<ready[q], consumed[q], data[q]>>
  <2>1. CASE RConsume(b)
    <3>1. ready[b] = RTicket(b)
      BY <2>1 DEF RConsume, IInv, RecvInv, ReaderOwnsSlot
    <3>2. b # q
      BY <3>1, RecvBlockParts, TypeFacts DEF RTicket, make_ticket, IInv
    <3> QED
      BY <2>1, <3>2 DEF RConsume, IInv, TypeOK
  <2>2. CASE ~RConsume(b)
    BY <1>3, <2>2 DEF RecvStep, REpoch, RReady, RCopy, RAbort, slotVars
  <2> QED
    BY <2>1, <2>2
<1>4. CASE UNCHANGED vars
  BY <1>4 DEF vars
<1> QED
  BY <1>1, <1>2, <1>3, <1>4 DEF Next

\* What a failed launch leaves in a slot stays there for ever.
THEOREM FrozenSlots == Spec => FullSlotIsFrozen
<1>1. IInv /\ [Next]_vars =>
        [\A q \in RecvBlocks :
           /\ ready[q] # consumed[q]
           /\ ready[q][1] < sequence[q[1]]
           => UNCHANGED <<ready[q], consumed[q], data[q]>>]_vars
  BY NextFrozen
<1> QED
  BY <1>1, Inductive, PTL DEF Spec, FullSlotIsFrozen

-----------------------------------------------------------------------------
(***************************************************************************)
(* The protocol implements StepDelivery.                                   *)
(***************************************************************************)
LEMMA ReadyInit == Init => IReady
<1> SUFFICES ASSUME Init, NEW q \in Slots PROVE ready[q][1] <= sequence[q[2]]
  BY DEF IReady, SlotNotAhead
<1> QED
  BY SlotParts DEF Init, NoTicket

LEMMA ReadyNext == TypeOK /\ IReady /\ [Next]_vars => IReady'
<1> SUFFICES ASSUME TypeOK, IReady, [Next]_vars, NEW q \in Slots
             PROVE  ready'[q][1] <= sequence'[q[2]]
  BY DEF IReady, SlotNotAhead
<1>1. /\ q[2] \in Ranks /\ sequence[q[2]] \in Nat
      /\ ready[q][1] <= sequence[q[2]] /\ ready[q][1] \in Nat
  BY SlotParts, SizesAssumption
     DEF TypeOK, Sequences, Ticket, IReady, SlotNotAhead
<1>2. ASSUME NEW r \in Ranks, HostStep(r)
      PROVE  ready'[q][1] <= sequence'[q[2]]
  <2>1. CASE Launch(r)
    BY <1>1, <2>1 DEF Launch, TypeOK
  <2>2. CASE ~Launch(r)
    BY <1>1, <1>2, <2>2
       DEF HostStep, PublishEpoch, KernelEnd, BarrierExit, hostVars, slotVars
  <2> QED
    BY <2>1, <2>2
<1>3. ASSUME NEW b \in SendBlocks, SendStep(b)
      PROVE  ready'[q][1] <= sequence'[q[2]]
  <2>1. CASE SPublish(b)
    <3>1. CASE \E t \in Reached(b[1], b[2]) : q = SlotAt(b, t)
      <4>1. q[2] = b[1] /\ ready'[q] = STicket(b) /\ sequence'[q[2]] = sequence[q[2]]
        BY <2>1, <3>1 DEF SPublish, SlotAt, hostVars
      <4>2. STicket(b)[1] = sequence[b[1]]
        BY DEF STicket, make_ticket
      <4> QED
        BY <1>1, <4>1, <4>2
    <3>2. CASE ~ \E t \in Reached(b[1], b[2]) : q = SlotAt(b, t)
      BY <1>1, <2>1, <3>2 DEF SPublish, hostVars
    <3> QED
      BY <3>1, <3>2
  <2>2. CASE ~SPublish(b)
    BY <1>1, <1>3, <2>2
       DEF SendStep, SEpoch, SFree, SDrain, SCopy, SAbort, hostVars, slotVars
  <2> QED
    BY <2>1, <2>2
<1>4. ASSUME NEW b \in RecvBlocks, RecvStep(b)
      PROVE  ready'[q][1] <= sequence'[q[2]]
  BY <1>1, <1>4
     DEF RecvStep, REpoch, RReady, RCopy, RConsume, RAbort, hostVars, slotVars
<1>5. CASE UNCHANGED vars
  BY <1>1, <1>5 DEF vars
<1> QED
  BY <1>2, <1>3, <1>4, <1>5 DEF Next

LEMMA InitDelivers == Init => Delivery!Init
BY DEF Init, Delivery!Init, NoTicket

\* Launch begins a call, the end of a kernel returns or throws, a copy that
\* brings a new step delivers, and nothing else can be seen.
LEMMA NextDelivers ==
  ASSUME IInv, IReady, [Next]_vars
  PROVE  [Delivery!Next]_(Delivery!vars)
<1>1. TypeOK
  BY DEF IInv
<1>2. ASSUME UNCHANGED <<host, sequence, tensor>>
      PROVE  UNCHANGED Delivery!vars
  BY <1>2 DEF Delivery!vars
<1>3. ASSUME NEW r \in Ranks, Launch(r) PROVE Delivery!Begin(r)
  BY <1>1, <1>3 DEF Launch, Delivery!Begin, TypeOK
<1>4. ASSUME NEW r \in Ranks, KernelEnd(r) PROVE Delivery!Return(r) \/ Delivery!Throw(r)
  <2>1. CASE error[r] # 0
    BY <1>1, <1>4, <2>1 DEF KernelEnd, Delivery!Throw, TypeOK, hostVars
  <2>2. CASE error[r] = 0
    <3>1. ASSUME NEW x \in Segments
          PROVE  /\ x[1] = r => tensor[x][1] = sequence[r]
                 /\ x[2] = r => tensor[x][1] >= sequence[r]
      <4>1. x[1] \in Ranks /\ x[2] \in Ranks
        BY SegmentParts
      <4>2. CASE x[1] = r
        <5>1. PICK b \in RecvBlocks : Handles(b, x) /\ b[1] = x[1] /\ b[2] = x[2]
          BY SegmentBlock
        <5>2. LaneIsCopied(b) /\ RecvProgress(b) /\ rpc[b] = "exit"
          BY <1>4, <4>2, <5>1 DEF IInv, RecvInv, KernelEnd, BlocksExited
        <5>3. x[3] < rord[b]
          BY <1>1, <1>4, <2>2, <4>2, <5>1, <5>2, SegmentParts, RecvBlockParts, TypeFacts
             DEF RecvProgress, KernelEnd
        <5>4. tensor[x] = make_ticket(sequence[r], x[3])
          BY <4>2, <5>1, <5>2, <5>3 DEF LaneIsCopied
        <5> QED
          BY <4>2, <5>4, RanksAssumption, SegmentParts DEF make_ticket
      <4>3. CASE x[2] = r
        <5>1. PICK b \in SendBlocks : x[1] \in b[2] /\ b[1] = x[2]
                                      /\ Handles(SlotAt(b, x[1]), x)
          BY SegmentSendBlock
        <5>2. Acknowledged(b, x[1]) /\ AcknowledgedIsDelivered(b)
          BY <1>4, <2>2, <4>3, <5>1
             DEF IInv, SendInv, SendProgress, Acknowledged, KernelEnd, BlocksExited
        <5>3. x[1] # r
          BY <4>3, RanksAssumption, SegmentParts
        <5> QED
          BY <4>3, <5>1, <5>2, <5>3 DEF AcknowledgedIsDelivered
      <4> QED
        BY <4>2, <4>3
    <3> QED
      BY <1>1, <1>4, <2>2, <3>1 DEF KernelEnd, Delivery!Return, TypeOK
  <2> QED
    BY <2>1, <2>2
<1>5. ASSUME NEW r \in Ranks, PublishEpoch(r) \/ BarrierExit(r)
      PROVE  UNCHANGED Delivery!vars
  BY <1>1, <1>5 DEF PublishEpoch, BarrierExit, Delivery!vars, TypeOK, hostVars
<1>6. ASSUME NEW b \in SendBlocks, SendStep(b) PROVE UNCHANGED Delivery!vars
  BY <1>2, <1>6 DEF SendStep, SEpoch, SFree, SDrain, SCopy, SPublish, SAbort, hostVars
<1>7. ASSUME NEW b \in RecvBlocks, RCopy(b)
      PROVE  \/ \E x \in Segments : Delivery!Deliver(x)
             \/ UNCHANGED Delivery!vars
  <2> DEFINE x == <<b[1], b[2], rord[b]>>
  <2>1. /\ b[1] \in Ranks /\ b[2] \in Ranks /\ b \in Slots
        /\ b[1] \in Receivers /\ b[2] \in Senders
        /\ rord[b] \in Nat /\ sequence[b[1]] \in Nat
        /\ rord[b] < Count[b[2]][b[1]] /\ host[b[1]] = "kernel"
    BY <1>1, <1>7, RecvBlockParts, TypeFacts
       DEF Ranks, RCopy, IInv, RecvInv, RecvProgress
  <2>2. ready[b] = RTicket(b) /\ data[b] = RTicket(b)
    BY <1>7 DEF RCopy, IInv, RecvInv, ReaderOwnsSlot, FullSlotIsFilled, Free
  <2>3. RTicket(b)[1] = sequence[b[1]]
    BY DEF RTicket, make_ticket
  <2>4. sequence[b[2]] >= sequence[b[1]]
    BY <2>1, <2>2, <2>3, TypeFacts, <1>1 DEF IReady, SlotNotAhead
  <2>5. /\ x \in Segments /\ x[1] = b[1] /\ x[2] = b[2]
        /\ tensor[x][1] \in Nat /\ tensor[x][1] <= sequence[b[1]]
    BY <1>1, <2>1, SegmentParts, TypeFacts DEF IInv, TensorNotAhead
  <2>6. UNCHANGED <<host, sequence>> /\ tensor' = [tensor EXCEPT ![x] = RTicket(b)]
    BY <1>7, <2>2 DEF RCopy, hostVars
  <2> HIDE DEF x
  <2>7. CASE tensor[x][1] < sequence[b[1]]
    BY <1>1, <2>1, <2>3, <2>4, <2>5, <2>6, <2>7 DEF Delivery!Deliver, TypeOK
  <2>8. CASE tensor[x][1] = sequence[b[1]]
    BY <1>1, <2>3, <2>5, <2>6, <2>8 DEF Delivery!vars, TypeOK
  <2> QED
    BY <2>1, <2>5, <2>7, <2>8
<1>8. ASSUME NEW b \in RecvBlocks, RecvStep(b), ~RCopy(b) PROVE UNCHANGED Delivery!vars
  BY <1>2, <1>8 DEF RecvStep, REpoch, RReady, RConsume, RAbort, hostVars
<1>9. CASE UNCHANGED vars
  BY <1>2, <1>9 DEF vars
<1> QED
  BY <1>3, <1>4, <1>5, <1>6, <1>7, <1>8, <1>9 DEF Next, HostStep, RecvStep, Delivery!Next

\* The ring protocol implements what send and recv promise.
THEOREM Implements == Spec => ImplementsDelivery
<1>1. IInv /\ IReady /\ [Next]_vars => IReady' /\ [Delivery!Next]_(Delivery!vars)
  BY ReadyNext, NextDelivers DEF IInv
<1> QED
  BY <1>1, ReadyInit, InitDelivers, Inductive, PTL DEF Spec, ImplementsDelivery, Delivery!Spec

-----------------------------------------------------------------------------
(***************************************************************************)
(* Without failures no epoch is missed.                                    *)
(***************************************************************************)
LEMMA BarrierInit == Init => IBarrier
BY DEF Init, IBarrier

LEMMA BarrierNext == TypeOK /\ IBarrier /\ [Next]_vars => IBarrier'
<1> SUFFICES ASSUME TypeOK, IBarrier, [Next]_vars PROVE IBarrier'
  OBVIOUS
<1>1. \A q \in Ranks : /\ sequence[q] \in Nat /\ epoch[q] \in Nat
                       /\ barriers[q] \in Nat
  BY SizesAssumption DEF TypeOK, Sequences
<1>2. ASSUME NEW r \in Ranks, Launch(r) PROVE IBarrier'
  BY <1>1, <1>2 DEF Launch, IBarrier, TypeOK
<1>3. ASSUME NEW r \in Ranks, PublishEpoch(r) PROVE IBarrier'
  BY <1>1, <1>3 DEF PublishEpoch, IBarrier, TypeOK, hostVars
<1>4. ASSUME NEW r \in Ranks, KernelEnd(r) PROVE IBarrier'
  <2>1. /\ UNCHANGED <<sequence, epoch>> /\ host[r] = "kernel"
        /\ \A q \in Ranks : q # r => host'[q] = host[q] /\ barriers'[q] = barriers[q]
        /\ \/ host'[r] = "failed" /\ barriers'[r] = barriers[r]
           \/ host'[r] = "barrier" /\ barriers'[r] = barriers[r] + 1
    BY <1>4 DEF KernelEnd, TypeOK
  <2> SUFFICES ASSUME NEW t \in Ranks, NEW q \in Ranks
      PROVE  /\ epoch'[t] <= sequence'[t]
             /\ barriers'[t] <= barriers'[q] + (IF host'[t] = "barrier" THEN 1 ELSE 0)
    BY DEF IBarrier
  <2>2. /\ epoch[t] <= sequence[t]
        /\ barriers[t] <= barriers[q] + (IF host[t] = "barrier" THEN 1 ELSE 0)
    BY DEF IBarrier
  <2>3. CASE t = r
    BY <1>1, <2>1, <2>2, <2>3
  <2>4. CASE t # r
    BY <1>1, <2>1, <2>2, <2>4
  <2> QED
    BY <2>3, <2>4
<1>5. ASSUME NEW r \in Ranks, BarrierExit(r) PROVE IBarrier'
  <2>1. /\ UNCHANGED <<sequence, epoch, barriers>> /\ host'[r] = "idle"
        /\ \A q \in Ranks : q # r => host'[q] = host[q]
        /\ \A q \in Ranks : barriers[r] <= barriers[q]
    BY <1>1, <1>5 DEF BarrierExit, TypeOK
  <2> QED
    BY <1>1, <2>1 DEF IBarrier
<1>6. CASE UNCHANGED <<host, sequence, barriers, epoch>>
  BY <1>6 DEF IBarrier
<1>7. ASSUME NEW b \in SendBlocks, SendStep(b)
      PROVE  UNCHANGED <<host, sequence, barriers, epoch>>
  BY <1>7 DEF SendStep, SEpoch, SFree, SDrain, SCopy, SPublish, SAbort, hostVars
<1>8. ASSUME NEW b \in RecvBlocks, RecvStep(b)
      PROVE  UNCHANGED <<host, sequence, barriers, epoch>>
  BY <1>8 DEF RecvStep, REpoch, RReady, RCopy, RConsume, RAbort, hostVars
<1>9. CASE UNCHANGED vars
  BY <1>6, <1>9 DEF vars
<1> QED
  BY <1>2, <1>3, <1>4, <1>5, <1>6, <1>7, <1>8, <1>9 DEF Next, HostStep

LEMMA InvNoMissedEpoch == IInv /\ IBarrier => NoMissedEpoch
<1> SUFFICES ASSUME IInv, IBarrier, \A r \in Ranks : NeverFailed(r)
             PROVE  NoMissedEpoch
  BY DEF NoMissedEpoch
<1>1. ASSUME NEW r \in Ranks, NEW t \in Ranks, host[r] = "kernel"
      PROVE  epoch[t] <= sequence[r]
  <2>1. \A q \in Ranks : /\ sequence[q] \in Nat /\ epoch[q] \in Nat
                         /\ barriers[q] \in Nat
    BY SizesAssumption DEF IInv, TypeOK, Sequences
  <2>2. barriers[r] = sequence[r] - 1
    BY <1>1, <2>1 DEF NeverFailed
  <2>3. /\ epoch[t] <= sequence[t]
        /\ barriers[t] <= barriers[r] + (IF host[t] = "barrier" THEN 1 ELSE 0)
    BY DEF IBarrier
  <2>4. barriers[t] = sequence[t] - (IF host[t] = "kernel" THEN 1 ELSE 0)
    BY DEF NeverFailed
  <2> QED
    BY <2>1, <2>2, <2>3, <2>4
<1>2. ASSUME NEW b \in SendBlocks, NEW t \in swait[b], spc[b] = "epoch"
      PROVE  epoch[t] <= sequence[b[1]]
  <2>1. swait[b] \in SUBSET Ranks
    BY DEF IInv, TypeOK
  <2>2. host[b[1]] = "kernel" /\ b[1] \in Ranks
    BY <1>2, SendBlockParts DEF IInv, SendInv, SendProgress
  <2> QED
    BY <1>1, <2>1, <2>2
<1>3. ASSUME NEW b \in RecvBlocks, NEW t \in rwait[b], rpc[b] = "epoch"
      PROVE  epoch[t] <= sequence[b[1]]
  <2>1. rwait[b] \in SUBSET Ranks
    BY DEF IInv, TypeOK
  <2>2. host[b[1]] = "kernel" /\ b[1] \in Ranks
    BY <1>3, RecvBlockParts DEF IInv, RecvInv, RecvProgress
  <2> QED
    BY <1>1, <2>1, <2>2
<1> QED
  BY <1>2, <1>3 DEF NoMissedEpoch

\* While no launch has failed, the epoch a block waits for is never past.
THEOREM EpochsAreSeen == Spec => []NoMissedEpoch
<1>1. IBarrier /\ IInv /\ [Next]_vars => IBarrier'
  BY BarrierNext DEF IInv
<1> QED
  BY <1>1, BarrierInit, Inductive, InvNoMissedEpoch, PTL DEF Spec
=====
