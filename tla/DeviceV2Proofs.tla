--------------------------- MODULE DeviceV2Proofs ---------------------------
(***************************************************************************)
(* Proofs about DeviceV2, for all deployments: any number of ranks, nodes, *)
(* channels and launches, with and without time-outs, whatever the plans.  *)
(***************************************************************************)
EXTENDS DeviceV2, FiniteNumbers

-----------------------------------------------------------------------------
(***************************************************************************)
(* The order of the peers.                                                 *)
(***************************************************************************)

\* A set of numbers in ascending order has every one of them.
LEMMA AscendingHasAll ==
  ASSUME NEW S, IsFiniteSet(S), S \subseteq Int
  PROVE  /\ Cardinality(S) \in Nat
         /\ Len(Ascending(S)) = Cardinality(S)
         /\ \A k \in 1 .. Cardinality(S) : Ascending(S)[k] \in S
         /\ \A x \in S : \E k \in 1 .. Cardinality(S) : Ascending(S)[k] = x
<1> DEFINE Less == {p \in S \X S : p[1] < p[2]}
           Place(x) == Cardinality({o \in S : o < x})
<1>1. Cardinality(S) \in Nat
  BY FS_CardinalityType
<1>2. \A x \in S : <<x, x>> \notin Less
  OBVIOUS
<1>3. \A x, y, z \in S : <<x, y>> \in Less /\ <<y, z>> \in Less => <<x, z>> \in Less
  OBVIOUS
<1>4. \A x, y \in S : x # y => <<x, y>> \in Less \/ <<y, x>> \in Less
  OBVIOUS
<1>5. \A x \in S : Lower(S, Less, x) = {o \in S : o < x}
  BY DEF Lower
<1>6. \A x \in S : Cardinality(Lower(S, Less, x)) = Place(x)
  BY <1>5
<1>7. /\ \A x, y \in S : Cardinality(Lower(S, Less, x)) = Cardinality(Lower(S, Less, y)) => x = y
      /\ \A p \in 0 .. Cardinality(S) - 1 : \E x \in S : Cardinality(Lower(S, Less, x)) = p
  <2> HIDE DEF Less
  <2>1. QED
    BY ONLY <1>2, <1>3, <1>4, IsFiniteSet(S), PlacesAreTaken
<1>8. \A x \in S : Cardinality(Lower(S, Less, x)) \in 0 .. Cardinality(S) - 1
  <2> HIDE DEF Less
  <2>1. QED
    BY <1>2, LowerIsFinite
<1> HIDE DEF Place, Less
<1>9. /\ \A x, y \in S : Place(x) = Place(y) => x = y
      /\ \A p \in 0 .. Cardinality(S) - 1 : \E x \in S : Place(x) = p
      /\ \A x \in S : Place(x) \in 0 .. Cardinality(S) - 1
  BY <1>6, <1>7, <1>8
<1>10. Ascending(S) = [k \in 1 .. Cardinality(S) |-> CHOOSE x \in S : Place(x) = k - 1]
  BY DEF Ascending, Place
<1>11. Len(Ascending(S)) = Cardinality(S)
  BY <1>1, <1>10
<1>12. \A k \in 1 .. Cardinality(S) : Ascending(S)[k] \in S /\ Place(Ascending(S)[k]) = k - 1
  <2>1. SUFFICES ASSUME NEW k \in 1 .. Cardinality(S)
                 PROVE  Ascending(S)[k] \in S /\ Place(Ascending(S)[k]) = k - 1
    OBVIOUS
  <2>2. k - 1 \in 0 .. Cardinality(S) - 1
    BY <1>1
  <2>3. PICK x \in S : Place(x) = k - 1
    BY <1>9, <2>2
  <2>4. Ascending(S)[k] = CHOOSE y \in S : Place(y) = k - 1
    BY <1>10
  <2>5. QED
    BY <2>3, <2>4
<1>13. ASSUME NEW x \in S
       PROVE  \E k \in 1 .. Cardinality(S) : Ascending(S)[k] = x
  <2>1. \A n \in Nat : \A p \in 0 .. n - 1 : \E k \in 1 .. n : k - 1 = p
    <3>1. \A n \in Nat : \A p \in 0 .. n - 1 : p + 1 \in 1 .. n /\ (p + 1) - 1 = p
      OBVIOUS
    <3>2. QED
      BY <3>1
  <2>2. \E k \in 1 .. Cardinality(S) : k - 1 = Place(x)
    <3>1. Place(x) \in 0 .. Cardinality(S) - 1
      BY <1>9
    <3>2. QED
      BY <1>1, <2>1, <3>1
  <2>3. PICK k \in 1 .. Cardinality(S) : k - 1 = Place(x)
    BY <2>2
  <2>4. Ascending(S)[k] \in S /\ Place(Ascending(S)[k]) = Place(x)
    BY <1>12, <2>3
  <2>5. QED
    BY <1>9, <2>4
<1>14. QED
  BY <1>1, <1>11, <1>12, <1>13

LEMMA PeersAreFinite ==
  ASSUME NEW dep \in Deployments, NEW r, NEW P, P \subseteq PeersOf(dep, r)
  PROVE  IsFiniteSet(P) /\ P \subseteq Int /\ P \subseteq Ranks(dep)
<1>1. dep.world \in Nat
  BY DeploymentsAssumption
<1>2. P \subseteq 0 .. dep.world - 1
  BY DEF PeersOf, Ranks
<1>3. IsFiniteSet(0 .. dep.world - 1)
  <2> DEFINE last == dep.world - 1
  <2>1. last \in Int
    BY <1>1
  <2> HIDE DEF last
  <2>2. IsFiniteSet(0 .. last)
    BY <2>1, FS_Interval
  <2>3. QED
    BY <2>2 DEF last
<1>4. IsFiniteSet(P)
  BY <1>2, <1>3, FS_Subset
<1>5. P \subseteq Int
  BY <1>1, <1>2
<1>6. QED
  BY <1>2, <1>4, <1>5 DEF Ranks

LEMMA PolledAreRanks ==
  ASSUME NEW dep \in Deployments, NEW r
  PROVE  /\ Len(LsaPeers(dep, r)) \in Nat
         /\ \A k \in 1 .. Len(LsaPeers(dep, r)) : LsaPeers(dep, r)[k] \in Ranks(dep)
<1> DEFINE near == {p \in PeersOf(dep, r) : ~Network(dep, r, p)}
<1>1. IsFiniteSet(near) /\ near \subseteq Int /\ near \subseteq Ranks(dep)
  BY PeersAreFinite
<1>2. LsaPeers(dep, r) = Ascending(near)
  BY DEF LsaPeers
<1> HIDE DEF near
<1>3. /\ Cardinality(near) \in Nat
      /\ Len(Ascending(near)) = Cardinality(near)
      /\ \A k \in 1 .. Cardinality(near) : Ascending(near)[k] \in near
  BY <1>1, AscendingHasAll
<1>4. QED
  BY <1>1, <1>2, <1>3

\* A peer is polled by the gate, or GIN is enabled.
LEMMA PolledOrGin ==
  ASSUME NEW dep \in Deployments, NEW r \in Ranks(dep), NEW q \in PeersOf(dep, r)
  PROVE  \/ \E k \in 1 .. Len(LsaPeers(dep, r)) : LsaPeers(dep, r)[k] = q
         \/ GinEnabled(dep)
<1> DEFINE near == {p \in PeersOf(dep, r) : ~Network(dep, r, p)}
           far  == {p \in PeersOf(dep, r) : Network(dep, r, p)}
<1>1. /\ IsFiniteSet(near) /\ near \subseteq Int
      /\ IsFiniteSet(far) /\ far \subseteq Int
  BY PeersAreFinite
<1>2. LsaPeers(dep, r) = Ascending(near) /\ GinPeers(dep, r) = Ascending(far)
  BY DEF LsaPeers, GinPeers
<1>3. q \in near \/ q \in far
  OBVIOUS
<1> HIDE DEF near, far
<1>4. q \in near => \E k \in 1 .. Len(LsaPeers(dep, r)) : LsaPeers(dep, r)[k] = q
  BY <1>1, <1>2, AscendingHasAll
<1>5. q \in far => GinEnabled(dep)
  <2>1. SUFFICES ASSUME q \in far PROVE GinPeers(dep, r) # <<>>
    BY DEF GinEnabled
  <2>2. /\ Cardinality(far) \in Nat
        /\ Len(Ascending(far)) = Cardinality(far)
        /\ \E k \in 1 .. Cardinality(far) : Ascending(far)[k] = q
    BY <1>1, <2>1, AscendingHasAll
  <2>3. Len(GinPeers(dep, r)) # 0
    BY <1>2, <2>2
  <2>4. QED
    BY <2>3
<1>6. QED
  BY <1>3, <1>4, <1>5

-----------------------------------------------------------------------------
(***************************************************************************)
(* Launches, epochs and gates.                                             *)
(***************************************************************************)
HostPlaces  == {"idle", "register", "reset", "barrier", "kernel", "threw", "returned"}
BlockPlaces == {"off", "epoch", "gate", "run", "flush"}

\* The types of the parts of the state that the launches are about.
TypeInv ==
  /\ d \in Deployments
  /\ host \in [Ranks(d) -> HostPlaces]
  /\ seq \in [Ranks(d) -> Nat]
  /\ epoch \in [Ranks(d) -> Nat]
  /\ error \in [Ranks(d) -> BOOLEAN]
  /\ block \in [Ranks(d) \X (0 .. d.channels - 1) -> [pc : BlockPlaces, at : Nat \ {0}]]
  /\ DOMAIN lead = {l \in Ranks(d) \X Ranks(d) \X (0 .. d.channels - 1) :
                      PairOf(l[1], l[2], d) \in Pairs(d)}

\* Rank q has ended step n, and has begun it and cleared its window for it.
Ended(q, n)   == seq[q] > n \/ (seq[q] = n /\ host[q] \in {"returned", "idle"})
Cleared(q, n) == seq[q] > n \/ (seq[q] = n /\ host[q] \notin {"register", "reset"})

\* A rank that is not idle is in a step; nobody is in a step before everybody
\* has ended the one before, which is what the completion barrier is for.
StepsInv ==
  \A r \in Ranks(d) :
    /\ host[r] # "idle" => seq[r] > 0
    /\ \A q \in Ranks(d) :
         /\ seq[r] > 0 => Ended(q, seq[r] - 1)
         /\ host[r] = "idle" => Ended(q, seq[r])

\* The epoch in a window is of a step its owner has cleared the window for.
EpochInv ==
  \A r \in Ranks(d) :
    /\ epoch[r] <= seq[r]
    /\ host[r] \in {"register", "reset", "barrier"} => epoch[r] < seq[r]

\* The peers of the node that a block's gate is past.
GateInv ==
  \A b \in DOMAIN block :
    /\ block[b].pc # "off" => host[b[1]] = "kernel"
    /\ block[b].pc = "epoch" => block[b].at = 1
    /\ \A k \in 1 .. Len(LsaPeers(d, b[1])) :
         \/ block[b].pc = "gate" /\ k < block[b].at
         \/ block[b].pc \in {"run", "flush"}
         => Cleared(LsaPeers(d, b[1])[k], seq[b[1]])

\* Where GIN is enabled, a kernel without an error began behind the barrier.
BarrierInv ==
  \A r \in Ranks(d) : GinEnabled(d) /\ host[r] = "kernel" /\ ~error[r] =>
    \A q \in Ranks(d) : Cleared(q, seq[r])

LaunchInv == TypeInv /\ StepsInv /\ EpochInv /\ GateInv /\ BarrierInv

\* What the steps of threads and of the network leave of it.
Apart ==
  /\ UNCHANGED <<d, host, seq, epoch, block>>
  /\ error' \in [Ranks(d) -> BOOLEAN]
  /\ \A r \in Ranks(d) : error[r] => error'[r]
  /\ DOMAIN lead' = DOMAIN lead

LEMMA ThreadsAreApart ==
  ASSUME TypeInv, NEW e \in DOMAIN lead, ThreadStep(e)
  PROVE  Apart
<1>1. e[1] \in Ranks(d) /\ error \in [Ranks(d) -> BOOLEAN]
  BY DEF TypeInv
<1>2. CASE WaitPasses(e)
  BY <1>1, <1>2 DEF WaitPasses, Apart
<1>3. CASE WaitGivesUp(e)
  BY <1>1, <1>3 DEF WaitGivesUp, Apart
<1>4. CASE FirstBarrier(e)
  BY <1>1, <1>4 DEF FirstBarrier, Apart
<1>5. CASE CopyOut(e)
  BY <1>1, <1>5 DEF CopyOut, Apart
<1>6. CASE CopyIn(e)
  BY <1>1, <1>6 DEF CopyIn, Apart
<1>7. CASE MainBarrier(e)
  BY <1>1, <1>7 DEF MainBarrier, Apart
<1>8. CASE Post(e)
  BY <1>1, <1>8 DEF Post, Apart
<1>9. CASE LeadCheck(e)
  BY <1>1, <1>9 DEF LeadCheck, Apart
<1>10. CASE PostCheck(e)
  BY <1>1, <1>10 DEF PostCheck, Apart
<1>11. QED
  BY <1>2, <1>3, <1>4, <1>5, <1>6, <1>7, <1>8, <1>9, <1>10 DEF ThreadStep

LEMMA NetworkIsApart ==
  ASSUME TypeInv, NEW l, DeliverPut(l) \/ DeliverCredit(l)
  PROVE  Apart
<1>1. error \in [Ranks(d) -> BOOLEAN]
  BY DEF TypeInv
<1>2. CASE DeliverPut(l)
  BY <1>1, <1>2 DEF DeliverPut, Apart, threads, fifo
<1>3. CASE DeliverCredit(l)
  BY <1>1, <1>3 DEF DeliverCredit, Apart, threads, fifo
<1>4. QED
  BY <1>2, <1>3

LEMMA ApartKeeps ==
  ASSUME LaunchInv, Apart
  PROVE  LaunchInv'
<1>1. TypeInv'
  BY DEF LaunchInv, TypeInv, Apart
<1>2. StepsInv'
  BY DEF LaunchInv, StepsInv, Ended, Apart
<1>3. EpochInv'
  BY DEF LaunchInv, EpochInv, Apart
<1>4. GateInv'
  BY DEF LaunchInv, GateInv, Cleared, Apart
<1>5. BarrierInv'
  BY DEF LaunchInv, TypeInv, BarrierInv, Cleared, Apart
<1>6. QED
  BY <1>1, <1>2, <1>3, <1>4, <1>5 DEF LaunchInv

LEMMA LaunchStart ==
  ASSUME Init
  PROVE  LaunchInv
<1>1. /\ d \in Deployments
      /\ host = [r \in Ranks(d) |-> "idle"]
      /\ seq = [r \in Ranks(d) |-> 0] /\ epoch = [r \in Ranks(d) |-> 0]
      /\ error = [r \in Ranks(d) |-> FALSE]
      /\ block = [b \in Ranks(d) \X (0 .. d.channels - 1) |-> [pc |-> "off", at |-> 1]]
      /\ lead = [e \in {l \in Ranks(d) \X Ranks(d) \X (0 .. d.channels - 1) :
                          PairOf(l[1], l[2], d) \in Pairs(d)} |-> "out"]
  BY DEF Init, Blocks, Links, R
<1>2. TypeInv
  BY <1>1 DEF TypeInv, HostPlaces, BlockPlaces
<1>3. StepsInv
  BY <1>1 DEF StepsInv, Ended
<1>4. EpochInv
  BY <1>1 DEF EpochInv
<1>5. GateInv
  BY <1>1 DEF GateInv
<1>6. BarrierInv
  BY <1>1 DEF BarrierInv
<1>7. QED
  BY <1>2, <1>3, <1>4, <1>5, <1>6 DEF LaunchInv

\* A step that has ended stays so, and so does what has been cleared.
LEMMA OnceCleared ==
  ASSUME TypeInv, NEW r \in Ranks(d), HostStep(r)
  PROVE  /\ d' = d
         /\ \A q \in Ranks(d), n \in Int : Ended(q, n) => Ended(q, n)'
         /\ \A q \in Ranks(d), n \in Int : Cleared(q, n) => Cleared(q, n)'
<1>1. host \in [Ranks(d) -> HostPlaces] /\ seq \in [Ranks(d) -> Nat]
  BY DEF TypeInv
<1>2. CASE Launch(r)
  BY <1>1, <1>2 DEF Launch, Ended, Cleared
<1>3. CASE Register(r)
  BY <1>1, <1>3 DEF Register, Ended, Cleared
<1>4. CASE Reset(r)
  BY <1>1, <1>4 DEF Reset, Ended, Cleared
<1>5. CASE GinBarrier(r)
  BY <1>1, <1>5 DEF GinBarrier, Ended, Cleared
<1>6. CASE Synchronize(r)
  BY <1>1, <1>6 DEF Synchronize, Ended, Cleared
<1>7. CASE Complete(r)
  BY <1>1, <1>7 DEF Complete, Ended, Cleared
<1>8. QED
  BY <1>2, <1>3, <1>4, <1>5, <1>6, <1>7 DEF HostStep

LEMMA HostTypes ==
  ASSUME TypeInv, NEW r \in Ranks(d), HostStep(r)
  PROVE  TypeInv'
<1> USE DEF TypeInv
<1>1. CASE Launch(r)
  BY <1>1 DEF Launch, threads, HostPlaces
<1>2. CASE Register(r)
  BY <1>2 DEF Register, threads, HostPlaces
<1>3. CASE Reset(r)
  BY <1>3 DEF Reset, StartKernel, threads, HostPlaces, BlockPlaces
<1>4. CASE GinBarrier(r)
  <2>1. error' \in [Ranks(d) -> BOOLEAN]
    BY <1>4 DEF GinBarrier
  <2>2. /\ UNCHANGED <<d, seq, epoch, lead>>
        /\ host' = [host EXCEPT ![r] = "kernel"] /\ StartKernel(r)
    BY <1>4 DEF GinBarrier, threads
  <2>3. QED
    BY <2>1, <2>2 DEF StartKernel, HostPlaces, BlockPlaces
<1>5. CASE Synchronize(r)
  BY <1>5 DEF Synchronize, threads, HostPlaces
<1>6. CASE Complete(r)
  BY <1>6 DEF Complete, threads, HostPlaces
<1>7. QED
  BY <1>1, <1>2, <1>3, <1>4, <1>5, <1>6 DEF HostStep

LEMMA HostSteps ==
  ASSUME TypeInv, StepsInv, NEW r \in Ranks(d), HostStep(r)
  PROVE  StepsInv'
<1>1. /\ d' = d
      /\ \A q \in Ranks(d), n \in Int : Ended(q, n) => Ended(q, n)'
  BY OnceCleared
<1>2. host \in [Ranks(d) -> HostPlaces] /\ seq \in [Ranks(d) -> Nat] /\ DOMAIN host = Ranks(d)
  BY DEF TypeInv
<1>3. ASSUME NEW x \in Ranks(d), host'[x] = host[x], seq'[x] = seq[x], NEW q \in Ranks(d)
      PROVE  /\ host'[x] # "idle" => seq'[x] > 0
             /\ seq'[x] > 0 => Ended(q, seq[x] - 1)'
             /\ host'[x] = "idle" => Ended(q, seq[x])'
  <2>1. seq[x] \in Int /\ seq[x] - 1 \in Int
    BY <1>2
  <2>2. QED
    BY <1>1, <1>3, <2>1 DEF StepsInv
<1>4. CASE Launch(r)
  <2>1. /\ host[r] = "idle" /\ seq'[r] = seq[r] + 1 /\ host'[r] # "idle"
        /\ \A x \in Ranks(d) \ {r} : host'[x] = host[x] /\ seq'[x] = seq[x]
    BY <1>2, <1>4 DEF Launch
  <2>2. ASSUME NEW q \in Ranks(d)
        PROVE  Ended(q, seq[r] - 1)'
    <3>1. Ended(q, seq[r]) /\ seq[r] \in Int
      BY <1>2, <2>1 DEF StepsInv
    <3>2. seq'[r] - 1 = seq[r]
      BY <2>1, <3>1
    <3>3. QED
      BY <1>1, <3>1, <3>2 DEF Ended
  <2>3. seq'[r] > 0
    BY <1>2, <2>1
  <2>4. QED
    BY <1>1, <1>3, <2>1, <2>2, <2>3 DEF StepsInv
<1>5. CASE Complete(r)
  <2>1. /\ host[r] # "idle" /\ seq' = seq
        /\ \A x \in Ranks(d) \ {r} : host'[x] = host[x] /\ seq'[x] = seq[x]
        /\ \A q \in Ranks(d) : Ended(q, seq[r])
    BY <1>2, <1>5 DEF Complete, Ended, R
  <2>2. ASSUME NEW q \in Ranks(d)
        PROVE  Ended(q, seq[r])' /\ Ended(q, seq[r] - 1)'
    <3>1. seq[r] \in Int /\ seq[r] - 1 \in Int /\ seq[r] > 0
      BY <1>2, <2>1 DEF StepsInv
    <3>2. QED
      BY <1>1, <2>1, <3>1 DEF StepsInv
  <2>3. seq'[r] > 0
    BY <2>1 DEF StepsInv
  <2>4. QED
    BY <1>1, <1>3, <2>1, <2>2, <2>3 DEF StepsInv
<1>6. CASE ~Launch(r) /\ ~Complete(r)
  <2>1. /\ host[r] # "idle" /\ seq' = seq /\ host'[r] # "idle"
        /\ \A x \in Ranks(d) \ {r} : host'[x] = host[x]
    <3>1. CASE Register(r)
      BY <1>2, <3>1 DEF Register
    <3>2. CASE Reset(r)
      BY <1>2, <3>2 DEF Reset
    <3>3. CASE GinBarrier(r)
      BY <1>2, <3>3 DEF GinBarrier
    <3>4. CASE Synchronize(r)
      BY <1>2, <3>4 DEF Synchronize
    <3>5. QED
      BY <1>6, <3>1, <3>2, <3>3, <3>4 DEF HostStep
  <2>2. ASSUME NEW q \in Ranks(d)
        PROVE  Ended(q, seq[r] - 1)'
    <3>1. seq[r] - 1 \in Int /\ seq[r] > 0
      BY <1>2, <2>1 DEF StepsInv
    <3>2. QED
      BY <1>1, <2>1, <3>1 DEF StepsInv
  <2>3. seq'[r] > 0
    BY <2>1 DEF StepsInv
  <2>4. QED
    BY <1>1, <1>3, <2>1, <2>2, <2>3 DEF StepsInv
<1>7. QED
  BY <1>4, <1>5, <1>6

LEMMA HostEpochs ==
  ASSUME TypeInv, StepsInv, EpochInv, NEW r \in Ranks(d), HostStep(r)
  PROVE  EpochInv'
<1>1. /\ host \in [Ranks(d) -> HostPlaces] /\ seq \in [Ranks(d) -> Nat]
      /\ epoch \in [Ranks(d) -> Nat] /\ d' = d
  BY OnceCleared DEF TypeInv
<1>2. host[r] # "idle" => seq[r] > 0
  BY DEF StepsInv
<1>3. CASE Launch(r)
  BY <1>1, <1>3 DEF Launch, EpochInv
<1>4. CASE Register(r)
  BY <1>1, <1>4 DEF Register, EpochInv
<1>5. CASE Reset(r)
  BY <1>1, <1>2, <1>5 DEF Reset, EpochInv
<1>6. CASE GinBarrier(r)
  BY <1>1, <1>6 DEF GinBarrier, EpochInv
<1>7. CASE Synchronize(r)
  BY <1>1, <1>7 DEF Synchronize, EpochInv
<1>8. CASE Complete(r)
  BY <1>1, <1>8 DEF Complete, EpochInv
<1>9. QED
  BY <1>3, <1>4, <1>5, <1>6, <1>7, <1>8 DEF HostStep

\* A host that starts its kernel has cleared nothing but its own; what its
\* blocks see begins at their gates.
LEMMA HostGates ==
  ASSUME TypeInv, GateInv, NEW r \in Ranks(d), HostStep(r)
  PROVE  GateInv'
<1>1. /\ host \in [Ranks(d) -> HostPlaces] /\ seq \in [Ranks(d) -> Nat]
      /\ block \in [Ranks(d) \X (0 .. d.channels - 1) -> [pc : BlockPlaces, at : Nat \ {0}]]
      /\ DOMAIN block = Ranks(d) \X (0 .. d.channels - 1)
      /\ d' = d /\ DOMAIN block' = DOMAIN block
  BY OnceCleared, HostTypes DEF TypeInv
<1>2. \A q \in Ranks(d), n \in Int : Cleared(q, n) => Cleared(q, n)'
  BY OnceCleared
<1>3. ASSUME NEW b \in DOMAIN block
      PROVE  \/ block'[b].pc = "off"
             \/ block'[b].pc = "epoch" /\ block'[b].at = 1 /\ host'[b[1]] = "kernel"
             \/ block'[b].pc = "gate" /\ block'[b].at = 1 /\ host'[b[1]] = "kernel"
             \/ /\ block'[b] = block[b] /\ host'[b[1]] = host[b[1]] /\ seq'[b[1]] = seq[b[1]]
  <2>1. /\ b[1] \in Ranks(d)
        /\ host[b[1]] # "kernel" => block[b].pc = "off"
    BY <1>1 DEF GateInv
  <2>2. CASE Launch(r)
    BY <1>1, <2>1, <2>2 DEF Launch
  <2>3. CASE Register(r)
    BY <1>1, <2>1, <2>3 DEF Register
  <2>4. CASE Reset(r)
    BY <1>1, <2>1, <2>4 DEF Reset, StartKernel
  <2>5. CASE GinBarrier(r)
    BY <1>1, <2>1, <2>5 DEF GinBarrier, StartKernel
  <2>6. CASE Synchronize(r)
    BY <1>1, <2>1, <2>6 DEF Synchronize
  <2>7. CASE Complete(r)
    BY <1>1, <2>1, <2>7 DEF Complete
  <2>8. QED
    BY <2>2, <2>3, <2>4, <2>5, <2>6, <2>7 DEF HostStep
<1>4. ASSUME NEW b \in DOMAIN block, NEW k \in 1 .. Len(LsaPeers(d, b[1])),
             block'[b] = block[b], seq'[b[1]] = seq[b[1]],
             \/ block[b].pc = "gate" /\ k < block[b].at
             \/ block[b].pc \in {"run", "flush"}
      PROVE  Cleared(LsaPeers(d, b[1])[k], seq[b[1]])'
  <2>1. Cleared(LsaPeers(d, b[1])[k], seq[b[1]])
    BY <1>4 DEF GateInv
  <2>2. LsaPeers(d, b[1])[k] \in Ranks(d) /\ seq[b[1]] \in Int
    BY <1>1, PolledAreRanks DEF TypeInv
  <2>3. QED
    BY <1>1, <1>2, <1>4, <2>1, <2>2 DEF Cleared
<1>5. ASSUME NEW b \in DOMAIN block
      PROVE  /\ block'[b].pc # "off" => host'[b[1]] = "kernel"
             /\ block'[b].pc = "epoch" => block'[b].at = 1
             /\ \A k \in 1 .. Len(LsaPeers(d, b[1])) :
                  \/ block'[b].pc = "gate" /\ k < block'[b].at
                  \/ block'[b].pc \in {"run", "flush"}
                  => Cleared(LsaPeers(d, b[1])[k], seq[b[1]])'
  <2>1. /\ block[b].pc # "off" => host[b[1]] = "kernel"
        /\ block[b].pc = "epoch" => block[b].at = 1
    BY DEF GateInv
  <2>2. CASE block'[b] = block[b] /\ host'[b[1]] = host[b[1]] /\ seq'[b[1]] = seq[b[1]]
    BY <1>4, <2>1, <2>2
  <2>3. CASE \/ block'[b].pc = "off"
             \/ block'[b].pc = "epoch" /\ block'[b].at = 1 /\ host'[b[1]] = "kernel"
             \/ block'[b].pc = "gate" /\ block'[b].at = 1 /\ host'[b[1]] = "kernel"
    BY <2>3, PolledAreRanks DEF TypeInv
  <2>4. QED
    BY <1>3, <2>2, <2>3
<1>6. QED
  BY <1>1, <1>5 DEF GateInv

LEMMA HostBarriers ==
  ASSUME TypeInv, BarrierInv, NEW r \in Ranks(d), HostStep(r)
  PROVE  BarrierInv'
<1>1. /\ host \in [Ranks(d) -> HostPlaces] /\ seq \in [Ranks(d) -> Nat]
      /\ error \in [Ranks(d) -> BOOLEAN] /\ d' = d /\ DOMAIN host = Ranks(d)
  BY OnceCleared DEF TypeInv
<1>2. \A q \in Ranks(d), n \in Int : Cleared(q, n) => Cleared(q, n)'
  BY OnceCleared
<1>3. ASSUME GinEnabled(d), NEW x \in Ranks(d), host'[x] = "kernel", ~error'[x],
             NEW q \in Ranks(d)
      PROVE  Cleared(q, seq[x])'
  <2>1. seq[x] \in Int
    BY <1>1
  <2>2. CASE host[x] = "kernel" /\ ~error[x] /\ seq'[x] = seq[x]
    <3>1. Cleared(q, seq[x])
      BY <1>3, <2>2 DEF BarrierInv
    <3>2. QED
      BY <1>2, <2>1, <2>2, <3>1 DEF Cleared
  <2>3. CASE x = r /\ GinBarrier(r)
    <3>1. AtBarrier(r) /\ seq' = seq
      BY <1>1, <1>3, <2>3 DEF GinBarrier
    <3>2. Cleared(q, seq[x])
      BY <1>1, <2>3, <3>1 DEF AtBarrier, Cleared, R
    <3>3. QED
      BY <1>2, <2>1, <3>1, <3>2 DEF Cleared
  <2>4. ~(x = r /\ GinBarrier(r)) => host[x] = "kernel" /\ ~error[x] /\ seq'[x] = seq[x]
    <3>1. CASE Launch(r)
      BY <1>1, <1>3, <3>1 DEF Launch
    <3>2. CASE Register(r)
      BY <1>1, <1>3, <3>2 DEF Register
    <3>3. CASE Reset(r)
      BY <1>1, <1>3, <3>3 DEF Reset
    <3>4. CASE GinBarrier(r)
      BY <1>1, <1>3, <3>4 DEF GinBarrier
    <3>5. CASE Synchronize(r)
      BY <1>1, <1>3, <3>5 DEF Synchronize
    <3>6. CASE Complete(r)
      BY <1>1, <1>3, <3>6 DEF Complete
    <3>7. QED
      BY <3>1, <3>2, <3>3, <3>4, <3>5, <3>6 DEF HostStep
  <2>5. QED
    BY <2>2, <2>3, <2>4
<1>4. QED
  BY <1>1, <1>3 DEF BarrierInv

LEMMA Entered ==
  ASSUME NEW b, NEW n, EnterBatch(b, n)
  PROVE  /\ \/ block' = [block EXCEPT ![b] = [pc |-> "flush", at |-> 1]]
            \/ block' = [block EXCEPT ![b] = [pc |-> "run", at |-> n]]
         /\ DOMAIN lead' = DOMAIN lead
<1>1. CASE n > Len(Works(b))
  BY <1>1 DEF EnterBatch, threads
<1>2. CASE ~(n > Len(Works(b)))
  BY <1>2 DEF EnterBatch
<1>3. QED
  BY <1>1, <1>2

\* A block's step leaves the hosts alone and, but for the first block's,
\* the epochs.
LEMMA BlockTypes ==
  ASSUME TypeInv, NEW b \in DOMAIN block, BlockStep(b)
  PROVE  /\ TypeInv'
         /\ d' = d /\ host' = host /\ seq' = seq
         /\ \A r \in Ranks(d) : error[r] => error'[r]
<1>1. /\ b[1] \in Ranks(d) /\ error \in [Ranks(d) -> BOOLEAN] /\ seq \in [Ranks(d) -> Nat]
      /\ epoch \in [Ranks(d) -> Nat] /\ block[b].at \in Nat \ {0}
      /\ block \in [Ranks(d) \X (0 .. d.channels - 1) -> [pc : BlockPlaces, at : Nat \ {0}]]
  BY DEF TypeInv
<1>2. ASSUME NEW n \in Nat \ {0}, EnterBatch(b, n)
      PROVE  /\ block' \in [Ranks(d) \X (0 .. d.channels - 1) -> [pc : BlockPlaces, at : Nat \ {0}]]
             /\ DOMAIN lead' = DOMAIN lead
  BY <1>1, <1>2, Entered DEF BlockPlaces
<1>3. CASE PublishEpoch(b)
  BY <1>1, <1>3 DEF PublishEpoch, TypeInv, threads, BlockPlaces
<1>4. CASE Gate(b)
  <2>1. /\ UNCHANGED <<d, host, seq, epoch>>
        /\ error' \in [Ranks(d) -> BOOLEAN]
        /\ \A r \in Ranks(d) : error[r] => error'[r]
    BY <1>1, <1>4 DEF Gate
  <2>2. /\ block' \in [Ranks(d) \X (0 .. d.channels - 1) -> [pc : BlockPlaces, at : Nat \ {0}]]
        /\ DOMAIN lead' = DOMAIN lead
    <3>1. CASE block[b].at > Len(LsaPeers(d, b[1]))
      <4>1. 1 \in Nat \ {0} /\ EnterBatch(b, 1)
        BY <1>4, <3>1 DEF Gate
      <4>2. QED
        BY <1>2, <4>1
    <3>2. CASE ~(block[b].at > Len(LsaPeers(d, b[1])))
      <4>1. /\ \/ block' = [block EXCEPT ![b].at = @ + 1]
               \/ block' = [block EXCEPT ![b] = [pc |-> "off", at |-> 1]]
            /\ lead' = lead
        BY <1>4, <3>2 DEF Gate, threads
      <4>2. block[b].at + 1 \in Nat \ {0}
        BY <1>1
      <4>3. QED
        BY <1>1, <4>1, <4>2 DEF BlockPlaces
    <3>3. QED
      BY <3>1, <3>2
  <2>3. QED
    BY <2>1, <2>2 DEF TypeInv
<1>5. CASE NextBatch(b)
  <2>1. block[b].at + 1 \in Nat \ {0}
    BY <1>1
  <2>2. QED
    BY <1>2, <1>5, <2>1 DEF NextBatch, TypeInv
<1>6. CASE EndBlock(b)
  BY <1>1, <1>6 DEF EndBlock, TypeInv, threads, BlockPlaces
<1>7. QED
  BY <1>3, <1>4, <1>5, <1>6 DEF BlockStep

LEMMA BlockSteps ==
  ASSUME LaunchInv, NEW b \in DOMAIN block, BlockStep(b)
  PROVE  StepsInv' /\ EpochInv' /\ BarrierInv'
<1>1. /\ d' = d /\ host' = host /\ seq' = seq
      /\ \A r \in Ranks(d) : error[r] => error'[r]
  BY BlockTypes DEF LaunchInv
<1>2. StepsInv'
  BY <1>1 DEF LaunchInv, StepsInv, Ended
<1>3. BarrierInv'
  BY <1>1 DEF LaunchInv, TypeInv, BarrierInv, Cleared
<1>4. EpochInv'
  <2>1. CASE PublishEpoch(b)
    <3>1. b[1] \in Ranks(d) /\ host[b[1]] = "kernel"
      BY <2>1 DEF PublishEpoch, LaunchInv, GateInv, TypeInv
    <3>2. QED
      BY <1>1, <2>1, <3>1 DEF PublishEpoch, LaunchInv, EpochInv, TypeInv
  <2>2. CASE ~PublishEpoch(b)
    <3>1. epoch' = epoch
      BY <2>2 DEF BlockStep, Gate, NextBatch, EndBlock
    <3>2. QED
      BY <1>1, <3>1 DEF LaunchInv, EpochInv
  <2>3. QED
    BY <2>1, <2>2
<1>5. QED
  BY <1>2, <1>3, <1>4

\* The gate is past a peer only when it has read the peer's epoch of this
\* step, which the peer writes behind the reset of its window.
LEMMA BlockGates ==
  ASSUME LaunchInv, NEW b \in DOMAIN block, BlockStep(b)
  PROVE  GateInv'
<1> DEFINE Past(x) ==
      \A k \in 1 .. Len(LsaPeers(d, x[1])) :
         \/ block[x].pc = "gate" /\ k < block[x].at
         \/ block[x].pc \in {"run", "flush"}
         => Cleared(LsaPeers(d, x[1])[k], seq[x[1]])
<1>1. d' = d /\ host' = host /\ seq' = seq /\ TypeInv'
  BY BlockTypes DEF LaunchInv
<1>2. /\ b[1] \in Ranks(d) /\ block[b].at \in Nat \ {0} /\ seq \in [Ranks(d) -> Nat]
      /\ epoch \in [Ranks(d) -> Nat] /\ d \in Deployments
      /\ block \in [Ranks(d) \X (0 .. d.channels - 1) -> [pc : BlockPlaces, at : Nat \ {0}]]
  BY DEF LaunchInv, TypeInv
<1>3. DOMAIN block' = DOMAIN block
  BY <1>1, <1>2 DEF TypeInv
<1>4. /\ block[b].pc # "off"
      /\ \A x \in DOMAIN block \ {b} : block'[x] = block[x]
  BY <1>2 DEF BlockStep, PublishEpoch, Gate, NextBatch, EndBlock, EnterBatch
<1>5. host[b[1]] = "kernel" /\ Past(b)
  BY <1>4 DEF LaunchInv, GateInv
<1>6. ASSUME NEW k \in 1 .. Len(LsaPeers(d, b[1])),
             \/ block'[b].pc = "gate" /\ k < block'[b].at
             \/ block'[b].pc \in {"run", "flush"}
      PROVE  Cleared(LsaPeers(d, b[1])[k], seq[b[1]])
  <2> DEFINE q == LsaPeers(d, b[1])[k]
  <2>1. q \in Ranks(d) /\ k \in Nat /\ Len(LsaPeers(d, b[1])) \in Nat /\ k <= Len(LsaPeers(d, b[1])) /\ k >= 1
    BY <1>2, PolledAreRanks
  <2>2. CASE PublishEpoch(b)
    <3>1. block'[b].pc = "gate" /\ block'[b].at = 1
      BY <1>2, <2>2 DEF PublishEpoch, LaunchInv, GateInv
    <3>2. QED
      BY <1>6, <2>1, <3>1
  <2>3. CASE Gate(b)
    <3>1. CASE block[b].at > Len(LsaPeers(d, b[1]))
      BY <1>2, <1>5, <2>1, <2>3, <3>1 DEF Gate
    <3>2. CASE ~(block[b].at > Len(LsaPeers(d, b[1])))
      <4>1. /\ block[b].pc = "gate" /\ block'[b].pc = "gate" /\ block'[b].at = block[b].at + 1
            /\ epoch[LsaPeers(d, b[1])[block[b].at]] >= seq[b[1]]
        BY <1>2, <1>6, <2>3, <3>2 DEF Gate
      <4>2. CASE k < block[b].at
        BY <1>5, <4>1, <4>2
      <4>3. CASE k = block[b].at
        <5>1. epoch[q] >= seq[b[1]]
          BY <4>1, <4>3
        <5> HIDE DEF q
        <5>2. /\ epoch[q] <= seq[q]
              /\ host[q] \in {"register", "reset", "barrier"} => epoch[q] < seq[q]
          BY <2>1 DEF LaunchInv, EpochInv
        <5>3. epoch[q] \in Nat /\ seq[q] \in Nat /\ seq[b[1]] \in Nat
          BY <1>2, <2>1
        <5>4. Cleared(q, seq[b[1]])
          BY <5>1, <5>2, <5>3 DEF Cleared
        <5>5. QED
          BY <5>4 DEF q
      <4>4. QED
        BY <1>2, <1>6, <2>1, <4>1, <4>2, <4>3
    <3>3. QED
      BY <3>1, <3>2
  <2>4. CASE NextBatch(b)
    <3>1. block[b].pc = "run"
      BY <2>4 DEF NextBatch
    <3>2. QED
      BY <1>5, <3>1
  <2>5. CASE EndBlock(b)
    <3>1. block[b].pc = "flush"
      BY <2>5 DEF EndBlock
    <3>2. QED
      BY <1>5, <3>1
  <2>6. QED
    BY <2>2, <2>3, <2>4, <2>5 DEF BlockStep
<1>7. block'[b].pc # "epoch"
  <2>1. CASE PublishEpoch(b)
    BY <1>2, <2>1 DEF PublishEpoch
  <2>2. CASE Gate(b)
    <3>1. CASE block[b].at > Len(LsaPeers(d, b[1]))
      BY <1>2, <2>2, <3>1, Entered DEF Gate
    <3>2. CASE ~(block[b].at > Len(LsaPeers(d, b[1])))
      <4>1. /\ block[b].pc = "gate"
            /\ \/ block' = [block EXCEPT ![b].at = @ + 1]
               \/ block' = [block EXCEPT ![b] = [pc |-> "off", at |-> 1]]
        BY <2>2, <3>2 DEF Gate
      <4>2. QED
        BY <1>2, <4>1
    <3>3. QED
      BY <3>1, <3>2
  <2>3. CASE NextBatch(b)
    BY <1>2, <2>3, Entered DEF NextBatch
  <2>4. CASE EndBlock(b)
    BY <1>2, <2>4 DEF EndBlock
  <2>5. QED
    BY <2>1, <2>2, <2>3, <2>4 DEF BlockStep
<1>8. ASSUME NEW x \in DOMAIN block
      PROVE  /\ block'[x].pc # "off" => host[x[1]] = "kernel"
             /\ block'[x].pc = "epoch" => block'[x].at = 1
             /\ \A k \in 1 .. Len(LsaPeers(d, x[1])) :
                  \/ block'[x].pc = "gate" /\ k < block'[x].at
                  \/ block'[x].pc \in {"run", "flush"}
                  => Cleared(LsaPeers(d, x[1])[k], seq[x[1]])
  <2>1. CASE x = b
    BY <1>5, <1>6, <1>7, <2>1
  <2>2. CASE x # b
    <3>1. block'[x] = block[x]
      BY <1>4, <2>2
    <3>2. QED
      BY <3>1 DEF LaunchInv, GateInv
  <2>3. QED
    BY <2>1, <2>2
<1>9. QED
  BY <1>1, <1>3, <1>8 DEF GateInv, Cleared

LEMMA LaunchKept ==
  ASSUME LaunchInv, [Next]_vars
  PROVE  LaunchInv'
<1>1. TypeInv /\ R = Ranks(d)
  <2>1. TypeInv
    BY DEF LaunchInv
  <2>2. QED
    BY <2>1 DEF TypeInv, R
<1>2. ASSUME NEW r \in R, HostStep(r) PROVE LaunchInv'
  <2>1. r \in Ranks(d)
    BY <1>1
  <2>2. TypeInv' /\ StepsInv' /\ EpochInv'
    BY <1>2, <2>1, HostTypes, HostSteps, HostEpochs DEF LaunchInv
  <2>3. GateInv' /\ BarrierInv'
    BY <1>2, <2>1, HostGates, HostBarriers DEF LaunchInv
  <2>4. QED
    BY <2>2, <2>3 DEF LaunchInv
<1>3. ASSUME NEW b \in DOMAIN block, BlockStep(b) PROVE LaunchInv'
  BY <1>1, <1>3, BlockTypes, BlockSteps, BlockGates DEF LaunchInv
<1>4. ASSUME NEW e \in DOMAIN lead, ThreadStep(e) PROVE LaunchInv'
  BY <1>1, <1>4, ThreadsAreApart, ApartKeeps
<1>5. ASSUME NEW l, DeliverPut(l) \/ DeliverCredit(l) PROVE LaunchInv'
  BY <1>1, <1>5, NetworkIsApart, ApartKeeps
<1>6. CASE UNCHANGED vars
  <2>1. Apart
    BY <1>1, <1>6 DEF vars, threads, Apart, TypeInv
  <2>2. QED
    BY <2>1, ApartKeeps
<1>7. QED
  BY <1>2, <1>3, <1>4, <1>5, <1>6 DEF Next

THEOREM LaunchInductive == Spec => []LaunchInv
<1>1. LaunchInv /\ [Next]_vars => LaunchInv'
  BY LaunchKept
<1>2. QED
  BY <1>1, LaunchStart, PTL DEF Spec

THEOREM ClearedWindows == Spec => []PeerHasReset
<1>1. LaunchInv => PeerHasReset
  <2>1. SUFFICES ASSUME LaunchInv, NEW e \in DOMAIN lead, block[BlockOf(e)].pc = "run",
                        ~error[e[1]]
                 PROVE  seq[e[2]] = seq[e[1]] /\ host[e[2]] \notin {"idle", "register", "reset"}
    BY DEF PeerHasReset
  <2>2. /\ e[1] \in Ranks(d) /\ e[2] \in Ranks(d) /\ BlockOf(e) \in DOMAIN block
        /\ BlockOf(e)[1] = e[1] /\ e[2] \in PeersOf(d, e[1]) /\ d \in Deployments
        /\ seq[e[1]] \in Nat /\ seq[e[2]] \in Nat
    BY <2>1 DEF LaunchInv, TypeInv, BlockOf, PeersOf
  <2>3. host[e[1]] = "kernel"
    BY <2>1, <2>2 DEF LaunchInv, GateInv
  <2>4. Cleared(e[2], seq[e[1]])
    <3>1. CASE GinEnabled(d)
      BY <2>1, <2>2, <2>3, <3>1 DEF LaunchInv, BarrierInv
    <3>2. CASE ~GinEnabled(d)
      <4>1. PICK k \in 1 .. Len(LsaPeers(d, e[1])) : LsaPeers(d, e[1])[k] = e[2]
        BY <2>2, <3>2, PolledOrGin
      <4>2. QED
        BY <2>1, <2>2, <4>1 DEF LaunchInv, GateInv
    <3>3. QED
      BY <3>1, <3>2
  <2>5. /\ seq[e[2]] > 0 => Ended(e[1], seq[e[2]] - 1)
        /\ host[e[2]] = "idle" => Ended(e[1], seq[e[2]])
    BY <2>1, <2>2 DEF LaunchInv, StepsInv
  <2>6. QED
    BY <2>2, <2>3, <2>4, <2>5 DEF Cleared, Ended
<1>2. QED
  BY <1>1, LaunchInductive, PTL

-----------------------------------------------------------------------------
(***************************************************************************)
(* The ends of the streams, and the steps of their FIFOs.                  *)
(***************************************************************************)
LEMMA LinkParts ==
  ASSUME TypeInv, NEW e \in Links
  PROVE  /\ e[1] \in Ranks(d) /\ e[2] \in Ranks(d) /\ e[3] \in 0 .. d.channels - 1
         /\ e = <<e[1], e[2], e[3]>>
         /\ Back(e) \in Links /\ Back(Back(e)) = e
         /\ Back(e)[1] = e[2] /\ Back(e)[2] = e[1] /\ Back(e)[3] = e[3]
         /\ BlockOf(e) \in DOMAIN block /\ BlockOf(e)[1] = e[1] /\ BlockOf(e)[2] = e[3]
         /\ e[2] \in PeersOf(d, e[1]) /\ e[1] \in PeersOf(d, e[2]) /\ e[1] # e[2]
         /\ Sends(e[1]) <=> ~Sends(e[2])
         /\ Gin(Back(e)) <=> Gin(e)
         /\ Depth(Back(e)) = Depth(e) /\ Depth(e) \in Nat \ {0}
<1>1. /\ d \in Deployments /\ DOMAIN host = Ranks(d)
      /\ DOMAIN block = Ranks(d) \X (0 .. d.channels - 1)
  BY DEF TypeInv
<1>2. /\ e \in Ranks(d) \X Ranks(d) \X (0 .. d.channels - 1)
      /\ PairOf(e[1], e[2], d) \in Pairs(d)
  BY <1>1 DEF Links, R
<1>3. /\ Pairs(d) \subseteq d.senders \X (Ranks(d) \ d.senders)
      /\ d.depth \in Nat \ {0} /\ d.ginDepth \in Nat \ {0}
  BY <1>1, DeploymentsAssumption
<1>4. /\ e[1] \in Ranks(d) /\ e[2] \in Ranks(d) /\ e[3] \in 0 .. d.channels - 1
      /\ e = <<e[1], e[2], e[3]>>
  BY <1>2
<1>5. /\ e[1] \in d.senders <=> e[2] \notin d.senders
      /\ PairOf(e[2], e[1], d) = PairOf(e[1], e[2], d)
  <2>1. CASE e[1] \in d.senders
    <3>1. <<e[1], e[2]>> \in Pairs(d)
      BY <1>2, <2>1 DEF PairOf
    <3>2. e[2] \notin d.senders
      BY <1>3, <3>1
    <3>3. QED
      BY <2>1, <3>2 DEF PairOf
  <2>2. CASE e[1] \notin d.senders
    <3>1. <<e[2], e[1]>> \in Pairs(d)
      BY <1>2, <2>2 DEF PairOf
    <3>2. e[2] \in d.senders
      BY <1>3, <3>1
    <3>3. QED
      BY <2>2, <3>2 DEF PairOf
  <2>3. QED
    BY <2>1, <2>2
<1>6. /\ Back(e)[1] = e[2] /\ Back(e)[2] = e[1] /\ Back(e)[3] = e[3]
      /\ Back(Back(e)) = e
  BY <1>4 DEF Back
<1>7. Back(e) \in Links
  BY <1>1, <1>2, <1>4, <1>5, <1>6 DEF Links, R, Back
<1>8. BlockOf(e) \in DOMAIN block /\ BlockOf(e)[1] = e[1] /\ BlockOf(e)[2] = e[3]
  BY <1>1, <1>4 DEF BlockOf
<1>9. /\ e[2] \in PeersOf(d, e[1]) /\ e[1] \in PeersOf(d, e[2]) /\ e[1] # e[2]
  BY <1>2, <1>4, <1>5 DEF PeersOf
<1>10. /\ Sends(e[1]) <=> ~Sends(e[2])
       /\ Gin(Back(e)) <=> Gin(e)
       /\ Depth(Back(e)) = Depth(e) /\ Depth(e) \in Nat \ {0}
  BY <1>3, <1>5, <1>6 DEF Sends, Gin, Network, Depth
<1>11. QED
  BY <1>4, <1>6, <1>7, <1>8, <1>9, <1>10

Pc(e) == block[BlockOf(e)].pc
At(e) == block[BlockOf(e)].at
Steps(e) == WorkSteps(WorkOf(e))
Serving(e) == Pc(e) = "run" /\ WorksIn(e, At(e)) # {}
Drains(e) == WorkOf(e).final /\ Sends(e[1])

\* What the works of an end's batches come to: the steps before the first
\* batch are none, and a batch adds those of the work it has of the end.
LEMMA StepsAre ==
  ASSUME StepsInOrder, NEW e \in Links, Used(e)
  PROVE  /\ Count(e) \in Nat /\ StepsBefore(e, 1) = 0 /\ LastStep(e) \in Nat
         /\ \A n \in 1 .. Count(e) + 1 : StepsBefore(e, n) \in Nat /\ StepsBefore(e, n) <= LastStep(e)
         /\ \A n \in 1 .. Count(e) + 1 : \A m \in 1 .. n : StepsBefore(e, m) <= StepsBefore(e, n)
         /\ \A n \in 1 .. Count(e) : WorksIn(e, n) = {} => StepsBefore(e, n + 1) = StepsBefore(e, n)
         /\ \A n \in 1 .. Count(e) : \A w \in WorksIn(e, n) :
              StepsBefore(e, n + 1) = StepsBefore(e, n) + WorkSteps(w)
<1> DEFINE ofBatch(i) == {w.first + WorkSteps(w) - 1 : w \in WorksIn(e, i)}
           T(n) == {0} \cup UNION {ofBatch(i) : i \in 1 .. n - 1}
<1>1. Count(e) \in Nat
  BY DEF StepsInOrder, Used, Count
<1>2. ASSUME NEW n \in 1 .. Count(e), NEW w \in WorksIn(e, n)
      PROVE  /\ WorksIn(e, n) = {w}
             /\ WorkSteps(w) \in Nat \ {0} /\ w.first = StepsBefore(e, n) + 1
  BY DEF StepsInOrder, Used, Count
<1>3. \A n : StepsBefore(e, n) = Max(T(n))
  BY DEF StepsBefore
<1>4. \A n \in Nat : IsFiniteSet(T(n)) \/ n > Count(e) + 1
  <2>1. SUFFICES ASSUME NEW n \in Nat, n <= Count(e) + 1 PROVE IsFiniteSet(T(n))
    BY <1>1
  <2>2. ASSUME NEW i \in 1 .. n - 1 PROVE IsFiniteSet(ofBatch(i))
    <3>1. i \in 1 .. Count(e)
      BY <1>1, <2>1
    <3>2. CASE WorksIn(e, i) = {}
      <4>1. ofBatch(i) = {}
        BY <3>2
      <4>2. QED
        BY <4>1, FS_EmptySet
    <3>3. CASE WorksIn(e, i) # {}
      <4>1. PICK w : WorksIn(e, i) = {w}
        BY <1>2, <3>1, <3>3
      <4>2. ofBatch(i) = {w.first + WorkSteps(w) - 1}
        BY <4>1
      <4>3. QED
        BY <4>2, FS_Singleton
    <3>4. QED
      BY <3>2, <3>3
  <2> DEFINE f == [i \in 1 .. n - 1 |-> ofBatch(i)]
  <2>3. IsFiniteSet(1 .. n - 1)
    <3> DEFINE m == n - 1
    <3>1. m \in Int
      OBVIOUS
    <3> HIDE DEF m
    <3>2. IsFiniteSet(1 .. m)
      BY <3>1, FS_Interval
    <3>3. QED
      BY <3>2 DEF m
  <2>4. \A i \in 1 .. n - 1 : IsFiniteSet(f[i])
    BY <2>2
  <2>5. UNION {f[i] : i \in 1 .. n - 1} = UNION {ofBatch(i) : i \in 1 .. n - 1}
    OBVIOUS
  <2> HIDE DEF f
  <2>6. IsFiniteSet(UNION {f[i] : i \in 1 .. n - 1})
    BY <2>3, <2>4, UnionIsFinite
  <2>7. IsFiniteSet({0})
    BY FS_Singleton
  <2>8. QED
    BY <2>5, <2>6, <2>7, FS_Union
<1>5. \A n \in 1 .. Count(e) + 1 : T(n) \subseteq Nat
  <2> DEFINE Bad == {n \in 1 .. Count(e) + 1 : ~(T(n) \subseteq Nat)}
  <2>1. SUFFICES ASSUME Bad # {} PROVE FALSE
    OBVIOUS
  <2>2. PICK n \in Bad : \A m \in Bad : n <= m
    <3>1. Bad \in SUBSET Nat
      BY <1>1
    <3> HIDE DEF Bad
    <3>2. QED
      BY <2>1, <3>1, LeastNumber
  <2>3. n \in 1 .. Count(e) + 1 /\ ~(T(n) \subseteq Nat)
    BY <2>2
  <2>4. \A i \in 1 .. n - 1 : i \in 1 .. Count(e) /\ T(i) \subseteq Nat
    BY <1>1, <2>2
  <2>5. ASSUME NEW i \in 1 .. n - 1 PROVE ofBatch(i) \subseteq Nat
    <3>1. StepsBefore(e, i) \in Nat
      <4>1. i \in Nat /\ ~(i > Count(e) + 1) /\ T(i) \subseteq Nat
        BY <1>1, <2>4
      <4>2. IsFiniteSet(T(i))
        BY <1>4, <4>1
      <4>3. T(i) \in SUBSET Nat /\ T(i) # {} /\ IsFiniteSet(T(i))
        BY <4>1, <4>2
      <4> HIDE DEF T
      <4>4. QED
        BY <1>3, <4>3, MaxIs
    <3>2. ASSUME NEW w \in WorksIn(e, i) PROVE w.first + WorkSteps(w) - 1 \in Nat
      <4>1. WorkSteps(w) \in Nat \ {0} /\ w.first = StepsBefore(e, i) + 1
        BY <1>2, <2>4
      <4>2. QED
        BY <3>1, <4>1
    <3>3. QED
      BY <3>2
  <2>6. QED
    BY <2>3, <2>5
<1>6. ASSUME NEW n \in 1 .. Count(e) + 1
      PROVE  StepsBefore(e, n) \in T(n) /\ \A x \in T(n) : x \in Nat /\ x <= StepsBefore(e, n)
  <2>1. T(n) \in SUBSET Nat /\ T(n) # {} /\ IsFiniteSet(T(n))
    BY <1>1, <1>4, <1>5
  <2> HIDE DEF T
  <2>2. Max(T(n)) \in T(n) /\ \A x \in T(n) : Max(T(n)) >= x
    BY <2>1, MaxIs
  <2>3. \A x \in T(n) : x \in Nat
    BY <2>1
  <2>4. QED
    BY <1>3, <2>2, <2>3
<1>7. ASSUME NEW n \in 1 .. Count(e) + 1
      PROVE  StepsBefore(e, n) \in Nat
  BY <1>6
<1>8. StepsBefore(e, 1) = 0
  <2>1. 1 \in 1 .. Count(e) + 1
    BY <1>1
  <2>2. T(1) = {0}
    OBVIOUS
  <2>3. QED
    BY <1>6, <2>1, <2>2
<1>9. LastStep(e) = StepsBefore(e, Count(e) + 1) /\ Count(e) + 1 \in 1 .. Count(e) + 1
  BY <1>1 DEF LastStep
<1>10. ASSUME NEW n \in 1 .. Count(e) + 1, NEW m \in 1 .. n
       PROVE  m \in 1 .. Count(e) + 1 /\ StepsBefore(e, m) <= StepsBefore(e, n)
  <2>1. T(m) \subseteq T(n) /\ m \in 1 .. Count(e) + 1
    BY <1>1
  <2> HIDE DEF T
  <2>2. QED
    BY <1>6, <2>1
<1>11. ASSUME NEW n \in 1 .. Count(e)
       PROVE  /\ n \in 1 .. Count(e) + 1 /\ n + 1 \in 1 .. Count(e) + 1
              /\ T(n + 1) = T(n) \cup ofBatch(n)
  <2>1. n \in 1 .. Count(e) + 1 /\ n + 1 \in 1 .. Count(e) + 1
    BY <1>1
  <2>2. 1 .. (n + 1) - 1 = (1 .. n - 1) \cup {n}
    BY <1>1
  <2> HIDE DEF ofBatch
  <2>3. QED
    BY <2>1, <2>2
<1>12. ASSUME NEW n \in 1 .. Count(e), WorksIn(e, n) = {}
       PROVE  StepsBefore(e, n + 1) = StepsBefore(e, n)
  <2>1. ofBatch(n) = {}
    BY <1>12
  <2>2. T(n + 1) = T(n)
    BY <1>11, <2>1
  <2>3. QED
    BY <1>3, <2>2
<1>13. ASSUME NEW n \in 1 .. Count(e), NEW w \in WorksIn(e, n)
       PROVE  StepsBefore(e, n + 1) = StepsBefore(e, n) + WorkSteps(w)
  <2>1. ofBatch(n) = {w.first + WorkSteps(w) - 1}
    BY <1>2
  <2>2. WorkSteps(w) \in Nat \ {0} /\ w.first = StepsBefore(e, n) + 1
    BY <1>2
  <2>3. T(n + 1) = T(n) \cup {StepsBefore(e, n) + WorkSteps(w)}
    <3>1. StepsBefore(e, n) \in Nat
      BY <1>7, <1>11
    <3>2. (StepsBefore(e, n) + 1) + WorkSteps(w) - 1 = StepsBefore(e, n) + WorkSteps(w)
      BY <2>2, <3>1
    <3>3. QED
      BY <1>11, <2>1, <2>2, <3>2
  <2> HIDE DEF T, ofBatch
  <2>4. /\ StepsBefore(e, n + 1) \in T(n + 1) /\ StepsBefore(e, n) \in Nat
        /\ StepsBefore(e, n) + WorkSteps(w) <= StepsBefore(e, n + 1)
        /\ \A x \in T(n) : x \in Nat /\ x <= StepsBefore(e, n)
    BY <1>6, <1>7, <1>11, <2>3
  <2>5. QED
    BY <2>2, <2>3, <2>4
<1>14. LastStep(e) \in Nat
  BY <1>7, <1>9
<1>15. ASSUME NEW n \in 1 .. Count(e) + 1 PROVE StepsBefore(e, n) <= LastStep(e)
  <2>1. n \in 1 .. Count(e) + 1 /\ Count(e) + 1 \in Nat
    BY <1>1
  <2>2. QED
    BY <1>9, <1>10, <2>1
<1>16. QED
  BY <1>1, <1>7, <1>8, <1>10, <1>12, <1>13, <1>14, <1>15

-----------------------------------------------------------------------------
(***************************************************************************)
(* Sums of sequences of numbers.                                           *)
(***************************************************************************)

\* The function that Total is defined by.
IsSum(f, s) == f = [i \in 0 .. Len(s) |-> IF i = 0 THEN 0 ELSE f[i - 1] + s[i]]

LEMMA TotalIs ==
  ASSUME NEW s \in Seq(Nat)
  PROVE  \E f \in [0 .. Len(s) -> Nat] :
           /\ Total(s) = f[Len(s)] /\ f[0] = 0
           /\ \A i \in 1 .. Len(s) : f[i] = f[i - 1] + s[i]
<1> DEFINE Sums(f, n) == f = [i \in 0 .. n |-> IF i = 0 THEN 0 ELSE f[i - 1] + s[i]]
           Bad == {n \in 0 .. Len(s) : ~(\E f : Sums(f, n))}
<1>1. Bad = {}
  <2>1. SUFFICES ASSUME Bad # {} PROVE FALSE
    OBVIOUS
  <2>2. PICK n \in Bad : \A m \in Bad : n <= m
    <3>1. Bad \in SUBSET Nat
      OBVIOUS
    <3> HIDE DEF Bad
    <3>2. QED
      BY <2>1, <3>1, LeastNumber
  <2>3. n \in 0 .. Len(s) /\ ~(\E f : Sums(f, n))
    BY <2>2
  <2>4. CASE n = 0
    <3> DEFINE f == [i \in 0 .. 0 |-> 0]
    <3>1. Sums(f, 0)
      OBVIOUS
    <3>2. QED
      BY <2>3, <2>4, <3>1
  <2>5. CASE n # 0
    <3>1. n - 1 \in 0 .. Len(s) /\ n - 1 < n
      BY <2>3, <2>5
    <3>2. PICK f : Sums(f, n - 1)
      <4>1. n - 1 \notin Bad
        <5> HIDE DEF Bad
        <5>1. QED
          BY <2>2, <2>3, <3>1
      <4>2. QED
        BY <3>1, <4>1
    <3> DEFINE g == [i \in 0 .. n |-> IF i = n THEN f[n - 1] + s[n] ELSE f[i]]
    <3>3. \A i \in 0 .. n - 1 : f[i] = IF i = 0 THEN 0 ELSE f[i - 1] + s[i]
      BY <3>2
    <3>4. ASSUME NEW i \in 0 .. n
          PROVE  g[i] = IF i = 0 THEN 0 ELSE g[i - 1] + s[i]
      <4>1. CASE i = n
        BY <2>3, <2>5, <4>1
      <4>2. CASE i # n
        <5>1. i \in 0 .. n - 1 /\ g[i] = f[i]
          BY <2>3, <4>2
        <5>2. i # 0 => i - 1 \in 0 .. n /\ i - 1 # n
          BY <2>3, <4>2
        <5>3. i # 0 => g[i - 1] = f[i - 1]
          BY <5>2
        <5>4. QED
          BY <3>3, <5>1, <5>3
      <4>3. QED
        BY <4>1, <4>2
    <3>5. Sums(g, n)
      <4>1. g = [i \in 0 .. n |-> g[i]]
        OBVIOUS
      <4> HIDE DEF g
      <4>2. QED
        BY <3>4, <4>1
    <3>6. QED
      BY <2>3, <3>5
  <2>6. QED
    BY <2>4, <2>5
<1>2. PICK f : f = CHOOSE h : IsSum(h, s)
  OBVIOUS
<1>3. IsSum(f, s)
  <2>1. Len(s) \in 0 .. Len(s)
    OBVIOUS
  <2>2. \E h : IsSum(h, s)
    BY <1>1, <2>1 DEF IsSum
  <2>3. QED
    BY <1>2, <2>2
<1>4. Total(s) = f[Len(s)]
  BY <1>2 DEF Total, IsSum
<1>5. f[0] = 0 /\ \A i \in 1 .. Len(s) : f[i] = f[i - 1] + s[i]
  <2>1. \A i \in 0 .. Len(s) : f[i] = IF i = 0 THEN 0 ELSE f[i - 1] + s[i]
    BY <1>3 DEF IsSum
  <2>2. QED
    BY <2>1
<1>6. \A i \in 0 .. Len(s) : f[i] \in Nat
  <2> DEFINE Worse == {i \in 0 .. Len(s) : f[i] \notin Nat}
  <2>1. SUFFICES ASSUME Worse # {} PROVE FALSE
    OBVIOUS
  <2>2. PICK i \in Worse : \A m \in Worse : i <= m
    <3>1. Worse \in SUBSET Nat
      OBVIOUS
    <3> HIDE DEF Worse
    <3>2. QED
      BY <2>1, <3>1, LeastNumber
  <2>3. i # 0 /\ i \in 1 .. Len(s)
    BY <1>5, <2>2
  <2>4. i - 1 \in 0 .. Len(s) /\ i - 1 \notin Worse
    BY <2>2, <2>3
  <2>5. f[i - 1] \in Nat /\ s[i] \in Nat
    BY <2>3, <2>4
  <2>6. QED
    BY <1>5, <2>2, <2>3, <2>5
<1>7. f \in [0 .. Len(s) -> Nat]
  BY <1>3, <1>6 DEF IsSum
<1>8. QED
  BY <1>4, <1>5, <1>7

\* Functions that begin alike and grow alike are alike.
LEMMA SumsAgree ==
  ASSUME NEW n \in Nat, NEW m \in 0 .. n, NEW f \in [0 .. n -> Nat], NEW g \in [0 .. n -> Nat],
         f[m] = g[m],
         \A i \in m + 1 .. n : f[i] - f[i - 1] = g[i] - g[i - 1]
  PROVE  f[n] = g[n]
<1> DEFINE Bad == {i \in m .. n : f[i] # g[i]}
<1>1. SUFFICES ASSUME Bad # {} PROVE FALSE
  <2>1. n \in m .. n
    OBVIOUS
  <2>2. QED
    BY <2>1
<1>2. PICK i \in Bad : \A j \in Bad : i <= j
  <2>1. Bad \in SUBSET Nat
    OBVIOUS
  <2> HIDE DEF Bad
  <2>2. QED
    BY <1>1, <2>1, LeastNumber
<1>3. i # m /\ i \in m + 1 .. n
  BY <1>2
<1>4. i - 1 \in m .. n /\ i - 1 \notin Bad
  BY <1>2, <1>3
<1>5. f[i - 1] = g[i - 1] /\ f[i - 1] \in Nat /\ f[i] \in Nat /\ g[i] \in Nat
  BY <1>3, <1>4
<1>6. f[i] - f[i - 1] = g[i] - g[i - 1]
  BY <1>3
<1>7. QED
  BY <1>2, <1>5, <1>6

LEMMA TotalAppend ==
  ASSUME NEW s \in Seq(Nat), NEW x \in Nat
  PROVE  Total(Append(s, x)) = Total(s) + x /\ Total(s) \in Nat
<1> DEFINE t == Append(s, x)
           n == Len(s)
<1>1. t \in Seq(Nat) /\ Len(t) = n + 1 /\ t[n + 1] = x /\ n \in Nat
      /\ \A i \in 1 .. n : t[i] = s[i]
  OBVIOUS
<1>2. PICK f \in [0 .. n -> Nat] :
        Total(s) = f[n] /\ f[0] = 0 /\ \A i \in 1 .. n : f[i] = f[i - 1] + s[i]
  BY TotalIs
<1>3. PICK g \in [0 .. n + 1 -> Nat] :
        Total(t) = g[n + 1] /\ g[0] = 0 /\ \A i \in 1 .. n + 1 : g[i] = g[i - 1] + t[i]
  <2> HIDE DEF t
  <2>1. QED
    BY <1>1, TotalIs
<1> HIDE DEF t
<1> DEFINE h == [i \in 0 .. n |-> g[i]]
<1>4. f[n] = h[n]
  <2>1. h \in [0 .. n -> Nat] /\ f[0] = h[0]
    BY <1>1, <1>2, <1>3
  <2>2. ASSUME NEW i \in 0 + 1 .. n PROVE f[i] - f[i - 1] = h[i] - h[i - 1]
    <3>1. i \in 1 .. n /\ i - 1 \in 0 .. n /\ i \in 0 .. n /\ i \in 1 .. n + 1
      BY <1>1
    <3>2. f[i] = f[i - 1] + s[i] /\ g[i] = g[i - 1] + s[i] /\ h[i] = g[i] /\ h[i - 1] = g[i - 1]
      BY <1>1, <1>2, <1>3, <3>1
    <3>3. f[i - 1] \in Nat /\ g[i - 1] \in Nat /\ s[i] \in Nat
      <4>1. i - 1 \in 0 .. n + 1
        BY <1>1, <3>1
      <4>2. s[i] \in Nat
        BY <3>1
      <4>3. QED
        BY <1>2, <1>3, <3>1, <4>1, <4>2
    <3>4. QED
      BY <3>2, <3>3
  <2> HIDE DEF h, n
  <2>3. 0 \in 0 .. n
    BY <1>1
  <2>4. QED
    BY <1>1, <2>1, <2>2, <2>3, SumsAgree
<1>5. h[n] = g[n] /\ g[n + 1] = g[n] + x
  <2>1. n \in 0 .. n /\ n + 1 \in 1 .. n + 1 /\ (n + 1) - 1 = n
    BY <1>1
  <2>2. h[n] = g[n]
    BY <2>1
  <2>3. g[n + 1] = g[(n + 1) - 1] + t[n + 1]
    BY <1>3, <2>1
  <2>4. QED
    BY <1>1, <2>1, <2>2, <2>3
<1>6. f[n] \in Nat
  <2>1. n \in 0 .. n /\ f \in [0 .. n -> Nat]
    BY <1>1, <1>2
  <2>2. QED
    BY ONLY <2>1
<1>7. QED
  BY <1>2, <1>3, <1>4, <1>5, <1>6 DEF t

LEMMA TotalRemove ==
  ASSUME NEW s \in Seq(Nat), NEW k \in 1 .. Len(s)
  PROVE  /\ RemoveAt(s, k) \in Seq(Nat) /\ Total(RemoveAt(s, k)) \in Nat
         /\ Total(s) = Total(RemoveAt(s, k)) + s[k]
<1> DEFINE t == RemoveAt(s, k)
           n == Len(s)
<1>1. /\ t \in Seq(Nat) /\ Len(t) = n - 1 /\ n \in Nat /\ n >= 1
      /\ \A i \in 1 .. k - 1 : t[i] = s[i]
      /\ \A i \in k .. n - 1 : t[i] = s[i + 1]
  <2> DEFINE u == SubSeq(s, 1, k - 1)
             v == SubSeq(s, k + 1, n)
  <2>1. u \in Seq(Nat) /\ Len(u) = k - 1 /\ \A i \in 1 .. k - 1 : u[i] = s[i]
    <3>1. u \in Seq(Nat)
      OBVIOUS
    <3>2. Len(u) = k - 1
      OBVIOUS
    <3>3. \A i \in 1 .. k - 1 : u[i] = s[i]
      OBVIOUS
    <3>4. QED
      BY <3>1, <3>2, <3>3
  <2>2. v \in Seq(Nat) /\ Len(v) = n - k /\ \A i \in 1 .. n - k : v[i] = s[i + k]
    <3>1. v \in Seq(Nat)
      OBVIOUS
    <3>2. Len(v) = n - k
      OBVIOUS
    <3>3. \A i \in 1 .. n - k : v[i] = s[i + k]
      OBVIOUS
    <3>4. QED
      BY <3>1, <3>2, <3>3
  <2>3. t = u \o v
    BY DEF RemoveAt
  <2>4. n \in Nat /\ n >= 1 /\ k \in 1 .. n
    OBVIOUS
  <2> HIDE DEF t, u, v, n
  <2>5. t \in Seq(Nat) /\ Len(t) = n - 1
    <3>1. Len(u) + Len(v) = n - 1
      BY <2>1, <2>2, <2>4
    <3>2. u \o v \in Seq(Nat) /\ Len(u \o v) = Len(u) + Len(v)
      <4>1. u \in Seq(Nat) /\ v \in Seq(Nat)
        BY <2>1, <2>2
      <4>2. QED
        BY ONLY <4>1
    <3>3. QED
      BY <2>3, <3>1, <3>2
  <2>6. ASSUME NEW i \in 1 .. k - 1 PROVE t[i] = s[i]
    BY <2>1, <2>2, <2>3, <2>4
  <2>7. ASSUME NEW i \in k .. n - 1 PROVE t[i] = s[i + 1]
    <3>1. t[i] = v[i - (k - 1)] /\ i - (k - 1) \in 1 .. n - k
      <4>1. /\ u \in Seq(Nat) /\ v \in Seq(Nat) /\ Len(u) = k - 1 /\ Len(v) = n - k
            /\ i \in Len(u) + 1 .. Len(u) + Len(v)
        BY <2>1, <2>2, <2>4
      <4>2. (u \o v)[i] = v[i - Len(u)]
        BY ONLY <4>1
      <4>3. i - (k - 1) \in 1 .. n - k
        BY <2>4
      <4>4. QED
        BY <2>3, <4>1, <4>2, <4>3
    <3>2. v[i - (k - 1)] = s[(i - (k - 1)) + k] /\ (i - (k - 1)) + k = i + 1
      BY <2>2, <2>4, <3>1
    <3>3. QED
      BY <3>1, <3>2
  <2>8. QED
    BY <2>4, <2>5, <2>6, <2>7
<1>2. PICK f \in [0 .. n -> Nat] :
        Total(s) = f[n] /\ f[0] = 0 /\ \A i \in 1 .. n : f[i] = f[i - 1] + s[i]
  BY TotalIs
<1>3. PICK g \in [0 .. n - 1 -> Nat] :
        Total(t) = g[n - 1] /\ g[0] = 0 /\ \A i \in 1 .. n - 1 : g[i] = g[i - 1] + t[i]
  <2>1. t \in Seq(Nat) /\ Len(t) = n - 1
    BY <1>1
  <2> HIDE DEF t, n
  <2>2. \E g \in [0 .. Len(t) -> Nat] :
          Total(t) = g[Len(t)] /\ g[0] = 0 /\ \A i \in 1 .. Len(t) : g[i] = g[i - 1] + t[i]
    BY <2>1, TotalIs
  <2>3. QED
    BY <2>1, <2>2
<1> HIDE DEF t
<1> DEFINE h == [i \in 0 .. n |-> IF i < k THEN g[i] ELSE g[i - 1] + s[k]]
<1>4. h \in [0 .. n -> Nat] /\ f[0] = h[0] /\ h[n] = g[n - 1] + s[k] /\ s[k] \in Nat
  <2>1. s[k] \in Nat /\ k \in 1 .. n
    OBVIOUS
  <2>2. ASSUME NEW i \in 0 .. n PROVE (IF i < k THEN g[i] ELSE g[i - 1] + s[k]) \in Nat
    <3>1. CASE i < k
      <4>1. i \in 0 .. n - 1
        BY <1>1, <2>1, <3>1
      <4>2. QED
        BY <3>1, <4>1
    <3>2. CASE ~(i < k)
      <4>1. i - 1 \in 0 .. n - 1
        BY <1>1, <2>1, <3>2
      <4>2. g[i - 1] \in Nat
        BY <1>3, <4>1
      <4>3. QED
        BY <2>1, <3>2, <4>2
    <3>3. QED
      BY <3>1, <3>2
  <2>3. h \in [0 .. n -> Nat]
    BY <2>2
  <2>4. h[0] = g[0] /\ h[n] = g[n - 1] + s[k]
    BY <1>1, <2>1
  <2>5. QED
    BY <1>2, <1>3, <2>1, <2>3, <2>4
<1>5. ASSUME NEW i \in 0 + 1 .. n PROVE f[i] - f[i - 1] = h[i] - h[i - 1]
  <2>1. i \in 1 .. n /\ i - 1 \in 0 .. n /\ i \in 0 .. n /\ s[i] \in Nat /\ f[i - 1] \in Nat
    <3>1. i \in 1 .. n /\ i - 1 \in 0 .. n /\ i \in 0 .. n
      BY <1>1
    <3>2. s[i] \in Nat
      BY <3>1
    <3>3. QED
      BY <1>2, <3>1, <3>2
  <2>2. f[i] = f[i - 1] + s[i]
    BY <1>2, <2>1
  <2>3. CASE i < k
    <3>1. i \in 1 .. n - 1 /\ i \in 1 .. k - 1 /\ i - 1 < k /\ i - 1 \in 0 .. n - 1
      BY <1>1, <2>1, <2>3
    <3>2. h[i] = g[i] /\ h[i - 1] = g[i - 1] /\ g[i] = g[i - 1] + s[i] /\ g[i - 1] \in Nat
      BY <1>1, <1>3, <2>1, <2>3, <3>1
    <3> HIDE DEF h
    <3>3. f[i] - f[i - 1] = s[i]
      BY ONLY <2>1, <2>2
    <3>4. h[i] - h[i - 1] = s[i]
      <4>1. h[i] = g[i - 1] + s[i] /\ h[i - 1] = g[i - 1]
        BY <3>2
      <4>2. \A x, y \in Nat : (x + y) - x = y
        OBVIOUS
      <4>3. QED
        BY ONLY <2>1, <3>2, <4>1, <4>2
    <3>5. QED
      BY <3>3, <3>4
  <2>4. CASE i = k
    <3>1. h[i] = g[i - 1] + s[i] /\ h[i - 1] = g[i - 1] /\ i - 1 \in 0 .. n - 1
      BY <1>1, <2>1, <2>4
    <3>2. g[i - 1] \in Nat
      BY <3>1
    <3> HIDE DEF h
    <3>3. f[i] - f[i - 1] = s[i]
      BY ONLY <2>1, <2>2
    <3>4. h[i] - h[i - 1] = s[i]
      BY ONLY <2>1, <3>1, <3>2
    <3>5. QED
      BY <3>3, <3>4
  <2>5. CASE i > k
    <3>1. i - 1 \in 1 .. n - 1 /\ i - 1 \in k .. n - 1 /\ ~(i - 1 < k) /\ ~(i < k)
          /\ (i - 1) - 1 \in 0 .. n - 1 /\ (i - 1) + 1 = i
      BY <1>1, <2>1, <2>5
    <3>2. h[i] = g[i - 1] + s[k] /\ h[i - 1] = g[(i - 1) - 1] + s[k]
      BY <2>1, <3>1
    <3>3. g[i - 1] = g[(i - 1) - 1] + s[i]
      <4>1. t[i - 1] = s[(i - 1) + 1]
        BY <1>1, <3>1
      <4>2. QED
        BY <1>3, <3>1, <4>1
    <3>4. g[(i - 1) - 1] \in Nat /\ s[k] \in Nat
      BY <1>3, <1>4, <3>1
    <3> DEFINE x == g[(i - 1) - 1]
               y == s[k]
               z == s[i]
               o == f[i - 1]
    <3>5. h[i] = (x + z) + y /\ h[i - 1] = x + y /\ f[i] = o + z
      BY <2>2, <3>2, <3>3
    <3>6. x \in Nat /\ y \in Nat /\ z \in Nat /\ o \in Nat
      BY <2>1, <3>4
    <3>7. h[i] - h[i - 1] = ((x + z) + y) - (x + y) /\ f[i] - f[i - 1] = (o + z) - o
      BY <3>5
    <3> HIDE DEF x, y, z, o
    <3>8. ((x + z) + y) - (x + y) = z /\ (o + z) - o = z
      BY <3>6
    <3>9. QED
      BY <3>7, <3>8
  <2>6. i \in Int /\ k \in Int
    BY <2>1
  <2>7. i < k \/ i = k \/ i > k
    BY <2>6
  <2>8. QED
    BY <2>3, <2>4, <2>5, <2>7
<1>6. f[n] = h[n]
  <2> HIDE DEF h, n
  <2>1. 0 \in 0 .. n
    BY <1>1
  <2>2. QED
    BY <1>1, <1>4, <1>5, <2>1, SumsAgree
<1>7. g[n - 1] \in Nat
  <2>1. n - 1 \in 0 .. n - 1
    BY <1>1
  <2>2. QED
    BY <1>3, <2>1
<1>8. QED
  BY <1>1, <1>2, <1>3, <1>4, <1>6, <1>7 DEF t

LEMMA TotalOfNone == Total(<<>>) = 0
<1>1. <<>> \in Seq(Nat) /\ Len(<<>>) = 0
  OBVIOUS
<1>2. PICK f \in [0 .. Len(<<>>) -> Nat] : Total(<<>>) = f[Len(<<>>)] /\ f[0] = 0
  BY <1>1, TotalIs
<1>3. QED
  BY <1>1, <1>2

LEMMA QuotientAndRest ==
  ASSUME NEW x \in Nat, NEW m \in Nat \ {0}
  PROVE  /\ x \div m \in Nat /\ x % m \in 0 .. m - 1
         /\ x = m * (x \div m) + (x % m)
OBVIOUS

\* Numbers that leave the same remainder are a whole divisor apart.
LEMMA SameRemainder ==
  ASSUME NEW a \in Nat, NEW b \in Nat, NEW m \in Nat \ {0}, a % m = b % m, a < b
  PROVE  a <= b - m
<1>1. /\ a = m * (a \div m) + (a % m) /\ b = m * (b \div m) + (b % m)
      /\ a \div m \in Int /\ b \div m \in Int /\ a % m \in Int
  BY QuotientAndRest
<1> DEFINE p == a \div m
           q == b \div m
           x == a % m
<1>2. p \in Int /\ q \in Int /\ x \in Int /\ a = m * p + x /\ b = m * q + x
  BY <1>1
<1> HIDE DEF p, q, x
<1>3. m * q - m * p > 0
  BY <1>2
<1>4. m * (q - p) = m * q - m * p
  BY <1>2
<1>5. q - p >= 1
  BY <1>2, <1>3, <1>4
<1>6. m * (q - p) >= m
  BY <1>2, <1>5
<1>7. m * q \in Int /\ m * p \in Int
  BY <1>2
<1>8. QED
  BY <1>2, <1>4, <1>6, <1>7

\* The facts about the work that the group of an end is running.
LEMMA WorkIs ==
  ASSUME StepsInOrder, NEW e \in Links, Serving(e)
  PROVE  /\ Used(e) /\ At(e) \in 1 .. Count(e)
         /\ WorkOf(e).depth = Depth(e)
         /\ Steps(e) \in Nat \ {0} /\ StepsBefore(e, At(e)) \in Nat
         /\ WorkOf(e).first = StepsBefore(e, At(e)) + 1
         /\ StepsBefore(e, At(e) + 1) = StepsBefore(e, At(e)) + Steps(e)
         /\ LastStep(e) \in Nat /\ StepsBefore(e, At(e) + 1) <= LastStep(e)
         /\ Sends(e[1]) /\ ~Drains(e) => StepsBefore(e, At(e) + 1) # LastStep(e)
<1> DEFINE n == At(e)
<1>1. Used(e) /\ n \in 1 .. Count(e)
  BY DEF Serving, WorksIn, Used, Count
<1>2. PICK w : w \in WorksIn(e, n)
  BY DEF Serving
<1>3. /\ WorksIn(e, n) = {w} /\ WorkSteps(w) \in Nat \ {0} /\ w.first = StepsBefore(e, n) + 1
      /\ w.depth = Depth(e)
      /\ \/ w.final \/ ~Sends(e[1])
         \/ StepsBefore(e, n + 1) # StepsBefore(e, Count(e) + 1)
  BY <1>1, <1>2 DEF StepsInOrder, Used, Count
<1>4. WorkOf(e) = w
  <2>1. WorksIn(e, n) = {x \in ToSet(Works(BlockOf(e))[n]) : x.peer = e[2]}
    BY <1>1 DEF WorksIn, Used, Count
  <2>2. WorkOf(e) = CHOOSE x \in ToSet(Works(BlockOf(e))[n]) : x.peer = e[2]
    BY DEF WorkOf, At
  <2>3. QED
    BY <1>3, <2>1, <2>2
<1>5. /\ Count(e) \in Nat /\ LastStep(e) \in Nat
      /\ \A m \in 1 .. Count(e) + 1 : StepsBefore(e, m) \in Nat /\ StepsBefore(e, m) <= LastStep(e)
      /\ StepsBefore(e, n + 1) = StepsBefore(e, n) + WorkSteps(w)
  BY <1>1, <1>2, StepsAre
<1>6. n \in 1 .. Count(e) + 1 /\ n + 1 \in 1 .. Count(e) + 1
  BY <1>1, <1>5
<1>7. LastStep(e) = StepsBefore(e, Count(e) + 1)
  BY <1>1 DEF LastStep
<1>8. QED
  BY <1>1, <1>3, <1>4, <1>5, <1>6, <1>7 DEF Steps, Drains

-----------------------------------------------------------------------------
(***************************************************************************)
(* The two threads of a group.                                             *)
(***************************************************************************)
LeadPlaces == {"out", "wait", "bar", "copy", "main", "check", "drain", "drained"}
PostPlaces == {"out", "bar", "main", "post", "check", "drained"}
Message    == [step : Int, depth : Int]

\* The types of the parts of the state that the transfers are about: the
\* plans, what the threads of a group write for themselves, and what the ends
\* write for each other.
PlanTypes ==
  /\ DOMAIN plan = Ranks(d)
  /\ \A r \in Ranks(d) :
       /\ plan[r].slot = [p \in PeersOf(d, r) |-> PayloadSlot(d, r, p)]
       /\ plan[r].credit \in Nat \ {0}
ThreadTypes ==
  /\ lead \in [Links -> LeadPlaces] /\ post \in [Links -> PostPlaces]
  /\ slice \in [Links -> Nat \ {0}] /\ cache \in [Links -> Nat] /\ filled \in [Links -> BOOLEAN]
ShareTypes ==
  /\ ready \in [Slots -> Nat] /\ consumed \in [Slots -> Nat]
  /\ puts \in [Links -> Seq(Message)] /\ credits \in [Links -> Seq(Nat)]
  /\ readySignal \in [Links -> Nat] /\ creditSignal \in [Links -> Nat]
StateTypes == PlanTypes /\ ThreadTypes /\ ShareTypes

\* A thread is in a group only when the running batch has a work for it; the
\* first one is at a slice of the work, or in the final wait behind them.
EndShape(e) ==
  /\ Pc(e) # "off" => Used(e)
  /\ Pc(e) = "run" => At(e) <= Count(e)
  /\ lead[e] # "out" \/ post[e] # "out" => Serving(e)
  /\ lead[e] \in {"wait", "bar", "copy", "main", "check"} => slice[e] <= Steps(e)
  /\ lead[e] \in {"drain", "drained"} => slice[e] = Steps(e) + 1 /\ Drains(e)
  /\ filled[e] \/ (error[e[1]] /\ host[e[1]] \in {"kernel", "threw"})

\* Where the last thread is, as long as no thread has met an error: at a
\* slice of the work too, and out of it before the first only at its end.
EndPost(e) ==
  ~error[e[1]] =>
    /\ post[e] # "out" => PostSlice(e) <= Steps(e)
    /\ post[e] \in {"post", "check"} => PostSlice(e) >= 1
    /\ post[e] = "drained" => PostSlice(e) = Steps(e)
    /\ post[e] = "out" /\ lead[e] # "out" =>
         lead[e] = "check" /\ slice[e] = Steps(e) /\ ~Drains(e)
    /\ lead[e] = "out" /\ post[e] # "out" => slice[e] = Steps(e)

\* The next FIFO step that an end copies, and that it publishes; the steps it
\* has published are credited up to the last whole batch of them.
ToCopy(e) ==
  IF host[e[1]] # "kernel" \/ Pc(e) \in {"epoch", "gate"} THEN 1
  ELSE IF Pc(e) # "run" THEN LastStep(e) + 1
  ELSE IF lead[e] = "out" THEN StepsBefore(e, At(e) + 1) + 1
  ELSE IF lead[e] \in {"main", "check"} THEN WorkOf(e).first + slice[e]
  ELSE WorkOf(e).first + slice[e] - 1

Posted(e) == IF post[e] = "post" THEN PostSlice(e) - 1 ELSE PostSlice(e)

ToPost(e) ==
  IF host[e[1]] # "kernel" \/ Pc(e) \in {"epoch", "gate"} THEN 1
  ELSE IF Pc(e) # "run" THEN LastStep(e) + 1
  ELSE IF post[e] = "out" THEN StepsBefore(e, At(e) + 1) + 1
  ELSE WorkOf(e).first + Posted(e)

Whole(batch, k, n) == IF k = n THEN n ELSE k - (k % batch)

Credited(e) ==
  IF host[e[1]] # "kernel" \/ Pc(e) \in {"epoch", "gate"} THEN 0
  ELSE IF Pc(e) # "run" THEN LastStep(e)
  ELSE IF post[e] = "out" THEN StepsBefore(e, At(e) + 1)
  ELSE StepsBefore(e, At(e)) + Whole(plan[e[1]].credit, Posted(e), Steps(e))

\* The last step an end has seen taken, or sent, by its peer, and how far
\* beyond it may copy.
Known(e) == IF ~Gin(e) THEN cache[e]
            ELSE IF Sends(e[1]) THEN creditSignal[Back(e)] ELSE readySignal[Back(e)]
Room(e)  == IF Sends(e[1]) THEN Depth(e) ELSE 0

\* A wait that has succeeded allows the copy behind it, and the final wait
\* of a sender has seen everything taken.
EndCopy(e) ==
  lead[e] \in {"bar", "copy"} /\ filled[e] => ToCopy(e) <= Known(e) + Room(e)
EndDone(e) ==
  /\ Sends(e[1]) /\ host[e[1]] = "kernel" /\ ~error[e[1]] /\ lead[e] \in {"drained", "out"}
  /\ ToCopy(e) = LastStep(e) + 1
  => LastStep(e) <= Known(e)

EndInv(e) == EndShape(e) /\ EndPost(e) /\ EndCopy(e) /\ EndDone(e)
EndsInv   == \A e \in Links : EndInv(e)

\* What all steps but the hosts' leave of it.
Kept ==
  /\ UNCHANGED <<d, plan, host, seq>>
  /\ error' \in [Ranks(d) -> BOOLEAN]
  /\ \A r \in Ranks(d) : error[r] => error'[r]

LEMMA PlanIsKept ==
  ASSUME d' = d, plan' = plan, DOMAIN host' = DOMAIN host
  PROVE  /\ Links' = Links /\ Slots' = Slots
         /\ \A e, n : WorksIn(e, n)' = WorksIn(e, n) /\ StepsBefore(e, n)' = StepsBefore(e, n)
         /\ \A e : /\ Used(e)' <=> Used(e)
                   /\ Count(e)' = Count(e) /\ LastStep(e)' = LastStep(e)
                   /\ Depth(e)' = Depth(e) /\ (Gin(e)' <=> Gin(e))
         /\ \A r : Sends(r)' <=> Sends(r)
<1>1. Links' = Links
  BY DEF Links, R
<1>2. \A e : Depth(e)' = Depth(e) /\ (Gin(e)' <=> Gin(e))
  BY DEF Depth, Gin
<1>3. \A r : Sends(r)' <=> Sends(r)
  BY DEF Sends
<1>4. Slots' = Slots
  BY <1>1 DEF Slots, Sends, Gin
<1>5. ASSUME NEW e PROVE (Used(e)' <=> Used(e)) /\ Works(BlockOf(e))' = Works(BlockOf(e))
  BY DEF Used, Works, BlockOf
<1>6. ASSUME NEW e, NEW n PROVE WorksIn(e, n)' = WorksIn(e, n)
  BY <1>5 DEF WorksIn, Used
<1>7. ASSUME NEW e, NEW n PROVE StepsBefore(e, n)' = StepsBefore(e, n)
  BY <1>6 DEF StepsBefore
<1>8. ASSUME NEW e PROVE Count(e)' = Count(e) /\ LastStep(e)' = LastStep(e)
  BY <1>5, <1>7 DEF Count, LastStep
<1>9. QED
  BY <1>1, <1>2, <1>3, <1>4, <1>5, <1>6, <1>7, <1>8

LEMMA OrderIsKept ==
  ASSUME d' = d, plan' = plan, DOMAIN host' = DOMAIN host, StepsInOrder
  PROVE  StepsInOrder'
<1>1. /\ Links' = Links /\ Slots' = Slots
      /\ \A e, n : WorksIn(e, n)' = WorksIn(e, n) /\ StepsBefore(e, n)' = StepsBefore(e, n)
      /\ \A e : /\ Used(e)' <=> Used(e)
                /\ Count(e)' = Count(e) /\ LastStep(e)' = LastStep(e)
                /\ Depth(e)' = Depth(e) /\ (Gin(e)' <=> Gin(e))
      /\ \A r : Sends(r)' <=> Sends(r)
  BY PlanIsKept
<1>2. ASSUME NEW e \in Links, Used(e)
      PROVE  /\ Count(e)' \in Nat
             /\ \A n \in 1 .. Count(e)' : \A w \in WorksIn(e, n)' :
                  /\ WorksIn(e, n)' = {w}
                  /\ WorkSteps(w) \in Nat \ {0} /\ w.first = StepsBefore(e, n)' + 1
                  /\ w.depth = Depth(e)'
                  /\ \/ w.final \/ ~Sends(e[1])'
                     \/ StepsBefore(e, n + 1)' # StepsBefore(e, Count(e) + 1)'
  <2>1. Count(e)' \in Nat
    BY <1>1, <1>2 DEF StepsInOrder, Used, Count
  <2>2. ASSUME NEW n \in 1 .. Count(e)', NEW w \in WorksIn(e, n)'
        PROVE  /\ WorksIn(e, n)' = {w}
               /\ WorkSteps(w) \in Nat \ {0} /\ w.first = StepsBefore(e, n)' + 1
               /\ w.depth = Depth(e)'
               /\ \/ w.final \/ ~Sends(e[1])'
                  \/ StepsBefore(e, n + 1)' # StepsBefore(e, Count(e) + 1)'
    <3>1. n \in 1 .. Count(e) /\ w \in WorksIn(e, n)
      BY <1>1
    <3>2. /\ WorksIn(e, n) = {w}
          /\ WorkSteps(w) \in Nat \ {0} /\ w.first = StepsBefore(e, n) + 1
          /\ w.depth = Depth(e)
          /\ \/ w.final \/ ~Sends(e[1])
             \/ StepsBefore(e, n + 1) # StepsBefore(e, Count(e) + 1)
      BY <1>2, <3>1 DEF StepsInOrder, Used, Count
    <3>3. /\ WorksIn(e, n)' = WorksIn(e, n) /\ StepsBefore(e, n)' = StepsBefore(e, n)
          /\ StepsBefore(e, n + 1)' = StepsBefore(e, n + 1)
      BY <1>1
    <3>4. StepsBefore(e, Count(e) + 1)' = StepsBefore(e, Count(e) + 1)
      BY <1>1
    <3>5. Depth(e)' = Depth(e) /\ (Sends(e[1])' <=> Sends(e[1]))
      BY <1>1
    <3>6. QED
      BY <3>2, <3>3, <3>4, <3>5
  <2>3. QED
    BY <2>1, <2>2
<1>3. QED
  BY <1>1, <1>2 DEF StepsInOrder, Used, Count

\* The values of an end whose group is running a work.
LEMMA Served ==
  ASSUME LaunchInv, StepsInOrder, StateTypes, NEW e \in Links, Serving(e)
  PROVE  /\ host[e[1]] = "kernel" /\ Pc(e) = "run" /\ Posted(e) \in Int /\ PostSlice(e) \in Nat
         /\ ToCopy(e) = IF lead[e] = "out" THEN StepsBefore(e, At(e)) + Steps(e) + 1
                        ELSE IF lead[e] \in {"main", "check"} THEN StepsBefore(e, At(e)) + slice[e] + 1
                        ELSE StepsBefore(e, At(e)) + slice[e]
         /\ ToPost(e) = IF post[e] = "out" THEN StepsBefore(e, At(e)) + Steps(e) + 1
                        ELSE StepsBefore(e, At(e)) + Posted(e) + 1
         /\ Credited(e) = IF post[e] = "out" THEN StepsBefore(e, At(e)) + Steps(e)
                          ELSE StepsBefore(e, At(e)) + Whole(plan[e[1]].credit, Posted(e), Steps(e))
<1>1. /\ host[e[1]] = "kernel" /\ Pc(e) = "run"
  <2>1. BlockOf(e) \in DOMAIN block /\ BlockOf(e)[1] = e[1]
    BY LinkParts DEF LaunchInv
  <2>2. Pc(e) = "run"
    BY DEF Serving
  <2>3. QED
    BY <2>1, <2>2 DEF LaunchInv, GateInv, Pc
<1>2. /\ WorkOf(e).first = StepsBefore(e, At(e)) + 1
      /\ StepsBefore(e, At(e) + 1) = StepsBefore(e, At(e)) + Steps(e)
      /\ StepsBefore(e, At(e)) \in Nat /\ Steps(e) \in Nat
  BY WorkIs
<1>3. slice[e] \in Nat \ {0}
  BY DEF StateTypes, PlanTypes, ThreadTypes, ShareTypes
<1>4. Posted(e) \in Int /\ PostSlice(e) \in Nat
  BY <1>3 DEF Posted, PostSlice
<1>5. ToCopy(e) = IF lead[e] = "out" THEN StepsBefore(e, At(e)) + Steps(e) + 1
                  ELSE IF lead[e] \in {"main", "check"} THEN StepsBefore(e, At(e)) + slice[e] + 1
                  ELSE StepsBefore(e, At(e)) + slice[e]
  BY <1>1, <1>2, <1>3 DEF ToCopy
<1>6. /\ ToPost(e) = IF post[e] = "out" THEN StepsBefore(e, At(e)) + Steps(e) + 1
                     ELSE StepsBefore(e, At(e)) + Posted(e) + 1
      /\ Credited(e) = IF post[e] = "out" THEN StepsBefore(e, At(e)) + Steps(e)
                       ELSE StepsBefore(e, At(e)) + Whole(plan[e[1]].credit, Posted(e), Steps(e))
  BY <1>1, <1>2, <1>4 DEF ToPost, Credited
<1>7. QED
  BY <1>1, <1>4, <1>5, <1>6

LEMMA WorkIsKept ==
  ASSUME TypeInv, Kept, NEW e \in Links, block'[BlockOf(e)] = block[BlockOf(e)]
  PROVE  /\ Pc(e)' = Pc(e) /\ At(e)' = At(e)
         /\ WorkOf(e)' = WorkOf(e) /\ Steps(e)' = Steps(e) /\ (Drains(e)' <=> Drains(e))
         /\ Serving(e)' <=> Serving(e)
         /\ StepsBefore(e, At(e))' = StepsBefore(e, At(e))
         /\ StepsBefore(e, At(e) + 1)' = StepsBefore(e, At(e) + 1)
<1>1. d' = d /\ plan' = plan /\ DOMAIN host' = DOMAIN host
  BY DEF Kept
<1>2. Pc(e)' = Pc(e) /\ At(e)' = At(e)
  BY DEF Pc, At, BlockOf
<1>3. /\ \A n : WorksIn(e, n)' = WorksIn(e, n) /\ StepsBefore(e, n)' = StepsBefore(e, n)
      /\ Sends(e[1])' <=> Sends(e[1])
  BY <1>1, PlanIsKept
<1>4. WorkOf(e)' = WorkOf(e)
  <2>1. Works(BlockOf(e))' = Works(BlockOf(e)) /\ block'[BlockOf(e)].at = block[BlockOf(e)].at
    BY <1>1 DEF Works, BlockOf
  <2>2. QED
    BY <2>1 DEF WorkOf
<1>5. Steps(e)' = Steps(e) /\ (Drains(e)' <=> Drains(e))
  BY <1>3, <1>4 DEF Steps, Drains
<1>6. WorksIn(e, At(e))' = WorksIn(e, At(e))
  <2>1. PICK n : n = At(e)
    OBVIOUS
  <2>2. QED
    BY <1>2, <1>3, <2>1
<1>7. StepsBefore(e, At(e))' = StepsBefore(e, At(e)) /\ StepsBefore(e, At(e) + 1)' = StepsBefore(e, At(e) + 1)
  <2>1. PICK n : n = At(e)
    OBVIOUS
  <2>2. PICK m : m = At(e) + 1
    OBVIOUS
  <2>3. QED
    BY <1>2, <1>3, <2>1, <2>2
<1>8. QED
  BY <1>2, <1>4, <1>5, <1>6, <1>7 DEF Serving

\* The values after a step that leaves the block where it is.
LEMMA ServedNext ==
  ASSUME LaunchInv, StepsInOrder, StateTypes, StateTypes', Kept, NEW e \in Links, Serving(e),
         block'[BlockOf(e)] = block[BlockOf(e)]
  PROVE  /\ host'[e[1]] = "kernel" /\ Pc(e)' = "run" /\ Posted(e)' \in Int /\ PostSlice(e)' \in Nat
         /\ ToCopy(e)' = IF lead'[e] = "out" THEN StepsBefore(e, At(e)) + Steps(e) + 1
                         ELSE IF lead'[e] \in {"main", "check"} THEN StepsBefore(e, At(e)) + slice'[e] + 1
                         ELSE StepsBefore(e, At(e)) + slice'[e]
         /\ ToPost(e)' = IF post'[e] = "out" THEN StepsBefore(e, At(e)) + Steps(e) + 1
                         ELSE StepsBefore(e, At(e)) + Posted(e)' + 1
         /\ Credited(e)' = IF post'[e] = "out" THEN StepsBefore(e, At(e)) + Steps(e)
                           ELSE StepsBefore(e, At(e)) + Whole(plan[e[1]].credit, Posted(e)', Steps(e))
<1>1. /\ Pc(e)' = Pc(e) /\ At(e)' = At(e) /\ Links' = Links
      /\ WorkOf(e)' = WorkOf(e) /\ Steps(e)' = Steps(e)
      /\ StepsBefore(e, At(e))' = StepsBefore(e, At(e))
      /\ StepsBefore(e, At(e) + 1)' = StepsBefore(e, At(e) + 1)
      /\ host'[e[1]] = host[e[1]] /\ plan'[e[1]] = plan[e[1]]
  BY WorkIsKept, PlanIsKept DEF Kept, LaunchInv
<1>2. host[e[1]] = "kernel" /\ Pc(e) = "run"
  BY Served
<1>3. /\ WorkOf(e).first = StepsBefore(e, At(e)) + 1
      /\ StepsBefore(e, At(e) + 1) = StepsBefore(e, At(e)) + Steps(e)
      /\ StepsBefore(e, At(e)) \in Nat /\ Steps(e) \in Nat
  BY WorkIs
<1>4. slice'[e] \in Nat \ {0}
  BY <1>1 DEF StateTypes, PlanTypes, ThreadTypes, ShareTypes
<1>5. Posted(e)' \in Int /\ PostSlice(e)' \in Nat
  BY <1>4 DEF Posted, PostSlice
<1>6. ToCopy(e)' = IF lead'[e] = "out" THEN StepsBefore(e, At(e)) + Steps(e) + 1
                   ELSE IF lead'[e] \in {"main", "check"} THEN StepsBefore(e, At(e)) + slice'[e] + 1
                   ELSE StepsBefore(e, At(e)) + slice'[e]
  <2>1. ToCopy(e)' = IF lead'[e] = "out" THEN StepsBefore(e, At(e) + 1)' + 1
                     ELSE IF lead'[e] \in {"main", "check"} THEN WorkOf(e)'.first + slice'[e]
                     ELSE WorkOf(e)'.first + slice'[e] - 1
    BY <1>1, <1>2 DEF ToCopy
  <2>2. QED
    BY <1>1, <1>3, <1>4, <2>1
<1>7. ToPost(e)' = IF post'[e] = "out" THEN StepsBefore(e, At(e)) + Steps(e) + 1
                   ELSE StepsBefore(e, At(e)) + Posted(e)' + 1
  <2>1. ToPost(e)' = IF post'[e] = "out" THEN StepsBefore(e, At(e) + 1)' + 1
                     ELSE WorkOf(e)'.first + Posted(e)'
    BY <1>1, <1>2 DEF ToPost
  <2>2. QED
    BY <1>1, <1>3, <1>5, <2>1
<1>8. Credited(e)' = IF post'[e] = "out" THEN StepsBefore(e, At(e)) + Steps(e)
                     ELSE StepsBefore(e, At(e)) + Whole(plan[e[1]].credit, Posted(e)', Steps(e))
  <2>1. Credited(e)' = IF post'[e] = "out" THEN StepsBefore(e, At(e) + 1)'
                       ELSE StepsBefore(e, At(e))' + Whole(plan'[e[1]].credit, Posted(e)', Steps(e)')
    BY <1>1, <1>2 DEF Credited
  <2>2. QED
    BY <1>1, <1>3, <2>1
<1>9. QED
  BY <1>1, <1>2, <1>5, <1>6, <1>7, <1>8

\* An end that a step does not concern.
LEMMA SameEnd ==
  ASSUME LaunchInv, Kept, NEW e \in Links, EndInv(e),
         lead'[e] = lead[e], post'[e] = post[e], slice'[e] = slice[e], filled'[e] = filled[e],
         block'[BlockOf(e)] = block[BlockOf(e)],
         Known(e) \in Nat, Known(e)' \in Nat, Known(e)' >= Known(e), ToCopy(e) \in Nat, Room(e) \in Nat,
         LastStep(e) \in Nat
  PROVE  /\ EndInv(e)'
         /\ ToCopy(e)' = ToCopy(e) /\ ToPost(e)' = ToPost(e) /\ Credited(e)' = Credited(e)
<1>1. /\ Pc(e)' = Pc(e) /\ At(e)' = At(e)
      /\ WorkOf(e)' = WorkOf(e) /\ Steps(e)' = Steps(e) /\ (Drains(e)' <=> Drains(e))
      /\ (Serving(e)' <=> Serving(e))
      /\ StepsBefore(e, At(e))' = StepsBefore(e, At(e))
      /\ StepsBefore(e, At(e) + 1)' = StepsBefore(e, At(e) + 1)
  BY WorkIsKept DEF LaunchInv
<1>2. /\ (Used(e)' <=> Used(e)) /\ Count(e)' = Count(e) /\ LastStep(e)' = LastStep(e)
      /\ Depth(e)' = Depth(e) /\ (Sends(e[1])' <=> Sends(e[1]))
  BY PlanIsKept DEF Kept
<1>3. /\ host'[e[1]] = host[e[1]] /\ plan'[e[1]] = plan[e[1]] /\ e[1] \in Ranks(d)
      /\ error[e[1]] => error'[e[1]]
  BY LinkParts DEF Kept, LaunchInv
<1>4. PostSlice(e)' = PostSlice(e) /\ Posted(e)' = Posted(e)
  BY DEF PostSlice, Posted
<1>5. ToCopy(e)' = ToCopy(e)
  BY <1>1, <1>2, <1>3 DEF ToCopy
<1>6. ToPost(e)' = ToPost(e) /\ Credited(e)' = Credited(e)
  BY <1>1, <1>2, <1>3, <1>4 DEF ToPost, Credited
<1>7. EndShape(e)'
  BY <1>1, <1>2, <1>3 DEF EndInv, EndShape
<1>8. EndPost(e)'
  BY <1>1, <1>3, <1>4 DEF EndInv, EndPost
<1>9. Room(e)' = Room(e)
  BY <1>2 DEF Room
<1>10. EndCopy(e)'
  BY <1>5, <1>9 DEF EndInv, EndCopy
<1>11. EndDone(e)'
  BY <1>2, <1>3, <1>5 DEF EndInv, EndDone
<1>12. QED
  BY <1>5, <1>6, <1>7, <1>8, <1>10, <1>11 DEF EndInv

LEMMA WholeIs ==
  ASSUME NEW batch \in Nat \ {0}, NEW k \in Nat, NEW n \in Nat
  PROVE  Whole(batch, k, n) \in Nat /\ Whole(batch, k, n) <= k
<1>1. k % batch \in Nat /\ k % batch <= k
  <2> DEFINE q == k \div batch
             x == k % batch
  <2>1. q \in Nat /\ x \in Nat /\ k = batch * q + x
    BY QuotientAndRest
  <2> HIDE DEF q, x
  <2>2. batch * q >= 0 /\ batch * q \in Int
    BY <2>1
  <2>3. x <= k
    BY <2>1, <2>2
  <2>4. QED
    BY <2>1, <2>3 DEF x
<1> DEFINE y == k % batch
<1> HIDE DEF y
<1>2. y \in Nat /\ y <= k
  BY <1>1 DEF y
<1>3. Whole(batch, k, n) = IF k = n THEN n ELSE k - y
  BY DEF Whole, y
<1>4. QED
  BY <1>2, <1>3

LEMMA EndNumbers ==
  ASSUME TypeInv, StateTypes, NEW e \in Links
  PROVE  /\ Known(e) \in Nat /\ Room(e) \in Nat /\ cache[e] \in Nat
         /\ slice[e] \in Nat \ {0} /\ PostSlice(e) \in Nat /\ Posted(e) \in Int
         /\ plan[e[1]].credit \in Nat \ {0}
         /\ e[1] \in Ranks(d) /\ At(e) \in Nat \ {0} /\ Pc(e) \in BlockPlaces
         /\ lead[e] \in LeadPlaces /\ post[e] \in PostPlaces
<1>1. /\ Back(e) \in Links /\ e[1] \in Ranks(d) /\ BlockOf(e) \in DOMAIN block /\ Depth(e) \in Nat
  BY LinkParts
<1>2. /\ slice[e] \in Nat \ {0} /\ cache[e] \in Nat
      /\ creditSignal[Back(e)] \in Nat /\ readySignal[Back(e)] \in Nat
      /\ plan[e[1]].credit \in Nat \ {0} /\ lead[e] \in LeadPlaces /\ post[e] \in PostPlaces
  BY <1>1 DEF StateTypes, PlanTypes, ThreadTypes, ShareTypes
<1>3. Known(e) \in Nat /\ Room(e) \in Nat
  BY <1>1, <1>2 DEF Known, Room
<1>4. PostSlice(e) \in Nat /\ Posted(e) \in Int
  BY <1>2 DEF PostSlice, Posted
<1>5. At(e) \in Nat \ {0} /\ Pc(e) \in BlockPlaces
  BY <1>1 DEF TypeInv, At, Pc
<1>6. QED
  BY <1>1, <1>2, <1>3, <1>4, <1>5

\* An end publishes behind what it copies, and credits behind that.
LEMMA EndOrder ==
  ASSUME LaunchInv, StepsInOrder, StateTypes, NEW e \in Links, EndShape(e), EndPost(e)
  PROVE  /\ LastStep(e) \in Nat /\ ToCopy(e) \in Nat \ {0} /\ ToCopy(e) <= LastStep(e) + 1
         /\ ~error[e[1]] => /\ ToPost(e) \in Nat /\ ToPost(e) <= ToCopy(e)
                            /\ Credited(e) \in Nat /\ Credited(e) < ToCopy(e)
<1>1. /\ slice[e] \in Nat \ {0} /\ PostSlice(e) \in Nat /\ Posted(e) \in Int
      /\ plan[e[1]].credit \in Nat \ {0}
      /\ At(e) \in Nat \ {0} /\ Pc(e) \in BlockPlaces
      /\ lead[e] \in LeadPlaces /\ post[e] \in PostPlaces
  BY EndNumbers DEF LaunchInv
<1>2. LastStep(e) \in Nat
  <2>1. CASE Used(e)
    BY <2>1, StepsAre
  <2>2. CASE ~Used(e)
    BY <2>2 DEF LastStep
  <2>3. QED
    BY <2>1, <2>2
<1>3. CASE host[e[1]] # "kernel" \/ Pc(e) # "run"
  BY <1>2, <1>3 DEF ToCopy, ToPost, Credited
<1>4. CASE host[e[1]] = "kernel" /\ Pc(e) = "run" /\ ~Serving(e)
  <2>1. Used(e) /\ At(e) \in 1 .. Count(e) /\ lead[e] = "out" /\ post[e] = "out"
    <3>1. Used(e) /\ At(e) <= Count(e) /\ lead[e] = "out" /\ post[e] = "out"
      BY <1>4 DEF EndShape
    <3>2. Count(e) \in Nat
      BY <3>1, StepsAre
    <3>3. QED
      BY <1>1, <3>1, <3>2
  <2>2. StepsBefore(e, At(e) + 1) \in Nat /\ StepsBefore(e, At(e) + 1) <= LastStep(e)
    <3>1. Count(e) \in Nat
      BY <2>1, StepsAre
    <3>2. At(e) + 1 \in 1 .. Count(e) + 1
      BY <2>1, <3>1
    <3>3. QED
      BY <2>1, <3>2, StepsAre
  <2>3. QED
    BY <1>2, <1>4, <2>1, <2>2 DEF ToCopy, ToPost, Credited
<1>5. CASE Serving(e)
  <2> DEFINE p == StepsBefore(e, At(e))
             n == Steps(e)
  <2>1. p \in Nat /\ n \in Nat \ {0} /\ p + n <= LastStep(e)
    BY <1>5, WorkIs
  <2>2. /\ ToCopy(e) = IF lead[e] = "out" THEN p + n + 1
                       ELSE IF lead[e] \in {"main", "check"} THEN p + slice[e] + 1
                       ELSE p + slice[e]
        /\ ToPost(e) = IF post[e] = "out" THEN p + n + 1 ELSE p + Posted(e) + 1
        /\ Credited(e) = IF post[e] = "out" THEN p + n
                         ELSE p + Whole(plan[e[1]].credit, Posted(e), n)
    BY <1>5, Served
  <2> HIDE DEF p, n
  <2>3. /\ lead[e] \in {"wait", "bar", "copy", "main", "check"} => slice[e] <= n
        /\ lead[e] \in {"drain", "drained"} => slice[e] = n + 1
    BY DEF EndShape, n
  <2>4. ToCopy(e) \in Nat \ {0} /\ ToCopy(e) <= LastStep(e) + 1
    BY <1>1, <1>2, <2>1, <2>2, <2>3 DEF LeadPlaces
  <2>5. ASSUME ~error[e[1]]
        PROVE  /\ ToPost(e) \in Nat /\ ToPost(e) <= ToCopy(e)
               /\ Credited(e) \in Nat /\ Credited(e) < ToCopy(e)
    <3>1. /\ post[e] # "out" => PostSlice(e) <= n
          /\ post[e] \in {"post", "check"} => PostSlice(e) >= 1
          /\ post[e] = "out" /\ lead[e] # "out" => lead[e] = "check" /\ slice[e] = n
      BY <2>5 DEF EndPost, n
    <3>2. CASE post[e] = "out"
      BY <1>1, <2>1, <2>2, <3>1, <3>2
    <3>3. CASE post[e] # "out"
      <4>1. Posted(e) \in Nat /\ Posted(e) <= PostSlice(e)
        BY <1>1, <3>1 DEF Posted
      <4>2. Whole(plan[e[1]].credit, Posted(e), n) \in Nat
            /\ Whole(plan[e[1]].credit, Posted(e), n) <= Posted(e)
        BY <1>1, <2>1, <4>1, WholeIs
      <4>3. p + Posted(e) + 1 <= ToCopy(e)
        BY <1>1, <2>1, <2>2, <2>3, <3>1, <3>3, <4>1 DEF PostSlice, LeadPlaces
      <4> DEFINE c == Whole(plan[e[1]].credit, Posted(e), n)
      <4>4. ToPost(e) = p + Posted(e) + 1 /\ Credited(e) = p + c
        BY <2>2, <3>3
      <4> HIDE DEF c
      <4>5. c \in Nat /\ c <= Posted(e)
        BY <4>2 DEF c
      <4>6. QED
        BY <2>1, <2>4, <4>1, <4>3, <4>4, <4>5
    <3>4. QED
      BY <3>2, <3>3
  <2>6. QED
    BY <1>2, <2>4, <2>5
<1>6. QED
  BY <1>3, <1>4, <1>5 DEF Serving

\* What is to be shown of an end whose thread takes a step.
LEMMA ActingEnd ==
  ASSUME LaunchInv, StepsInOrder, StateTypes, StateTypes', Kept, UNCHANGED block,
         NEW e \in Links, EndInv(e), lead[e] # "out" \/ post[e] # "out"
  PROVE  /\ Serving(e) /\ host[e[1]] = "kernel"
         /\ StepsBefore(e, At(e)) \in Nat /\ Steps(e) \in Nat \ {0}
         /\ ToCopy(e)' = IF lead'[e] = "out" THEN StepsBefore(e, At(e)) + Steps(e) + 1
                         ELSE IF lead'[e] \in {"main", "check"} THEN StepsBefore(e, At(e)) + slice'[e] + 1
                         ELSE StepsBefore(e, At(e)) + slice'[e]
         /\ /\ lead'[e] \in {"wait", "bar", "copy", "main", "check"} => slice'[e] <= Steps(e)
            /\ lead'[e] \in {"drain", "drained"} => slice'[e] = Steps(e) + 1 /\ Drains(e)
            /\ filled'[e] \/ error'[e[1]]
            => EndShape(e)'
         /\ (~error'[e[1]] =>
               /\ post'[e] # "out" => PostSlice(e)' <= Steps(e)
               /\ post'[e] \in {"post", "check"} => PostSlice(e)' >= 1
               /\ post'[e] = "drained" => PostSlice(e)' = Steps(e)
               /\ post'[e] = "out" /\ lead'[e] # "out" =>
                    lead'[e] = "check" /\ slice'[e] = Steps(e) /\ ~Drains(e)
               /\ lead'[e] = "out" /\ post'[e] # "out" => slice'[e] = Steps(e))
            => EndPost(e)'
         /\ (lead'[e] \in {"bar", "copy"} /\ filled'[e] => ToCopy(e)' <= Known(e)' + Room(e))
            => EndCopy(e)'
         /\ (Sends(e[1]) /\ ~error'[e[1]] /\ lead'[e] \in {"drained", "out"} /\ ToCopy(e)' = LastStep(e) + 1
               => LastStep(e) <= Known(e)')
            => EndDone(e)'
<1>1. Serving(e)
  BY DEF EndInv, EndShape
<1>2. /\ Pc(e)' = Pc(e) /\ At(e)' = At(e)
      /\ WorkOf(e)' = WorkOf(e) /\ Steps(e)' = Steps(e) /\ (Drains(e)' <=> Drains(e))
      /\ (Serving(e)' <=> Serving(e))
  BY WorkIsKept DEF LaunchInv
<1>3. /\ (Used(e)' <=> Used(e)) /\ Count(e)' = Count(e) /\ LastStep(e)' = LastStep(e)
      /\ Depth(e)' = Depth(e) /\ (Sends(e[1])' <=> Sends(e[1]))
  BY PlanIsKept DEF Kept
<1>4. host[e[1]] = "kernel" /\ host'[e[1]] = "kernel"
  BY <1>1, Served DEF Kept
<1>5. Room(e)' = Room(e)
  BY <1>3 DEF Room
<1>6. StepsBefore(e, At(e)) \in Nat /\ Steps(e) \in Nat \ {0}
  BY <1>1, WorkIs
<1>7. ToCopy(e)' = IF lead'[e] = "out" THEN StepsBefore(e, At(e)) + Steps(e) + 1
                   ELSE IF lead'[e] \in {"main", "check"} THEN StepsBefore(e, At(e)) + slice'[e] + 1
                   ELSE StepsBefore(e, At(e)) + slice'[e]
  BY <1>1, ServedNext
<1>8. /\ Pc(e) # "off" => Used(e)
      /\ Pc(e) = "run" => At(e) <= Count(e)
  BY DEF EndInv, EndShape
<1>9. ASSUME /\ lead'[e] \in {"wait", "bar", "copy", "main", "check"} => slice'[e] <= Steps(e)
             /\ lead'[e] \in {"drain", "drained"} => slice'[e] = Steps(e) + 1 /\ Drains(e)
             /\ filled'[e] \/ error'[e[1]]
      PROVE  EndShape(e)'
  BY <1>1, <1>2, <1>3, <1>4, <1>8, <1>9 DEF EndShape
<1>10. ASSUME ~error'[e[1]] =>
               /\ post'[e] # "out" => PostSlice(e)' <= Steps(e)
               /\ post'[e] \in {"post", "check"} => PostSlice(e)' >= 1
               /\ post'[e] = "drained" => PostSlice(e)' = Steps(e)
               /\ post'[e] = "out" /\ lead'[e] # "out" =>
                    lead'[e] = "check" /\ slice'[e] = Steps(e) /\ ~Drains(e)
               /\ lead'[e] = "out" /\ post'[e] # "out" => slice'[e] = Steps(e)
       PROVE  EndPost(e)'
  BY <1>2, <1>10 DEF EndPost
<1>11. ASSUME lead'[e] \in {"bar", "copy"} /\ filled'[e] => ToCopy(e)' <= Known(e)' + Room(e)
       PROVE  EndCopy(e)'
  BY <1>5, <1>11 DEF EndCopy
<1>12. ASSUME Sends(e[1]) /\ ~error'[e[1]] /\ lead'[e] \in {"drained", "out"} /\ ToCopy(e)' = LastStep(e) + 1
               => LastStep(e) <= Known(e)'
       PROVE  EndDone(e)'
  BY <1>3, <1>12 DEF EndDone
<1>13. QED
  BY <1>1, <1>4, <1>6, <1>7, <1>9, <1>10, <1>11, <1>12

\* A slot of the FIFO of a sender's end, and the indices of an end's slots.
Fifo(e, i) == <<e[1], e[2], e[3], i>>
Index(e)   == 0 .. Depth(e) - 1

LEMMA IndexOf ==
  ASSUME TypeInv, NEW e \in Links, NEW t \in Int
  PROVE  t % Depth(e) \in Index(e)
<1>1. Depth(e) \in Nat \ {0}
  BY LinkParts
<1>2. \A x \in Int, m \in Nat \ {0} : x % m \in 0 .. m - 1
  OBVIOUS
<1>3. QED
  BY <1>1, <1>2 DEF Index

LEMMA FifoIsSlot ==
  ASSUME TypeInv, NEW e \in Links, Sends(e[1]), ~Gin(e), NEW i \in Index(e)
  PROVE  Fifo(e, i) \in Slots
<1>1. e \in {m \in Links : Sends(m[1]) /\ ~Gin(m)} /\ i \in 0 .. d.depth - 1
  BY DEF Index, Depth
<1>2. QED
  BY <1>1 DEF Slots, Fifo

\* What a wait loads and needs.
LEMMA AwaitedIs ==
  ASSUME LaunchInv, StepsInOrder, StateTypes, NEW e \in Links, Serving(e)
  PROVE  /\ Awaited(e).needed =
              IF lead[e] = "drain" THEN StepsBefore(e, At(e)) + slice[e] - 1
              ELSE IF Sends(e[1]) THEN StepsBefore(e, At(e)) + slice[e] - Depth(e)
              ELSE StepsBefore(e, At(e)) + slice[e]
         /\ Gin(e) => Awaited(e).read = Known(e)
         /\ ~Gin(e) /\ Sends(e[1]) => \E i \in Index(e) : Awaited(e).read = consumed[Fifo(e, i)]
         /\ ~Gin(e) /\ ~Sends(e[1]) => \E i \in Index(e) : Awaited(e).read = ready[Fifo(Back(e), i)]
         /\ Awaited(e).read \in Nat
<1> DEFINE p == StepsBefore(e, At(e))
           step == StepAt(e, slice[e])
<1>1. /\ p \in Nat /\ WorkOf(e).first = p + 1 /\ WorkOf(e).depth = Depth(e)
      /\ slice[e] \in Nat \ {0}
  BY WorkIs, EndNumbers DEF LaunchInv
<1>2. step = p + slice[e] /\ step \in Int /\ step - 1 \in Int
  <2>1. WorkOf(e).first + slice[e] - 1 = p + slice[e]
    BY <1>1
  <2>2. QED
    BY <1>1, <2>1 DEF StepAt
<1>3. /\ Back(e) \in Links /\ Back(e)[1] = e[2] /\ Back(e)[2] = e[1] /\ Back(e)[3] = e[3]
      /\ (Sends(e[1]) <=> ~Sends(e[2])) /\ (Gin(Back(e)) <=> Gin(e)) /\ Depth(Back(e)) = Depth(e)
      /\ Depth(e) \in Nat \ {0}
  BY LinkParts DEF LaunchInv
<1>4. Awaited(e).needed = IF lead[e] = "drain" THEN step - 1
                          ELSE IF Sends(e[1]) THEN step - Depth(e) ELSE step
  BY <1>1 DEF Awaited, FreeFrom
<1> HIDE DEF step, p
<1>5. Awaited(e).needed = IF lead[e] = "drain" THEN p + slice[e] - 1
                          ELSE IF Sends(e[1]) THEN p + slice[e] - Depth(e) ELSE p + slice[e]
  BY <1>1, <1>2, <1>3, <1>4
<1>6. Awaited(e).read =
        IF Gin(e) THEN (IF Sends(e[1]) THEN creditSignal[Back(e)] ELSE readySignal[Back(e)])
        ELSE IF Sends(e[1]) THEN consumed[Slot(e, IF lead[e] = "drain" THEN step - 1 ELSE step)]
        ELSE ready[Slot(e, step)]
  BY DEF Awaited, step
<1>7. CASE Gin(e)
  <2>1. Awaited(e).read = Known(e)
    BY <1>6, <1>7 DEF Known
  <2>2. Known(e) \in Nat
    BY EndNumbers DEF LaunchInv
  <2>3. QED
    BY <1>5, <1>7, <2>1, <2>2 DEF p
<1>8. CASE ~Gin(e) /\ Sends(e[1])
  <2>1. PICK t \in Int : Awaited(e).read = consumed[Slot(e, t)]
    <3>1. CASE lead[e] = "drain"
      BY <1>2, <1>6, <1>8, <3>1
    <3>2. CASE lead[e] # "drain"
      BY <1>2, <1>6, <1>8, <3>2
    <3>3. QED
      BY <3>1, <3>2
  <2>2. Slot(e, t) = Fifo(e, t % Depth(e)) /\ t % Depth(e) \in Index(e)
    BY <1>1, <1>8, IndexOf DEF Slot, Fifo, LaunchInv
  <2>3. consumed[Fifo(e, t % Depth(e))] \in Nat
    BY <1>8, <2>2, FifoIsSlot DEF StateTypes, PlanTypes, ThreadTypes, ShareTypes, LaunchInv
  <2>4. QED
    BY <1>5, <1>8, <2>1, <2>2, <2>3 DEF p
<1>9. CASE ~Gin(e) /\ ~Sends(e[1])
  <2>1. Awaited(e).read = ready[Slot(e, step)]
    BY <1>6, <1>9
  <2>2. Slot(e, step) = Fifo(Back(e), step % Depth(e)) /\ step % Depth(e) \in Index(e)
    BY <1>1, <1>2, <1>3, <1>9, IndexOf DEF Slot, Fifo, LaunchInv
  <2>3. ready[Fifo(Back(e), step % Depth(e))] \in Nat
    <3>1. step % Depth(e) \in Index(Back(e))
      BY <1>3, <2>2 DEF Index
    <3>2. Fifo(Back(e), step % Depth(e)) \in Slots
      BY <1>3, <1>9, <3>1, FifoIsSlot DEF LaunchInv
    <3>3. QED
      BY <3>2 DEF StateTypes, PlanTypes, ThreadTypes, ShareTypes
  <2>4. QED
    BY <1>5, <1>9, <2>1, <2>2, <2>3 DEF p
<1>10. QED
  BY <1>7, <1>8, <1>9

\* What is published of a slice.
LEMMA PublishIs ==
  ASSUME LaunchInv, StepsInOrder, StateTypes, NEW e \in Links, Serving(e), PostSlice(e) >= 1,
         Publish(e, PostSlice(e))
  PROVE  LET step  == StepsBefore(e, At(e)) + PostSlice(e)
             batch == plan[e[1]].credit
             given == CreditsReturned(batch, PostSlice(e), PostSlice(e) = Steps(e))
         IN  /\ step \in Nat /\ given \in Nat
             /\ Gin(e) => UNCHANGED fifo
             /\ ~Gin(e) => UNCHANGED <<puts, credits>>
             /\ Gin(e) /\ Sends(e[1]) =>
                  /\ puts' = [puts EXCEPT ![e] = Append(@, [step |-> step, depth |-> Depth(e)])]
                  /\ credits' = credits
             /\ Gin(e) /\ ~Sends(e[1]) =>
                  /\ puts' = puts
                  /\ credits' = IF given = 0 THEN credits ELSE [credits EXCEPT ![e] = Append(@, given)]
             /\ ~Gin(e) /\ Sends(e[1]) =>
                  /\ consumed' = consumed
                  /\ step % Depth(e) \in Index(e) /\ Fifo(e, step % Depth(e)) \in Slots
                  /\ ready' = [ready EXCEPT ![Fifo(e, step % Depth(e))] = step]
             /\ ~Gin(e) /\ ~Sends(e[1]) =>
                  /\ ready' = ready
                  /\ step % Depth(e) \in Index(Back(e)) /\ Fifo(Back(e), step % Depth(e)) \in Slots
                  /\ consumed' = [consumed EXCEPT ![Fifo(Back(e), step % Depth(e))] = step]
<1> DEFINE step  == StepsBefore(e, At(e)) + PostSlice(e)
           batch == plan[e[1]].credit
           k     == PostSlice(e)
           given == CreditsReturned(batch, k, k = Steps(e))
<1>1. /\ StepsBefore(e, At(e)) \in Nat /\ WorkOf(e).first = StepsBefore(e, At(e)) + 1
      /\ WorkOf(e).depth = Depth(e) /\ k \in Nat /\ k >= 1 /\ batch \in Nat \ {0}
  BY WorkIs, EndNumbers DEF LaunchInv
<1>2. StepAt(e, k) = step /\ step \in Nat
  BY <1>1 DEF StepAt
<1>3. given \in Nat
  <2> HIDE DEF batch, k
  <2>1. k % batch \in Nat
    BY <1>1, QuotientAndRest
  <2>2. QED
    BY <1>1, <2>1 DEF CreditsReturned
<1>4. given = CreditsReturned(plan[e[1]].credit, k, k = WorkSteps(WorkOf(e)))
  BY DEF Steps
<1>5. /\ Back(e) \in Links /\ Back(e)[1] = e[2] /\ Back(e)[2] = e[1] /\ Back(e)[3] = e[3]
      /\ (Sends(e[1]) <=> ~Sends(e[2])) /\ (Gin(Back(e)) <=> Gin(e)) /\ Depth(Back(e)) = Depth(e)
      /\ Depth(e) \in Nat \ {0}
  BY LinkParts DEF LaunchInv
<1>6. step % Depth(e) \in Index(e) /\ step % Depth(e) \in Index(Back(e))
  BY <1>2, <1>5, IndexOf DEF Index, LaunchInv
<1> HIDE DEF step, k, given, batch
<1>7. /\ Sends(e[1]) => Slot(e, step) = Fifo(e, step % Depth(e))
      /\ ~Sends(e[1]) => Slot(e, step) = Fifo(Back(e), step % Depth(e))
  BY <1>1, <1>5 DEF Slot, Fifo
<1>8. Publish(e, k)
  BY DEF k
<1>9. CASE Gin(e) /\ Sends(e[1])
  <2>1. /\ puts' = [puts EXCEPT ![e] = Append(@, [step |-> step, depth |-> Depth(e)])]
        /\ UNCHANGED <<fifo, credits>>
    BY <1>1, <1>2, <1>8, <1>9 DEF Publish
  <2>2. QED
    BY <1>2, <1>3, <1>9, <2>1 DEF step, given, batch, k
<1>10. CASE Gin(e) /\ ~Sends(e[1])
  <2>1. /\ credits' = IF given = 0 THEN credits ELSE [credits EXCEPT ![e] = Append(@, given)]
        /\ UNCHANGED <<fifo, puts>>
    BY <1>4, <1>8, <1>10 DEF Publish
  <2>2. QED
    BY <1>2, <1>3, <1>10, <2>1 DEF step, given, batch, k
<1>11. CASE ~Gin(e) /\ Sends(e[1])
  <2>1. /\ ready' = [ready EXCEPT ![Fifo(e, step % Depth(e))] = step]
        /\ UNCHANGED <<consumed, puts, credits>>
    BY <1>2, <1>7, <1>8, <1>11 DEF Publish
  <2>2. Fifo(e, step % Depth(e)) \in Slots
    BY <1>6, <1>11, FifoIsSlot DEF LaunchInv
  <2>3. QED
    BY <1>2, <1>3, <1>6, <1>11, <2>1, <2>2 DEF step, given, batch, k
<1>12. CASE ~Gin(e) /\ ~Sends(e[1])
  <2>1. /\ consumed' = [consumed EXCEPT ![Fifo(Back(e), step % Depth(e))] = step]
        /\ UNCHANGED <<ready, puts, credits>>
    BY <1>2, <1>7, <1>8, <1>12 DEF Publish
  <2>2. Fifo(Back(e), step % Depth(e)) \in Slots
    BY <1>5, <1>6, <1>12, FifoIsSlot DEF LaunchInv
  <2>3. QED
    BY <1>2, <1>3, <1>6, <1>12, <2>1, <2>2 DEF step, given, batch, k
<1>13. QED
  BY <1>9, <1>10, <1>11, <1>12

\* What a thread's step leaves alone: the places of blocks, the signals, and
\* everything of the other ends' threads.
LEMMA ThreadFrame ==
  ASSUME TypeInv, StateTypes, NEW e \in Links, ThreadStep(e)
  PROVE  /\ Kept /\ UNCHANGED <<block, readySignal, creditSignal>>
         /\ \A f \in Links \ {e} :
              /\ lead'[f] = lead[f] /\ post'[f] = post[f] /\ slice'[f] = slice[f]
              /\ cache'[f] = cache[f] /\ filled'[f] = filled[f]
<1>1. /\ e[1] \in Ranks(d) /\ error \in [Ranks(d) -> BOOLEAN]
      /\ lead \in [Links -> LeadPlaces] /\ post \in [Links -> PostPlaces]
      /\ slice \in [Links -> Nat \ {0}] /\ cache \in [Links -> Nat] /\ filled \in [Links -> BOOLEAN]
  BY LinkParts DEF TypeInv, StateTypes, PlanTypes, ThreadTypes, ShareTypes
<1>2. CASE WaitPasses(e)
  BY <1>1, <1>2 DEF WaitPasses, Kept, gin
<1>3. CASE WaitGivesUp(e)
  BY <1>1, <1>3 DEF WaitGivesUp, Kept, gin
<1>4. CASE FirstBarrier(e)
  BY <1>1, <1>4 DEF FirstBarrier, Kept, gin
<1>5. CASE CopyOut(e)
  BY <1>1, <1>5 DEF CopyOut, Kept, gin
<1>6. CASE CopyIn(e)
  BY <1>1, <1>6 DEF CopyIn, Kept, gin
<1>7. CASE MainBarrier(e)
  BY <1>1, <1>7 DEF MainBarrier, Kept, gin
<1>8. CASE Post(e)
  BY <1>1, <1>8 DEF Post, Kept
<1>9. CASE LeadCheck(e)
  BY <1>1, <1>9 DEF LeadCheck, Kept, gin
<1>10. CASE PostCheck(e)
  BY <1>1, <1>10 DEF PostCheck, Kept, gin
<1>11. QED
  BY <1>2, <1>3, <1>4, <1>5, <1>6, <1>7, <1>8, <1>9, <1>10 DEF ThreadStep

\* The places a thread may go to.
LEMMA NextPlaces ==
  ASSUME NEW e, NEW k
  PROVE  /\ AfterSlice(e, k, "wait") \in {"wait", "drain", "out"}
         /\ AfterSlice(e, k, "main") \in {"main", "drained", "out"}
         /\ AfterSlice(e, k, "bar") \in {"bar", "drained", "out"}
         /\ Waited(e) \in {"drained", "copy", "bar"}
BY DEF AfterSlice, Waited

LEMMA ThreadPlaces ==
  ASSUME LaunchInv, StepsInOrder, StateTypes, NEW e \in Links, EndInv(e), ThreadStep(e)
  PROVE  ThreadTypes'
<1>1. /\ lead \in [Links -> LeadPlaces] /\ post \in [Links -> PostPlaces]
      /\ slice \in [Links -> Nat \ {0}] /\ cache \in [Links -> Nat] /\ filled \in [Links -> BOOLEAN]
  BY DEF StateTypes, PlanTypes, ThreadTypes, ShareTypes
<1>2. Links' = Links
  BY ThreadFrame, PlanIsKept DEF Kept, LaunchInv
<1>3. /\ \A k : AfterSlice(e, k, "wait") \in {"wait", "drain", "out"}
      /\ \A k : AfterSlice(e, k, "main") \in {"main", "drained", "out"}
      /\ \A k : AfterSlice(e, k, "bar") \in {"bar", "drained", "out"}
      /\ Waited(e) \in {"drained", "copy", "bar"}
  BY NextPlaces
<1>4. /\ lead' \in [Links -> LeadPlaces] /\ post' \in [Links -> PostPlaces]
      /\ slice' \in [Links -> Nat \ {0}] /\ cache' \in [Links -> Nat] /\ filled' \in [Links -> BOOLEAN]
  <2>1. CASE WaitPasses(e)
    <3>1. Awaited(e).read \in Nat
      <4>1. Serving(e)
        BY <2>1 DEF WaitPasses, EndInv, EndShape
      <4>2. QED
        BY <4>1, AwaitedIs
    <3> DEFINE x == Awaited(e).read
    <3>2. cache' \in [Links -> Nat]
      <4>1. cache' = cache \/ cache' = [cache EXCEPT ![e] = x]
        BY <2>1 DEF WaitPasses
      <4> HIDE DEF x
      <4>2. x \in Nat
        BY <3>1 DEF x
      <4>3. QED
        BY <1>1, <4>1, <4>2
    <3>3. filled' = filled \/ filled' = [filled EXCEPT ![e] = TRUE]
      BY <2>1 DEF WaitPasses
    <3>4. lead' = [lead EXCEPT ![e] = Waited(e)] /\ post' = post /\ slice' = slice
      BY <2>1 DEF WaitPasses
    <3>5. QED
      BY <1>1, <1>3, <3>2, <3>3, <3>4 DEF LeadPlaces
  <2>2. CASE WaitGivesUp(e)
    BY <1>1, <1>3, <2>2 DEF WaitGivesUp, LeadPlaces
  <2>3. CASE FirstBarrier(e)
    BY <1>1, <2>3 DEF FirstBarrier, LeadPlaces, PostPlaces
  <2>4. CASE CopyOut(e)
    BY <1>1, <2>4 DEF CopyOut, LeadPlaces
  <2>5. CASE CopyIn(e)
    BY <1>1, <2>5 DEF CopyIn, LeadPlaces
  <2>6. CASE MainBarrier(e)
    BY <1>1, <2>6 DEF MainBarrier, LeadPlaces, PostPlaces
  <2>7. CASE Post(e)
    BY <1>1, <2>7 DEF Post, PostPlaces
  <2>8. CASE LeadCheck(e)
    <3> DEFINE next == IF error[e[1]] THEN "out" ELSE AfterSlice(e, slice[e], "wait")
    <3>1. /\ lead' = [lead EXCEPT ![e] = next]
          /\ slice' = [slice EXCEPT ![e] = @ + 1] \/ slice' = slice
          /\ post' = post /\ cache' = cache /\ filled' = filled
      BY <2>8 DEF LeadCheck
    <3>2. next \in LeadPlaces
      BY <1>3 DEF LeadPlaces
    <3> HIDE DEF next
    <3>3. QED
      BY <1>1, <3>1, <3>2
  <2>9. CASE PostCheck(e)
    <3> DEFINE next == IF error[e[1]] THEN "out"
                       ELSE AfterSlice(e, PostSlice(e), IF Sends(e[1]) THEN "main" ELSE "bar")
    <3>1. /\ post' = [post EXCEPT ![e] = next]
          /\ lead' = lead /\ slice' = slice /\ cache' = cache /\ filled' = filled
      BY <2>9 DEF PostCheck
    <3>2. next \in PostPlaces
      BY <1>3 DEF PostPlaces
    <3> HIDE DEF next
    <3>3. QED
      BY <1>1, <3>1, <3>2
  <2>10. QED
    BY <2>1, <2>2, <2>3, <2>4, <2>5, <2>6, <2>7, <2>8, <2>9 DEF ThreadStep
<1>5. QED
  BY <1>2, <1>4 DEF ThreadTypes

LEMMA ThreadShares ==
  ASSUME LaunchInv, StepsInOrder, StateTypes, NEW e \in Links, EndInv(e), ThreadStep(e)
  PROVE  ShareTypes'
<1>1. ShareTypes
  BY DEF StateTypes
<1>2. Links' = Links /\ Slots' = Slots
  BY ThreadFrame, PlanIsKept DEF Kept, LaunchInv
<1>3. CASE UNCHANGED <<fifo, gin>>
  BY <1>1, <1>2, <1>3 DEF ShareTypes, fifo, gin
<1>4. CASE Post(e) /\ ~error[e[1]]
  <2>1. /\ Serving(e) /\ PostSlice(e) >= 1 /\ Publish(e, PostSlice(e))
        /\ UNCHANGED <<readySignal, creditSignal>>
    BY <1>4 DEF Post, EndInv, EndShape, EndPost
  <2> DEFINE step  == StepsBefore(e, At(e)) + PostSlice(e)
             given == CreditsReturned(plan[e[1]].credit, PostSlice(e), PostSlice(e) = Steps(e))
             message == [step |-> step, depth |-> Depth(e)]
  <2>2. /\ step \in Nat /\ given \in Nat
        /\ \/ puts' = puts \/ puts' = [puts EXCEPT ![e] = Append(@, message)]
        /\ \/ credits' = credits \/ credits' = [credits EXCEPT ![e] = Append(@, given)]
        /\ \/ ready' = ready \/ \E s \in Slots : ready' = [ready EXCEPT ![s] = step]
        /\ \/ consumed' = consumed \/ \E s \in Slots : consumed' = [consumed EXCEPT ![s] = step]
    <3>1. CASE Gin(e) /\ Sends(e[1])
      BY <2>1, <3>1, PublishIs DEF fifo
    <3>2. CASE Gin(e) /\ ~Sends(e[1])
      BY <2>1, <3>2, PublishIs DEF fifo
    <3>3. CASE ~Gin(e) /\ Sends(e[1])
      BY <2>1, <3>3, PublishIs
    <3>4. CASE ~Gin(e) /\ ~Sends(e[1])
      BY <2>1, <3>4, PublishIs
    <3>5. QED
      BY <3>1, <3>2, <3>3, <3>4
  <2>3. message \in Message
    <3>1. Depth(e) \in Int
      BY LinkParts DEF LaunchInv
    <3>2. QED
      BY <2>2, <3>1 DEF Message
  <2> HIDE DEF step, given, message
  <2>4. puts' \in [Links -> Seq(Message)] /\ credits' \in [Links -> Seq(Nat)]
    <3>1. puts[e] \in Seq(Message) /\ credits[e] \in Seq(Nat)
      BY <1>1 DEF ShareTypes
    <3>2. Append(puts[e], message) \in Seq(Message) /\ Append(credits[e], given) \in Seq(Nat)
      BY <2>2, <2>3, <3>1
    <3>3. puts' \in [Links -> Seq(Message)]
      BY <1>1, <2>2, <3>2 DEF ShareTypes
    <3>4. credits' \in [Links -> Seq(Nat)]
      BY <1>1, <2>2, <3>2 DEF ShareTypes
    <3>5. QED
      BY <3>3, <3>4
  <2>5. ready' \in [Slots -> Nat] /\ consumed' \in [Slots -> Nat]
    BY <1>1, <2>2 DEF ShareTypes
  <2>6. QED
    BY <1>1, <1>2, <2>1, <2>4, <2>5 DEF ShareTypes
<1>5. CASE Post(e) /\ error[e[1]]
  BY <1>1, <1>2, <1>5 DEF Post, ShareTypes, fifo
<1>6. UNCHANGED <<fifo, gin>> \/ Post(e)
  BY DEF ThreadStep, WaitPasses, WaitGivesUp, FirstBarrier, CopyOut, CopyIn, MainBarrier, LeadCheck, PostCheck
<1>7. QED
  BY <1>3, <1>4, <1>5, <1>6

LEMMA PlanTypesKept ==
  ASSUME PlanTypes, UNCHANGED <<d, plan>>
  PROVE  PlanTypes'
BY DEF PlanTypes

LEMMA ThreadsAreTyped ==
  ASSUME LaunchInv, StepsInOrder, StateTypes, NEW e \in Links, EndInv(e), ThreadStep(e)
  PROVE  StateTypes'
<1>1. ThreadTypes' /\ ShareTypes'
  BY ThreadPlaces, ThreadShares
<1>2. PlanTypes'
  BY ThreadFrame, PlanTypesKept DEF Kept, LaunchInv, StateTypes
<1>3. QED
  BY <1>1, <1>2 DEF StateTypes

-----------------------------------------------------------------------------
(***************************************************************************)
(* What a thread's step does to its end.                                   *)
(***************************************************************************)

\* An end that keeps its place: the next steps it copies and publishes are
\* the same, unless it gives up.
Steady(e) ==
  /\ EndInv(e)' /\ ToCopy(e) <= ToCopy(e)'
  /\ ~error'[e[1]] =>
       ToCopy(e)' = ToCopy(e) /\ ToPost(e)' = ToPost(e) /\ Credited(e)' = Credited(e)

\* How a step_cache changes: a batch begins with 0, a wait loads a step.
Loads(e) ==
  \/ cache'[e] = 0
  \/ cache'[e] = cache[e] /\ (lead'[e] # "out" => lead[e] # "out")
  \/ cache'[e] = Awaited(e).read /\ Serving(e) /\ ~Gin(e) /\ lead[e] # "out"

\* All that the steps below need to know of an end and of its next state.
LEMMA Acting ==
  ASSUME LaunchInv, StepsInOrder, StateTypes, NEW e \in Links, EndInv(e), ThreadStep(e),
         lead[e] # "out" \/ post[e] # "out"
  PROVE  LET p == StepsBefore(e, At(e))
             n == Steps(e)
         IN  /\ p \in Nat /\ n \in Nat \ {0} /\ p + n <= LastStep(e) /\ LastStep(e) \in Nat
             /\ Sends(e[1]) /\ ~Drains(e) => p + n # LastStep(e)
             /\ Drains(e) => Sends(e[1])
             /\ slice[e] \in Nat \ {0} /\ slice'[e] \in Nat \ {0}
             /\ lead[e] \in LeadPlaces /\ post[e] \in PostPlaces
             /\ lead'[e] \in LeadPlaces /\ post'[e] \in PostPlaces
             /\ Known(e) \in Nat /\ Known(e)' \in Nat /\ Room(e) \in Nat
             /\ plan[e[1]].credit \in Nat \ {0}
             /\ Serving(e) /\ host[e[1]] = "kernel"
             /\ ToCopy(e) = IF lead[e] = "out" THEN p + n + 1
                            ELSE IF lead[e] \in {"main", "check"} THEN p + slice[e] + 1
                            ELSE p + slice[e]
             /\ ToCopy(e)' = IF lead'[e] = "out" THEN p + n + 1
                             ELSE IF lead'[e] \in {"main", "check"} THEN p + slice'[e] + 1
                             ELSE p + slice'[e]
             /\ ToPost(e) = IF post[e] = "out" THEN p + n + 1 ELSE p + Posted(e) + 1
             /\ ToPost(e)' = IF post'[e] = "out" THEN p + n + 1 ELSE p + Posted(e)' + 1
             /\ Credited(e) = IF post[e] = "out" THEN p + n
                              ELSE p + Whole(plan[e[1]].credit, Posted(e), n)
             /\ Credited(e)' = IF post'[e] = "out" THEN p + n
                               ELSE p + Whole(plan[e[1]].credit, Posted(e)', n)
<1>1. StateTypes' /\ Kept /\ UNCHANGED block /\ e \in Links'
  BY ThreadsAreTyped, ThreadFrame, PlanIsKept DEF Kept, LaunchInv
<1>2. Serving(e) /\ host[e[1]] = "kernel" /\ block'[BlockOf(e)] = block[BlockOf(e)]
  <2>1. block'[BlockOf(e)] = block[BlockOf(e)]
    BY <1>1
  <2>2. Serving(e)
    BY DEF EndInv, EndShape
  <2>3. QED
    BY <2>1, <2>2, Served
<1>3. /\ slice[e] \in Nat \ {0} /\ lead[e] \in LeadPlaces /\ post[e] \in PostPlaces
      /\ Known(e) \in Nat /\ Room(e) \in Nat /\ plan[e[1]].credit \in Nat \ {0}
  BY EndNumbers DEF LaunchInv
<1>4. slice'[e] \in Nat \ {0} /\ lead'[e] \in LeadPlaces /\ post'[e] \in PostPlaces
  BY <1>1 DEF StateTypes, ThreadTypes
<1>5. Known(e)' \in Nat
  <2>1. Back(e) \in Links'
    BY <1>1, LinkParts, PlanIsKept DEF Kept, LaunchInv
  <2>2. cache'[e] \in Nat /\ creditSignal'[Back(e)] \in Nat /\ readySignal'[Back(e)] \in Nat
    BY <1>1, <2>1 DEF StateTypes, ThreadTypes, ShareTypes
  <2>3. Known(e)' = IF ~Gin(e)' THEN cache'[e]
                    ELSE IF Sends(e[1])' THEN creditSignal'[Back(e)] ELSE readySignal'[Back(e)]
    BY DEF Known
  <2>4. QED
    BY <2>2, <2>3
<1>6. Drains(e) => Sends(e[1])
  BY DEF Drains
<1>7. QED
  BY <1>1, <1>2, <1>3, <1>4, <1>5, <1>6, WorkIs, Served, ServedNext

LEMMA WaitPassesSteady ==
  ASSUME LaunchInv, StepsInOrder, StateTypes, NEW e \in Links, EndInv(e), WaitPasses(e)
  PROVE  Steady(e) /\ Loads(e)
<1> DEFINE p == StepsBefore(e, At(e))
           n == Steps(e)
<1>1. ThreadStep(e) /\ lead[e] \in {"wait", "drain"} /\ lead[e] # "out"
  BY DEF ThreadStep, WaitPasses
<1>2. StateTypes' /\ Kept /\ UNCHANGED <<block, creditSignal, readySignal>>
  BY <1>1, ThreadsAreTyped, ThreadFrame DEF LaunchInv
<1>3. /\ post' = post /\ slice' = slice /\ error' = error
      /\ lead'[e] = Waited(e)
      /\ filled'[e] = TRUE \/ filled'[e] = filled[e]
  BY DEF WaitPasses, StateTypes, ThreadTypes
<1>4. /\ Serving(e) /\ p \in Nat /\ n \in Nat \ {0} /\ slice[e] \in Nat \ {0}
      /\ Known(e) \in Nat /\ Known(e)' \in Nat /\ Room(e) \in Nat
      /\ ToCopy(e) = p + slice[e] /\ ToCopy(e)' = p + slice[e]
  <2>1. lead'[e] \in {"copy", "bar", "drained"}
    BY <1>3 DEF Waited
  <2>2. QED
    BY <1>1, <1>3, <2>1, Acting
<1>5. PostSlice(e)' = PostSlice(e) /\ Posted(e)' = Posted(e)
  <2>1. lead'[e] \in {"copy", "bar", "drained"}
    BY <1>3 DEF Waited
  <2>2. PostSlice(e)' = PostSlice(e)
    BY <1>1, <1>3, <2>1 DEF PostSlice
  <2>3. QED
    BY <1>3, <2>2 DEF Posted
<1>6. ToPost(e)' = ToPost(e) /\ Credited(e)' = Credited(e)
  BY <1>1, <1>3, <1>5, Acting
<1>7. Awaited(e).needed <= Known(e)' /\ Loads(e)
  <2> DEFINE x == Awaited(e).read
  <2>1. \/ cache' = cache
        \/ cache' = [cache EXCEPT ![e] = x] /\ (IF Gin(e) THEN x ELSE cache[e]) < Awaited(e).needed
             /\ x >= Awaited(e).needed
    BY DEF WaitPasses
  <2>2. \/ cache' = cache /\ (IF Gin(e) THEN x ELSE cache[e]) >= Awaited(e).needed
        \/ cache' = [cache EXCEPT ![e] = x] /\ x >= Awaited(e).needed
    BY DEF WaitPasses
  <2>3. x \in Nat /\ Awaited(e).needed \in Int /\ (Gin(e) => x = Known(e))
    <3>1. Depth(e) \in Nat
      BY LinkParts DEF LaunchInv
    <3>2. QED
      BY <1>4, <3>1, AwaitedIs
  <2>4. /\ cache[e] \in Nat /\ cache \in [Links -> Nat]
    BY DEF StateTypes, ThreadTypes
  <2>5. Known(e)' = IF ~Gin(e) THEN cache'[e]
                    ELSE IF Sends(e[1]) THEN creditSignal[Back(e)] ELSE readySignal[Back(e)]
    <3>1. (Gin(e)' <=> Gin(e)) /\ (Sends(e[1])' <=> Sends(e[1]))
      BY <1>2, PlanIsKept DEF Kept
    <3>2. QED
      BY <1>2, <3>1 DEF Known
  <2> HIDE DEF x
  <2>6. Awaited(e).needed <= Known(e)'
    <3>1. CASE Gin(e)
      BY <2>2, <2>3, <2>5, <3>1 DEF Known
    <3>2. CASE ~Gin(e)
      BY <2>2, <2>3, <2>4, <2>5, <3>2
    <3>3. QED
      BY <3>1, <3>2
  <2>7. Loads(e)
    <3>1. CASE cache' = cache
      BY <1>1, <3>1 DEF Loads
    <3>2. CASE cache' # cache
      <4>1. ~Gin(e) /\ cache'[e] = x
        BY <2>1, <2>3, <2>4, <3>2
      <4>2. QED
        BY <1>1, <1>4, <4>1 DEF Loads, x
    <3>3. QED
      BY <3>1, <3>2
  <2>8. QED
    BY <2>6, <2>7
<1>8. EndShape(e)'
  <2>1. /\ lead'[e] \in {"wait", "bar", "copy", "main", "check"} => slice'[e] <= n
        /\ lead'[e] \in {"drain", "drained"} => slice'[e] = n + 1 /\ Drains(e)
        /\ filled'[e] \/ error'[e[1]]
    BY <1>1, <1>3 DEF EndInv, EndShape, Waited
  <2>2. QED
    BY <1>1, <1>2, <2>1, ActingEnd
<1>9. EndPost(e)'
  <2>1. ~error'[e[1]] =>
               /\ post'[e] # "out" => PostSlice(e)' <= n
               /\ post'[e] \in {"post", "check"} => PostSlice(e)' >= 1
               /\ post'[e] = "drained" => PostSlice(e)' = n
               /\ post'[e] # "out" /\ lead'[e] # "out"
    BY <1>1, <1>3, <1>5 DEF EndInv, EndPost, Waited
  <2>2. QED
    BY <1>1, <1>2, <2>1, ActingEnd
<1>10. EndCopy(e)'
  <2>1. lead'[e] \in {"bar", "copy"} => ToCopy(e)' <= Known(e)' + Room(e)
    <3>1. ASSUME lead[e] # "drain"
          PROVE  Awaited(e).needed = p + slice[e] - Room(e)
      BY <1>4, <3>1, AwaitedIs DEF Room
    <3> HIDE DEF p
    <3>2. QED
      BY <1>3, <1>4, <1>7, <3>1 DEF Waited
  <2>2. QED
    BY <1>1, <1>2, <2>1, ActingEnd
<1>11. EndDone(e)'
  <2>1. lead'[e] \in {"drained", "out"} /\ ToCopy(e)' = LastStep(e) + 1 => LastStep(e) <= Known(e)'
    <3>1. lead'[e] \in {"drained", "out"} => lead[e] = "drain"
      BY <1>3 DEF Waited
    <3>2. lead[e] = "drain" => Awaited(e).needed = p + slice[e] - 1
      BY <1>4, AwaitedIs
    <3>3. LastStep(e) \in Nat
      BY <1>1, Acting
    <3> HIDE DEF p
    <3>4. QED
      BY <1>4, <1>7, <3>1, <3>2, <3>3
  <2>2. QED
    BY <1>1, <1>2, <2>1, ActingEnd
<1>12. QED
  BY <1>4, <1>6, <1>7, <1>8, <1>9, <1>10, <1>11 DEF Steady, EndInv

\* What is to be shown of an end whose thread takes a step.
LEMMA ActingKeeps ==
  ASSUME LaunchInv, StepsInOrder, StateTypes, NEW e \in Links, EndInv(e), ThreadStep(e),
         lead[e] # "out" \/ post[e] # "out",
         lead'[e] \in {"wait", "bar", "copy", "main", "check"} => slice'[e] <= Steps(e),
         lead'[e] \in {"drain", "drained"} => slice'[e] = Steps(e) + 1 /\ Drains(e),
         filled'[e] \/ error'[e[1]],
         ~error'[e[1]] =>
            /\ post'[e] # "out" => PostSlice(e)' <= Steps(e)
            /\ post'[e] \in {"post", "check"} => PostSlice(e)' >= 1
            /\ post'[e] = "drained" => PostSlice(e)' = Steps(e)
            /\ post'[e] = "out" /\ lead'[e] # "out" =>
                 lead'[e] = "check" /\ slice'[e] = Steps(e) /\ ~Drains(e)
            /\ lead'[e] = "out" /\ post'[e] # "out" => slice'[e] = Steps(e),
         lead'[e] \in {"bar", "copy"} /\ filled'[e] => ToCopy(e)' <= Known(e)' + Room(e),
         Sends(e[1]) /\ ~error'[e[1]] /\ lead'[e] \in {"drained", "out"} /\ ToCopy(e)' = LastStep(e) + 1
            => LastStep(e) <= Known(e)'
  PROVE  EndInv(e)'
<1>1. StateTypes' /\ Kept /\ UNCHANGED block
  BY ThreadsAreTyped, ThreadFrame DEF LaunchInv
<1>2. EndShape(e)' /\ EndPost(e)'
  BY <1>1, ActingEnd
<1>3. EndCopy(e)' /\ EndDone(e)'
  BY <1>1, ActingEnd
<1>4. QED
  BY <1>2, <1>3 DEF EndInv

\* What an end knows of its peer changes with its cache and the signals only.
LEMMA KnownNext ==
  ASSUME Kept, UNCHANGED <<readySignal, creditSignal>>, NEW e \in Links, cache'[e] = cache[e]
  PROVE  Known(e)' = Known(e)
<1>1. (Gin(e)' <=> Gin(e)) /\ (Sends(e[1])' <=> Sends(e[1]))
  BY PlanIsKept DEF Kept
<1>2. QED
  BY <1>1 DEF Known

LEMMA WaitGivesUpSteady ==
  ASSUME LaunchInv, StepsInOrder, StateTypes, NEW e \in Links, EndInv(e), WaitGivesUp(e)
  PROVE  Steady(e) /\ Loads(e)
<1>1. /\ ThreadStep(e) /\ lead[e] \in {"wait", "drain"} /\ lead[e] # "out" /\ e[1] \in Ranks(d)
  BY LinkParts DEF ThreadStep, WaitGivesUp, LaunchInv
<1>2. /\ post' = post /\ slice' = slice /\ cache' = cache
      /\ lead'[e] = Waited(e) /\ ~filled'[e] /\ error'[e[1]]
  BY <1>1 DEF WaitGivesUp, StateTypes, ThreadTypes, LaunchInv, TypeInv
<1>3. /\ lead[e] = "drain" => lead'[e] = "drained"
      /\ lead[e] = "wait" => lead'[e] \in {"copy", "bar"}
  BY <1>2 DEF Waited
<1>4. EndInv(e)'
  BY <1>1, <1>2, <1>3, ActingKeeps DEF EndInv, EndShape
<1>5. ToCopy(e)' = ToCopy(e) /\ ToCopy(e) \in Nat
  BY <1>1, <1>2, <1>3, Acting
<1>6. QED
  BY <1>1, <1>2, <1>4, <1>5 DEF Steady, Loads

LEMMA FirstBarrierSteady ==
  ASSUME LaunchInv, StepsInOrder, StateTypes, NEW e \in Links, EndInv(e), FirstBarrier(e)
  PROVE  Steady(e) /\ Loads(e)
<1>1. /\ ThreadStep(e) /\ lead[e] = "bar" /\ post[e] = "bar" /\ lead[e] # "out"
  BY DEF ThreadStep, FirstBarrier
<1>2. /\ slice' = slice /\ cache' = cache /\ filled' = filled /\ error' = error
      /\ lead'[e] = "copy" /\ post'[e] = "main"
  BY DEF FirstBarrier, StateTypes, ThreadTypes
<1>3. PostSlice(e)' = PostSlice(e) /\ Posted(e)' = Posted(e)
  BY <1>1, <1>2 DEF PostSlice, Posted
<1>4. /\ ToCopy(e)' = ToCopy(e) /\ ToCopy(e) \in Nat
      /\ ToPost(e)' = ToPost(e) /\ Credited(e)' = Credited(e)
  BY <1>1, <1>2, <1>3, Acting
<1>5. Known(e)' = Known(e)
  BY <1>1, <1>2, ThreadFrame, KnownNext DEF LaunchInv
<1>6. EndInv(e)'
  BY <1>1, <1>2, <1>3, <1>4, <1>5, ActingKeeps DEF EndInv, EndShape, EndPost, EndCopy
<1>7. QED
  BY <1>1, <1>2, <1>4, <1>6 DEF Steady, Loads

LEMMA CopySteps ==
  ASSUME LaunchInv, StepsInOrder, StateTypes, NEW e \in Links, EndInv(e), CopyOut(e) \/ CopyIn(e)
  PROVE  /\ EndInv(e)' /\ Serving(e) /\ host[e[1]] = "kernel"
         /\ ToCopy(e)' = ToCopy(e) + 1 /\ ToPost(e)' = ToPost(e) /\ Credited(e)' = Credited(e)
         /\ ToCopy(e) = StepsBefore(e, At(e)) + slice[e]
         /\ lead[e] = "copy" /\ lead'[e] = "main" /\ cache' = cache /\ error' = error
<1>1. /\ ThreadStep(e) /\ lead[e] = "copy" /\ lead[e] # "out"
  BY DEF ThreadStep, CopyOut, CopyIn
<1>2. /\ slice' = slice /\ cache' = cache /\ filled' = filled /\ error' = error /\ post' = post
      /\ lead'[e] = "main"
  BY DEF CopyOut, CopyIn, StateTypes, ThreadTypes
<1>3. PostSlice(e)' = PostSlice(e) /\ Posted(e)' = Posted(e)
  BY <1>1, <1>2 DEF PostSlice, Posted
<1>4. /\ ToCopy(e)' = ToCopy(e) + 1 /\ ToCopy(e) = StepsBefore(e, At(e)) + slice[e]
      /\ ToPost(e)' = ToPost(e) /\ Credited(e)' = Credited(e)
      /\ Serving(e) /\ host[e[1]] = "kernel"
  <2>1. /\ ToCopy(e) = StepsBefore(e, At(e)) + slice[e]
        /\ ToCopy(e)' = StepsBefore(e, At(e)) + slice[e] + 1
        /\ StepsBefore(e, At(e)) + slice[e] \in Int
        /\ ToPost(e)' = ToPost(e) /\ Credited(e)' = Credited(e)
        /\ Serving(e) /\ host[e[1]] = "kernel"
    BY <1>1, <1>2, <1>3, Acting
  <2>2. QED
    BY <2>1
<1>5. EndInv(e)'
  BY <1>1, <1>2, <1>3, ActingKeeps DEF EndInv, EndShape, EndPost
<1>6. QED
  BY <1>1, <1>2, <1>4, <1>5

LEMMA MainBarrierSteady ==
  ASSUME LaunchInv, StepsInOrder, StateTypes, NEW e \in Links, EndInv(e), MainBarrier(e)
  PROVE  Steady(e) /\ Loads(e)
<1>1. /\ ThreadStep(e) /\ lead[e] # "out"
      /\ slice' = slice /\ cache' = cache /\ filled' = filled /\ error' = error
  BY DEF ThreadStep, MainBarrier
<1>2. CASE lead[e] = "main" /\ post[e] = "main"
  <2>1. lead'[e] = "check" /\ post'[e] = "post"
    BY <1>2 DEF MainBarrier, StateTypes, ThreadTypes
  <2>2. /\ PostSlice(e) = slice[e] - 1 /\ PostSlice(e)' = slice[e]
        /\ Posted(e)' = Posted(e)
    BY <1>1, <1>2, <2>1 DEF PostSlice, Posted
  <2>3. slice[e] \in Nat \ {0}
    BY DEF StateTypes, ThreadTypes
  <2>4. /\ ToCopy(e)' = ToCopy(e) /\ ToCopy(e) \in Nat
        /\ ToPost(e)' = ToPost(e) /\ Credited(e)' = Credited(e)
    BY <1>1, <1>2, <2>1, <2>2, Acting
  <2>5. EndInv(e)'
    BY <1>1, <1>2, <2>1, <2>2, <2>3, ActingKeeps DEF EndInv, EndShape, EndPost
  <2>6. QED
    BY <1>1, <2>4, <2>5 DEF Steady, Loads
<1>3. CASE lead[e] = "drained" /\ post[e] = "drained"
  <2>1. lead'[e] = "out" /\ post'[e] = "out"
    BY <1>3 DEF MainBarrier, StateTypes, ThreadTypes
  <2> DEFINE p == StepsBefore(e, At(e))
             n == Steps(e)
             c == plan[e[1]].credit
  <2>2. slice[e] \in Nat /\ slice[e] = n + 1 /\ p \in Nat /\ n \in Nat
    BY <1>1, <1>3, Acting DEF EndInv, EndShape
  <2>3. /\ ToCopy(e) = p + slice[e] /\ ToCopy(e)' = p + n + 1
        /\ ToPost(e) = p + Posted(e) + 1 /\ ToPost(e)' = p + n + 1
        /\ Credited(e) = p + Whole(c, Posted(e), n) /\ Credited(e)' = p + n
    BY <1>1, <1>3, <2>1, Acting
  <2>4. Posted(e) = n /\ Whole(c, n, n) = n
    BY <1>3, <2>2 DEF PostSlice, Posted, Whole
  <2> HIDE DEF p, n, c
  <2>5. /\ ToCopy(e)' = ToCopy(e) /\ ToCopy(e) \in Nat
        /\ ToPost(e)' = ToPost(e) /\ Credited(e)' = Credited(e)
    BY <2>2, <2>3, <2>4
  <2>6. Known(e)' = Known(e)
    BY <1>1, ThreadFrame, KnownNext DEF LaunchInv
  <2>7. host[e[1]] = "kernel"
    BY <1>1, Acting
  <2>8. EndInv(e)'
    BY <1>1, <1>3, <2>1, <2>5, <2>6, <2>7, ActingKeeps DEF EndInv, EndShape, EndDone
  <2>9. QED
    BY <1>1, <2>5, <2>8 DEF Steady, Loads
<1>4. QED
  BY <1>2, <1>3 DEF MainBarrier

\* The first thread ends a slice.
LEMMA LeadCheckSteady ==
  ASSUME LaunchInv, StepsInOrder, StateTypes, NEW e \in Links, EndInv(e), LeadCheck(e)
  PROVE  Steady(e) /\ Loads(e)
<1> DEFINE p == StepsBefore(e, At(e))
           n == Steps(e)
           next == IF error[e[1]] THEN "out" ELSE AfterSlice(e, slice[e], "wait")
<1>1. /\ ThreadStep(e) /\ lead[e] = "check" /\ lead[e] # "out"
      /\ post' = post /\ cache' = cache /\ filled' = filled /\ error' = error
      /\ lead'[e] = next
      /\ slice'[e] = IF next \in {"wait", "drain"} THEN slice[e] + 1 ELSE slice[e]
  BY DEF ThreadStep, LeadCheck, StateTypes, ThreadTypes
<1>2. /\ p \in Nat /\ n \in Nat \ {0} /\ slice[e] \in Nat \ {0} /\ slice[e] <= n
      /\ LastStep(e) \in Nat
      /\ Sends(e[1]) /\ ~Drains(e) => p + n # LastStep(e)
      /\ ToCopy(e) = p + slice[e] + 1
  BY <1>1, Acting DEF EndInv, EndShape
<1>3. PostSlice(e) = slice[e]
  BY <1>1 DEF PostSlice
<1>4. CASE error[e[1]]
  <2>1. lead'[e] = "out" /\ slice'[e] = slice[e]
    BY <1>1, <1>4
  <2>2. ToCopy(e)' = p + n + 1
    BY <1>1, <2>1, Acting
  <2>3. EndInv(e)'
    <3>1. error'[e[1]] /\ (filled'[e] \/ error'[e[1]])
      BY <1>1, <1>4
    <3>2. QED
      BY <1>1, <2>1, <3>1, ActingKeeps
  <2> HIDE DEF p, n, next
  <2>4. QED
    BY <1>1, <1>2, <1>4, <2>2, <2>3 DEF Steady, Loads
<1>5. ASSUME ~error[e[1]], PostSlice(e)' = PostSlice(e), ToCopy(e)' = ToCopy(e), EndInv(e)'
      PROVE  Steady(e) /\ Loads(e)
  <2>1. Posted(e)' = Posted(e)
    BY <1>1, <1>5 DEF Posted
  <2>2. ToPost(e)' = ToPost(e) /\ Credited(e)' = Credited(e)
    BY <1>1, <2>1, Acting
  <2>3. ToCopy(e) <= ToCopy(e)'
    BY <1>2, <1>5
  <2>4. QED
    BY <1>1, <1>5, <2>2, <2>3 DEF Steady, Loads
<1>6. CASE ~error[e[1]] /\ slice[e] < n
  <2>1. lead'[e] = "wait" /\ slice'[e] = slice[e] + 1
    BY <1>1, <1>6 DEF AfterSlice, Steps
  <2>2. PostSlice(e)' = PostSlice(e)
    BY <1>2, <1>3, <2>1 DEF PostSlice
  <2>3. ToCopy(e)' = ToCopy(e)
    <3>1. ToCopy(e)' = p + slice'[e]
      BY <1>1, <2>1, Acting
    <3> HIDE DEF p, n, next
    <3>2. QED
      BY <1>2, <2>1, <3>1
  <2>4. EndInv(e)'
    <3>1. slice'[e] <= n
      BY <1>2, <1>6, <2>1
    <3>2. post[e] # "out"
      BY <1>1, <1>2, <1>6 DEF EndInv, EndPost
    <3>3. QED
      BY <1>1, <1>6, <2>1, <2>2, <3>1, <3>2, ActingKeeps DEF EndInv, EndShape, EndPost
  <2>5. QED
    BY <1>5, <1>6, <2>2, <2>3, <2>4
<1>7. CASE ~error[e[1]] /\ slice[e] = n /\ Drains(e)
  <2>1. lead'[e] = "drain" /\ slice'[e] = slice[e] + 1
    BY <1>1, <1>2, <1>7 DEF AfterSlice, Steps, Drains
  <2>2. PostSlice(e)' = PostSlice(e)
    BY <1>2, <1>3, <2>1 DEF PostSlice
  <2>3. ToCopy(e)' = ToCopy(e)
    <3>1. ToCopy(e)' = p + slice'[e]
      BY <1>1, <2>1, Acting
    <3> HIDE DEF p, n, next
    <3>2. QED
      BY <1>2, <2>1, <3>1
  <2>4. EndInv(e)'
    <3>1. post[e] # "out"
      BY <1>1, <1>7 DEF EndInv, EndPost
    <3>2. QED
      BY <1>1, <1>7, <2>1, <2>2, <3>1, ActingKeeps DEF EndInv, EndShape, EndPost
  <2>5. QED
    BY <1>5, <1>7, <2>2, <2>3, <2>4
<1>8. CASE ~error[e[1]] /\ slice[e] = n /\ ~Drains(e)
  <2>1. lead'[e] = "out" /\ slice'[e] = slice[e]
    BY <1>1, <1>2, <1>8 DEF AfterSlice, Steps, Drains
  <2>2. PostSlice(e)' = PostSlice(e)
    BY <1>2, <1>3, <2>1 DEF PostSlice
  <2>3. ToCopy(e)' = p + n + 1 /\ ToCopy(e)' = ToCopy(e)
    <3>1. ToCopy(e)' = p + n + 1
      BY <1>1, <2>1, Acting
    <3> HIDE DEF p, n, next
    <3>2. QED
      BY <1>2, <1>8, <3>1
  <2>4. EndInv(e)'
    <3>1. Sends(e[1]) => ToCopy(e)' # LastStep(e) + 1
      <4> HIDE DEF p, n, next
      <4>1. QED
        BY <1>2, <1>8, <2>3
    <3>2. QED
      BY <1>1, <1>8, <2>1, <2>2, <3>1, ActingKeeps DEF EndInv, EndShape, EndPost
  <2>5. QED
    BY <1>5, <1>8, <2>2, <2>3, <2>4
<1>9. QED
  BY <1>2, <1>4, <1>6, <1>7, <1>8

\* The last thread ends a slice.
LEMMA PostCheckSteady ==
  ASSUME LaunchInv, StepsInOrder, StateTypes, NEW e \in Links, EndInv(e), PostCheck(e)
  PROVE  Steady(e) /\ Loads(e)
<1> DEFINE p == StepsBefore(e, At(e))
           n == Steps(e)
           k == PostSlice(e)
           c == plan[e[1]].credit
           next == IF error[e[1]] THEN "out"
                   ELSE AfterSlice(e, PostSlice(e), IF Sends(e[1]) THEN "main" ELSE "bar")
<1>1. /\ ThreadStep(e) /\ post[e] = "check" /\ post[e] # "out"
      /\ lead' = lead /\ slice' = slice /\ cache' = cache /\ filled' = filled /\ error' = error
      /\ post'[e] = next
  BY DEF ThreadStep, PostCheck, StateTypes, ThreadTypes
<1>2. /\ p \in Nat /\ n \in Nat \ {0} /\ slice[e] \in Nat \ {0} /\ k \in Nat
      /\ lead[e] \in LeadPlaces
  BY <1>1, Acting, EndNumbers DEF LaunchInv
<1>3. PostSlice(e)' = k /\ ToCopy(e)' = ToCopy(e) /\ ToCopy(e) \in Nat
  BY <1>1, Acting DEF PostSlice
<1>4. Known(e)' = Known(e) /\ host[e[1]] = "kernel"
  BY <1>1, Acting, ThreadFrame, KnownNext DEF LaunchInv
<1>5. ASSUME ~error'[e[1]] =>
            /\ post'[e] # "out" => PostSlice(e)' <= n
            /\ post'[e] \notin {"post", "check"}
            /\ post'[e] = "drained" => PostSlice(e)' = n
            /\ post'[e] = "out" /\ lead'[e] # "out" =>
                 lead'[e] = "check" /\ slice'[e] = n /\ ~Drains(e)
            /\ lead'[e] = "out" /\ post'[e] # "out" => slice'[e] = n
      PROVE  EndInv(e)'
  BY <1>1, <1>3, <1>4, <1>5, ActingKeeps DEF EndInv, EndShape, EndCopy, EndDone
<1>6. CASE error[e[1]]
  BY <1>1, <1>3, <1>5, <1>6 DEF Steady, Loads
<1>7. ASSUME ~error[e[1]]
      PROVE  k <= n /\ k >= 1 /\ (lead[e] = "out" => slice[e] = n)
  BY <1>1, <1>7 DEF EndInv, EndPost
<1>8. CASE ~error[e[1]] /\ k < n
  <2>1. post'[e] \in {"main", "bar"}
    BY <1>1, <1>8 DEF AfterSlice, Steps
  <2>2. Posted(e)' = Posted(e)
    BY <1>1, <1>3, <2>1 DEF Posted
  <2>3. ToPost(e)' = ToPost(e) /\ Credited(e)' = Credited(e)
    BY <1>1, <2>1, <2>2, Acting
  <2>4. EndInv(e)'
    BY <1>1, <1>3, <1>5, <1>7, <1>8, <2>1
  <2>5. QED
    BY <1>1, <1>3, <2>3, <2>4 DEF Steady, Loads
<1>9. CASE ~error[e[1]] /\ k = n /\ Drains(e)
  <2>1. post'[e] = "drained"
    BY <1>1, <1>2, <1>9 DEF AfterSlice, Steps, Drains
  <2>2. Posted(e)' = Posted(e)
    BY <1>1, <1>3, <2>1 DEF Posted
  <2>3. ToPost(e)' = ToPost(e) /\ Credited(e)' = Credited(e)
    BY <1>1, <2>1, <2>2, Acting
  <2>4. EndInv(e)'
    BY <1>1, <1>3, <1>5, <1>7, <1>9, <2>1
  <2>5. QED
    BY <1>1, <1>3, <2>3, <2>4 DEF Steady, Loads
<1>10. CASE ~error[e[1]] /\ k = n /\ ~Drains(e)
  <2>1. post'[e] = "out"
    BY <1>1, <1>2, <1>10 DEF AfterSlice, Steps, Drains
  <2>2. Posted(e) = n /\ Whole(c, n, n) = n
    BY <1>1, <1>10 DEF Posted, Whole
  <2>3. /\ ToPost(e) = p + Posted(e) + 1 /\ ToPost(e)' = p + n + 1
        /\ Credited(e) = p + Whole(c, Posted(e), n) /\ Credited(e)' = p + n
    BY <1>1, <2>1, Acting
  <2>4. ToPost(e)' = ToPost(e) /\ Credited(e)' = Credited(e)
    BY <2>2, <2>3
  <2>5. lead[e] # "out" => lead[e] = "check" /\ slice[e] = n
    <3>1. /\ lead[e] \in {"wait", "bar", "copy", "main", "check"} => slice[e] <= n
          /\ lead[e] \notin {"drain", "drained"}
      BY <1>10 DEF EndInv, EndShape
    <3>2. k = IF lead[e] \in {"check", "out"} THEN slice[e] ELSE slice[e] - 1
      BY DEF PostSlice
    <3> HIDE DEF k, n, p, next, c
    <3>3. QED
      BY <1>2, <1>10, <3>1, <3>2 DEF LeadPlaces
  <2>6. EndInv(e)'
    BY <1>1, <1>5, <1>10, <2>1, <2>5
  <2>7. QED
    BY <1>1, <1>3, <2>4, <2>6 DEF Steady, Loads
<1>11. QED
  BY <1>2, <1>6, <1>7, <1>8, <1>9, <1>10

\* A remainder is what is left below the divisor.
LEMMA RemainderIs ==
  ASSUME NEW m \in Nat \ {0}, NEW a \in Nat, NEW q \in Int, NEW r \in 0 .. m - 1, a = m * q + r
  PROVE  a % m = r
<1> DEFINE Q == a \div m
           z == a % m
<1>1. Q \in Nat /\ z \in 0 .. m - 1 /\ a = m * Q + z
  BY QuotientAndRest
<1> HIDE DEF Q, z
<1>2. PICK t \in Int : t = Q - q
  BY <1>1
<1>3. Q = q + t /\ m * Q = m * q + m * t /\ m * t \in Int
  BY <1>1, <1>2
<1>4. m * t = r - z
  <2>1. m * q \in Int /\ m * Q \in Int
    BY <1>1
  <2>2. QED
    BY <1>1, <1>3, <2>1
<1>5. t >= 1 => m * t >= m
  BY <1>2
<1>6. t <= -1 => m * t <= -m
  BY <1>2
<1>7. t = 0
  BY <1>1, <1>2, <1>4, <1>5, <1>6
<1>8. z = r
  BY <1>1, <1>4, <1>7
<1>9. QED
  BY <1>8 DEF z

\* What a receiver has credited grows with every slice it publishes.
LEMMA WholeGrows ==
  ASSUME NEW batch \in Nat \ {0}, NEW k \in Nat \ {0}, NEW n \in Nat, k <= n
  PROVE  /\ CreditsReturned(batch, k, k = n) \in Nat
         /\ Whole(batch, k, n) = Whole(batch, k - 1, n) + CreditsReturned(batch, k, k = n)
<1> DEFINE x == k % batch
           q == k \div batch
           y == (k - 1) % batch
<1>1. x \in 0 .. batch - 1 /\ q \in Nat /\ k = batch * q + x
  BY QuotientAndRest
<1>2. y \in 0 .. batch - 1 /\ y = IF x = 0 THEN batch - 1 ELSE x - 1
  <2> HIDE DEF x, q
  <2>1. CASE x # 0
    <3>1. k - 1 \in Nat /\ x - 1 \in 0 .. batch - 1 /\ k - 1 = batch * q + (x - 1)
      <4>1. batch * q \in Int
        BY <1>1
      <4>2. QED
        BY <1>1, <2>1, <4>1
    <3>2. y = x - 1
      BY <1>1, <3>1, RemainderIs
    <3>3. QED
      BY <1>1, <2>1, <3>2
  <2>2. CASE x = 0
    <3>1. k - 1 \in Nat /\ batch - 1 \in 0 .. batch - 1 /\ q - 1 \in Int
          /\ k - 1 = batch * (q - 1) + (batch - 1)
      <4>1. batch * (q - 1) = batch * q - batch /\ batch * q \in Int
        BY <1>1
      <4>2. QED
        BY <1>1, <2>2, <4>1
    <3>2. y = batch - 1
      BY <1>1, <3>1, RemainderIs
    <3>3. QED
      BY <1>1, <2>2, <3>2
  <2>3. QED
    BY <2>1, <2>2
<1>3. /\ Whole(batch, k, n) = IF k = n THEN n ELSE k - x
      /\ Whole(batch, k - 1, n) = IF k - 1 = n THEN n ELSE k - 1 - y
      /\ CreditsReturned(batch, k, k = n) = IF x = 0 THEN batch ELSE IF k = n THEN x ELSE 0
  BY DEF Whole, CreditsReturned
<1> HIDE DEF x, y, q
<1>4. QED
  BY <1>1, <1>2, <1>3

\* The last thread publishes behind what the first one has copied.
LEMMA PostSteps ==
  ASSUME LaunchInv, StepsInOrder, StateTypes, NEW e \in Links, EndInv(e), Post(e)
  PROVE  LET step  == StepsBefore(e, At(e)) + PostSlice(e)
             given == CreditsReturned(plan[e[1]].credit, PostSlice(e), PostSlice(e) = Steps(e))
         IN  /\ EndInv(e)' /\ Serving(e) /\ host[e[1]] = "kernel"
             /\ ToCopy(e)' = ToCopy(e) /\ cache' = cache /\ lead' = lead /\ error' = error
             /\ ~error[e[1]] =>
                  /\ PostSlice(e) >= 1 /\ Publish(e, PostSlice(e))
                  /\ ToPost(e) = step /\ ToPost(e)' = step + 1 /\ step < ToCopy(e)
                  /\ given \in Nat /\ Credited(e)' = Credited(e) + given /\ Credited(e)' <= step
                  /\ Credited(e) \in Nat
             /\ error[e[1]] => UNCHANGED <<fifo, puts, credits>>
<1> DEFINE p == StepsBefore(e, At(e))
           n == Steps(e)
           k == PostSlice(e)
           c == plan[e[1]].credit
           given == CreditsReturned(c, k, k = n)
<1>1. /\ ThreadStep(e) /\ post[e] = "post" /\ post[e] # "out"
      /\ lead' = lead /\ slice' = slice /\ cache' = cache /\ filled' = filled /\ error' = error
      /\ post'[e] = "check"
      /\ error[e[1]] => UNCHANGED <<fifo, puts, credits>>
      /\ ~error[e[1]] => Publish(e, k)
  BY DEF ThreadStep, Post, StateTypes, ThreadTypes
<1>2. /\ p \in Nat /\ n \in Nat \ {0} /\ slice[e] \in Nat \ {0} /\ k \in Nat
      /\ lead[e] \in LeadPlaces /\ c \in Nat \ {0}
      /\ Serving(e) /\ host[e[1]] = "kernel"
  BY <1>1, Acting, EndNumbers DEF LaunchInv
<1>3. PostSlice(e)' = k /\ ToCopy(e)' = ToCopy(e)
  BY <1>1, Acting DEF PostSlice
<1>4. Known(e)' = Known(e)
  BY <1>1, ThreadFrame, KnownNext DEF LaunchInv
<1>5. EndInv(e)'
  BY <1>1, <1>2, <1>3, <1>4, ActingKeeps DEF EndInv, EndShape, EndPost, EndCopy, EndDone
<1>6. ASSUME ~error[e[1]]
      PROVE  /\ k >= 1 /\ ToPost(e) = p + k /\ ToPost(e)' = p + k + 1 /\ p + k < ToCopy(e)
             /\ given \in Nat /\ Credited(e)' = Credited(e) + given /\ Credited(e)' <= p + k
             /\ Credited(e) \in Nat
  <2>1. k >= 1 /\ k <= n /\ (lead[e] = "out" => slice[e] = n)
    BY <1>1, <1>6 DEF EndInv, EndPost
  <2>2. Posted(e) = k - 1 /\ Posted(e)' = k
    BY <1>1, <1>3 DEF Posted
  <2>3. /\ ToPost(e) = p + (k - 1) + 1 /\ ToPost(e)' = p + k + 1
        /\ Credited(e) = p + Whole(c, k - 1, n) /\ Credited(e)' = p + Whole(c, k, n)
        /\ ToCopy(e) = IF lead[e] = "out" THEN p + n + 1
                       ELSE IF lead[e] \in {"main", "check"} THEN p + slice[e] + 1
                       ELSE p + slice[e]
    BY <1>1, <2>2, Acting
  <2>4. k = IF lead[e] \in {"check", "out"} THEN slice[e] ELSE slice[e] - 1
    BY DEF PostSlice
  <2> HIDE DEF p, n, k, c
  <2>5. /\ given \in Nat /\ Whole(c, k, n) = Whole(c, k - 1, n) + given
        /\ Whole(c, k, n) <= k /\ Whole(c, k - 1, n) \in Nat
    <3>1. k - 1 \in Nat /\ k \in Nat \ {0} /\ n \in Nat
      BY <1>2, <2>1
    <3>2. /\ CreditsReturned(c, k, k = n) \in Nat
          /\ Whole(c, k, n) = Whole(c, k - 1, n) + CreditsReturned(c, k, k = n)
      <4>1. c \in Nat \ {0} /\ k \in Nat \ {0} /\ n \in Nat /\ k <= n
        BY <1>2, <2>1, <3>1
      <4>2. QED
        BY ONLY <4>1, WholeGrows
    <3>3. Whole(c, k, n) <= k
      BY <1>2, <3>1, WholeIs
    <3>4. Whole(c, k - 1, n) \in Nat
      BY <1>2, <3>1, WholeIs
    <3>5. QED
      BY <3>2, <3>3, <3>4
  <2>6. p + k < ToCopy(e)
    BY <1>2, <2>1, <2>3, <2>4 DEF LeadPlaces
  <2> HIDE DEF given
  <2>7. QED
    BY <1>2, <2>1, <2>3, <2>5, <2>6
<1>7. QED
  BY <1>1, <1>2, <1>3, <1>5, <1>6

\* An end that a step leaves where it is.
Still(e) ==
  /\ EndInv(e)' /\ cache'[e] = cache[e] /\ lead'[e] = lead[e]
  /\ ToCopy(e)' = ToCopy(e) /\ ToPost(e)' = ToPost(e) /\ Credited(e)' = Credited(e)

\* The steps that publish, copy and deliver nothing.
QuietStep ==
  /\ Kept /\ StateTypes' /\ UNCHANGED <<fifo, gin, unread>>
  /\ \A e \in Links : Steady(e) /\ Loads(e)

LEMMA OtherEnds ==
  ASSUME LaunchInv, StepsInOrder, StateTypes, EndsInv, NEW e \in Links, ThreadStep(e),
         NEW f \in Links, f # e
  PROVE  Still(f)
<1>1. /\ Kept /\ UNCHANGED <<block, readySignal, creditSignal>>
      /\ lead'[f] = lead[f] /\ post'[f] = post[f] /\ slice'[f] = slice[f]
      /\ cache'[f] = cache[f] /\ filled'[f] = filled[f]
  BY ThreadFrame DEF LaunchInv
<1>2. Known(f)' = Known(f) /\ Known(f) \in Nat /\ Room(f) \in Nat
  BY <1>1, KnownNext, EndNumbers DEF LaunchInv
<1>3. EndInv(f) /\ LastStep(f) \in Nat /\ ToCopy(f) \in Nat
  BY EndOrder DEF EndsInv, EndInv
<1>4. block'[BlockOf(f)] = block[BlockOf(f)]
  BY <1>1
<1>5. Known(f)' >= Known(f) /\ Known(f)' \in Nat
  BY <1>2
<1>6. QED
  BY <1>1, <1>2, <1>3, <1>4, <1>5, SameEnd DEF Still

LEMMA StillIsSteady ==
  ASSUME NEW e \in Links, Still(e), ToCopy(e) \in Nat
  PROVE  Steady(e) /\ Loads(e)
BY DEF Still, Steady, Loads

LEMMA ThreadsAreQuiet ==
  ASSUME LaunchInv, StepsInOrder, StateTypes, EndsInv, NEW e \in Links,
         \/ WaitPasses(e) \/ WaitGivesUp(e) \/ FirstBarrier(e) \/ MainBarrier(e)
         \/ LeadCheck(e) \/ PostCheck(e)
  PROVE  QuietStep
<1>1. ThreadStep(e) /\ EndInv(e)
  BY DEF ThreadStep, EndsInv
<1>2. Kept /\ StateTypes'
  BY <1>1, ThreadFrame, ThreadsAreTyped DEF LaunchInv
<1>3. UNCHANGED <<fifo, gin, unread>>
  BY DEF WaitPasses, WaitGivesUp, FirstBarrier, MainBarrier, LeadCheck, PostCheck, memory
<1>4. Steady(e) /\ Loads(e)
  BY <1>1, WaitPassesSteady, WaitGivesUpSteady, FirstBarrierSteady, MainBarrierSteady,
     LeadCheckSteady, PostCheckSteady
<1>5. ASSUME NEW f \in Links, f # e PROVE Steady(f) /\ Loads(f)
  <2>1. ToCopy(f) \in Nat
    BY EndOrder DEF EndsInv, EndInv
  <2>2. QED
    BY <1>1, <1>5, <2>1, OtherEnds, StillIsSteady
<1>6. QED
  BY <1>2, <1>3, <1>4, <1>5 DEF QuietStep

\* A step that changes nothing.
LEMMA NothingIsQuiet ==
  ASSUME LaunchInv, StepsInOrder, StateTypes, EndsInv, UNCHANGED vars
  PROVE  QuietStep
<1>1. /\ UNCHANGED <<d, plan, host, seq, epoch, error, block, lead, post, slice, cache, filled>>
      /\ UNCHANGED <<fifo, gin, unread>>
      /\ UNCHANGED <<readySignal, creditSignal, ready, consumed, puts, credits>>
  BY DEF vars, threads, memory, fifo, gin
<1>2. Kept
  BY <1>1 DEF Kept, LaunchInv, TypeInv
<1>3. StateTypes'
  <2>1. Links' = Links /\ Slots' = Slots
    BY <1>2, PlanIsKept DEF Kept
  <2>2. QED
    BY <1>1, <2>1 DEF StateTypes, PlanTypes, ThreadTypes, ShareTypes
<1>4. ASSUME NEW f \in Links PROVE Steady(f) /\ Loads(f)
  <2>1. Known(f)' = Known(f) /\ Known(f) \in Nat /\ Room(f) \in Nat
    BY <1>1, <1>2, KnownNext, EndNumbers DEF LaunchInv
  <2>2. EndInv(f) /\ LastStep(f) \in Nat /\ ToCopy(f) \in Nat
    BY EndOrder DEF EndsInv, EndInv
  <2>3. block'[BlockOf(f)] = block[BlockOf(f)] /\ Known(f)' >= Known(f) /\ Known(f)' \in Nat
    BY <1>1, <2>1
  <2>4. Still(f)
    BY <1>1, <1>2, <2>1, <2>2, <2>3, SameEnd DEF Still
  <2>5. QED
    BY <2>2, <2>4, StillIsSteady
<1>5. QED
  BY <1>1, <1>2, <1>3, <1>4 DEF QuietStep

-----------------------------------------------------------------------------
(***************************************************************************)
(* What a block's step does to the ends it serves.                         *)
(***************************************************************************)

\* An end none of whose threads is in the running batch: it has copied,
\* published and credited everything up to step x.
Rests(e, x) ==
  /\ lead[e] = "out" /\ post[e] = "out"
  /\ ToCopy(e) = x + 1 /\ ToPost(e) = x + 1 /\ Credited(e) = x

LEMMA RestingEnd ==
  ASSUME LaunchInv, Kept, UNCHANGED gin, NEW e \in Links, EndInv(e), cache'[e] = cache[e],
         filled'[e] = filled[e], host[e[1]] = "kernel",
         Pc(e)' # "off" => Used(e), Pc(e)' = "run" => At(e)' <= Count(e),
         NEW x \in Nat, NEW y \in Nat, x <= y, Rests(e, x), Rests(e, y)',
         ~error'[e[1]] => x = y
  PROVE  Steady(e) /\ Loads(e)
<1>1. /\ (Used(e)' <=> Used(e)) /\ Count(e)' = Count(e) /\ LastStep(e)' = LastStep(e)
      /\ (Sends(e[1])' <=> Sends(e[1]))
  BY PlanIsKept DEF Kept
<1>2. Known(e)' = Known(e)
  BY KnownNext DEF gin
<1>3. host'[e[1]] = "kernel" /\ (error[e[1]] => error'[e[1]])
  BY LinkParts DEF Kept, LaunchInv
<1>4. /\ lead[e] = "out" /\ post[e] = "out" /\ lead'[e] = "out" /\ post'[e] = "out"
      /\ ToCopy(e) = x + 1 /\ ToPost(e) = x + 1 /\ Credited(e) = x
      /\ ToCopy(e)' = y + 1 /\ ToPost(e)' = y + 1 /\ Credited(e)' = y
  BY DEF Rests
<1>5. EndShape(e)'
  BY <1>1, <1>3, <1>4 DEF EndInv, EndShape
<1>6. EndPost(e)' /\ EndCopy(e)'
  BY <1>4 DEF EndPost, EndCopy
<1>7. EndDone(e)'
  BY <1>1, <1>2, <1>3, <1>4 DEF EndInv, EndDone
<1>8. QED
  BY <1>4, <1>5, <1>6, <1>7 DEF Steady, Loads, EndInv

\* The threads of the groups a batch begins with.
LEMMA EnteredThreads ==
  ASSUME TypeInv, StateTypes, NEW b \in DOMAIN block, NEW n \in Nat \ {0}, EnterBatch(b, n),
         NEW f \in Links, BlockOf(f) = b => Used(f) /\ Count(f) \in Nat
  PROVE  /\ BlockOf(f) # b \/ n > Len(Works(b)) \/ WorksIn(f, n) = {} =>
              /\ lead'[f] = lead[f] /\ post'[f] = post[f] /\ slice'[f] = slice[f]
              /\ cache'[f] = cache[f] /\ filled'[f] = filled[f]
         /\ BlockOf(f) = b /\ ~(n > Len(Works(b))) /\ WorksIn(f, n) # {} =>
              /\ lead'[f] = "wait" /\ post'[f] = (IF Sends(f[1]) THEN "main" ELSE "bar")
              /\ slice'[f] = 1 /\ cache'[f] = 0 /\ filled'[f] = TRUE
<1>1. /\ lead \in [Links -> LeadPlaces] /\ post \in [Links -> PostPlaces]
      /\ slice \in [Links -> Nat \ {0}] /\ cache \in [Links -> Nat] /\ filled \in [Links -> BOOLEAN]
  BY DEF StateTypes, ThreadTypes
<1>2. CASE n > Len(Works(b))
  BY <1>2 DEF EnterBatch, threads
<1>3. CASE ~(n > Len(Works(b)))
  <2> DEFINE mine == {<<b[1], w.peer, b[2]>> : w \in ToSet(Works(b)[n])}
  <2>1. /\ lead' = [e \in DOMAIN lead |-> IF e \in mine THEN "wait" ELSE lead[e]]
        /\ post' = [e \in DOMAIN post |->
                      IF e \in mine THEN (IF Sends(b[1]) THEN "main" ELSE "bar") ELSE post[e]]
        /\ slice' = [e \in DOMAIN slice |-> IF e \in mine THEN 1 ELSE slice[e]]
        /\ cache' = [e \in DOMAIN cache |-> IF e \in mine THEN 0 ELSE cache[e]]
        /\ filled' = [e \in DOMAIN filled |-> IF e \in mine THEN TRUE ELSE filled[e]]
    BY <1>3 DEF EnterBatch
  <2>2. f \in mine <=> BlockOf(f) = b /\ WorksIn(f, n) # {}
    <3>1. f = <<f[1], f[2], f[3]>> /\ BlockOf(f) = <<f[1], f[3]>>
      BY LinkParts DEF BlockOf
    <3>2. b \in Ranks(d) \X (0 .. d.channels - 1)
      BY DEF TypeInv
    <3>3. b = <<b[1], b[2]>>
      BY <3>2
    <3>4. CASE BlockOf(f) # b
      <4>1. f \notin mine
        BY <3>1, <3>3, <3>4
      <4>2. QED
        BY <3>4, <4>1
    <3>5. CASE BlockOf(f) = b
      <4>1. b[1] = f[1] /\ b[2] = f[3]
        BY <3>1, <3>5
      <4>2. WorksIn(f, n) = {w \in ToSet(Works(b)[n]) : w.peer = f[2]}
        <5>1. n \in 1 .. Len(Works(b)) /\ f[3] \in DOMAIN plan[f[1]].schedule
          BY <1>3, <3>5 DEF Used, Count
        <5>2. QED
          BY <3>5, <5>1 DEF WorksIn
      <4>3. f \in mine <=> \E w \in ToSet(Works(b)[n]) : w.peer = f[2]
        BY <3>1, <4>1
      <4>4. QED
        BY <3>5, <4>2, <4>3
    <3>6. QED
      BY <3>4, <3>5
  <2>3. BlockOf(f) = b => f[1] = b[1]
    BY LinkParts
  <2> HIDE DEF mine
  <2>4. CASE f \in mine
    <3>1. BlockOf(f) = b /\ WorksIn(f, n) # {} /\ f[1] = b[1]
      BY <2>2, <2>3, <2>4
    <3>2. /\ lead'[f] = "wait" /\ post'[f] = (IF Sends(b[1]) THEN "main" ELSE "bar")
          /\ slice'[f] = 1 /\ cache'[f] = 0 /\ filled'[f] = TRUE
      BY <1>1, <2>1, <2>4
    <3>3. QED
      BY <1>3, <3>1, <3>2
  <2>5. CASE f \notin mine
    <3>1. /\ lead'[f] = lead[f] /\ post'[f] = post[f] /\ slice'[f] = slice[f]
          /\ cache'[f] = cache[f] /\ filled'[f] = filled[f]
      BY <1>1, <2>1, <2>5
    <3>2. QED
      BY <2>2, <2>5, <3>1
  <2>6. QED
    BY <2>4, <2>5
<1>4. QED
  BY <1>2, <1>3

LEMMA EnteredTypes ==
  ASSUME TypeInv, ThreadTypes, NEW b, NEW n, EnterBatch(b, n), Links' = Links
  PROVE  ThreadTypes'
<1>1. CASE n > Len(Works(b))
  BY <1>1 DEF EnterBatch, threads, ThreadTypes
<1>2. CASE ~(n > Len(Works(b)))
  <2> DEFINE mine == {<<b[1], w.peer, b[2]>> : w \in ToSet(Works(b)[n])}
  <2>1. /\ lead' = [e \in DOMAIN lead |-> IF e \in mine THEN "wait" ELSE lead[e]]
        /\ post' = [e \in DOMAIN post |->
                      IF e \in mine THEN (IF Sends(b[1]) THEN "main" ELSE "bar") ELSE post[e]]
        /\ slice' = [e \in DOMAIN slice |-> IF e \in mine THEN 1 ELSE slice[e]]
        /\ cache' = [e \in DOMAIN cache |-> IF e \in mine THEN 0 ELSE cache[e]]
        /\ filled' = [e \in DOMAIN filled |-> IF e \in mine THEN TRUE ELSE filled[e]]
    BY <1>2 DEF EnterBatch
  <2> HIDE DEF mine
  <2>2. /\ lead \in [Links -> LeadPlaces] /\ post \in [Links -> PostPlaces]
        /\ slice \in [Links -> Nat \ {0}] /\ cache \in [Links -> Nat] /\ filled \in [Links -> BOOLEAN]
    BY DEF ThreadTypes
  <2>3. lead' \in [Links -> LeadPlaces]
    BY <2>1, <2>2 DEF LeadPlaces
  <2>4. post' \in [Links -> PostPlaces]
    BY <2>1, <2>2 DEF PostPlaces
  <2>5. slice' \in [Links -> Nat \ {0}] /\ cache' \in [Links -> Nat]
    BY <2>1, <2>2
  <2>6. filled' \in [Links -> BOOLEAN]
    BY <2>1, <2>2
  <2>7. QED
    BY <2>3, <2>4, <2>5, <2>6 DEF ThreadTypes
<1>3. QED
  BY <1>1, <1>2

\* What a block's step leaves alone.
LEMMA BlockFrame ==
  ASSUME LaunchInv, StateTypes, NEW b \in DOMAIN block, BlockStep(b)
  PROVE  /\ Kept /\ UNCHANGED <<fifo, gin, unread>> /\ StateTypes'
         /\ \A x \in DOMAIN block \ {b} : block'[x] = block[x]
         /\ host[b[1]] = "kernel"
<1>1. UNCHANGED <<d, plan, host, seq, fifo, gin, unread>>
  BY DEF BlockStep, PublishEpoch, Gate, NextBatch, EndBlock, memory
<1>2. Kept
  BY <1>1, BlockTypes DEF LaunchInv, TypeInv, Kept
<1>3. Links' = Links /\ Slots' = Slots
  BY <1>2, PlanIsKept DEF Kept
<1>4. block[b].pc # "off"
  BY DEF BlockStep, PublishEpoch, Gate, NextBatch, EndBlock
<1>5. \A x \in DOMAIN block \ {b} : block'[x] = block[x]
  <2>1. block \in [Ranks(d) \X (0 .. d.channels - 1) -> [pc : BlockPlaces, at : Nat \ {0}]]
    BY DEF LaunchInv, TypeInv
  <2>2. QED
    BY <2>1 DEF BlockStep, PublishEpoch, Gate, NextBatch, EndBlock, EnterBatch
<1>6. ThreadTypes'
  <2>1. UNCHANGED threads \/ (\E n : EnterBatch(b, n))
    BY DEF BlockStep, PublishEpoch, Gate, NextBatch, EndBlock
  <2>2. CASE UNCHANGED threads
    BY <1>3, <2>2 DEF threads, StateTypes, ThreadTypes
  <2>3. CASE \E n : EnterBatch(b, n)
    BY <1>3, <2>3, EnteredTypes DEF StateTypes, LaunchInv
  <2>4. QED
    BY <2>1, <2>2, <2>3
<1>7. PlanTypes' /\ ShareTypes'
  BY <1>1, <1>3, PlanTypesKept DEF StateTypes, ShareTypes, fifo, gin
<1>8. host[b[1]] = "kernel"
  BY <1>4 DEF LaunchInv, GateInv
<1>9. QED
  BY <1>1, <1>2, <1>5, <1>6, <1>7, <1>8 DEF StateTypes

\* The threads of the groups the batch leaves alone.
LEMMA EnteredOthers ==
  ASSUME TypeInv, StateTypes, NEW b \in DOMAIN block, NEW n \in Nat \ {0}, EnterBatch(b, n),
         NEW f \in Links, BlockOf(f) = b => Used(f) /\ Count(f) \in Nat,
         BlockOf(f) # b \/ n > Len(Works(b)) \/ WorksIn(f, n) = {}
  PROVE  /\ lead'[f] = lead[f] /\ post'[f] = post[f] /\ slice'[f] = slice[f]
         /\ cache'[f] = cache[f] /\ filled'[f] = filled[f]
BY ONLY TypeInv, StateTypes, EnterBatch(b, n), BlockOf(f) = b => Used(f) /\ Count(f) \in Nat,
   BlockOf(f) # b \/ n > Len(Works(b)) \/ WorksIn(f, n) = {}, EnteredThreads

\* Where an end rests.
LEMMA RestsAt ==
  ASSUME NEW e
  PROVE  /\ lead[e] = "out" /\ post[e] = "out" /\ host[e[1]] = "kernel" =>
              /\ Pc(e) \in {"epoch", "gate"} => Rests(e, 0)
              /\ Pc(e) \in {"off", "flush"} => Rests(e, LastStep(e))
              /\ Pc(e) = "run" => Rests(e, StepsBefore(e, At(e) + 1))
         /\ lead'[e] = "out" /\ post'[e] = "out" /\ host'[e[1]] = "kernel" =>
              /\ Pc(e)' \in {"epoch", "gate"} => Rests(e, 0)'
              /\ Pc(e)' \in {"off", "flush"} => Rests(e, LastStep(e))'
              /\ Pc(e)' = "run" => Rests(e, StepsBefore(e, At(e) + 1))'
BY DEF Rests, ToCopy, ToPost, Credited

\* A batch begins.
LEMMA EnteredEnd ==
  ASSUME LaunchInv, StepsInOrder, StateTypes, EndsInv, NEW b \in DOMAIN block, BlockStep(b),
         NEW n \in Nat \ {0}, EnterBatch(b, n), error' = error,
         NEW f \in Links, BlockOf(f) = b, Used(f), n <= Count(f) + 1,
         Rests(f, StepsBefore(f, n))
  PROVE  Steady(f) /\ Loads(f)
<1>1. /\ Kept /\ UNCHANGED <<fifo, gin, unread>> /\ StateTypes'
      /\ host[f[1]] = "kernel" /\ f[1] = b[1] /\ EndInv(f) /\ Works(b) = Works(BlockOf(f))
  <2>1. f[1] = b[1]
    BY LinkParts DEF LaunchInv
  <2>2. QED
    BY <2>1, BlockFrame DEF EndsInv
<1>2. /\ Count(f) \in Nat /\ n \in 1 .. Count(f) + 1
      /\ StepsBefore(f, n) \in Nat /\ LastStep(f) = StepsBefore(f, Count(f) + 1)
  <2>1. Count(f) \in Nat
    BY StepsAre
  <2>2. n \in 1 .. Count(f) + 1
    BY <2>1
  <2>3. QED
    BY <2>1, <2>2, StepsAre DEF LastStep
<1>3. /\ \A m : WorksIn(f, m)' = WorksIn(f, m) /\ StepsBefore(f, m)' = StepsBefore(f, m)
      /\ (Used(f)' <=> Used(f)) /\ Count(f)' = Count(f) /\ LastStep(f)' = LastStep(f)
      /\ (Sends(f[1])' <=> Sends(f[1])) /\ Links' = Links /\ Depth(f)' = Depth(f)
      /\ host'[f[1]] = "kernel"
  BY <1>1, PlanIsKept DEF Kept
<1>4. lead[f] = "out" /\ post[f] = "out"
  BY DEF Rests
<1>5. block \in [Ranks(d) \X (0 .. d.channels - 1) -> [pc : BlockPlaces, at : Nat \ {0}]]
  BY DEF LaunchInv, TypeInv
<1>6. /\ n > Count(f) => Pc(f)' = "flush"
      /\ ~(n > Count(f)) => Pc(f)' = "run" /\ At(f)' = n
  <2>1. n > Count(f) => block' = [block EXCEPT ![b] = [pc |-> "flush", at |-> 1]]
    BY <1>1 DEF EnterBatch, Count
  <2>2. ~(n > Count(f)) => block' = [block EXCEPT ![b] = [pc |-> "run", at |-> n]]
    BY <1>1 DEF EnterBatch, Count
  <2>3. /\ n > Count(f) => block'[BlockOf(f)].pc = "flush"
        /\ ~(n > Count(f)) => block'[BlockOf(f)].pc = "run" /\ block'[BlockOf(f)].at = n
    BY <1>5, <2>1, <2>2
  <2>4. BlockOf(f)' = BlockOf(f)
    BY DEF BlockOf
  <2>5. QED
    BY <2>3, <2>4 DEF Pc, At
<1>7. ASSUME n > Count(f) \/ WorksIn(f, n) = {}
      PROVE  Steady(f) /\ Loads(f)
  <2>1. /\ lead'[f] = "out" /\ post'[f] = "out"
        /\ cache'[f] = cache[f] /\ filled'[f] = filled[f]
    <3>1. Len(Works(b)) = Count(f) /\ TypeInv
      BY <1>1 DEF Count, LaunchInv
    <3>2. n > Len(Works(b)) \/ WorksIn(f, n) = {}
      BY <1>7, <3>1
    <3>3. /\ lead'[f] = lead[f] /\ post'[f] = post[f]
          /\ cache'[f] = cache[f] /\ filled'[f] = filled[f]
      BY <1>2, <3>1, <3>2, EnteredOthers
    <3>4. QED
      BY <1>4, <3>3
  <2>2. PICK y : y = StepsBefore(f, n)
    OBVIOUS
  <2>3. Rests(f, y)' /\ y \in Nat /\ Rests(f, y)
    <3>1. CASE n > Count(f)
      <4>1. Rests(f, LastStep(f))' /\ n = Count(f) + 1
        BY <1>2, <1>3, <1>6, <2>1, <3>1, RestsAt
      <4>2. LastStep(f)' = y
        BY <1>2, <1>3, <2>2, <4>1
      <4>3. QED
        BY <1>2, <2>2, <4>1, <4>2
    <3>2. CASE ~(n > Count(f))
      <4>1. Rests(f, StepsBefore(f, At(f) + 1))'
        BY <1>3, <1>6, <2>1, <3>2, RestsAt
      <4>2. PICK m : m = n + 1
        OBVIOUS
      <4>3. StepsBefore(f, At(f) + 1)' = StepsBefore(f, m)
        <5>1. StepsBefore(f, At(f) + 1)' = StepsBefore(f, m)'
          BY <1>6, <3>2, <4>2
        <5>2. QED
          BY <1>3, <5>1
      <4>4. StepsBefore(f, m) = y
        <5>1. n \in 1 .. Count(f) /\ WorksIn(f, n) = {}
          BY <1>2, <1>7, <3>2
        <5>2. QED
          BY <2>2, <4>2, <5>1, StepsAre
      <4>5. QED
        BY <1>2, <2>2, <4>1, <4>3, <4>4
    <3>3. QED
      BY <3>1, <3>2
  <2>4. Pc(f)' = "run" => At(f)' <= Count(f)
    BY <1>2, <1>6
  <2>5. QED
    BY <1>1, <2>1, <2>3, <2>4, RestingEnd
<1>8. ASSUME ~(n > Count(f)), WorksIn(f, n) # {}
      PROVE  Steady(f) /\ Loads(f)
  <2>1. /\ lead'[f] = "wait" /\ post'[f] = (IF Sends(f[1]) THEN "main" ELSE "bar")
        /\ slice'[f] = 1 /\ cache'[f] = 0 /\ filled'[f] = TRUE
    BY <1>1, <1>2, <1>8, EnteredThreads DEF LaunchInv, Count
  <2>2. PICK w \in WorksIn(f, n) : TRUE
    BY <1>8
  <2>3. /\ n \in 1 .. Count(f) /\ WorksIn(f, n) = {w}
        /\ WorkSteps(w) \in Nat \ {0} /\ w.first = StepsBefore(f, n) + 1
    <3>1. n \in 1 .. Count(f)
      BY <1>2, <1>8
    <3>2. QED
      BY <2>2, <3>1 DEF StepsInOrder, Used, Count
  <2>4. WorkOf(f)' = w
    <3>1. WorksIn(f, n) = {x \in ToSet(Works(BlockOf(f))[n]) : x.peer = f[2]}
      BY <2>3 DEF WorksIn, Used, Count
    <3>2. WorkOf(f)' = CHOOSE x \in ToSet(Works(BlockOf(f))[n]) : x.peer = f[2]
      <4>1. Works(BlockOf(f))' = Works(BlockOf(f)) /\ block'[BlockOf(f)].at = n
        BY <1>1, <1>6, <1>8 DEF Kept, Works, BlockOf, At
      <4>2. QED
        BY <4>1 DEF WorkOf
    <3>3. QED
      BY <2>3, <3>1, <3>2
  <2> DEFINE p == StepsBefore(f, n)
  <2>5. /\ Steps(f)' = WorkSteps(w) /\ WorkOf(f)'.first = p + 1
        /\ Serving(f)' /\ StepsBefore(f, At(f))' = p
    <3>1. WorksIn(f, At(f))' # {} /\ StepsBefore(f, At(f))' = p
      <4>1. PICK m : m = n
        OBVIOUS
      <4>2. At(f)' = m
        BY <1>6, <1>8, <4>1
      <4>3. WorksIn(f, At(f))' = WorksIn(f, m)' /\ StepsBefore(f, At(f))' = StepsBefore(f, m)'
        BY <4>2
      <4>4. QED
        BY <1>3, <1>8, <4>1, <4>3
    <3>2. QED
      BY <1>6, <1>8, <2>3, <2>4, <3>1 DEF Steps, Serving
  <2>6. PostSlice(f)' = 0 /\ Posted(f)' = 0
    BY <2>1 DEF PostSlice, Posted
  <2>7. ToCopy(f)' = p + 1 /\ ToPost(f)' = p + 1 /\ Credited(f)' = p
    <3>1. p \in Nat
      BY <1>2
    <3>2. Whole(plan'[f[1]].credit, 0, WorkSteps(w)) = 0
      <4>1. plan'[f[1]].credit \in Nat \ {0}
        BY <1>1, LinkParts DEF LaunchInv, Kept, StateTypes, PlanTypes
      <4>2. 0 % plan'[f[1]].credit = 0
        BY <4>1
      <4>3. QED
        BY <2>3, <4>2 DEF Whole
    <3>3. /\ ToCopy(f)' = WorkOf(f)'.first + slice'[f] - 1
          /\ ToPost(f)' = WorkOf(f)'.first + Posted(f)'
          /\ Credited(f)' = StepsBefore(f, At(f))' + Whole(plan'[f[1]].credit, Posted(f)', Steps(f)')
      BY <1>3, <1>6, <1>8, <2>1 DEF ToCopy, ToPost, Credited
    <3> HIDE DEF p
    <3>4. ToCopy(f)' = p + 1 /\ ToPost(f)' = p + 1
      BY <2>1, <2>5, <2>6, <3>1, <3>3
    <3>5. Credited(f)' = p
      BY <2>5, <2>6, <3>1, <3>2, <3>3
    <3>6. QED
      BY <3>4, <3>5
  <2>8. EndInv(f)'
    <3>1. EndShape(f)'
      BY <1>3, <1>6, <1>8, <2>1, <2>3, <2>5 DEF EndShape
    <3>2. EndPost(f)'
      BY <2>1, <2>3, <2>5, <2>6 DEF EndPost
    <3>3. EndCopy(f)' /\ EndDone(f)'
      BY <2>1 DEF EndCopy, EndDone
    <3>4. QED
      BY <3>1, <3>2, <3>3 DEF EndInv
  <2>9. ToCopy(f) = p + 1 /\ ToPost(f) = p + 1 /\ Credited(f) = p /\ p \in Nat
    BY <1>2 DEF Rests
  <2> HIDE DEF p
  <2>10. QED
    BY <2>1, <2>7, <2>8, <2>9 DEF Steady, Loads
<1>9. QED
  BY <1>7, <1>8

LEMMA BlocksAreQuiet ==
  ASSUME LaunchInv, StepsInOrder, StateTypes, EndsInv, NEW b \in DOMAIN block, BlockStep(b)
  PROVE  QuietStep
<1>1. /\ Kept /\ UNCHANGED <<fifo, gin, unread>> /\ StateTypes' /\ host[b[1]] = "kernel"
      /\ \A x \in DOMAIN block \ {b} : block'[x] = block[x]
  BY BlockFrame
<1>2. block \in [Ranks(d) \X (0 .. d.channels - 1) -> [pc : BlockPlaces, at : Nat \ {0}]]
  BY DEF LaunchInv, TypeInv
<1>3. ASSUME NEW f \in Links PROVE Steady(f) /\ Loads(f)
  <2>1. EndInv(f) /\ LastStep(f) \in Nat /\ ToCopy(f) \in Nat /\ BlockOf(f) \in DOMAIN block
    BY EndOrder, LinkParts DEF EndsInv, EndInv, LaunchInv
  <2>2. ASSUME BlockOf(f) # b
        PROVE  Steady(f) /\ Loads(f)
    <3>1. /\ lead'[f] = lead[f] /\ post'[f] = post[f] /\ slice'[f] = slice[f]
          /\ cache'[f] = cache[f] /\ filled'[f] = filled[f]
      <4>1. UNCHANGED threads \/ (\E n \in Nat \ {0} : EnterBatch(b, n))
        <5>1. block[b].at + 1 \in Nat \ {0} /\ 1 \in Nat \ {0}
          BY <1>2
        <5>2. QED
          BY <5>1 DEF BlockStep, PublishEpoch, Gate, NextBatch, EndBlock
      <4>2. QED
        BY <2>2, <4>1, EnteredThreads DEF threads, LaunchInv
    <3>2. block'[BlockOf(f)] = block[BlockOf(f)]
      BY <1>1, <2>1, <2>2
    <3>3. Known(f)' = Known(f) /\ Known(f) \in Nat /\ Room(f) \in Nat
      BY <1>1, <3>1, KnownNext, EndNumbers DEF LaunchInv, gin
    <3>4. Known(f)' >= Known(f) /\ Known(f)' \in Nat
      BY <3>3
    <3>5. Still(f)
      BY <1>1, <2>1, <3>1, <3>2, <3>3, <3>4, SameEnd DEF Still
    <3>6. QED
      BY <2>1, <3>5, StillIsSteady
  <2>3. ASSUME BlockOf(f) = b
        PROVE  Steady(f) /\ Loads(f)
    <3>1. /\ host[f[1]] = "kernel" /\ f[1] = b[1] /\ f[1] \in Ranks(d)
          /\ Pc(f) = block[b].pc /\ At(f) = block[b].at
      BY <1>1, <2>3, LinkParts DEF LaunchInv, Pc, At
    <3>2. Used(f) /\ Count(f) \in Nat /\ (Pc(f) = "run" => At(f) \in 1 .. Count(f))
      <4>1. Used(f)
        BY <2>1, <3>1 DEF EndInv, EndShape, BlockStep, PublishEpoch, Gate, NextBatch, EndBlock
      <4>2. Count(f) \in Nat
        BY <4>1, StepsAre
      <4>3. At(f) \in Nat \ {0} /\ (Pc(f) = "run" => At(f) <= Count(f))
        BY <1>2, <2>1, <3>1 DEF EndInv, EndShape
      <4>4. QED
        BY <4>1, <4>2, <4>3
    <3>3. lead[f] = "out" /\ post[f] = "out"
      <4>1. CASE Pc(f) = "run"
        <5>1. f \in DOMAIN lead
          BY DEF StateTypes, ThreadTypes
        <5>2. NextBatch(b)
          BY <3>1, <4>1 DEF BlockStep, PublishEpoch, Gate, EndBlock
        <5>3. QED
          BY <2>3, <5>1, <5>2 DEF NextBatch
      <4>2. CASE Pc(f) # "run"
        BY <2>1, <4>2 DEF EndInv, EndShape, Serving
      <4>3. QED
        BY <4>1, <4>2
    <3>4. host'[f[1]] = "kernel" /\ LastStep(f)' = LastStep(f)
      BY <1>1, <3>1, PlanIsKept DEF Kept
    <3>5. ASSUME UNCHANGED threads, Pc(f)' # "run",
                 NEW x \in Nat, NEW y \in Nat, x <= y, Rests(f, x), Rests(f, y)', ~error'[f[1]] => x = y
          PROVE  Steady(f) /\ Loads(f)
      <4>1. filled'[f] = filled[f] /\ cache'[f] = cache[f]
        BY <3>5 DEF threads
      <4>2. UNCHANGED gin
        BY <1>1
      <4>3. QED
        BY <1>1, <2>1, <3>1, <3>2, <3>5, <4>1, <4>2, RestingEnd
    <3>6. /\ Pc(f)' = block'[b].pc
          /\ UNCHANGED threads => lead'[f] = "out" /\ post'[f] = "out"
      BY <2>3, <3>3 DEF Pc, threads, BlockOf
    <3>7. CASE PublishEpoch(b)
      <4>1. UNCHANGED threads /\ Pc(f) = "epoch" /\ Pc(f)' = "gate"
        BY <1>2, <3>1, <3>6, <3>7 DEF PublishEpoch
      <4>2. Rests(f, 0) /\ Rests(f, 0)'
        BY <3>1, <3>3, <3>4, <3>6, <4>1, RestsAt
      <4>3. QED
        BY <3>5, <4>1, <4>2
    <3>8. CASE EndBlock(b)
      <4>1. UNCHANGED threads /\ Pc(f) = "flush" /\ Pc(f)' = "off"
        BY <1>2, <3>1, <3>6, <3>8 DEF EndBlock
      <4>2. PICK y : y = LastStep(f)
        OBVIOUS
      <4>3. Rests(f, y)
        BY <3>1, <3>3, <4>1, <4>2, RestsAt
      <4>4. Rests(f, y)'
        <5>1. Rests(f, LastStep(f))'
          BY <3>4, <3>6, <4>1, RestsAt
        <5>2. LastStep(f)' = y
          BY <3>4, <4>2
        <5>3. QED
          BY <5>1, <5>2
      <4>5. y \in Nat
        BY <2>1, <4>2
      <4>6. QED
        BY <3>5, <4>1, <4>3, <4>4, <4>5
    <3>9. CASE Gate(b)
      <4>1. Pc(f) = "gate" /\ Rests(f, 0)
        <5>1. Pc(f) = "gate"
          BY <3>1, <3>9 DEF Gate
        <5>2. QED
          BY <3>1, <3>3, <5>1, RestsAt
      <4>2. CASE EnterBatch(b, 1) /\ UNCHANGED error
        <5>1. StepsBefore(f, 1) = 0 /\ 1 <= Count(f) + 1 /\ 1 \in Nat \ {0}
          BY <3>2, StepsAre
        <5>2. Rests(f, StepsBefore(f, 1))
          BY <4>1, <5>1
        <5>3. QED
          BY <2>3, <3>2, <4>2, <5>1, <5>2, EnteredEnd
      <4>3. CASE UNCHANGED threads /\ block' = [block EXCEPT ![b].at = @ + 1]
        <5>1. Pc(f)' = "gate"
          BY <1>2, <3>1, <3>6, <4>1, <4>3
        <5>2. Rests(f, 0)'
          BY <3>4, <3>6, <4>3, <5>1, RestsAt
        <5>3. QED
          BY <3>5, <4>1, <4>3, <5>1, <5>2
      <4>4. CASE /\ UNCHANGED threads /\ block' = [block EXCEPT ![b] = [pc |-> "off", at |-> 1]]
                 /\ error' = [error EXCEPT ![b[1]] = TRUE]
        <5>1. Pc(f)' = "off"
          BY <1>2, <3>6, <4>4
        <5>2. error'[f[1]]
          BY <3>1, <4>4 DEF LaunchInv, TypeInv
        <5>3. PICK y : y = LastStep(f)
          OBVIOUS
        <5>4. Rests(f, y)'
          <6>1. Rests(f, LastStep(f))'
            BY <3>4, <3>6, <4>4, <5>1, RestsAt
          <6>2. LastStep(f)' = y
            BY <3>4, <5>3
          <6>3. QED
            BY <6>1, <6>2
        <5>5. y \in Nat /\ 0 <= y
          BY <2>1, <5>3
        <5>6. QED
          BY <3>5, <4>1, <4>4, <5>1, <5>2, <5>4, <5>5
      <4>5. QED
        BY <3>9, <4>2, <4>3, <4>4 DEF Gate
    <3>10. CASE NextBatch(b)
      <4>1. Pc(f) = "run" /\ EnterBatch(b, At(f) + 1) /\ UNCHANGED error
        BY <3>1, <3>10 DEF NextBatch
      <4>2. Rests(f, StepsBefore(f, At(f) + 1))
        BY <3>1, <3>3, <4>1, RestsAt
      <4>3. At(f) + 1 \in Nat \ {0} /\ At(f) + 1 <= Count(f) + 1
        BY <3>2, <4>1
      <4>4. QED
        BY <2>3, <3>2, <4>1, <4>2, <4>3, EnteredEnd
    <3>11. QED
      BY <3>7, <3>8, <3>9, <3>10 DEF BlockStep
  <2>4. QED
    BY <2>2, <2>3
<1>4. QED
  BY <1>1, <1>3 DEF QuietStep

-----------------------------------------------------------------------------
(***************************************************************************)
(* What the network and the hosts do to the ends.                          *)
(***************************************************************************)

\* An end whose threads a step does not concern, and that learns no less.
LEMMA StillEnd ==
  ASSUME LaunchInv, StepsInOrder, StateTypes, EndsInv, Kept, UNCHANGED <<block, threads>>,
         NEW e \in Links, Known(e)' \in Nat, Known(e)' >= Known(e)
  PROVE  Still(e)
<1>1. /\ lead'[e] = lead[e] /\ post'[e] = post[e] /\ slice'[e] = slice[e]
      /\ cache'[e] = cache[e] /\ filled'[e] = filled[e]
      /\ block'[BlockOf(e)] = block[BlockOf(e)]
  BY DEF threads
<1>2. Known(e) \in Nat /\ Room(e) \in Nat
  BY EndNumbers DEF LaunchInv
<1>3. EndInv(e) /\ LastStep(e) \in Nat /\ ToCopy(e) \in Nat
  BY EndOrder DEF EndsInv, EndInv
<1>4. QED
  BY <1>1, <1>2, <1>3, SameEnd DEF Still

LEMMA PutsDelivered ==
  ASSUME LaunchInv, StepsInOrder, StateTypes, EndsInv, NEW l \in Links, DeliverPut(l)
  PROVE  Kept /\ StateTypes' /\ \A e \in Links : Still(e)
<1>1. /\ UNCHANGED <<d, plan, host, seq, error, block, threads, fifo, credits, creditSignal>>
      /\ puts[l] # <<>> /\ puts' = [puts EXCEPT ![l] = Tail(@)]
      /\ readySignal' = [readySignal EXCEPT ![l] = @ + 1]
  BY DEF DeliverPut
<1>2. Kept
  BY <1>1 DEF Kept, LaunchInv, TypeInv
<1>3. Links' = Links /\ Slots' = Slots
  BY <1>2, PlanIsKept DEF Kept
<1>4. /\ puts \in [Links -> Seq(Message)] /\ readySignal \in [Links -> Nat]
      /\ creditSignal \in [Links -> Nat]
  BY DEF StateTypes, ShareTypes
<1>5. puts' \in [Links -> Seq(Message)] /\ readySignal' \in [Links -> Nat]
  <2>1. Tail(puts[l]) \in Seq(Message) /\ readySignal[l] + 1 \in Nat
    BY <1>1, <1>4
  <2>2. QED
    BY <1>1, <1>4, <2>1
<1>6. StateTypes'
  <2>1. ShareTypes'
    BY <1>1, <1>3, <1>5 DEF StateTypes, ShareTypes, fifo
  <2>2. ThreadTypes'
    BY <1>1, <1>3 DEF StateTypes, ThreadTypes, threads
  <2>3. PlanTypes'
    BY <1>1, PlanTypesKept DEF StateTypes
  <2>4. QED
    BY <2>1, <2>2, <2>3 DEF StateTypes
<1>7. ASSUME NEW e \in Links PROVE Still(e)
  <2>1. (Gin(e)' <=> Gin(e)) /\ (Sends(e[1])' <=> Sends(e[1])) /\ Back(e) \in Links
    BY <1>2, PlanIsKept, LinkParts DEF Kept, LaunchInv
  <2>2. readySignal'[Back(e)] >= readySignal[Back(e)] /\ readySignal'[Back(e)] \in Nat
    BY <1>1, <1>4, <1>5, <2>1
  <2>3. cache[e] \in Nat /\ creditSignal[Back(e)] \in Nat
    BY <1>4, <2>1 DEF StateTypes, ThreadTypes
  <2>4. Known(e)' \in Nat /\ Known(e)' >= Known(e)
    BY <1>1, <2>1, <2>2, <2>3 DEF Known, threads
  <2>5. QED
    BY <1>1, <1>2, <2>4, StillEnd
<1>8. QED
  BY <1>2, <1>6, <1>7

LEMMA CreditsDelivered ==
  ASSUME LaunchInv, StepsInOrder, StateTypes, EndsInv, NEW l \in Links, DeliverCredit(l)
  PROVE  /\ Kept /\ StateTypes' /\ \A e \in Links : Still(e)
         /\ creditSignal'[l] >= creditSignal[l]
         /\ creditSignal'[l] + Total(credits'[l]) = creditSignal[l] + Total(credits[l])
         /\ \A e \in Links \ {l} : creditSignal'[e] = creditSignal[e] /\ credits'[e] = credits[e]
         /\ Total(credits[l]) \in Nat /\ Total(credits'[l]) \in Nat
<1>1. /\ UNCHANGED <<d, plan, host, seq, error, block, threads, fifo, puts, readySignal>>
  BY DEF DeliverCredit
<1>2. PICK i \in DOMAIN credits[l] :
        /\ credits' = [credits EXCEPT ![l] = RemoveAt(@, i)]
        /\ creditSignal' = [creditSignal EXCEPT ![l] = @ + credits[l][i]]
  BY DEF DeliverCredit
<1>3. Kept
  BY <1>1 DEF Kept, LaunchInv, TypeInv
<1>4. Links' = Links /\ Slots' = Slots
  BY <1>3, PlanIsKept DEF Kept
<1>5. /\ credits \in [Links -> Seq(Nat)] /\ readySignal \in [Links -> Nat]
      /\ creditSignal \in [Links -> Nat]
  BY DEF StateTypes, ShareTypes
<1>6. /\ credits[l] \in Seq(Nat) /\ i \in 1 .. Len(credits[l]) /\ credits[l][i] \in Nat
      /\ creditSignal[l] \in Nat
  BY <1>2, <1>5
<1> DEFINE rest == RemoveAt(credits[l], i)
           x == credits[l][i]
<1>7. /\ rest \in Seq(Nat) /\ Total(rest) \in Nat /\ Total(credits[l]) = Total(rest) + x
  BY <1>6, TotalRemove
<1>8. /\ credits'[l] = rest /\ creditSignal'[l] = creditSignal[l] + x
      /\ \A e \in Links \ {l} : creditSignal'[e] = creditSignal[e] /\ credits'[e] = credits[e]
  BY <1>2, <1>5
<1>9. credits' \in [Links -> Seq(Nat)] /\ creditSignal' \in [Links -> Nat]
  <2>1. creditSignal[l] + x \in Nat
    BY <1>6
  <2>2. QED
    BY <1>2, <1>5, <1>7, <2>1
<1> DEFINE left  == Total(rest)
           total == Total(credits[l])
<1>10. x \in Nat /\ left \in Nat /\ total = left + x /\ Total(credits'[l]) = left
  BY <1>6, <1>7, <1>8
<1> HIDE DEF rest, x, left, total
<1>11. /\ creditSignal'[l] >= creditSignal[l]
       /\ creditSignal'[l] + Total(credits'[l]) = creditSignal[l] + Total(credits[l])
       /\ Total(credits[l]) \in Nat /\ Total(credits'[l]) \in Nat
  <2>1. creditSignal'[l] + left = creditSignal[l] + total /\ total \in Nat
    BY <1>6, <1>8, <1>10
  <2>2. QED
    BY <1>6, <1>8, <1>10, <2>1 DEF total
<1>12. StateTypes'
  <2>1. ShareTypes'
    BY <1>1, <1>4, <1>9 DEF StateTypes, ShareTypes, fifo
  <2>2. ThreadTypes'
    BY <1>1, <1>4 DEF StateTypes, ThreadTypes, threads
  <2>3. PlanTypes'
    BY <1>1, PlanTypesKept DEF StateTypes
  <2>4. QED
    BY <2>1, <2>2, <2>3 DEF StateTypes
<1>13. ASSUME NEW e \in Links PROVE Still(e)
  <2>1. (Gin(e)' <=> Gin(e)) /\ (Sends(e[1])' <=> Sends(e[1])) /\ Back(e) \in Links
    BY <1>3, PlanIsKept, LinkParts DEF Kept, LaunchInv
  <2>2. creditSignal'[Back(e)] >= creditSignal[Back(e)] /\ creditSignal'[Back(e)] \in Nat
    <3>1. creditSignal[Back(e)] \in Nat /\ creditSignal'[Back(e)] \in Nat
      BY <1>5, <1>9, <2>1
    <3>2. CASE Back(e) = l
      BY <1>11, <3>1, <3>2
    <3>3. CASE Back(e) # l
      BY <1>8, <2>1, <3>1, <3>3
    <3>4. QED
      BY <3>2, <3>3
  <2>3. cache[e] \in Nat /\ readySignal[Back(e)] \in Nat
    BY <1>5, <2>1 DEF StateTypes, ThreadTypes
  <2>4. Known(e)' \in Nat /\ Known(e)' >= Known(e)
    BY <1>1, <2>1, <2>2, <2>3 DEF Known, threads
  <2>5. QED
    BY <1>1, <1>3, <2>4, StillEnd
<1>14. QED
  BY <1>3, <1>8, <1>11, <1>12, <1>13

\* What a host's step leaves alone.
LEMMA HostFrame ==
  ASSUME LaunchInv, StateTypes, NEW r \in Ranks(d), HostStep(r)
  PROVE  /\ UNCHANGED <<d, plan, threads, puts, credits, unread>> /\ StateTypes'
         /\ Links' = Links /\ DOMAIN host' = DOMAIN host
         /\ \A q \in Ranks(d) \ {r} : host'[q] = host[q] /\ seq'[q] = seq[q] /\ error'[q] = error[q]
         /\ \A b \in DOMAIN block : b[1] # r => block'[b] = block[b]
         /\ \A s \in Slots : s[1] # r => ready'[s] = ready[s] /\ consumed'[s] = consumed[s]
         /\ \A e \in Links : e[2] # r =>
              readySignal'[e] = readySignal[e] /\ creditSignal'[e] = creditSignal[e]
<1>1. /\ UNCHANGED <<d, plan, threads, puts, credits, unread>>
  BY DEF HostStep, Launch, Register, Reset, GinBarrier, Synchronize, Complete, memory, gin
<1>2. /\ host \in [Ranks(d) -> HostPlaces] /\ seq \in [Ranks(d) -> Nat]
      /\ error \in [Ranks(d) -> BOOLEAN]
      /\ block \in [Ranks(d) \X (0 .. d.channels - 1) -> [pc : BlockPlaces, at : Nat \ {0}]]
  BY DEF LaunchInv, TypeInv
<1>3. /\ ready \in [Slots -> Nat] /\ consumed \in [Slots -> Nat]
      /\ puts \in [Links -> Seq(Message)]
      /\ readySignal \in [Links -> Nat] /\ creditSignal \in [Links -> Nat]
  BY DEF StateTypes, ShareTypes
<1>4. DOMAIN host' = DOMAIN host
  BY <1>2 DEF HostStep, Launch, Register, Reset, GinBarrier, Synchronize, Complete
<1>5. Links' = Links /\ Slots' = Slots
  BY <1>1, <1>4, PlanIsKept
<1>6. \A q \in Ranks(d) \ {r} : host'[q] = host[q] /\ seq'[q] = seq[q] /\ error'[q] = error[q]
  BY <1>2 DEF HostStep, Launch, Register, Reset, GinBarrier, Synchronize, Complete
<1>7. \A b \in DOMAIN block : b[1] # r => block'[b] = block[b]
  BY <1>2 DEF HostStep, Launch, Register, Reset, GinBarrier, Synchronize, Complete, StartKernel
<1>8. /\ ready' \in [Slots -> Nat] /\ consumed' \in [Slots -> Nat]
      /\ readySignal' \in [Links -> Nat] /\ creditSignal' \in [Links -> Nat]
      /\ \A s \in Slots : s[1] # r => ready'[s] = ready[s] /\ consumed'[s] = consumed[s]
      /\ \A e \in Links : e[2] # r =>
           readySignal'[e] = readySignal[e] /\ creditSignal'[e] = creditSignal[e]
  <2>1. CASE UNCHANGED <<fifo, gin>>
    BY <1>3, <2>1 DEF fifo, gin
  <2>2. CASE Reset(r)
    <3>1. /\ ready' = [s \in DOMAIN ready |-> IF s[1] = r THEN 0 ELSE ready[s]]
          /\ consumed' = [s \in DOMAIN ready |-> IF s[1] = r THEN 0 ELSE consumed[s]]
          /\ \/ /\ readySignal' = [l \in DOMAIN puts |-> IF l[2] = r THEN 0 ELSE readySignal[l]]
                /\ creditSignal' = [l \in DOMAIN puts |-> IF l[2] = r THEN 0 ELSE creditSignal[l]]
             \/ readySignal' = readySignal /\ creditSignal' = creditSignal
      BY <2>2 DEF Reset
    <3>2. /\ ready' \in [Slots -> Nat] /\ consumed' \in [Slots -> Nat]
          /\ \A s \in Slots : s[1] # r => ready'[s] = ready[s] /\ consumed'[s] = consumed[s]
      BY <1>3, <3>1
    <3>3. /\ readySignal' \in [Links -> Nat] /\ creditSignal' \in [Links -> Nat]
          /\ \A e \in Links : e[2] # r =>
               readySignal'[e] = readySignal[e] /\ creditSignal'[e] = creditSignal[e]
      <4>1. CASE readySignal' = readySignal /\ creditSignal' = creditSignal
        BY <1>3, <4>1
      <4>2. CASE /\ readySignal' = [l \in DOMAIN puts |-> IF l[2] = r THEN 0 ELSE readySignal[l]]
                 /\ creditSignal' = [l \in DOMAIN puts |-> IF l[2] = r THEN 0 ELSE creditSignal[l]]
        <5>1. DOMAIN puts = Links
          BY <1>3
        <5>2. readySignal' \in [Links -> Nat] /\ creditSignal' \in [Links -> Nat]
          BY <1>3, <4>2, <5>1
        <5>3. QED
          BY <4>2, <5>1, <5>2
      <4>3. QED
        BY <3>1, <4>1, <4>2
    <3>4. QED
      BY <3>2, <3>3
  <2>3. UNCHANGED <<fifo, gin>> \/ Reset(r)
    BY DEF HostStep, Launch, Register, GinBarrier, Synchronize, Complete
  <2>4. QED
    BY <2>1, <2>2, <2>3
<1>9. StateTypes'
  <2>1. ShareTypes'
    BY <1>1, <1>5, <1>8 DEF StateTypes, ShareTypes
  <2>2. ThreadTypes'
    BY <1>1, <1>5 DEF StateTypes, ThreadTypes, threads
  <2>3. PlanTypes'
    BY <1>1, PlanTypesKept DEF StateTypes
  <2>4. QED
    BY <2>1, <2>2, <2>3 DEF StateTypes
<1>10. QED
  BY <1>1, <1>4, <1>5, <1>6, <1>7, <1>8, <1>9

\* The ends of the other ranks.
LEMMA HostOthers ==
  ASSUME LaunchInv, StepsInOrder, StateTypes, EndsInv, NEW r \in Ranks(d), HostStep(r),
         NEW e \in Links, e[1] # r
  PROVE  Still(e)
<1>1. /\ UNCHANGED <<d, plan, threads>> /\ Links' = Links /\ DOMAIN host' = DOMAIN host
      /\ host'[e[1]] = host[e[1]] /\ error'[e[1]] = error[e[1]] /\ block'[BlockOf(e)] = block[BlockOf(e)]
      /\ readySignal'[Back(e)] = readySignal[Back(e)] /\ creditSignal'[Back(e)] = creditSignal[Back(e)]
  BY HostFrame, LinkParts DEF LaunchInv
<1>2. /\ lead'[e] = lead[e] /\ post'[e] = post[e] /\ slice'[e] = slice[e]
      /\ cache'[e] = cache[e] /\ filled'[e] = filled[e]
      /\ plan'[e[1]] = plan[e[1]]
  BY <1>1 DEF threads
<1>3. /\ \A n : WorksIn(e, n)' = WorksIn(e, n) /\ StepsBefore(e, n)' = StepsBefore(e, n)
      /\ (Used(e)' <=> Used(e)) /\ Count(e)' = Count(e) /\ LastStep(e)' = LastStep(e)
      /\ Depth(e)' = Depth(e) /\ (Gin(e)' <=> Gin(e)) /\ (Sends(e[1])' <=> Sends(e[1]))
  BY <1>1, PlanIsKept
<1>4. Pc(e)' = Pc(e) /\ At(e)' = At(e)
  BY <1>1 DEF Pc, At, BlockOf
<1>5. WorkOf(e)' = WorkOf(e)
  <2>1. Works(BlockOf(e))' = Works(BlockOf(e)) /\ block'[BlockOf(e)].at = block[BlockOf(e)].at
    BY <1>1 DEF Works, BlockOf
  <2>2. QED
    BY <2>1 DEF WorkOf
<1>6. /\ Steps(e)' = Steps(e) /\ (Drains(e)' <=> Drains(e))
      /\ WorksIn(e, At(e))' = WorksIn(e, At(e))
      /\ StepsBefore(e, At(e))' = StepsBefore(e, At(e))
      /\ StepsBefore(e, At(e) + 1)' = StepsBefore(e, At(e) + 1)
  <2>1. PICK n : n = At(e)
    OBVIOUS
  <2>2. PICK m : m = At(e) + 1
    OBVIOUS
  <2>3. QED
    BY <1>3, <1>4, <1>5, <2>1, <2>2 DEF Steps, Drains
<1>7. Serving(e)' <=> Serving(e)
  BY <1>4, <1>6 DEF Serving
<1>8. /\ PostSlice(e)' = PostSlice(e) /\ Posted(e)' = Posted(e)
      /\ Known(e)' = Known(e) /\ Room(e)' = Room(e)
  BY <1>1, <1>2, <1>3 DEF PostSlice, Posted, Known, Room
<1>9. ToCopy(e)' = ToCopy(e)
  BY <1>1, <1>2, <1>3, <1>4, <1>5, <1>6 DEF ToCopy
<1>10. ToPost(e)' = ToPost(e) /\ Credited(e)' = Credited(e)
  BY <1>1, <1>2, <1>3, <1>4, <1>5, <1>6, <1>8 DEF ToPost, Credited
<1>11. EndShape(e) /\ EndPost(e) /\ EndCopy(e) /\ EndDone(e)
  BY DEF EndsInv, EndInv
<1>12. EndShape(e)'
  BY <1>1, <1>2, <1>3, <1>4, <1>6, <1>7, <1>11 DEF EndShape
<1>13. EndPost(e)'
  BY <1>1, <1>2, <1>6, <1>8, <1>11 DEF EndPost
<1>14. EndCopy(e)' /\ EndDone(e)'
  BY <1>1, <1>2, <1>3, <1>8, <1>9, <1>11 DEF EndCopy, EndDone
<1>15. QED
  BY <1>2, <1>9, <1>10, <1>12, <1>13, <1>14 DEF Still, EndInv

\* The ends of the rank itself rest, at the beginning of a launch or at its end.
LEMMA HostOwn ==
  ASSUME LaunchInv, StepsInOrder, StateTypes, EndsInv, NEW r \in Ranks(d), HostStep(r),
         NEW e \in Links, e[1] = r
  PROVE  /\ EndInv(e)' /\ Rests(e, 0)' /\ cache'[e] = cache[e]
         /\ host[r] # "kernel" => Rests(e, 0)
         /\ host[r] = "kernel" => Synchronize(r) /\ Pc(e) = "off" /\ Rests(e, LastStep(e))
<1>1. /\ UNCHANGED <<d, plan, threads>> /\ Links' = Links /\ DOMAIN host' = DOMAIN host /\ StateTypes'
      /\ BlockOf(e) \in DOMAIN block /\ BlockOf(e)[1] = r /\ BlockOf(e)[2] = e[3] /\ Back(e) \in Links
  BY HostFrame, LinkParts DEF LaunchInv
<1>2. /\ lead'[e] = lead[e] /\ post'[e] = post[e] /\ slice'[e] = slice[e]
      /\ cache'[e] = cache[e] /\ filled'[e] = filled[e]
      /\ plan'[e[1]] = plan[e[1]]
  BY <1>1 DEF threads
<1>3. /\ (Used(e)' <=> Used(e)) /\ Count(e)' = Count(e) /\ LastStep(e)' = LastStep(e)
      /\ (Gin(e)' <=> Gin(e)) /\ (Sends(e[1])' <=> Sends(e[1])) /\ BlockOf(e)' = BlockOf(e)
  BY <1>1, PlanIsKept DEF BlockOf
<1>4. /\ host \in [Ranks(d) -> HostPlaces] /\ error \in [Ranks(d) -> BOOLEAN]
      /\ block \in [Ranks(d) \X (0 .. d.channels - 1) -> [pc : BlockPlaces, at : Nat \ {0}]]
  BY DEF LaunchInv, TypeInv
<1>5. EndShape(e) /\ EndPost(e) /\ EndCopy(e) /\ EndDone(e)
  BY DEF EndsInv, EndInv
<1>6. host[r] # "kernel" => Pc(e) = "off"
  BY <1>1 DEF LaunchInv, GateInv, Pc
<1>7. host[r] = "kernel" => Synchronize(r) /\ Pc(e) = "off"
  BY <1>1 DEF HostStep, Launch, Register, Reset, GinBarrier, Complete, Synchronize, Pc
<1>8. lead[e] = "out" /\ post[e] = "out"
  BY <1>5, <1>6, <1>7 DEF EndShape, Serving
<1>9. /\ host'[r] # "kernel" => block' = block
      /\ host'[r] = "kernel" => host[r] \in {"reset", "barrier"} /\ StartKernel(r)
  BY <1>4 DEF HostStep, Launch, Register, Reset, GinBarrier, Complete, Synchronize
<1>10. /\ host'[r] # "kernel" => Pc(e)' = "off"
       /\ host'[r] = "kernel" => Pc(e)' = IF Used(e) THEN (IF e[3] = Min(DOMAIN plan[r].schedule)
                                                            THEN "epoch" ELSE "gate")
                                         ELSE "off"
  <2>1. CASE host'[r] # "kernel"
    BY <1>3, <1>6, <1>7, <1>9, <2>1 DEF Pc
  <2>2. CASE host'[r] = "kernel"
    <3>1. Pc(e) = "off"
      BY <1>6, <1>9, <2>2
    <3>2. block'[BlockOf(e)].pc = IF e[3] \in DOMAIN plan[r].schedule
             THEN (IF e[3] = Min(DOMAIN plan[r].schedule) THEN "epoch" ELSE "gate")
             ELSE block[BlockOf(e)].pc
      BY <1>1, <1>4, <1>9, <2>2 DEF StartKernel
    <3>3. QED
      BY <1>3, <2>2, <3>1, <3>2 DEF Pc, Used
  <2>3. QED
    BY <2>1, <2>2
<1>11. /\ host'[r] # "kernel" => Rests(e, 0)'
       /\ host[r] # "kernel" => Rests(e, 0)
  BY <1>2, <1>8 DEF Rests, ToCopy, ToPost, Credited
<1>12. host'[r] = "kernel" => Rests(e, 0)'
  <2>1. CASE Used(e)
    BY <1>2, <1>8, <1>10, <2>1, RestsAt
  <2>2. CASE ~Used(e)
    <3>1. LastStep(e)' = 0
      BY <1>3, <2>2 DEF LastStep
    <3>2. host'[r] = "kernel" => Rests(e, LastStep(e))'
      BY <1>2, <1>8, <1>10, <2>2, RestsAt
    <3>3. QED
      BY <3>1, <3>2
  <2>3. QED
    BY <2>1, <2>2
<1>13. host[r] = "kernel" => Rests(e, LastStep(e))
  BY <1>7, <1>8, RestsAt
<1>14. filled[e] \/ (error'[r] /\ host'[r] \in {"kernel", "threw"})
  <2>1. filled[e] \/ (error[r] /\ host[r] \in {"kernel", "threw"})
    BY <1>5 DEF EndShape
  <2>2. host[r] # "threw"
    BY DEF HostStep, Launch, Register, Reset, GinBarrier, Complete, Synchronize
  <2>3. CASE host[r] = "kernel"
    BY <1>4, <1>7, <2>1, <2>3 DEF Synchronize
  <2>4. QED
    BY <2>1, <2>2, <2>3
<1>15. EndShape(e)'
  BY <1>2, <1>3, <1>8, <1>10, <1>14 DEF EndShape
<1>16. EndPost(e)' /\ EndCopy(e)'
  BY <1>2, <1>8 DEF EndPost, EndCopy
<1>17. EndDone(e)'
  <2>1. ToCopy(e)' = 1
    BY <1>11, <1>12 DEF Rests
  <2>2. LastStep(e) \in Nat /\ LastStep(e)' = LastStep(e)
    BY <1>3, <1>5, EndOrder
  <2>3. Known(e)' \in Nat
    <3>1. Back(e) \in Links' /\ e \in Links'
      BY <1>1
    <3>2. cache'[e] \in Nat /\ creditSignal'[Back(e)] \in Nat /\ readySignal'[Back(e)] \in Nat
      BY <1>1, <3>1 DEF StateTypes, ThreadTypes, ShareTypes
    <3>3. Known(e)' = IF ~Gin(e)' THEN cache'[e]
                      ELSE IF Sends(e[1])' THEN creditSignal'[Back(e)] ELSE readySignal'[Back(e)]
      BY DEF Known
    <3>4. QED
      BY <3>2, <3>3
  <2>4. ToCopy(e)' = LastStep(e)' + 1 => LastStep(e)' <= Known(e)'
    BY <2>1, <2>2, <2>3
  <2>5. QED
    BY <2>4 DEF EndDone
<1>18. QED
  BY <1>2, <1>7, <1>11, <1>12, <1>13, <1>15, <1>16, <1>17 DEF EndInv

\* The steps there are, as far as the streams go.
LEMMA StepKinds ==
  ASSUME LaunchInv, StepsInOrder, StateTypes, EndsInv, [Next]_vars
  PROVE  \/ QuietStep
         \/ \E e \in Links : CopyOut(e) \/ CopyIn(e) \/ Post(e)
         \/ \E l \in Links : DeliverPut(l) \/ DeliverCredit(l)
         \/ \E r \in Ranks(d) : HostStep(r)
<1>1. DOMAIN lead = Links /\ DOMAIN puts = Links /\ R = Ranks(d)
  BY DEF LaunchInv, TypeInv, StateTypes, ThreadTypes, ShareTypes, R
<1>2. CASE UNCHANGED vars
  BY <1>2, NothingIsQuiet
<1>3. ASSUME NEW b \in DOMAIN block, BlockStep(b) PROVE QuietStep
  BY <1>3, BlocksAreQuiet
<1>4. ASSUME NEW e \in Links, ThreadStep(e)
      PROVE  QuietStep \/ CopyOut(e) \/ CopyIn(e) \/ Post(e)
  BY <1>4, ThreadsAreQuiet DEF ThreadStep
<1>5. QED
  BY <1>1, <1>2, <1>3, <1>4 DEF Next

LEMMA EndsKept ==
  ASSUME LaunchInv, StepsInOrder, StateTypes, EndsInv, [Next]_vars
  PROVE  StateTypes' /\ EndsInv' /\ d' = d /\ plan' = plan /\ DOMAIN host' = DOMAIN host
         /\ Links' = Links
<1>1. SUFFICES StateTypes' /\ d' = d /\ plan' = plan /\ DOMAIN host' = DOMAIN host
               /\ \A e \in Links : EndInv(e)'
  BY PlanIsKept DEF EndsInv
<1>2. CASE QuietStep
  BY <1>2 DEF QuietStep, Steady, Kept
<1>3. ASSUME NEW e \in Links, CopyOut(e) \/ CopyIn(e) \/ Post(e)
      PROVE  /\ StateTypes' /\ d' = d /\ plan' = plan /\ DOMAIN host' = DOMAIN host
             /\ \A f \in Links : EndInv(f)'
  <2>1. ThreadStep(e) /\ EndInv(e)
    BY <1>3 DEF ThreadStep, EndsInv
  <2>2. StateTypes'
    BY <2>1, ThreadsAreTyped
  <2>3. d' = d /\ plan' = plan /\ DOMAIN host' = DOMAIN host
    BY <2>1, ThreadFrame DEF Kept, LaunchInv
  <2>4. EndInv(e)'
    BY <1>3, <2>1, CopySteps, PostSteps
  <2>5. \A f \in Links \ {e} : EndInv(f)'
    BY <2>1, OtherEnds DEF Still
  <2>6. QED
    BY <2>2, <2>3, <2>4, <2>5
<1>4. ASSUME NEW l \in Links, DeliverPut(l) \/ DeliverCredit(l)
      PROVE  /\ StateTypes' /\ d' = d /\ plan' = plan /\ DOMAIN host' = DOMAIN host
             /\ \A f \in Links : EndInv(f)'
  BY <1>4, PutsDelivered, CreditsDelivered DEF Still, Kept
<1>5. ASSUME NEW r \in Ranks(d), HostStep(r)
      PROVE  /\ StateTypes' /\ d' = d /\ plan' = plan /\ DOMAIN host' = DOMAIN host
             /\ \A f \in Links : EndInv(f)'
  <2>1. StateTypes' /\ d' = d /\ plan' = plan /\ DOMAIN host' = DOMAIN host
    BY <1>5, HostFrame
  <2>2. ASSUME NEW f \in Links PROVE EndInv(f)'
    BY <1>5, HostOthers, HostOwn DEF Still
  <2>3. QED
    BY <2>1, <2>2
<1>6. QED
  BY <1>2, <1>3, <1>4, <1>5, StepKinds

\* The batch of credits of a rank is a number of steps.
LEMMA CreditBatchIs ==
  ASSUME NEW dep \in Deployments, NEW r
  PROVE  CreditBatch(dep, r) \in Nat \ {0}
<1>1. dep.ginDepth \in Nat
  BY DeploymentsAssumption
<1>2. dep.ginDepth \div 2 \in Nat
  BY <1>1
<1>3. QED
  BY <1>2 DEF CreditBatch, Smaller, Larger

LEMMA EndsStart ==
  ASSUME Init
  PROVE  StateTypes /\ EndsInv /\ unread = {}
<1>1. /\ d \in Deployments /\ host = [r \in Ranks(d) |-> "idle"] /\ R = Ranks(d)
      /\ error = [r \in Ranks(d) |-> FALSE]
      /\ block = [b \in Blocks |-> [pc |-> "off", at |-> 1]]
      /\ lead = [e \in Links |-> "out"] /\ post = [e \in Links |-> "out"]
      /\ slice = [e \in Links |-> 1] /\ cache = [e \in Links |-> 0]
      /\ filled = [e \in Links |-> TRUE]
      /\ unread = {}
  BY DEF Init, R
<1>2. /\ ready = [s \in Slots |-> 0] /\ consumed = [s \in Slots |-> 0]
      /\ puts = [l \in Links |-> <<>>] /\ credits = [l \in Links |-> <<>>]
      /\ readySignal = [l \in Links |-> 0] /\ creditSignal = [l \in Links |-> 0]
  BY DEF Init
<1>3. PICK x : plan = [r \in R |-> FixedPlan(x, r)]
  BY DEF Init
<1>4. PlanTypes
  <2>1. ASSUME NEW r \in Ranks(d)
        PROVE  /\ plan[r].slot = [p \in PeersOf(d, r) |-> PayloadSlot(d, r, p)]
               /\ plan[r].credit = CreditBatch(d, r)
    BY <1>1, <1>3 DEF FixedPlan
  <2>2. QED
    BY <1>1, <1>3, <2>1, CreditBatchIs DEF PlanTypes
<1>5. ThreadTypes
  BY <1>1 DEF ThreadTypes, LeadPlaces, PostPlaces
<1>6. ShareTypes
  <2>1. <<>> \in Seq(Message) /\ <<>> \in Seq(Nat)
    OBVIOUS
  <2>2. QED
    BY <1>2, <2>1 DEF ShareTypes
<1>7. ASSUME NEW e \in Links PROVE EndInv(e)
  <2>1. lead[e] = "out" /\ post[e] = "out" /\ filled[e] /\ e[1] \in Ranks(d)
    BY <1>1 DEF Links
  <2>2. Pc(e) = "off" /\ host[e[1]] = "idle"
    <3>1. BlockOf(e) \in Blocks
      BY DEF Links, Blocks, BlockOf
    <3>2. QED
      BY <1>1, <2>1, <3>1 DEF Pc
  <2>3. QED
    BY <2>1, <2>2 DEF EndInv, EndShape, EndPost, EndCopy, EndDone
<1>8. QED
  BY <1>1, <1>4, <1>5, <1>6, <1>7 DEF StateTypes, EndsInv

-----------------------------------------------------------------------------
(***************************************************************************)
(* What an end that has begun knows of its peer's launch.                  *)
(***************************************************************************)

\* The gate polls the peers of the node, and the others need GIN.
LEMMA PolledWhenNear ==
  ASSUME TypeInv, NEW e \in Links
  PROVE  /\ ~Gin(e) => \E k \in 1 .. Len(LsaPeers(d, e[1])) : LsaPeers(d, e[1])[k] = e[2]
         /\ Gin(e) => GinEnabled(d)
<1> DEFINE near == {p \in PeersOf(d, e[1]) : ~Network(d, e[1], p)}
           far  == {p \in PeersOf(d, e[1]) : Network(d, e[1], p)}
<1>1. d \in Deployments /\ e[1] \in Ranks(d) /\ e[2] \in PeersOf(d, e[1])
  BY LinkParts DEF TypeInv
<1>2. /\ IsFiniteSet(near) /\ near \subseteq Int
      /\ IsFiniteSet(far) /\ far \subseteq Int
  BY <1>1, PeersAreFinite
<1>3. LsaPeers(d, e[1]) = Ascending(near) /\ GinPeers(d, e[1]) = Ascending(far)
  BY DEF LsaPeers, GinPeers
<1>4. (~Gin(e) => e[2] \in near) /\ (Gin(e) => e[2] \in far)
  BY <1>1 DEF Gin
<1> HIDE DEF near, far
<1>5. e[2] \in near => \E k \in 1 .. Len(LsaPeers(d, e[1])) : LsaPeers(d, e[1])[k] = e[2]
  <2>1. SUFFICES ASSUME e[2] \in near
                 PROVE  \E k \in 1 .. Len(LsaPeers(d, e[1])) : LsaPeers(d, e[1])[k] = e[2]
    OBVIOUS
  <2>2. /\ Len(Ascending(near)) = Cardinality(near)
        /\ \E k \in 1 .. Cardinality(near) : Ascending(near)[k] = e[2]
    BY <1>2, <2>1, AscendingHasAll
  <2>3. QED
    BY <1>3, <2>2
<1>6. e[2] \in far => GinEnabled(d)
  <2>1. SUFFICES ASSUME e[2] \in far PROVE GinPeers(d, e[1]) # <<>>
    BY <1>1 DEF GinEnabled
  <2>2. /\ Cardinality(far) \in Nat
        /\ Len(Ascending(far)) = Cardinality(far)
        /\ \E k \in 1 .. Cardinality(far) : Ascending(far)[k] = e[2]
    BY <1>2, <2>1, AscendingHasAll
  <2>3. Len(GinPeers(d, e[1])) # 0
    BY <1>3, <2>2
  <2>4. QED
    BY <2>3
<1>7. QED
  BY <1>4, <1>5, <1>6

\* A group runs a work only when the peer has cleared its window.
LEMMA ServingIsCleared ==
  ASSUME LaunchInv, NEW e \in Links, Pc(e) = "run", ~Gin(e) \/ ~error[e[1]]
  PROVE  Cleared(e[2], seq[e[1]])
<1>1. /\ e[1] \in Ranks(d) /\ e[2] \in Ranks(d)
      /\ BlockOf(e) \in DOMAIN block /\ BlockOf(e)[1] = e[1] /\ block[BlockOf(e)].pc = "run"
  BY LinkParts DEF LaunchInv, Pc
<1>2. host[e[1]] = "kernel"
  BY <1>1 DEF LaunchInv, GateInv
<1>3. CASE Gin(e)
  <2>1. GinEnabled(d)
    BY <1>3, PolledWhenNear DEF LaunchInv
  <2>2. QED
    BY <1>1, <1>2, <1>3, <2>1 DEF LaunchInv, BarrierInv
<1>4. CASE ~Gin(e)
  <2>1. PICK k \in 1 .. Len(LsaPeers(d, e[1])) : LsaPeers(d, e[1])[k] = e[2]
    BY <1>4, PolledWhenNear DEF LaunchInv
  <2>2. QED
    BY <1>1, <2>1 DEF LaunchInv, GateInv
<1>5. QED
  BY <1>3, <1>4

\* An end that has copied a step without an error has a peer in its launch.
BegunInv ==
  \A e \in Links : ~error[e[1]] /\ ToCopy(e) # 1 => Cleared(e[2], seq[e[1]])

\* Where GIN is enabled, a launch succeeds behind the barrier.
ReturnedInv ==
  \A r \in Ranks(d) : GinEnabled(d) /\ host[r] = "returned" =>
    \A q \in Ranks(d) : Cleared(q, seq[r])

LEMMA BegunKept ==
  ASSUME LaunchInv, StepsInOrder, StateTypes, EndsInv, BegunInv, [Next]_vars
  PROVE  BegunInv'
<1>1. Links' = Links
  BY EndsKept
<1>2. ASSUME NEW e \in Links
      PROVE  /\ Cleared(e[2], seq[e[1]]) \in BOOLEAN
             /\ ~error[e[1]] /\ ToCopy(e) # 1 => Cleared(e[2], seq[e[1]])
             /\ e[1] \in Ranks(d) /\ e[2] \in Ranks(d) /\ ToCopy(e) \in Nat \ {0}
  BY LinkParts, EndOrder DEF BegunInv, Cleared, LaunchInv, EndsInv, EndInv
<1>3. ASSUME NEW e \in Links, Kept, Steady(e), ~error'[e[1]], ToCopy(e)' # 1
      PROVE  Cleared(e[2], seq[e[1]])'
  BY <1>2, <1>3 DEF Kept, Steady, Cleared
<1>4. CASE QuietStep
  BY <1>1, <1>3, <1>4 DEF QuietStep, BegunInv
<1>5. ASSUME NEW x \in Links, CopyOut(x) \/ CopyIn(x) \/ Post(x) PROVE BegunInv'
  <2>1. ThreadStep(x) /\ EndInv(x) /\ Kept
    BY <1>5, ThreadFrame DEF ThreadStep, EndsInv, LaunchInv
  <2>2. ASSUME NEW e \in Links, e # x, ~error'[e[1]], ToCopy(e)' # 1
        PROVE  Cleared(e[2], seq[e[1]])'
    BY <1>2, <1>3, <2>1, <2>2, OtherEnds, StillIsSteady
  <2>3. ASSUME ~error'[x[1]], ToCopy(x)' # 1 PROVE Cleared(x[2], seq[x[1]])'
    <3>1. Serving(x) /\ error' = error
      BY <1>5, <2>1, CopySteps, PostSteps
    <3>2. Cleared(x[2], seq[x[1]])
      BY <2>3, <3>1, ServingIsCleared DEF Serving
    <3>3. QED
      BY <2>1, <3>2 DEF Kept, Cleared
  <2>4. QED
    BY <1>1, <2>2, <2>3 DEF BegunInv
<1>6. ASSUME NEW l \in Links, DeliverPut(l) \/ DeliverCredit(l) PROVE BegunInv'
  <2>1. Kept /\ \A e \in Links : Still(e)
    BY <1>6, PutsDelivered, CreditsDelivered
  <2>2. \A e \in Links : Steady(e)
    BY <1>2, <2>1, StillIsSteady
  <2>3. QED
    BY <1>1, <1>3, <2>1, <2>2 DEF BegunInv
<1>7. ASSUME NEW r \in Ranks(d), HostStep(r) PROVE BegunInv'
  <2>1. SUFFICES ASSUME NEW e \in Links, ~error'[e[1]], ToCopy(e)' # 1
                 PROVE  Cleared(e[2], seq[e[1]])'
    BY <1>1 DEF BegunInv
  <2>2. e[1] # r
    <3>1. e[1] = r => Rests(e, 0)'
      BY <1>7, HostOwn
    <3>2. QED
      BY <2>1, <3>1 DEF Rests
  <2>3. Still(e) /\ error'[e[1]] = error[e[1]] /\ seq'[e[1]] = seq[e[1]]
    BY <1>2, <1>7, <2>2, HostOthers, HostFrame
  <2>4. Cleared(e[2], seq[e[1]])
    BY <1>2, <2>1, <2>3 DEF Still
  <2>5. PICK n : n = seq[e[1]]
    OBVIOUS
  <2>6. n \in Nat
    BY <1>2, <2>5 DEF LaunchInv, TypeInv
  <2>7. Cleared(e[2], n) => Cleared(e[2], n)'
    BY <1>2, <1>7, <2>6, OnceCleared DEF LaunchInv
  <2>8. QED
    BY <2>3, <2>4, <2>5, <2>7
<1>8. QED
  BY <1>4, <1>5, <1>6, <1>7, StepKinds

LEMMA ReturnedKept ==
  ASSUME LaunchInv, ReturnedInv, [Next]_vars, StepsInOrder, StateTypes, EndsInv
  PROVE  ReturnedInv'
<1>1. TypeInv
  BY DEF LaunchInv
<1>2. Kept => ReturnedInv'
  BY DEF Kept, ReturnedInv, Cleared
<1>3. CASE QuietStep
  BY <1>2, <1>3 DEF QuietStep
<1>4. ASSUME NEW x \in Links, CopyOut(x) \/ CopyIn(x) \/ Post(x) PROVE ReturnedInv'
  BY <1>1, <1>2, <1>4, ThreadFrame DEF ThreadStep
<1>5. ASSUME NEW l \in Links, DeliverPut(l) \/ DeliverCredit(l) PROVE ReturnedInv'
  BY <1>2, <1>5, PutsDelivered, CreditsDelivered
<1>6. ASSUME NEW r \in Ranks(d), HostStep(r) PROVE ReturnedInv'
  <2>1. d' = d
    BY <1>1, <1>6, OnceCleared
  <2>2. SUFFICES ASSUME NEW x \in Ranks(d), GinEnabled(d), host'[x] = "returned", NEW q \in Ranks(d)
                 PROVE  Cleared(q, seq[x])'
    BY <2>1 DEF ReturnedInv
  <2>3. host \in [Ranks(d) -> HostPlaces] /\ seq \in [Ranks(d) -> Nat]
    BY <1>1 DEF TypeInv
  <2>4. /\ seq'[x] = seq[x]
        /\ host[x] = "returned" \/ (host[x] = "kernel" /\ ~error[x])
    <3>1. CASE x # r
      BY <1>6, <2>2, <3>1, HostFrame
    <3>2. CASE x = r
      <4>1. Synchronize(r)
        BY <1>6, <2>2, <2>3, <3>2
           DEF HostStep, Launch, Register, Reset, GinBarrier, Complete
      <4>2. QED
        BY <2>2, <2>3, <3>2, <4>1 DEF Synchronize
    <3>3. QED
      BY <3>1, <3>2
  <2>5. Cleared(q, seq[x])
    BY <2>2, <2>4 DEF ReturnedInv, LaunchInv, BarrierInv
  <2>6. PICK n : n = seq[x]
    OBVIOUS
  <2>7. n \in Nat
    BY <2>2, <2>3, <2>6
  <2>8. Cleared(q, n) => Cleared(q, n)'
    BY <1>1, <1>6, <2>7, OnceCleared
  <2>9. QED
    BY <2>4, <2>5, <2>6, <2>8
<1>7. QED
  BY <1>3, <1>4, <1>5, <1>6, StepKinds

-----------------------------------------------------------------------------
(***************************************************************************)
(* The payload slots of an end, and whose they are.                        *)
(***************************************************************************)
Lane(e, i) == <<e[1], plan[e[1]].slot[e[2]], e[3], i>>
Owns(e)    == Sends(e[1]) \/ Gin(e)

\* Two peers of a rank have payload slots of their own.
LEMMA SlotsApart ==
  ASSUME NEW dep \in Deployments, NEW r \in Ranks(dep), NEW p \in PeersOf(dep, r),
         NEW q \in PeersOf(dep, r),
         r \in dep.senders \/ Network(dep, r, p), r \in dep.senders \/ Network(dep, r, q),
         PayloadSlot(dep, r, p) = PayloadSlot(dep, r, q)
  PROVE  p = q
<1> DEFINE S == {x \in PeersOf(dep, r) : r \in dep.senders \/ Network(dep, r, x)}
           holders == Ascending(S)
           index(x) == CHOOSE i \in DOMAIN holders : holders[i] = x
<1>1. IsFiniteSet(S) /\ S \subseteq Int /\ p \in S /\ q \in S
  BY PeersAreFinite
<1>2. \A x : PayloadSlot(dep, r, x) = IF \E i \in DOMAIN holders : holders[i] = x
                                      THEN index(x) - 1 ELSE -1
  BY DEF PayloadSlot
<1> HIDE DEF S
<1>3. /\ Cardinality(S) \in Nat /\ DOMAIN holders = 1 .. Cardinality(S)
      /\ \A x \in S : \E k \in 1 .. Cardinality(S) : holders[k] = x
  <2>1. DOMAIN holders = 1 .. Cardinality(S)
    BY DEF Ascending
  <2>2. QED
    BY <1>1, <2>1, AscendingHasAll
<1> HIDE DEF holders
<1>4. ASSUME NEW x \in S
      PROVE  PayloadSlot(dep, r, x) = index(x) - 1 /\ index(x) \in Nat /\ holders[index(x)] = x
  <2>1. \E i \in DOMAIN holders : holders[i] = x
    BY <1>3
  <2>2. index(x) \in DOMAIN holders /\ holders[index(x)] = x
    BY <2>1
  <2>3. QED
    BY <1>2, <1>3, <2>1, <2>2
<1>5. /\ PayloadSlot(dep, r, p) = index(p) - 1 /\ index(p) \in Nat /\ holders[index(p)] = p
      /\ PayloadSlot(dep, r, q) = index(q) - 1 /\ index(q) \in Nat /\ holders[index(q)] = q
  BY <1>1, <1>4
<1> HIDE DEF index
<1>6. index(p) = index(q)
  <2> DEFINE m == index(p)
             n == index(q)
  <2>1. m \in Nat /\ n \in Nat /\ m - 1 = n - 1
    BY <1>5
  <2> HIDE DEF m, n
  <2>2. m = n
    BY <2>1
  <2>3. QED
    BY <2>2 DEF m, n
<1>7. QED
  BY <1>5, <1>6

LEMMA LanesApart ==
  ASSUME TypeInv, PlanTypes, NEW e \in Links, NEW f \in Links, Owns(e), Owns(f),
         NEW i, NEW j, Lane(e, i) = Lane(f, j)
  PROVE  e = f /\ i = j
<1>1. /\ e[1] = f[1] /\ plan[e[1]].slot[e[2]] = plan[f[1]].slot[f[2]] /\ e[3] = f[3] /\ i = j
  BY DEF Lane
<1>2. /\ e[1] \in Ranks(d) /\ e[2] \in PeersOf(d, e[1]) /\ f[2] \in PeersOf(d, e[1])
      /\ e = <<e[1], e[2], e[3]>> /\ f = <<f[1], f[2], f[3]>>
  BY <1>1, LinkParts
<1>3. PayloadSlot(d, e[1], e[2]) = PayloadSlot(d, e[1], f[2])
  <2>1. plan[e[1]].slot = [p \in PeersOf(d, e[1]) |-> PayloadSlot(d, e[1], p)]
    BY <1>2 DEF PlanTypes
  <2>2. /\ plan[e[1]].slot[e[2]] = PayloadSlot(d, e[1], e[2])
        /\ plan[e[1]].slot[f[2]] = PayloadSlot(d, e[1], f[2])
    BY <1>2, <2>1
  <2>3. plan[e[1]].slot[e[2]] = plan[e[1]].slot[f[2]]
    BY <1>1
  <2>4. QED
    BY <2>2, <2>3
<1>4. /\ e[1] \in d.senders \/ Network(d, e[1], e[2])
      /\ e[1] \in d.senders \/ Network(d, e[1], f[2])
  BY <1>1 DEF Owns, Sends, Gin
<1>5. e[2] = f[2]
  <2>1. d \in Deployments
    BY DEF TypeInv
  <2>2. QED
    BY <1>2, <1>3, <1>4, <2>1, SlotsApart
<1>6. QED
  BY <1>1, <1>2, <1>5

\* The lane of an end at a step of its FIFO.
LEMMA CopySlotIs ==
  ASSUME LaunchInv, StepsInOrder, StateTypes, EndsInv, NEW e \in Links,
         lead[e] = "copy"
  PROVE  /\ Owns(e) => CopySlot(e, slice[e]) = Lane(e, ToCopy(e) % Depth(e))
         /\ ~Owns(e) => CopySlot(e, slice[e]) = Lane(Back(e), ToCopy(e) % Depth(e))
<1>1. Serving(e)
  BY DEF EndsInv, EndInv, EndShape
<1>2. /\ WorkOf(e).depth = Depth(e) /\ WorkOf(e).first = StepsBefore(e, At(e)) + 1
      /\ StepsBefore(e, At(e)) \in Nat
  BY <1>1, WorkIs
<1>3. ToCopy(e) = StepsBefore(e, At(e)) + slice[e] /\ slice[e] \in Nat
  BY <1>1, Served, EndNumbers DEF LaunchInv
<1>4. StepAt(e, slice[e]) = ToCopy(e)
  BY <1>2, <1>3 DEF StepAt
<1>5. /\ Back(e)[1] = e[2] /\ Back(e)[2] = e[1] /\ Back(e)[3] = e[3] /\ e[1] # e[2]
  BY LinkParts DEF LaunchInv
<1>6. QED
  BY <1>2, <1>4, <1>5 DEF CopySlot, Payload, Lane, Owns

\* A rank and what it shares with its peer in a step of somebody else.
Framed(e) ==
  /\ d' = d /\ plan' = plan /\ DOMAIN host' = DOMAIN host
  /\ host'[e[1]] = host[e[1]] /\ host'[e[2]] = host[e[2]]
  /\ seq'[e[1]] = seq[e[1]] /\ seq'[e[2]] = seq[e[2]]
  /\ error[e[1]] => error'[e[1]]
  /\ error[e[2]] => error'[e[2]]

LEMMA KeptIsFramed ==
  ASSUME TypeInv, Kept, NEW e \in Links
  PROVE  Framed(e)
BY LinkParts DEF Kept, Framed

\* No lane of an end becomes unread.
NoneAdded(e) == \A i \in Index(e) : Lane(e, i) \in unread' => Lane(e, i) \in unread

LEMMA LanesAreKept ==
  ASSUME plan' = plan
  PROVE  \A e, i : Lane(e, i)' = Lane(e, i)
BY DEF Lane

\* What a copy and a put make unread, and take.
LEMMA CopiedLanes ==
  ASSUME LaunchInv, StepsInOrder, StateTypes, EndsInv, NEW x \in Links, CopyOut(x) \/ CopyIn(x),
         NEW e \in Links, Owns(e)
  PROVE  /\ (CopyIn(x) \/ e # x) => NoneAdded(e)
         /\ CopyOut(x) /\ e = x =>
              \A i \in Index(e) : Lane(e, i) \in unread' =>
                Lane(e, i) \in unread \/ i = ToCopy(e) % Depth(e)
         /\ CopyIn(x) /\ filled[x] /\ e = (IF Owns(x) THEN x ELSE Back(x)) =>
              Lane(e, ToCopy(x) % Depth(x)) \notin unread'
<1>1. lead[x] = "copy" /\ Back(x) \in Links /\ TypeInv /\ PlanTypes
  BY LinkParts DEF CopyOut, CopyIn, LaunchInv, StateTypes
<1>2. CASE CopyIn(x)
  <2>1. unread' = IF filled[x] THEN unread \ {CopySlot(x, slice[x])} ELSE unread
    BY <1>2 DEF CopyIn
  <2>2. ~CopyOut(x)
    BY <1>2 DEF CopyIn, CopyOut
  <2>3. QED
    BY <1>1, <2>1, <2>2, CopySlotIs DEF NoneAdded
<1>3. CASE CopyOut(x)
  <2>1. /\ unread' = IF filled[x] THEN unread \cup {CopySlot(x, slice[x])} ELSE unread
        /\ Sends(x[1])
    BY <1>3 DEF CopyOut
  <2>2. CopySlot(x, slice[x]) = Lane(x, ToCopy(x) % Depth(x)) /\ Owns(x)
    BY <1>1, <2>1, CopySlotIs DEF Owns
  <2>3. ASSUME NEW i \in Index(e), Lane(e, i) \in unread', Lane(e, i) \notin unread
        PROVE  e = x /\ i = ToCopy(x) % Depth(x)
    BY <1>1, <2>1, <2>2, <2>3, LanesApart
  <2>4. ~CopyIn(x)
    BY <1>3 DEF CopyIn, CopyOut
  <2>5. QED
    BY <2>3, <2>4 DEF NoneAdded
<1>4. QED
  BY <1>2, <1>3

LEMMA PutLanes ==
  ASSUME LaunchInv, StateTypes, NEW l \in Links, DeliverPut(l), Sends(l[1]), Gin(l),
         NEW step, Head(puts[l]) = [step |-> step, depth |-> Depth(l)],
         NEW e \in Links, Owns(e)
  PROVE  /\ e # Back(l) => NoneAdded(e)
         /\ e = l => Lane(e, step % Depth(l)) \notin unread'
         /\ e = Back(l) => \A i \in Index(e) : Lane(e, i) \in unread' =>
              Lane(e, i) \in unread \/ i = step % Depth(l)
<1>1. /\ Back(l) \in Links /\ Owns(l) /\ Owns(Back(l)) /\ l # Back(l) /\ TypeInv /\ PlanTypes
      /\ Back(l)[1] = l[2] /\ Back(l)[2] = l[1] /\ Back(l)[3] = l[3]
  BY LinkParts DEF LaunchInv, StateTypes, Owns
<1> DEFINE i == step % Depth(l)
<1>2. /\ Payload(l[1], l[2], l[3], Head(puts[l]).step, Head(puts[l]).depth) = Lane(l, i)
      /\ Payload(l[2], l[1], l[3], Head(puts[l]).step, Head(puts[l]).depth) = Lane(Back(l), i)
  BY <1>1 DEF Payload, Lane
<1>3. unread' = (unread \ {Lane(l, i)}) \cup {Lane(Back(l), i)}
  BY <1>2 DEF DeliverPut
<1> HIDE DEF i
<1>4. Lane(l, i) # Lane(Back(l), i)
  BY <1>1, LanesApart
<1>5. ASSUME NEW j, Lane(e, j) = Lane(Back(l), i) PROVE e = Back(l) /\ j = i
  BY <1>1, <1>5, LanesApart
<1>6. QED
  BY <1>3, <1>4, <1>5 DEF NoneAdded, i

-----------------------------------------------------------------------------
(***************************************************************************)
(* What all of the following starts from, and the numbers in it.           *)
(***************************************************************************)
Base == LaunchInv /\ StepsInOrder /\ StateTypes /\ EndsInv

Numbers(e) ==
  /\ ToCopy(e) \in Nat \ {0} /\ cache[e] \in Nat /\ Depth(e) \in Nat \ {0} /\ LastStep(e) \in Nat
  /\ readySignal[e] \in Nat /\ creditSignal[e] \in Nat
  /\ puts[e] \in Seq(Message) /\ Len(puts[e]) \in Nat
  /\ credits[e] \in Seq(Nat) /\ Total(credits[e]) \in Nat
  /\ ~error[e[1]] => ToPost(e) \in Nat /\ ToPost(e) <= ToCopy(e)
                       /\ Credited(e) \in Nat /\ Credited(e) < ToCopy(e)
  /\ Sends(e[1]) /\ ~Gin(e) =>
       \A i \in Index(e) : ready[Fifo(e, i)] \in Nat /\ consumed[Fifo(e, i)] \in Nat
NumbersInv == \A e \in Links : Numbers(e)

LEMMA NumbersHold == Base => NumbersInv
<1>1. SUFFICES ASSUME Base, NEW e \in Links PROVE Numbers(e)
  BY DEF NumbersInv
<1>2. EndShape(e) /\ EndPost(e) /\ LaunchInv /\ TypeInv /\ StepsInOrder /\ StateTypes
  BY <1>1 DEF Base, EndsInv, EndInv, LaunchInv
<1>3. /\ LastStep(e) \in Nat /\ ToCopy(e) \in Nat \ {0}
      /\ ~error[e[1]] => ToPost(e) \in Nat /\ ToPost(e) <= ToCopy(e)
                         /\ Credited(e) \in Nat /\ Credited(e) < ToCopy(e)
  BY <1>2, EndOrder
<1>4. cache[e] \in Nat /\ Depth(e) \in Nat \ {0}
  BY <1>2, EndNumbers, LinkParts
<1>5. /\ readySignal[e] \in Nat /\ creditSignal[e] \in Nat
      /\ puts[e] \in Seq(Message) /\ credits[e] \in Seq(Nat)
      /\ ready \in [Slots -> Nat] /\ consumed \in [Slots -> Nat]
  BY <1>2 DEF StateTypes, ShareTypes
<1>6. Len(puts[e]) \in Nat
  BY <1>5
<1>7. Total(credits[e]) \in Nat
  <2>1. 0 \in Nat
    OBVIOUS
  <2>2. QED
    BY <1>5, <2>1, TotalAppend
<1>8. Sends(e[1]) /\ ~Gin(e) =>
        \A i \in Index(e) : ready[Fifo(e, i)] \in Nat /\ consumed[Fifo(e, i)] \in Nat
  BY <1>2, <1>5, FifoIsSlot
<1>9. QED
  BY <1>3, <1>4, <1>5, <1>6, <1>7, <1>8 DEF Numbers

LEMMA NumbersHoldNext == Base' => NumbersInv'
BY NumbersHold, PTL

-----------------------------------------------------------------------------
(***************************************************************************)
(* A stream over the window of the sender: what the two ends write and     *)
(* what a slot that nobody has taken yet holds.                            *)
(***************************************************************************)
Runs(r)   == host[r] = "kernel" /\ ~error[r]
Begins(r) == host[r] \in {"barrier", "kernel"}

\* Both words of a slot are of steps the sender has copied.
NearWords(e) ==
  Begins(e[1]) => \A i \in Index(e) :
    ready[Fifo(e, i)] < ToCopy(e) /\ consumed[Fifo(e, i)] < ToCopy(e)

\* Neither end has seen, nor has a running receiver passed, a step that the
\* sender has yet to copy.
NearCaches(e) ==
  /\ lead[e] # "out" => cache[e] < ToCopy(e)
  /\ Begins(e[1]) => /\ Runs(e[2]) => ToCopy(Back(e)) <= ToCopy(e)
                     /\ lead[Back(e)] # "out" => cache[Back(e)] < ToCopy(e)

\* What nobody has taken is of a copied step that nobody has called consumed.
NearLanes(e) ==
  host[e[1]] # "threw" => \A i \in Index(e) : Lane(e, i) \in unread =>
    \E t \in 1 .. ToCopy(e) - 1 :
      /\ t % Depth(e) = i /\ cache[e] < t
      /\ \A j \in Index(e) : consumed[Fifo(e, j)] < t
      /\ Runs(e[2]) => ToCopy(Back(e)) <= t

NearInv(e) == NearWords(e) /\ NearCaches(e) /\ NearLanes(e)
Near(e)    == Sends(e[1]) /\ ~Gin(e)
NearsInv   == \A e \in Links : Near(e) => NearInv(e)

\* What a step of an end or the network leaves alone.
LEMMA SameEnds ==
  ASSUME d' = d, plan' = plan, DOMAIN host' = DOMAIN host
  PROVE  /\ Links' = Links
         /\ \A e : /\ Index(e)' = Index(e) /\ Depth(e)' = Depth(e)
                   /\ (Near(e)' <=> Near(e)) /\ (Gin(e)' <=> Gin(e))
                   /\ (Sends(e[1])' <=> Sends(e[1])) /\ (Owns(e)' <=> Owns(e))
                   /\ Back(e)' = Back(e)
                   /\ \A i : Fifo(e, i)' = Fifo(e, i) /\ Lane(e, i)' = Lane(e, i)
<1>1. /\ Links' = Links
      /\ \A e : Depth(e)' = Depth(e) /\ (Gin(e)' <=> Gin(e))
      /\ \A r : Sends(r)' <=> Sends(r)
  BY PlanIsKept
<1>2. \A e : /\ (Near(e)' <=> Near(e)) /\ (Owns(e)' <=> Owns(e)) /\ Index(e)' = Index(e)
             /\ (Sends(e[1])' <=> Sends(e[1]))
  BY <1>1 DEF Near, Owns, Index
<1>3. \A e : /\ Back(e)' = Back(e)
             /\ \A i : Fifo(e, i)' = Fifo(e, i) /\ Lane(e, i)' = Lane(e, i)
  BY LanesAreKept DEF Back, Fifo
<1>4. QED
  BY <1>1, <1>2, <1>3

LEMMA NearKept ==
  ASSUME Base, Base', NEW e \in Links, Near(e), NearInv(e), Framed(e),
         Steady(e), Loads(e), Steady(Back(e)), Loads(Back(e)), NoneAdded(e),
         \A i \in Index(e) : /\ ready'[Fifo(e, i)] = ready[Fifo(e, i)]
                             /\ consumed'[Fifo(e, i)] = consumed[Fifo(e, i)]
  PROVE  NearInv(e)'
<1> DEFINE b == Back(e)
<1>1. /\ b \in Links /\ b[1] = e[2] /\ b[2] = e[1] /\ Back(b) = e /\ TypeInv
      /\ ~Sends(b[1]) /\ ~Gin(b) /\ Sends(e[1]) /\ ~Gin(e) /\ Depth(b) = Depth(e)
  BY LinkParts DEF Base, LaunchInv, Near
<1>2. /\ Links' = Links /\ Index(e)' = Index(e) /\ Depth(e)' = Depth(e) /\ Back(e)' = b
      /\ (Sends(e[1])' /\ ~Gin(e)')
      /\ \A i : Fifo(e, i)' = Fifo(e, i) /\ Lane(e, i)' = Lane(e, i)
  BY <1>1, SameEnds DEF Framed
<1>3. /\ ToCopy(e) \in Nat \ {0} /\ ToCopy(b) \in Nat \ {0} /\ cache[e] \in Nat /\ cache[b] \in Nat
      /\ \A i \in Index(e) : ready[Fifo(e, i)] \in Nat /\ consumed[Fifo(e, i)] \in Nat
  BY <1>1, NumbersHold DEF NumbersInv, Numbers
<1>4. ToCopy(e)' \in Nat \ {0} /\ ToCopy(b)' \in Nat \ {0} /\ cache'[e] \in Nat /\ cache'[b] \in Nat
  BY <1>1, <1>2, NumbersHoldNext DEF NumbersInv, Numbers
<1>5. /\ ToCopy(e) <= ToCopy(e)'
      /\ ~error'[e[2]] => ToCopy(b)' = ToCopy(b)
  BY <1>1 DEF Steady
<1>6. /\ Begins(e[1])' <=> Begins(e[1])
      /\ Runs(e[2])' => Runs(e[2]) /\ ToCopy(b)' = ToCopy(b)
  BY <1>5 DEF Begins, Runs, Framed
<1>7. Serving(e) => Begins(e[1]) /\ \E i \in Index(e) : Awaited(e).read = consumed[Fifo(e, i)]
  BY <1>1, Served, AwaitedIs DEF Base, Begins
<1>8. Serving(b) => \E i \in Index(e) : Awaited(b).read = ready[Fifo(e, i)]
  BY <1>1, AwaitedIs DEF Base, Index
<1>9. NearWords(e)'
  <2>1. ASSUME Begins(e[1]), NEW i \in Index(e)
        PROVE  ready'[Fifo(e, i)] < ToCopy(e)' /\ consumed'[Fifo(e, i)] < ToCopy(e)'
    <3>1. ready[Fifo(e, i)] < ToCopy(e) /\ consumed[Fifo(e, i)] < ToCopy(e)
      BY <2>1 DEF NearInv, NearWords
    <3>2. QED
      BY <1>3, <1>4, <1>5, <3>1
  <2>2. QED
    BY <1>2, <1>6, <2>1 DEF NearWords
<1>10. NearCaches(e)'
  <2>1. ASSUME lead'[e] # "out" PROVE cache'[e] < ToCopy(e)'
    <3>1. CASE cache'[e] = 0
      BY <1>4, <3>1
    <3>2. CASE cache'[e] = cache[e] /\ lead[e] # "out"
      BY <1>3, <1>4, <1>5, <3>2 DEF NearInv, NearCaches
    <3>3. CASE cache'[e] = Awaited(e).read /\ Serving(e)
      BY <1>3, <1>4, <1>5, <1>7, <3>3 DEF NearInv, NearWords
    <3>4. QED
      BY <2>1, <3>1, <3>2, <3>3 DEF Loads
  <2>2. ASSUME Begins(e[1]), Runs(e[2])' PROVE ToCopy(b)' <= ToCopy(e)'
    BY <1>3, <1>4, <1>5, <1>6, <2>2 DEF NearInv, NearCaches
  <2>3. ASSUME Begins(e[1]), lead'[b] # "out" PROVE cache'[b] < ToCopy(e)'
    <3>1. CASE cache'[b] = 0
      BY <1>4, <3>1
    <3>2. CASE cache'[b] = cache[b] /\ lead[b] # "out"
      BY <1>3, <1>4, <1>5, <2>3, <3>2 DEF NearInv, NearCaches
    <3>3. CASE cache'[b] = Awaited(b).read /\ Serving(b)
      BY <1>3, <1>4, <1>5, <1>8, <2>3, <3>3 DEF NearInv, NearWords
    <3>4. QED
      BY <2>3, <3>1, <3>2, <3>3 DEF Loads
  <2>4. QED
    BY <1>2, <1>6, <2>1, <2>2, <2>3 DEF NearCaches
<1>11. NearLanes(e)'
  <2>1. ASSUME host[e[1]] # "threw", NEW i \in Index(e), Lane(e, i) \in unread'
        PROVE  \E t \in 1 .. ToCopy(e)' - 1 :
                 /\ t % Depth(e) = i /\ cache'[e] < t
                 /\ \A j \in Index(e) : consumed'[Fifo(e, j)] < t
                 /\ Runs(e[2])' => ToCopy(b)' <= t
    <3>1. PICK t \in 1 .. ToCopy(e) - 1 :
            /\ t % Depth(e) = i /\ cache[e] < t
            /\ \A j \in Index(e) : consumed[Fifo(e, j)] < t
            /\ Runs(e[2]) => ToCopy(Back(e)) <= t
      BY <2>1 DEF NearInv, NearLanes, NoneAdded
    <3>2. t \in 1 .. ToCopy(e)' - 1
      BY <1>3, <1>4, <1>5, <3>1
    <3>3. cache'[e] < t
      <4>1. CASE cache'[e] = 0
        BY <3>1, <4>1
      <4>2. CASE cache'[e] = cache[e]
        BY <3>1, <4>2
      <4>3. CASE cache'[e] = Awaited(e).read /\ Serving(e)
        BY <1>7, <3>1, <4>3
      <4>4. QED
        BY <4>1, <4>2, <4>3 DEF Loads
    <3>4. QED
      BY <1>6, <3>1, <3>2, <3>3
  <2>2. host'[e[1]] = host[e[1]]
    BY DEF Framed
  <2>3. QED
    BY <1>2, <2>1, <2>2 DEF NearLanes
<1>12. QED
  BY <1>9, <1>10, <1>11 DEF NearInv

\* An end of such a stream and its peer's, before and after a step.
LEMMA NearFacts ==
  ASSUME Base, Base', NEW e \in Links, Near(e), d' = d, plan' = plan, DOMAIN host' = DOMAIN host
  PROVE  /\ Back(e) \in Links /\ Back(e)[1] = e[2] /\ Back(e)[2] = e[1] /\ Back(Back(e)) = e
         /\ e[1] \in Ranks(d) /\ e[2] \in Ranks(d) /\ e[1] # e[2] /\ e # Back(e)
         /\ ~Sends(e[2]) /\ ~Gin(Back(e)) /\ Sends(e[1]) /\ ~Gin(e) /\ Depth(Back(e)) = Depth(e)
         /\ Owns(e) /\ ~Owns(Back(e)) /\ Index(Back(e)) = Index(e)
         /\ TypeInv /\ EndInv(e) /\ EndInv(Back(e))
         /\ Links' = Links /\ Index(e)' = Index(e) /\ Depth(e)' = Depth(e) /\ Back(e)' = Back(e)
         /\ Sends(e[1])' /\ ~Gin(e)'
         /\ \A i : Fifo(e, i)' = Fifo(e, i) /\ Lane(e, i)' = Lane(e, i)
         /\ ToCopy(e) \in Nat \ {0} /\ ToCopy(Back(e)) \in Nat \ {0} /\ cache[e] \in Nat /\ cache[Back(e)] \in Nat
         /\ \A i \in Index(e) : ready[Fifo(e, i)] \in Nat /\ consumed[Fifo(e, i)] \in Nat
         /\ ToCopy(e)' \in Nat \ {0} /\ ToCopy(Back(e))' \in Nat \ {0}
         /\ cache'[e] \in Nat /\ cache'[Back(e)] \in Nat
<1> DEFINE b == Back(e)
<1>1. TypeInv /\ b \in Links
  BY LinkParts DEF Base, LaunchInv
<1>2. /\ b[1] = e[2] /\ b[2] = e[1] /\ Back(b) = e
      /\ e[1] \in Ranks(d) /\ e[2] \in Ranks(d) /\ e[1] # e[2]
      /\ ~Sends(e[2]) /\ ~Gin(b) /\ Sends(e[1]) /\ ~Gin(e) /\ Depth(b) = Depth(e)
  BY <1>1, LinkParts DEF Near
<1>3. Owns(e) /\ ~Owns(b) /\ Index(b) = Index(e) /\ EndInv(e) /\ EndInv(b)
  BY <1>1, <1>2 DEF Owns, Index, Base, EndsInv
<1>4. /\ Links' = Links /\ Index(e)' = Index(e) /\ Depth(e)' = Depth(e) /\ Back(e)' = b
      /\ Sends(e[1])' /\ ~Gin(e)'
      /\ \A i : Fifo(e, i)' = Fifo(e, i) /\ Lane(e, i)' = Lane(e, i)
  BY <1>2, SameEnds
<1>5. /\ ToCopy(e) \in Nat \ {0} /\ ToCopy(b) \in Nat \ {0} /\ cache[e] \in Nat /\ cache[b] \in Nat
      /\ \A i \in Index(e) : ready[Fifo(e, i)] \in Nat /\ consumed[Fifo(e, i)] \in Nat
  BY <1>1, <1>2, NumbersHold DEF NumbersInv, Numbers
<1>6. ToCopy(e)' \in Nat \ {0} /\ ToCopy(b)' \in Nat \ {0} /\ cache'[e] \in Nat /\ cache'[b] \in Nat
  BY <1>1, <1>4, NumbersHoldNext DEF NumbersInv, Numbers
<1>7. QED
  BY <1>1, <1>2, <1>3, <1>4, <1>5, <1>6

LEMMA NearCopyOut ==
  ASSUME Base, Base', NEW e \in Links, Near(e), NearInv(e), CopyOut(e)
  PROVE  NearInv(e)'
<1> DEFINE b == Back(e)
<1>1. Kept /\ Still(b) /\ fifo' = fifo
  <2>1. ThreadStep(e) /\ b \in Links /\ b # e
    BY LinkParts DEF ThreadStep, Base, LaunchInv
  <2>2. QED
    BY <2>1, ThreadFrame, OtherEnds DEF Base, LaunchInv, CopyOut
<1>2. d' = d /\ plan' = plan /\ host' = host /\ seq' = seq
  BY <1>1 DEF Kept
<1>3. /\ host[e[1]] = "kernel" /\ ToCopy(e)' = ToCopy(e) + 1 /\ lead[e] = "copy"
      /\ cache' = cache /\ error' = error
  BY CopySteps DEF Base, EndsInv
<1>4. ready' = ready /\ consumed' = consumed /\ lead'[b] = lead[b] /\ ToCopy(b)' = ToCopy(b)
  BY <1>1 DEF fifo, Still
<1>5. /\ b \in Links /\ b[1] = e[2] /\ Owns(e)
      /\ Links' = Links /\ Index(e)' = Index(e) /\ Depth(e)' = Depth(e) /\ Back(e)' = b
      /\ \A i : Fifo(e, i)' = Fifo(e, i) /\ Lane(e, i)' = Lane(e, i)
      /\ ToCopy(e) \in Nat \ {0} /\ ToCopy(b) \in Nat \ {0} /\ cache[e] \in Nat /\ cache[b] \in Nat
      /\ \A i \in Index(e) : ready[Fifo(e, i)] \in Nat /\ consumed[Fifo(e, i)] \in Nat
  BY <1>2, NearFacts
<1>6. /\ Begins(e[1]) /\ host[e[1]] # "threw"
      /\ Begins(e[1])' /\ (Runs(e[2])' <=> Runs(e[2]))
  BY <1>2, <1>3 DEF Begins, Runs
<1>7. /\ \A i \in Index(e) : ready[Fifo(e, i)] < ToCopy(e) /\ consumed[Fifo(e, i)] < ToCopy(e)
      /\ cache[e] < ToCopy(e) /\ (Runs(e[2]) => ToCopy(b) <= ToCopy(e))
      /\ lead[b] # "out" => cache[b] < ToCopy(e)
  BY <1>3, <1>6 DEF NearInv, NearWords, NearCaches
<1>8. NearWords(e)'
  BY <1>3, <1>4, <1>5, <1>7 DEF NearWords
<1>9. NearCaches(e)'
  BY <1>3, <1>4, <1>5, <1>6, <1>7 DEF NearCaches
<1>10. NearLanes(e)'
  <2>1. ASSUME NEW i \in Index(e), Lane(e, i) \in unread'
        PROVE  \E t \in 1 .. ToCopy(e)' - 1 :
                 /\ t % Depth(e) = i /\ cache'[e] < t
                 /\ \A j \in Index(e) : consumed'[Fifo(e, j)] < t
                 /\ Runs(e[2])' => ToCopy(b)' <= t
    <3>1. Lane(e, i) \in unread \/ i = ToCopy(e) % Depth(e)
      BY <1>5, <2>1, CopiedLanes DEF Base
    <3>2. CASE Lane(e, i) \in unread
      <4>1. PICK t \in 1 .. ToCopy(e) - 1 :
              /\ t % Depth(e) = i /\ cache[e] < t
              /\ \A j \in Index(e) : consumed[Fifo(e, j)] < t
              /\ Runs(e[2]) => ToCopy(Back(e)) <= t
        BY <1>6, <3>2 DEF NearInv, NearLanes
      <4>2. t \in 1 .. ToCopy(e)' - 1
        BY <1>3, <1>5, <4>1
      <4>3. QED
        BY <1>3, <1>4, <1>6, <4>1, <4>2
    <3>3. CASE i = ToCopy(e) % Depth(e)
      <4>1. ToCopy(e) \in 1 .. ToCopy(e)' - 1
        BY <1>3, <1>5
      <4>2. QED
        BY <1>3, <1>4, <1>6, <1>7, <3>3, <4>1
    <3>4. QED
      BY <3>1, <3>2, <3>3
  <2>2. QED
    BY <1>5, <2>1 DEF NearLanes
<1>11. QED
  BY <1>8, <1>9, <1>10 DEF NearInv

LEMMA NearCopyIn ==
  ASSUME Base, Base', NEW e \in Links, Near(e), NearInv(e), CopyIn(Back(e))
  PROVE  NearInv(e)'
<1> DEFINE b == Back(e)
<1>1. b \in Links /\ b # e /\ b[1] = e[2] /\ TypeInv
  BY LinkParts DEF Base, LaunchInv
<1>2. Kept /\ Still(e) /\ fifo' = fifo
  <2>1. ThreadStep(b)
    BY DEF ThreadStep
  <2>2. QED
    BY <1>1, <2>1, ThreadFrame, OtherEnds DEF Base, CopyIn
<1>3. d' = d /\ plan' = plan /\ host' = host /\ seq' = seq
  BY <1>2 DEF Kept
<1>4. /\ host[e[2]] = "kernel" /\ ToCopy(b)' = ToCopy(b) + 1 /\ lead[b] = "copy"
      /\ cache' = cache /\ error' = error
  BY <1>1, CopySteps DEF Base, EndsInv
<1>5. ready' = ready /\ consumed' = consumed /\ lead'[e] = lead[e] /\ ToCopy(e)' = ToCopy(e)
  BY <1>2 DEF fifo, Still
<1>6. /\ Owns(e) /\ ~Owns(b) /\ ~Sends(e[2]) /\ ~Gin(b) /\ Depth(b) = Depth(e) /\ Back(b) = e /\ EndInv(b)
      /\ Links' = Links /\ Index(e)' = Index(e) /\ Depth(e)' = Depth(e) /\ Back(e)' = b
      /\ \A i : Fifo(e, i)' = Fifo(e, i) /\ Lane(e, i)' = Lane(e, i)
      /\ ToCopy(e) \in Nat \ {0} /\ ToCopy(b) \in Nat \ {0} /\ cache[e] \in Nat /\ cache[b] \in Nat
      /\ \A i \in Index(e) : ready[Fifo(e, i)] \in Nat /\ consumed[Fifo(e, i)] \in Nat
  BY <1>3, NearFacts
<1>7. (Begins(e[1])' <=> Begins(e[1])) /\ (Runs(e[2])' <=> Runs(e[2]))
  BY <1>3, <1>4 DEF Begins, Runs
<1>8. Runs(e[2]) => filled[b] /\ ToCopy(b) <= cache[b]
  BY <1>1, <1>4, <1>6 DEF Runs, EndInv, EndShape, EndCopy, Known, Room
<1>9. NearWords(e)'
  BY <1>5, <1>6, <1>7 DEF NearInv, NearWords
<1>10. NearCaches(e)'
  <2>1. Begins(e[1]) => cache[b] < ToCopy(e)
    BY <1>4 DEF NearInv, NearCaches
  <2>2. Begins(e[1]) /\ Runs(e[2]) => ToCopy(b)' <= ToCopy(e)
    BY <1>4, <1>6, <1>8, <2>1
  <2>3. QED
    BY <1>4, <1>5, <1>6, <1>7, <2>1, <2>2 DEF NearInv, NearCaches
<1>11. NearLanes(e)'
  <2>1. ASSUME host[e[1]] # "threw", NEW i \in Index(e), Lane(e, i) \in unread'
        PROVE  \E t \in 1 .. ToCopy(e)' - 1 :
                 /\ t % Depth(e) = i /\ cache'[e] < t
                 /\ \A j \in Index(e) : consumed'[Fifo(e, j)] < t
                 /\ Runs(e[2])' => ToCopy(b)' <= t
    <3>1. Lane(e, i) \in unread
      BY <1>1, <1>6, <2>1, CopiedLanes DEF Base, NoneAdded
    <3>2. PICK t \in 1 .. ToCopy(e) - 1 :
            /\ t % Depth(e) = i /\ cache[e] < t
            /\ \A j \in Index(e) : consumed[Fifo(e, j)] < t
            /\ Runs(e[2]) => ToCopy(Back(e)) <= t
      BY <2>1, <3>1 DEF NearInv, NearLanes
    <3>3. ASSUME Runs(e[2]) PROVE ToCopy(b)' <= t
      <4>1. Lane(e, ToCopy(b) % Depth(b)) \notin unread'
        BY <1>1, <1>6, <1>8, <3>3, CopiedLanes DEF Base
      <4>2. t # ToCopy(b)
        BY <1>6, <2>1, <3>2, <4>1
      <4>3. QED
        BY <1>4, <1>6, <3>2, <3>3, <4>2
    <3>4. QED
      BY <1>4, <1>5, <1>7, <3>2, <3>3
  <2>2. QED
    BY <1>3, <1>6, <2>1 DEF NearLanes
<1>12. QED
  BY <1>9, <1>10, <1>11 DEF NearInv

LEMMA NearCopies ==
  ASSUME Base, Base', NEW x \in Links, CopyOut(x) \/ CopyIn(x),
         NEW e \in Links, Near(e), NearInv(e)
  PROVE  NearInv(e)'
<1>1. TypeInv /\ Back(e) \in Links
  BY LinkParts DEF Base, LaunchInv
<1>2. ThreadStep(x) /\ Kept /\ fifo' = fifo
  BY <1>1, ThreadFrame DEF Base, ThreadStep, CopyOut, CopyIn
<1>3. /\ Sends(e[1]) /\ ~Sends(e[2]) /\ Owns(e) /\ Back(e)[1] = e[2]
  BY <1>1, LinkParts DEF Near, Owns
<1>4. CASE x = e
  BY <1>3, <1>4, NearCopyOut DEF CopyIn
<1>5. CASE x = Back(e)
  BY <1>3, <1>5, NearCopyIn DEF CopyOut
<1>6. CASE x # e /\ x # Back(e)
  <2>1. Still(e) /\ Still(Back(e))
    BY <1>1, <1>2, <1>6, OtherEnds DEF Base
  <2>2. ToCopy(e) \in Nat /\ ToCopy(Back(e)) \in Nat
    BY <1>1, NumbersHold DEF NumbersInv, Numbers
  <2>3. Steady(e) /\ Loads(e) /\ Steady(Back(e)) /\ Loads(Back(e))
    BY <1>1, <2>1, <2>2, StillIsSteady
  <2>4. NoneAdded(e)
    BY <1>3, <1>6, CopiedLanes DEF Base
  <2>5. Framed(e) /\ ready' = ready /\ consumed' = consumed
    BY <1>1, <1>2, KeptIsFramed DEF fifo
  <2>6. QED
    BY <2>3, <2>4, <2>5, NearKept
<1>7. QED
  BY <1>4, <1>5, <1>6

\* What the last thread publishes in a FIFO's slots, if anything.
LEMMA NearPublished ==
  ASSUME Base, NEW x \in Links, Post(x)
  PROVE  LET step == StepsBefore(x, At(x)) + PostSlice(x)
         IN  /\ Kept /\ (error[x[1]] => Steady(x))
             /\ ToCopy(x)' = ToCopy(x) /\ EndInv(x)' /\ cache' = cache /\ lead' = lead
             /\ error' = error /\ host[x[1]] = "kernel" /\ unread' = unread
             /\ error[x[1]] \/ Gin(x) => ready' = ready /\ consumed' = consumed
             /\ ~error[x[1]] => step < ToCopy(x) /\ step \in Nat /\ ToPost(x) = step
             /\ ~error[x[1]] /\ ~Gin(x) /\ Sends(x[1]) =>
                  /\ consumed' = consumed
                  /\ step % Depth(x) \in Index(x) /\ Fifo(x, step % Depth(x)) \in Slots
                  /\ ready' = [ready EXCEPT ![Fifo(x, step % Depth(x))] = step]
             /\ ~error[x[1]] /\ ~Gin(x) /\ ~Sends(x[1]) =>
                  /\ ready' = ready
                  /\ step % Depth(x) \in Index(Back(x)) /\ Fifo(Back(x), step % Depth(x)) \in Slots
                  /\ consumed' = [consumed EXCEPT ![Fifo(Back(x), step % Depth(x))] = step]
<1> DEFINE step == StepsBefore(x, At(x)) + PostSlice(x)
<1>1. LaunchInv /\ StepsInOrder /\ StateTypes /\ EndInv(x) /\ TypeInv
  BY DEF Base, EndsInv, LaunchInv
<1>2. /\ EndInv(x)' /\ Serving(x) /\ host[x[1]] = "kernel"
      /\ ToCopy(x)' = ToCopy(x) /\ cache' = cache /\ lead' = lead /\ error' = error
      /\ ~error[x[1]] => PostSlice(x) >= 1 /\ Publish(x, PostSlice(x)) /\ ToPost(x) = step /\ step < ToCopy(x)
      /\ error[x[1]] => UNCHANGED <<fifo, puts, credits>>
  BY <1>1, PostSteps
<1>3. unread' = unread
  BY DEF Post, memory
<1>4. Kept
  BY <1>1, ThreadFrame DEF ThreadStep
<1>5. ToCopy(x) \in Nat
  BY NumbersHold DEF NumbersInv, Numbers
<1>6. error[x[1]] => Steady(x)
  BY <1>2, <1>5 DEF Steady
<1>7. ASSUME ~error[x[1]]
      PROVE  /\ step \in Nat
             /\ Gin(x) => ready' = ready /\ consumed' = consumed
             /\ ~Gin(x) /\ Sends(x[1]) =>
                  /\ consumed' = consumed
                  /\ step % Depth(x) \in Index(x) /\ Fifo(x, step % Depth(x)) \in Slots
                  /\ ready' = [ready EXCEPT ![Fifo(x, step % Depth(x))] = step]
             /\ ~Gin(x) /\ ~Sends(x[1]) =>
                  /\ ready' = ready
                  /\ step % Depth(x) \in Index(Back(x)) /\ Fifo(Back(x), step % Depth(x)) \in Slots
                  /\ consumed' = [consumed EXCEPT ![Fifo(Back(x), step % Depth(x))] = step]
  BY <1>1, <1>2, <1>7, PublishIs DEF fifo
<1> HIDE DEF step
<1>8. error[x[1]] => ready' = ready /\ consumed' = consumed
  BY <1>2 DEF fifo
<1>9. QED
  BY <1>2, <1>3, <1>4, <1>6, <1>7, <1>8 DEF step

LEMMA SlotsOfOthers ==
  ASSUME TypeInv, NEW e \in Links, NEW x \in Links, NEW i, NEW j, Fifo(e, i) = Fifo(x, j)
  PROVE  e = x /\ i = j
<1>1. e = <<e[1], e[2], e[3]>> /\ x = <<x[1], x[2], x[3]>>
  BY LinkParts
<1>2. e[1] = x[1] /\ e[2] = x[2] /\ e[3] = x[3] /\ i = j
  BY DEF Fifo
<1>3. QED
  BY <1>1, <1>2

LEMMA NearPostOut ==
  ASSUME Base, Base', NEW e \in Links, Near(e), NearInv(e), Post(e), ~error[e[1]]
  PROVE  NearInv(e)'
<1> DEFINE b == Back(e)
           step == StepsBefore(e, At(e)) + PostSlice(e)
           k == step % Depth(e)
<1>1. /\ Kept /\ ToCopy(e)' = ToCopy(e) /\ cache' = cache /\ lead' = lead
      /\ error' = error /\ host[e[1]] = "kernel" /\ unread' = unread
      /\ step < ToCopy(e) /\ step \in Nat /\ consumed' = consumed
      /\ Fifo(e, k) \in Slots /\ ready' = [ready EXCEPT ![Fifo(e, k)] = step]
  BY NearPublished DEF Near
<1> HIDE DEF step, k
<1>2. d' = d /\ plan' = plan /\ host' = host /\ seq' = seq
  BY <1>1 DEF Kept
<1>3. /\ TypeInv /\ b \in Links /\ b # e
      /\ Links' = Links /\ Index(e)' = Index(e) /\ Depth(e)' = Depth(e) /\ Back(e)' = b
      /\ \A i : Fifo(e, i)' = Fifo(e, i) /\ Lane(e, i)' = Lane(e, i)
  BY <1>2, NearFacts
<1>4. ToCopy(b)' = ToCopy(b)
  BY <1>3, OtherEnds DEF Base, ThreadStep, Still
<1>5. /\ Begins(e[1])' <=> Begins(e[1])
      /\ Runs(e[2])' <=> Runs(e[2])
  BY <1>1, <1>2 DEF Begins, Runs
<1>6. ready \in [Slots -> Nat]
  BY DEF Base, StateTypes, ShareTypes
<1>7. \A i \in Index(e) : ready'[Fifo(e, i)] \in {ready[Fifo(e, i)], step}
  <2>1. ASSUME NEW i \in Index(e) PROVE Fifo(e, i) \in DOMAIN ready
    BY <1>3, <1>6, FifoIsSlot DEF Near
  <2>2. QED
    BY <1>1, <2>1
<1>8. NearWords(e)'
  BY <1>1, <1>3, <1>5, <1>7 DEF NearInv, NearWords
<1>9. NearCaches(e)'
  BY <1>1, <1>3, <1>4, <1>5 DEF NearInv, NearCaches
<1>10. NearLanes(e)'
  BY <1>1, <1>2, <1>3, <1>4, <1>5 DEF NearInv, NearLanes
<1>11. QED
  BY <1>8, <1>9, <1>10 DEF NearInv

LEMMA NearPostIn ==
  ASSUME Base, Base', NEW e \in Links, Near(e), NearInv(e), Post(Back(e)), ~error[e[2]]
  PROVE  NearInv(e)'
<1> DEFINE b == Back(e)
           step == StepsBefore(b, At(b)) + PostSlice(b)
           k == step % Depth(b)
<1>1. TypeInv /\ b \in Links /\ b # e /\ Back(b) = e /\ b[1] = e[2] /\ ~Sends(b[1]) /\ ~Gin(b)
  BY LinkParts DEF Base, LaunchInv, Near
<1>2. /\ Kept /\ ToCopy(b)' = ToCopy(b) /\ cache' = cache /\ lead' = lead
      /\ error' = error /\ host[e[2]] = "kernel" /\ unread' = unread
      /\ step < ToCopy(b) /\ step \in Nat /\ ready' = ready
      /\ Fifo(e, k) \in Slots /\ consumed' = [consumed EXCEPT ![Fifo(e, k)] = step]
  BY <1>1, NearPublished
<1> HIDE DEF step, k
<1>3. d' = d /\ plan' = plan /\ host' = host /\ seq' = seq
  BY <1>2 DEF Kept
<1>4. /\ Links' = Links /\ Index(e)' = Index(e) /\ Depth(e)' = Depth(e) /\ Back(e)' = b
      /\ \A i : Fifo(e, i)' = Fifo(e, i) /\ Lane(e, i)' = Lane(e, i)
      /\ ToCopy(e) \in Nat \ {0} /\ ToCopy(b) \in Nat \ {0}
  BY <1>3, NearFacts
<1>5. ToCopy(e)' = ToCopy(e)
  BY <1>1, OtherEnds DEF Base, ThreadStep, Still
<1>6. /\ Begins(e[1])' <=> Begins(e[1])
      /\ Runs(e[2])' /\ Runs(e[2])
  BY <1>2, <1>3 DEF Begins, Runs
<1>7. consumed \in [Slots -> Nat]
  BY DEF Base, StateTypes, ShareTypes
<1>8. \A i \in Index(e) : consumed'[Fifo(e, i)] \in {consumed[Fifo(e, i)], step}
  <2>1. ASSUME NEW i \in Index(e) PROVE Fifo(e, i) \in DOMAIN consumed
    BY <1>1, <1>7, FifoIsSlot DEF Near
  <2>2. QED
    BY <1>2, <2>1
<1>9. NearWords(e)'
  <2>1. Begins(e[1]) => step < ToCopy(e)
    BY <1>2, <1>4, <1>6 DEF NearInv, NearCaches
  <2>2. QED
    BY <1>2, <1>4, <1>5, <1>6, <1>8, <2>1 DEF NearInv, NearWords
<1>10. NearCaches(e)'
  BY <1>2, <1>4, <1>5, <1>6 DEF NearInv, NearCaches
<1>11. NearLanes(e)'
  <2>1. ASSUME host[e[1]] # "threw", NEW i \in Index(e), Lane(e, i) \in unread
        PROVE  \E t \in 1 .. ToCopy(e) - 1 :
                 /\ t % Depth(e) = i /\ cache[e] < t
                 /\ \A j \in Index(e) : consumed'[Fifo(e, j)] < t
                 /\ ToCopy(b) <= t
    <3>1. PICK t \in 1 .. ToCopy(e) - 1 :
            /\ t % Depth(e) = i /\ cache[e] < t
            /\ \A j \in Index(e) : consumed[Fifo(e, j)] < t
            /\ Runs(e[2]) => ToCopy(Back(e)) <= t
      BY <2>1 DEF NearInv, NearLanes
    <3>2. step < t
      BY <1>2, <1>4, <1>6, <3>1
    <3>3. QED
      BY <1>6, <1>8, <3>1, <3>2
  <2>2. QED
    BY <1>2, <1>3, <1>4, <1>5, <1>6, <2>1 DEF NearLanes
<1>12. QED
  BY <1>9, <1>10, <1>11 DEF NearInv

LEMMA NearPosts ==
  ASSUME Base, Base', NEW x \in Links, Post(x), NEW e \in Links, Near(e), NearInv(e)
  PROVE  NearInv(e)'
<1>1. TypeInv /\ Back(e) \in Links /\ Back(e)[1] = e[2] /\ Back(e) # e
  BY LinkParts DEF Base, LaunchInv
<1>2. ThreadStep(x) /\ Kept /\ unread' = unread
  BY <1>1, NearPublished DEF ThreadStep
<1>3. CASE x = e /\ ~error[e[1]]
  BY <1>3, NearPostOut
<1>4. CASE x = Back(e) /\ ~error[e[2]]
  BY <1>4, NearPostIn
<1>5. CASE (x = e => error[e[1]]) /\ (x = Back(e) => error[e[2]])
  <2>1. ToCopy(e) \in Nat /\ ToCopy(Back(e)) \in Nat
    BY <1>1, NumbersHold DEF NumbersInv, Numbers
  <2>2. ASSUME NEW f \in {e, Back(e)} PROVE Steady(f) /\ Loads(f)
    <3>1. CASE x = f
      <4>1. Steady(f)
        BY <1>1, <1>5, <3>1, NearPublished
      <4>2. Loads(f)
        BY <3>1, NearPublished DEF Loads
      <4>3. QED
        BY <4>1, <4>2
    <3>2. CASE x # f
      BY <1>1, <1>2, <2>1, <3>2, OtherEnds, StillIsSteady DEF Base
    <3>3. QED
      BY <3>1, <3>2
  <2>3. Steady(e) /\ Loads(e) /\ Steady(Back(e)) /\ Loads(Back(e))
    BY <2>2
  <2>4. ASSUME NEW i \in Index(e)
        PROVE  /\ ready'[Fifo(e, i)] = ready[Fifo(e, i)]
               /\ consumed'[Fifo(e, i)] = consumed[Fifo(e, i)]
    <3>1. CASE error[x[1]] \/ Gin(x)
      BY <3>1, NearPublished
    <3>2. CASE ~error[x[1]] /\ ~Gin(x) /\ Sends(x[1])
      <4>1. x # e
        BY <1>5, <3>2
      <4>2. \A j : Fifo(e, i) # Fifo(x, j)
        BY <1>1, <4>1, SlotsOfOthers
      <4>3. /\ consumed' = consumed
            /\ \E k, s : ready' = [ready EXCEPT ![Fifo(x, k)] = s]
        BY <3>2, NearPublished
      <4>4. PICK k, s : ready' = [ready EXCEPT ![Fifo(x, k)] = s]
        BY <4>3
      <4>5. Fifo(e, i) \in DOMAIN ready
        BY <1>1, FifoIsSlot DEF Near, Base, StateTypes, ShareTypes
      <4>6. QED
        BY <4>2, <4>3, <4>4, <4>5
    <3>3. CASE ~error[x[1]] /\ ~Gin(x) /\ ~Sends(x[1])
      <4>1. Back(x) # e /\ Back(x) \in Links
        <5>1. Back(Back(x)) = x /\ Back(x) \in Links
          BY <1>1, LinkParts
        <5>2. Back(x) = e => x = Back(e)
          BY <5>1
        <5>3. QED
          BY <1>1, <1>5, <3>3, <5>1, <5>2
      <4>2. \A j : Fifo(e, i) # Fifo(Back(x), j)
        BY <1>1, <4>1, SlotsOfOthers
      <4> DEFINE s == StepsBefore(x, At(x)) + PostSlice(x)
                 k == s % Depth(x)
      <4>3. ready' = ready /\ consumed' = [consumed EXCEPT ![Fifo(Back(x), k)] = s]
        BY <3>3, NearPublished
      <4> HIDE DEF s, k
      <4>4. Fifo(e, i) # Fifo(Back(x), k)
        BY <4>2
      <4>5. Fifo(e, i) \in DOMAIN consumed
        BY <1>1, FifoIsSlot DEF Near, Base, StateTypes, ShareTypes
      <4>6. QED
        BY <4>3, <4>4, <4>5
    <3>4. QED
      BY <3>1, <3>2, <3>3
  <2>5. Framed(e) /\ NoneAdded(e)
    BY <1>1, <1>2, KeptIsFramed DEF NoneAdded
  <2>6. QED
    BY <2>3, <2>4, <2>5, NearKept
<1>6. QED
  BY <1>3, <1>4, <1>5

\* A rank that has yet to clear its window has done so for nobody in a step.
LEMMA ResetIsAlone ==
  ASSUME LaunchInv, NEW r \in Ranks(d), NEW q \in Ranks(d), host[r] \in {"register", "reset"},
         host[q] \notin {"idle", "returned"}
  PROVE  ~Cleared(r, seq[q])
<1>1. seq[r] \in Nat /\ seq[q] \in Nat
  BY DEF LaunchInv, TypeInv
<1>2. seq[r] > 0 => Ended(q, seq[r] - 1)
  BY DEF LaunchInv, StepsInv
<1>3. QED
  BY <1>1, <1>2 DEF Cleared, Ended

\* The receiver of a sender that has yet to clear the window has not begun.
LEMMA ReceiverWaits ==
  ASSUME Base, BegunInv, NEW e \in Links, Near(e), host[e[1]] = "reset"
  PROVE  (Runs(e[2]) => ToCopy(Back(e)) = 1) /\ lead[Back(e)] = "out"
<1> DEFINE b == Back(e)
<1>1. /\ TypeInv /\ LaunchInv /\ b \in Links /\ b[1] = e[2] /\ b[2] = e[1] /\ ~Gin(b)
      /\ e[1] \in Ranks(d) /\ e[2] \in Ranks(d)
  BY LinkParts DEF Base, LaunchInv, Near
<1>2. ~(host[e[2]] = "kernel" /\ Cleared(e[1], seq[e[2]]))
  BY <1>1, ResetIsAlone
<1>3. ASSUME Runs(e[2]) PROVE ToCopy(b) = 1
  BY <1>1, <1>2, <1>3 DEF Runs, BegunInv
<1>4. lead[b] = "out"
  <2>1. lead[b] # "out" => Serving(b)
    BY <1>1 DEF Base, EndsInv, EndInv, EndShape
  <2>2. Serving(b) => host[e[2]] = "kernel" /\ Cleared(e[1], seq[e[2]])
    BY <1>1, Served, ServingIsCleared DEF Base, Serving
  <2>3. QED
    BY <1>2, <2>1, <2>2
<1>5. QED
  BY <1>3, <1>4

LEMMA NearHosts ==
  ASSUME Base, Base', BegunInv, NEW r \in Ranks(d), HostStep(r),
         NEW e \in Links, Near(e), NearInv(e)
  PROVE  NearInv(e)'
<1> DEFINE b == Back(e)
<1>1. /\ LaunchInv /\ StateTypes /\ StepsInOrder /\ EndsInv
      /\ host \in [Ranks(d) -> HostPlaces] /\ error \in [Ranks(d) -> BOOLEAN]
  BY DEF Base, LaunchInv, TypeInv
<1>2. /\ UNCHANGED <<d, plan, threads, unread>> /\ DOMAIN host' = DOMAIN host
      /\ \A q \in Ranks(d) \ {r} : host'[q] = host[q] /\ seq'[q] = seq[q] /\ error'[q] = error[q]
      /\ \A s \in Slots : s[1] # r => ready'[s] = ready[s] /\ consumed'[s] = consumed[s]
  BY <1>1, HostFrame
<1>3. /\ b \in Links /\ b[1] = e[2] /\ b[2] = e[1] /\ e[1] \in Ranks(d) /\ e[2] \in Ranks(d)
      /\ e[1] # e[2] /\ Sends(e[1]) /\ ~Gin(e) /\ EndInv(e) /\ TypeInv
      /\ Links' = Links /\ Index(e)' = Index(e) /\ Depth(e)' = Depth(e) /\ Back(e)' = b
      /\ \A i : Fifo(e, i)' = Fifo(e, i) /\ Lane(e, i)' = Lane(e, i)
      /\ ToCopy(e) \in Nat \ {0} /\ ToCopy(b) \in Nat \ {0} /\ cache[e] \in Nat /\ cache[b] \in Nat
  BY <1>2, NearFacts
<1>4. e[1] # r => \A i \in Index(e) : /\ ready'[Fifo(e, i)] = ready[Fifo(e, i)]
                                      /\ consumed'[Fifo(e, i)] = consumed[Fifo(e, i)]
  <2>1. ASSUME NEW i \in Index(e) PROVE Fifo(e, i) \in Slots /\ Fifo(e, i)[1] = e[1]
    BY <1>3, FifoIsSlot DEF Fifo
  <2>2. QED
    BY <1>2, <2>1
<1>5. cache' = cache /\ lead' = lead /\ unread' = unread
  BY <1>2 DEF threads
<1>6. CASE r # e[1] /\ r # e[2]
  <2>1. Still(e) /\ Still(b)
    BY <1>1, <1>3, <1>6, HostOthers
  <2>2. Steady(e) /\ Loads(e) /\ Steady(b) /\ Loads(b)
    BY <1>3, <2>1, StillIsSteady
  <2>3. Framed(e) /\ NoneAdded(e)
    BY <1>2, <1>3, <1>5, <1>6 DEF Framed, NoneAdded
  <2>4. QED
    BY <1>4, <1>6, <2>2, <2>3, NearKept
<1>7. CASE r = e[2]
  <2>1. /\ Still(e) /\ Rests(b, 0)'
        /\ host'[e[1]] = host[e[1]] /\ error'[e[1]] = error[e[1]]
    BY <1>1, <1>2, <1>3, <1>7, HostOthers, HostOwn
  <2>2. ToCopy(e)' = ToCopy(e) /\ ToCopy(b)' = 1 /\ lead'[b] = "out"
    BY <2>1 DEF Still, Rests
  <2>3. Begins(e[1])' <=> Begins(e[1])
    BY <2>1 DEF Begins
  <2>4. NearWords(e)'
    BY <1>3, <1>4, <1>7, <2>2, <2>3 DEF NearInv, NearWords
  <2>5. NearCaches(e)'
    BY <1>3, <1>5, <2>2, <2>3 DEF NearInv, NearCaches
  <2>6. NearLanes(e)'
    <3>1. ASSUME host[e[1]] # "threw", NEW i \in Index(e), Lane(e, i) \in unread
          PROVE  \E t \in 1 .. ToCopy(e) - 1 :
                   /\ t % Depth(e) = i /\ cache[e] < t
                   /\ \A j \in Index(e) : consumed'[Fifo(e, j)] < t
                   /\ 1 <= t
      BY <1>3, <1>4, <1>7, <3>1 DEF NearInv, NearLanes
    <3>2. QED
      BY <1>3, <1>5, <2>1, <2>2, <3>1 DEF NearLanes
  <2>7. QED
    BY <2>4, <2>5, <2>6 DEF NearInv
<1>8. CASE r = e[1]
  <2>1. /\ Still(b) /\ Rests(e, 0)'
        /\ host'[e[2]] = host[e[2]] /\ error'[e[2]] = error[e[2]]
        /\ host[r] # "kernel" => Rests(e, 0)
        /\ host[r] = "kernel" => Synchronize(r) /\ Rests(e, LastStep(e))
    BY <1>1, <1>2, <1>3, <1>8, HostOthers, HostOwn
  <2>2. ToCopy(b)' = ToCopy(b) /\ lead'[b] = lead[b] /\ ToCopy(e)' = 1 /\ lead'[e] = "out"
    BY <2>1 DEF Still, Rests
  <2>3. Runs(e[2])' <=> Runs(e[2])
    BY <2>1 DEF Runs
  <2>4. host[r] # "threw"
    BY DEF HostStep, Launch, Register, Reset, GinBarrier, Synchronize, Complete
  <2>5. Begins(r)' => Reset(r) \/ (GinBarrier(r) /\ fifo' = fifo /\ Begins(r) /\ host[r] # "kernel")
    BY <1>1 DEF Begins, HostStep, Launch, Register, Reset, GinBarrier, Synchronize, Complete
  <2>6. ASSUME Reset(r) PROVE NearWords(e)' /\ NearCaches(e)'
    <3>1. (Runs(e[2]) => ToCopy(b) = 1) /\ lead[b] = "out"
      BY <1>8, <2>6, ReceiverWaits DEF Reset
    <3>2. ASSUME NEW i \in Index(e) PROVE ready'[Fifo(e, i)] = 0 /\ consumed'[Fifo(e, i)] = 0
      <4>1. Fifo(e, i) \in Slots /\ Fifo(e, i)[1] = r
        BY <1>3, <1>8, FifoIsSlot DEF Fifo
      <4>2. DOMAIN ready = Slots
        BY <1>1 DEF StateTypes, ShareTypes
      <4>3. QED
        BY <2>6, <4>1, <4>2 DEF Reset
    <3>3. NearWords(e)'
      BY <1>3, <2>2, <3>2 DEF NearWords
    <3>4. NearCaches(e)'
      BY <1>3, <2>2, <2>3, <3>1 DEF NearCaches
    <3>5. QED
      BY <3>3, <3>4
  <2>7. ASSUME ~Reset(r) PROVE NearWords(e)' /\ NearCaches(e)'
    <3>1. Begins(r)' => ToCopy(e) = 1
      BY <2>1, <2>5, <2>7 DEF Rests
    <3>2. NearWords(e)'
      BY <1>3, <1>8, <2>2, <2>5, <2>7, <3>1 DEF NearInv, NearWords, fifo
    <3>3. NearCaches(e)'
      BY <1>3, <1>5, <1>8, <2>2, <2>3, <2>5, <2>7, <3>1 DEF NearInv, NearCaches
    <3>4. QED
      BY <3>2, <3>3
  <2>8. NearLanes(e)'
    <3>1. SUFFICES ASSUME host'[r] # "threw", NEW i \in Index(e), Lane(e, i) \in unread
                   PROVE  FALSE
      BY <1>3, <1>5, <1>8 DEF NearLanes
    <3>2. PICK t \in 1 .. ToCopy(e) - 1 : cache[e] < t
      BY <1>8, <2>4, <3>1 DEF NearInv, NearLanes
    <3>3. host[r] = "kernel" /\ ToCopy(e) = LastStep(e) + 1 /\ lead[e] = "out"
      <4>1. host[r] # "kernel" => ToCopy(e) = 1
        BY <2>1 DEF Rests
      <4>2. QED
        BY <2>1, <3>2, <4>1 DEF Rests
    <3>4. ~error[r]
      BY <1>1, <2>1, <3>1, <3>3 DEF Synchronize
    <3>5. LastStep(e) <= cache[e]
      BY <1>3, <1>8, <3>3, <3>4 DEF EndInv, EndDone, Known
    <3>6. LastStep(e) \in Nat
      BY NumbersHold DEF NumbersInv, Numbers
    <3>7. QED
      BY <1>3, <3>2, <3>3, <3>5, <3>6
  <2>9. QED
    BY <2>6, <2>7, <2>8 DEF NearInv
<1>9. QED
  BY <1>6, <1>7, <1>8

-----------------------------------------------------------------------------
(***************************************************************************)
(* A stream over the network: what has been put and credited, what of it   *)
(* is on its way, and what a slot holds that nobody has taken yet.         *)
(***************************************************************************)
Far(e)   == Sends(e[1]) /\ Gin(e)
Due(e)   == creditSignal[Back(e)] + Total(credits[Back(e)])
Given(e) == readySignal[e] + Len(puts[e])

\* Both ranks have reset their signals for one and the same step.
Both(e) ==
  /\ seq[e[1]] = seq[e[2]]
  /\ host[e[1]] \notin {"register", "reset"} /\ host[e[2]] \notin {"register", "reset"}
Reached(r) == host[r] \in {"barrier", "kernel", "threw"}

\* Nothing is on its way between ranks that are not in the same step, and who
\* has reset its signals there finds them at zero.
FarAlone(e) ==
  ~Both(e) =>
    /\ puts[e] = <<>> /\ Total(credits[Back(e)]) = 0
    /\ Reached(e[2]) => readySignal[e] = 0
    /\ Reached(e[1]) => creditSignal[Back(e)] = 0

\* The puts follow each other; no more steps are due than have arrived, and
\* no more are under way than the FIFO holds.
FarQueue(e) ==
  Both(e) =>
    /\ \A j \in 1 .. Len(puts[e]) : puts[e][j] = [step |-> readySignal[e] + j, depth |-> Depth(e)]
    /\ Due(e) <= readySignal[e]
    /\ Given(e) <= creditSignal[Back(e)] + Depth(e)

\* The sender has put what it has published, and is through when all is
\* credited.
FarSender(e) ==
  Both(e) =>
    /\ Begins(e[1]) => Given(e) < ToCopy(e)
    /\ Begins(e[1]) /\ ~error[e[1]] =>
         Given(e) + 1 = ToPost(e) /\ ToCopy(e) - 1 <= creditSignal[Back(e)] + Depth(e)
    /\ host[e[1]] \in {"returned", "idle"} => Given(e) <= creditSignal[Back(e)]

\* The receiver has credited what it has published, and copies what arrived.
FarReceiver(e) ==
  Both(e) /\ Begins(e[2]) /\ ~error[e[2]] =>
    Due(e) = Credited(Back(e)) /\ ToCopy(Back(e)) <= readySignal[e] + 1

\* A staging slot is unread until its put arrives, and the receiver's slot
\* until the step is credited.
FarStaged(e) ==
  host[e[1]] # "threw" => \A i \in Index(e) : Lane(e, i) \in unread =>
    \E t \in 1 .. ToCopy(e) - 1 : t % Depth(e) = i /\ (Both(e) => readySignal[e] < t)
FarLanded(e) ==
  \A i \in Index(e) : Lane(Back(e), i) \in unread =>
    /\ Both(e)
    /\ \E t \in 1 .. readySignal[e] : /\ t % Depth(e) = i /\ Due(e) < t
                                      /\ Runs(e[2]) => ToCopy(Back(e)) <= t

FarInv(e) == /\ FarAlone(e) /\ FarQueue(e) /\ FarSender(e) /\ FarReceiver(e)
             /\ FarStaged(e) /\ FarLanded(e)
FarsInv   == \A e \in Links : Far(e) => FarInv(e)

\* Only such streams have messages under way, and only they are credited.
QueuesInv == \A e \in Links : /\ puts[e] # <<>> => Far(e)
                              /\ credits[e] # <<>> \/ creditSignal[e] # 0 => Far(Back(e))

FarNumbers(e) ==
  /\ Due(e) \in Nat /\ creditSignal[Back(e)] \in Nat /\ creditSignal[Back(e)] <= Due(e)
  /\ Given(e) \in Nat /\ readySignal[e] \in Nat /\ readySignal[e] <= Given(e)
FarNumbersInv == \A e \in Links : FarNumbers(e)

LEMMA FarNumbersHold == Base => FarNumbersInv
<1>1. SUFFICES ASSUME Base, NEW e \in Links PROVE FarNumbers(e)
  BY DEF FarNumbersInv
<1>2. Back(e) \in Links
  BY <1>1, LinkParts DEF Base, LaunchInv
<1>3. /\ creditSignal[Back(e)] \in Nat /\ Total(credits[Back(e)]) \in Nat
      /\ readySignal[e] \in Nat /\ Len(puts[e]) \in Nat
  BY <1>1, <1>2, NumbersHold DEF NumbersInv, Numbers
<1> DEFINE total == Total(credits[Back(e)])
<1>4. total \in Nat /\ Due(e) = creditSignal[Back(e)] + total
  BY <1>3 DEF Due
<1> HIDE DEF total
<1>5. QED
  BY <1>3, <1>4 DEF FarNumbers, Given

LEMMA FarNumbersHoldNext == Base' => FarNumbersInv'
BY FarNumbersHold, PTL

\* An end of such a stream and its peer's, before and after a step.
LEMMA FarFacts ==
  ASSUME Base, Base', NEW e \in Links, Far(e), d' = d, plan' = plan, DOMAIN host' = DOMAIN host
  PROVE  /\ Back(e) \in Links /\ Back(e)[1] = e[2] /\ Back(e)[2] = e[1] /\ Back(Back(e)) = e
         /\ e[1] \in Ranks(d) /\ e[2] \in Ranks(d) /\ e[1] # e[2] /\ e # Back(e)
         /\ ~Sends(e[2]) /\ Gin(Back(e)) /\ Sends(e[1]) /\ Gin(e) /\ Depth(Back(e)) = Depth(e)
         /\ Owns(e) /\ Owns(Back(e)) /\ Index(Back(e)) = Index(e)
         /\ TypeInv /\ EndInv(e) /\ EndInv(Back(e))
         /\ Links' = Links /\ Index(e)' = Index(e) /\ Depth(e)' = Depth(e) /\ Back(e)' = Back(e)
         /\ \A i : Lane(e, i)' = Lane(e, i) /\ Lane(Back(e), i)' = Lane(Back(e), i)
         /\ ToCopy(e) \in Nat \ {0} /\ ToCopy(Back(e)) \in Nat \ {0}
         /\ ToCopy(e)' \in Nat \ {0} /\ ToCopy(Back(e))' \in Nat \ {0}
         /\ Depth(e) \in Nat \ {0} /\ LastStep(e) \in Nat
         /\ FarNumbers(e) /\ FarNumbers(e)'
         /\ ~error[e[2]] => Credited(Back(e)) \in Nat /\ Credited(Back(e)) < ToCopy(Back(e))
<1> DEFINE b == Back(e)
<1>1. TypeInv /\ b \in Links
  BY LinkParts DEF Base, LaunchInv
<1>2. /\ b[1] = e[2] /\ b[2] = e[1] /\ Back(b) = e
      /\ e[1] \in Ranks(d) /\ e[2] \in Ranks(d) /\ e[1] # e[2]
      /\ ~Sends(e[2]) /\ Gin(b) /\ Sends(e[1]) /\ Gin(e) /\ Depth(b) = Depth(e)
  BY <1>1, LinkParts DEF Far
<1>3. Owns(e) /\ Owns(b) /\ Index(b) = Index(e) /\ EndInv(e) /\ EndInv(b)
  BY <1>1, <1>2 DEF Owns, Index, Base, EndsInv
<1>4. /\ Links' = Links /\ Index(e)' = Index(e) /\ Depth(e)' = Depth(e) /\ Back(e)' = b
      /\ \A i : Lane(e, i)' = Lane(e, i) /\ Lane(b, i)' = Lane(b, i)
  BY <1>2, SameEnds
<1>5. /\ ToCopy(e) \in Nat \ {0} /\ ToCopy(b) \in Nat \ {0}
      /\ Depth(e) \in Nat \ {0} /\ LastStep(e) \in Nat
      /\ ~error[e[2]] => Credited(b) \in Nat /\ Credited(b) < ToCopy(b)
  BY <1>1, <1>2, NumbersHold DEF NumbersInv, Numbers
<1>6. ToCopy(e)' \in Nat \ {0} /\ ToCopy(b)' \in Nat \ {0}
  BY <1>1, <1>4, NumbersHoldNext DEF NumbersInv, Numbers
<1>7. FarNumbers(e) /\ FarNumbers(e)'
  BY <1>4, FarNumbersHold, FarNumbersHoldNext DEF FarNumbersInv
<1>8. QED
  BY <1>1, <1>2, <1>3, <1>4, <1>5, <1>6, <1>7

\* A kernel without an error has its peer in the same step.
LEMMA RunsTogether ==
  ASSUME LaunchInv, NEW e \in Links, Gin(e), Runs(e[1])
  PROVE  Both(e) /\ Both(Back(e))
<1>1. /\ e[1] \in Ranks(d) /\ e[2] \in Ranks(d) /\ Back(e)[1] = e[2] /\ Back(e)[2] = e[1]
      /\ GinEnabled(d)
  BY LinkParts, PolledWhenNear DEF LaunchInv
<1>2. Cleared(e[2], seq[e[1]])
  BY <1>1 DEF LaunchInv, BarrierInv, Runs
<1>3. seq[e[1]] \in Nat /\ seq[e[2]] \in Nat /\ (seq[e[2]] > 0 => Ended(e[1], seq[e[2]] - 1))
  BY <1>1 DEF LaunchInv, TypeInv, StepsInv
<1>4. seq[e[1]] = seq[e[2]] /\ host[e[2]] \notin {"register", "reset"}
  BY <1>2, <1>3 DEF Cleared, Ended, Runs
<1>5. QED
  BY <1>1, <1>4 DEF Both, Runs

LEMMA FarKept ==
  ASSUME Base, Base', NEW e \in Links, Far(e), FarInv(e), Framed(e), Steady(e), Steady(Back(e)),
         puts'[e] = puts[e], credits'[Back(e)] = credits[Back(e)],
         readySignal'[e] = readySignal[e], creditSignal'[Back(e)] = creditSignal[Back(e)],
         NoneAdded(e), NoneAdded(Back(e))
  PROVE  FarInv(e)'
<1> DEFINE b == Back(e)
<1>1. /\ b \in Links /\ b[1] = e[2] /\ Index(b) = Index(e)
      /\ Links' = Links /\ Index(e)' = Index(e) /\ Depth(e)' = Depth(e) /\ Back(e)' = b
      /\ \A i : Lane(e, i)' = Lane(e, i) /\ Lane(b, i)' = Lane(b, i)
      /\ ToCopy(e) \in Nat \ {0} /\ ToCopy(b) \in Nat \ {0}
      /\ ToCopy(e)' \in Nat \ {0} /\ ToCopy(b)' \in Nat \ {0} /\ FarNumbers(e)
  BY FarFacts DEF Framed
<1>2. /\ ToCopy(e) <= ToCopy(e)'
      /\ ~error'[e[1]] => ToCopy(e)' = ToCopy(e) /\ ToPost(e)' = ToPost(e)
      /\ ~error'[e[2]] => ToCopy(b)' = ToCopy(b) /\ Credited(b)' = Credited(b)
  BY <1>1 DEF Steady
<1>3. /\ host'[e[1]] = host[e[1]] /\ host'[e[2]] = host[e[2]]
      /\ ~error'[e[1]] => ~error[e[1]]
      /\ ~error'[e[2]] => ~error[e[2]]
      /\ Both(e)' <=> Both(e)
  BY DEF Framed, Both
<1>4. /\ Begins(e[1])' <=> Begins(e[1])
      /\ Begins(e[2])' <=> Begins(e[2])
      /\ Reached(e[1])' <=> Reached(e[1])
      /\ Reached(e[2])' <=> Reached(e[2])
      /\ Runs(e[2])' => Runs(e[2]) /\ ToCopy(b)' = ToCopy(b)
  BY <1>2, <1>3 DEF Begins, Reached, Runs
<1>5. Due(e)' = Due(e) /\ Given(e)' = Given(e)
  BY <1>1 DEF Due, Given
<1>6. FarAlone(e)' /\ FarQueue(e)'
  BY <1>1, <1>3, <1>4, <1>5 DEF FarInv, FarAlone, FarQueue
<1>7. FarSender(e)'
  BY <1>1, <1>2, <1>3, <1>4, <1>5 DEF FarInv, FarSender, FarNumbers
<1>8. FarReceiver(e)'
  BY <1>1, <1>2, <1>3, <1>4, <1>5 DEF FarInv, FarReceiver
<1>9. FarStaged(e)'
  <2>1. ASSUME host[e[1]] # "threw", NEW i \in Index(e), Lane(e, i) \in unread'
        PROVE  \E t \in 1 .. ToCopy(e)' - 1 : t % Depth(e) = i /\ (Both(e) => readySignal[e] < t)
    <3>1. PICK t \in 1 .. ToCopy(e) - 1 : t % Depth(e) = i /\ (Both(e) => readySignal[e] < t)
      BY <2>1 DEF FarInv, FarStaged, NoneAdded
    <3>2. t \in 1 .. ToCopy(e)' - 1
      BY <1>1, <1>2, <3>1
    <3>3. QED
      BY <3>1, <3>2
  <2>2. QED
    BY <1>1, <1>3, <2>1 DEF FarStaged
<1>10. FarLanded(e)'
  <2>1. ASSUME NEW i \in Index(e), Lane(b, i) \in unread'
        PROVE  /\ Both(e)
               /\ \E t \in 1 .. readySignal[e] : /\ t % Depth(e) = i /\ Due(e) < t
                                                 /\ Runs(e[2])' => ToCopy(b)' <= t
    <3>1. Lane(b, i) \in unread
      BY <1>1, <2>1 DEF NoneAdded
    <3>2. QED
      BY <1>4, <3>1 DEF FarInv, FarLanded
  <2>2. QED
    BY <1>1, <1>3, <1>5, <2>1 DEF FarLanded
<1>11. QED
  BY <1>6, <1>7, <1>8, <1>9, <1>10 DEF FarInv

LEMMA FarCopyOut ==
  ASSUME Base, Base', NEW e \in Links, Far(e), FarInv(e), CopyOut(e)
  PROVE  FarInv(e)'
<1> DEFINE b == Back(e)
<1>1. Kept /\ Still(b)
  <2>1. ThreadStep(e) /\ b \in Links /\ b # e
    BY LinkParts DEF ThreadStep, Base, LaunchInv
  <2>2. QED
    BY <2>1, ThreadFrame, OtherEnds DEF Base, LaunchInv
<1>2. /\ d' = d /\ plan' = plan /\ host' = host /\ seq' = seq
      /\ puts' = puts /\ credits' = credits /\ readySignal' = readySignal /\ creditSignal' = creditSignal
  BY DEF CopyOut, gin
<1>3. /\ host[e[1]] = "kernel" /\ ToCopy(e)' = ToCopy(e) + 1 /\ ToPost(e)' = ToPost(e)
      /\ lead[e] = "copy" /\ error' = error
  BY CopySteps DEF Base, EndsInv
<1>4. ToCopy(b)' = ToCopy(b) /\ Credited(b)' = Credited(b)
  BY <1>1 DEF Still
<1>5. /\ b \in Links /\ b # e /\ b[1] = e[2] /\ Owns(e) /\ Owns(b) /\ Index(b) = Index(e)
      /\ Gin(e) /\ Sends(e[1]) /\ EndInv(e)
      /\ Links' = Links /\ Index(e)' = Index(e) /\ Depth(e)' = Depth(e) /\ Back(e)' = b
      /\ \A i : Lane(e, i)' = Lane(e, i) /\ Lane(b, i)' = Lane(b, i)
      /\ ToCopy(e) \in Nat \ {0} /\ ToCopy(b) \in Nat \ {0} /\ FarNumbers(e)
      /\ Depth(e) \in Nat \ {0}
  BY <1>2, FarFacts
<1>6. /\ Begins(e[1]) /\ host[e[1]] # "threw" /\ (Both(e)' <=> Both(e))
      /\ Begins(e[1])' /\ (Begins(e[2])' <=> Begins(e[2])) /\ (Runs(e[2])' <=> Runs(e[2]))
      /\ (Reached(e[1])' <=> Reached(e[1])) /\ (Reached(e[2])' <=> Reached(e[2]))
      /\ Due(e)' = Due(e) /\ Given(e)' = Given(e)
  BY <1>2, <1>3, <1>5 DEF Begins, Runs, Both, Reached, Due, Given
<1>7. Both(e) => Given(e) < ToCopy(e)
  BY <1>6 DEF FarInv, FarSender
<1>8. FarAlone(e)' /\ FarQueue(e)'
  BY <1>2, <1>5, <1>6 DEF FarInv, FarAlone, FarQueue
<1>9. FarSender(e)'
  <2>1. ~error[e[1]] => ToCopy(e) <= creditSignal[b] + Depth(e)
    BY <1>3, <1>5 DEF EndInv, EndShape, EndCopy, Known, Room
  <2>2. QED
    BY <1>2, <1>3, <1>5, <1>6, <1>7, <2>1 DEF FarInv, FarSender, FarNumbers
<1>10. FarReceiver(e)'
  BY <1>2, <1>3, <1>4, <1>5, <1>6 DEF FarInv, FarReceiver
<1>11. FarStaged(e)'
  <2>1. ASSUME NEW i \in Index(e), Lane(e, i) \in unread'
        PROVE  \E t \in 1 .. ToCopy(e)' - 1 : t % Depth(e) = i /\ (Both(e) => readySignal[e] < t)
    <3>1. Lane(e, i) \in unread \/ i = ToCopy(e) % Depth(e)
      BY <1>5, <2>1, CopiedLanes DEF Base
    <3>2. CASE Lane(e, i) \in unread
      <4>1. PICK t \in 1 .. ToCopy(e) - 1 : t % Depth(e) = i /\ (Both(e) => readySignal[e] < t)
        BY <1>6, <3>2 DEF FarInv, FarStaged
      <4>2. t \in 1 .. ToCopy(e)' - 1
        BY <1>3, <1>5, <4>1
      <4>3. QED
        BY <4>1, <4>2
    <3>3. CASE i = ToCopy(e) % Depth(e)
      <4>1. ToCopy(e) \in 1 .. ToCopy(e)' - 1
        BY <1>3, <1>5
      <4>2. Both(e) => readySignal[e] < ToCopy(e)
        BY <1>5, <1>7 DEF FarNumbers
      <4>3. QED
        BY <3>3, <4>1, <4>2
    <3>4. QED
      BY <3>1, <3>2, <3>3
  <2>2. QED
    BY <1>2, <1>5, <1>6, <2>1 DEF FarStaged
<1>12. FarLanded(e)'
  <2>1. \A i \in Index(e) : Lane(b, i) \in unread' => Lane(b, i) \in unread
    BY <1>5, CopiedLanes DEF Base, NoneAdded
  <2>2. QED
    BY <1>2, <1>4, <1>5, <1>6, <2>1 DEF FarInv, FarLanded
<1>13. QED
  BY <1>8, <1>9, <1>10, <1>11, <1>12 DEF FarInv

LEMMA FarCopyIn ==
  ASSUME Base, Base', NEW e \in Links, Far(e), FarInv(e), CopyIn(Back(e))
  PROVE  FarInv(e)'
<1> DEFINE b == Back(e)
<1>1. b \in Links /\ b # e /\ b[1] = e[2] /\ TypeInv
  BY LinkParts DEF Base, LaunchInv
<1>2. Kept /\ Still(e)
  BY <1>1, ThreadFrame, OtherEnds DEF Base, ThreadStep
<1>3. /\ d' = d /\ plan' = plan /\ host' = host /\ seq' = seq
      /\ puts' = puts /\ credits' = credits /\ readySignal' = readySignal /\ creditSignal' = creditSignal
  BY DEF CopyIn, gin
<1>4. /\ host[e[2]] = "kernel" /\ ToCopy(b)' = ToCopy(b) + 1 /\ Credited(b)' = Credited(b)
      /\ lead[b] = "copy" /\ error' = error
  BY <1>1, CopySteps DEF Base, EndsInv
<1>5. ToCopy(e)' = ToCopy(e) /\ ToPost(e)' = ToPost(e)
  BY <1>2 DEF Still
<1>6. /\ Owns(e) /\ Owns(b) /\ Index(b) = Index(e) /\ Back(b) = e /\ Depth(b) = Depth(e)
      /\ Gin(b) /\ ~Sends(e[2]) /\ EndInv(b)
      /\ Links' = Links /\ Index(e)' = Index(e) /\ Depth(e)' = Depth(e) /\ Back(e)' = b
      /\ \A i : Lane(e, i)' = Lane(e, i) /\ Lane(b, i)' = Lane(b, i)
      /\ ToCopy(e) \in Nat \ {0} /\ ToCopy(b) \in Nat \ {0} /\ FarNumbers(e)
  BY <1>3, FarFacts
<1>7. /\ (Begins(e[1])' <=> Begins(e[1])) /\ (Both(e)' <=> Both(e))
      /\ (Begins(e[2])' <=> Begins(e[2])) /\ (Runs(e[2])' <=> Runs(e[2]))
      /\ (Reached(e[1])' <=> Reached(e[1])) /\ (Reached(e[2])' <=> Reached(e[2]))
      /\ Due(e)' = Due(e) /\ Given(e)' = Given(e)
  BY <1>3, <1>4, <1>6 DEF Begins, Runs, Both, Reached, Due, Given
<1>8. ~error[e[2]] => filled[b] /\ ToCopy(b) <= readySignal[e]
  BY <1>1, <1>4, <1>6 DEF EndInv, EndShape, EndCopy, Known, Room, FarNumbers
<1>9. FarAlone(e)' /\ FarQueue(e)'
  BY <1>3, <1>6, <1>7 DEF FarInv, FarAlone, FarQueue
<1>10. FarSender(e)'
  BY <1>3, <1>4, <1>5, <1>6, <1>7 DEF FarInv, FarSender
<1>11. FarReceiver(e)'
  BY <1>3, <1>4, <1>6, <1>7, <1>8 DEF FarInv, FarReceiver, FarNumbers
<1>12. FarStaged(e)'
  <2>1. \A i \in Index(e) : Lane(e, i) \in unread' => Lane(e, i) \in unread
    BY <1>1, <1>6, CopiedLanes DEF Base, NoneAdded
  <2>2. QED
    BY <1>3, <1>5, <1>6, <1>7, <2>1 DEF FarInv, FarStaged
<1>13. FarLanded(e)'
  <2>1. ASSUME NEW i \in Index(e), Lane(b, i) \in unread'
        PROVE  /\ Both(e)
               /\ \E t \in 1 .. readySignal[e] : /\ t % Depth(e) = i /\ Due(e) < t
                                                 /\ Runs(e[2]) => ToCopy(b)' <= t
    <3>1. Lane(b, i) \in unread
      BY <1>1, <1>6, <2>1, CopiedLanes DEF Base, NoneAdded
    <3>2. PICK t \in 1 .. readySignal[e] : /\ t % Depth(e) = i /\ Due(e) < t
                                           /\ Runs(e[2]) => ToCopy(b) <= t
      BY <3>1 DEF FarInv, FarLanded
    <3>3. ASSUME Runs(e[2]) PROVE ToCopy(b)' <= t
      <4>1. Lane(b, ToCopy(b) % Depth(b)) \notin unread'
        BY <1>1, <1>6, <1>8, <3>3, CopiedLanes DEF Base, Runs
      <4>2. t # ToCopy(b)
        BY <1>6, <2>1, <3>2, <4>1
      <4>3. QED
        BY <1>4, <1>6, <3>2, <3>3, <4>2
    <3>4. QED
      BY <3>1, <3>2, <3>3 DEF FarInv, FarLanded
  <2>2. QED
    BY <1>3, <1>6, <1>7, <2>1 DEF FarLanded
<1>14. QED
  BY <1>9, <1>10, <1>11, <1>12, <1>13 DEF FarInv

\* A step of another stream's end.
LEMMA FarOthers ==
  ASSUME Base, Base', NEW x \in Links, ThreadStep(x), NEW e \in Links, Far(e), FarInv(e),
         x # e, x # Back(e), NoneAdded(e), NoneAdded(Back(e)),
         puts'[e] = puts[e], credits'[Back(e)] = credits[Back(e)]
  PROVE  FarInv(e)'
<1>1. TypeInv /\ Back(e) \in Links
  BY LinkParts DEF Base, LaunchInv
<1>2. Kept /\ readySignal' = readySignal /\ creditSignal' = creditSignal
  BY <1>1, ThreadFrame DEF Base
<1>3. Still(e) /\ Still(Back(e))
  BY <1>1, OtherEnds DEF Base
<1>4. ToCopy(e) \in Nat /\ ToCopy(Back(e)) \in Nat
  BY <1>1, NumbersHold DEF NumbersInv, Numbers
<1>5. Steady(e) /\ Steady(Back(e)) /\ Framed(e)
  BY <1>1, <1>2, <1>3, <1>4, StillIsSteady, KeptIsFramed
<1>6. QED
  BY <1>2, <1>5, FarKept

LEMMA FarCopies ==
  ASSUME Base, Base', NEW x \in Links, CopyOut(x) \/ CopyIn(x),
         NEW e \in Links, Far(e), FarInv(e)
  PROVE  FarInv(e)'
<1>1. /\ TypeInv /\ Back(e) \in Links /\ Sends(e[1]) /\ ~Sends(e[2]) /\ Back(e)[1] = e[2]
      /\ Owns(e) /\ Owns(Back(e))
  BY LinkParts DEF Base, LaunchInv, Far, Owns
<1>2. CASE x = e
  BY <1>1, <1>2, FarCopyOut DEF CopyIn
<1>3. CASE x = Back(e)
  BY <1>1, <1>3, FarCopyIn DEF CopyOut
<1>4. CASE x # e /\ x # Back(e)
  <2>1. NoneAdded(e) /\ NoneAdded(Back(e))
    BY <1>1, <1>4, CopiedLanes DEF Base
  <2>2. ThreadStep(x) /\ puts' = puts /\ credits' = credits
    BY DEF ThreadStep, CopyOut, CopyIn, gin
  <2>3. QED
    BY <1>4, <2>1, <2>2, FarOthers
<1>5. QED
  BY <1>2, <1>3, <1>4

\* What the last thread hands to the network, if anything.
LEMMA FarPublished ==
  ASSUME Base, NEW x \in Links, Post(x)
  PROVE  LET step  == StepsBefore(x, At(x)) + PostSlice(x)
             given == CreditsReturned(plan[x[1]].credit, PostSlice(x), PostSlice(x) = Steps(x))
         IN  /\ Kept /\ (error[x[1]] => Steady(x))
             /\ UNCHANGED <<d, plan, host, seq, readySignal, creditSignal>>
             /\ ToCopy(x)' = ToCopy(x) /\ error' = error /\ host[x[1]] = "kernel" /\ unread' = unread
             /\ error[x[1]] \/ ~Gin(x) => puts' = puts /\ credits' = credits
             /\ ~error[x[1]] =>
                  /\ step \in Nat /\ ToPost(x) = step /\ ToPost(x)' = step + 1 /\ step < ToCopy(x)
                  /\ given \in Nat /\ Credited(x) \in Nat
                  /\ Credited(x)' = Credited(x) + given /\ Credited(x)' <= step
             /\ ~error[x[1]] /\ Gin(x) /\ Sends(x[1]) =>
                  /\ puts' = [puts EXCEPT ![x] = Append(@, [step |-> step, depth |-> Depth(x)])]
                  /\ credits' = credits
             /\ ~error[x[1]] /\ Gin(x) /\ ~Sends(x[1]) =>
                  /\ puts' = puts
                  /\ credits' = IF given = 0 THEN credits ELSE [credits EXCEPT ![x] = Append(@, given)]
<1> DEFINE step  == StepsBefore(x, At(x)) + PostSlice(x)
           given == CreditsReturned(plan[x[1]].credit, PostSlice(x), PostSlice(x) = Steps(x))
<1>1. LaunchInv /\ StepsInOrder /\ StateTypes /\ EndInv(x) /\ TypeInv
  BY DEF Base, EndsInv, LaunchInv
<1>2. /\ EndInv(x)' /\ Serving(x) /\ host[x[1]] = "kernel" /\ ToCopy(x)' = ToCopy(x) /\ error' = error
      /\ ~error[x[1]] => /\ PostSlice(x) >= 1 /\ Publish(x, PostSlice(x))
                         /\ ToPost(x) = step /\ ToPost(x)' = step + 1 /\ step < ToCopy(x)
                         /\ given \in Nat /\ Credited(x) \in Nat
                         /\ Credited(x)' = Credited(x) + given /\ Credited(x)' <= step
      /\ error[x[1]] => UNCHANGED <<fifo, puts, credits>>
  BY <1>1, PostSteps
<1>3. unread' = unread /\ UNCHANGED <<d, plan, host, seq, readySignal, creditSignal>>
  BY DEF Post, memory
<1>4. Kept
  BY <1>1, ThreadFrame DEF ThreadStep
<1>5. ToCopy(x) \in Nat
  BY NumbersHold DEF NumbersInv, Numbers
<1>6. error[x[1]] => Steady(x)
  BY <1>2, <1>5 DEF Steady
<1>7. ASSUME ~error[x[1]]
      PROVE  /\ step \in Nat
             /\ ~Gin(x) => puts' = puts /\ credits' = credits
             /\ Gin(x) /\ Sends(x[1]) =>
                  /\ puts' = [puts EXCEPT ![x] = Append(@, [step |-> step, depth |-> Depth(x)])]
                  /\ credits' = credits
             /\ Gin(x) /\ ~Sends(x[1]) =>
                  /\ puts' = puts
                  /\ credits' = IF given = 0 THEN credits ELSE [credits EXCEPT ![x] = Append(@, given)]
  BY <1>1, <1>2, <1>7, PublishIs
<1> HIDE DEF step, given
<1>8. error[x[1]] => puts' = puts /\ credits' = credits
  BY <1>2
<1>9. QED
  BY <1>2, <1>3, <1>4, <1>6, <1>7, <1>8 DEF step, given

LEMMA FarPostOut ==
  ASSUME Base, Base', NEW e \in Links, Far(e), FarInv(e), Post(e), ~error[e[1]]
  PROVE  FarInv(e)'
<1> DEFINE b == Back(e)
           step == StepsBefore(e, At(e)) + PostSlice(e)
           m == [step |-> step, depth |-> Depth(e)]
<1>1. /\ UNCHANGED <<d, plan, host, seq, readySignal, creditSignal, unread>>
      /\ ToCopy(e)' = ToCopy(e) /\ error' = error /\ host[e[1]] = "kernel"
      /\ step \in Nat /\ ToPost(e) = step /\ ToPost(e)' = step + 1 /\ step < ToCopy(e)
      /\ puts' = [puts EXCEPT ![e] = Append(@, m)] /\ credits' = credits
  BY FarPublished DEF Far
<1> HIDE DEF step
<1>2. /\ b \in Links /\ b # e /\ b[1] = e[2] /\ Gin(e) /\ TypeInv /\ Index(b) = Index(e)
      /\ Links' = Links /\ Index(e)' = Index(e) /\ Depth(e)' = Depth(e) /\ Back(e)' = b
      /\ \A i : Lane(e, i)' = Lane(e, i) /\ Lane(b, i)' = Lane(b, i)
      /\ ToCopy(e) \in Nat \ {0} /\ ToCopy(b) \in Nat \ {0} /\ FarNumbers(e)
      /\ Depth(e) \in Nat \ {0}
  BY <1>1, FarFacts
<1>3. ToCopy(b)' = ToCopy(b) /\ Credited(b)' = Credited(b)
  BY <1>2, OtherEnds DEF Base, ThreadStep, Still
<1>4. Both(e)
  BY <1>1, <1>2, RunsTogether DEF Base, Runs
<1>5. /\ Begins(e[1]) /\ host[e[1]] \notin {"returned", "idle"}
      /\ Begins(e[1])' /\ Both(e)'
      /\ (Begins(e[2])' <=> Begins(e[2])) /\ (Runs(e[2])' <=> Runs(e[2]))
  BY <1>1, <1>4 DEF Begins, Both, Runs
<1>6. /\ puts[e] \in Seq(Message) /\ Len(puts[e]) \in Nat /\ readySignal[e] \in Nat
      /\ puts'[e] = Append(puts[e], m)
  <2>1. puts \in [Links -> Seq(Message)]
    BY DEF Base, StateTypes, ShareTypes
  <2>2. QED
    BY <1>1, <1>2, <2>1 DEF FarNumbers
<1>7. /\ Len(puts'[e]) = Len(puts[e]) + 1 /\ puts'[e][Len(puts[e]) + 1] = m
      /\ \A j \in 1 .. Len(puts[e]) : puts'[e][j] = puts[e][j]
  BY <1>6
<1>8. Due(e)' = Due(e) /\ Given(e)' = Given(e) + 1 /\ Given(e) = readySignal[e] + Len(puts[e])
  BY <1>1, <1>2, <1>6, <1>7 DEF Due, Given
<1>9. /\ Given(e) + 1 = step /\ ToCopy(e) - 1 <= creditSignal[b] + Depth(e)
      /\ \A j \in 1 .. Len(puts[e]) : puts[e][j] = [step |-> readySignal[e] + j, depth |-> Depth(e)]
      /\ Due(e) <= readySignal[e]
  BY <1>1, <1>4, <1>5 DEF FarInv, FarSender, FarQueue
<1>10. FarAlone(e)'
  BY <1>5 DEF FarAlone
<1>11. FarQueue(e)'
  <2>1. ASSUME NEW j \in 1 .. Len(puts'[e])
        PROVE  puts'[e][j] = [step |-> readySignal[e] + j, depth |-> Depth(e)]
    <3>1. CASE j = Len(puts[e]) + 1
      <4>1. step = readySignal[e] + j
        BY <1>6, <1>8, <1>9, <3>1
      <4>2. QED
        BY <1>7, <3>1, <4>1
    <3>2. CASE j # Len(puts[e]) + 1
      <4>1. j \in 1 .. Len(puts[e])
        BY <1>6, <1>7, <3>2
      <4>2. QED
        BY <1>7, <1>9, <4>1
    <3>3. QED
      BY <3>1, <3>2
  <2>2. Given(e) + 1 <= creditSignal[b] + Depth(e)
    BY <1>1, <1>2, <1>9 DEF FarNumbers
  <2>3. QED
    BY <1>1, <1>2, <1>5, <1>8, <1>9, <2>1, <2>2 DEF FarQueue
<1>12. FarSender(e)'
  BY <1>1, <1>2, <1>5, <1>8, <1>9 DEF FarSender
<1>13. FarReceiver(e)' /\ FarStaged(e)' /\ FarLanded(e)'
  BY <1>1, <1>2, <1>3, <1>4, <1>5, <1>8 DEF FarInv, FarReceiver, FarStaged, FarLanded
<1>14. QED
  BY <1>10, <1>11, <1>12, <1>13 DEF FarInv

LEMMA FarPostIn ==
  ASSUME Base, Base', NEW e \in Links, Far(e), FarInv(e), Post(Back(e)), ~error[e[2]]
  PROVE  FarInv(e)'
<1> DEFINE b == Back(e)
           step  == StepsBefore(b, At(b)) + PostSlice(b)
           given == CreditsReturned(plan[b[1]].credit, PostSlice(b), PostSlice(b) = Steps(b))
<1>1. TypeInv /\ b \in Links /\ b # e /\ Back(b) = e /\ b[1] = e[2] /\ ~Sends(b[1]) /\ Gin(b)
  BY LinkParts DEF Base, LaunchInv, Far
<1>2. /\ UNCHANGED <<d, plan, host, seq, readySignal, creditSignal, unread>>
      /\ ToCopy(b)' = ToCopy(b) /\ error' = error /\ host[e[2]] = "kernel"
      /\ step \in Nat /\ step < ToCopy(b) /\ given \in Nat /\ Credited(b) \in Nat
      /\ Credited(b)' = Credited(b) + given /\ Credited(b)' <= step
      /\ puts' = puts
      /\ credits' = IF given = 0 THEN credits ELSE [credits EXCEPT ![b] = Append(@, given)]
  BY <1>1, FarPublished
<1> HIDE DEF step, given
<1>3. /\ Index(b) = Index(e)
      /\ Links' = Links /\ Index(e)' = Index(e) /\ Depth(e)' = Depth(e) /\ Back(e)' = b
      /\ \A i : Lane(e, i)' = Lane(e, i) /\ Lane(b, i)' = Lane(b, i)
      /\ ToCopy(e) \in Nat \ {0} /\ ToCopy(b) \in Nat \ {0} /\ FarNumbers(e)
  BY <1>2, FarFacts
<1>4. ToCopy(e)' = ToCopy(e) /\ ToPost(e)' = ToPost(e)
  BY <1>1, OtherEnds DEF Base, ThreadStep, Still
<1>5. Both(e)
  BY <1>1, <1>2, RunsTogether DEF Base, Runs
<1>6. /\ Begins(e[2]) /\ Runs(e[2]) /\ Runs(e[2])' /\ Begins(e[2])' /\ Both(e)'
      /\ Begins(e[1])' <=> Begins(e[1])
  BY <1>2, <1>5 DEF Begins, Both, Runs
<1>7. Due(e)' = Due(e) + given /\ Given(e)' = Given(e)
  <2>1. /\ credits \in [Links -> Seq(Nat)] /\ creditSignal[b] \in Nat /\ credits[b] \in Seq(Nat)
    BY <1>1, <1>3 DEF Base, StateTypes, ShareTypes, FarNumbers
  <2>2. credits'[b] = IF given = 0 THEN credits[b] ELSE Append(credits[b], given)
    BY <1>1, <1>2, <2>1
  <2>3. Total(Append(credits[b], given)) = Total(credits[b]) + given /\ Total(credits[b]) \in Nat
    BY <1>2, <2>1, TotalAppend
  <2>4. Total(credits'[b]) = Total(credits[b]) + given
    <3>1. CASE given = 0
      BY <2>2, <2>3, <3>1
    <3>2. CASE given # 0
      BY <2>2, <2>3, <3>2
    <3>3. QED
      BY <3>1, <3>2
  <2> DEFINE old == Total(credits[b])
             new == Total(credits'[b])
  <2>5. /\ old \in Nat /\ new = old + given
        /\ Due(e) = creditSignal[b] + old /\ Due(e)' = creditSignal[b] + new
    BY <1>2, <1>3, <2>3, <2>4 DEF Due
  <2> HIDE DEF old, new
  <2>6. Due(e)' = Due(e) + given
    BY <1>2, <2>1, <2>5
  <2>7. Given(e)' = Given(e)
    BY <1>2 DEF Given
  <2>8. QED
    BY <2>6, <2>7
<1>8. Due(e) = Credited(b) /\ ToCopy(b) <= readySignal[e] + 1
  BY <1>2, <1>5, <1>6 DEF FarInv, FarReceiver
<1>9. Due(e)' <= step /\ Due(e)' <= readySignal[e] /\ Due(e)' \in Nat
  BY <1>2, <1>3, <1>7, <1>8 DEF FarNumbers
<1>10. FarAlone(e)'
  BY <1>6 DEF FarAlone
<1>11. FarQueue(e)'
  BY <1>2, <1>3, <1>5, <1>7, <1>9 DEF FarInv, FarQueue
<1>12. FarSender(e)'
  BY <1>2, <1>3, <1>4, <1>5, <1>6, <1>7 DEF FarInv, FarSender
<1>13. FarReceiver(e)'
  BY <1>2, <1>3, <1>7, <1>8 DEF FarReceiver
<1>14. FarStaged(e)'
  BY <1>2, <1>3, <1>4, <1>5, <1>6 DEF FarInv, FarStaged
<1>15. FarLanded(e)'
  <2>1. ASSUME NEW i \in Index(e), Lane(b, i) \in unread
        PROVE  \E t \in 1 .. readySignal[e] : t % Depth(e) = i /\ Due(e)' < t /\ ToCopy(b) <= t
    <3>1. PICK t \in 1 .. readySignal[e] : /\ t % Depth(e) = i /\ Due(e) < t
                                           /\ Runs(e[2]) => ToCopy(b) <= t
      BY <2>1 DEF FarInv, FarLanded
    <3>2. Due(e)' < t
      BY <1>2, <1>3, <1>6, <1>9, <3>1
    <3>3. QED
      BY <1>6, <3>1, <3>2
  <2>2. QED
    BY <1>2, <1>3, <1>6, <2>1 DEF FarLanded
<1>16. QED
  BY <1>10, <1>11, <1>12, <1>13, <1>14, <1>15 DEF FarInv

LEMMA FarPosts ==
  ASSUME Base, Base', NEW x \in Links, Post(x), NEW e \in Links, Far(e), FarInv(e)
  PROVE  FarInv(e)'
<1>1. /\ TypeInv /\ Back(e) \in Links /\ Back(e)[1] = e[2] /\ Back(e) # e /\ ~Sends(e[2])
      /\ Back(e)[2] = e[1]
  BY LinkParts DEF Base, LaunchInv, Far
<1>2. /\ ThreadStep(x) /\ Kept /\ unread' = unread
      /\ UNCHANGED <<readySignal, creditSignal>>
  BY <1>1, FarPublished DEF ThreadStep
<1>3. NoneAdded(e) /\ NoneAdded(Back(e)) /\ Framed(e)
  BY <1>1, <1>2, KeptIsFramed DEF NoneAdded
<1>4. CASE x = e /\ ~error[e[1]]
  BY <1>4, FarPostOut
<1>5. CASE x = Back(e) /\ ~error[e[2]]
  BY <1>5, FarPostIn
<1>6. CASE x \in {e, Back(e)} /\ error[x[1]]
  <2>1. ToCopy(e) \in Nat /\ ToCopy(Back(e)) \in Nat
    BY <1>1, NumbersHold DEF NumbersInv, Numbers
  <2>2. ASSUME NEW f \in {e, Back(e)} PROVE Steady(f)
    <3>1. CASE x = f
      BY <1>6, <3>1, FarPublished
    <3>2. CASE x # f
      BY <1>1, <1>2, <2>1, <3>2, OtherEnds, StillIsSteady DEF Base
    <3>3. QED
      BY <3>1, <3>2
  <2>3. puts' = puts /\ credits' = credits
    BY <1>6, FarPublished
  <2>4. Steady(e) /\ Steady(Back(e))
    BY <2>2
  <2>5. QED
    BY <1>2, <1>3, <2>3, <2>4, FarKept
<1>7. CASE x # e /\ x # Back(e)
  <2>1. puts'[e] = puts[e] /\ credits'[Back(e)] = credits[Back(e)]
    <3>1. puts \in [Links -> Seq(Message)] /\ credits \in [Links -> Seq(Nat)]
      BY DEF Base, StateTypes, ShareTypes
    <3>2. CASE error[x[1]] \/ ~Gin(x)
      BY <3>2, FarPublished
    <3>3. CASE ~error[x[1]] /\ Gin(x) /\ Sends(x[1])
      <4> DEFINE m == [step |-> StepsBefore(x, At(x)) + PostSlice(x), depth |-> Depth(x)]
      <4>1. puts' = [puts EXCEPT ![x] = Append(@, m)] /\ credits' = credits
        BY <3>3, FarPublished
      <4> HIDE DEF m
      <4>2. QED
        BY <1>7, <3>1, <4>1
    <3>4. CASE ~error[x[1]] /\ Gin(x) /\ ~Sends(x[1])
      <4> DEFINE given == CreditsReturned(plan[x[1]].credit, PostSlice(x), PostSlice(x) = Steps(x))
      <4>1. puts' = puts /\ credits' = IF given = 0 THEN credits ELSE [credits EXCEPT ![x] = Append(@, given)]
        BY <3>4, FarPublished
      <4> HIDE DEF given
      <4>2. QED
        BY <1>1, <1>7, <3>1, <4>1
    <3>5. QED
      BY <3>2, <3>3, <3>4
  <2>2. QED
    BY <1>2, <1>3, <1>7, <2>1, FarOthers
<1>8. QED
  BY <1>1, <1>4, <1>5, <1>6, <1>7

\* The put that arrives next.
LEMMA FirstPut ==
  ASSUME Base, QueuesInv, FarsInv, NEW l \in Links, DeliverPut(l)
  PROVE  /\ Far(l) /\ Both(l) /\ Len(puts[l]) \in Nat \ {0} /\ puts[l] \in Seq(Message)
         /\ Head(puts[l]) = [step |-> readySignal[l] + 1, depth |-> Depth(l)]
         /\ \A j \in 1 .. Len(puts[l]) - 1 :
              Tail(puts[l])[j] = [step |-> readySignal[l] + 1 + j, depth |-> Depth(l)]
         /\ Len(Tail(puts[l])) = Len(puts[l]) - 1
<1>1. puts[l] # <<>> /\ puts[l] \in Seq(Message) /\ readySignal[l] \in Nat
  BY DEF DeliverPut, Base, StateTypes, ShareTypes
<1>2. Far(l)
  BY <1>1 DEF QueuesInv
<1>3. Both(l)
  BY <1>1, <1>2 DEF FarsInv, FarInv, FarAlone
<1>4. \A j \in 1 .. Len(puts[l]) : puts[l][j] = [step |-> readySignal[l] + j, depth |-> Depth(l)]
  BY <1>2, <1>3 DEF FarsInv, FarInv, FarQueue
<1>5. /\ Len(puts[l]) \in Nat \ {0} /\ Head(puts[l]) = puts[l][1] /\ Len(Tail(puts[l])) = Len(puts[l]) - 1
      /\ \A j \in 1 .. Len(puts[l]) - 1 : Tail(puts[l])[j] = puts[l][j + 1]
  BY <1>1
<1>6. Head(puts[l]) = [step |-> readySignal[l] + 1, depth |-> Depth(l)]
  BY <1>4, <1>5
<1>7. ASSUME NEW j \in 1 .. Len(puts[l]) - 1
      PROVE  Tail(puts[l])[j] = [step |-> readySignal[l] + 1 + j, depth |-> Depth(l)]
  <2>1. j + 1 \in 1 .. Len(puts[l]) /\ readySignal[l] + (j + 1) = readySignal[l] + 1 + j
    BY <1>1, <1>5
  <2>2. QED
    BY <1>4, <1>5, <2>1
<1>8. QED
  BY <1>1, <1>2, <1>3, <1>5, <1>6, <1>7

LEMMA FarPut ==
  ASSUME Base, Base', QueuesInv, FarsInv, NEW e \in Links, DeliverPut(e)
  PROVE  FarInv(e)'
<1> DEFINE b == Back(e)
           n == readySignal[e] + 1
<1>1. /\ UNCHANGED <<d, plan, host, seq, error, credits, creditSignal>>
      /\ puts' = [puts EXCEPT ![e] = Tail(@)]
      /\ readySignal' = [readySignal EXCEPT ![e] = @ + 1]
  BY DEF DeliverPut
<1>2. /\ Far(e) /\ Both(e) /\ Len(puts[e]) \in Nat \ {0} /\ puts[e] \in Seq(Message)
      /\ Head(puts[e]) = [step |-> n, depth |-> Depth(e)]
      /\ \A j \in 1 .. Len(puts[e]) - 1 :
           Tail(puts[e])[j] = [step |-> n + j, depth |-> Depth(e)]
      /\ Len(Tail(puts[e])) = Len(puts[e]) - 1
  BY FirstPut
<1>3. FarInv(e)
  BY <1>2 DEF FarsInv
<1>4. /\ b \in Links /\ b # e /\ Index(b) = Index(e) /\ Owns(e) /\ Owns(b)
      /\ Links' = Links /\ Index(e)' = Index(e) /\ Depth(e)' = Depth(e) /\ Back(e)' = b
      /\ \A i : Lane(e, i)' = Lane(e, i) /\ Lane(b, i)' = Lane(b, i)
      /\ ToCopy(e) \in Nat \ {0} /\ ToCopy(b) \in Nat \ {0} /\ FarNumbers(e)
      /\ ~error[e[2]] => Credited(b) \in Nat /\ Credited(b) < ToCopy(b)
      /\ b[1] = e[2]
  BY <1>1, <1>2, FarFacts
<1>5. /\ ToCopy(e)' = ToCopy(e) /\ ToPost(e)' = ToPost(e)
      /\ ToCopy(b)' = ToCopy(b) /\ Credited(b)' = Credited(b)
  BY <1>4, PutsDelivered DEF Base, Still
<1>6. /\ puts'[e] = Tail(puts[e]) /\ readySignal'[e] = n /\ n \in Nat /\ readySignal[e] \in Nat
  <2>1. puts \in [Links -> Seq(Message)] /\ readySignal \in [Links -> Nat]
    BY DEF Base, StateTypes, ShareTypes
  <2>2. QED
    BY <1>1, <2>1
<1>7. /\ (Begins(e[1])' <=> Begins(e[1])) /\ (Begins(e[2])' <=> Begins(e[2])) /\ Both(e)'
      /\ (Runs(e[2])' <=> Runs(e[2])) /\ Due(e)' = Due(e)
  BY <1>1, <1>2, <1>4 DEF Begins, Runs, Both, Due
<1>8. Given(e)' = Given(e)
  <2>1. Len(puts'[e]) = Len(puts[e]) - 1
    BY <1>2, <1>6
  <2> DEFINE left == Len(puts'[e])
             sent == Len(puts[e])
  <2>2. sent \in Nat /\ left = sent - 1
    BY <1>2, <2>1
  <2>3. Given(e)' = readySignal'[e] + left /\ Given(e) = readySignal[e] + sent
    BY <1>4 DEF Given
  <2> HIDE DEF left, sent
  <2>4. QED
    BY <1>6, <2>2, <2>3
<1>9. Due(e) <= readySignal[e] /\ readySignal[e] < n
  BY <1>2, <1>3, <1>4 DEF FarInv, FarQueue, FarNumbers
<1> HIDE DEF n
<1>10. FarAlone(e)'
  BY <1>7 DEF FarAlone
<1>11. FarQueue(e)'
  <2>1. \A j \in 1 .. Len(puts'[e]) : puts'[e][j] = [step |-> readySignal'[e] + j, depth |-> Depth(e)]
    BY <1>2, <1>6
  <2>2. Given(e) <= creditSignal[b] + Depth(e)
    BY <1>2, <1>3 DEF FarInv, FarQueue
  <2>3. Due(e) <= n
    BY <1>4, <1>6, <1>9 DEF FarNumbers
  <2>4. QED
    BY <1>1, <1>4, <1>6, <1>7, <1>8, <2>1, <2>2, <2>3 DEF FarQueue
<1>12. FarSender(e)'
  BY <1>1, <1>2, <1>3, <1>4, <1>5, <1>7, <1>8 DEF FarInv, FarSender
<1>13. Begins(e[2]) /\ ~error[e[2]] => Due(e) = Credited(b) /\ ToCopy(b) <= n
  BY <1>2, <1>3 DEF FarInv, FarReceiver, n
<1>14. FarReceiver(e)'
  BY <1>1, <1>4, <1>5, <1>6, <1>7, <1>13 DEF FarReceiver
<1>15. FarStaged(e)'
  <2>1. ASSUME host[e[1]] # "threw", NEW i \in Index(e), Lane(e, i) \in unread'
        PROVE  \E t \in 1 .. ToCopy(e) - 1 : t % Depth(e) = i /\ n < t
    <3>1. NoneAdded(e) /\ Lane(e, n % Depth(e)) \notin unread'
      BY <1>2, <1>4, PutLanes DEF Base, Far
    <3>2. PICK t \in 1 .. ToCopy(e) - 1 : t % Depth(e) = i /\ readySignal[e] < t
      BY <1>2, <1>3, <2>1, <3>1 DEF FarInv, FarStaged, NoneAdded
    <3>3. t # n
      BY <2>1, <3>1, <3>2
    <3>4. n < t
      BY <1>4, <1>6, <3>2, <3>3 DEF n
    <3>5. QED
      BY <3>2, <3>4
  <2>2. QED
    BY <1>1, <1>4, <1>5, <1>6, <2>1 DEF FarStaged
<1>16. FarLanded(e)'
  <2>1. ASSUME NEW i \in Index(e), Lane(b, i) \in unread'
        PROVE  \E t \in 1 .. n : /\ t % Depth(e) = i /\ Due(e) < t
                                 /\ Runs(e[2]) => ToCopy(b) <= t
    <3>1. Lane(b, i) \in unread \/ i = n % Depth(e)
      BY <1>2, <1>4, <2>1, PutLanes DEF Base, Far
    <3>2. CASE Lane(b, i) \in unread
      <4>1. PICK t \in 1 .. readySignal[e] : /\ t % Depth(e) = i /\ Due(e) < t
                                             /\ Runs(e[2]) => ToCopy(b) <= t
        BY <1>3, <3>2 DEF FarInv, FarLanded
      <4>2. t \in 1 .. n
        BY <1>6, <1>9, <4>1
      <4>3. QED
        BY <4>1, <4>2
    <3>3. CASE i = n % Depth(e)
      <4>1. n \in 1 .. n
        BY <1>6, <1>9
      <4>2. Due(e) < n
        BY <1>4, <1>6, <1>9 DEF FarNumbers
      <4>3. Runs(e[2]) => ToCopy(b) <= n
        BY <1>13 DEF Runs, Begins
      <4>4. QED
        BY <3>3, <4>1, <4>2, <4>3
    <3>4. QED
      BY <3>1, <3>2, <3>3
  <2>2. QED
    BY <1>4, <1>5, <1>6, <1>7, <2>1 DEF FarLanded
<1>17. QED
  BY <1>10, <1>11, <1>12, <1>14, <1>15, <1>16 DEF FarInv

LEMMA FarPuts ==
  ASSUME Base, Base', QueuesInv, FarsInv, NEW l \in Links, DeliverPut(l), NEW e \in Links, Far(e)
  PROVE  FarInv(e)'
<1>1. CASE e = l
  BY <1>1, FarPut
<1>2. CASE e # l
  <2>1. /\ TypeInv /\ Back(e) \in Links /\ Back(e) # l /\ Back(e) # Back(l) /\ e # Back(l)
        /\ Owns(e) /\ Owns(Back(e)) /\ FarInv(e)
    <3>1. Far(l) /\ FarInv(e)
      BY FirstPut DEF FarsInv
    <3>2. /\ TypeInv /\ Back(e) \in Links /\ Back(e)[1] = e[2] /\ Back(l)[1] = l[2]
          /\ ~Sends(e[2]) /\ ~Sends(l[2]) /\ Sends(e[1]) /\ Sends(l[1]) /\ Gin(Back(e)) /\ Gin(e)
          /\ Back(Back(e)) = e /\ Back(Back(l)) = l
      BY <3>1, LinkParts DEF Base, LaunchInv, Far
    <3>3. Back(e) = Back(l) => e = l
      BY <3>2
    <3>4. QED
      BY <1>2, <3>1, <3>2, <3>3 DEF Owns
  <2>2. NoneAdded(e) /\ NoneAdded(Back(e))
    BY <2>1, FirstPut, PutLanes DEF Base, Far
  <2>3. ToCopy(e) \in Nat /\ ToCopy(Back(e)) \in Nat
    BY <2>1, NumbersHold DEF NumbersInv, Numbers
  <2>4. Steady(e) /\ Steady(Back(e)) /\ Kept
    BY <2>1, <2>3, PutsDelivered, StillIsSteady DEF Base
  <2>5. /\ puts'[e] = puts[e] /\ readySignal'[e] = readySignal[e]
        /\ credits' = credits /\ creditSignal' = creditSignal
    <3>1. puts \in [Links -> Seq(Message)] /\ readySignal \in [Links -> Nat]
      BY DEF Base, StateTypes, ShareTypes
    <3>2. QED
      BY <1>2, <3>1 DEF DeliverPut
  <2>6. Framed(e)
    BY <2>1, <2>4, KeptIsFramed
  <2>7. QED
    BY <2>1, <2>2, <2>4, <2>5, <2>6, FarKept
<1>3. QED
  BY <1>1, <1>2

LEMMA NearPuts ==
  ASSUME Base, Base', QueuesInv, FarsInv, NEW l \in Links, DeliverPut(l) \/ DeliverCredit(l),
         NEW e \in Links, Near(e), NearInv(e)
  PROVE  NearInv(e)'
<1>1. TypeInv /\ Back(e) \in Links
  BY LinkParts DEF Base, LaunchInv
<1>2. ToCopy(e) \in Nat /\ ToCopy(Back(e)) \in Nat
  BY <1>1, NumbersHold DEF NumbersInv, Numbers
<1>3. Kept /\ \A f \in Links : Still(f)
  BY PutsDelivered, CreditsDelivered DEF Base
<1>4. Steady(e) /\ Loads(e) /\ Steady(Back(e)) /\ Loads(Back(e)) /\ Framed(e)
  BY <1>1, <1>2, <1>3, StillIsSteady, KeptIsFramed
<1>5. ready' = ready /\ consumed' = consumed
  BY DEF DeliverPut, DeliverCredit, fifo
<1>6. NoneAdded(e)
  <2>1. CASE DeliverCredit(l)
    BY <2>1 DEF DeliverCredit, memory, NoneAdded
  <2>2. CASE DeliverPut(l)
    <3>1. Far(l) /\ Head(puts[l]) = [step |-> readySignal[l] + 1, depth |-> Depth(l)]
      BY <2>2, FirstPut
    <3>2. e # Back(l) /\ Owns(e)
      BY <1>1, <3>1, LinkParts DEF Near, Far, Owns
    <3>3. QED
      BY <2>2, <3>1, <3>2, PutLanes DEF Base, Far
  <2>3. QED
    BY <2>1, <2>2
<1>7. QED
  BY <1>4, <1>5, <1>6, NearKept

LEMMA FarCredits ==
  ASSUME Base, Base', QueuesInv, FarsInv, NEW l \in Links, DeliverCredit(l), NEW e \in Links, Far(e)
  PROVE  FarInv(e)'
<1> DEFINE b == Back(e)
<1>1. /\ UNCHANGED <<d, plan, host, seq, error, puts, readySignal, unread>>
  BY DEF DeliverCredit, memory
<1>2. /\ Kept /\ \A f \in Links : Still(f)
      /\ creditSignal'[l] >= creditSignal[l]
      /\ creditSignal'[l] + Total(credits'[l]) = creditSignal[l] + Total(credits[l])
      /\ \A f \in Links \ {l} : creditSignal'[f] = creditSignal[f] /\ credits'[f] = credits[f]
      /\ Total(credits[l]) \in Nat /\ Total(credits'[l]) \in Nat
  BY CreditsDelivered DEF Base
<1>3. FarInv(e)
  BY DEF FarsInv
<1>4. /\ TypeInv /\ b \in Links /\ Index(b) = Index(e) /\ b[1] = e[2]
      /\ Links' = Links /\ Index(e)' = Index(e) /\ Depth(e)' = Depth(e) /\ Back(e)' = b
      /\ \A i : Lane(e, i)' = Lane(e, i) /\ Lane(b, i)' = Lane(b, i)
      /\ ToCopy(e) \in Nat \ {0} /\ ToCopy(b) \in Nat \ {0} /\ FarNumbers(e) /\ FarNumbers(e)'
      /\ Depth(e) \in Nat \ {0}
  BY <1>1, FarFacts
<1>5. NoneAdded(e) /\ NoneAdded(b) /\ Framed(e)
  BY <1>1, <1>2, <1>4, KeptIsFramed DEF NoneAdded
<1>6. CASE b # l
  <2>1. Steady(e) /\ Steady(b)
    BY <1>2, <1>4, StillIsSteady
  <2>2. puts'[e] = puts[e] /\ readySignal'[e] = readySignal[e]
    BY <1>1
  <2>3. credits'[b] = credits[b] /\ creditSignal'[b] = creditSignal[b]
    BY <1>2, <1>4, <1>6
  <2>4. QED
    BY <1>3, <1>5, <2>1, <2>2, <2>3, FarKept
<1>7. CASE b = l
  <2>1. /\ ToCopy(e)' = ToCopy(e) /\ ToPost(e)' = ToPost(e)
        /\ ToCopy(b)' = ToCopy(b) /\ Credited(b)' = Credited(b)
    BY <1>2, <1>4 DEF Still
  <2>2. /\ creditSignal'[b] >= creditSignal[b] /\ Due(e)' = Due(e) /\ Given(e)' = Given(e)
        /\ creditSignal'[b] \in Nat /\ creditSignal[b] \in Nat
    BY <1>1, <1>2, <1>4, <1>7 DEF Due, Given, FarNumbers
  <2>3. /\ (Begins(e[1])' <=> Begins(e[1])) /\ (Begins(e[2])' <=> Begins(e[2])) /\ (Both(e)' <=> Both(e))
        /\ (Reached(e[1])' <=> Reached(e[1])) /\ (Reached(e[2])' <=> Reached(e[2]))
        /\ (Runs(e[2])' <=> Runs(e[2]))
    BY <1>1 DEF Begins, Runs, Both, Reached
  <2>4. FarAlone(e)'
    <3>1. ASSUME ~Both(e) PROVE Total(credits'[b]) = 0 /\ creditSignal'[b] = creditSignal[b]
      <4> DEFINE new == Total(credits'[b])
      <4>1. Total(credits[b]) = 0
        BY <1>3, <3>1 DEF FarInv, FarAlone
      <4>2. new \in Nat /\ creditSignal'[b] + new = creditSignal[b] + 0
        BY <1>2, <1>7, <4>1
      <4> HIDE DEF new
      <4>3. new = 0 /\ creditSignal'[b] = creditSignal[b]
        BY <2>2, <4>2
      <4>4. QED
        BY <4>3 DEF new
    <3>2. QED
      BY <1>1, <1>3, <1>4, <2>3, <3>1 DEF FarInv, FarAlone
  <2>5. FarQueue(e)'
    BY <1>1, <1>3, <1>4, <2>2, <2>3 DEF FarInv, FarQueue, FarNumbers
  <2>6. FarSender(e)'
    BY <1>1, <1>3, <1>4, <2>1, <2>2, <2>3 DEF FarInv, FarSender, FarNumbers
  <2>7. FarReceiver(e)' /\ FarStaged(e)' /\ FarLanded(e)'
    BY <1>1, <1>3, <1>4, <2>1, <2>2, <2>3 DEF FarInv, FarReceiver, FarStaged, FarLanded
  <2>8. QED
    BY <2>4, <2>5, <2>6, <2>7 DEF FarInv
<1>8. QED
  BY <1>6, <1>7

-----------------------------------------------------------------------------
(***************************************************************************)
(* A host's step and the streams of its rank over the network.             *)
(***************************************************************************)

\* What the step does not change of the stream, what it makes of the ends of
\* its own rank, and what those were.
HostsShare(r, e) ==
  LET b == Back(e)
  IN  /\ puts'[e] = puts[e] /\ credits'[b] = credits[b] /\ unread' = unread
      /\ r # e[1] => /\ host'[e[1]] = host[e[1]] /\ seq'[e[1]] = seq[e[1]]
                     /\ error'[e[1]] = error[e[1]] /\ creditSignal'[b] = creditSignal[b]
                     /\ ToCopy(e)' = ToCopy(e) /\ ToPost(e)' = ToPost(e)
      /\ r # e[2] => /\ host'[e[2]] = host[e[2]] /\ seq'[e[2]] = seq[e[2]]
                     /\ error'[e[2]] = error[e[2]] /\ readySignal'[e] = readySignal[e]
                     /\ ToCopy(b)' = ToCopy(b) /\ Credited(b)' = Credited(b)
      /\ r = e[1] => /\ ToCopy(e)' = 1 /\ ToPost(e)' = 1
                     /\ host[r] # "kernel" => ToCopy(e) = 1 /\ ToPost(e) = 1
                     /\ host[r] = "kernel" => lead[e] = "out" /\ ToCopy(e) = LastStep(e) + 1
      /\ r = e[2] => /\ ToCopy(b)' = 1 /\ Credited(b)' = 0
                     /\ host[r] # "kernel" => ToCopy(b) = 1 /\ Credited(b) = 0

LEMMA HostsShareIs ==
  ASSUME Base, Base', NEW r \in Ranks(d), HostStep(r), NEW e \in Links, Far(e)
  PROVE  HostsShare(r, e)
<1> DEFINE b == Back(e)
<1>1. /\ UNCHANGED <<d, plan, threads, puts, credits, unread>> /\ DOMAIN host' = DOMAIN host
      /\ \A q \in Ranks(d) \ {r} : host'[q] = host[q] /\ seq'[q] = seq[q] /\ error'[q] = error[q]
      /\ \A f \in Links : f[2] # r =>
           readySignal'[f] = readySignal[f] /\ creditSignal'[f] = creditSignal[f]
  BY HostFrame DEF Base
<1>2. /\ b \in Links /\ b[1] = e[2] /\ b[2] = e[1] /\ e[1] \in Ranks(d) /\ e[2] \in Ranks(d)
  BY <1>1, FarFacts
<1>3. puts'[e] = puts[e] /\ credits'[b] = credits[b] /\ unread' = unread
  BY <1>1
<1>4. ASSUME NEW f \in Links, f[1] # r PROVE Still(f)
  BY <1>4, HostOthers DEF Base
<1>5. ASSUME NEW f \in Links, f[1] = r
      PROVE  /\ Rests(f, 0)'
             /\ host[r] # "kernel" => Rests(f, 0)
             /\ host[r] = "kernel" => Rests(f, LastStep(f))
  BY <1>5, HostOwn DEF Base
<1>6. ASSUME r # e[1]
      PROVE  /\ host'[e[1]] = host[e[1]] /\ seq'[e[1]] = seq[e[1]]
             /\ error'[e[1]] = error[e[1]] /\ creditSignal'[b] = creditSignal[b]
             /\ ToCopy(e)' = ToCopy(e) /\ ToPost(e)' = ToPost(e)
  BY <1>1, <1>2, <1>4, <1>6 DEF Still
<1>7. ASSUME r # e[2]
      PROVE  /\ host'[e[2]] = host[e[2]] /\ seq'[e[2]] = seq[e[2]]
             /\ error'[e[2]] = error[e[2]] /\ readySignal'[e] = readySignal[e]
             /\ ToCopy(b)' = ToCopy(b) /\ Credited(b)' = Credited(b)
  BY <1>1, <1>2, <1>4, <1>7 DEF Still
<1>8. ASSUME r = e[1]
      PROVE  /\ ToCopy(e)' = 1 /\ ToPost(e)' = 1
             /\ host[r] # "kernel" => ToCopy(e) = 1 /\ ToPost(e) = 1
             /\ host[r] = "kernel" => lead[e] = "out" /\ ToCopy(e) = LastStep(e) + 1
  BY <1>5, <1>8 DEF Rests
<1>9. ASSUME r = e[2]
      PROVE  /\ ToCopy(b)' = 1 /\ Credited(b)' = 0
             /\ host[r] # "kernel" => ToCopy(b) = 1 /\ Credited(b) = 0
  BY <1>2, <1>5, <1>9 DEF Rests
<1>10. QED
  BY <1>3, <1>6, <1>7, <1>8, <1>9 DEF HostsShare

\* What the steps below need of the stream besides.
LEMMA FarHostFacts ==
  ASSUME Base, Base', NEW r \in Ranks(d), HostStep(r), NEW e \in Links, Far(e)
  PROVE  /\ HostsShare(r, e)
         /\ Back(e) \in Links /\ Back(e)[1] = e[2] /\ Back(e)[2] = e[1]
         /\ e[1] \in Ranks(d) /\ e[2] \in Ranks(d) /\ e[1] # e[2]
         /\ Gin(e) /\ Gin(Back(e)) /\ Sends(e[1]) /\ EndInv(e) /\ TypeInv /\ GinEnabled(d)
         /\ Links' = Links /\ Index(e)' = Index(e) /\ Depth(e)' = Depth(e) /\ Back(e)' = Back(e)
         /\ \A i : Lane(e, i)' = Lane(e, i) /\ Lane(Back(e), i)' = Lane(Back(e), i)
         /\ ToCopy(e) \in Nat \ {0} /\ ToCopy(Back(e)) \in Nat \ {0}
         /\ Depth(e) \in Nat \ {0} /\ LastStep(e) \in Nat
         /\ FarNumbers(e) /\ FarNumbers(e)'
         /\ Given(e)' = readySignal'[e] + Len(puts[e])
         /\ Due(e)' = creditSignal'[Back(e)] + Total(credits[Back(e)])
         /\ host \in [Ranks(d) -> HostPlaces] /\ seq \in [Ranks(d) -> Nat]
         /\ error \in [Ranks(d) -> BOOLEAN]
         /\ creditSignal \in [Links -> Nat] /\ readySignal \in [Links -> Nat]
<1>1. /\ UNCHANGED <<d, plan>> /\ DOMAIN host' = DOMAIN host
  BY HostFrame DEF Base
<1>2. HostsShare(r, e)
  BY HostsShareIs
<1>3. Back(e)' = Back(e) /\ Gin(e) /\ TypeInv
  BY <1>1, FarFacts
<1>4. /\ Given(e)' = readySignal'[e] + Len(puts[e])
      /\ Due(e)' = creditSignal'[Back(e)] + Total(credits[Back(e)])
  BY <1>2, <1>3 DEF Given, Due, HostsShare
<1>5. GinEnabled(d)
  BY <1>3, PolledWhenNear
<1>6. /\ host \in [Ranks(d) -> HostPlaces] /\ seq \in [Ranks(d) -> Nat]
      /\ error \in [Ranks(d) -> BOOLEAN]
      /\ creditSignal \in [Links -> Nat] /\ readySignal \in [Links -> Nat]
  BY DEF Base, LaunchInv, TypeInv, StateTypes, ShareTypes
<1>7. QED
  BY <1>1, <1>2, <1>4, <1>5, <1>6, FarFacts

\* A launch begins when both ends are through with what was on its way.
LEMMA FarLaunch ==
  ASSUME Base, Base', NEW r \in Ranks(d), Launch(r), NEW e \in Links, Far(e), FarInv(e),
         r = e[1] \/ r = e[2]
  PROVE  FarInv(e)'
<1> DEFINE b == Back(e)
<1>1. /\ HostStep(r) /\ host[r] = "idle" /\ UNCHANGED gin
  BY DEF HostStep, Launch
<1>2. /\ HostsShare(r, e) /\ b \in Links /\ b[1] = e[2] /\ b[2] = e[1]
      /\ e[1] \in Ranks(d) /\ e[2] \in Ranks(d) /\ e[1] # e[2]
      /\ Links' = Links /\ Index(e)' = Index(e) /\ Depth(e)' = Depth(e) /\ Back(e)' = b
      /\ \A i : Lane(e, i)' = Lane(e, i) /\ Lane(b, i)' = Lane(b, i)
      /\ ToCopy(e) \in Nat \ {0} /\ FarNumbers(e)
      /\ host \in [Ranks(d) -> HostPlaces] /\ seq \in [Ranks(d) -> Nat]
  BY <1>1, FarHostFacts
<1>3. host'[r] \in {"register", "reset"}
  BY <1>2 DEF Launch
<1>4. ~Both(e)' /\ ~Reached(r)'
  BY <1>3 DEF Both, Reached
<1>5. ASSUME Both(e) PROVE host[e[1]] \in {"returned", "idle"} /\ host[e[2]] \in {"returned", "idle"}
  <2>1. Ended(e[1], seq[r]) /\ Ended(e[2], seq[r]) /\ seq[e[1]] = seq[r] /\ seq[e[2]] = seq[r]
    BY <1>1, <1>2, <1>5 DEF Base, LaunchInv, StepsInv, Both
  <2>2. QED
    BY <1>2, <2>1 DEF Ended
<1> DEFINE total == Total(credits[b])
           len   == Len(puts[e])
<1>6. /\ Due(e) = creditSignal[b] + total /\ Given(e) = readySignal[e] + len
      /\ Due(e) \in Nat /\ Given(e) \in Nat /\ creditSignal[b] \in Nat /\ readySignal[e] \in Nat
      /\ creditSignal[b] <= Due(e) /\ readySignal[e] <= Given(e)
  BY <1>2 DEF FarNumbers, Due, Given
<1>7. ASSUME Both(e) PROVE total = 0 /\ len = 0 /\ readySignal[e] = Due(e)
  <2>1. Given(e) <= creditSignal[b] /\ Due(e) <= readySignal[e]
    BY <1>5, <1>7 DEF FarInv, FarSender, FarQueue
  <2>2. total \in Int /\ len \in Int
    <3>1. credits[b] \in Seq(Nat) /\ Total(credits[b]) \in Nat /\ Len(puts[e]) \in Nat
      BY <1>2, NumbersHold DEF NumbersInv, Numbers
    <3>2. QED
      BY <3>1
  <2> HIDE DEF total, len
  <2>3. QED
    BY <1>6, <2>1, <2>2
<1>8. puts[e] = <<>> /\ total = 0
  <2>1. CASE Both(e)
    <3>1. puts[e] \in Seq(Message)
      BY NumbersHold DEF NumbersInv, Numbers
    <3>2. QED
      BY <1>7, <2>1, <3>1
  <2>2. CASE ~Both(e)
    BY <2>2 DEF FarInv, FarAlone
  <2>3. QED
    BY <2>1, <2>2
<1>9. /\ Reached(e[1])' => Reached(e[1]) /\ ~Both(e)
      /\ Reached(e[2])' => Reached(e[2]) /\ ~Both(e)
  BY <1>2, <1>4, <1>5 DEF HostsShare, Reached
<1>10. FarAlone(e)'
  BY <1>1, <1>2, <1>8, <1>9 DEF FarInv, FarAlone, HostsShare, gin
<1>11. FarQueue(e)' /\ FarSender(e)' /\ FarReceiver(e)'
  BY <1>4 DEF FarQueue, FarSender, FarReceiver
<1>12. FarStaged(e)'
  <2>1. ASSUME host'[e[1]] # "threw", NEW i \in Index(e), Lane(e, i) \in unread
        PROVE  \E t \in 1 .. ToCopy(e)' - 1 : t % Depth(e) = i
    <3>1. host[e[1]] # "threw"
      BY <1>1, <1>2, <2>1 DEF HostsShare
    <3>2. PICK t \in 1 .. ToCopy(e) - 1 : t % Depth(e) = i
      BY <2>1, <3>1 DEF FarInv, FarStaged
    <3>3. ToCopy(e)' = ToCopy(e)
      BY <1>1, <1>2 DEF HostsShare
    <3>4. QED
      BY <3>2, <3>3
  <2>2. QED
    BY <1>2, <1>4, <2>1 DEF FarStaged, HostsShare
<1>13. FarLanded(e)'
  <2>1. ASSUME NEW i \in Index(e), Lane(b, i) \in unread PROVE FALSE
    <3>1. PICK t \in 1 .. readySignal[e] : Due(e) < t
      BY <2>1 DEF FarInv, FarLanded
    <3>2. Both(e)
      BY <2>1 DEF FarInv, FarLanded
    <3>3. QED
      BY <1>6, <1>7, <3>1, <3>2
  <2>2. QED
    BY <1>2, <2>1 DEF FarLanded, HostsShare
<1>14. QED
  BY <1>10, <1>11, <1>12, <1>13 DEF FarInv

\* A rank clears its signals when nothing is on its way, and finds its peer
\* with cleared signals too or behind.
LEMMA FarReset ==
  ASSUME Base, Base', ReturnedInv, NEW r \in Ranks(d), Reset(r), NEW e \in Links, Far(e), FarInv(e),
         r = e[1] \/ r = e[2]
  PROVE  FarInv(e)'
<1> DEFINE b == Back(e)
           o == IF r = e[1] THEN e[2] ELSE e[1]
<1>1. HostStep(r) /\ host[r] = "reset"
  BY DEF HostStep, Reset
<1>2. /\ HostsShare(r, e) /\ b \in Links /\ b[1] = e[2] /\ b[2] = e[1]
      /\ e[1] \in Ranks(d) /\ e[2] \in Ranks(d) /\ e[1] # e[2] /\ Gin(e) /\ Gin(b) /\ GinEnabled(d)
      /\ Links' = Links /\ Index(e)' = Index(e) /\ Depth(e)' = Depth(e) /\ Back(e)' = b
      /\ \A i : Lane(e, i)' = Lane(e, i) /\ Lane(b, i)' = Lane(b, i)
      /\ ToCopy(e) \in Nat \ {0} /\ ToCopy(b) \in Nat \ {0} /\ FarNumbers(e) /\ Depth(e) \in Nat \ {0}
      /\ Given(e)' = readySignal'[e] + Len(puts[e])
      /\ Due(e)' = creditSignal'[b] + Total(credits[b])
      /\ host \in [Ranks(d) -> HostPlaces] /\ seq \in [Ranks(d) -> Nat] /\ error \in [Ranks(d) -> BOOLEAN]
      /\ creditSignal \in [Links -> Nat] /\ readySignal \in [Links -> Nat]
  BY <1>1, FarHostFacts
<1>3. /\ host'[r] = "barrier" /\ seq' = seq
      /\ r = e[2] => readySignal'[e] = 0
      /\ r = e[1] => creditSignal'[b] = 0
  <2>1. DOMAIN puts = Links
    BY DEF Base, StateTypes, ShareTypes
  <2>2. QED
    BY <1>2, <2>1 DEF Reset
<1>4. ~Both(e) /\ ~Both(b)
  BY <1>1, <1>2 DEF Both
<1>5. /\ puts[e] = <<>> /\ Total(credits[b]) = 0 /\ Len(puts[e]) = 0
      /\ Reached(e[2]) => readySignal[e] = 0
      /\ Reached(e[1]) => creditSignal[b] = 0
  BY <1>4 DEF FarInv, FarAlone
<1>6. ~Reached(r)
  BY <1>1 DEF Reached
<1>7. ASSUME Both(e)'
      PROVE  /\ Reached(o) /\ ~Runs(o) /\ readySignal'[e] = 0 /\ creditSignal'[b] = 0
  <2>1. o \in Ranks(d) /\ o # r /\ host'[o] = host[o] /\ seq[o] = seq[r] /\ host[o] \notin {"register", "reset"}
    BY <1>2, <1>3, <1>7 DEF HostsShare, Both
  <2>2. host[o] # "idle"
    <3>1. host[o] = "idle" => Ended(r, seq[o])
      BY <2>1 DEF Base, LaunchInv, StepsInv
    <3>2. QED
      BY <1>1, <1>2, <2>1, <3>1 DEF Ended
  <2>3. host[o] # "returned"
    <3>1. host[o] = "returned" => Cleared(r, seq[o])
      BY <1>2, <2>1 DEF ReturnedInv
    <3>2. QED
      BY <1>1, <1>2, <2>1, <3>1 DEF Cleared
  <2>4. Reached(o)
    BY <1>2, <2>1, <2>2, <2>3 DEF Reached, HostPlaces
  <2>5. ~Runs(o)
    <3>1. r = e[1] => (Runs(o) => Both(b))
      BY <1>2, RunsTogether DEF Base
    <3>2. r = e[2] => (Runs(o) => Both(e))
      BY <1>2, RunsTogether DEF Base
    <3>3. QED
      BY <1>4, <3>1, <3>2
  <2>6. readySignal'[e] = 0 /\ creditSignal'[b] = 0
    BY <1>2, <1>3, <1>5, <2>4 DEF HostsShare
  <2>7. QED
    BY <2>4, <2>5, <2>6
<1>8. Both(e)' => Given(e)' = 0 /\ Due(e)' = 0
  BY <1>2, <1>5, <1>7
<1>9. FarAlone(e)'
  <2>1. /\ Reached(e[2])' => readySignal'[e] = 0
        /\ Reached(e[1])' => creditSignal'[b] = 0
    BY <1>2, <1>3, <1>5 DEF HostsShare, Reached
  <2>2. QED
    BY <1>2, <1>5, <2>1 DEF FarAlone, HostsShare
<1>10. FarQueue(e)'
  BY <1>2, <1>5, <1>7, <1>8 DEF FarQueue, HostsShare
<1>11. FarSender(e)'
  <2>1. ASSUME Both(e)' PROVE host'[e[1]] \notin {"returned", "idle"}
    BY <1>2, <1>3, <1>7, <2>1 DEF HostsShare, Reached
  <2>2. ASSUME Both(e)', Begins(e[1])', ~error'[e[1]] PROVE ToCopy(e)' = 1 /\ ToPost(e)' = 1
    <3>1. CASE r = e[1]
      BY <1>2, <3>1 DEF HostsShare
    <3>2. CASE r = e[2]
      <4>1. host[e[1]] # "kernel"
        BY <1>2, <1>7, <2>2, <3>2 DEF HostsShare, Runs
      <4>2. QED
        BY <1>2, <3>2, <4>1 DEF HostsShare, ToCopy, ToPost
    <3>3. QED
      BY <3>1, <3>2
  <2>3. ToCopy(e)' \in Nat \ {0}
    BY <1>2 DEF HostsShare
  <2>4. QED
    BY <1>2, <1>7, <1>8, <2>1, <2>2, <2>3 DEF FarSender
<1>12. FarReceiver(e)'
  <2>1. ASSUME Both(e)', Begins(e[2])', ~error'[e[2]] PROVE ToCopy(b)' = 1 /\ Credited(b)' = 0
    <3>1. CASE r = e[2]
      BY <1>2, <3>1 DEF HostsShare
    <3>2. CASE r = e[1]
      <4>1. host[e[2]] # "kernel"
        BY <1>2, <1>7, <2>1, <3>2 DEF HostsShare, Runs
      <4>2. QED
        BY <1>2, <3>2, <4>1 DEF HostsShare, ToCopy, Credited
    <3>3. QED
      BY <3>1, <3>2
  <2>2. QED
    BY <1>2, <1>7, <1>8, <2>1 DEF FarReceiver
<1>13. FarStaged(e)'
  <2>1. ASSUME host'[e[1]] # "threw", NEW i \in Index(e), Lane(e, i) \in unread
        PROVE  \E t \in 1 .. ToCopy(e)' - 1 : t % Depth(e) = i /\ (Both(e)' => readySignal'[e] < t)
    <3>1. host[e[1]] # "threw"
      BY <1>1, <1>2, <2>1 DEF HostsShare
    <3>2. PICK t \in 1 .. ToCopy(e) - 1 : t % Depth(e) = i
      BY <2>1, <3>1 DEF FarInv, FarStaged
    <3>3. ToCopy(e)' = ToCopy(e)
      BY <1>1, <1>2 DEF HostsShare
    <3>4. Both(e)' => readySignal'[e] < t
      BY <1>7, <3>2
    <3>5. QED
      BY <3>2, <3>3, <3>4
  <2>2. QED
    BY <1>2, <2>1 DEF FarStaged, HostsShare
<1>14. FarLanded(e)'
  BY <1>2, <1>4 DEF FarInv, FarLanded, HostsShare
<1>15. QED
  BY <1>9, <1>10, <1>11, <1>12, <1>13, <1>14 DEF FarInv

\* The other steps of a host leave the signals and who is in the step.
LEMMA FarCalls ==
  ASSUME Base, Base', NEW r \in Ranks(d), Register(r) \/ GinBarrier(r) \/ Synchronize(r) \/ Complete(r),
         NEW e \in Links, Far(e), FarInv(e), r = e[1] \/ r = e[2]
  PROVE  FarInv(e)'
<1> DEFINE b == Back(e)
<1>1. HostStep(r) /\ UNCHANGED gin /\ seq' = seq
  BY DEF HostStep, Register, GinBarrier, Synchronize, Complete
<1>2. /\ HostsShare(r, e) /\ b \in Links /\ b[1] = e[2] /\ b[2] = e[1]
      /\ e[1] \in Ranks(d) /\ e[2] \in Ranks(d) /\ e[1] # e[2] /\ Gin(e) /\ Sends(e[1])
      /\ Links' = Links /\ Index(e)' = Index(e) /\ Depth(e)' = Depth(e) /\ Back(e)' = b
      /\ \A i : Lane(e, i)' = Lane(e, i) /\ Lane(b, i)' = Lane(b, i)
      /\ ToCopy(e) \in Nat \ {0} /\ ToCopy(b) \in Nat \ {0} /\ FarNumbers(e) /\ Depth(e) \in Nat \ {0}
      /\ LastStep(e) \in Nat /\ EndInv(e)
      /\ host \in [Ranks(d) -> HostPlaces] /\ error \in [Ranks(d) -> BOOLEAN]
  BY <1>1, FarHostFacts
<1>3. /\ puts'[e] = puts[e] /\ credits'[b] = credits[b] /\ unread' = unread
      /\ readySignal' = readySignal /\ creditSignal' = creditSignal
      /\ Given(e)' = Given(e) /\ Due(e)' = Due(e)
  BY <1>1, <1>2 DEF HostsShare, gin, Given, Due
\* The places of the hosts before and after.
<1>4. /\ (host'[r] \in {"register", "reset"}) <=> (host[r] \in {"register", "reset"})
      /\ Reached(r)' => Reached(r)
      /\ Begins(r)' => Begins(r) /\ host[r] # "kernel"
      /\ error'[r] \/ ~error[r] \/ host'[r] # "returned"
      /\ host[r] # "threw"
      /\ (host'[r] = "threw") => host[r] = "kernel" /\ error[r]
      /\ host[r] = "kernel" /\ host'[r] # "threw" => host'[r] = "returned" /\ Runs(r)
      /\ ~error'[r] => ~error[r]
  BY <1>2 DEF Register, GinBarrier, Synchronize, Complete, Reached, Begins, Runs
<1>5. Both(e)' <=> Both(e)
  BY <1>1, <1>2, <1>4 DEF Both, HostsShare
<1>6. FarAlone(e)' /\ FarQueue(e)'
  <2>1. (Reached(e[1])' => Reached(e[1])) /\ (Reached(e[2])' => Reached(e[2]))
    BY <1>2, <1>4 DEF HostsShare, Reached
  <2>2. QED
    BY <1>2, <1>3, <1>5, <2>1 DEF FarInv, FarAlone, FarQueue
<1>7. FarSender(e)'
  <2>1. CASE r = e[2]
    BY <1>2, <1>3, <1>5, <2>1 DEF FarInv, FarSender, HostsShare, Begins
  <2>2. CASE r = e[1]
    <3>1. ASSUME Both(e), Begins(r)'
          PROVE  Given(e) < ToCopy(e)' /\ (~error'[r] => Given(e) + 1 = ToPost(e)' /\ ToCopy(e)' - 1 <= creditSignal[b] + Depth(e))
      <4>1. ToCopy(e)' = ToCopy(e) /\ ToPost(e)' = ToPost(e)
        BY <1>2, <1>4, <2>2, <3>1 DEF HostsShare
      <4>2. QED
        BY <1>4, <2>2, <3>1, <4>1 DEF FarInv, FarSender
    <3>2. ASSUME Both(e), host'[r] \in {"returned", "idle"} PROVE Given(e) <= creditSignal[b]
      <4>1. CASE host[r] = "kernel"
        <5>1. Runs(r) /\ lead[e] = "out" /\ ToCopy(e) = LastStep(e) + 1
          BY <1>2, <1>4, <2>2, <3>2, <4>1 DEF HostsShare
        <5>2. LastStep(e) <= creditSignal[b]
          BY <1>2, <2>2, <5>1 DEF EndInv, EndDone, Known, Runs
        <5>3. Given(e) < ToCopy(e)
          BY <2>2, <3>2, <5>1 DEF FarInv, FarSender, Begins, Runs
        <5>4. QED
          BY <1>2, <5>1, <5>2, <5>3 DEF FarNumbers
      <4>2. CASE host[r] # "kernel"
        <5>1. host[r] \in {"returned", "idle"}
          BY <1>2, <3>2, <4>2 DEF Register, GinBarrier, Synchronize, Complete
        <5>2. QED
          BY <2>2, <3>2, <5>1 DEF FarInv, FarSender
      <4>3. QED
        BY <4>1, <4>2
    <3>3. QED
      BY <1>2, <1>3, <1>5, <2>2, <3>1, <3>2 DEF FarSender
  <2>3. QED
    BY <2>1, <2>2
<1>8. FarReceiver(e)'
  <2>1. CASE r = e[1]
    BY <1>2, <1>3, <1>5, <2>1 DEF FarInv, FarReceiver, HostsShare, Begins
  <2>2. CASE r = e[2]
    <3>1. ASSUME Begins(r)' PROVE ToCopy(b)' = ToCopy(b) /\ Credited(b)' = Credited(b)
      BY <1>2, <1>4, <2>2, <3>1 DEF HostsShare
    <3>2. QED
      BY <1>2, <1>3, <1>4, <1>5, <2>2, <3>1 DEF FarInv, FarReceiver
  <2>3. QED
    BY <2>1, <2>2
<1>9. FarStaged(e)'
  <2>1. ASSUME host'[e[1]] # "threw", NEW i \in Index(e), Lane(e, i) \in unread
        PROVE  \E t \in 1 .. ToCopy(e)' - 1 : t % Depth(e) = i /\ (Both(e) => readySignal[e] < t)
    <3>1. PICK t \in 1 .. ToCopy(e) - 1 : t % Depth(e) = i /\ (Both(e) => readySignal[e] < t)
      <4>1. host[e[1]] # "threw"
        BY <1>2, <1>4, <2>1 DEF HostsShare
      <4>2. QED
        BY <2>1, <4>1 DEF FarInv, FarStaged
    <3>2. ToCopy(e)' = ToCopy(e)
      <4>1. CASE r = e[2]
        BY <1>2, <4>1 DEF HostsShare
      <4>2. CASE r = e[1] /\ host[r] # "kernel"
        BY <1>2, <4>2 DEF HostsShare
      <4>3. CASE r = e[1] /\ host[r] = "kernel"
        <5>1. Runs(r) /\ lead[e] = "out" /\ ToCopy(e) = LastStep(e) + 1
          BY <1>2, <1>4, <2>1, <4>3 DEF HostsShare
        <5>2. LastStep(e) <= creditSignal[b]
          BY <1>2, <4>3, <5>1 DEF EndInv, EndDone, Known, Runs
        <5>3. Both(e)
          BY <1>2, <4>3, <5>1, RunsTogether DEF Base
        <5>4. Due(e) <= readySignal[e] /\ readySignal[e] < t
          BY <3>1, <5>3 DEF FarInv, FarQueue
        <5>5. QED
          BY <1>2, <3>1, <5>1, <5>2, <5>4 DEF FarNumbers
      <4>4. QED
        BY <4>1, <4>2, <4>3
    <3>3. QED
      BY <3>1, <3>2
  <2>2. QED
    BY <1>2, <1>3, <1>5, <2>1 DEF FarStaged
<1>10. FarLanded(e)'
  <2>1. ASSUME NEW i \in Index(e), Lane(b, i) \in unread
        PROVE  /\ Both(e)
               /\ \E t \in 1 .. readySignal[e] : /\ t % Depth(e) = i /\ Due(e) < t
                                                 /\ Runs(e[2])' => ToCopy(b)' <= t
    <3>1. PICK t \in 1 .. readySignal[e] : /\ t % Depth(e) = i /\ Due(e) < t
                                           /\ Runs(e[2]) => ToCopy(b) <= t
      BY <2>1 DEF FarInv, FarLanded
    <3>2. Both(e)
      BY <2>1 DEF FarInv, FarLanded
    <3>3. Runs(e[2])' => ToCopy(b)' <= t
      <4>1. CASE r = e[2]
        BY <1>2, <3>1, <4>1 DEF HostsShare
      <4>2. CASE r = e[1]
        BY <1>2, <3>1, <4>2 DEF HostsShare, Runs
      <4>3. QED
        BY <4>1, <4>2
    <3>4. QED
      BY <3>1, <3>2, <3>3
  <2>2. QED
    BY <1>2, <1>3, <1>5, <2>1 DEF FarLanded
<1>11. QED
  BY <1>6, <1>7, <1>8, <1>9, <1>10 DEF FarInv

LEMMA FarHosts ==
  ASSUME Base, Base', ReturnedInv, NEW r \in Ranks(d), HostStep(r), NEW e \in Links, Far(e), FarInv(e)
  PROVE  FarInv(e)'
<1>1. CASE r = e[1] \/ r = e[2]
  BY <1>1, FarLaunch, FarReset, FarCalls DEF HostStep
<1>2. CASE r # e[1] /\ r # e[2]
  <2>1. /\ HostsShare(r, e) /\ Back(e) \in Links /\ Back(e)[1] = e[2] /\ Back(e)[2] = e[1]
        /\ ToCopy(e) \in Nat \ {0} /\ ToCopy(Back(e)) \in Nat \ {0}
    BY FarHostFacts
  <2>2. Still(e) /\ Still(Back(e))
    BY <1>2, <2>1, HostOthers DEF Base
  <2>3. Steady(e) /\ Steady(Back(e))
    BY <2>1, <2>2, StillIsSteady
  <2>4. d' = d /\ plan' = plan /\ DOMAIN host' = DOMAIN host
    BY HostFrame DEF Base
  <2>5. Framed(e) /\ NoneAdded(e) /\ NoneAdded(Back(e))
    BY <1>2, <2>1, <2>4 DEF HostsShare, Framed, NoneAdded
  <2>6. QED
    BY <1>2, <2>1, <2>3, <2>5, FarKept DEF HostsShare
<1>3. QED
  BY <1>1, <1>2

\* Nobody else puts or credits anything.
LEMMA QueuesKept ==
  ASSUME Base, QueuesInv, [Next]_vars
  PROVE  QueuesInv'
<1>1. /\ d' = d /\ plan' = plan /\ DOMAIN host' = DOMAIN host /\ Links' = Links /\ TypeInv
  BY EndsKept DEF Base, LaunchInv
<1>2. ASSUME NEW e PROVE (Far(e)' <=> Far(e)) /\ Back(e)' = Back(e)
  BY <1>1, SameEnds DEF Far
<1>3. ASSUME NEW e, UNCHANGED <<d, plan>>, DOMAIN host' = DOMAIN host
      PROVE  Far(Back(e))' <=> Far(Back(e))
  BY <1>1, SameEnds DEF Far, Back
<1>4. /\ puts \in [Links -> Seq(Message)] /\ credits \in [Links -> Seq(Nat)]
      /\ creditSignal \in [Links -> Nat]
  BY DEF Base, StateTypes, ShareTypes
<1>5. SUFFICES ASSUME NEW e \in Links
               PROVE  /\ puts'[e] # <<>> => Far(e)
                      /\ credits'[e] # <<>> \/ creditSignal'[e] # 0 => Far(Back(e))
  BY <1>1, <1>2, <1>3 DEF QueuesInv
<1>6. /\ puts[e] # <<>> => Far(e)
      /\ credits[e] # <<>> \/ creditSignal[e] # 0 => Far(Back(e))
  BY DEF QueuesInv
<1>7. CASE QuietStep
  BY <1>6, <1>7 DEF QuietStep, gin
<1>8. ASSUME NEW x \in Links, CopyOut(x) \/ CopyIn(x)
      PROVE  UNCHANGED gin
  BY <1>8 DEF CopyOut, CopyIn
<1>9. ASSUME NEW x \in Links, Post(x)
      PROVE  /\ puts'[e] # <<>> => Far(e)
             /\ credits'[e] # <<>> \/ creditSignal'[e] # 0 => Far(Back(e))
  <2>1. creditSignal' = creditSignal
    BY <1>9 DEF Post
  <2>2. CASE error[x[1]] \/ ~Gin(x)
    BY <1>6, <1>9, <2>1, <2>2, FarPublished
  <2>3. CASE ~error[x[1]] /\ Gin(x) /\ Sends(x[1])
    <3>1. \E m : puts' = [puts EXCEPT ![x] = Append(@, m)] /\ credits' = credits
      BY <1>9, <2>3, FarPublished
    <3>2. Far(x)
      BY <2>3 DEF Far
    <3>3. e # x => puts'[e] = puts[e]
      BY <1>4, <3>1
    <3>4. QED
      BY <1>6, <2>1, <3>1, <3>2, <3>3
  <2>4. CASE ~error[x[1]] /\ Gin(x) /\ ~Sends(x[1])
    <3>1. \/ puts' = puts /\ credits' = credits
          \/ \E m : puts' = puts /\ credits' = [credits EXCEPT ![x] = Append(@, m)]
      BY <1>9, <2>4, FarPublished
    <3>2. Far(Back(x))
      BY <1>1, <2>4, LinkParts DEF Far
    <3>3. e # x => credits'[e] = credits[e]
      BY <1>4, <3>1
    <3>4. QED
      BY <1>6, <2>1, <3>1, <3>2, <3>3
  <2>5. QED
    BY <2>2, <2>3, <2>4
<1>10. ASSUME NEW l \in Links, DeliverPut(l)
       PROVE  puts'[e] # <<>> => puts[e] # <<>>
  <2>1. puts[l] # <<>> /\ puts' = [puts EXCEPT ![l] = Tail(@)]
    BY <1>10 DEF DeliverPut
  <2>2. e # l => puts'[e] = puts[e]
    BY <1>4, <2>1
  <2>3. QED
    BY <2>1, <2>2
<1>11. ASSUME NEW l \in Links, DeliverCredit(l)
       PROVE  /\ puts' = puts
              /\ credits'[e] # credits[e] \/ creditSignal'[e] # creditSignal[e] => credits[e] # <<>>
  <2>1. /\ puts' = puts
        /\ \A f \in Links \ {l} : creditSignal'[f] = creditSignal[f] /\ credits'[f] = credits[f]
    BY <1>11, CreditsDelivered DEF Base, DeliverCredit
  <2>2. credits[l] # <<>>
    BY <1>11 DEF DeliverCredit
  <2>3. QED
    BY <2>1, <2>2
<1>12. ASSUME NEW r \in Ranks(d), HostStep(r)
       PROVE  /\ puts' = puts /\ credits' = credits
              /\ creditSignal'[e] = creditSignal[e] \/ creditSignal'[e] = 0
  <2>1. puts' = puts /\ credits' = credits
    BY <1>12, HostFrame DEF Base
  <2>2. UNCHANGED creditSignal \/ creditSignal' = [l \in Links |-> IF l[2] = r THEN 0 ELSE creditSignal[l]]
    BY <1>4, <1>12 DEF HostStep, Launch, Register, Reset, GinBarrier, Synchronize, Complete, gin
  <2>3. QED
    BY <2>1, <2>2
<1>13. QED
  <2>1. ASSUME NEW x \in Links, CopyOut(x) \/ CopyIn(x) \/ Post(x)
        PROVE  /\ puts'[e] # <<>> => Far(e)
               /\ credits'[e] # <<>> \/ creditSignal'[e] # 0 => Far(Back(e))
    BY <1>6, <1>8, <1>9, <2>1 DEF gin
  <2>2. ASSUME NEW l \in Links, DeliverPut(l) \/ DeliverCredit(l)
        PROVE  /\ puts'[e] # <<>> => Far(e)
               /\ credits'[e] # <<>> \/ creditSignal'[e] # 0 => Far(Back(e))
    <3>1. CASE DeliverPut(l)
      BY <1>6, <1>10, <3>1 DEF DeliverPut
    <3>2. CASE DeliverCredit(l)
      BY <1>6, <1>11, <3>2
    <3>3. QED
      BY <2>2, <3>1, <3>2
  <2>3. ASSUME NEW r \in Ranks(d), HostStep(r)
        PROVE  /\ puts'[e] # <<>> => Far(e)
               /\ credits'[e] # <<>> \/ creditSignal'[e] # 0 => Far(Back(e))
    BY <1>6, <1>12, <2>3
  <2>4. QED
    BY <1>7, <2>1, <2>2, <2>3, StepKinds DEF Base

-----------------------------------------------------------------------------
(***************************************************************************)
(* The streams together.                                                   *)
(***************************************************************************)
StreamInv == Base /\ BegunInv /\ ReturnedInv /\ QueuesInv /\ NearsInv /\ FarsInv

LEMMA StreamStart ==
  ASSUME Init, StepsInOrder
  PROVE  StreamInv
<1>1. Base /\ unread = {}
  BY LaunchStart, EndsStart DEF Base
<1>2. TypeInv /\ DOMAIN host = Ranks(d)
  BY <1>1 DEF Base, LaunchInv, TypeInv
<1>3. /\ host = [r \in Ranks(d) |-> "idle"]
      /\ lead = [e \in Links |-> "out"] /\ cache = [e \in Links |-> 0]
      /\ puts = [l \in Links |-> <<>>] /\ credits = [l \in Links |-> <<>>]
      /\ readySignal = [l \in Links |-> 0] /\ creditSignal = [l \in Links |-> 0]
  BY DEF Init
<1>4. \A e \in Links : /\ e[1] \in Ranks(d) /\ e[2] \in Ranks(d) /\ Back(e) \in Links
                       /\ host[e[1]] = "idle" /\ host[e[2]] = "idle" /\ ToCopy(e) = 1
  BY <1>2, <1>3, LinkParts DEF ToCopy
<1>5. BegunInv
  BY <1>4 DEF BegunInv
<1>6. ReturnedInv
  BY <1>3 DEF ReturnedInv
<1>7. QueuesInv
  BY <1>3 DEF QueuesInv
<1>8. NearsInv
  BY <1>1, <1>3, <1>4 DEF NearsInv, NearInv, NearWords, NearCaches, NearLanes, Begins
<1>9. FarsInv
  <2>1. ASSUME NEW e \in Links, Far(e) PROVE FarInv(e)
    <3>1. /\ puts[e] = <<>> /\ credits[Back(e)] = <<>>
          /\ readySignal[e] = 0 /\ creditSignal[Back(e)] = 0
      BY <1>3, <1>4
    <3>2. Total(credits[Back(e)]) = 0 /\ Len(puts[e]) = 0
      BY <3>1, TotalOfNone
    <3>3. Due(e) = 0 /\ Given(e) = 0 /\ Depth(e) \in Nat
      BY <1>2, <3>1, <3>2, LinkParts DEF Due, Given
    <3>4. FarAlone(e)
      BY <3>1, <3>2 DEF FarAlone
    <3>5. FarQueue(e)
      BY <3>1, <3>2, <3>3 DEF FarQueue
    <3>6. FarSender(e) /\ FarReceiver(e)
      BY <1>4, <3>1, <3>3 DEF FarSender, FarReceiver, Begins
    <3>7. FarStaged(e) /\ FarLanded(e)
      BY <1>1 DEF FarStaged, FarLanded
    <3>8. QED
      BY <3>4, <3>5, <3>6, <3>7 DEF FarInv
  <2>2. QED
    BY <2>1 DEF FarsInv
<1>10. QED
  BY <1>1, <1>5, <1>6, <1>7, <1>8, <1>9 DEF StreamInv

\* A step that neither publishes nor copies nor delivers.
LEMMA StreamsQuiet ==
  ASSUME Base, Base', QuietStep, NEW e \in Links
  PROVE  /\ Near(e) /\ NearInv(e) => NearInv(e)'
         /\ Far(e) /\ FarInv(e) => FarInv(e)'
<1>1. TypeInv /\ Back(e) \in Links
  BY LinkParts DEF Base, LaunchInv
<1>2. /\ Kept /\ fifo' = fifo /\ gin' = gin /\ unread' = unread
      /\ Steady(e) /\ Loads(e) /\ Steady(Back(e)) /\ Loads(Back(e))
  BY <1>1 DEF QuietStep
<1>3. Framed(e) /\ NoneAdded(e) /\ NoneAdded(Back(e))
  BY <1>1, <1>2, KeptIsFramed DEF NoneAdded
<1>4. Near(e) /\ NearInv(e) => NearInv(e)'
  BY <1>2, <1>3, NearKept DEF fifo
<1>5. Far(e) /\ FarInv(e) => FarInv(e)'
  BY <1>2, <1>3, FarKept DEF gin
<1>6. QED
  BY <1>4, <1>5

LEMMA StreamKept ==
  ASSUME StreamInv, [Next]_vars
  PROVE  StreamInv'
<1>1. Base /\ BegunInv /\ ReturnedInv /\ QueuesInv /\ NearsInv /\ FarsInv
  BY DEF StreamInv
<1>2. LaunchInv /\ StepsInOrder /\ StateTypes /\ EndsInv
  BY <1>1 DEF Base
<1>3. /\ StateTypes' /\ EndsInv' /\ d' = d /\ plan' = plan /\ DOMAIN host' = DOMAIN host
      /\ Links' = Links
  BY <1>2, EndsKept
<1>4. Base'
  BY <1>2, <1>3, LaunchKept, OrderIsKept DEF Base
<1>5. BegunInv' /\ ReturnedInv' /\ QueuesInv'
  BY <1>1, <1>2, BegunKept, ReturnedKept, QueuesKept
<1>6. \A e : (Near(e)' <=> Near(e)) /\ (Far(e)' <=> Far(e))
  BY <1>3, SameEnds DEF Far
<1>7. ASSUME NEW e \in Links
      PROVE  /\ Near(e) => NearInv(e)'
             /\ Far(e) => FarInv(e)'
  <2>1. (Near(e) => NearInv(e)) /\ (Far(e) => FarInv(e))
    BY <1>1 DEF NearsInv, FarsInv
  <2>2. CASE QuietStep
    BY <1>1, <1>4, <2>1, <2>2, StreamsQuiet
  <2>3. ASSUME NEW x \in Links, CopyOut(x) \/ CopyIn(x)
        PROVE  (Near(e) => NearInv(e)') /\ (Far(e) => FarInv(e)')
    BY <1>1, <1>4, <2>1, <2>3, NearCopies, FarCopies
  <2>4. ASSUME NEW x \in Links, Post(x)
        PROVE  (Near(e) => NearInv(e)') /\ (Far(e) => FarInv(e)')
    BY <1>1, <1>4, <2>1, <2>4, NearPosts, FarPosts
  <2>5. ASSUME NEW l \in Links, DeliverPut(l) \/ DeliverCredit(l)
        PROVE  (Near(e) => NearInv(e)') /\ (Far(e) => FarInv(e)')
    BY <1>1, <1>4, <2>1, <2>5, NearPuts, FarPuts, FarCredits
  <2>6. ASSUME NEW r \in Ranks(d), HostStep(r)
        PROVE  (Near(e) => NearInv(e)') /\ (Far(e) => FarInv(e)')
    BY <1>1, <1>4, <2>1, <2>6, NearHosts, FarHosts
  <2>7. QED
    BY <1>2, <2>2, <2>3, <2>4, <2>5, <2>6, StepKinds
<1>8. NearsInv' /\ FarsInv'
  BY <1>3, <1>6, <1>7 DEF NearsInv, FarsInv
<1>9. QED
  BY <1>4, <1>5, <1>8 DEF StreamInv

\* A sender's slot is free when it copies into it.
LEMMA CopiesAreFree ==
  ASSUME StreamInv, NEW e \in Links, lead[e] = "copy", Sends(e[1]), filled[e]
  PROVE  CopySlot(e, slice[e]) \notin unread
<1> DEFINE b == Back(e)
           i == ToCopy(e) % Depth(e)
<1>1. Base /\ NearsInv /\ FarsInv /\ LaunchInv /\ StepsInOrder /\ StateTypes /\ EndsInv
  BY DEF StreamInv, Base
<1>2. /\ CopySlot(e, slice[e]) = Lane(e, i)
      /\ EndInv(e) /\ Serving(e) /\ host[e[1]] = "kernel"
  <2>1. Owns(e)
    BY DEF Owns
  <2>2. CopySlot(e, slice[e]) = Lane(e, i) /\ EndInv(e)
    BY <1>1, <2>1, CopySlotIs DEF EndsInv
  <2>3. Serving(e)
    BY <2>2 DEF EndInv, EndShape
  <2>4. QED
    BY <1>1, <2>2, <2>3, Served
<1>3. /\ ToCopy(e) \in Nat \ {0} /\ Depth(e) \in Nat \ {0} /\ cache[e] \in Nat
  BY <1>1, NumbersHold DEF NumbersInv, Numbers
<1>4. i \in Index(e)
  BY <1>3 DEF Index
<1>5. ToCopy(e) <= Known(e) + Depth(e)
  BY <1>2 DEF EndInv, EndCopy, Room
<1>6. ASSUME NEW t \in 1 .. ToCopy(e) - 1, t % Depth(e) = i
      PROVE  t <= Known(e) /\ Known(e) \in Int
  <2>1. t <= ToCopy(e) - Depth(e)
    BY <1>3, <1>6, SameRemainder
  <2>2. Known(e) \in Int
    <3>1. creditSignal[b] \in Nat
      BY <1>1, LinkParts, NumbersHold DEF LaunchInv, NumbersInv, Numbers
    <3>2. QED
      BY <1>3, <3>1 DEF Known
  <2> HIDE DEF i
  <2>3. QED
    BY <1>3, <1>5, <2>1, <2>2
<1>7. SUFFICES ASSUME Lane(e, i) \in unread PROVE FALSE
  BY <1>2
<1>8. CASE ~Gin(e)
  <2>1. NearLanes(e)
    BY <1>1, <1>8 DEF NearsInv, NearInv, Near
  <2>2. PICK t \in 1 .. ToCopy(e) - 1 : t % Depth(e) = i /\ cache[e] < t
    BY <1>2, <1>4, <1>7, <2>1 DEF NearLanes
  <2>3. Known(e) = cache[e]
    BY <1>8 DEF Known
  <2>4. QED
    BY <1>3, <1>6, <2>2, <2>3
<1>9. CASE Gin(e)
  <2>1. FarInv(e) /\ Known(e) = creditSignal[b] /\ FarNumbers(e)
    BY <1>1, <1>9, FarNumbersHold DEF FarsInv, Far, Known, FarNumbersInv
  <2>2. PICK t \in 1 .. ToCopy(e) - 1 : t % Depth(e) = i /\ (Both(e) => readySignal[e] < t)
    BY <1>2, <1>4, <1>7, <2>1 DEF FarInv, FarStaged
  <2>3. t <= creditSignal[b]
    BY <1>6, <2>1, <2>2
  <2>4. CASE Both(e)
    BY <2>1, <2>2, <2>3, <2>4 DEF FarInv, FarQueue, FarNumbers
  <2>5. CASE ~Both(e)
    BY <1>2, <2>1, <2>2, <2>3, <2>5 DEF FarInv, FarAlone, Reached
  <2>6. QED
    BY <2>4, <2>5
<1>10. QED
  BY <1>8, <1>9

\* A put finds the receiver's slot taken.
LEMMA PutsAreFree ==
  ASSUME StreamInv, NEW l \in Links, puts[l] # <<>>
  PROVE  Payload(l[2], l[1], l[3], Head(puts[l]).step, Head(puts[l]).depth) \notin unread
<1> DEFINE b == Back(l)
           n == readySignal[l] + 1
           i == n % Depth(l)
<1>1. /\ Base /\ Far(l) /\ FarInv(l) /\ FarNumbers(l) /\ LaunchInv
  BY FarNumbersHold DEF StreamInv, Base, QueuesInv, FarsInv, FarNumbersInv
<1>2. Both(l)
  BY <1>1 DEF FarInv, FarAlone
<1>3. /\ b[1] = l[2] /\ b[2] = l[1] /\ b[3] = l[3] /\ Depth(l) \in Nat \ {0}
  BY <1>1, LinkParts DEF LaunchInv
<1>4. puts[l] \in Seq(Message) /\ Len(puts[l]) \in Nat /\ readySignal[l] \in Nat
  BY <1>1, NumbersHold DEF NumbersInv, Numbers
<1>5. /\ Len(puts[l]) >= 1 /\ Head(puts[l]) = puts[l][1] /\ 1 \in 1 .. Len(puts[l])
  BY <1>4
<1>6. Head(puts[l]) = [step |-> n, depth |-> Depth(l)]
  BY <1>1, <1>2, <1>5 DEF FarInv, FarQueue
<1>7. Payload(l[2], l[1], l[3], Head(puts[l]).step, Head(puts[l]).depth) = Lane(b, i)
  BY <1>3, <1>6 DEF Payload, Lane
<1>8. i \in Index(l) /\ n \in Nat
  BY <1>3, <1>4 DEF Index
<1>9. n <= creditSignal[b] + Depth(l)
  <2>1. n <= Given(l) /\ Given(l) \in Nat
    BY <1>1, <1>4, <1>5 DEF Given, FarNumbers
  <2>2. Given(l) <= creditSignal[b] + Depth(l) /\ creditSignal[b] \in Nat
    BY <1>1, <1>2 DEF FarInv, FarQueue, FarNumbers
  <2> HIDE DEF n
  <2>3. QED
    BY <1>3, <1>8, <2>1, <2>2
<1>10. SUFFICES ASSUME Lane(b, i) \in unread PROVE FALSE
  BY <1>7
<1>11. PICK t \in 1 .. readySignal[l] : t % Depth(l) = i /\ Due(l) < t
  BY <1>1, <1>8, <1>10 DEF FarInv, FarLanded
<1>12. t < n /\ t \in Nat
  BY <1>4, <1>11
<1>13. t <= n - Depth(l)
  BY <1>3, <1>8, <1>11, <1>12, SameRemainder
<1> HIDE DEF n, i
<1>14. QED
  BY <1>1, <1>3, <1>8, <1>9, <1>11, <1>12, <1>13 DEF FarNumbers

\* The steps of all streams, whatever the deployments and the plans, as long
\* as a plan numbers the steps of every end in order.
THEOREM StreamInductive == Spec /\ StepsInOrder => []StreamInv
<1>1. StreamInv /\ [Next]_vars => StreamInv'
  BY StreamKept
<1>2. Init /\ StepsInOrder => StreamInv
  BY StreamStart
<1>3. QED
  BY <1>1, <1>2, PTL DEF Spec

\* Nothing is copied over a payload that nobody has taken yet: the sender
\* waits for the slot's step to be consumed or credited (v2WaitFree,
\* v2GinRunSend), and puts no more steps than the receiver's window has slots.
THEOREM PayloadsAreTaken == Spec /\ StepsInOrder => []NoOverwrite
<1>1. StreamInv => NoOverwrite
  <2>1. SUFFICES ASSUME StreamInv PROVE NoOverwrite
    OBVIOUS
  <2>2. DOMAIN lead = Links /\ DOMAIN puts = Links
    BY <2>1 DEF StreamInv, Base, StateTypes, ThreadTypes, ShareTypes
  <2>3. QED
    BY <2>1, <2>2, CopiesAreFree, PutsAreFree DEF NoOverwrite
<1>2. QED
  BY <1>1, StreamInductive, PTL

\* A sender is never credited for a step that did not arrive: credits are
\* of steps the receiver has waited for, and those under way when a rank
\* clears its signals are of nobody (v2GinRunRecv, v2GinResetSignalsKernel).
THEOREM CreditsAreEarned == Spec /\ StepsInOrder => []NoCreditInAdvance
<1>1. StreamInv => NoCreditInAdvance
  <2>1. SUFFICES ASSUME StreamInv, NEW l \in DOMAIN puts, ~Sends(l[1]), Runs(l[1])
                 PROVE  creditSignal[l] <= readySignal[Back(l)]
    BY DEF NoCreditInAdvance, Runs
  <2>2. Base /\ LaunchInv /\ TypeInv /\ DOMAIN puts = Links
    BY <2>1 DEF StreamInv, Base, LaunchInv, StateTypes, ShareTypes
  <2>3. /\ l \in Links /\ Back(l) \in Links /\ Back(Back(l)) = l
        /\ creditSignal[l] \in Nat /\ readySignal[Back(l)] \in Nat
    <3>1. l \in Links /\ Back(l) \in Links /\ Back(Back(l)) = l
      BY <2>1, <2>2, LinkParts
    <3>2. QED
      BY <2>2, <3>1, NumbersHold DEF NumbersInv, Numbers
  <2>4. CASE creditSignal[l] = 0
    BY <2>3, <2>4
  <2>5. CASE creditSignal[l] # 0
    <3>1. Far(Back(l)) /\ FarInv(Back(l)) /\ FarNumbers(Back(l))
      BY <2>1, <2>2, <2>3, <2>5, FarNumbersHold DEF StreamInv, QueuesInv, FarsInv, FarNumbersInv
    <3>2. Gin(l)
      BY <2>2, <2>3, <3>1, LinkParts DEF Far
    <3>3. Both(Back(l))
      BY <2>1, <2>2, <2>3, <3>2, RunsTogether
    <3>4. QED
      BY <2>3, <3>1, <3>3 DEF FarInv, FarQueue, FarNumbers
  <2>6. QED
    BY <2>4, <2>5
<1>2. QED
  BY <1>1, StreamInductive, PTL
=============================================================================
