------------------------- MODULE TransferPlanProofs -------------------------
(***************************************************************************)
(* Proofs about TransferPlan, for every deployment, any shards and any     *)
(* threshold of pruning.                                                   *)
(***************************************************************************)
EXTENDS TransferPlan, FiniteNumbers, SequenceTheorems

-----------------------------------------------------------------------------
(***************************************************************************)
(* The plans of two ranks.                                                 *)
(***************************************************************************)

\* What is a training rank is not an inference rank.
LEMMA SidesAreDisjoint ==
  ASSUME NEW d \in Deployments
  PROVE  TrainRanks(d) \cap InferRanks(d) = {}
<1>1. InferWorld(d) \in Nat
  BY DeploymentsAssumption DEF InferWorld
<1>2. QED
  BY <1>1, DeploymentsAssumption DEF TrainRanks, InferRanks

\* The operations of a rank, whatever it keeps: one for each pair of shards of
\* assigned replicas that it looks at and that overlap.
LEMMA OperationsOf ==
  ASSUME NEW r, NEW d, NEW op
  PROVE  op \in MappingOperations(r, d) <=>
           \E name \in Names(d.infer) \cap Names(d.train) :
             \E i \in 0 .. d.engines * Len(d.infer[name]) - 1 :
               \E j \in Assigned(i, name, d) :
                 \E p \in Regions(name, i, j, r, d) :
                   op = Operation(name, p[1].rank, p[1], p[2].rank, p[2])
<1> DEFINE Ops(name, i, j) ==
             {Operation(name, p[1].rank, p[1], p[2].rank, p[2]) :
                p \in Regions(name, i, j, r, d)}
           OfReplica(name, i) == UNION {Ops(name, i, j) : j \in Assigned(i, name, d)}
<1>1. \A name, i, j : op \in Ops(name, i, j) <=>
        \E p \in Regions(name, i, j, r, d) :
          op = Operation(name, p[1].rank, p[1], p[2].rank, p[2])
  OBVIOUS
<1> HIDE DEF Ops
<1>2. \A name, i : op \in OfReplica(name, i) <=>
        \E j \in Assigned(i, name, d) : op \in Ops(name, i, j)
  OBVIOUS
<1>3. \A name : ParameterOperations(name, r, d) =
        UNION {OfReplica(name, i) : i \in 0 .. d.engines * Len(d.infer[name]) - 1}
  BY DEF ParameterOperations, Ops
<1> HIDE DEF OfReplica
<1>4. \A name : op \in ParameterOperations(name, r, d) <=>
        \E i \in 0 .. d.engines * Len(d.infer[name]) - 1 : op \in OfReplica(name, i)
  BY <1>3
<1>5. op \in MappingOperations(r, d) <=>
        \E name \in Names(d.infer) \cap Names(d.train) :
          op \in ParameterOperations(name, r, d)
  BY DEF MappingOperations
<1>6. QED
  BY <1>1, <1>2, <1>4, <1>5

\* A training rank and an inference rank find the same operations between them,
\* although, when the plans are pruned, they look at different shards.
LEMMA SameOperations ==
  ASSUME NEW d \in Deployments, NEW s \in TrainRanks(d), NEW r \in InferRanks(d),
         NEW op, op.send_rank = s, op.recv_rank = r
  PROVE  op \in MappingOperations(s, d) <=> op \in MappingOperations(r, d)
<1>1. s \notin InferRanks(d) /\ r \notin TrainRanks(d)
  BY SidesAreDisjoint
<1>2. s \in Ranks(d) /\ r \in Ranks(d)
  BY DEF Ranks
<1>3. \A x \in {s, r} :
        /\ s \in Kept(x \in TrainRanks(d), x, d)
        /\ r \in Kept(x \in InferRanks(d), x, d)
  BY <1>1, <1>2 DEF Kept
<1>4. \A name, sr, a, rr, b : op = Operation(name, sr, a, rr, b) => sr = s /\ rr = r
  BY DEF Operation
<1>5. ASSUME NEW name, NEW i, NEW j, NEW p,
             op = Operation(name, p[1].rank, p[1], p[2].rank, p[2])
      PROVE  p \in Regions(name, i, j, s, d) <=> p \in Regions(name, i, j, r, d)
  <2>1. p[1].rank = s /\ p[2].rank = r
    BY <1>4, <1>5
  <2>2. QED
    BY <1>3, <2>1 DEF Regions
<1>6. QED
  BY <1>5, OperationsOf

\* A training rank's list for an inference rank is that rank's list for it.
LEMMA SamePlans ==
  ASSUME NEW d \in Deployments, NEW s \in TrainRanks(d), NEW r \in InferRanks(d)
  PROVE  /\ r \in DOMAIN LocalPlan(s, d) <=> s \in DOMAIN LocalPlan(r, d)
         /\ r \in DOMAIN LocalPlan(s, d) => LocalPlan(s, d)[r] = LocalPlan(r, d)[s]
<1> DEFINE Sent     == {op \in MappingOperations(s, d) : op.send_rank = s}
           Received == {op \in MappingOperations(r, d) : op.recv_rank = r}
<1>1. r \notin TrainRanks(d)
  BY SidesAreDisjoint
<1>2. LocalPlan(s, d) = [peer \in {op.recv_rank : op \in Sent} |->
                           Sorted({op \in Sent : op.recv_rank = peer})]
  BY DEF LocalPlan
<1>3. LocalPlan(r, d) = [peer \in {op.send_rank : op \in Received} |->
                           Sorted({op \in Received : op.send_rank = peer})]
  BY <1>1 DEF LocalPlan
<1>4. {op \in Sent : op.recv_rank = r} = {op \in Received : op.send_rank = s}
  BY SameOperations
<1> HIDE DEF Sent, Received
<1>5. /\ r \in DOMAIN LocalPlan(s, d) <=> {op \in Sent : op.recv_rank = r} # {}
      /\ r \in DOMAIN LocalPlan(s, d) =>
           LocalPlan(s, d)[r] = Sorted({op \in Sent : op.recv_rank = r})
  BY <1>2
<1>6. /\ s \in DOMAIN LocalPlan(r, d) <=> {op \in Received : op.send_rank = s} # {}
      /\ s \in DOMAIN LocalPlan(r, d) =>
           LocalPlan(r, d)[s] = Sorted({op \in Received : op.send_rank = s})
  BY <1>3
<1>7. QED
  BY <1>4, <1>5, <1>6, Zenon
-----------------------------------------------------------------------------
(***************************************************************************)
(* The theorem.                                                            *)
(***************************************************************************)

\* Every plan is the one its rank derives from the shared metadata.
PlansAreLocal ==
  /\ deployment \in Deployments
  /\ DOMAIN status = Ranks(deployment)
  /\ DOMAIN plan = Ranks(deployment)
  /\ \A r \in Ranks(deployment) :
       \/ /\ status[r] = "built" /\ ~KeyMismatch(deployment)
          /\ plan[r] = LocalPlan(r, deployment)
       \/ status[r] # "built" /\ plan[r] = NoPlan

LEMMA PlansAreLocalInv == Spec => []PlansAreLocal
<1>1. Init => PlansAreLocal
  BY DEF Init, PlansAreLocal
<1>2. PlansAreLocal /\ [Next]_vars => PlansAreLocal'
  <2> SUFFICES ASSUME PlansAreLocal, [Next]_vars
               PROVE  PlansAreLocal'
    OBVIOUS
  <2> USE DEF PlansAreLocal
  <2>1. ASSUME NEW r \in Ranks(deployment), Build(r)
        PROVE  PlansAreLocal'
    <3>1. CASE KeyMismatch(deployment)
      BY <2>1, <3>1 DEF Build
    <3>2. CASE ~KeyMismatch(deployment)
      BY <2>1, <3>2 DEF Build
    <3>3. QED
      BY <3>1, <3>2
  <2>2. ASSUME NEW s \in TrainRanks(deployment), NEW r \in InferRanks(deployment),
               ExchangeBatch(s, r) \/ ExchangeOne(s, r)
        PROVE  PlansAreLocal'
    BY <2>2 DEF ExchangeBatch, ExchangeOne, Move, Advance
  <2>3. CASE UNCHANGED vars
    BY <2>3 DEF vars
  <2>4. QED
    BY <2>1, <2>2, <2>3 DEF Next
<1>3. QED
  BY <1>1, <1>2, PTL DEF Spec

LEMMA LocalPlansAgree == PlansAreLocal => PairsAgree
<1> SUFFICES ASSUME PlansAreLocal,
                    NEW s \in TrainRanks(deployment), NEW r \in InferRanks(deployment),
                    {status[s], status[r]} = {"built"}
             PROVE  With(s, r) = With(r, s)
  BY DEF PairsAgree
<1>1. deployment \in Deployments
  BY DEF PlansAreLocal
<1>2. plan[s] = LocalPlan(s, deployment) /\ plan[r] = LocalPlan(r, deployment)
  <2>1. status[s] = "built" /\ status[r] = "built"
    OBVIOUS
  <2>2. QED
    BY <2>1 DEF PlansAreLocal, Ranks
<1>3. QED
  BY <1>1, <1>2, SamePlans DEF With

\* Two ranks that have built their plans agree on all their operations and on the
\* order, pruned or not.
THEOREM PlansAgree == Spec => []PairsAgree
BY LocalPlansAgree, PlansAreLocalInv, PTL
-----------------------------------------------------------------------------
(***************************************************************************)
(* The operations of one receiver.                                         *)
(***************************************************************************)

\* Max and Min of two numbers.
LEMMA MaxMin ==
  ASSUME NEW x \in Int, NEW y \in Int
  PROVE  /\ Max({x, y}) \in Int /\ Max({x, y}) >= x /\ Max({x, y}) >= y
         /\ Max({x, y}) = x \/ Max({x, y}) = y
         /\ Min({x, y}) \in Int /\ Min({x, y}) <= x /\ Min({x, y}) <= y
         /\ Min({x, y}) = x \/ Min({x, y}) = y
<1>1. \E m \in {x, y} : \A z \in {x, y} : z <= m
  OBVIOUS
<1>2. \E m \in {x, y} : \A z \in {x, y} : m <= z
  OBVIOUS
<1>3. QED
  BY <1>1, <1>2 DEF Max, Min

\* Quotient and remainder.
LEMMA Division ==
  ASSUME NEW x \in Nat, NEW m \in Nat \ {0}
  PROVE  /\ x \div m \in Nat /\ x % m \in Nat /\ (x % m) + 1 \in 1 .. m
         /\ x = m * (x \div m) + (x % m)
OBVIOUS

\* The bounds of a box are numbers in every dimension.
LEMMA BoxIsNumbers ==
  ASSUME NEW a \in Seq(Nat), NEW b \in Seq(Nat), Len(b) = Len(a)
  PROVE  \A x \in DOMAIN a : a[x] \in Nat /\ b[x] \in Nat
<1>1. a \in [1 .. Len(a) -> Nat] /\ b \in [1 .. Len(a) -> Nat]
  OBVIOUS
<1>2. QED
  BY <1>1

\* A transfer rank below the inference world tells the engine: places of two
\* replicas of the same length L whose ranks are equal are of the same engine.
LEMMA SameEngine ==
  ASSUME NEW n \in Nat \ {0}, NEW a \in 0 .. n - 1, NEW b \in 0 .. n - 1,
         NEW p \in Nat, NEW q \in Nat, a + p * n = b + q * n
  PROVE  a = b /\ p = q
<1>1. CASE p < q
  <2>1. q * n = p * n + (q - p) * n
    BY <1>1
  <2>2. (q - p) * n >= n
    BY <1>1
  <2>3. p * n \in Nat /\ (q - p) * n \in Int
    BY <1>1
  <2>4. QED
    BY <2>1, <2>2, <2>3
<1>2. CASE q < p
  <2>1. p * n = q * n + (p - q) * n
    BY <1>2
  <2>2. (p - q) * n >= n
    BY <1>2
  <2>3. q * n \in Nat /\ (p - q) * n \in Int
    BY <1>2
  <2>4. QED
    BY <2>1, <2>2, <2>3
<1>3. CASE p = q
  <2>1. p * n \in Nat
    OBVIOUS
  <2>2. QED
    BY <1>3, <2>1
<1>4. QED
  BY <1>1, <1>2, <1>3

\* A rank of the transfer group receives a parameter in one place of one replica.
LEMMA OneReceiver ==
  ASSUME NEW d \in Deployments, NEW name \in DOMAIN d.infer,
         NEW i \in 0 .. d.engines * Len(d.infer[name]) - 1,
         NEW k \in 0 .. d.engines * Len(d.infer[name]) - 1,
         NEW s \in InferReplica(i, name, d), NEW t \in InferReplica(k, name, d),
         s.rank = t.rank
  PROVE  i = k /\ s = t
<1> DEFINE L == Len(d.infer[name])
<1>1. /\ d.instance \in Nat \ {0} /\ d.engines \in Nat \ {0}
      /\ L \in Nat \ {0} /\ DOMAIN d.infer[name] = 1 .. L
  BY DeploymentsAssumption, MetadataAssumption
<1>2. d.engines * L \in Nat
  BY <1>1
<1>3. /\ i \in Nat /\ k \in Nat
      /\ i \div L \in Nat /\ k \div L \in Nat
      /\ i % L \in Nat /\ k % L \in Nat
      /\ (i % L) + 1 \in 1 .. L /\ (k % L) + 1 \in 1 .. L
      /\ i = L * (i \div L) + (i % L) /\ k = L * (k \div L) + (k % L)
  <2>1. i \in Nat /\ k \in Nat
    BY <1>2
  <2>2. L \in Nat \ {0}
    BY <1>1
  <2>3. /\ i \div L \in Nat /\ k \div L \in Nat
        /\ i % L \in Nat /\ k % L \in Nat
        /\ (i % L) + 1 \in 1 .. L /\ (k % L) + 1 \in 1 .. L
        /\ i = L * (i \div L) + (i % L) /\ k = L * (k \div L) + (k % L)
    BY <2>1, <2>2, Division
  <2>4. QED
    BY <2>1, <2>3
<1>4. PICK a \in d.infer[name][(i % L) + 1] : s = Placed(a, a.rank + (i \div L) * d.instance)
  BY DEF InferReplica, InferTransferRank
<1>5. PICK b \in d.infer[name][(k % L) + 1] : t = Placed(b, b.rank + (k \div L) * d.instance)
  BY DEF InferReplica, InferTransferRank
<1>6. a.rank \in 0 .. d.instance - 1 /\ b.rank \in 0 .. d.instance - 1
  BY <1>1, <1>3, MetadataAssumption
<1>7. a.rank + (i \div L) * d.instance = b.rank + (k \div L) * d.instance
  BY <1>4, <1>5 DEF Placed
<1>8. a.rank = b.rank /\ i \div L = k \div L
  <2> DEFINE n == d.instance
             p == i \div L
             q == k \div L
             x == a.rank
             y == b.rank
  <2>1. n \in Nat \ {0} /\ p \in Nat /\ q \in Nat
    BY <1>1, <1>3
  <2>2. x \in 0 .. n - 1 /\ y \in 0 .. n - 1 /\ x + p * n = y + q * n
    BY <1>6, <1>7
  <2>3. x = y /\ p = q
    <3> HIDE DEF n, p, q, x, y
    <3>1. QED
      BY <2>1, <2>2, SameEngine, SMTT(30)
  <2>4. QED
    BY <2>3
<1>9. i % L = k % L /\ a = b
  <2>1. RankHasOneShard(d.infer)
    BY MetadataAssumption
  <2>2. (i % L) + 1 = (k % L) + 1 /\ a = b
    <3> DEFINE u == (i % L) + 1
               v == (k % L) + 1
    <3>1. u \in DOMAIN d.infer[name] /\ v \in DOMAIN d.infer[name]
      BY <1>1, <1>3
    <3>2. a \in d.infer[name][u] /\ b \in d.infer[name][v]
      OBVIOUS
    <3> HIDE DEF u, v
    <3>3. u = v /\ a = b
      BY <1>8, <2>1, <3>1, <3>2 DEF RankHasOneShard
    <3>4. QED
      BY <3>3 DEF u, v
  <2> DEFINE u == i % L
             v == k % L
  <2>3. u \in Nat /\ v \in Nat /\ u + 1 = v + 1 /\ a = b
    BY <1>3, <2>2
  <2> HIDE DEF u, v
  <2>4. u = v /\ a = b
    BY <2>3
  <2>5. QED
    BY <2>4 DEF u, v
<1>10. QED
  BY <1>3, <1>4, <1>5, <1>8, <1>9

\* What two senders whose shards are apart write into one shard is apart.
LEMMA ApartIsKept ==
  ASSUME NEW name, NEW s, NEW t, NEW r, Apart(s, t),
         DOMAIN s.offset = DOMAIN r.offset, DOMAIN t.offset = DOMAIN r.offset,
         \A x \in DOMAIN r.offset :
           /\ s.offset[x] \in Nat /\ s.shape[x] \in Nat
           /\ t.offset[x] \in Nat /\ t.shape[x] \in Nat
           /\ r.offset[x] \in Nat /\ r.shape[x] \in Nat
  PROVE  LET op1 == Operation(name, s.rank, s, r.rank, r)
             op2 == Operation(name, t.rank, t, r.rank, r)
         IN Below(op1, op2) \/ Below(op2, op1)
<1> DEFINE op(b) == Operation(name, b.rank, b, r.rank, r)
<1>1. ASSUME NEW b \in {s, t}, NEW x \in DOMAIN r.offset
      PROVE  /\ x \in DOMAIN op(b).shape
             /\ op(b).recv_offset[x] \in Int
             /\ op(b).shape[x] \in Int
             /\ op(b).recv_offset[x] >= b.offset[x] - r.offset[x]
             /\ op(b).recv_offset[x] + op(b).shape[x]
                  <= b.offset[x] + b.shape[x] - r.offset[x]
  <2> DEFINE from == Max({b.offset[x], r.offset[x]})
             to   == Min({b.offset[x] + b.shape[x], r.offset[x] + r.shape[x]})
  <2>1. /\ b.offset[x] \in Nat /\ b.shape[x] \in Nat
        /\ r.offset[x] \in Nat /\ r.shape[x] \in Nat
    OBVIOUS
  <2>2. /\ from \in Int /\ from >= b.offset[x]
        /\ to \in Int /\ to <= b.offset[x] + b.shape[x]
    <3>1. b.offset[x] + b.shape[x] \in Int /\ r.offset[x] + r.shape[x] \in Int
      BY <2>1
    <3>2. b.offset[x] \in Int /\ r.offset[x] \in Int
      BY <2>1
    <3>3. from \in Int /\ from >= b.offset[x]
      BY <3>2, MaxMin
    <3>4. to \in Int /\ to <= b.offset[x] + b.shape[x]
      BY <3>1, MaxMin
    <3>5. QED
      BY <3>3, <3>4
  <2>3. /\ Start(b, r) = [y \in DOMAIN r.offset |-> Max({b.offset[y], r.offset[y]})]
        /\ End(b, r) = [y \in DOMAIN r.offset |->
              Min({b.offset[y] + b.shape[y], r.offset[y] + r.shape[y]})]
    BY DEF Start, End
  <2>4. /\ op(b).recv_offset = Minus(Start(b, r), r.offset)
        /\ op(b).shape = Minus(End(b, r), Start(b, r))
    BY DEF Operation
  <2>5. /\ op(b).recv_offset[x] = from - r.offset[x]
        /\ op(b).shape[x] = to - from
        /\ x \in DOMAIN op(b).shape
    BY <2>3, <2>4 DEF Minus
  <2>6. QED
    BY <2>1, <2>2, <2>5
<1>2. PICK x \in DOMAIN r.offset : \/ s.offset[x] + s.shape[x] <= t.offset[x]
                                  \/ t.offset[x] + t.shape[x] <= s.offset[x]
  BY DEF Apart
<1> HIDE DEF op
<1>3. /\ s.offset[x] \in Nat /\ s.shape[x] \in Nat
      /\ t.offset[x] \in Nat /\ t.shape[x] \in Nat /\ r.offset[x] \in Nat
  OBVIOUS
<1>4. CASE s.offset[x] + s.shape[x] <= t.offset[x]
  <2>1. op(s).recv_offset[x] + op(s).shape[x] <= op(t).recv_offset[x]
    BY <1>1, <1>3, <1>4
  <2>2. Below(op(s), op(t))
    BY <1>1, <2>1 DEF Below
  <2>3. QED
    BY <2>2 DEF op
<1>5. CASE t.offset[x] + t.shape[x] <= s.offset[x]
  <2>1. op(t).recv_offset[x] + op(t).shape[x] <= op(s).recv_offset[x]
    BY <1>1, <1>3, <1>5
  <2>2. Below(op(t), op(s))
    BY <1>1, <2>1 DEF Below
  <2>3. QED
    BY <2>2 DEF op
<1>6. QED
  BY <1>2, <1>4, <1>5

\* The shards of an inference and of a training replica are boxes, and shards of a
\* training replica stay apart when they are placed in the transfer group.
LEMMA PlacedShards ==
  ASSUME NEW d \in Deployments, NEW name \in Names(d.infer) \cap Names(d.train),
         NEW i \in 0 .. d.engines * Len(d.infer[name]) - 1,
         NEW j \in DOMAIN d.train[name],
         NEW r \in InferReplica(i, name, d),
         NEW s \in TrainReplica(j, name, d), NEW t \in TrainReplica(j, name, d)
  PROVE  /\ DOMAIN s.offset = DOMAIN r.offset
         /\ \A x \in DOMAIN r.offset :
              /\ s.offset[x] \in Nat /\ s.shape[x] \in Nat
              /\ r.offset[x] \in Nat /\ r.shape[x] \in Nat
         /\ s # t => Apart(s, t)
<1> DEFINE L == Len(d.infer[name])
           u == (i % L) + 1
<1>1. u \in DOMAIN d.infer[name]
  <2>1. L \in Nat \ {0} /\ d.engines \in Nat \ {0} /\ DOMAIN d.infer[name] = 1 .. L
    BY DeploymentsAssumption, MetadataAssumption DEF Names
  <2>2. d.engines * L \in Nat
    BY <2>1
  <2>3. i \in Nat
    BY <2>2
  <2>4. QED
    BY <2>1, <2>3, Division
<1>2. PICK c \in d.infer[name][u] :
        r = Placed(c, InferTransferRank(c, i \div L, d))
  BY DEF InferReplica
<1>3. PICK a \in d.train[name][j] : s = Placed(a, TrainTransferRank(a, d))
  BY DEF TrainReplica
<1>4. PICK b \in d.train[name][j] : t = Placed(b, TrainTransferRank(b, d))
  BY DEF TrainReplica
<1> HIDE DEF u
<1>5. /\ r.offset = c.offset /\ r.shape = c.shape
      /\ s.offset = a.offset /\ s.shape = a.shape
      /\ t.offset = b.offset /\ t.shape = b.shape
  BY <1>2, <1>3, <1>4 DEF Placed
<1>6. DOMAIN a.offset = DOMAIN c.offset
  BY <1>1, MetadataAssumption DEF Names
<1>7. \A x \in DOMAIN c.offset : c.offset[x] \in Nat /\ c.shape[x] \in Nat
  <2>1. /\ c.offset \in Seq(Nat) /\ c.shape \in Seq(Nat)
        /\ Len(c.shape) = Len(c.offset)
    BY <1>1, MetadataAssumption DEF ShardsAreBoxes, Names
  <2>2. QED
    BY <2>1, BoxIsNumbers
<1>8. \A x \in DOMAIN a.offset : a.offset[x] \in Nat /\ a.shape[x] \in Nat
  <2>1. /\ a.offset \in Seq(Nat) /\ a.shape \in Seq(Nat)
        /\ Len(a.shape) = Len(a.offset)
    BY MetadataAssumption DEF ShardsAreBoxes, Names
  <2>2. QED
    BY <2>1, BoxIsNumbers
<1>9. a # b => Apart(a, b)
  BY MetadataAssumption DEF ReplicaIsApart, Names
<1>10. s # t => Apart(s, t)
  BY <1>3, <1>4, <1>5, <1>9 DEF Apart
<1>11. QED
  BY <1>5, <1>6, <1>7, <1>8, <1>10

\* No two operations of one receiver write the same cell of a tensor: a parameter
\* reaches a rank from one training replica, whose shards are apart.
THEOREM ReceivesAreApart ==
  ASSUME NEW d \in Deployments, NEW r \in InferRanks(d),
         NEW op1 \in MappingOperations(r, d), NEW op2 \in MappingOperations(r, d),
         op1.recv_rank = r, op2.recv_rank = r, op1.name = op2.name, op1 # op2
  PROVE  Below(op1, op2) \/ Below(op2, op1)
<1>1. PICK name, i, j, p :
        /\ name \in Names(d.infer) \cap Names(d.train)
        /\ i \in 0 .. d.engines * Len(d.infer[name]) - 1
        /\ j \in Assigned(i, name, d) /\ p \in Regions(name, i, j, r, d)
        /\ op1 = Operation(name, p[1].rank, p[1], p[2].rank, p[2])
  BY OperationsOf
<1>2. PICK name2, k, l, q :
        /\ name2 \in Names(d.infer) \cap Names(d.train)
        /\ k \in 0 .. d.engines * Len(d.infer[name2]) - 1
        /\ l \in Assigned(k, name2, d) /\ q \in Regions(name2, k, l, r, d)
        /\ op2 = Operation(name2, q[1].rank, q[1], q[2].rank, q[2])
  BY OperationsOf
<1>3. name = name2 /\ p[2].rank = r /\ q[2].rank = r
  BY <1>1, <1>2 DEF Operation
<1>4. /\ p[1] \in TrainReplica(j, name, d) /\ p[2] \in InferReplica(i, name, d)
      /\ q[1] \in TrainReplica(l, name, d) /\ q[2] \in InferReplica(k, name, d)
  BY <1>1, <1>2, <1>3 DEF Regions
<1>5. i = k /\ p[2] = q[2]
  BY <1>1, <1>2, <1>3, <1>4, OneReceiver DEF Names
<1>6. j = l
  BY <1>1, <1>2, <1>3, <1>5 DEF Assigned
<1>7. j \in DOMAIN d.train[name]
  <2>1. /\ d.engines \in Nat \ {0} /\ Len(d.infer[name]) \in Nat \ {0}
        /\ Len(d.train[name]) \in Nat \ {0}
        /\ DOMAIN d.train[name] = 1 .. Len(d.train[name])
    BY <1>1, DeploymentsAssumption, MetadataAssumption DEF Names
  <2>2. d.engines * Len(d.infer[name]) \in Nat
    BY <2>1
  <2>3. i \in Nat
    BY <1>1, <2>2
  <2>4. QED
    BY <1>1, <2>1, <2>3, Division DEF Assigned
<1>8. p[1] # q[1]
  BY <1>1, <1>2, <1>3, <1>5
<1>9. /\ Apart(p[1], q[1])
      /\ DOMAIN p[1].offset = DOMAIN p[2].offset
      /\ DOMAIN q[1].offset = DOMAIN p[2].offset
      /\ \A x \in DOMAIN p[2].offset :
           /\ p[1].offset[x] \in Nat /\ p[1].shape[x] \in Nat
           /\ q[1].offset[x] \in Nat /\ q[1].shape[x] \in Nat
           /\ p[2].offset[x] \in Nat /\ p[2].shape[x] \in Nat
  BY <1>1, <1>4, <1>5, <1>6, <1>7, <1>8, PlacedShards
<1>10. QED
  BY <1>1, <1>2, <1>3, <1>5, <1>9, ApartIsKept
-----------------------------------------------------------------------------
(***************************************************************************)
(* The list of one peer.                                                   *)
(***************************************************************************)

\* What is known of an operation: the overlap of two boxes of n dimensions, of
\* assigned replicas.
IsOperation(op, r, d, name, i, j, s, t, n) ==
  /\ name \in Names(d.infer) \cap Names(d.train) /\ name \in Nat
  /\ i \in 0 .. d.engines * Len(d.infer[name]) - 1
  /\ j \in Assigned(i, name, d) /\ j \in DOMAIN d.train[name]
  /\ s \in TrainReplica(j, name, d) /\ t \in InferReplica(i, name, d)
  /\ s.rank \in Kept(r \in TrainRanks(d), r, d)
  /\ t.rank \in Kept(r \in InferRanks(d), r, d)
  /\ Overlap(s, t)
  /\ op = Operation(name, s.rank, s, t.rank, t)
  /\ n \in Nat
  /\ s.offset \in [1 .. n -> Nat] /\ s.shape \in [1 .. n -> Nat]
  /\ t.offset \in [1 .. n -> Nat] /\ t.shape \in [1 .. n -> Nat]

\* The training replica that an inference replica is given exists.
LEMMA AssignedExists ==
  ASSUME NEW d \in Deployments, NEW name \in Names(d.infer) \cap Names(d.train),
         NEW i \in 0 .. d.engines * Len(d.infer[name]) - 1
  PROVE  /\ Assigned(i, name, d) \subseteq DOMAIN d.train[name]
         /\ (i % Len(d.infer[name])) + 1 \in DOMAIN d.infer[name]
         /\ i \div Len(d.infer[name]) \in 0 .. d.engines - 1
<1> DEFINE L == Len(d.infer[name])
           M == Len(d.train[name])
<1>1. /\ d.engines \in Nat \ {0} /\ L \in Nat \ {0} /\ M \in Nat \ {0}
      /\ DOMAIN d.infer[name] = 1 .. L /\ DOMAIN d.train[name] = 1 .. M
  BY DeploymentsAssumption, MetadataAssumption DEF Names
<1> DEFINE e == d.engines
<1>2. i \in 0 .. e * L - 1
  OBVIOUS
<1> HIDE DEF L, M, e
<1>3. e \in Nat \ {0} /\ L \in Nat \ {0} /\ M \in Nat \ {0}
  BY <1>1 DEF e
<1>4. e * L \in Nat
  BY <1>3
<1>5. i \in Nat /\ i < e * L
  BY <1>2, <1>4
<1>6. (i % M) + 1 \in 1 .. M /\ (i % L) + 1 \in 1 .. L
  BY <1>3, <1>5, Division
<1>7. i \div L \in Nat /\ i % L \in Nat /\ i = L * (i \div L) + (i % L)
  BY <1>3, <1>5, Division
<1>8. i \div L < e
  <2> DEFINE q == i \div L
  <2>1. q \in Nat /\ L * q <= i
    <3>1. L * q \in Nat
      BY <1>3, <1>7
    <3> DEFINE w == L * q
    <3>2. w \in Nat /\ i % L \in Nat /\ i = w + (i % L)
      BY <1>7, <3>1
    <3> HIDE DEF w, q
    <3>3. w <= i
      BY <1>5, <3>2
    <3>4. QED
      BY <1>7, <3>3 DEF w, q
  <2> HIDE DEF q
  <2>2. ASSUME q >= e PROVE FALSE
    <3>1. L * q = L * e + L * (q - e)
      BY <1>3, <2>1
    <3>2. L * (q - e) \in Nat /\ L * e \in Nat /\ e * L = L * e
      BY <1>3, <2>1, <2>2
    <3>3. QED
      BY <1>5, <2>1, <3>1, <3>2
  <2>3. QED
    BY <1>3, <2>1, <2>2 DEF q
<1>9. i \div L \in 0 .. e - 1
  <2> DEFINE q == i \div L
  <2>1. q \in Nat /\ q < e
    BY <1>7, <1>8
  <2> HIDE DEF q
  <2>2. q \in 0 .. e - 1
    BY <1>3, <2>1
  <2>3. QED
    BY <2>2 DEF q
<1>10. Assigned(i, name, d) = {(i % M) + 1}
  BY DEF M, Assigned
<1>11. QED
  BY <1>1, <1>6, <1>9, <1>10 DEF L, M, e

\* A placed inference shard is one of the metadata's, of the replica it belongs to.
LEMMA InferReplicaIs ==
  ASSUME NEW d \in Deployments, NEW name \in Names(d.infer) \cap Names(d.train),
         NEW i \in 0 .. d.engines * Len(d.infer[name]) - 1, NEW j \in DOMAIN d.train[name],
         NEW s \in TrainReplica(j, name, d), NEW t \in InferReplica(i, name, d)
  PROVE  \E n \in Nat :
           /\ s.offset \in [1 .. n -> Nat] /\ s.shape \in [1 .. n -> Nat]
           /\ t.offset \in [1 .. n -> Nat] /\ t.shape \in [1 .. n -> Nat]
<1> DEFINE L == Len(d.infer[name])
           u == (i % L) + 1
<1>1. u \in DOMAIN d.infer[name]
  BY AssignedExists
<1>2. PICK c \in d.infer[name][u] :
        t = Placed(c, InferTransferRank(c, i \div L, d))
  BY DEF InferReplica
<1>3. PICK a \in d.train[name][j] : s = Placed(a, TrainTransferRank(a, d))
  BY DEF TrainReplica
<1> HIDE DEF u
<1>4. /\ t.offset = c.offset /\ t.shape = c.shape
      /\ s.offset = a.offset /\ s.shape = a.shape
  BY <1>2, <1>3 DEF Placed
<1>5. /\ c.offset \in Seq(Nat) /\ c.shape \in Seq(Nat) /\ Len(c.shape) = Len(c.offset)
      /\ a.offset \in Seq(Nat) /\ a.shape \in Seq(Nat) /\ Len(a.shape) = Len(a.offset)
      /\ DOMAIN c.offset = DOMAIN a.offset
  BY <1>1, MetadataAssumption DEF ShardsAreBoxes, Names
<1>6. Len(a.offset) = Len(c.offset) /\ Len(c.offset) \in Nat
  <2> DEFINE x == Len(a.offset)
             y == Len(c.offset)
  <2>1. x \in Nat /\ y \in Nat /\ 1 .. x = 1 .. y
    BY <1>5
  <2> HIDE DEF x, y
  <2>2. x \in 1 .. x \/ x = 0
    BY <2>1
  <2>3. y \in 1 .. y \/ y = 0
    BY <2>1
  <2>4. x = y
    BY <2>1, <2>2, <2>3
  <2>5. QED
    BY <2>1, <2>4 DEF x, y
<1>7. /\ c.offset \in [1 .. Len(c.offset) -> Nat]
      /\ c.shape \in [1 .. Len(c.offset) -> Nat]
      /\ a.offset \in [1 .. Len(c.offset) -> Nat]
      /\ a.shape \in [1 .. Len(c.offset) -> Nat]
  <2>1. \A f \in Seq(Nat) : f \in [1 .. Len(f) -> Nat]
    BY LenProperties, ElementOfSeq
  <2>2. QED
    BY <1>5, <1>6, <2>1
<1>8. QED
  BY <1>4, <1>6, <1>7

LEMMA OperationIs ==
  ASSUME NEW d \in Deployments, NEW r, NEW op \in MappingOperations(r, d)
  PROVE  \E name, i, j, s, t, n : IsOperation(op, r, d, name, i, j, s, t, n)
<1>1. PICK name, i, j, p :
        /\ name \in Names(d.infer) \cap Names(d.train)
        /\ i \in 0 .. d.engines * Len(d.infer[name]) - 1
        /\ j \in Assigned(i, name, d) /\ p \in Regions(name, i, j, r, d)
        /\ op = Operation(name, p[1].rank, p[1], p[2].rank, p[2])
  BY OperationsOf
<1>2. name \in Nat
  BY <1>1, MetadataAssumption DEF Names
<1>3. j \in DOMAIN d.train[name]
  BY <1>1, AssignedExists
<1>4. /\ p[1] \in TrainReplica(j, name, d) /\ p[2] \in InferReplica(i, name, d)
      /\ p[1].rank \in Kept(r \in TrainRanks(d), r, d)
      /\ p[2].rank \in Kept(r \in InferRanks(d), r, d)
      /\ Overlap(p[1], p[2])
  BY <1>1 DEF Regions
<1>5. PICK n \in Nat :
        /\ p[1].offset \in [1 .. n -> Nat] /\ p[1].shape \in [1 .. n -> Nat]
        /\ p[2].offset \in [1 .. n -> Nat] /\ p[2].shape \in [1 .. n -> Nat]
  BY <1>1, <1>3, <1>4, InferReplicaIs
<1>6. IsOperation(op, r, d, name, i, j, p[1], p[2], n)
  BY <1>1, <1>2, <1>3, <1>4, <1>5 DEF IsOperation
<1>7. QED
  BY <1>6

\* An operation's slice in the whole parameter, in each dimension.
LEMMA SliceIs ==
  ASSUME NEW d, NEW r, NEW op, NEW name, NEW i, NEW j, NEW s, NEW t, NEW n,
         IsOperation(op, r, d, name, i, j, s, t, n)
  PROVE  /\ op.name = name /\ op.send_rank = s.rank /\ op.recv_rank = t.rank
         /\ op.send_offset \in [1 .. n -> Int] /\ op.recv_offset \in [1 .. n -> Int]
         /\ op.shape \in [1 .. n -> Int]
         /\ \A x \in 1 .. n : op.shape[x] > 0
         /\ \E lo, hi : \A x \in 1 .. n :
              /\ lo[x] \in Int /\ lo[x] >= s.offset[x] /\ lo[x] >= t.offset[x]
              /\ lo[x] = s.offset[x] \/ lo[x] = t.offset[x]
              /\ hi[x] \in Int /\ hi[x] <= t.offset[x] + t.shape[x]
              /\ hi[x] = s.offset[x] + s.shape[x] \/ hi[x] = t.offset[x] + t.shape[x]
              /\ op.send_offset[x] = lo[x] - s.offset[x]
              /\ op.recv_offset[x] = lo[x] - t.offset[x]
              /\ op.shape[x] = hi[x] - lo[x]
<1> DEFINE from == [x \in 1 .. n |-> Max({s.offset[x], t.offset[x]})]
           to   == [x \in 1 .. n |-> Min({s.offset[x] + s.shape[x],
                                          t.offset[x] + t.shape[x]})]
<1>1. /\ op = Operation(name, s.rank, s, t.rank, t)
      /\ DOMAIN s.offset = 1 .. n /\ DOMAIN t.offset = 1 .. n
  BY DEF IsOperation
<1>2. Start(s, t) = from /\ End(s, t) = to
  BY <1>1 DEF Start, End
<1>3. ASSUME NEW x \in 1 .. n
      PROVE  /\ from[x] \in Int /\ from[x] >= s.offset[x] /\ from[x] >= t.offset[x]
             /\ from[x] = s.offset[x] \/ from[x] = t.offset[x]
             /\ to[x] \in Int /\ to[x] <= t.offset[x] + t.shape[x]
             /\ to[x] = s.offset[x] + s.shape[x] \/ to[x] = t.offset[x] + t.shape[x]
             /\ s.offset[x] \in Int /\ t.offset[x] \in Int
  <2>0. /\ s.offset \in [1 .. n -> Nat] /\ s.shape \in [1 .. n -> Nat]
        /\ t.offset \in [1 .. n -> Nat] /\ t.shape \in [1 .. n -> Nat]
    BY DEF IsOperation
  <2>1. /\ s.offset[x] \in Int /\ t.offset[x] \in Int
        /\ s.offset[x] + s.shape[x] \in Int /\ t.offset[x] + t.shape[x] \in Int
    <3>1. /\ s.offset[x] \in Nat /\ s.shape[x] \in Nat
          /\ t.offset[x] \in Nat /\ t.shape[x] \in Nat
      BY <2>0, Zenon
    <3>2. QED
      BY <3>1
  <2>2. QED
    BY <2>1, MaxMin
<1>4. DOMAIN from = 1 .. n /\ DOMAIN to = 1 .. n
  OBVIOUS
<1> HIDE DEF from, to
<1>5. \A x \in 1 .. n : from[x] < to[x]
  <2>1. Overlap(s, t)
    BY DEF IsOperation
  <2>2. QED
    BY <1>1, <1>2, <2>1 DEF Overlap
<1>6. /\ op.name = name /\ op.send_rank = s.rank /\ op.recv_rank = t.rank
      /\ op.send_offset = Minus(Start(s, t), s.offset)
      /\ op.recv_offset = Minus(Start(s, t), t.offset)
      /\ op.shape = Minus(End(s, t), Start(s, t))
  BY <1>1 DEF Operation
<1>7. /\ op.send_offset = [x \in 1 .. n |-> from[x] - s.offset[x]]
      /\ op.recv_offset = [x \in 1 .. n |-> from[x] - t.offset[x]]
      /\ op.shape = [x \in 1 .. n |-> to[x] - from[x]]
  BY <1>2, <1>4, <1>6 DEF Minus
<1>8. /\ op.send_offset \in [1 .. n -> Int] /\ op.recv_offset \in [1 .. n -> Int]
      /\ op.shape \in [1 .. n -> Int]
  BY <1>3, <1>7
<1>9. \A x \in 1 .. n : op.shape[x] > 0
  BY <1>3, <1>5, <1>7
<1>10. \A x \in 1 .. n :
         /\ op.send_offset[x] = from[x] - s.offset[x]
         /\ op.recv_offset[x] = from[x] - t.offset[x]
         /\ op.shape[x] = to[x] - from[x]
  BY <1>7
<1>11. \E lo, hi : \A x \in 1 .. n :
         /\ lo[x] \in Int /\ lo[x] >= s.offset[x] /\ lo[x] >= t.offset[x]
         /\ lo[x] = s.offset[x] \/ lo[x] = t.offset[x]
         /\ hi[x] \in Int /\ hi[x] <= t.offset[x] + t.shape[x]
         /\ hi[x] = s.offset[x] + s.shape[x] \/ hi[x] = t.offset[x] + t.shape[x]
         /\ op.send_offset[x] = lo[x] - s.offset[x]
         /\ op.recv_offset[x] = lo[x] - t.offset[x]
         /\ op.shape[x] = hi[x] - lo[x]
  BY <1>3, <1>10
<1>12. QED
  BY <1>6, <1>8, <1>9, <1>11

\* The sort key of an operation: the name, then the offsets.
LEMMA KeyIs ==
  ASSUME NEW d, NEW r, NEW op, NEW name, NEW i, NEW j, NEW s, NEW t, NEW n,
         IsOperation(op, r, d, name, i, j, s, t, n)
  PROVE  /\ SortKey(op) \in Seq(Int) /\ Len(SortKey(op)) = 1 + n + n
         /\ SortKey(op)[1] = op.name
         /\ \A x \in 1 .. n : SortKey(op)[1 + n + x] = op.recv_offset[x]
<1> DEFINE a == <<op.name>>
           b == op.send_offset
           c == op.recv_offset
<1>1. n \in Nat /\ op.name \in Nat
  <2>1. n \in Nat /\ name \in Nat
    BY DEF IsOperation
  <2>2. op.name = name
    BY SliceIs
  <2>3. QED
    BY <2>1, <2>2
<1>2. a \in Seq(Int) /\ Len(a) = 1 /\ a[1] = op.name
  BY <1>1
<1>3. b \in Seq(Int) /\ Len(b) = n /\ c \in Seq(Int) /\ Len(c) = n
  <2>1. b \in [1 .. n -> Int] /\ c \in [1 .. n -> Int]
    BY SliceIs
  <2>2. b \in Seq(Int) /\ c \in Seq(Int)
    BY <1>1, <2>1, SeqDef
  <2>3. QED
    BY <1>1, <2>1, <2>2
<1>4. SortKey(op) = (a \o b) \o c
  BY DEF SortKey
<1> HIDE DEF a, b, c
<1>5. /\ a \o b \in Seq(Int) /\ Len(a \o b) = 1 + n
      /\ \A x \in 1 .. 1 + n : (a \o b)[x] = IF x <= 1 THEN a[x] ELSE b[x - 1]
  <2>1. /\ a \o b \in Seq(Int) /\ Len(a \o b) = Len(a) + Len(b)
        /\ \A x \in 1 .. Len(a) + Len(b) :
             (a \o b)[x] = IF x <= Len(a) THEN a[x] ELSE b[x - Len(a)]
    BY <1>2, <1>3, ConcatProperties
  <2>2. QED
    BY <1>2, <1>3, <2>1
<1>6. /\ (a \o b) \o c \in Seq(Int) /\ Len((a \o b) \o c) = 1 + n + n
      /\ \A x \in 1 .. 1 + n + n :
           ((a \o b) \o c)[x] = IF x <= 1 + n THEN (a \o b)[x] ELSE c[x - (1 + n)]
  <2> DEFINE ab == a \o b
  <2>1. ab \in Seq(Int) /\ Len(ab) = 1 + n
    BY <1>5
  <2> HIDE DEF ab
  <2>2. /\ ab \o c \in Seq(Int) /\ Len(ab \o c) = Len(ab) + Len(c)
        /\ \A x \in 1 .. Len(ab) + Len(c) :
             (ab \o c)[x] = IF x <= Len(ab) THEN ab[x] ELSE c[x - Len(ab)]
    BY <1>3, <2>1, ConcatProperties
  <2>3. /\ ab \o c \in Seq(Int) /\ Len(ab \o c) = 1 + n + n
        /\ \A x \in 1 .. 1 + n + n :
             (ab \o c)[x] = IF x <= 1 + n THEN ab[x] ELSE c[x - (1 + n)]
    BY <1>3, <2>1, <2>2
  <2>4. QED
    BY <2>3 DEF ab
<1>7. SortKey(op)[1] = op.name
  BY <1>1, <1>2, <1>4, <1>5, <1>6
<1>8. ASSUME NEW x \in 1 .. n
      PROVE  SortKey(op)[1 + n + x] = op.recv_offset[x]
  <2> DEFINE y == 1 + n + x
  <2>1. y \in 1 .. 1 + n + n /\ ~(y <= 1 + n) /\ y - (1 + n) = x
    BY <1>1
  <2> HIDE DEF y
  <2>2. ((a \o b) \o c)[y] = c[y - (1 + n)]
    BY <1>6, <2>1
  <2>3. QED
    BY <1>4, <2>1, <2>2 DEF c, y
<1>9. QED
  BY <1>4, <1>6, <1>7, <1>8

\* Two keys that differ have a first place where they do.
LEMMA FirstDifference ==
  ASSUME NEW o1, NEW o2, SortKey(o1) \in Seq(Int), SortKey(o2) \in Seq(Int),
         NEW x \in DOMAIN SortKey(o1) \cap DOMAIN SortKey(o2),
         SortKey(o1)[x] # SortKey(o2)[x]
  PROVE  Before(o1, o2) \/ Before(o2, o1)
<1> DEFINE a == SortKey(o1)
           b == SortKey(o2)
           T == {y \in DOMAIN a \cap DOMAIN b : a[y] # b[y]}
<1>1. /\ a \in Seq(Int) /\ b \in Seq(Int)
      /\ DOMAIN a = 1 .. Len(a) /\ DOMAIN b = 1 .. Len(b)
      /\ Len(a) \in Nat /\ Len(b) \in Nat
  BY LenProperties
<1>2. PICK y \in T : \A z \in T : y <= z
  <2>1. T \in SUBSET Nat /\ T # {}
    BY <1>1
  <2> HIDE DEF T
  <2>2. QED
    BY <2>1, LeastNumber
<1>3. y \in 1 .. Len(a) /\ y \in 1 .. Len(b) /\ a[y] # b[y]
  BY <1>1, <1>2
<1>4. \A z \in 1 .. y - 1 : a[z] = b[z]
  <2>1. SUFFICES ASSUME NEW z \in 1 .. y - 1, a[z] # b[z]
                 PROVE  FALSE
    OBVIOUS
  <2>2. z \in T
    BY <1>1, <1>3, <2>1
  <2>3. y <= z
    BY <1>2, <2>2
  <2>4. QED
    BY <1>1, <1>3, <2>1, <2>3
<1>5. a[y] < b[y] \/ b[y] < a[y]
  <2>1. a[y] \in Int /\ b[y] \in Int
    BY <1>1, <1>3, ElementOfSeq
  <2>2. QED
    BY <1>3, <2>1
<1>6. QED
  BY <1>1, <1>3, <1>4, <1>5 DEF Before

\* The order of the keys is strict.
LEMMA BeforeIsStrict ==
  ASSUME NEW o1, NEW o2, NEW o3,
         SortKey(o1) \in Seq(Int), SortKey(o2) \in Seq(Int), SortKey(o3) \in Seq(Int)
  PROVE  ~Before(o1, o1) /\ (Before(o1, o2) /\ Before(o2, o3) => Before(o1, o3))
<1> DEFINE a == SortKey(o1)
           b == SortKey(o2)
           c == SortKey(o3)
<1>1. /\ DOMAIN a = 1 .. Len(a) /\ DOMAIN b = 1 .. Len(b) /\ DOMAIN c = 1 .. Len(c)
      /\ Len(a) \in Nat /\ Len(b) \in Nat /\ Len(c) \in Nat
      /\ \A x \in 1 .. Len(a) : a[x] \in Int
      /\ \A x \in 1 .. Len(b) : b[x] \in Int
      /\ \A x \in 1 .. Len(c) : c[x] \in Int
  BY LenProperties, ElementOfSeq
<1>2. ~Before(o1, o1)
  BY <1>1 DEF Before
<1>3. ASSUME Before(o1, o2), Before(o2, o3)
      PROVE  Before(o1, o3)
  <2>1. PICK x \in DOMAIN a \cap DOMAIN b :
          a[x] < b[x] /\ \A y \in 1 .. x - 1 : a[y] = b[y]
    BY <1>3 DEF Before
  <2>2. PICK z \in DOMAIN b \cap DOMAIN c :
          b[z] < c[z] /\ \A y \in 1 .. z - 1 : b[y] = c[y]
    BY <1>3 DEF Before
  <2> DEFINE m == IF x <= z THEN x ELSE z
  <2>3. m \in DOMAIN a \cap DOMAIN c /\ m \in DOMAIN b
    BY <1>1, <2>1, <2>2
  <2>4. a[m] < c[m]
    <3>1. a[m] \in Int /\ b[m] \in Int /\ c[m] \in Int
      BY <1>1, <2>3
    <3>2. /\ x \in 1 .. Len(a) /\ x \in 1 .. Len(b)
          /\ z \in 1 .. Len(b) /\ z \in 1 .. Len(c)
      BY <1>1
    <3>3. CASE x < z
      <4>1. m = x /\ x \in 1 .. z - 1
        BY <3>2, <3>3
      <4>2. a[x] < b[x] /\ b[x] = c[x]
        BY <2>1, <2>2, <4>1
      <4>3. QED
        BY <4>1, <4>2
    <3>4. CASE z < x
      <4>1. m = z /\ z \in 1 .. x - 1
        BY <3>2, <3>4
      <4>2. a[z] = b[z] /\ b[z] < c[z]
        BY <2>1, <2>2, <4>1
      <4>3. QED
        BY <4>1, <4>2
    <3>5. CASE x = z
      <4>1. m = x
        BY <3>5
      <4>2. a[m] < b[m] /\ b[m] < c[m]
        BY <2>1, <2>2, <3>5, <4>1
      <4> HIDE DEF a, b, c, m
      <4>3. QED
        BY <3>1, <4>2
    <3>6. QED
      BY <3>2, <3>3, <3>4, <3>5
  <2>5. ASSUME NEW y \in 1 .. m - 1 PROVE a[y] = c[y]
    <3>1. x \in Nat /\ z \in Nat
      <4>1. x \in 1 .. Len(b) /\ z \in 1 .. Len(b) /\ Len(b) \in Nat
        BY <1>1
      <4> HIDE DEF a, b, c, m
      <4>2. QED
        BY <4>1
    <3>2. y \in 1 .. x - 1 /\ y \in 1 .. z - 1
      BY <3>1
    <3>3. QED
      BY <2>1, <2>2, <3>2
  <2> HIDE DEF m
  <2>6. QED
    BY <2>3, <2>4, <2>5 DEF Before
<1>4. QED
  BY <1>2, <1>3

\* Operations with different keys are all in the sorted list, and nothing else is.
LEMMA SortedIs ==
  ASSUME NEW ops, IsFiniteSet(ops),
         \A op \in ops : SortKey(op) \in Seq(Int),
         \A o1, o2 \in ops : o1 # o2 => Before(o1, o2) \/ Before(o2, o1)
  PROVE  Range(Sorted(ops)) = ops /\ Sorted(ops) \in Seq(ops)
<1> DEFINE R == {p \in ops \X ops : Before(p[1], p[2])}
           Place(op) == Cardinality({o \in ops : Before(o, op)})
           n == Cardinality(ops)
<1>1. n \in Nat
  BY FS_CardinalityType
<1>2. \A op \in ops : Place(op) = Cardinality(Lower(ops, R, op))
  <2>1. \A op \in ops : {o \in ops : Before(o, op)} = Lower(ops, R, op)
    BY DEF Lower
  <2>2. QED
    BY <2>1
<1>3. /\ \A x \in ops : <<x, x>> \notin R
      /\ \A x, y, z \in ops : <<x, y>> \in R /\ <<y, z>> \in R => <<x, z>> \in R
      /\ \A x, y \in ops : x # y => <<x, y>> \in R \/ <<y, x>> \in R
  BY BeforeIsStrict
<1> HIDE DEF R
<1>4. /\ \A x, y \in ops :
           Cardinality(Lower(ops, R, x)) = Cardinality(Lower(ops, R, y)) => x = y
      /\ \A p \in 0 .. n - 1 : \E x \in ops : Cardinality(Lower(ops, R, x)) = p
      /\ \A x \in ops : Cardinality(Lower(ops, R, x)) \in 0 .. n - 1
  <2>1. /\ \A x, y \in ops :
             Cardinality(Lower(ops, R, x)) = Cardinality(Lower(ops, R, y)) => x = y
        /\ \A p \in 0 .. Cardinality(ops) - 1 :
             \E x \in ops : Cardinality(Lower(ops, R, x)) = p
    BY <1>3, PlacesAreTaken
  <2>2. \A x \in ops : Cardinality(Lower(ops, R, x)) \in 0 .. Cardinality(ops) - 1
    BY <1>3, LowerIsFinite
  <2>3. QED
    BY <2>1, <2>2
<1>5. /\ \A x, y \in ops : Place(x) = Place(y) => x = y
      /\ \A p \in 0 .. n - 1 : \E x \in ops : Place(x) = p
      /\ \A x \in ops : Place(x) \in 0 .. n - 1
  BY <1>2, <1>4
<1>6. Sorted(ops) = [k \in 1 .. n |-> CHOOSE op \in ops : Place(op) = k - 1]
  BY DEF Sorted
<1> HIDE DEF Place, n
<1>7. \A k \in 1 .. n : Sorted(ops)[k] \in ops /\ Place(Sorted(ops)[k]) = k - 1
  <2>1. \A k \in 1 .. n : k - 1 \in 0 .. n - 1
    BY <1>1
  <2>2. QED
    BY <1>5, <1>6, <2>1
<1>8. \A op \in ops : \E k \in 1 .. n : Sorted(ops)[k] = op
  <2>1. SUFFICES ASSUME NEW op \in ops
                 PROVE  \E k \in 1 .. n : Sorted(ops)[k] = op
    OBVIOUS
  <2>2. Place(op) + 1 \in 1 .. n /\ Place(op) + 1 - 1 = Place(op)
    BY <1>1, <1>5
  <2>3. Sorted(ops)[Place(op) + 1] = op
    BY <1>5, <1>7, <2>2
  <2>4. QED
    BY <2>2, <2>3
<1>9. Sorted(ops) \in [1 .. n -> ops]
  BY <1>6, <1>7
<1>10. Sorted(ops) \in Seq(ops)
  BY <1>1, <1>9, SeqDef
<1>11. QED
  BY <1>7, <1>8, <1>9, <1>10 DEF Range

\* A rank's operations are finitely many.
LEMMA OperationsAreFinite ==
  ASSUME NEW d \in Deployments, NEW r
  PROVE  IsFiniteSet(MappingOperations(r, d))
<1>1. ASSUME NEW name \in Names(d.infer) \cap Names(d.train),
             NEW i \in 0 .. d.engines * Len(d.infer[name]) - 1,
             NEW j \in Assigned(i, name, d)
      PROVE  IsFiniteSet({Operation(name, p[1].rank, p[1], p[2].rank, p[2]) :
                            p \in Regions(name, i, j, r, d)})
  <2> DEFINE u    == (i % Len(d.infer[name])) + 1
             from == [shard \in d.train[name][j] |->
                        Placed(shard, TrainTransferRank(shard, d))]
             to   == [shard \in d.infer[name][u] |->
                        Placed(shard,
                               InferTransferRank(shard, i \div Len(d.infer[name]), d))]
             op   == [p \in Regions(name, i, j, r, d) |->
                        Operation(name, p[1].rank, p[1], p[2].rank, p[2])]
  <2>1. j \in DOMAIN d.train[name] /\ u \in DOMAIN d.infer[name]
    BY <1>1, AssignedExists
  <2>2. IsFiniteSet(d.train[name][j]) /\ IsFiniteSet(d.infer[name][u])
    <3> HIDE DEF u
    <3>1. QED
      BY <2>1, MetadataAssumption DEF IsFinite, Names
  <2>3. /\ IsFiniteSet({from[shard] : shard \in d.train[name][j]})
        /\ IsFiniteSet({to[shard] : shard \in d.infer[name][u]})
    <3> HIDE DEF from, to, u
    <3>1. QED
      BY <2>2, ValuesAreFinite
  <2>4. IsFiniteSet(TrainReplica(j, name, d)) /\ IsFiniteSet(InferReplica(i, name, d))
    <3>1. TrainReplica(j, name, d) = {from[shard] : shard \in d.train[name][j]}
      BY DEF TrainReplica
    <3>2. InferReplica(i, name, d) = {to[shard] : shard \in d.infer[name][u]}
      BY DEF InferReplica
    <3>3. QED
      BY <2>3, <3>1, <3>2
  <2>5. IsFiniteSet(Regions(name, i, j, r, d))
    <3>1. IsFiniteSet(TrainReplica(j, name, d) \X InferReplica(i, name, d))
      BY <2>4, FS_Product
    <3>2. Regions(name, i, j, r, d) \subseteq
            TrainReplica(j, name, d) \X InferReplica(i, name, d)
      BY DEF Regions
    <3>3. QED
      BY <3>1, <3>2, FS_Subset
  <2>6. IsFiniteSet({op[p] : p \in Regions(name, i, j, r, d)})
    <3> HIDE DEF op
    <3>1. QED
      BY <2>5, ValuesAreFinite
  <2>7. {op[p] : p \in Regions(name, i, j, r, d)} =
          {Operation(name, p[1].rank, p[1], p[2].rank, p[2]) :
             p \in Regions(name, i, j, r, d)}
    OBVIOUS
  <2>8. QED
    BY <2>6, <2>7
<1>2. ASSUME NEW name \in Names(d.infer) \cap Names(d.train)
      PROVE  IsFiniteSet(ParameterOperations(name, r, d))
  <2> DEFINE n == d.engines * Len(d.infer[name])
             of == [i \in 0 .. n - 1 |->
                      UNION {{Operation(name, p[1].rank, p[1], p[2].rank, p[2]) :
                                p \in Regions(name, i, j, r, d)} :
                               j \in Assigned(i, name, d)}]
  <2>1. IsFiniteSet(0 .. n - 1)
    <3>1. d.engines \in Nat /\ Len(d.infer[name]) \in Nat
      BY DeploymentsAssumption, MetadataAssumption DEF Names
    <3>2. n \in Nat
      BY <3>1
    <3> HIDE DEF n
    <3>3. QED
      BY <3>2, FS_Interval
  <2>2. \A i \in 0 .. n - 1 : IsFiniteSet(of[i])
    <3>1. SUFFICES ASSUME NEW i \in 0 .. n - 1
                   PROVE  IsFiniteSet(of[i])
      OBVIOUS
    <3>2. PICK j : Assigned(i, name, d) = {j}
      BY DEF Assigned
    <3>3. of[i] = {Operation(name, p[1].rank, p[1], p[2].rank, p[2]) :
                     p \in Regions(name, i, j, r, d)}
      BY <3>2
    <3>4. IsFiniteSet({Operation(name, p[1].rank, p[1], p[2].rank, p[2]) :
                         p \in Regions(name, i, j, r, d)})
      <4>1. i \in 0 .. d.engines * Len(d.infer[name]) - 1 /\ j \in Assigned(i, name, d)
        BY <3>2
      <4>2. QED
        BY <1>1, <4>1
    <3>5. QED
      BY <3>3, <3>4
  <2>3. IsFiniteSet(UNION {of[i] : i \in 0 .. n - 1})
    <3> HIDE DEF of, n
    <3>1. QED
      BY <2>1, <2>2, UnionIsFinite
  <2>4. ParameterOperations(name, r, d) = UNION {of[i] : i \in 0 .. n - 1}
    BY DEF ParameterOperations
  <2>5. QED
    BY <2>3, <2>4
<1>3. QED
  <2> DEFINE of == [name \in Names(d.infer) \cap Names(d.train) |->
                      ParameterOperations(name, r, d)]
  <2>1. IsFiniteSet(Names(d.infer) \cap Names(d.train))
    BY MetadataAssumption, FS_Subset DEF IsFinite, Names
  <2>2. \A name \in Names(d.infer) \cap Names(d.train) : IsFiniteSet(of[name])
    BY <1>2
  <2>3. IsFiniteSet(UNION {of[name] : name \in Names(d.infer) \cap Names(d.train)})
    <3> HIDE DEF of
    <3>1. QED
      BY <2>1, <2>2, UnionIsFinite
  <2>4. MappingOperations(r, d) =
          UNION {of[name] : name \in Names(d.infer) \cap Names(d.train)}
    BY DEF MappingOperations
  <2>5. QED
    BY <2>3, <2>4

\* Two operations of one receiver have different keys.
LEMMA KeysDiffer ==
  ASSUME NEW d \in Deployments, NEW r \in InferRanks(d),
         NEW op1 \in MappingOperations(r, d), NEW op2 \in MappingOperations(r, d),
         op1.recv_rank = r, op2.recv_rank = r, op1 # op2
  PROVE  Before(op1, op2) \/ Before(op2, op1)
<1>1. PICK name1, i1, j1, s1, t1, n1 : IsOperation(op1, r, d, name1, i1, j1, s1, t1, n1)
  BY OperationIs
<1>2. PICK name2, i2, j2, s2, t2, n2 : IsOperation(op2, r, d, name2, i2, j2, s2, t2, n2)
  BY OperationIs
<1>3. /\ SortKey(op1) \in Seq(Int) /\ DOMAIN SortKey(op1) = 1 .. 1 + n1 + n1
      /\ SortKey(op2) \in Seq(Int) /\ DOMAIN SortKey(op2) = 1 .. 1 + n2 + n2
      /\ n1 \in Nat /\ n2 \in Nat
  <2>1. n1 \in Nat /\ n2 \in Nat
    BY <1>1, <1>2 DEF IsOperation
  <2>2. /\ SortKey(op1) \in Seq(Int) /\ Len(SortKey(op1)) = 1 + n1 + n1
        /\ SortKey(op2) \in Seq(Int) /\ Len(SortKey(op2)) = 1 + n2 + n2
    BY <1>1, <1>2, KeyIs
  <2>3. QED
    BY <2>1, <2>2, LenProperties
<1>4. CASE op1.name # op2.name
  <2>1. 1 \in DOMAIN SortKey(op1) \cap DOMAIN SortKey(op2)
    BY <1>3
  <2>2. SortKey(op1)[1] # SortKey(op2)[1]
    BY <1>1, <1>2, <1>4, KeyIs
  <2>3. QED
    BY <1>3, <2>1, <2>2, FirstDifference
<1>5. CASE op1.name = op2.name
  <2>1. Below(op1, op2) \/ Below(op2, op1)
    BY <1>5, ReceivesAreApart
  <2>2. /\ name1 = op1.name /\ name2 = op2.name /\ t1.rank = r /\ t2.rank = r
    BY <1>1, <1>2, SliceIs
  <2>3. t1 = t2
    <3>1. /\ name1 \in DOMAIN d.infer /\ name1 = name2
          /\ i1 \in 0 .. d.engines * Len(d.infer[name1]) - 1
          /\ i2 \in 0 .. d.engines * Len(d.infer[name1]) - 1
          /\ t1 \in InferReplica(i1, name1, d) /\ t2 \in InferReplica(i2, name1, d)
      BY <1>1, <1>2, <1>5, <2>2 DEF IsOperation, Names
    <3>2. QED
      BY <2>2, <3>1, OneReceiver
  <2>4. n1 = n2
    <3>1. /\ DOMAIN t1.offset = 1 .. n1 /\ DOMAIN t2.offset = 1 .. n2
      BY <1>1, <1>2 DEF IsOperation
    <3>2. (n1 \in 1 .. n1 \/ n1 = 0) /\ (n2 \in 1 .. n2 \/ n2 = 0)
      BY <1>3
    <3>3. QED
      BY <1>3, <2>3, <3>1, <3>2
  <2>5. \A op \in {op1, op2} :
          /\ op.recv_offset \in [1 .. n1 -> Int] /\ op.shape \in [1 .. n1 -> Int]
          /\ \A x \in 1 .. n1 : op.shape[x] > 0
    <3>1. \A x \in 1 .. n1 : op1.shape[x] > 0
      BY <1>1, SliceIs
    <3>2. \A x \in 1 .. n2 : op2.shape[x] > 0
      BY <1>2, SliceIs
    <3>3. /\ op1.recv_offset \in [1 .. n1 -> Int] /\ op1.shape \in [1 .. n1 -> Int]
          /\ op2.recv_offset \in [1 .. n2 -> Int] /\ op2.shape \in [1 .. n2 -> Int]
      BY <1>1, <1>2, SliceIs
    <3>4. QED
      BY <2>4, <3>1, <3>2, <3>3
  <2>6. PICK x \in 1 .. n1 : op1.recv_offset[x] # op2.recv_offset[x]
    <3>1. CASE Below(op1, op2)
      <4>1. PICK x \in DOMAIN op1.shape :
              op1.recv_offset[x] + op1.shape[x] <= op2.recv_offset[x]
        BY <3>1 DEF Below
      <4>2. /\ x \in 1 .. n1 /\ op1.recv_offset[x] \in Int /\ op2.recv_offset[x] \in Int
            /\ op1.shape[x] \in Int /\ op1.shape[x] > 0
        BY <2>5
      <4>3. QED
        BY <4>1, <4>2
    <3>2. CASE Below(op2, op1)
      <4>1. PICK x \in DOMAIN op2.shape :
              op2.recv_offset[x] + op2.shape[x] <= op1.recv_offset[x]
        BY <3>2 DEF Below
      <4>2. /\ x \in 1 .. n1 /\ op1.recv_offset[x] \in Int /\ op2.recv_offset[x] \in Int
            /\ op2.shape[x] \in Int /\ op2.shape[x] > 0
        BY <2>5
      <4>3. QED
        BY <4>1, <4>2
    <3>3. QED
      BY <2>1, <3>1, <3>2
  <2> DEFINE y == 1 + n1 + x
  <2>7. y \in DOMAIN SortKey(op1) \cap DOMAIN SortKey(op2)
    BY <1>3, <2>4
  <2>8. SortKey(op1)[y] # SortKey(op2)[y]
    <3>1. SortKey(op1)[y] = op1.recv_offset[x]
      BY <1>1, KeyIs
    <3>2. SortKey(op2)[1 + n2 + x] = op2.recv_offset[x]
      BY <1>2, <2>4, KeyIs
    <3>3. QED
      BY <2>4, <2>6, <3>1, <3>2
  <2> HIDE DEF y
  <2>9. QED
    BY <1>3, <2>7, <2>8, FirstDifference
<1>6. QED
  BY <1>4, <1>5

\* The operations in which r receives.
Mine(r, d) == {op \in MappingOperations(r, d) : op.recv_rank = r}

\* The lists of an inference rank are its operations, each under its sender.
LEMMA PlanHasAll ==
  ASSUME NEW d \in Deployments, NEW r \in InferRanks(d)
  PROVE  /\ DOMAIN LocalPlan(r, d) = {op.send_rank : op \in Mine(r, d)}
         /\ \A peer \in DOMAIN LocalPlan(r, d) :
              /\ \A op : op \in Range(LocalPlan(r, d)[peer]) <=>
                          op \in Mine(r, d) /\ op.send_rank = peer
              /\ LocalPlan(r, d)[peer] \in Seq(Mine(r, d))
<1> DEFINE mine == {op \in MappingOperations(r, d) : op.recv_rank = r}
           of(peer) == {op \in mine : op.send_rank = peer}
<1>1. r \notin TrainRanks(d)
  BY SidesAreDisjoint
<1>2. LocalPlan(r, d) = [peer \in {op.send_rank : op \in mine} |-> Sorted(of(peer))]
  BY <1>1 DEF LocalPlan
<1>3. ASSUME NEW peer
      PROVE  Range(Sorted(of(peer))) = of(peer) /\ Sorted(of(peer)) \in Seq(mine)
  <2>1. IsFiniteSet(of(peer))
    BY OperationsAreFinite, FS_Subset
  <2>2. \A op \in of(peer) : SortKey(op) \in Seq(Int)
    BY OperationIs, KeyIs
  <2>3. \A o1, o2 \in of(peer) : o1 # o2 => Before(o1, o2) \/ Before(o2, o1)
    BY KeysDiffer
  <2> DEFINE ops == of(peer)
  <2> HIDE DEF ops, of
  <2>4. Range(Sorted(ops)) = ops /\ Sorted(ops) \in Seq(ops)
    BY <2>1, <2>2, <2>3, SortedIs DEF ops
  <2>5. ops \subseteq mine
    BY DEF ops, of
  <2> HIDE DEF mine
  <2>6. Sorted(ops) \in Seq(mine)
    BY <2>4, <2>5, SeqMonotonic
  <2>7. QED
    BY <2>4, <2>6 DEF ops
<1> HIDE DEF of
<1>4. \A peer \in DOMAIN LocalPlan(r, d) :
        Range(LocalPlan(r, d)[peer]) = of(peer) /\ LocalPlan(r, d)[peer] \in Seq(mine)
  BY <1>2, <1>3
<1>5. mine = Mine(r, d) /\ \A peer, op : op \in of(peer) <=> op \in mine /\ op.send_rank = peer
  BY DEF of, Mine
<1> HIDE DEF mine
<1>6. QED
  BY <1>2, <1>4, <1>5

\* A cell of an inference tensor is in at most one receive of its rank's plan.
THEOREM CellsOnce == Spec => []EveryCellOnce
<1>1. PlansAreLocal => EveryCellOnce
  <2> SUFFICES ASSUME PlansAreLocal, NEW r \in InferRanks(deployment),
                      NEW peer1 \in DOMAIN plan[r], NEW op1 \in Range(plan[r][peer1]),
                      NEW peer2 \in DOMAIN plan[r], NEW op2 \in Range(plan[r][peer2]),
                      op1 # op2, op1.name = op2.name
               PROVE  Below(op1, op2) \/ Below(op2, op1)
    BY DEF EveryCellOnce
  <2>1. deployment \in Deployments /\ r \in Ranks(deployment)
    BY DEF PlansAreLocal, Ranks
  <2>2. plan[r] = LocalPlan(r, deployment)
    <3>1. DOMAIN NoPlan = {}
      BY DEF NoPlan
    <3>2. QED
      BY <2>1, <3>1 DEF PlansAreLocal
  <2>3. \A op \in {op1, op2} :
          op \in MappingOperations(r, deployment) /\ op.recv_rank = r
    <3>1. \A op \in {op1, op2} : op \in Mine(r, deployment)
      <4>1. \A peer \in DOMAIN LocalPlan(r, deployment) :
              /\ \A op : op \in Range(LocalPlan(r, deployment)[peer]) <=>
                          op \in Mine(r, deployment) /\ op.send_rank = peer
              /\ LocalPlan(r, deployment)[peer] \in Seq(Mine(r, deployment))
        BY <2>1, PlanHasAll
      <4>2. QED
        BY <2>2, <4>1
    <3>2. QED
      BY <3>1 DEF Mine
  <2>4. QED
    BY <2>1, <2>3, ReceivesAreApart
<1>2. QED
  BY <1>1, PlansAreLocalInv, PTL
-----------------------------------------------------------------------------
(***************************************************************************)
(* What has been delivered when all ranks are done.                        *)
(***************************************************************************)

\* What the k-th send of s delivers to the k-th receive of r.
Transfer(s, r, k) == Delivered(With(s, r)[k], With(r, s)[k])

\* Receivers have what the operations done so far deliver, and nothing else.
DeliveryInv ==
  /\ PlansAreLocal
  /\ done \in [TrainRanks(deployment) \X InferRanks(deployment) -> Nat]
  /\ \A s \in TrainRanks(deployment), r \in InferRanks(deployment) :
       /\ done[<<s, r>>] > 0 => {status[s], status[r]} = {"built"}
       /\ 1 .. done[<<s, r>>] \subseteq DOMAIN With(s, r) \cap DOMAIN With(r, s)
  /\ \A t : t \in received <=>
       \E s \in TrainRanks(deployment), r \in InferRanks(deployment) :
         \E k \in 1 .. done[<<s, r>>] : t \in Transfer(s, r, k)

\* The list of a built pair is a sequence.
LEMMA ListsAreSequences ==
  ASSUME PlansAreLocal,
         NEW s \in TrainRanks(deployment), NEW r \in InferRanks(deployment),
         {status[s], status[r]} = {"built"}
  PROVE  /\ With(s, r) = With(r, s)
         /\ Len(With(s, r)) \in Nat /\ DOMAIN With(s, r) = 1 .. Len(With(s, r))
         /\ \A op \in Range(With(s, r)) :
              /\ op \in MappingOperations(r, deployment)
              /\ op.recv_rank = r /\ op.send_rank = s
<1>1. With(s, r) = With(r, s)
  BY LocalPlansAgree DEF PairsAgree
<1>2. deployment \in Deployments /\ plan[r] = LocalPlan(r, deployment)
  <2>1. status[r] = "built" /\ r \in Ranks(deployment)
    BY DEF Ranks
  <2>2. QED
    BY <2>1 DEF PlansAreLocal
<1>3. CASE s \in DOMAIN plan[r]
  <2>1. /\ \A op \in Range(plan[r][s]) : op \in Mine(r, deployment) /\ op.send_rank = s
        /\ plan[r][s] \in Seq(Mine(r, deployment))
    <3>1. \A peer \in DOMAIN LocalPlan(r, deployment) :
            /\ \A op : op \in Range(LocalPlan(r, deployment)[peer]) <=>
                        op \in Mine(r, deployment) /\ op.send_rank = peer
            /\ LocalPlan(r, deployment)[peer] \in Seq(Mine(r, deployment))
      BY <1>2, PlanHasAll
    <3>2. s \in DOMAIN LocalPlan(r, deployment)
      BY <1>2, <1>3
    <3>3. QED
      BY <1>2, <3>1, <3>2
  <2>2. With(r, s) = plan[r][s]
    BY <1>3 DEF With
  <2>3. Len(With(r, s)) \in Nat /\ DOMAIN With(r, s) = 1 .. Len(With(r, s))
    BY <2>1, <2>2, LenProperties
  <2>4. QED
    BY <1>1, <2>1, <2>2, <2>3 DEF Mine
<1>4. CASE s \notin DOMAIN plan[r]
  <2>1. With(r, s) = <<>>
    BY <1>4 DEF With
  <2>2. Len(<<>>) = 0 /\ DOMAIN <<>> = 1 .. 0 /\ Range(<<>>) = {}
    BY DEF Range
  <2>3. QED
    BY <1>1, <2>1, <2>2
<1>5. QED
  BY <1>3, <1>4

\* A rank that builds its plan has exchanged nothing yet.
LEMMA BuildKeepsDelivery ==
  ASSUME DeliveryInv, NEW q \in Ranks(deployment), Build(q)
  PROVE  DeliveryInv'
<1>1. PlansAreLocal'
  <2>1. CASE KeyMismatch(deployment)
    BY <2>1 DEF Build, DeliveryInv, PlansAreLocal
  <2>2. CASE ~KeyMismatch(deployment)
    BY <2>2 DEF Build, DeliveryInv, PlansAreLocal
  <2>3. QED
    BY <2>1, <2>2
<1>2. /\ UNCHANGED <<deployment, done, received>> /\ status[q] = "new"
      /\ status' = [status EXCEPT ![q] = status'[q]]
      /\ plan' = plan \/ plan' = [plan EXCEPT ![q] = LocalPlan(q, deployment)]
      /\ DOMAIN status = Ranks(deployment) /\ DOMAIN plan = Ranks(deployment)
  BY DEF Build, DeliveryInv, PlansAreLocal
<1>3. ASSUME NEW s \in TrainRanks(deployment), NEW r \in InferRanks(deployment),
             done[<<s, r>>] > 0
      PROVE  /\ s # q /\ r # q
             /\ status'[s] = status[s] /\ status'[r] = status[r]
             /\ plan'[s] = plan[s] /\ plan'[r] = plan[r]
             /\ With(s, r)' = With(s, r) /\ With(r, s)' = With(r, s)
             /\ \A k : Transfer(s, r, k)' = Transfer(s, r, k)
  <2>1. {status[s], status[r]} = {"built"}
    BY <1>3 DEF DeliveryInv
  <2>2. s # q /\ r # q
    BY <1>2, <2>1
  <2>3. s \in Ranks(deployment) /\ r \in Ranks(deployment)
    BY DEF Ranks
  <2>4. /\ status'[s] = status[s] /\ status'[r] = status[r]
        /\ plan'[s] = plan[s] /\ plan'[r] = plan[r]
    BY <1>2, <2>2, <2>3
  <2>5. With(s, r)' = With(s, r) /\ With(r, s)' = With(r, s)
    BY <2>4 DEF With
  <2>6. \A k : Transfer(s, r, k)' = Transfer(s, r, k)
    BY <1>2, <2>5 DEF Transfer, Delivered, SendOrigin
  <2>7. QED
    BY <2>2, <2>4, <2>5, <2>6
<1>4. done' \in [TrainRanks(deployment') \X InferRanks(deployment') -> Nat]
  BY <1>2 DEF DeliveryInv
<1>5. ASSUME NEW s \in TrainRanks(deployment), NEW r \in InferRanks(deployment)
      PROVE  /\ done'[<<s, r>>] > 0 => {status'[s], status'[r]} = {"built"}
             /\ 1 .. done'[<<s, r>>] \subseteq DOMAIN With(s, r)' \cap DOMAIN With(r, s)'
  <2>1. done'[<<s, r>>] = done[<<s, r>>] /\ done[<<s, r>>] \in Nat
    BY <1>2 DEF DeliveryInv
  <2>2. CASE done[<<s, r>>] > 0
    <3>1. /\ status'[s] = status[s] /\ status'[r] = status[r]
          /\ With(s, r)' = With(s, r) /\ With(r, s)' = With(r, s)
      BY <1>3, <2>2
    <3>2. /\ {status[s], status[r]} = {"built"}
          /\ 1 .. done[<<s, r>>] \subseteq DOMAIN With(s, r) \cap DOMAIN With(r, s)
      BY <2>2 DEF DeliveryInv
    <3>3. QED
      BY <2>1, <3>1, <3>2, Zenon
  <2>3. CASE done[<<s, r>>] = 0
    BY <2>1, <2>3
  <2>4. QED
    BY <2>1, <2>2, <2>3
<1>6. ASSUME NEW t
      PROVE  t \in received' <=>
               \E s \in TrainRanks(deployment), r \in InferRanks(deployment) :
                 \E k \in 1 .. done'[<<s, r>>] : t \in Transfer(s, r, k)'
  <2>1. ASSUME NEW s \in TrainRanks(deployment), NEW r \in InferRanks(deployment),
               NEW k \in 1 .. done[<<s, r>>]
        PROVE  Transfer(s, r, k)' = Transfer(s, r, k)
    <3>1. done[<<s, r>>] \in Nat
      BY DEF DeliveryInv
    <3>2. QED
      BY <1>3, <3>1
  <2>2. received' = received /\ done' = done
    BY <1>2
  <2>3. t \in received <=>
          \E s \in TrainRanks(deployment), r \in InferRanks(deployment) :
            \E k \in 1 .. done[<<s, r>>] : t \in Transfer(s, r, k)
    BY DEF DeliveryInv
  <2>4. QED
    BY <2>1, <2>2, <2>3
<1>7. QED
  <2>1. deployment' = deployment
    BY <1>2
  <2>2. QED
    BY <1>1, <1>4, <1>5, <1>6, <2>1 DEF DeliveryInv

\* The next operations of a pair deliver what they do.
LEMMA MoveKeepsDelivery ==
  ASSUME DeliveryInv,
         NEW a \in TrainRanks(deployment), NEW b \in InferRanks(deployment),
         NEW n, n = 1 \/ n = Len(With(a, b)), Move(a, b, n)
  PROVE  DeliveryInv'
<1>1. UNCHANGED <<deployment, status, plan, batch>>
  BY DEF Move
<1>2. PlansAreLocal'
  BY <1>1 DEF DeliveryInv, PlansAreLocal
<1>3. {status[a], status[b]} = {"built"}
  BY DEF Move, Advance
<1>4. n \in Nat
  BY <1>3, ListsAreSequences DEF DeliveryInv
<1> DEFINE D == done[<<a, b>>]
<1>5. /\ D \in Nat
      /\ done \in [TrainRanks(deployment) \X InferRanks(deployment) -> Nat]
      /\ done' = [done EXCEPT ![<<a, b>>] = D + n]
      /\ D + 1 .. D + n \subseteq DOMAIN With(a, b) \cap DOMAIN With(b, a)
      /\ received' = received \cup UNION {Transfer(a, b, k) : k \in D + 1 .. D + n}
  BY DEF Move, Advance, DeliveryInv, Transfer
<1>6. \A s, r, k : /\ With(s, r)' = With(s, r) /\ With(r, s)' = With(r, s)
                   /\ Transfer(s, r, k)' = Transfer(s, r, k)
  BY <1>1 DEF With, Transfer, Delivered, SendOrigin
<1>7. /\ done'[<<a, b>>] = D + n
      /\ \A s \in TrainRanks(deployment), r \in InferRanks(deployment) :
           <<s, r>> # <<a, b>> => done'[<<s, r>>] = done[<<s, r>>]
      /\ done' \in [TrainRanks(deployment) \X InferRanks(deployment) -> Nat]
  <2>1. D + n \in Nat
    BY <1>4, <1>5
  <2>2. QED
    BY <1>5, <2>1
<1>8. \A k : k \in 1 .. D + n <=> k \in 1 .. D \/ k \in D + 1 .. D + n
  BY <1>4, <1>5
<1> HIDE DEF D
<1>9. ASSUME NEW s \in TrainRanks(deployment), NEW r \in InferRanks(deployment)
      PROVE  /\ done'[<<s, r>>] > 0 => {status'[s], status'[r]} = {"built"}
             /\ 1 .. done'[<<s, r>>] \subseteq DOMAIN With(s, r)' \cap DOMAIN With(r, s)'
  <2>1. CASE <<s, r>> = <<a, b>>
    <3>1. s = a /\ r = b
      BY <2>1
    <3>2. 1 .. D \subseteq DOMAIN With(a, b) \cap DOMAIN With(b, a)
      BY DEF DeliveryInv, D
    <3>3. 1 .. D + n \subseteq DOMAIN With(a, b) \cap DOMAIN With(b, a)
      BY <1>5, <1>8, <3>2
    <3>4. QED
      BY <1>1, <1>3, <1>6, <1>7, <3>1, <3>3
  <2>2. CASE <<s, r>> # <<a, b>>
    <3>1. done'[<<s, r>>] = done[<<s, r>>]
      BY <1>7, <2>2
    <3>2. /\ done[<<s, r>>] > 0 => {status[s], status[r]} = {"built"}
          /\ 1 .. done[<<s, r>>] \subseteq DOMAIN With(s, r) \cap DOMAIN With(r, s)
      BY DEF DeliveryInv
    <3>3. QED
      BY <1>1, <1>6, <3>1, <3>2
  <2>3. QED
    BY <2>1, <2>2
<1>10. ASSUME NEW t
       PROVE  t \in received' <=>
                \E s \in TrainRanks(deployment), r \in InferRanks(deployment) :
                  \E k \in 1 .. done'[<<s, r>>] : t \in Transfer(s, r, k)
  <2>1. t \in received' <=> \/ t \in received
                            \/ \E k \in D + 1 .. D + n : t \in Transfer(a, b, k)
    BY <1>5
  <2>2. t \in received <=>
          \E s \in TrainRanks(deployment), r \in InferRanks(deployment) :
            \E k \in 1 .. done[<<s, r>>] : t \in Transfer(s, r, k)
    BY DEF DeliveryInv
  <2>3. ASSUME NEW s \in TrainRanks(deployment), NEW r \in InferRanks(deployment), NEW k
        PROVE  k \in 1 .. done'[<<s, r>>] <=>
                 \/ k \in 1 .. done[<<s, r>>]
                 \/ s = a /\ r = b /\ k \in D + 1 .. D + n
    <3>1. CASE s = a /\ r = b
      BY <1>7, <1>8, <3>1 DEF D
    <3>2. CASE ~(s = a /\ r = b)
      BY <1>7, <3>2
    <3>3. QED
      BY <3>1, <3>2
  <2>4. QED
    BY <2>1, <2>2, <2>3
<1>11. QED
  <2>1. deployment' = deployment
    BY <1>1
  <2>2. \A t : t \in received' <=>
          \E s \in TrainRanks(deployment), r \in InferRanks(deployment) :
            \E k \in 1 .. done'[<<s, r>>] : t \in Transfer(s, r, k)'
    BY <1>6, <1>10
  <2>3. QED
    BY <1>2, <1>7, <1>9, <2>1, <2>2 DEF DeliveryInv

\* Receivers have what the operations done so far deliver, and nothing else.
THEOREM DeliveryInductive == Spec => []DeliveryInv
<1>1. Init => DeliveryInv
  <2> SUFFICES ASSUME Init PROVE DeliveryInv
    OBVIOUS
  <2>1. PlansAreLocal
    BY DEF Init, PlansAreLocal
  <2>2. \A s \in TrainRanks(deployment), r \in InferRanks(deployment) :
          done[<<s, r>>] = 0
    BY DEF Init
  <2>3. done \in [TrainRanks(deployment) \X InferRanks(deployment) -> Nat] /\ received = {}
    BY DEF Init
  <2>4. 1 .. 0 = {} /\ ~(0 > 0)
    OBVIOUS
  <2>5. QED
    BY <2>1, <2>2, <2>3, <2>4 DEF DeliveryInv
<1>2. DeliveryInv /\ [Next]_vars => DeliveryInv'
  <2> SUFFICES ASSUME DeliveryInv, [Next]_vars
               PROVE  DeliveryInv'
    OBVIOUS
  <2>1. ASSUME NEW q \in Ranks(deployment), Build(q)
        PROVE  DeliveryInv'
    BY <2>1, BuildKeepsDelivery
  <2>2. ASSUME NEW s \in TrainRanks(deployment), NEW r \in InferRanks(deployment),
               ExchangeBatch(s, r) \/ ExchangeOne(s, r)
        PROVE  DeliveryInv'
    BY <2>2, MoveKeepsDelivery DEF ExchangeBatch, ExchangeOne
  <2>3. CASE UNCHANGED vars
    <3>1. UNCHANGED <<deployment, status, plan, done, received>>
      BY <2>3 DEF vars
    <3>2. \A s, r, k : With(s, r)' = With(s, r) /\ Transfer(s, r, k)' = Transfer(s, r, k)
      BY <3>1 DEF With, Transfer, Delivered, SendOrigin
    <3>3. PlansAreLocal'
      BY <3>1 DEF DeliveryInv, PlansAreLocal
    <3>4. TrainRanks(deployment)' = TrainRanks(deployment)
          /\ InferRanks(deployment)' = InferRanks(deployment)
      BY <3>1
    <3>5. \A t : t \in received' <=>
            \E s \in TrainRanks(deployment), r \in InferRanks(deployment) :
              \E k \in 1 .. done'[<<s, r>>] : t \in Transfer(s, r, k)'
      BY <3>1, <3>2 DEF DeliveryInv
    <3>6. \A s \in TrainRanks(deployment), r \in InferRanks(deployment) :
            /\ done'[<<s, r>>] > 0 => {status'[s], status'[r]} = {"built"}
            /\ 1 .. done'[<<s, r>>] \subseteq DOMAIN With(s, r)' \cap DOMAIN With(r, s)'
      <4>1. \A s, r : With(s, r)' = With(s, r)
        BY <3>2
      <4>2. QED
        BY <3>1, <4>1 DEF DeliveryInv
    <3>7. QED
      BY <3>1, <3>3, <3>4, <3>5, <3>6 DEF DeliveryInv
  <2>4. QED
    BY <2>1, <2>2, <2>3 DEF Next
<1>3. QED
  BY <1>1, <1>2, PTL DEF Spec

\* The elements of a box.
LEMMA ElementsAre ==
  ASSUME NEW n \in Nat, NEW shape \in [1 .. n -> Nat]
  PROVE  Elements(shape) = {x \in [1 .. n -> Nat] : \A m \in 1 .. n : x[m] < shape[m]}
<1> DEFINE top == Max(Range(shape))
           box == {x \in [1 .. n -> Nat] : \A m \in 1 .. n : x[m] < shape[m]}
<1>1. Elements(shape) =
        {x \in [1 .. n -> 0 .. top - 1] : \A m \in 1 .. n : x[m] < shape[m]}
  BY DEF Elements
<1>2. CASE n = 0
  <2>1. 1 .. n = {}
    BY <1>2
  <2>2. QED
    BY <1>1, <2>1
<1>3. CASE n # 0
  <2>1. top \in Nat /\ \A m \in 1 .. n : shape[m] <= top
    <3>1. Range(shape) \in SUBSET Nat
      BY DEF Range
    <3>2. 1 \in 1 .. n
      BY <1>3
    <3>3. shape[1] \in Range(shape)
      BY <3>2 DEF Range
    <3>4. IsFiniteSet(Range(shape))
      <4>1. IsFiniteSet(1 .. n)
        BY FS_Interval
      <4>2. IsFiniteSet({shape[m] : m \in 1 .. n})
        BY <4>1, ValuesAreFinite
      <4>3. Range(shape) = {shape[m] : m \in 1 .. n}
        BY DEF Range
      <4>4. QED
        BY <4>2, <4>3
    <3>5. top \in Range(shape) /\ \A y \in Range(shape) : top >= y
      BY <3>1, <3>3, <3>4, MaxIs
    <3>6. \A m \in 1 .. n : shape[m] \in Range(shape)
      BY DEF Range
    <3> HIDE DEF top
    <3>7. QED
      BY <3>1, <3>5, <3>6
  <2> HIDE DEF top
  <2>2. ASSUME NEW x \in [1 .. n -> 0 .. top - 1] PROVE x \in [1 .. n -> Nat]
    BY <2>1
  <2>3. ASSUME NEW x \in box PROVE x \in [1 .. n -> 0 .. top - 1]
    <3>1. x \in [1 .. n -> Nat] /\ \A m \in 1 .. n : x[m] < shape[m]
      OBVIOUS
    <3>2. \A m \in 1 .. n : x[m] \in 0 .. top - 1
      BY <2>1, <3>1
    <3>3. QED
      BY <3>1, <3>2
  <2>4. QED
    BY <1>1, <2>2, <2>3
<1>4. QED
  BY <1>2, <1>3

\* An engine's rank is one of the transfer group.
LEMMA EngineRank ==
  ASSUME NEW n \in Nat \ {0}, NEW e \in Nat \ {0}, NEW x \in 0 .. n - 1,
         NEW p \in 0 .. e - 1
  PROVE  x + p * n \in 0 .. n * e - 1
<1>1. p * n \in Nat /\ n * e \in Nat /\ p \in Nat /\ e - 1 - p \in Nat
  OBVIOUS
<1>2. (e - 1 - p) * n \in Nat
  BY <1>1
<1>3. n * e = n + p * n + (e - 1 - p) * n
  OBVIOUS
<1> DEFINE a == p * n
           b == (e - 1 - p) * n
           c == n * e
<1>4. a \in Nat /\ b \in Nat /\ c = n + a + b
  BY <1>1, <1>2, <1>3
<1> HIDE DEF a, b, c
<1>5. x + a \in 0 .. c - 1
  BY <1>4
<1>6. QED
  BY <1>5 DEF a, c

\* A training rank's shard of a parameter begins where SendOrigin says.
LEMMA OriginIs ==
  ASSUME DeliveryInv, NEW name \in Names(deployment.train),
         NEW j \in DOMAIN deployment.train[name],
         NEW a \in TrainReplica(j, name, deployment)
  PROVE  SendOrigin(a.rank, name) = a.offset
<1> DEFINE d == deployment
           all == UNION {TrainReplica(l, name, d) : l \in DOMAIN d.train[name]}
<1>1. d \in Deployments
  BY DEF DeliveryInv, PlansAreLocal
<1>2. a \in all /\ a.rank = a.rank
  OBVIOUS
<1>3. ASSUME NEW b \in all, b.rank = a.rank PROVE b = a
  <2>1. PICK l \in DOMAIN d.train[name] : b \in TrainReplica(l, name, d)
    OBVIOUS
  <2>2. PICK b0 \in d.train[name][l] : b = Placed(b0, TrainTransferRank(b0, d))
    BY <2>1 DEF TrainReplica
  <2>3. PICK a0 \in d.train[name][j] : a = Placed(a0, TrainTransferRank(a0, d))
    BY DEF TrainReplica
  <2>4. a0.rank + InferWorld(d) = b0.rank + InferWorld(d)
    BY <1>3, <2>2, <2>3 DEF Placed, TrainTransferRank
  <2>5. a0.rank \in Int /\ b0.rank \in Int
    <3>1. a0.rank \in 0 .. d.training - 1 /\ b0.rank \in 0 .. d.training - 1
      BY <1>1, MetadataAssumption DEF Names
    <3>2. QED
      BY <3>1
  <2>6. InferWorld(d) \in Int
    BY <1>1, DeploymentsAssumption DEF InferWorld
  <2> DEFINE x == a0.rank
             y == b0.rank
             w == InferWorld(d)
  <2>7. x = y
    <3>1. x \in Int /\ y \in Int /\ w \in Int /\ x + w = y + w
      BY <2>4, <2>5, <2>6
    <3> HIDE DEF x, y, w
    <3>2. QED
      BY <3>1
  <2>8. a0 = b0
    BY <1>1, <2>7, MetadataAssumption DEF RankHasOneShard, Names
  <2>9. QED
    BY <2>2, <2>3, <2>8
<1>4. SendOrigin(a.rank, name) = (CHOOSE b \in all : b.rank = a.rank).offset
  BY DEF SendOrigin
<1> HIDE DEF all
<1>5. QED
  BY <1>2, <1>3, <1>4

\* An operation delivers the elements of t's shard that s's shard has.
DeliversAll(op, s, t) ==
  \A c \in Elements(t.shape) :
    Holds(s, Plus(t.offset, c)) => \E v \in Delivered(op, op) : v.cell = c

\* What an operation delivers: elements of the receiver's shard, each with the
\* element of its own coordinate; and all that the sender's shard has of them.
LEMMA DeliveredIs ==
  ASSUME DeliveryInv, NEW r, NEW op, NEW name, NEW i, NEW j, NEW s, NEW t, NEW n,
         IsOperation(op, r, deployment, name, i, j, s, t, n)
  PROVE  /\ \A v \in Delivered(op, op) :
              /\ v.rank = t.rank /\ v.name = name
              /\ v.cell \in Elements(t.shape) /\ v.value = Plus(t.offset, v.cell)
         /\ DeliversAll(op, s, t)
<1>1. /\ n \in Nat
      /\ s.offset \in [1 .. n -> Nat] /\ s.shape \in [1 .. n -> Nat]
      /\ t.offset \in [1 .. n -> Nat] /\ t.shape \in [1 .. n -> Nat]
  BY DEF IsOperation
<1>2. /\ op.name = name /\ op.send_rank = s.rank /\ op.recv_rank = t.rank
      /\ op.send_offset \in [1 .. n -> Int] /\ op.recv_offset \in [1 .. n -> Int]
      /\ op.shape \in [1 .. n -> Nat]
  <2>1. /\ op.name = name /\ op.send_rank = s.rank /\ op.recv_rank = t.rank
        /\ op.send_offset \in [1 .. n -> Int] /\ op.recv_offset \in [1 .. n -> Int]
        /\ op.shape \in [1 .. n -> Int] /\ \A x \in 1 .. n : op.shape[x] > 0
    BY SliceIs
  <2>2. ASSUME NEW x \in 1 .. n PROVE op.shape[x] \in Nat
    <3>1. op.shape[x] \in Int /\ op.shape[x] > 0
      BY <2>1
    <3>2. QED
      BY <3>1
  <2>3. QED
    BY <2>1, <2>2
<1>3. PICK from, to :
        \A m \in 1 .. n :
          /\ from[m] \in Int /\ from[m] >= s.offset[m] /\ from[m] >= t.offset[m]
          /\ from[m] = s.offset[m] \/ from[m] = t.offset[m]
          /\ to[m] \in Int /\ to[m] <= t.offset[m] + t.shape[m]
          /\ to[m] = s.offset[m] + s.shape[m] \/ to[m] = t.offset[m] + t.shape[m]
          /\ op.send_offset[m] = from[m] - s.offset[m]
          /\ op.recv_offset[m] = from[m] - t.offset[m]
          /\ op.shape[m] = to[m] - from[m]
  BY SliceIs
<1>4. /\ Elements(op.shape) = {x \in [1 .. n -> Nat] : \A m \in 1 .. n : x[m] < op.shape[m]}
      /\ Elements(t.shape) = {x \in [1 .. n -> Nat] : \A m \in 1 .. n : x[m] < t.shape[m]}
  BY <1>1, <1>2, ElementsAre
<1>5. SendOrigin(op.send_rank, op.name) = s.offset
  BY <1>2, OriginIs DEF IsOperation
<1> DEFINE cell(x)  == Plus(op.recv_offset, x)
           value(x) == Plus(s.offset, Plus(op.send_offset, x))
<1>6. Delivered(op, op) =
        {[rank |-> t.rank, name |-> name, cell |-> cell(x), value |-> value(x),
          from |-> s.rank] : x \in Elements(op.shape)}
  BY <1>2, <1>5 DEF Delivered
<1>7. \A x \in [1 .. n -> Nat] :
        /\ cell(x) = [m \in 1 .. n |-> op.recv_offset[m] + x[m]]
        /\ value(x) = [m \in 1 .. n |-> s.offset[m] + (op.send_offset[m] + x[m])]
  BY <1>1, <1>2 DEF Plus
<1>8. \A c : Plus(t.offset, c) = [m \in 1 .. n |-> t.offset[m] + c[m]]
  BY <1>1 DEF Plus
<1> HIDE DEF cell, value
<1>9. ASSUME NEW x \in Elements(op.shape)
      PROVE  cell(x) \in Elements(t.shape) /\ value(x) = Plus(t.offset, cell(x))
  <2>1. x \in [1 .. n -> Nat] /\ \A m \in 1 .. n : x[m] < op.shape[m]
    BY <1>4
  <2>2. ASSUME NEW m \in 1 .. n
        PROVE  /\ op.recv_offset[m] + x[m] \in Nat
               /\ op.recv_offset[m] + x[m] < t.shape[m]
               /\ s.offset[m] + (op.send_offset[m] + x[m])
                    = t.offset[m] + (op.recv_offset[m] + x[m])
    <3>1. /\ x[m] \in Nat /\ x[m] < op.shape[m] /\ s.offset[m] \in Nat
          /\ t.offset[m] \in Nat /\ t.shape[m] \in Nat
      BY <1>1, <2>1
    <3>2. /\ from[m] \in Int /\ from[m] >= t.offset[m]
          /\ to[m] \in Int /\ to[m] <= t.offset[m] + t.shape[m]
          /\ op.send_offset[m] = from[m] - s.offset[m]
          /\ op.recv_offset[m] = from[m] - t.offset[m]
          /\ op.shape[m] = to[m] - from[m]
      BY <1>3
    <3>3. QED
      BY <3>1, <3>2
  <2>3. cell(x) \in [1 .. n -> Nat] /\ \A m \in 1 .. n : cell(x)[m] < t.shape[m]
    BY <1>7, <2>1, <2>2
  <2>4. value(x) = [m \in 1 .. n |-> t.offset[m] + cell(x)[m]]
    <3>1. value(x) = [m \in 1 .. n |-> s.offset[m] + (op.send_offset[m] + x[m])]
      BY <1>7, <2>1
    <3>2. \A m \in 1 .. n : cell(x)[m] = op.recv_offset[m] + x[m]
      BY <1>7, <2>1
    <3>3. \A m \in 1 .. n :
            s.offset[m] + (op.send_offset[m] + x[m]) = t.offset[m] + cell(x)[m]
      BY <2>2, <3>2
    <3>4. QED
      BY <3>1, <3>3
  <2>5. QED
    BY <1>4, <1>8, <2>3, <2>4
<1>10. ASSUME NEW c \in Elements(t.shape), Holds(s, Plus(t.offset, c))
       PROVE  \E x \in Elements(op.shape) : cell(x) = c
  <2>1. c \in [1 .. n -> Nat] /\ \A m \in 1 .. n : c[m] < t.shape[m]
    BY <1>4
  <2>2. \A m \in 1 .. n : /\ s.offset[m] <= t.offset[m] + c[m]
                          /\ t.offset[m] + c[m] < s.offset[m] + s.shape[m]
    <3>1. DOMAIN s.offset = 1 .. n
      BY <1>1
    <3>2. \A m \in 1 .. n : Plus(t.offset, c)[m] = t.offset[m] + c[m]
      BY <1>8
    <3>3. \A m \in 1 .. n : /\ s.offset[m] <= Plus(t.offset, c)[m]
                            /\ Plus(t.offset, c)[m] < s.offset[m] + s.shape[m]
      BY <1>10, <3>1 DEF Holds
    <3>4. QED
      BY <3>2, <3>3
  <2> DEFINE x == [m \in 1 .. n |-> (t.offset[m] + c[m]) - from[m]]
  <2>3. ASSUME NEW m \in 1 .. n
        PROVE  /\ (t.offset[m] + c[m]) - from[m] \in Nat
               /\ (t.offset[m] + c[m]) - from[m] < op.shape[m]
               /\ op.recv_offset[m] + ((t.offset[m] + c[m]) - from[m]) = c[m]
    <3>1. /\ c[m] \in Nat /\ c[m] < t.shape[m] /\ s.offset[m] \in Nat
          /\ t.offset[m] \in Nat /\ t.shape[m] \in Nat /\ s.shape[m] \in Nat
      BY <1>1, <2>1
    <3>2. /\ from[m] \in Int /\ to[m] \in Int
          /\ from[m] = s.offset[m] \/ from[m] = t.offset[m]
          /\ to[m] = s.offset[m] + s.shape[m] \/ to[m] = t.offset[m] + t.shape[m]
          /\ op.recv_offset[m] = from[m] - t.offset[m]
          /\ op.shape[m] = to[m] - from[m]
      BY <1>3
    <3>3. QED
      BY <2>2, <3>1, <3>2
  <2>4. x \in [1 .. n -> Nat] /\ \A m \in 1 .. n : x[m] < op.shape[m]
    BY <2>3
  <2>5. cell(x) = [m \in 1 .. n |-> c[m]]
    BY <1>7, <2>3, <2>4
  <2>6. cell(x) = c
    BY <2>1, <2>5
  <2> HIDE DEF x
  <2>7. QED
    BY <1>4, <2>4, <2>6
<1>11. \A c \in Elements(t.shape) :
         Holds(s, Plus(t.offset, c)) => \E v \in Delivered(op, op) : v.cell = c
  <2>1. SUFFICES ASSUME NEW c \in Elements(t.shape), Holds(s, Plus(t.offset, c))
                 PROVE  \E v \in Delivered(op, op) : v.cell = c
    OBVIOUS
  <2>2. PICK x \in Elements(op.shape) : cell(x) = c
    BY <1>10, <2>1
  <2> DEFINE v == [rank |-> t.rank, name |-> name, cell |-> cell(x), value |-> value(x),
                   from |-> s.rank]
  <2>3. v \in Delivered(op, op) /\ v.cell = c
    BY <1>6, <2>2
  <2>4. QED
    BY <2>3
<1>12. \A v \in Delivered(op, op) :
         /\ v.rank = t.rank /\ v.name = name
         /\ v.cell \in Elements(t.shape) /\ v.value = Plus(t.offset, v.cell)
  <2>1. SUFFICES ASSUME NEW v \in Delivered(op, op)
                 PROVE  /\ v.rank = t.rank /\ v.name = name
                        /\ v.cell \in Elements(t.shape)
                        /\ v.value = Plus(t.offset, v.cell)
    OBVIOUS
  <2>2. PICK x \in Elements(op.shape) :
          v = [rank |-> t.rank, name |-> name, cell |-> cell(x), value |-> value(x),
               from |-> s.rank]
    BY <1>6
  <2>3. QED
    BY <1>9, <2>2
<1>13. QED
  BY <1>11, <1>12 DEF DeliversAll

\* A pair of ranks that are done has done all its operations.
LEMMA DoneIsAll ==
  ASSUME DeliveryInv, \A r \in Ranks(deployment) : Done(r),
         NEW s \in TrainRanks(deployment), NEW r \in InferRanks(deployment)
  PROVE  /\ {status[s], status[r]} = {"built"}
         /\ done[<<s, r>>] = Len(With(s, r))
<1>1. s \in Ranks(deployment) /\ r \in Ranks(deployment) /\ deployment \in Deployments
  BY DEF Ranks, DeliveryInv, PlansAreLocal
<1>2. r \notin TrainRanks(deployment)
  BY <1>1, SidesAreDisjoint
<1>3. status[s] = "built" /\ status[r] = "built"
  BY <1>1 DEF Done
<1>4. PlansAreLocal
  BY DEF DeliveryInv
<1>5. With(s, r) = With(r, s) /\ DOMAIN With(s, r) = 1 .. Len(With(s, r))
  BY <1>3, <1>4, ListsAreSequences
<1>6. CASE s \in DOMAIN plan[r]
  BY <1>1, <1>2, <1>5, <1>6 DEF Done, DoneWith, With
<1>7. CASE s \notin DOMAIN plan[r]
  <2>1. With(s, r) = <<>>
    BY <1>5, <1>7 DEF With
  <2>2. DOMAIN <<>> = {} /\ Len(<<>>) = 0
    OBVIOUS
  <2>3. 1 .. done[<<s, r>>] \subseteq {} /\ done[<<s, r>>] \in Nat
    BY <2>1, <2>2 DEF DeliveryInv
  <2>4. done[<<s, r>>] = 0
    <3> DEFINE n == done[<<s, r>>]
    <3>1. n \in Nat /\ n \notin 1 .. n
      BY <2>3
    <3> HIDE DEF n
    <3>2. n = 0
      BY <3>1
    <3>3. QED
      BY <3>2 DEF n
  <2>5. QED
    BY <1>3, <2>1, <2>2, <2>4
<1>8. QED
  BY <1>3, <1>6, <1>7

\* What a rank has of a parameter, and what it should have in a shard.
Got(rank, name) ==
  {<<t.cell, t.value>> : t \in {t \in received : t.rank = rank /\ t.name = name}}
Wanted(shard) == {<<x, Plus(shard.offset, x)>> : x \in Elements(shard.shape)}

\* When all ranks are done, every cell of every inference shard holds the element
\* of its own coordinate, and nothing else has been written.
THEOREM WholeDelivery == Spec => []DeliveredWhole
<1>1. DeliveryInv => DeliveredWhole
  <2> SUFFICES ASSUME DeliveryInv, \A r \in Ranks(deployment) : Done(r),
                      NEW name \in Names(deployment.infer)
               PROVE  \/ name \notin Names(deployment.train) /\ ByAlias(name)
                      \/ \A i \in 0 .. deployment.engines * Len(deployment.infer[name]) - 1 :
                           \A shard \in deployment.infer[name]
                                           [(i % Len(deployment.infer[name])) + 1] :
                             LET rank == shard.rank
                                   + (i \div Len(deployment.infer[name]))
                                     * deployment.instance IN
                               {<<t.cell, t.value>> : t \in {t \in received :
                                                     t.rank = rank /\ t.name = name}}
                                 = {<<x, Plus(shard.offset, x)>> :
                                      x \in Elements(shard.shape)}
    BY DEF DeliveredWhole
  <2> DEFINE d == deployment
  <2>1. PlansAreLocal /\ d \in Deployments
    BY DEF DeliveryInv, PlansAreLocal
  <2>2. CASE name \notin Names(d.train)
    <3>1. PICK r \in Ranks(d) : TRUE
      <4>1. d.instance \in Nat \ {0} /\ d.engines \in Nat \ {0} /\ d.training \in Nat \ {0}
        BY <2>1, DeploymentsAssumption
      <4>2. InferWorld(d) \in Nat
        BY <4>1 DEF InferWorld
      <4>3. InferWorld(d) \in TrainRanks(d)
        BY <4>1, <4>2 DEF TrainRanks
      <4>4. QED
        BY <4>3 DEF Ranks
    <3>2. status[r] = "built"
      BY DEF Done
    <3>3. ~KeyMismatch(d)
      BY <2>1, <3>2 DEF PlansAreLocal
    <3>4. ByAlias(name)
      BY <2>2, <3>3 DEF KeyMismatch, AllowedAlias, ByAlias
    <3>5. QED
      BY <2>2, <3>4
  <2>3. ASSUME name \in Names(d.train),
               NEW i \in 0 .. d.engines * Len(d.infer[name]) - 1,
               NEW shard \in d.infer[name][(i % Len(d.infer[name])) + 1],
               NEW rank, rank = shard.rank + (i \div Len(d.infer[name])) * d.instance
        PROVE  Got(rank, name) = Wanted(shard)
    <3> DEFINE t == Placed(shard, rank)
    <3>1. /\ Assigned(i, name, d) \subseteq DOMAIN d.train[name]
          /\ (i % Len(d.infer[name])) + 1 \in DOMAIN d.infer[name]
          /\ i \div Len(d.infer[name]) \in 0 .. d.engines - 1
          /\ name \in Names(d.infer) \cap Names(d.train) /\ name \in DOMAIN d.infer
      BY <2>1, <2>3, AssignedExists DEF Names
    <3>2. t \in InferReplica(i, name, d)
      BY <2>3 DEF InferReplica, InferTransferRank
    <3>3. t.rank = rank /\ t.offset = shard.offset /\ t.shape = shard.shape
      BY DEF Placed
    <3>4. rank \in InferRanks(d)
      <4>1. shard.rank \in 0 .. d.instance - 1
        <5> DEFINE u == (i % Len(d.infer[name])) + 1
        <5>1. u \in DOMAIN d.infer[name] /\ shard \in d.infer[name][u]
          BY <3>1
        <5> HIDE DEF u
        <5>2. QED
          BY <2>1, <3>1, <5>1, MetadataAssumption
      <4> DEFINE p == i \div Len(d.infer[name])
                 x == shard.rank
                 n == d.instance
                 e == d.engines
      <4>2. n \in Nat \ {0} /\ e \in Nat \ {0} /\ p \in 0 .. e - 1 /\ x \in 0 .. n - 1
        BY <2>1, <3>1, <4>1, DeploymentsAssumption
      <4>3. rank = x + p * n
        BY <2>3
      <4>4. InferRanks(d) = 0 .. n * e - 1
        BY DEF InferRanks, InferWorld
      <4> HIDE DEF p, x, n, e
      <4>5. x + p * n \in 0 .. n * e - 1
        BY <4>2, EngineRank
      <4>6. QED
        BY <4>3, <4>4, <4>5
    <3> HIDE DEF t
    \* Nothing else: what the rank got of the parameter was sent for this shard.
    <3>5. ASSUME NEW v \in received, v.rank = rank, v.name = name
          PROVE  v.cell \in Elements(t.shape) /\ v.value = Plus(t.offset, v.cell)
      <4>1. PICK s \in TrainRanks(d), r \in InferRanks(d) :
              \E k \in 1 .. done[<<s, r>>] : v \in Transfer(s, r, k)
        BY DEF DeliveryInv
      <4>2. PICK k \in 1 .. done[<<s, r>>] : v \in Transfer(s, r, k)
        BY <4>1
      <4>3. {status[s], status[r]} = {"built"}
        BY DoneIsAll
      <4>4. k \in DOMAIN With(s, r)
        BY DEF DeliveryInv
      <4> DEFINE op == With(s, r)[k]
      <4>5. /\ op \in MappingOperations(r, d) /\ op.recv_rank = r
            /\ v \in Delivered(op, op)
        <5>1. With(s, r) = With(r, s)
          BY <2>1, <4>3, ListsAreSequences
        <5>2. op \in Range(With(s, r))
          BY <4>4 DEF Range
        <5>3. op \in MappingOperations(r, d) /\ op.recv_rank = r
          <6>1. \A o \in Range(With(s, r)) :
                  /\ o \in MappingOperations(r, deployment)
                  /\ o.recv_rank = r /\ o.send_rank = s
            BY <2>1, <4>3, ListsAreSequences
          <6>2. QED
            BY <5>2, <6>1
        <5>4. v \in Delivered(With(s, r)[k], With(r, s)[k])
          BY <4>2 DEF Transfer
        <5>5. QED
          BY <5>1, <5>3, <5>4
      <4> HIDE DEF op
      <4>6. PICK name2, i2, j2, s2, t2, n2 :
              IsOperation(op, r, d, name2, i2, j2, s2, t2, n2)
        BY <2>1, <4>5, OperationIs
      <4>7. /\ v.rank = t2.rank /\ v.name = name2
            /\ v.cell \in Elements(t2.shape) /\ v.value = Plus(t2.offset, v.cell)
        BY <4>5, <4>6, DeliveredIs
      <4>8. /\ i2 \in 0 .. d.engines * Len(d.infer[name]) - 1
            /\ t2 \in InferReplica(i2, name, d)
        BY <3>5, <4>6, <4>7 DEF IsOperation
      <4>9. t2 = t
        BY <2>1, <3>1, <3>2, <3>3, <3>5, <4>7, <4>8, OneReceiver
      <4>10. QED
        BY <4>7, <4>9
    \* Everything: the assigned replica is whole, and has the element in a shard.
    <3>6. ASSUME NEW c \in Elements(t.shape)
          PROVE  \E v \in received : /\ v.rank = rank /\ v.name = name
                                     /\ v.cell = c /\ v.value = Plus(t.offset, c)
      <4>1. PICK j : j \in Assigned(i, name, d)
        BY DEF Assigned
      <4>2. j \in DOMAIN d.train[name]
        BY <3>1, <4>1
      <4>3. PICK a \in d.train[name][j] : Holds(a, Plus(shard.offset, c))
        <5> DEFINE u == (i % Len(d.infer[name])) + 1
        <5>1. u \in DOMAIN d.infer[name] /\ shard \in d.infer[name][u]
          BY <3>1
        <5>2. c \in Elements(shard.shape)
          BY <3>3, <3>6
        <5> HIDE DEF u
        <5>3. QED
          BY <2>1, <3>1, <4>2, <5>1, <5>2, ReplicasAreWhole DEF Names
      <4> DEFINE s == Placed(a, TrainTransferRank(a, d))
                 op == Operation(name, s.rank, s, t.rank, t)
      <4>4. s \in TrainReplica(j, name, d)
        BY DEF TrainReplica
      <4>5. Holds(s, Plus(t.offset, c))
        BY <3>3, <4>3 DEF Holds, Placed
      <4>6. s.rank \in TrainRanks(d)
        <5>1. a.rank \in 0 .. d.training - 1
          BY <2>1, <2>3, <4>2, MetadataAssumption DEF Names
        <5>2. InferWorld(d) \in Nat /\ d.training \in Nat
          BY <2>1, DeploymentsAssumption DEF InferWorld
        <5>3. s.rank = a.rank + InferWorld(d)
          BY DEF Placed, TrainTransferRank
        <5> DEFINE w == InferWorld(d)
        <5> HIDE DEF w
        <5>4. a.rank + w \in w .. w + d.training - 1
          BY <5>1, <5>2 DEF w
        <5>5. QED
          BY <5>3, <5>4 DEF TrainRanks, w
      <4> HIDE DEF s
      <4>7. PICK n \in Nat :
              /\ s.offset \in [1 .. n -> Nat] /\ s.shape \in [1 .. n -> Nat]
              /\ t.offset \in [1 .. n -> Nat] /\ t.shape \in [1 .. n -> Nat]
        BY <2>1, <3>1, <3>2, <4>2, <4>4, InferReplicaIs
      <4>8. Overlap(s, t)
        <5>1. c \in [1 .. n -> Nat] /\ \A m \in 1 .. n : c[m] < t.shape[m]
          <6>1. Elements(t.shape) =
                  {x \in [1 .. n -> Nat] : \A m \in 1 .. n : x[m] < t.shape[m]}
            BY <4>7, ElementsAre
          <6>2. QED
            BY <3>6, <6>1
        <5>2. ASSUME NEW m \in 1 .. n
              PROVE  /\ t.offset[m] + c[m] \in Nat
                     /\ s.offset[m] <= t.offset[m] + c[m]
                     /\ t.offset[m] + c[m] < s.offset[m] + s.shape[m]
                     /\ t.offset[m] <= t.offset[m] + c[m]
                     /\ t.offset[m] + c[m] < t.offset[m] + t.shape[m]
          <6>1. Plus(t.offset, c)[m] = t.offset[m] + c[m]
            BY <4>7 DEF Plus
          <6>2. /\ s.offset[m] <= t.offset[m] + c[m]
                /\ t.offset[m] + c[m] < s.offset[m] + s.shape[m]
            BY <4>5, <4>7, <6>1 DEF Holds
          <6>3. /\ c[m] \in Nat /\ c[m] < t.shape[m]
                /\ t.offset[m] \in Nat /\ t.shape[m] \in Nat
            BY <4>7, <5>1
          <6>4. QED
            BY <6>2, <6>3
        <5>3. ASSUME NEW m \in 1 .. n
              PROVE  Start(s, t)[m] < End(s, t)[m]
          <6> DEFINE from == Max({s.offset[m], t.offset[m]})
                     to == Min({s.offset[m] + s.shape[m], t.offset[m] + t.shape[m]})
          <6>1. /\ s.offset[m] \in Int /\ t.offset[m] \in Int
                /\ s.offset[m] + s.shape[m] \in Int /\ t.offset[m] + t.shape[m] \in Int
            <7> HIDE DEF from, to
            <7>1. s.offset[m] \in Nat
              BY <4>7
            <7>2. s.shape[m] \in Nat
              BY <4>7
            <7>3. t.offset[m] \in Nat
              BY <4>7
            <7>4. t.shape[m] \in Nat
              BY <4>7
            <7>5. s.offset[m] \in Int /\ s.offset[m] + s.shape[m] \in Int
              BY <7>1, <7>2
            <7>6. t.offset[m] \in Int /\ t.offset[m] + t.shape[m] \in Int
              BY <7>3, <7>4
            <7>7. QED
              BY <7>5, <7>6, Zenon
          <6>2. /\ from \in Int /\ (from = s.offset[m] \/ from = t.offset[m])
                /\ to \in Int
                /\ (to = s.offset[m] + s.shape[m] \/ to = t.offset[m] + t.shape[m])
            BY <6>1, MaxMin
          <6>3. Start(s, t)[m] = from /\ End(s, t)[m] = to
            BY <4>7 DEF Start, End
          <6> HIDE DEF from, to
          <6>4. from <= t.offset[m] + c[m] /\ t.offset[m] + c[m] < to
            BY <5>2, <6>2
          <6> DEFINE g == t.offset[m] + c[m]
          <6>5. g \in Nat /\ from <= g /\ g < to /\ from \in Int /\ to \in Int
            <7>1. g \in Nat
              BY <5>2
            <7>2. QED
              <8>1. from \in Int /\ to \in Int
                BY <6>2
              <8>2. from <= g /\ g < to
                BY <6>4
              <8>3. QED
                BY <7>1, <8>1, <8>2
          <6> HIDE DEF g
          <6>6. from < to
            BY <6>5
          <6>7. QED
            BY <6>3, <6>6
        <5>4. DOMAIN s.offset = 1 .. n
          BY <4>7
        <5>5. QED
          BY <5>3, <5>4 DEF Overlap
      <4>9. /\ s.rank \in Kept(rank \in TrainRanks(d), rank, d)
            /\ t.rank \in Kept(rank \in InferRanks(d), rank, d)
        <5>1. rank \notin TrainRanks(d)
          BY <2>1, <3>4, SidesAreDisjoint
        <5>2. s.rank \in Ranks(d) /\ rank \in Ranks(d)
          BY <3>4, <4>6 DEF Ranks
        <5>3. QED
          BY <3>3, <5>1, <5>2 DEF Kept
      <4>10. IsOperation(op, rank, d, name, i, j, s, t, n)
        <5>1. name \in Nat
          BY <2>1, <3>1, MetadataAssumption
        <5>2. QED
          BY <2>3, <3>1, <3>2, <4>1, <4>2, <4>4, <4>7, <4>8, <4>9, <5>1 DEF IsOperation
      <4>11. op \in MappingOperations(rank, d)
        <5>1. <<s, t>> \in Regions(name, i, j, rank, d)
          BY <3>2, <4>4, <4>8, <4>9 DEF Regions
        <5>2. op = Operation(name, <<s, t>>[1].rank, <<s, t>>[1], <<s, t>>[2].rank, <<s, t>>[2])
          OBVIOUS
        <5> HIDE DEF op
        <5>3. QED
          BY <2>3, <3>1, <4>1, <5>1, <5>2, OperationsOf
      <4>12. op.recv_rank = rank /\ op.send_rank = s.rank
        BY <3>3 DEF Operation
      <4> HIDE DEF op
      <4>13. op \in Range(With(rank, s.rank))
        <5>1. op \in Mine(rank, d)
          BY <4>11, <4>12 DEF Mine
        <5>2. status[rank] = "built" /\ rank \in Ranks(d)
          BY <3>4 DEF Done, Ranks
        <5>3. plan[rank] = LocalPlan(rank, d)
          BY <2>1, <5>2 DEF PlansAreLocal
        <5>4. /\ DOMAIN LocalPlan(rank, d) = {o.send_rank : o \in Mine(rank, d)}
              /\ \A peer \in DOMAIN LocalPlan(rank, d) :
                   /\ \A o : o \in Range(LocalPlan(rank, d)[peer]) <=>
                               o \in Mine(rank, d) /\ o.send_rank = peer
                   /\ LocalPlan(rank, d)[peer] \in Seq(Mine(rank, d))
          BY <2>1, <3>4, PlanHasAll
        <5>5. s.rank \in DOMAIN LocalPlan(rank, d)
          BY <4>12, <5>1, <5>4
        <5>6. op \in Range(LocalPlan(rank, d)[s.rank])
          BY <4>12, <5>1, <5>4, <5>5
        <5>7. QED
          BY <5>3, <5>5, <5>6 DEF With
      <4>14. PICK k \in 1 .. done[<<s.rank, rank>>] :
               With(s.rank, rank)[k] = op /\ With(rank, s.rank)[k] = op
        <5>1. /\ {status[s.rank], status[rank]} = {"built"}
              /\ done[<<s.rank, rank>>] = Len(With(s.rank, rank))
          BY <3>4, <4>6, DoneIsAll
        <5>2. /\ With(s.rank, rank) = With(rank, s.rank)
              /\ DOMAIN With(s.rank, rank) = 1 .. Len(With(s.rank, rank))
          BY <2>1, <3>4, <4>6, <5>1, ListsAreSequences
        <5>3. QED
          BY <4>13, <5>1, <5>2 DEF Range
      <4>15. Delivered(op, op) \subseteq received
        <5>1. \A v \in Delivered(op, op) : v \in Transfer(s.rank, rank, k)
          BY <4>14 DEF Transfer
        <5>2. QED
          BY <3>4, <4>6, <5>1 DEF DeliveryInv
      <4>16. PICK v \in Delivered(op, op) : v.cell = c
        <5>1. DeliversAll(op, s, t)
          BY <4>10, DeliveredIs
        <5>2. QED
          BY <3>6, <4>5, <5>1 DEF DeliversAll
      <4>17. v.rank = t.rank /\ v.name = name /\ v.value = Plus(t.offset, v.cell)
        BY <4>10, DeliveredIs
      <4>18. QED
        BY <3>3, <4>15, <4>16, <4>17
    <3>7. QED
      BY <3>3, <3>5, <3>6 DEF Got, Wanted
  <2>4. CASE name \in Names(d.train)
    <3>1. ASSUME NEW i \in 0 .. d.engines * Len(d.infer[name]) - 1,
                 NEW shard \in d.infer[name][(i % Len(d.infer[name])) + 1]
          PROVE  Got(shard.rank + (i \div Len(d.infer[name])) * d.instance, name)
                   = Wanted(shard)
      BY <2>3, <2>4
    <3>2. QED
      BY <3>1 DEF Got, Wanted
  <2>5. QED
    BY <2>2, <2>4
<1>2. QED
  BY <1>1, DeliveryInductive, PTL
=============================================================================
