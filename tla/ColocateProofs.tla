--------------------------- MODULE ColocateProofs ---------------------------
(***************************************************************************)
(* Proofs about the colocated transports, for all plans and chunk budgets: *)
(* the stream one for every number of ranks first, then for every power of *)
(* two of them, and the staged one for every number.                       *)
(***************************************************************************)
EXTENDS ColocateTransports, FiniteNumbers

-----------------------------------------------------------------------------
(***************************************************************************)
(* The order of the batches.                                               *)
(***************************************************************************)

\* The first of the batches, in the order of the loops.
LEMMA FirstIs ==
  ASSUME NEW S, S # {}, S \subseteq Nat \X Nat \X Nat \X Nat
  PROVE  First(S) \in S /\ \A a \in S \ {First(S)} : Before(First(S), a)
<1> DEFINE Firsts == {b[1] : b \in S}
<1>1. PICK w \in Firsts : \A y \in Firsts : w <= y
  <2>1. Firsts \in SUBSET Nat /\ Firsts # {}
    OBVIOUS
  <2>2. QED
    BY <2>1, LeastNumber
<1> DEFINE S1 == {b \in S : b[1] = w}
           Seconds == {b[2] : b \in S1}
<1>2. PICK x \in Seconds : \A y \in Seconds : x <= y
  <2>1. Seconds \in SUBSET Nat /\ Seconds # {}
    OBVIOUS
  <2>2. QED
    BY <2>1, LeastNumber
<1> DEFINE S2 == {b \in S1 : b[2] = x}
           Thirds == {b[3] : b \in S2}
<1>3. PICK y \in Thirds : \A z \in Thirds : y <= z
  <2>1. Thirds \in SUBSET Nat /\ Thirds # {}
    OBVIOUS
  <2>2. QED
    BY <2>1, LeastNumber
<1> DEFINE S3 == {b \in S2 : b[3] = y}
           Fourths == {b[4] : b \in S3}
<1>4. PICK z \in Fourths : \A u \in Fourths : z <= u
  <2>1. Fourths \in SUBSET Nat /\ Fourths # {}
    OBVIOUS
  <2>2. QED
    BY <2>1, LeastNumber
<1>5. PICK b \in S : b = <<w, x, y, z>>
  BY <1>4
<1>6. ASSUME NEW a \in S \ {b} PROVE Before(b, a)
  <2>0. /\ a = <<a[1], a[2], a[3], a[4]>>
        /\ a[1] \in Nat /\ a[2] \in Nat /\ a[3] \in Nat /\ a[4] \in Nat
        /\ w \in Nat /\ x \in Nat /\ y \in Nat /\ z \in Nat
        /\ b[1] = w /\ b[2] = x /\ b[3] = y /\ b[4] = z
    BY <1>5
  <2>1. CASE a[1] # w
    <3>0. w <= a[1]
      BY <1>1
    <3>1. b[1] < a[1]
      BY <2>0, <2>1, <3>0
    <3>2. QED
      BY <3>1 DEF Before
  <2>2. CASE a[1] = w /\ a[2] # x
    <3>1. b[2] < a[2] /\ b[1] = a[1]
      BY <2>0, <2>2, <1>2
    <3>2. QED
      BY <3>1 DEF Before
  <2>3. CASE a[1] = w /\ a[2] = x /\ a[3] # y
    <3>1. b[3] < a[3] /\ b[1] = a[1] /\ b[2] = a[2]
      BY <2>0, <2>3, <1>3
    <3>2. \A j \in 1 .. 2 : j = 1 \/ j = 2
      OBVIOUS
    <3>3. QED
      BY <3>1, <3>2 DEF Before
  <2>4. CASE a[1] = w /\ a[2] = x /\ a[3] = y
    <3>1. a[4] # z
      BY <2>0, <2>4, <1>5
    <3>2. b[1] = a[1] /\ b[2] = a[2] /\ b[3] = a[3]
      BY <2>0, <2>4
    <3>3. b[4] < a[4]
      <4>1. a[4] \in Fourths
        BY <2>4
      <4>2. a[4] \in Nat /\ z <= a[4]
        BY <1>4, <4>1
      <4> HIDE DEF Fourths
      <4>3. QED
        BY <2>0, <3>1, <4>2
    <3>4. \A j \in 1 .. 3 : j = 1 \/ j = 2 \/ j = 3
      OBVIOUS
    <3>5. QED
      BY <3>2, <3>3, <3>4 DEF Before
  <2>5. QED
    BY <2>1, <2>2, <2>3, <2>4
<1>7. QED
  BY <1>5, <1>6 DEF First
-----------------------------------------------------------------------------
(***************************************************************************)
(* The two ends of a batch.                                                *)
(***************************************************************************)

\* A number between a multiple of p and the next has the multiplier for its
\* quotient.
LEMMA QuotientIs ==
  ASSUME NEW p \in Nat \ {0}, NEW m \in Nat, NEW x \in Nat,
         m * p <= x, x < m * p + p
  PROVE  x \div p = m
<1> DEFINE n == x \div p
<1>1. n \in Nat /\ n * p <= x /\ x < n * p + p
  OBVIOUS
<1> HIDE DEF n
<1>2. CASE n < m
  <2>1. (n + 1) * p <= m * p
    <3>1. (m - n - 1) * p >= 0
      BY <1>1, <1>2
    <3>2. QED
      BY <1>1, <3>1
  <2>2. QED
    BY <1>1, <2>1
<1>3. CASE m < n
  <2>1. (m + 1) * p <= n * p
    <3>1. (n - m - 1) * p >= 0
      BY <1>1, <1>3
    <3>2. QED
      BY <1>1, <3>1
  <2>2. QED
    BY <1>1, <2>1
<1>4. QED
  BY <1>1, <1>2, <1>3 DEF n

\* The number of rounds is the logarithm of the number of ranks, rounded down: every
\* round has partitions of ranks to halve.
LEMMA RoundsHavePartitions ==
  /\ 2^Rounds <= World /\ World < 2^(Rounds + 1)
  /\ \A k \in 0 .. Rounds - 1 : PartitionSize(k) \in Nat \ {0}
<1> DEFINE T == {k \in 0 .. World : 2^k <= World}
           IsLog(k) == 2^k <= World /\ World < 2^(k + 1)
<1>1. World \in Nat \ {0}
  BY WorldAssumption
<1>2. T \in SUBSET Nat /\ T # {} /\ IsFiniteSet(T)
  <2>1. 0 \in T
    BY <1>1, PowerOfZero
  <2>2. IsFiniteSet(0 .. World)
    BY <1>1, FS_Interval
  <2>3. T \subseteq 0 .. World
    OBVIOUS
  <2>4. \A k \in 0 .. World : k \in Nat
    BY <1>1
  <2> HIDE DEF T
  <2>5. IsFiniteSet(T)
    BY <2>2, <2>3, FS_Subset
  <2>6. QED
    BY <2>1, <2>3, <2>4, <2>5
<1>3. PICK n \in T : \A k \in T : n >= k
  <2> HIDE DEF T
  <2>1. QED
    BY <1>2, GreatestNumber
<1>4. n \in 0 .. World /\ 2^n <= World
  BY <1>3
<1>5. World < 2^(n + 1)
  <2>1. SUFFICES ASSUME ~(World < 2^(n + 1))
                 PROVE  FALSE
    OBVIOUS
  <2>2. n + 1 \in Nat /\ 2^(n + 1) \in Nat
    BY <1>1, <1>4, PowerIsPositive
  <2>3. n + 1 < 2^(n + 1)
    BY <2>2, PowerIsAbove
  <2>4. CASE n + 1 \in 0 .. World
    <3>1. n + 1 \in T
      BY <1>1, <2>1, <2>2, <2>4
    <3>2. QED
      BY <1>3, <1>4, <3>1
  <2>5. CASE n + 1 \notin 0 .. World
    <3>1. n = World
      BY <1>1, <1>4, <2>5
    <3>2. World < 2^World
      BY <1>1, PowerIsAbove
    <3>3. 2^World \in Nat
      BY <1>1, PowerIsPositive
    <3>4. QED
      BY <1>1, <1>4, <3>1, <3>2, <3>3
  <2>6. QED
    BY <2>4, <2>5
<1>6. Rounds \in 0 .. World /\ IsLog(Rounds)
  <2>1. Rounds = CHOOSE k \in 0 .. World : IsLog(k)
    BY DEF Rounds
  <2>2. IsLog(n)
    BY <1>4, <1>5
  <2> HIDE DEF IsLog
  <2>3. QED
    BY <1>4, <2>1, <2>2
<1>7. ASSUME NEW k \in 0 .. Rounds - 1
      PROVE  PartitionSize(k) \in Nat \ {0}
  <2>1. k \in Nat /\ Rounds \in Nat /\ k < Rounds
    BY <1>1, <1>6
  <2>2. 2^k < 2^Rounds /\ 2^k \in Nat \ {0} /\ 2^Rounds \in Nat
    BY <2>1, PowersGrow, PowerIsPositive
  <2> DEFINE p == 2^k
  <2>3. p \in Nat \ {0} /\ p <= World
    BY <1>1, <1>6, <2>2
  <2> HIDE DEF p
  <2>4. World \div p \in Nat \ {0}
    BY <1>1, <2>3
  <2>5. QED
    BY <2>4 DEF PartitionSize, p
<1>8. QED
  BY <1>6, <1>7

\* Ranks of opposite halves are so for each other, and one half sends.
LEMMA HalvesAreOpposite ==
  ASSUME NEW r \in Ranks, NEW k \in 0 .. Rounds - 1, NEW q \in OtherHalf(r, k)
  PROVE  /\ q \in Ranks
         /\ r \in OtherHalf(q, k)
         /\ \A phase : Sends(q, k, phase) <=> ~Sends(r, k, phase)
<1> DEFINE p == PartitionSize(k)
           m == r \div p
           h == p \div 2
<1>1. p \in Nat \ {0} /\ r \in Nat /\ q \in Nat /\ q \in Ranks
  BY RoundsHavePartitions DEF OtherHalf, Ranks
<1>2. m \in Nat /\ m * p <= r /\ r < m * p + p
  BY <1>1
<1>3. h \in Nat /\ h <= p
  BY <1>1
<1>4. Base(r, k) = m * p /\ m * p \in Nat /\ Half(k) = h
  BY <1>1, <1>2 DEF Base, Half
<1>5. m * p <= q /\ q < m * p + p /\ (q - m * p < h <=> ~(r - m * p < h))
  BY <1>1, <1>2, <1>3, <1>4 DEF OtherHalf, InFirstHalf
<1>6. Base(q, k) = m * p
  <2>1. q \div p = m
    BY <1>1, <1>2, <1>5, QuotientIs
  <2>2. QED
    BY <2>1 DEF Base
<1>7. InFirstHalf(q, k) <=> ~InFirstHalf(r, k)
  BY <1>4, <1>5, <1>6 DEF InFirstHalf
<1>8. r \in OtherHalf(q, k)
  BY <1>1, <1>2, <1>3, <1>4, <1>6, <1>7 DEF OtherHalf, InFirstHalf
<1>9. QED
  BY <1>1, <1>7, <1>8 DEF Sends

\* What the peer runs for a batch of this rank.
Twin(b, r) == <<b[1], b[2], b[3], r>>

\* The peer has the batch too, of as many operations.
LEMMA TwinIsBatch ==
  ASSUME NEW r \in Ranks, NEW size, NEW number, NEW b \in Batches(r, size, number)
  PROVE  /\ b = <<b[1], b[2], b[3], b[4]>>
         /\ b[4] \in Ranks /\ b[4] # r
         /\ Twin(b, r) \in Batches(b[4], size, number)
         /\ Sends(b[4], b[2], b[3]) <=> ~Sends(r, b[2], b[3])
         /\ BatchLength(b[4], Twin(b, r), size) = BatchLength(r, b, size)
         /\ BatchLength(r, b, size) > 0
<1>1. /\ b = <<b[1], b[2], b[3], b[4]>>
      /\ b[1] \in 0 .. number - 1 /\ b[2] \in 0 .. Rounds - 1 /\ b[3] \in {1, 2}
      /\ b[4] \in Ranks \ {r} /\ b[4] \in OtherHalf(r, b[2])
      /\ BatchLength(r, b, size) > 0
  BY DEF Batches
<1>2. /\ r \in OtherHalf(b[4], b[2])
      /\ Sends(b[4], b[2], b[3]) <=> ~Sends(r, b[2], b[3])
  BY <1>1, HalvesAreOpposite
<1>3. BatchLength(b[4], Twin(b, r), size) = BatchLength(r, b, size)
  BY <1>1, <1>2 DEF BatchLength, Twin
<1>4. Twin(b, r) \in Batches(b[4], size, number)
  BY <1>1, <1>2, <1>3 DEF Batches, Twin
<1>5. QED
  BY <1>1, <1>2, <1>3, <1>4
-----------------------------------------------------------------------------
(***************************************************************************)
(* The inductive invariant.                                                *)
(***************************************************************************)

\* The step size and the number of chunks that the ranks come to agree on.
CommonStep ==
  IF chunked THEN Min({LocalStep[q] : q \in Ranks})
             ELSE Max({Ops[s][q] : s, q \in Ranks} \cup {1})

CommonChunks ==
  IF chunked THEN Max({LocalChunks(q, CommonStep) : q \in Ranks}) ELSE 1

\* All batches of a rank, those it has still to post, and the length of one.
Whole(r)     == Batches(r, CommonStep, CommonChunks)
Planning(r)  == pc[r] \in {"plan", "min", "max"}
Left(r)      == IF Planning(r) THEN Whole(r) ELSE todo[r]
Length(r, b) == BatchLength(r, b, CommonStep)

\* A rank has the common step size when it leaves the first reduction, and the
\* common number of chunks when it leaves the second.
Reduced(r) ==
  /\ pc[r] \in {"min", "max"} => chunked
  /\ pc[r] \notin {"plan", "min"} => step[r] = CommonStep
  /\ pc[r] = "max" => chunks[r] = LocalChunks(r, CommonStep)
  /\ ~Planning(r) => todo[r] \subseteq Whole(r)
  /\ ~Planning(r) /\ chunked => chunks[r] = CommonChunks
  /\ pc[r] = "wait" => batch[r] \in Whole(r)

TypeInv == TypeOK /\ \A r \in Ranks : Reduced(r)

\* Two ranks have the same batches with each other left, and have posted
\* equally many ops.
InStep(r, q) ==
  /\ \A a \in Left(r) : a[4] = q => Twin(a, r) \in Left(q)
  /\ \A a \in Left(q) : a[4] = r => Twin(a, q) \in Left(r)
  /\ sent[r][q] = received[q][r]
  /\ sent[q][r] = received[r][q]

\* Rank r waits in a batch with q, which has still to post it: all they have
\* left is later.
Ahead(r, q) ==
  LET b == batch[r] IN
    /\ pc[r] = "wait"
    /\ b[4] = q
    /\ Twin(b, r) \in Left(q)
    /\ \A a \in Left(r) : a[4] = q => Twin(a, r) \in Left(q) /\ Before(b, a)
    /\ \A a \in Left(q) :
         a[4] = r => a = Twin(b, r) \/ Twin(a, q) \in Left(r)
    /\ Sends(r, b[2], b[3]) =>
         /\ sent[r][q] = received[q][r] + Length(r, b)
         /\ sent[q][r] = received[r][q]
    /\ ~Sends(r, b[2], b[3]) =>
         /\ received[r][q] = sent[q][r] + Length(r, b)
         /\ sent[r][q] = received[q][r]

\* Of two ranks, at most one is ahead, by one batch.
LockStep ==
  \A r, q \in Ranks : r # q => InStep(r, q) \/ Ahead(r, q) \/ Ahead(q, r)

IInv == TypeInv /\ LockStep
-----------------------------------------------------------------------------
(***************************************************************************)
(* The agreed step size and number of chunks.                              *)
(***************************************************************************)

LEMMA RanksAreFinite ==
  Ranks \subseteq Nat /\ Ranks # {} /\ IsFiniteSet(Ranks)
<1>1. IsFiniteSet(0 .. World - 1)
  BY WorldAssumption, FS_Interval
<1>2. 0 \in Ranks
  BY WorldAssumption DEF Ranks
<1>3. QED
  BY <1>1, <1>2 DEF Ranks

LEMMA LocalChunksSuffice ==
  ASSUME NEW r \in Ranks, NEW size \in Nat \ {0}
  PROVE  /\ LocalChunks(r, size) \in Nat \ {0}
         /\ \A q \in Ranks \ {r} : Ops[r][q] <= LocalChunks(r, size) * size
<1> DEFINE Out == {Ops[r][q] : q \in Ranks \ {r}}
           In  == {Ops[q][r] : q \in Ranks \ {r}}
           Longest == Max(Out \cup In \cup {0})
           Chunks == (Longest + size - 1) \div size
<1>1. IsFiniteSet(Ranks \ {r})
  BY RanksAreFinite, FS_Subset
<1>2. IsFiniteSet(Out)
  <2> DEFINE f == Ops[r]
  <2>1. IsFiniteSet({f[q] : q \in Ranks \ {r}})
    <3> HIDE DEF f
    <3>1. QED
      BY <1>1, ValuesAreFinite
  <2>2. QED
    BY <2>1
<1>3. IsFiniteSet(In)
  <2> DEFINE f == [q \in Ranks \ {r} |-> Ops[q][r]]
  <2>1. IsFiniteSet({f[q] : q \in Ranks \ {r}})
    <3> HIDE DEF f
    <3>1. QED
      BY <1>1, ValuesAreFinite
  <2>2. {f[q] : q \in Ranks \ {r}} = In
    OBVIOUS
  <2>3. QED
    BY <2>1, <2>2
<1>4. Longest \in Nat /\ \A q \in Ranks \ {r} : Ops[r][q] <= Longest
  <2>0. \A q \in Ranks \ {r} : Ops[r][q] \in Out \cup In \cup {0}
    OBVIOUS
  <2>1. Out \cup In \cup {0} \in SUBSET Nat
    BY WorldAssumption
  <2>2. IsFiniteSet(Out \cup In \cup {0})
    BY <1>2, <1>3, FS_Union, FS_Singleton
  <2> DEFINE S == Out \cup In \cup {0}
  <2>3. S # {}
    OBVIOUS
  <2> HIDE DEF S, Out, In
  <2>4. Max(S) \in S /\ \A y \in S : Max(S) >= y
    BY <2>1, <2>2, <2>3, MaxIs DEF S
  <2>5. Longest = Max(S) /\ S \in SUBSET Nat /\ \A q \in Ranks \ {r} : Ops[r][q] \in S
    BY <2>0, <2>1 DEF S
  <2> HIDE DEF Longest
  <2>6. Longest \in Nat /\ \A y \in S : y \in Nat /\ Longest >= y
    BY <2>4, <2>5
  <2>7. QED
    BY <2>5, <2>6
<1> HIDE DEF Longest
<1>5. Chunks \in Nat /\ Longest <= Chunks * size
  <2> DEFINE x == Longest + size - 1
  <2>1. x \in Nat
    BY <1>4
  <2>2. Chunks \in Nat /\ x < Chunks * size + size
    <3> HIDE DEF x
    <3>1. x \div size \in Nat /\ x < (x \div size) * size + size
      BY <2>1
    <3>2. QED
      BY <3>1 DEF x
  <2> HIDE DEF Chunks
  <2>3. QED
    BY <1>4, <2>2
<1> HIDE DEF Chunks
<1>6. Max({1, Chunks}) \in Nat \ {0} /\ Max({1, Chunks}) >= Chunks
  <2>1. {1, Chunks} \in SUBSET Nat /\ {1, Chunks} # {} /\ IsFiniteSet({1, Chunks})
    <3>1. IsFiniteSet({1} \cup {Chunks})
      BY FS_Union, FS_Singleton
    <3>2. {1} \cup {Chunks} = {1, Chunks}
      OBVIOUS
    <3>3. Chunks \in Nat
      BY <1>5
    <3>4. QED
      BY <3>1, <3>2, <3>3
  <2>2. /\ Max({1, Chunks}) \in {1, Chunks}
        /\ Max({1, Chunks}) >= 1 /\ Max({1, Chunks}) >= Chunks
    BY <2>1, MaxIs
  <2>3. QED
    BY <2>2, <1>5
<1>7. LocalChunks(r, size) = Max({1, Chunks})
  BY DEF LocalChunks, Longest, Chunks, Out, In
<1>8. ASSUME NEW q \in Ranks \ {r} PROVE Ops[r][q] <= LocalChunks(r, size) * size
  <2> DEFINE c == LocalChunks(r, size)
  <2>1. c \in Nat /\ c >= Chunks
    BY <1>6, <1>7
  <2>2. Ops[r][q] \in Nat
    BY WorldAssumption
  <2> HIDE DEF c
  <2>3. c * size >= Chunks * size
    <3>1. (c - Chunks) * size >= 0
      BY <1>5, <2>1
    <3>2. QED
      BY <1>5, <2>1, <3>1
  <2>4. Ops[r][q] <= Chunks * size
    BY <1>4, <1>5, <2>2
  <2>5. QED
    BY <1>5, <2>1, <2>2, <2>3, <2>4 DEF c
<1>9. QED
  BY <1>6, <1>7, <1>8

LEMMA CommonStepSuffices ==
  /\ CommonStep \in Nat \ {0}
  /\ ~chunked => \A s, q \in Ranks : Ops[s][q] <= CommonStep
<1>1. Min({LocalStep[q] : q \in Ranks}) \in Nat \ {0}
  <2> DEFINE S == {LocalStep[q] : q \in Ranks}
  <2>1. S \in SUBSET Nat /\ 0 \notin S
    BY WorldAssumption
  <2>2. S # {}
    BY RanksAreFinite
  <2> HIDE DEF S
  <2>3. Min(S) \in S
    BY <2>1, <2>2, MinIs
  <2>4. QED
    BY <2>1, <2>3 DEF S
<1>2. /\ Max({Ops[s][q] : s, q \in Ranks} \cup {1}) \in Nat \ {0}
      /\ \A s, q \in Ranks : Ops[s][q] <= Max({Ops[x][y] : x, y \in Ranks} \cup {1})
  <2> DEFINE S == {Ops[s][q] : s, q \in Ranks}
             f == [p \in Ranks \X Ranks |-> Ops[p[1]][p[2]]]
  <2>1. S \in SUBSET Nat
    BY WorldAssumption
  <2>2. IsFiniteSet(S)
    <3> DEFINE T == {f[p] : p \in Ranks \X Ranks}
    <3>1. IsFiniteSet(T)
      <4>1. IsFiniteSet(Ranks \X Ranks)
        BY RanksAreFinite, FS_Product
      <4> HIDE DEF f
      <4>2. QED
        BY <4>1, ValuesAreFinite
    <3>2. S \subseteq T
      <4>1. ASSUME NEW s \in Ranks, NEW q \in Ranks
            PROVE  Ops[s][q] \in T
        <5>1. <<s, q>> \in Ranks \X Ranks /\ f[<<s, q>>] = Ops[s][q]
          OBVIOUS
        <5> HIDE DEF f
        <5>2. QED
          BY <5>1
      <4> HIDE DEF T
      <4>2. QED
        BY <4>1
    <3> HIDE DEF S, T
    <3>3. QED
      BY <3>1, <3>2, FS_Subset
  <2>0. \A s, q \in Ranks : Ops[s][q] \in S
    OBVIOUS
  <2> HIDE DEF S
  <2>3. S \cup {1} \in SUBSET Nat /\ S \cup {1} # {} /\ IsFiniteSet(S \cup {1})
    <3>1. IsFiniteSet({1})
      BY FS_Singleton
    <3>2. IsFiniteSet(S \cup {1})
      BY <2>2, <3>1, FS_Union
    <3>3. QED
      BY <2>1, <3>2
  <2> DEFINE T == S \cup {1}
  <2>4. Max(T) \in T /\ \A y \in T : Max(T) >= y
    <3>1. T \in SUBSET Nat /\ T # {} /\ IsFiniteSet(T)
      BY <2>3
    <3> HIDE DEF T
    <3>2. QED
      BY <3>1, MaxIs
  <2>5. Max(T) \in Nat /\ Max(T) >= 1 /\ \A y \in S : y \in Nat /\ y <= Max(T)
    <3> DEFINE m == Max(T)
    <3>1. m \in Nat /\ m >= 1 /\ \A y \in S : y \in Nat /\ m >= y
      BY <2>3, <2>4
    <3> HIDE DEF m
    <3>2. m >= 1 /\ \A y \in S : y \in Nat /\ y <= m
      BY <3>1
    <3>3. QED
      BY <3>1, <3>2 DEF m
  <2>6. Max(T) \in Nat \ {0} /\ \A s, q \in Ranks : Ops[s][q] <= Max(T)
    BY <2>0, <2>5
  <2>7. QED
    BY <2>6 DEF S
<1>3. QED
  BY <1>1, <1>2 DEF CommonStep

LEMMA CommonChunksIsGreatest ==
  /\ CommonChunks \in Nat \ {0}
  /\ chunked => /\ \E q \in Ranks : CommonChunks = LocalChunks(q, CommonStep)
                /\ \A q \in Ranks : CommonChunks >= LocalChunks(q, CommonStep)
<1>1. CASE chunked
  <2> DEFINE f == [q \in Ranks |-> LocalChunks(q, CommonStep)]
             S == {LocalChunks(q, CommonStep) : q \in Ranks}
  <2>1. S \in SUBSET Nat /\ S # {} /\ 0 \notin S
    BY RanksAreFinite, CommonStepSuffices, LocalChunksSuffice
  <2>2. IsFiniteSet(S)
    <3>1. IsFiniteSet({f[q] : q \in Ranks})
      <4> HIDE DEF f
      <4>1. QED
        BY RanksAreFinite, ValuesAreFinite
    <3>2. {f[q] : q \in Ranks} = S
      OBVIOUS
    <3>3. QED
      BY <3>1, <3>2
  <2>3. Max(S) \in S /\ \A y \in S : Max(S) >= y
    <3> HIDE DEF S
    <3>1. QED
      BY <2>1, <2>2, MaxIs
  <2>4. CommonChunks = Max(S)
    BY <1>1 DEF CommonChunks
  <2>5. \A q \in Ranks : LocalChunks(q, CommonStep) \in S
    OBVIOUS
  <2>6. \A y \in S : \E q \in Ranks : y = LocalChunks(q, CommonStep)
    OBVIOUS
  <2> HIDE DEF S
  <2>7. QED
    BY <2>1, <2>3, <2>4, <2>5, <2>6
<1>2. CASE ~chunked
  BY <1>2 DEF CommonChunks
<1>3. QED
  BY <1>1, <1>2

\* They are a matter of the configuration.
LEMMA CommonIsFixed ==
  ASSUME chunked' = chunked
  PROVE  /\ CommonStep' = CommonStep
         /\ CommonChunks' = CommonChunks
         /\ \A r : Whole(r)' = Whole(r)
         /\ \A r, b : Length(r, b)' = Length(r, b)
BY DEF CommonStep, CommonChunks, Whole, Length

\* The whole work of two ranks with each other is the same from both sides.
LEMMA WholeIsTwinned ==
  ASSUME NEW r \in Ranks, NEW b \in Whole(r)
  PROVE  /\ b \in Nat \X Nat \X {1, 2} \X Ranks
         /\ b[4] \in Ranks /\ b[4] # r
         /\ Twin(b, r) \in Whole(b[4])
         /\ Sends(b[4], b[2], b[3]) <=> ~Sends(r, b[2], b[3])
         /\ Length(b[4], Twin(b, r)) = Length(r, b)
         /\ Length(r, b) \in Nat /\ Length(r, b) > 0
<1>1. /\ b = <<b[1], b[2], b[3], b[4]>>
      /\ b[4] \in Ranks /\ b[4] # r
      /\ Twin(b, r) \in Batches(b[4], CommonStep, CommonChunks)
      /\ Sends(b[4], b[2], b[3]) <=> ~Sends(r, b[2], b[3])
      /\ BatchLength(b[4], Twin(b, r), CommonStep) = BatchLength(r, b, CommonStep)
      /\ BatchLength(r, b, CommonStep) > 0
  BY TwinIsBatch DEF Whole
<1>2. b[1] \in Nat /\ b[2] \in Nat /\ b[3] \in {1, 2}
  BY DEF Whole, Batches
<1>3. BatchLength(r, b, CommonStep) \in Int
  <2>1. \A len \in Nat : SliceLength(len, b[1], CommonStep) \in Int
    <3>1. b[1] * CommonStep \in Nat /\ (b[1] + 1) * CommonStep \in Nat
      BY <1>2, CommonStepSuffices
    <3>2. QED
      BY <3>1 DEF SliceLength, Smaller
  <2>2. Ops[r][b[4]] \in Nat /\ Ops[b[4]][r] \in Nat
    BY <1>1, WorldAssumption
  <2>3. QED
    BY <2>1, <2>2 DEF BatchLength
<1>4. QED
  BY <1>1, <1>2, <1>3 DEF Whole, Length
-----------------------------------------------------------------------------
(***************************************************************************)
(* Types, and the two reductions.                                          *)
(***************************************************************************)

LEMMA BatchIsNumbers ==
  ASSUME NEW b \in Nat \X Nat \X {1, 2} \X Ranks
  PROVE  b \in Nat \X Nat \X Nat \X Nat
<1>1. /\ b = <<b[1], b[2], b[3], b[4]>>
      /\ b[1] \in Nat /\ b[2] \in Nat /\ b[3] \in {1, 2} /\ b[4] \in Ranks
  OBVIOUS
<1>2. \A x \in Ranks : x \in Nat
  BY RanksAreFinite
<1>3. QED
  BY <1>1, <1>2

\* What a rank posts next.
LEMMA PostedIs ==
  ASSUME TypeInv, NEW r \in Ranks, pc[r] = "run", todo[r] # {}
  PROVE  LET b == First(todo[r]) IN
         /\ b \in todo[r] /\ b \in Whole(r)
         /\ \A a \in todo[r] \ {b} : Before(b, a)
         /\ step[r] = CommonStep
<1>1. todo[r] \subseteq Whole(r) /\ step[r] = CommonStep
  BY DEF TypeInv, Reduced, Planning
<1>2. todo[r] \subseteq Nat \X Nat \X Nat \X Nat
  <2>1. todo[r] \subseteq Nat \X Nat \X {1, 2} \X Ranks
    BY DEF TypeInv, TypeOK
  <2>2. QED
    BY <2>1, BatchIsNumbers
<1>3. QED
  BY <1>1, <1>2, FirstIs

LEMMA InitTypeInv ==
  ASSUME Init
  PROVE  TypeInv
<1>1. 0 \in Ranks
  BY WorldAssumption DEF Ranks
<1>2. TypeOK
  BY <1>1, WorldAssumption DEF Init, TypeOK, NoBatch
<1>3. \A r \in Ranks : Reduced(r)
  BY DEF Init, Reduced, Planning
<1>4. QED
  BY <1>2, <1>3 DEF TypeInv

LEMMA NextTypeOK ==
  ASSUME TypeInv, [Next]_vars
  PROVE  TypeOK'
<1> USE DEF TypeInv
<1>1. ASSUME NEW r \in Ranks, PlanWhole(r)
      PROVE  TypeOK'
  <2>1. CommonStep = Max({Ops[s][q] : s, q \in Ranks} \cup {1})
    BY <1>1 DEF PlanWhole, CommonStep
  <2>2. step' = [step EXCEPT ![r] = CommonStep]
        /\ todo' = [todo EXCEPT ![r] = Batches(r, CommonStep, 1)]
    BY <1>1, <2>1 DEF PlanWhole
  <2>3. Batches(r, CommonStep, 1) \subseteq Nat \X Nat \X {1, 2} \X Ranks
    BY DEF Batches
  <2>4. QED
    BY <1>1, <2>2, <2>3, CommonStepSuffices DEF PlanWhole, TypeOK
<1>2. ASSUME NEW r \in Ranks, PlanChunks(r)
      PROVE  TypeOK'
  BY <1>2 DEF PlanChunks, TypeOK
<1>3. ASSUME NEW r \in Ranks, MinReduce(r)
      PROVE  TypeOK'
  <2>1. CommonStep = Min({LocalStep[q] : q \in Ranks})
    <3>1. chunked
      BY <1>3 DEF MinReduce, Reduced
    <3>2. QED
      BY <3>1 DEF CommonStep
  <2>2. step' = [step EXCEPT ![r] = CommonStep]
        /\ chunks' = [chunks EXCEPT ![r] = LocalChunks(r, CommonStep)]
    BY <1>3, <2>1 DEF MinReduce
  <2>3. QED
    BY <1>3, <2>2, CommonStepSuffices, LocalChunksSuffice
    DEF MinReduce, TypeOK
<1>4. ASSUME NEW r \in Ranks, MaxReduce(r)
      PROVE  TypeOK'
  <2>1. PICK most : /\ chunks' = [chunks EXCEPT ![r] = most]
                    /\ todo' = [todo EXCEPT ![r] = Batches(r, step[r], most)]
                    /\ most = Max({chunks[q] : q \in Ranks})
    BY <1>4 DEF MaxReduce
  <2>2. most \in Nat \ {0}
    <3> DEFINE S == {chunks[q] : q \in Ranks}
    <3>1. S \in SUBSET Nat /\ S # {} /\ 0 \notin S
      BY RanksAreFinite DEF TypeOK
    <3>2. IsFiniteSet(S)
      BY RanksAreFinite, ValuesAreFinite
    <3> HIDE DEF S
    <3>3. Max(S) \in S
      BY <3>1, <3>2, MaxIs
    <3>4. QED
      BY <2>1, <3>1, <3>3 DEF S
  <2>3. Batches(r, step[r], most) \subseteq Nat \X Nat \X {1, 2} \X Ranks
    BY <2>2 DEF Batches
  <2>4. todo' \in [Ranks -> SUBSET (Nat \X Nat \X {1, 2} \X Ranks)]
    <3> DEFINE B == Batches(r, step[r], most)
    <3>1. todo' = [todo EXCEPT ![r] = B] /\ B \subseteq Nat \X Nat \X {1, 2} \X Ranks
      BY <2>1, <2>3
    <3> HIDE DEF B
    <3>2. QED
      BY <3>1 DEF TypeOK
  <2>5. chunks' \in [Ranks -> Nat \ {0}]
    BY <2>1, <2>2 DEF TypeOK
  <2>6. QED
    BY <1>4, <2>4, <2>5 DEF MaxReduce, TypeOK
<1>5. ASSUME NEW r \in Ranks, Post(r)
      PROVE  TypeOK'
  <2> DEFINE b == First(todo[r])
             n == BatchLength(r, b, step[r])
  <2>1. b \in todo[r] /\ b \in Whole(r) /\ step[r] = CommonStep
    BY <1>5, PostedIs DEF Post
  <2>2. b[4] \in Ranks /\ n \in Nat /\ b \in Nat \X Nat \X {1, 2} \X Ranks
    BY <2>1, WholeIsTwinned DEF Length
  <2>3. /\ batch' = [batch EXCEPT ![r] = b]
        /\ \/ sent' = [sent EXCEPT ![r][b[4]] = @ + n] /\ received' = received
           \/ received' = [received EXCEPT ![r][b[4]] = @ + n] /\ sent' = sent
        /\ todo' = [todo EXCEPT ![r] = @ \ {b}]
        /\ pc' = [pc EXCEPT ![r] = "wait"]
        /\ chunked' = chunked /\ step' = step /\ chunks' = chunks
    BY <1>5 DEF Post
  <2> HIDE DEF b, n
  <2>4. todo' \in [Ranks -> SUBSET (Nat \X Nat \X {1, 2} \X Ranks)]
    BY <2>3 DEF TypeOK
  <2>5. sent' \in [Ranks -> [Ranks -> Nat]] /\ received' \in [Ranks -> [Ranks -> Nat]]
    <3>1. ASSUME NEW count \in [Ranks -> [Ranks -> Nat]]
          PROVE  [count EXCEPT ![r][b[4]] = @ + n] \in [Ranks -> [Ranks -> Nat]]
      <4>1. [count[r] EXCEPT ![b[4]] = @ + n] \in [Ranks -> Nat]
        BY <2>2
      <4>2. QED
        BY <4>1
    <3>2. sent \in [Ranks -> [Ranks -> Nat]] /\ received \in [Ranks -> [Ranks -> Nat]]
      BY DEF TypeOK
    <3>3. CASE sent' = [sent EXCEPT ![r][b[4]] = @ + n] /\ received' = received
      BY <3>1, <3>2, <3>3
    <3>4. CASE received' = [received EXCEPT ![r][b[4]] = @ + n] /\ sent' = sent
      BY <3>1, <3>2, <3>4
    <3>5. QED
      BY <2>3, <3>3, <3>4
  <2>6. QED
    BY <2>2, <2>3, <2>4, <2>5 DEF TypeOK
<1>6. ASSUME NEW r \in Ranks, Complete(r)
      PROVE  TypeOK'
  BY <1>6 DEF Complete, TypeOK
<1>7. ASSUME NEW r \in Ranks, Finish(r)
      PROVE  TypeOK'
  BY <1>7 DEF Finish, TypeOK
<1>8. CASE UNCHANGED vars
  BY <1>8 DEF vars, TypeOK
<1>9. QED
  BY <1>1, <1>2, <1>3, <1>4, <1>5, <1>6, <1>7, <1>8 DEF Next, RankStep

\* The ranks that take no part in a step.
LEMMA FrameReduced ==
  ASSUME NEW q, Reduced(q), chunked' = chunked,
         pc'[q] = pc[q], step'[q] = step[q], chunks'[q] = chunks[q],
         todo'[q] = todo[q], batch'[q] = batch[q]
  PROVE  Reduced(q)'
<1>1. CommonStep' = CommonStep /\ CommonChunks' = CommonChunks /\ Whole(q)' = Whole(q)
  BY CommonIsFixed
<1>2. LocalChunks(q, CommonStep)' = LocalChunks(q, CommonStep)
  BY <1>1
<1>3. QED
  BY <1>1, <1>2 DEF Reduced, Planning

\* The second reduction: the ranks that have left it have its result, and the
\* others what they bring to it.
LEMMA MostIsCommon ==
  ASSUME TypeInv, chunked, \A q \in Ranks : pc[q] \notin {"plan", "min"},
         NEW r \in Ranks, pc[r] = "max"
  PROVE  Max({chunks[q] : q \in Ranks}) = CommonChunks
<1> DEFINE S == {chunks[q] : q \in Ranks}
<1>1. ASSUME NEW q \in Ranks
      PROVE  chunks[q] = LocalChunks(q, CommonStep) \/ chunks[q] = CommonChunks
  <2>1. pc[q] = "max" \/ ~Planning(q)
    BY DEF Planning
  <2>2. QED
    BY <2>1 DEF TypeInv, Reduced
<1>2. \A q \in Ranks : LocalChunks(q, CommonStep) \in Nat
  BY CommonStepSuffices, LocalChunksSuffice
<1>3. \A y \in S : y <= CommonChunks
  BY <1>1, <1>2, CommonChunksIsGreatest
<1>4. CommonChunks \in S
  BY <1>1, CommonChunksIsGreatest
<1>5. S \in SUBSET Nat /\ IsFiniteSet(S)
  <2>1. IsFiniteSet(S)
    BY RanksAreFinite, ValuesAreFinite
  <2>2. QED
    BY <2>1 DEF TypeInv, TypeOK
<1>6. Max(S) \in S /\ \A y \in S : Max(S) >= y
  <2> HIDE DEF S
  <2>1. QED
    BY <1>4, <1>5, MaxIs
<1> HIDE DEF S
<1>7. Max(S) = CommonChunks
  <2>1. Max(S) \in Nat /\ CommonChunks \in Nat
    BY <1>4, <1>5, <1>6
  <2>2. Max(S) <= CommonChunks /\ Max(S) >= CommonChunks
    BY <1>3, <1>4, <1>6
  <2>3. QED
    BY <2>1, <2>2
<1>8. QED
  BY <1>7 DEF S

\* When a rank starts it has all its batches to post.
LEMMA WholeIsPlanned ==
  ASSUME TypeInv, NEW q \in Ranks, PlanWhole(q) \/ MaxReduce(q)
  PROVE  /\ todo'[q] = Whole(q) /\ pc'[q] = "run"
         /\ step'[q] = CommonStep
         /\ chunked => chunks'[q] = CommonChunks
<1> USE DEF TypeOK, TypeInv
<1>1. CASE PlanWhole(q)
  <2>1. CommonStep = Max({Ops[s][x] : s, x \in Ranks} \cup {1}) /\ CommonChunks = 1
    BY <1>1 DEF PlanWhole, CommonStep, CommonChunks
  <2>2. /\ step'[q] = CommonStep /\ todo'[q] = Batches(q, CommonStep, 1)
        /\ pc'[q] = "run" /\ ~chunked
    BY <1>1, <2>1 DEF PlanWhole
  <2>3. QED
    BY <2>1, <2>2 DEF Whole
<1>2. CASE MaxReduce(q)
  <2>1. chunked /\ step[q] = CommonStep
    BY <1>2 DEF MaxReduce, Reduced
  <2>2. CommonChunks = Max({chunks[x] : x \in Ranks})
    BY <1>2, <2>1, MostIsCommon DEF MaxReduce
  <2>3. /\ chunks'[q] = CommonChunks
        /\ todo'[q] = Batches(q, step[q], CommonChunks)
        /\ pc'[q] = "run" /\ step' = step
    BY <1>2, <2>2 DEF MaxReduce
  <2>4. QED
    BY <2>1, <2>3 DEF Whole
<1>3. QED
  BY <1>1, <1>2

LEMMA NextReduced ==
  ASSUME TypeInv, [Next]_vars, NEW q \in Ranks
  PROVE  Reduced(q)'
<1>0. Reduced(q)
  BY DEF TypeInv
<1> USE DEF TypeOK, TypeInv
<1>1. CASE UNCHANGED vars
  BY <1>0, <1>1, FrameReduced DEF vars
<1>2. ASSUME NEW r \in Ranks, RankStep(r), q # r
      PROVE  Reduced(q)'
  <2>1. /\ chunked' = chunked
        /\ pc'[q] = pc[q] /\ step'[q] = step[q] /\ chunks'[q] = chunks[q]
        /\ todo'[q] = todo[q] /\ batch'[q] = batch[q]
    BY <1>2 DEF RankStep, PlanWhole, PlanChunks, MinReduce, MaxReduce, Post,
                Complete, Finish
  <2>2. QED
    BY <1>0, <2>1, FrameReduced
<1>3. CASE RankStep(q)
  <2>1. /\ chunked' = chunked
        /\ CommonStep' = CommonStep /\ CommonChunks' = CommonChunks
        /\ Whole(q)' = Whole(q)
        /\ LocalChunks(q, CommonStep)' = LocalChunks(q, CommonStep)
    <3>1. chunked' = chunked
      BY <1>3 DEF RankStep, PlanWhole, PlanChunks, MinReduce, MaxReduce, Post,
                  Complete, Finish
    <3>2. QED
      BY <3>1, CommonIsFixed
  <2>2. CASE PlanWhole(q) \/ MaxReduce(q)
    <3>1. /\ todo'[q] = Whole(q) /\ pc'[q] = "run" /\ step'[q] = CommonStep
          /\ chunked => chunks'[q] = CommonChunks
      BY <2>2, WholeIsPlanned
    <3>2. QED
      BY <2>1, <3>1 DEF Reduced, Planning
  <2>3. CASE PlanChunks(q)
    BY <2>1, <2>3 DEF PlanChunks, Reduced, Planning
  <2>4. CASE MinReduce(q)
    <3>0. chunked
      BY <1>0, <2>4 DEF MinReduce, Reduced
    <3>1. CommonStep = Min({LocalStep[x] : x \in Ranks})
      BY <3>0 DEF CommonStep
    <3>2. /\ step'[q] = CommonStep /\ chunks'[q] = LocalChunks(q, CommonStep)
          /\ pc'[q] = "max"
      BY <2>4, <3>1 DEF MinReduce
    <3>3. QED
      BY <2>1, <3>0, <3>2 DEF Reduced, Planning
  <2>5. CASE Post(q)
    <3>1. pc[q] = "run" /\ step[q] = CommonStep /\ First(todo[q]) \in Whole(q)
      BY <2>5, PostedIs DEF Post
    <3>2. /\ step' = step /\ chunks' = chunks /\ pc'[q] = "wait"
          /\ todo'[q] \subseteq todo[q] /\ batch'[q] = First(todo[q])
      BY <2>5 DEF Post
    <3>3. QED
      BY <1>0, <2>1, <3>1, <3>2 DEF Reduced, Planning
  <2>6. CASE Complete(q)
    BY <1>0, <2>1, <2>6 DEF Complete, Reduced, Planning
  <2>7. CASE Finish(q)
    BY <1>0, <2>1, <2>7 DEF Finish, Reduced, Planning
  <2>8. QED
    BY <1>3, <2>2, <2>3, <2>4, <2>5, <2>6, <2>7 DEF RankStep
<1>4. QED
  BY <1>1, <1>2, <1>3 DEF Next

LEMMA NextTypeInv ==
  ASSUME TypeInv, [Next]_vars
  PROVE  TypeInv'
BY NextTypeOK, NextReduced DEF TypeInv
-----------------------------------------------------------------------------
(***************************************************************************)
(* The ranks in lock step.                                                 *)
(***************************************************************************)

LEMMA InitLockStep ==
  ASSUME Init
  PROVE  LockStep
<1>1. ASSUME NEW r \in Ranks, NEW q \in Ranks, r # q
      PROVE  InStep(r, q)
  <2>1. \A x \in Ranks : Left(x) = Whole(x)
    BY DEF Init, Left, Planning
  <2>2. sent[r][q] = received[q][r] /\ sent[q][r] = received[r][q]
    BY DEF Init
  <2>3. QED
    BY <2>1, <2>2, WholeIsTwinned DEF InStep
<1>2. QED
  BY <1>1 DEF LockStep

\* What a pair of ranks is to each other depends on nothing else than this.
LEMMA FramePair ==
  ASSUME NEW r, NEW q, chunked' = chunked,
         Left(r)' = Left(r), Left(q)' = Left(q),
         sent'[r][q] = sent[r][q], sent'[q][r] = sent[q][r],
         received'[r][q] = received[r][q], received'[q][r] = received[q][r]
  PROVE  /\ InStep(r, q) => InStep(r, q)'
         /\ Ahead(r, q) /\ pc'[r] = "wait" /\ batch'[r] = batch[r] => Ahead(r, q)'
<1>1. \A x, b : Length(x, b)' = Length(x, b)
  BY CommonIsFixed
<1>2. InStep(r, q) => InStep(r, q)'
  BY DEF InStep
<1>3. ASSUME Ahead(r, q), pc'[r] = "wait", batch'[r] = batch[r]
      PROVE  Ahead(r, q)'
  <2>1. Length(r, batch[r])' = Length(r, batch[r])
    BY <1>1, <1>3
  <2>2. QED
    BY <1>3, <2>1 DEF Ahead
<1>4. QED
  BY <1>2, <1>3

\* Of two batches that two ranks have with each other, one is first for both.
LEMMA NotBothBefore ==
  ASSUME NEW a \in Nat \X Nat \X Nat \X Nat, NEW b \in Nat \X Nat \X Nat \X Nat,
         Before(a, Twin(b, a[4])), Before(b, Twin(a, b[4]))
  PROVE  FALSE
<1>1. PICK i \in 1 .. 4 : /\ a[i] < Twin(b, a[4])[i]
                          /\ \A m \in 1 .. i - 1 : a[m] = Twin(b, a[4])[m]
  BY DEF Before
<1>2. PICK j \in 1 .. 4 : /\ b[j] < Twin(a, b[4])[j]
                          /\ \A m \in 1 .. j - 1 : b[m] = Twin(a, b[4])[m]
  BY DEF Before
<1>3. /\ \A m \in 1 .. 3 : Twin(b, a[4])[m] = b[m] /\ Twin(a, b[4])[m] = a[m]
      /\ Twin(b, a[4])[4] = a[4] /\ Twin(a, b[4])[4] = b[4]
  <2>1. \A m \in 1 .. 3 : m = 1 \/ m = 2 \/ m = 3
    OBVIOUS
  <2>2. QED
    BY <2>1 DEF Twin
<1>4. \A m \in 1 .. 4 : a[m] \in Nat /\ b[m] \in Nat
  <2>1. \A m \in 1 .. 4 : m = 1 \/ m = 2 \/ m = 3 \/ m = 4
    OBVIOUS
  <2>2. QED
    BY <2>1
<1>5. i # 4 /\ j # 4
  BY <1>1, <1>2, <1>3, <1>4
<1>6. i \in 1 .. 3 /\ j \in 1 .. 3 /\ a[i] < b[i] /\ b[j] < a[j]
  BY <1>1, <1>2, <1>3, <1>5
<1>7. CASE i < j
  BY <1>2, <1>3, <1>4, <1>6, <1>7
<1>8. CASE j < i
  BY <1>1, <1>3, <1>4, <1>6, <1>8
<1>9. CASE i = j
  BY <1>4, <1>6, <1>9
<1>10. QED
  BY <1>6, <1>7, <1>8, <1>9

\* Only Post posts: every other step leaves the batches that are left.
LEMMA LeftIsKept ==
  ASSUME TypeInv, NEW r \in Ranks,
         \/ PlanWhole(r) \/ PlanChunks(r) \/ MinReduce(r) \/ MaxReduce(r)
         \/ Complete(r) \/ Finish(r)
  PROVE  /\ chunked' = chunked /\ sent' = sent /\ received' = received
         /\ \A x \in Ranks : Left(x)' = Left(x)
<1>1. chunked' = chunked /\ sent' = sent /\ received' = received
  BY DEF PlanWhole, PlanChunks, MinReduce, MaxReduce, Complete, Finish
<1>2. ASSUME NEW x \in Ranks
      PROVE  Left(x)' = Left(x)
  <2>1. Whole(x)' = Whole(x)
    BY <1>1, CommonIsFixed
  <2>2. pc \in [Ranks -> {"plan", "min", "max", "run", "wait", "done"}]
    BY DEF TypeInv, TypeOK
  <2>3. CASE x # r
    <3>1. pc'[x] = pc[x] /\ todo'[x] = todo[x]
      BY <2>3 DEF PlanWhole, PlanChunks, MinReduce, MaxReduce, Complete, Finish,
                  TypeInv, TypeOK
    <3>2. QED
      BY <2>1, <3>1 DEF Left, Planning
  <2>4. CASE x = r
    <3>1. CASE PlanWhole(r) \/ MaxReduce(r)
      <4>1. todo'[r] = Whole(r) /\ pc'[r] = "run"
        BY <3>1, WholeIsPlanned
      <4>2. pc[r] \in {"plan", "max"}
        BY <3>1 DEF PlanWhole, MaxReduce
      <4>3. QED
        BY <2>1, <2>4, <4>1, <4>2 DEF Left, Planning
    <3>2. CASE PlanChunks(r) \/ MinReduce(r)
      <4>1. pc[r] \in {"plan", "min"} /\ pc'[r] \in {"min", "max"}
        BY <2>2, <3>2 DEF PlanChunks, MinReduce
      <4>2. QED
        BY <2>1, <2>4, <4>1 DEF Left, Planning
    <3>3. CASE Complete(r) \/ Finish(r)
      <4>1. pc[r] \in {"run", "wait"} /\ pc'[r] \in {"run", "done"} /\ todo' = todo
        BY <2>2, <3>3 DEF Complete, Finish
      <4>2. QED
        BY <2>1, <2>4, <4>1 DEF Left, Planning
    <3>4. QED
      BY <3>1, <3>2, <3>3
  <2>5. QED
    BY <2>3, <2>4
<1>3. QED
  BY <1>1, <1>2

\* Steps that post nothing and end no wait.
LEMMA OtherLockStep ==
  ASSUME TypeInv, LockStep, NEW r \in Ranks,
         \/ PlanWhole(r) \/ PlanChunks(r) \/ MinReduce(r) \/ MaxReduce(r)
         \/ Finish(r)
  PROVE  LockStep'
<1>1. /\ chunked' = chunked /\ sent' = sent /\ received' = received
      /\ \A x \in Ranks : Left(x)' = Left(x)
  BY LeftIsKept
<1>2. ASSUME NEW x \in Ranks
      PROVE  /\ pc[x] = "wait" => pc'[x] = "wait" /\ batch'[x] = batch[x]
             /\ Left(x)' = Left(x)
  <2>1. pc[r] # "wait"
    BY DEF PlanWhole, PlanChunks, MinReduce, MaxReduce, Finish
  <2>2. x # r => pc'[x] = pc[x] /\ batch'[x] = batch[x]
    BY DEF PlanWhole, PlanChunks, MinReduce, MaxReduce, Finish, TypeInv, TypeOK
  <2>3. QED
    BY <1>1, <2>1, <2>2
<1>3. ASSUME NEW x \in Ranks, NEW y \in Ranks, x # y
      PROVE  InStep(x, y)' \/ Ahead(x, y)' \/ Ahead(y, x)'
  <2>1. Left(x)' = Left(x) /\ Left(y)' = Left(y)
    BY <1>2
  <2>2. CASE InStep(x, y)
    BY <1>1, <2>1, <2>2, FramePair
  <2>3. CASE Ahead(x, y)
    <3>1. pc'[x] = "wait" /\ batch'[x] = batch[x]
      BY <1>2, <2>3 DEF Ahead
    <3>2. QED
      BY <1>1, <2>1, <2>3, <3>1, FramePair
  <2>4. CASE Ahead(y, x)
    <3>1. pc'[y] = "wait" /\ batch'[y] = batch[y]
      BY <1>2, <2>4 DEF Ahead
    <3>2. QED
      BY <1>1, <2>1, <2>4, <3>1, FramePair
  <2>5. QED
    BY <1>3, <2>2, <2>3, <2>4 DEF LockStep
<1>4. QED
  BY <1>3 DEF LockStep

\* A rank that is ahead of the peer it waits for has unmatched ops.
LEMMA AheadIsUnmatched ==
  ASSUME TypeInv, NEW r \in Ranks, NEW q \in Ranks, Ahead(r, q)
  PROVE  ~Matched(r)
<1>1. /\ pc[r] = "wait" /\ batch[r] \in Whole(r) /\ batch[r][4] = q
  BY DEF Ahead, TypeInv, Reduced
<1>2. Length(r, batch[r]) \in Nat /\ Length(r, batch[r]) > 0
  BY <1>1, WholeIsTwinned
<1>3. /\ sent[r][q] \in Nat /\ received[q][r] \in Nat
      /\ received[r][q] \in Nat /\ sent[q][r] \in Nat
  BY DEF TypeInv, TypeOK
<1>4. QED
  BY <1>1, <1>2, <1>3 DEF Ahead, Matched

\* The end of a wait: the rank was not ahead of its peer any more.
LEMMA CompleteLockStep ==
  ASSUME TypeInv, LockStep, NEW r \in Ranks, Complete(r)
  PROVE  LockStep'
<1>1. /\ batch' = batch /\ pc[r] = "wait" /\ pc' = [pc EXCEPT ![r] = "run"]
  BY DEF Complete
<1>2. /\ chunked' = chunked /\ sent' = sent /\ received' = received
      /\ \A x \in Ranks : Left(x)' = Left(x)
  BY LeftIsKept
<1>3. ASSUME NEW x \in Ranks, NEW y \in Ranks, Ahead(x, y)
      PROVE  pc'[x] = "wait" /\ batch'[x] = batch[x]
  <2>1. x # r
    BY <1>3, AheadIsUnmatched DEF Complete
  <2>2. QED
    BY <1>1, <1>3, <2>1 DEF Ahead, TypeInv, TypeOK
<1>4. ASSUME NEW x \in Ranks, NEW y \in Ranks, x # y
      PROVE  InStep(x, y)' \/ Ahead(x, y)' \/ Ahead(y, x)'
  <2>1. CASE InStep(x, y)
    BY <1>1, <1>2, <2>1, FramePair
  <2>2. CASE Ahead(x, y)
    BY <1>1, <1>2, <1>3, <2>2, FramePair
  <2>3. CASE Ahead(y, x)
    BY <1>1, <1>2, <1>3, <2>3, FramePair
  <2>4. QED
    BY <1>4, <2>1, <2>2, <2>3 DEF LockStep
<1>5. QED
  BY <1>4 DEF LockStep

\* What Post does, batch by batch.
LEMMA PostIs ==
  ASSUME TypeInv, NEW r \in Ranks, Post(r)
  PROVE  LET b == First(todo[r])
             q == b[4] IN
         /\ chunked' = chunked
         /\ q \in Ranks /\ q # r
         /\ b \in Left(r) /\ b \in Whole(r) /\ Left(r)' = Left(r) \ {b}
         /\ \A a \in Left(r) \ {b} : Before(b, a)
         /\ pc[r] = "run" /\ pc'[r] = "wait" /\ batch'[r] = b
         /\ \A x \in Ranks \ {r} :
              Left(x)' = Left(x) /\ pc'[x] = pc[x] /\ batch'[x] = batch[x]
         /\ \A x, y \in Ranks : <<x, y>> # <<r, q>> =>
              sent'[x][y] = sent[x][y] /\ received'[x][y] = received[x][y]
         /\ Sends(r, b[2], b[3]) =>
              /\ sent'[r][q] = sent[r][q] + Length(r, b)
              /\ received'[r][q] = received[r][q]
         /\ ~Sends(r, b[2], b[3]) =>
              /\ received'[r][q] = received[r][q] + Length(r, b)
              /\ sent'[r][q] = sent[r][q]
<1> DEFINE b == First(todo[r])
           q == b[4]
           n == BatchLength(r, b, step[r])
<1>1. /\ pc[r] = "run" /\ pc' = [pc EXCEPT ![r] = "wait"]
      /\ batch' = [batch EXCEPT ![r] = b]
      /\ todo' = [todo EXCEPT ![r] = @ \ {b}]
      /\ chunked' = chunked
  BY DEF Post
<1>2. /\ b \in todo[r] /\ b \in Whole(r)
      /\ \A a \in todo[r] \ {b} : Before(b, a)
      /\ step[r] = CommonStep
  BY PostedIs DEF Post
<1>3. q \in Ranks /\ q # r /\ n = Length(r, b)
  BY <1>2, WholeIsTwinned DEF Length
<1>4. /\ Sends(r, b[2], b[3]) =>
           sent' = [sent EXCEPT ![r][q] = @ + n] /\ received' = received
      /\ ~Sends(r, b[2], b[3]) =>
           received' = [received EXCEPT ![r][q] = @ + n] /\ sent' = sent
  BY DEF Post
<1> HIDE DEF b, q, n
<1>5. ASSUME NEW count \in [Ranks -> [Ranks -> Nat]], NEW new,
             new = [count EXCEPT ![r][q] = @ + n]
      PROVE  /\ new[r][q] = count[r][q] + n
             /\ \A x, y \in Ranks : <<x, y>> # <<r, q>> => new[x][y] = count[x][y]
  BY <1>3, <1>5
<1>6. sent \in [Ranks -> [Ranks -> Nat]] /\ received \in [Ranks -> [Ranks -> Nat]]
  BY DEF TypeInv, TypeOK
<1>7. \A x \in Ranks \ {r} :
        Left(x)' = Left(x) /\ pc'[x] = pc[x] /\ batch'[x] = batch[x]
  <2>1. ASSUME NEW x \in Ranks \ {r}
        PROVE  Left(x)' = Left(x) /\ pc'[x] = pc[x] /\ batch'[x] = batch[x]
    <3>1. Whole(x)' = Whole(x)
      BY <1>1, CommonIsFixed
    <3>2. pc'[x] = pc[x] /\ batch'[x] = batch[x] /\ todo'[x] = todo[x]
      BY <1>1 DEF TypeInv, TypeOK
    <3>3. QED
      BY <3>1, <3>2 DEF Left, Planning
  <2>2. QED
    BY <2>1
<1>8. pc'[r] = "wait" /\ batch'[r] = b /\ todo'[r] = todo[r] \ {b}
  BY <1>1 DEF TypeInv, TypeOK
<1>9. Left(r) = todo[r] /\ Left(r)' = todo[r] \ {b}
  BY <1>1, <1>8 DEF Left, Planning
<1>10. CASE Sends(r, b[2], b[3])
  <2>1. sent' = [sent EXCEPT ![r][q] = @ + n] /\ received' = received
    BY <1>4, <1>10
  <2>2. /\ sent'[r][q] = sent[r][q] + n
        /\ \A x, y \in Ranks : <<x, y>> # <<r, q>> => sent'[x][y] = sent[x][y]
    BY <1>5, <1>6, <2>1
  <2>3. QED
    BY <1>1, <1>2, <1>3, <1>7, <1>8, <1>9, <1>10, <2>1, <2>2 DEF b, q
<1>11. CASE ~Sends(r, b[2], b[3])
  <2>1. received' = [received EXCEPT ![r][q] = @ + n] /\ sent' = sent
    BY <1>4, <1>11
  <2>2. /\ received'[r][q] = received[r][q] + n
        /\ \A x, y \in Ranks :
             <<x, y>> # <<r, q>> => received'[x][y] = received[x][y]
    BY <1>5, <1>6, <2>1
  <2>3. QED
    BY <1>1, <1>2, <1>3, <1>7, <1>8, <1>9, <1>11, <2>1, <2>2 DEF b, q
<1>12. QED
  BY <1>10, <1>11

LEMMA LeftIsTyped ==
  ASSUME TypeInv, NEW r \in Ranks, NEW a \in Left(r)
  PROVE  a \in Nat \X Nat \X {1, 2} \X Ranks
<1>1. CASE Planning(r)
  BY <1>1, WholeIsTwinned DEF Left
<1>2. CASE ~Planning(r)
  BY <1>2 DEF Left, TypeInv, TypeOK
<1>3. QED
  BY <1>1, <1>2

LEMMA NeverBeforeItself ==
  ASSUME NEW a \in Nat \X Nat \X {1, 2} \X Ranks
  PROVE  ~Before(a, a)
<1>1. \A i \in 1 .. 4 : a[i] \in Nat
  <2>1. \A i \in 1 .. 4 : i = 1 \/ i = 2 \/ i = 3 \/ i = 4
    OBVIOUS
  <2>2. a \in Nat \X Nat \X Nat \X Nat
    BY BatchIsNumbers
  <2>3. QED
    BY <2>1, <2>2
<1>2. QED
  BY <1>1 DEF Before

\* A post that no post of the peer's preceded puts the rank ahead.
LEMMA PostFirst ==
  ASSUME TypeInv, NEW r \in Ranks, Post(r), NEW q \in Ranks,
         q = First(todo[r])[4], InStep(r, q)
  PROVE  Ahead(r, q)'
<1>0. PICK b : b = First(todo[r])
  OBVIOUS
<1>1. /\ chunked' = chunked /\ q # r
      /\ b \in Left(r) /\ b \in Whole(r) /\ Left(r)' = Left(r) \ {b}
      /\ \A a \in Left(r) \ {b} : Before(b, a)
      /\ pc'[r] = "wait" /\ batch'[r] = b /\ b[4] = q
      /\ Left(q)' = Left(q)
  BY <1>0, PostIs
<1>2. /\ sent'[q][r] = sent[q][r] /\ received'[q][r] = received[q][r]
      /\ Sends(r, b[2], b[3]) =>
              /\ sent'[r][q] = sent[r][q] + Length(r, b)
              /\ received'[r][q] = received[r][q]
      /\ ~Sends(r, b[2], b[3]) =>
              /\ received'[r][q] = received[r][q] + Length(r, b)
              /\ sent'[r][q] = sent[r][q]
  BY <1>0, <1>1, PostIs
<1>3. Length(r, b)' = Length(r, b)
  BY <1>1, CommonIsFixed
<1>4. /\ Twin(b, r) \in Left(q)'
      /\ \A a \in Left(r)' : a[4] = q => Twin(a, r) \in Left(q)' /\ Before(b, a)
  BY <1>1 DEF InStep
<1>5. ASSUME NEW a \in Left(q)', a[4] = r
      PROVE  a = Twin(b, r) \/ Twin(a, q) \in Left(r)'
  <2>1. Twin(a, q) \in Left(r) /\ a \in Left(q)
    BY <1>1, <1>5 DEF InStep
  <2>2. CASE Twin(a, q) # b
    BY <1>1, <2>1, <2>2
  <2>3. CASE Twin(a, q) = b
    <3>1. a \in Nat \X Nat \X {1, 2} \X Ranks
      BY <2>1, LeftIsTyped
    <3>2. a = Twin(b, r)
      BY <1>5, <2>3, <3>1 DEF Twin
    <3>3. QED
      BY <3>2
  <2>4. QED
    BY <2>2, <2>3
<1>6. batch'[r] = b
  BY <1>1
<1>7. /\ Sends(r, b[2], b[3]) =>
         /\ sent'[r][q] = received'[q][r] + Length(r, b)'
         /\ sent'[q][r] = received'[r][q]
      /\ ~Sends(r, b[2], b[3]) =>
         /\ received'[r][q] = sent'[q][r] + Length(r, b)'
         /\ sent'[r][q] = received'[q][r]
  BY <1>2, <1>3 DEF InStep
<1>8. QED
  BY <1>1, <1>4, <1>5, <1>7 DEF Ahead, Length

\* A post that the peer's preceded is the other end of the same batch, and
\* brings the two in step.
LEMMA PostSecond ==
  ASSUME TypeInv, NEW r \in Ranks, Post(r), NEW q \in Ranks,
         q = First(todo[r])[4], Ahead(q, r)
  PROVE  InStep(r, q)'
<1>0. PICK b : b = First(todo[r])
  OBVIOUS
<1>1. /\ chunked' = chunked /\ q # r
      /\ b \in Left(r) /\ b \in Whole(r) /\ Left(r)' = Left(r) \ {b}
      /\ \A a \in Left(r) \ {b} : Before(b, a)
      /\ b[4] = q /\ Left(q)' = Left(q)
  BY <1>0, PostIs
<1>2. /\ sent'[q][r] = sent[q][r] /\ received'[q][r] = received[q][r]
      /\ Sends(r, b[2], b[3]) =>
              /\ sent'[r][q] = sent[r][q] + Length(r, b)
              /\ received'[r][q] = received[r][q]
      /\ ~Sends(r, b[2], b[3]) =>
              /\ received'[r][q] = received[r][q] + Length(r, b)
              /\ sent'[r][q] = sent[r][q]
  BY <1>0, <1>1, PostIs
<1>3. PICK d : d = batch[q]
  OBVIOUS
<1>4. /\ d \in Whole(q) /\ d[4] = r /\ Twin(d, q) \in Left(r)
      /\ \A a \in Left(q) : a[4] = r => Twin(a, q) \in Left(r) /\ Before(d, a)
      /\ \A a \in Left(r) : a[4] = q => a = Twin(d, q) \/ Twin(a, r) \in Left(q)
      /\ Sends(q, d[2], d[3]) =>
         /\ sent[q][r] = received[r][q] + Length(q, d)
         /\ sent[r][q] = received[q][r]
      /\ ~Sends(q, d[2], d[3]) =>
         /\ received[q][r] = sent[r][q] + Length(q, d)
         /\ sent[q][r] = received[r][q]
  BY <1>3 DEF Ahead, TypeInv, Reduced
<1>5. b = Twin(d, q)
  <2>1. SUFFICES ASSUME b # Twin(d, q)
                 PROVE  FALSE
    OBVIOUS
  <2>2. Before(b, Twin(d, b[4]))
    BY <1>1, <1>4, <2>1
  <2>3. Before(d, Twin(b, d[4]))
    <3>1. Twin(b, r) \in Left(q)
      BY <1>1, <1>4, <2>1
    <3>2. Twin(b, r)[4] = r
      BY DEF Twin
    <3>3. QED
      BY <1>4, <3>1, <3>2
  <2>4. /\ b \in Nat \X Nat \X Nat \X Nat
        /\ d \in Nat \X Nat \X Nat \X Nat
    <3>1. b \in Nat \X Nat \X {1, 2} \X Ranks /\ d \in Nat \X Nat \X {1, 2} \X Ranks
      BY <1>1, <1>4, WholeIsTwinned
    <3>2. QED
      BY <3>1, BatchIsNumbers
  <2>5. QED
    BY <2>2, <2>3, <2>4, NotBothBefore
<1>6. /\ b[2] = d[2] /\ b[3] = d[3]
      /\ Sends(r, b[2], b[3]) <=> ~Sends(q, d[2], d[3])
      /\ Length(r, b) = Length(q, d)
  <2>1. /\ Sends(r, d[2], d[3]) <=> ~Sends(q, d[2], d[3])
        /\ Length(r, Twin(d, q)) = Length(q, d)
    BY <1>4, WholeIsTwinned
  <2>2. b[2] = d[2] /\ b[3] = d[3]
    BY <1>5 DEF Twin
  <2>3. QED
    BY <1>5, <2>1, <2>2
<1>7. sent'[r][q] = received'[q][r] /\ sent'[q][r] = received'[r][q]
  <2>1. CASE Sends(r, b[2], b[3])
    BY <1>2, <1>4, <1>6, <2>1
  <2>2. CASE ~Sends(r, b[2], b[3])
    BY <1>2, <1>4, <1>6, <2>2
  <2>3. QED
    BY <2>1, <2>2
<1>8. ASSUME NEW a \in Left(r)', a[4] = q
      PROVE  Twin(a, r) \in Left(q)'
  BY <1>1, <1>4, <1>5, <1>8
<1>9. ASSUME NEW a \in Left(q)', a[4] = r
      PROVE  Twin(a, q) \in Left(r)'
  <2>1. a \in Left(q) /\ Twin(a, q) \in Left(r) /\ Before(d, a)
    BY <1>1, <1>4, <1>9
  <2>2. Twin(a, q) # b
    <3>1. SUFFICES ASSUME Twin(a, q) = Twin(d, q)
                   PROVE  FALSE
      BY <1>5
    <3>2. /\ a \in Nat \X Nat \X {1, 2} \X Ranks
          /\ d \in Nat \X Nat \X {1, 2} \X Ranks
      BY <1>4, <2>1, LeftIsTyped, WholeIsTwinned
    <3>3. a = d
      BY <1>4, <1>9, <3>1, <3>2 DEF Twin
    <3>4. ~Before(d, d)
      BY <3>2, NeverBeforeItself
    <3>5. QED
      BY <2>1, <3>3, <3>4
  <2>3. QED
    BY <1>1, <2>1, <2>2
<1>10. QED
  BY <1>7, <1>8, <1>9 DEF InStep

\* The pair of the rank that posts and its peer meets as above; the rest of
\* the pairs see nothing of it.
LEMMA PostLockStep ==
  ASSUME TypeInv, LockStep, NEW r \in Ranks, Post(r)
  PROVE  LockStep'
<1>0. PICK b, p : b = First(todo[r]) /\ p = b[4]
  OBVIOUS
<1>1. /\ chunked' = chunked /\ p \in Ranks /\ p # r /\ pc[r] = "run"
      /\ b[4] = p /\ Left(r)' = Left(r) \ {b}
      /\ \A x \in Ranks \ {r} :
           Left(x)' = Left(x) /\ pc'[x] = pc[x] /\ batch'[x] = batch[x]
      /\ \A x, y \in Ranks : <<x, y>> # <<r, p>> =>
           sent'[x][y] = sent[x][y] /\ received'[x][y] = received[x][y]
  BY <1>0, PostIs
<1>2. \A x \in Ranks : ~Ahead(r, x)
  BY <1>1 DEF Ahead
<1>3. InStep(r, p)' \/ Ahead(r, p)'
  <2>1. InStep(r, p) \/ Ahead(p, r)
    BY <1>1, <1>2 DEF LockStep
  <2>2. QED
    BY <1>0, <1>1, <2>1, PostFirst, PostSecond
<1>4. ASSUME NEW q \in Ranks, q # r, q # p
      PROVE  InStep(r, q)' \/ Ahead(q, r)'
  <2>1. /\ sent'[r][q] = sent[r][q] /\ sent'[q][r] = sent[q][r]
        /\ received'[r][q] = received[r][q] /\ received'[q][r] = received[q][r]
        /\ Left(q)' = Left(q) /\ pc'[q] = pc[q] /\ batch'[q] = batch[q]
    BY <1>1, <1>4
  <2>2. \A a : a[4] = q => (a \in Left(r)' <=> a \in Left(r))
    BY <1>1, <1>4
  <2>3. \A a : Twin(a, q)[4] = q
    BY DEF Twin
  <2>4. CASE InStep(r, q)
    <3>1. \A a \in Left(r)' : a[4] = q => Twin(a, r) \in Left(q)'
      BY <2>1, <2>2, <2>4 DEF InStep
    <3>2. \A a \in Left(q)' : a[4] = r => Twin(a, q) \in Left(r)'
      BY <2>1, <2>2, <2>3, <2>4 DEF InStep
    <3>3. QED
      BY <2>1, <2>4, <3>1, <3>2 DEF InStep
  <2>5. CASE Ahead(q, r)
    <3>1. PICK d : d = batch[q] /\ d = batch'[q]
      BY <2>1
    <3>2. Length(q, d)' = Length(q, d)
      BY <1>1, CommonIsFixed
    <3>3. /\ Twin(d, q) \in Left(r)'
          /\ \A a \in Left(q)' :
               a[4] = r => Twin(a, q) \in Left(r)' /\ Before(d, a)
      BY <2>1, <2>2, <2>3, <2>5, <3>1 DEF Ahead
    <3>4. \A a \in Left(r)' :
            a[4] = q => a = Twin(d, q) \/ Twin(a, r) \in Left(q)'
      BY <2>1, <2>2, <2>5, <3>1 DEF Ahead
    <3>5. /\ Sends(q, d[2], d[3]) =>
             /\ sent'[q][r] = received'[r][q] + Length(q, d)'
             /\ sent'[r][q] = received'[q][r]
          /\ ~Sends(q, d[2], d[3]) =>
             /\ received'[q][r] = sent'[r][q] + Length(q, d)'
             /\ sent'[q][r] = received'[r][q]
      BY <2>1, <2>5, <3>1, <3>2 DEF Ahead
    <3>6. pc'[q] = "wait" /\ d[4] = r
      BY <2>1, <2>5, <3>1 DEF Ahead
    <3>7. QED
      BY <3>1, <3>3, <3>4, <3>5, <3>6 DEF Ahead, Length
  <2>6. QED
    BY <1>2, <1>4, <2>4, <2>5 DEF LockStep
<1>5. ASSUME NEW x \in Ranks \ {r}, NEW y \in Ranks \ {r}, x # y
      PROVE  InStep(x, y)' \/ Ahead(x, y)' \/ Ahead(y, x)'
  <2>1. /\ Left(x)' = Left(x) /\ Left(y)' = Left(y)
        /\ pc'[x] = pc[x] /\ batch'[x] = batch[x]
        /\ pc'[y] = pc[y] /\ batch'[y] = batch[y]
        /\ sent'[x][y] = sent[x][y] /\ sent'[y][x] = sent[y][x]
        /\ received'[x][y] = received[x][y] /\ received'[y][x] = received[y][x]
    BY <1>1, <1>5
  <2>2. CASE InStep(x, y)
    BY <1>1, <2>1, <2>2, FramePair
  <2>3. CASE Ahead(x, y)
    <3>1. pc'[x] = "wait"
      BY <2>1, <2>3 DEF Ahead
    <3>2. QED
      BY <1>1, <2>1, <2>3, <3>1, FramePair
  <2>4. CASE Ahead(y, x)
    <3>1. pc'[y] = "wait"
      BY <2>1, <2>4 DEF Ahead
    <3>2. QED
      BY <1>1, <2>1, <2>4, <3>1, FramePair
  <2>5. QED
    BY <1>5, <2>2, <2>3, <2>4 DEF LockStep
<1>6. ASSUME NEW q \in Ranks, q # r
      PROVE  InStep(r, q)' \/ Ahead(r, q)' \/ Ahead(q, r)'
  BY <1>3, <1>4, <1>6
<1>7. \A q \in Ranks : InStep(r, q)' => InStep(q, r)'
  BY DEF InStep
<1>8. ASSUME NEW x \in Ranks, NEW y \in Ranks, x # y
      PROVE  InStep(x, y)' \/ Ahead(x, y)' \/ Ahead(y, x)'
  <2>1. CASE x = r
    BY <1>6, <1>8, <2>1
  <2>2. CASE y = r
    BY <1>6, <1>7, <1>8, <2>2
  <2>3. CASE x # r /\ y # r
    BY <1>5, <1>8, <2>3
  <2>4. QED
    BY <2>1, <2>2, <2>3
<1>9. QED
  BY <1>8 DEF LockStep
-----------------------------------------------------------------------------
(***************************************************************************)
(* The theorems.                                                           *)
(***************************************************************************)

\* The invariant is inductive: of two ranks, at most one is ahead of the other,
\* by the one batch it waits in, and all either has left with the other is
\* later in the order of both.
THEOREM Inductive == Spec => []IInv
<1>1. Init => IInv
  BY InitTypeInv, InitLockStep DEF IInv
<1>2. IInv /\ [Next]_vars => IInv'
  <2>1. SUFFICES ASSUME IInv, [Next]_vars
                 PROVE  IInv'
    OBVIOUS
  <2>2. TypeInv'
    BY <2>1, NextTypeInv DEF IInv
  <2>3. CASE UNCHANGED vars
    <3>1. \A x : Left(x)' = Left(x)
      <4>1. \A x : Whole(x)' = Whole(x)
        BY <2>3, CommonIsFixed DEF vars
      <4>2. QED
        BY <2>3, <4>1 DEF vars, Left, Planning
    <3>2. \A x, y \in Ranks : /\ InStep(x, y) => InStep(x, y)'
                              /\ Ahead(x, y) => Ahead(x, y)'
      <4>1. ASSUME NEW x \in Ranks, NEW y \in Ranks
            PROVE  /\ InStep(x, y) => InStep(x, y)'
                   /\ Ahead(x, y) => Ahead(x, y)'
        <5>1. Ahead(x, y) => pc'[x] = "wait" /\ batch'[x] = batch[x]
          BY <2>3 DEF vars, Ahead
        <5>2. QED
          BY <2>3, <3>1, <5>1, FramePair DEF vars
      <4>2. QED
        BY <4>1
    <3>3. LockStep'
      BY <2>1, <3>2 DEF IInv, LockStep
    <3>4. QED
      BY <2>2, <3>3 DEF IInv
  <2>4. CASE Next
    <3>1. PICK r \in Ranks : RankStep(r)
      BY <2>4 DEF Next
    <3>2. LockStep'
      BY <2>1, <3>1, OtherLockStep, PostLockStep, CompleteLockStep
      DEF IInv, RankStep
    <3>3. QED
      BY <2>2, <3>2 DEF IInv
  <2>5. QED
    BY <2>1, <2>3, <2>4
<1>3. QED
  BY <1>1, <1>2, PTL DEF Spec

\* The variables of every rank keep their ranges.
THEOREM TypeCorrect == Spec => []TypeOK
<1>1. IInv => TypeOK
  BY DEF IInv, TypeInv
<1>2. QED
  BY <1>1, Inductive, PTL

\* A rank that waits for unmatched ops waits for a peer that has the same
\* batch still to post: no order of the ranks' steps makes two of them meet in
\* different batches (execute_recursive_partition_stream_transfer).
THEOREM BatchesMeet == Spec => []PeerStillOwesBatch
<1>1. IInv => PeerStillOwesBatch
  <2>1. SUFFICES ASSUME IInv, NEW r \in Ranks, pc[r] = "wait", ~Matched(r)
                 PROVE  \/ pc[batch[r][4]] \in {"plan", "min", "max"}
                        \/ Twin(batch[r], r) \in todo[batch[r][4]]
    BY DEF PeerStillOwesBatch, Twin
  <2> DEFINE b == batch[r]
             q == b[4]
  <2>2. b \in Whole(r) /\ q \in Ranks /\ q # r
    BY <2>1, WholeIsTwinned DEF IInv, TypeInv, Reduced
  <2>3. /\ sent[r][q] \in Nat /\ received[q][r] \in Nat
        /\ received[r][q] \in Nat /\ sent[q][r] \in Nat
    BY <2>1, <2>2 DEF IInv, TypeInv, TypeOK
  <2>4. ~InStep(r, q)
    BY <2>1, <2>3 DEF InStep, Matched
  <2>5. ~Ahead(q, r)
    <3>1. SUFFICES ASSUME Ahead(q, r)
                   PROVE  Matched(r)
      BY <2>1
    <3>2. Length(q, batch[q]) \in Nat
      BY <2>1, <2>2, <3>1, WholeIsTwinned DEF Ahead, IInv, TypeInv, Reduced
    <3>3. received[q][r] >= sent[r][q] /\ sent[q][r] >= received[r][q]
      BY <2>3, <3>1, <3>2 DEF Ahead
    <3>4. QED
      BY <3>3 DEF Matched
  <2>6. Ahead(r, q)
    BY <2>1, <2>2, <2>4, <2>5 DEF IInv, LockStep
  <2>7. QED
    BY <2>6 DEF Ahead, Left, Planning
<1>2. QED
  BY <1>1, Inductive, PTL

-----------------------------------------------------------------------------
(***************************************************************************)
(* The partitions of a power of two.                                       *)
(***************************************************************************)

\* The number of rounds is the logarithm.
LEMMA RoundsOf ==
  ASSUME NEW n \in Nat
  PROVE  partition(2^n)!Rounds = n
<1> DEFINE IsLog(k) == 2^k <= 2^n /\ 2^n < 2^(k + 1)
<1>1. n \in 0 .. 2^n /\ IsLog(n)
  <2>1. 2^n < 2^(n + 1)
    BY PowersGrow
  <2>3. n <= 2^n
    BY PowerIsAbove, PowerIsPositive
  <2>4. QED
    BY <2>1, <2>3, PowerIsPositive
<1>2. ASSUME NEW k \in Nat, IsLog(k) PROVE k = n
  <2>1. 2^k \in Nat /\ 2^(k + 1) \in Nat /\ 2^n \in Nat
    BY PowerIsPositive
  <2>2. CASE k < n
    <3>1. k + 1 = n \/ 2^(k + 1) < 2^n
      BY <2>2, PowersGrow
    <3>2. QED
      BY <1>2, <2>1, <3>1
  <2>3. CASE n < k
    <3>1. 2^n < 2^k
      BY <2>3, PowersGrow
    <3>2. QED
      BY <1>2, <2>1, <3>1
  <2>4. QED
    BY <2>2, <2>3
<1> HIDE DEF IsLog
<1>3. partition(2^n)!Rounds = CHOOSE k \in 0 .. 2^n : IsLog(k)
  BY DEF partition!Rounds, IsLog
<1>4. \A k \in 0 .. 2^n : k \in Nat
  BY PowerIsPositive
<1>5. QED
  BY <1>1, <1>2, <1>3, <1>4

\* The size of a partition is a power of two itself.
LEMMA SizeOf ==
  ASSUME NEW n \in Nat, NEW k \in 0 .. n
  PROVE  partition(2^n)!PartitionSize(k) = 2^(n - k)
<1> DEFINE p == 2^(n - k)
           m == 2^k
<1>1. 2^n = p * m /\ p \in Nat \ {0} /\ m \in Nat \ {0}
  BY PowersDivide, PowerIsPositive
<1>2. partition(2^n)!PartitionSize(k) = 2^n \div 2^k
  BY DEF partition!PartitionSize
<1> HIDE DEF p, m
<1>3. (p * m) \div m = p
  <2>1. p * m \in Nat /\ p * m <= p * m /\ p * m < p * m + m
    BY <1>1
  <2>2. QED
    BY <1>1, <2>1, QuotientIs
<1>4. QED
  BY <1>1, <1>2, <1>3 DEF p, m

\* A half of a partition is one of two blocks of half its size.
LEMMA HalfBlock ==
  ASSUME NEW h \in Nat \ {0}, NEW x \in Nat
  PROVE  LET m == x \div (2 * h) IN
           /\ m \in Nat /\ m * (2 * h) <= x /\ x < m * (2 * h) + 2 * h
           /\ x - m * (2 * h) < h => x \div h = 2 * m
           /\ ~(x - m * (2 * h) < h) => x \div h = 2 * m + 1
<1> DEFINE p == 2 * h
           m == x \div p
<1>1. p \in Nat \ {0}
  OBVIOUS
<1>2. p = 2 * h
  OBVIOUS
<1> HIDE DEF p
<1>3. m \in Nat /\ m * p <= x /\ x < m * p + p
  BY <1>1
<1> HIDE DEF m
<1>4. (2 * m) * h = m * p /\ (2 * m + 1) * h = m * p + h
  BY <1>1, <1>2, <1>3
<1>5. ASSUME x - m * p < h PROVE x \div h = 2 * m
  <2> DEFINE b == 2 * m
  <2>1. b \in Nat /\ b * h <= x /\ x < b * h + h
    BY <1>1, <1>3, <1>4, <1>5
  <2> HIDE DEF b
  <2>2. x \div h = b
    BY <2>1, QuotientIs
  <2>3. QED
    BY <2>2 DEF b
<1>6. ASSUME ~(x - m * p < h) PROVE x \div h = 2 * m + 1
  <2> DEFINE b == 2 * m + 1
  <2>1. b \in Nat /\ b * h <= x /\ x < b * h + h
    BY <1>1, <1>2, <1>3, <1>4, <1>6
  <2> HIDE DEF b
  <2>2. x \div h = b
    BY <2>1, QuotientIs
  <2>3. QED
    BY <2>2 DEF b
<1>7. QED
  BY <1>2, <1>3, <1>5, <1>6 DEF m

\* Two ranks are in opposite halves in the round that parts their blocks.
LEMMA OtherHalfIs ==
  ASSUME NEW n \in Nat, NEW k \in 0 .. n - 1,
         NEW r \in 0 .. 2^n - 1, NEW q \in 0 .. 2^n - 1
  PROVE  q \in partition(2^n)!OtherHalf(r, k) <=>
           /\ r \div 2^(n - k) = q \div 2^(n - k)
           /\ r \div 2^(n - (k + 1)) # q \div 2^(n - (k + 1))
<1> DEFINE h == 2^(n - (k + 1))
           p == 2^(n - k)
           m == r \div p
           l == q \div p
<1>1. h \in Nat \ {0} /\ p = 2 * h
  <2>1. n - (k + 1) \in Nat
    OBVIOUS
  <2>2. 2^((n - (k + 1)) + 1) = 2 * 2^(n - (k + 1))
    BY <2>1, PowersDouble
  <2>3. (n - (k + 1)) + 1 = n - k
    OBVIOUS
  <2>4. QED
    BY <2>1, <2>2, <2>3, PowerIsPositive
<1>2. r \in Nat /\ q \in Nat /\ r \in 0 .. 2^n - 1 /\ q \in 0 .. 2^n - 1
  BY PowerIsPositive
<1>3. partition(2^n)!PartitionSize(k) = p
  BY SizeOf
<1>4. partition(2^n)!Half(k) = h
  <2>1. partition(2^n)!Half(k) = p \div 2
    BY <1>3 DEF partition!Half
  <2> HIDE DEF h, p
  <2>2. QED
    BY <1>1, <2>1
<1>5. partition(2^n)!Base(r, k) = m * p
  BY <1>3 DEF partition!Base
<1>6. partition(2^n)!Ranks = 0 .. 2^n - 1
  BY DEF partition!Ranks
<1> HIDE DEF h, p
<1>7. /\ m \in Nat /\ m * p <= r /\ r < m * p + p
      /\ r - m * p < h => r \div h = 2 * m
      /\ ~(r - m * p < h) => r \div h = 2 * m + 1
  BY <1>1, <1>2, HalfBlock
<1>8. /\ l \in Nat /\ l * p <= q /\ q < l * p + p
      /\ q - l * p < h => q \div h = 2 * l
      /\ ~(q - l * p < h) => q \div h = 2 * l + 1
  BY <1>1, <1>2, HalfBlock
<1>9. q \in partition(2^n)!OtherHalf(r, k) <=>
        q \in IF r - m * p < h THEN m * p + h .. m * p + p - 1 ELSE m * p .. m * p + h - 1
  BY <1>2, <1>3, <1>4, <1>5, <1>6 DEF partition!OtherHalf, partition!InFirstHalf
<1> HIDE DEF m, l
<1> DEFINE b == m * p
<1>10. b \in Nat /\ p \in Nat \ {0}
  BY <1>1, <1>7
<1>11. ASSUME q \in partition(2^n)!OtherHalf(r, k)
       PROVE  m = l /\ r \div h # q \div h
  <2>1. m * p <= q /\ q < m * p + p /\ (q - m * p < h <=> ~(r - m * p < h))
    <3> HIDE DEF b
    <3>1. q \in IF r - b < h THEN b + h .. b + p - 1 ELSE b .. b + h - 1
      BY <1>9, <1>11 DEF b
    <3>2. b <= q /\ q < b + p /\ (q - b < h <=> ~(r - b < h))
      BY <1>1, <1>2, <1>10, <3>1
    <3>3. QED
      BY <3>2 DEF b
  <2>2. l = m
    BY <1>2, <1>7, <1>10, <2>1, QuotientIs DEF l
  <2>3. QED
    BY <1>7, <1>8, <2>1, <2>2
<1>12. ASSUME m = l, r \div h # q \div h
       PROVE  q \in partition(2^n)!OtherHalf(r, k)
  <2>1. (q - m * p < h <=> ~(r - m * p < h)) /\ m * p <= q /\ q < m * p + p
    BY <1>7, <1>8, <1>12
  <2> HIDE DEF b
  <2>2. (q - b < h <=> ~(r - b < h)) /\ b <= q /\ q < b + p
    BY <2>1 DEF b
  <2>3. q \in IF r - b < h THEN b + h .. b + p - 1 ELSE b .. b + h - 1
    BY <1>1, <1>2, <1>10, <2>2
  <2>4. QED
    BY <1>9, <2>3 DEF b
<1>13. QED
  BY <1>11, <1>12 DEF m, l, h, p

\* Ranks of one block are in one block of any larger size.
LEMMA BlocksNest ==
  ASSUME NEW n \in Nat, NEW r \in Nat, NEW q \in Nat,
         NEW k \in 0 .. n, r \div 2^(n - k) = q \div 2^(n - k),
         NEW j \in 0 .. k
  PROVE  r \div 2^(n - j) = q \div 2^(n - j)
<1> DEFINE T == {i \in Nat : i <= k /\ r \div 2^(n - (k - i)) # q \div 2^(n - (k - i))}
<1>1. SUFFICES ASSUME T # {} PROVE FALSE
  <2>1. k - j \in Nat /\ k - (k - j) = j
    OBVIOUS
  <2>2. k - j \notin T
    BY <1>1
  <2>3. QED
    BY <2>1, <2>2
<1>2. PICK i \in T : \A y \in T : i <= y
  <2>1. T \subseteq Nat
    OBVIOUS
  <2> HIDE DEF T
  <2>2. QED
    BY <1>1, <2>1, LeastNumber
<1>3. i \in Nat /\ i <= k /\ r \div 2^(n - (k - i)) # q \div 2^(n - (k - i))
  OBVIOUS
<1>4. i # 0
  BY <1>3
<1> DEFINE a == n - (k - (i - 1))
<1>5. a \in Nat /\ n - (k - i) = a + 1
  BY <1>3, <1>4
<1>6. r \div 2^a = q \div 2^a
  <2>1. i - 1 \in Nat /\ i - 1 <= k /\ i - 1 \notin T
    BY <1>2, <1>3, <1>4
  <2>2. QED
    BY <2>1
<1> HIDE DEF a
<1> DEFINE h == 2^a
<1>7. h \in Nat \ {0} /\ 2^(a + 1) = 2 * h
  BY <1>5, PowerIsPositive, PowersDouble
<1> HIDE DEF h
<1> DEFINE m == r \div (2 * h)
           l == q \div (2 * h)
<1>8. m \in Nat /\ (r \div h = 2 * m \/ r \div h = 2 * m + 1)
  BY <1>7, HalfBlock
<1>9. l \in Nat /\ (q \div h = 2 * l \/ q \div h = 2 * l + 1)
  BY <1>7, HalfBlock
<1>10. r \div h = q \div h
  BY <1>6 DEF h
<1>11. m # l
  BY <1>3, <1>5, <1>7
<1> HIDE DEF m, l
<1>12. QED
  BY <1>8, <1>9, <1>10, <1>11

\* Of a power of two of ranks every two are in opposite halves in one round and no
\* other.
THEOREM MeetOnce ==
  ASSUME NEW n \in Nat, NEW r \in 0 .. 2^n - 1, NEW q \in 0 .. 2^n - 1, r # q
  PROVE  /\ \E k \in 0 .. n - 1 : q \in partition(2^n)!OtherHalf(r, k)
         /\ \A k, j \in 0 .. n - 1 :
              q \in partition(2^n)!OtherHalf(r, k) /\ q \in partition(2^n)!OtherHalf(r, j)
              => k = j
<1> DEFINE T == {k \in 0 .. n : r \div 2^(n - k) # q \div 2^(n - k)}
<1>1. r \in Nat /\ q \in Nat /\ r <= 2^n - 1 /\ q <= 2^n - 1 /\ 2^n \in Nat \ {0}
  BY PowerIsPositive
<1>2. 0 \notin T
  <2>1. r \div 2^n = 0 /\ q \div 2^n = 0
    <3> DEFINE w == 2^n
    <3>1. w \in Nat \ {0} /\ r < w /\ q < w
      BY <1>1
    <3> HIDE DEF w
    <3>2. 0 * w <= r /\ r < 0 * w + w /\ 0 * w <= q /\ q < 0 * w + w
      BY <1>1, <3>1
    <3>3. r \div w = 0 /\ q \div w = 0
      BY <1>1, <3>1, <3>2, QuotientIs
    <3>4. QED
      BY <3>3 DEF w
  <2>2. n - 0 = n
    OBVIOUS
  <2>3. QED
    BY <2>1, <2>2
<1>3. n \in T
  <2>1. 2^(n - n) = 1
    BY PowerOfZero
  <2>2. r \div 1 = r /\ q \div 1 = q
    BY <1>1
  <2>3. QED
    BY <2>1, <2>2
<1>4. PICK k \in T : \A y \in T : k <= y
  <2>1. T \subseteq Nat
    OBVIOUS
  <2> HIDE DEF T
  <2>2. QED
    BY <1>3, <2>1, LeastNumber
<1>5. k \in 1 .. n /\ k - 1 \in 0 .. n - 1 /\ k - 1 \notin T /\ (k - 1) + 1 = k
  <2>1. k \in 0 .. n /\ k # 0
    BY <1>2
  <2>2. k \in 1 .. n /\ k - 1 \in 0 .. n - 1 /\ (k - 1) + 1 = k /\ ~(k <= k - 1)
    BY <2>1
  <2> HIDE DEF T
  <2>3. QED
    BY <1>4, <2>2
<1>6. q \in partition(2^n)!OtherHalf(r, k - 1)
  <2>1. r \div 2^(n - (k - 1)) = q \div 2^(n - (k - 1))
    BY <1>5
  <2>2. r \div 2^(n - ((k - 1) + 1)) # q \div 2^(n - ((k - 1) + 1))
    BY <1>4, <1>5
  <2>3. QED
    BY <1>5, <2>1, <2>2, OtherHalfIs
<1>7. ASSUME NEW i \in 0 .. n - 1, NEW j \in 0 .. n - 1, i < j,
             q \in partition(2^n)!OtherHalf(r, i), q \in partition(2^n)!OtherHalf(r, j)
      PROVE  FALSE
  <2>1. r \div 2^(n - (i + 1)) # q \div 2^(n - (i + 1))
    BY <1>7, OtherHalfIs
  <2>2. r \div 2^(n - j) = q \div 2^(n - j)
    BY <1>7, OtherHalfIs
  <2>3. i + 1 \in 0 .. j /\ j \in 0 .. n
    BY <1>7
  <2>4. r \in Nat /\ q \in Nat
    BY <1>1
  <2>5. r \div 2^(n - (i + 1)) = q \div 2^(n - (i + 1))
    BY <2>2, <2>3, <2>4, BlocksNest
  <2>6. QED
    BY <2>1, <2>5
<1>8. \A i, j \in 0 .. n - 1 : i # j => i < j \/ j < i
  OBVIOUS
<1>9. QED
  BY <1>5, <1>6, <1>7, <1>8

\* In worlds of 2, 4, 8 and more ranks every two ranks are in opposite halves in
\* exactly one round, as either of them finds it.
THEOREM PairsMeetOnce == TransportSpec => []EveryPairMeetsOnce
<1>1. ASSUME NEW n \in Nat, NEW w, w = 2^n,
             NEW r \in 0 .. w - 1, NEW q \in 0 .. w - 1, r # q
      PROVE  /\ \E k \in 0 .. partition(w)!Rounds - 1 : q \in partition(w)!OtherHalf(r, k)
             /\ \A k, j \in 0 .. partition(w)!Rounds - 1 :
                  q \in partition(w)!OtherHalf(r, k) /\ r \in partition(w)!OtherHalf(q, j)
                  => k = j
  <2>1. partition(w)!Rounds = n
    BY <1>1, RoundsOf
  <2>2. \A j \in 0 .. n - 1 :
          r \in partition(w)!OtherHalf(q, j) <=> q \in partition(w)!OtherHalf(r, j)
    BY <1>1, OtherHalfIs
  <2>3. /\ \E k \in 0 .. n - 1 : q \in partition(w)!OtherHalf(r, k)
        /\ \A k, j \in 0 .. n - 1 :
             q \in partition(w)!OtherHalf(r, k) /\ q \in partition(w)!OtherHalf(r, j)
             => k = j
    BY <1>1, MeetOnce
  <2>4. QED
    BY <2>1, <2>2, <2>3
<1>2. \A w \in {2, 4, 8, 16, 32} : \E n \in Nat : w = 2^n
  <2>1. 2^(0 + 1) = 2 * 2^0 /\ 2^(1 + 1) = 2 * 2^1 /\ 2^(2 + 1) = 2 * 2^2
        /\ 2^(3 + 1) = 2 * 2^3 /\ 2^(4 + 1) = 2 * 2^4
    BY PowersDouble
  <2>2. 2^1 = 2 /\ 2^2 = 4 /\ 2^3 = 8 /\ 2^4 = 16 /\ 2^5 = 32
    BY <2>1, PowerOfZero
  <2>3. QED
    BY <2>2
<1>3. EveryPairMeetsOnce
  <2>1. ASSUME NEW w \in {2, 4, 8, 16, 32}, NEW r \in 0 .. w - 1, NEW q \in 0 .. w - 1,
               r # q
        PROVE  /\ \E k \in 0 .. partition(w)!Rounds - 1 : q \in partition(w)!OtherHalf(r, k)
               /\ \A k, j \in 0 .. partition(w)!Rounds - 1 :
                    q \in partition(w)!OtherHalf(r, k) /\ r \in partition(w)!OtherHalf(q, j)
                    => k = j
    <3>1. PICK n \in Nat : w = 2^n
      BY <1>2
    <3>2. QED
      BY <1>1, <2>1, <3>1
  <2>2. QED
    BY <2>1 DEF EveryPairMeetsOnce
<1>4. QED
  BY <1>3, PTL

-----------------------------------------------------------------------------
(***************************************************************************)
(* What two ranks of the stream transport have exchanged.                  *)
(***************************************************************************)

\* The number of ranks is a power of two.
PowerOfTwo == \E n \in Nat : World = 2^n

\* Two ranks meet in one round and no other.
LEMMA RanksMeet ==
  ASSUME PowerOfTwo, NEW r \in Ranks, NEW q \in Ranks, r # q
  PROVE  /\ \E k \in 0 .. Rounds - 1 : q \in OtherHalf(r, k)
         /\ \A k, j \in 0 .. Rounds - 1 :
              q \in OtherHalf(r, k) /\ q \in OtherHalf(r, j) => k = j
<1>1. PICK n \in Nat : World = 2^n
  BY DEF PowerOfTwo
<1>2. Rounds = n
  <2>1. Rounds = partition(World)!Rounds
    BY DEF Rounds, partition!Rounds
  <2>2. QED
    BY <1>1, <2>1, RoundsOf
<1>3. \A k : OtherHalf(r, k) = partition(2^n)!OtherHalf(r, k)
  <2>1. \A k : OtherHalf(r, k) = partition(World)!OtherHalf(r, k)
    BY DEF OtherHalf, partition!OtherHalf, InFirstHalf, partition!InFirstHalf,
           Base, partition!Base, Half, partition!Half, PartitionSize,
           partition!PartitionSize, Ranks, partition!Ranks
  <2>2. QED
    BY <1>1, <2>1
<1>4. r \in 0 .. 2^n - 1 /\ q \in 0 .. 2^n - 1
  BY <1>1 DEF Ranks
<1>5. QED
  BY <1>2, <1>3, <1>4, MeetOnce

\* The chunks are enough for all ops of two ranks.
LEMMA ChunksSuffice ==
  ASSUME NEW r \in Ranks, NEW q \in Ranks, r # q
  PROVE  Ops[r][q] <= CommonChunks * CommonStep
<1> DEFINE s == CommonStep
           c == CommonChunks
<1>1. s \in Nat \ {0} /\ c \in Nat \ {0} /\ Ops[r][q] \in Nat
  BY CommonStepSuffices, CommonChunksIsGreatest, WorldAssumption
<1>2. CASE chunked
  <2> DEFINE l == LocalChunks(r, CommonStep)
  <2>1. l \in Nat /\ Ops[r][q] <= l * s
    BY CommonStepSuffices, LocalChunksSuffice
  <2>2. c >= l
    BY <1>2, CommonChunksIsGreatest
  <2> HIDE DEF s, c, l
  <2>3. c * s >= l * s
    <3>1. (c - l) * s >= 0
      BY <1>1, <2>1, <2>2
    <3>2. QED
      BY <1>1, <2>1, <3>1
  <2>4. Ops[r][q] <= c * s
    BY <1>1, <2>1, <2>3
  <2>5. QED
    BY <2>4 DEF s, c
<1>3. CASE ~chunked
  <2>1. c = 1 /\ Ops[r][q] <= s
    BY <1>3, CommonStepSuffices DEF CommonChunks
  <2> HIDE DEF s, c
  <2>2. Ops[r][q] <= c * s
    BY <1>1, <2>1
  <2>3. QED
    BY <2>2 DEF s, c
<1>4. QED
  BY <1>2, <1>3

\* The batches in which r sends to q (way "send") or receives from q, and the ops
\* there are of them and have been posted.
Ways == {"send", "recv"}

IsWay(r, b, q, way) == b[4] = q /\ (Sends(r, b[2], b[3]) <=> way = "send")
Planned(r, q, way)  == IF way = "send" THEN Ops[r][q] ELSE Ops[q][r]
Posted(r, q, way)   == IF way = "send" THEN sent[r][q] ELSE received[r][q]

\* The first m chunks are posted, and no more.
Through(r, q, way, m) ==
  /\ Posted(r, q, way) = Smaller(Planned(r, q, way), m * CommonStep)
  /\ \A b \in Whole(r) : IsWay(r, b, q, way) => (b \in Left(r) <=> b[1] >= m)

Amounts ==
  \A r, q \in Ranks : \A way \in Ways : r # q =>
    \E m \in 0 .. CommonChunks : Through(r, q, way, m)

\* A slice is empty only behind the end.
LEMMA SliceIs ==
  ASSUME NEW len \in Nat, NEW c \in Nat, NEW size \in Nat \ {0}
  PROVE  /\ SliceLength(len, c, size) \in Nat
         /\ SliceLength(len, c, size) = 0 <=> len <= c * size
         /\ Smaller(len, (c + 1) * size)
              = Smaller(len, c * size) + SliceLength(len, c, size)
<1> DEFINE a == c * size
           b == (c + 1) * size
<1>1. a \in Nat /\ b \in Nat /\ b = a + size
  OBVIOUS
<1> HIDE DEF a, b
<1>2. SliceLength(len, c, size) = Smaller(len, b) - Smaller(len, a)
  BY DEF SliceLength, a, b
<1>3. /\ Smaller(len, b) - Smaller(len, a) \in Nat
      /\ Smaller(len, b) - Smaller(len, a) = 0 <=> len <= a
      /\ Smaller(len, b) = Smaller(len, a) + (Smaller(len, b) - Smaller(len, a))
  BY <1>1 DEF Smaller
<1>4. QED
  BY <1>2, <1>3 DEF a, b

\* A rank has a batch for every slice that is not empty, in the round in which the two
\* meet and the phase of its way.
LEMMA BatchOfSlice ==
  ASSUME PowerOfTwo, NEW r \in Ranks, NEW q \in Ranks, r # q, NEW way \in Ways,
         NEW c \in 0 .. CommonChunks - 1,
         SliceLength(Planned(r, q, way), c, CommonStep) # 0
  PROVE  \E b \in Whole(r) : b[1] = c /\ IsWay(r, b, q, way)
<1>1. PICK k \in 0 .. Rounds - 1 : q \in OtherHalf(r, k)
  BY RanksMeet
<1>2. PICK phase \in {1, 2} : Sends(r, k, phase) <=> way = "send"
  <2>1. Sends(r, k, 1) <=> ~Sends(r, k, 2)
    BY DEF Sends
  <2>2. QED
    BY <2>1
<1> DEFINE b == <<c, k, phase, q>>
<1>3. b[1] = c /\ b[2] = k /\ b[3] = phase /\ b[4] = q
  OBVIOUS
<1>4. BatchLength(r, b, CommonStep) = SliceLength(Planned(r, q, way), c, CommonStep)
  BY <1>2, <1>3 DEF BatchLength, Planned, Ways
<1>5. BatchLength(r, b, CommonStep) > 0
  <2>1. Planned(r, q, way) \in Nat /\ c \in Nat
    BY WorldAssumption DEF Planned
  <2>2. SliceLength(Planned(r, q, way), c, CommonStep) \in Nat
    BY <2>1, CommonStepSuffices, SliceIs
  <2>3. QED
    BY <1>4, <2>2
<1>6. b \in (0 .. CommonChunks - 1) \X (0 .. Rounds - 1) \X {1, 2} \X (Ranks \ {r})
  OBVIOUS
<1> HIDE DEF b
<1>7. b \in Whole(r)
  BY <1>1, <1>3, <1>5, <1>6 DEF Whole, Batches
<1>8. IsWay(r, b, q, way)
  BY <1>2, <1>3 DEF IsWay
<1>9. QED
  BY <1>3, <1>7, <1>8

\* ... and one only.
LEMMA OneBatchOfSlice ==
  ASSUME PowerOfTwo, NEW r \in Ranks, NEW q \in Ranks, r # q, NEW way \in Ways,
         NEW a \in Whole(r), NEW b \in Whole(r), a[1] = b[1],
         IsWay(r, a, q, way), IsWay(r, b, q, way)
  PROVE  a = b
<1>1. /\ a = <<a[1], a[2], a[3], a[4]>> /\ b = <<b[1], b[2], b[3], b[4]>>
      /\ a[2] \in 0 .. Rounds - 1 /\ b[2] \in 0 .. Rounds - 1
      /\ a[3] \in {1, 2} /\ b[3] \in {1, 2}
      /\ a[4] \in OtherHalf(r, a[2]) /\ b[4] \in OtherHalf(r, b[2])
  BY DEF Whole, Batches
<1>2. a[4] = q /\ b[4] = q
  BY DEF IsWay
<1>3. a[2] = b[2]
  BY <1>1, <1>2, RanksMeet
<1>4. a[3] = b[3]
  <2>1. Sends(r, a[2], a[3]) <=> Sends(r, a[2], b[3])
    BY <1>3 DEF IsWay
  <2>2. QED
    BY <1>1, <2>1 DEF Sends
<1>5. QED
  BY <1>1, <1>2, <1>3, <1>4

\* At first no chunk is through.
LEMMA InitAmounts ==
  ASSUME Init
  PROVE  Amounts
<1>1. ASSUME NEW r \in Ranks, NEW q \in Ranks, NEW way \in Ways, r # q
      PROVE  Through(r, q, way, 0)
  <2>1. Left(r) = Whole(r)
    BY DEF Init, Left, Planning
  <2>2. Posted(r, q, way) = 0
    BY DEF Init, Posted
  <2>3. Smaller(Planned(r, q, way), 0 * CommonStep) = 0
    <3>1. Planned(r, q, way) \in Nat
      BY WorldAssumption DEF Planned
    <3>2. 0 * CommonStep = 0
      BY CommonStepSuffices
    <3>3. QED
      BY <3>1, <3>2 DEF Smaller
  <2>4. \A b \in Whole(r) : b[1] >= 0
    BY WholeIsTwinned
  <2>5. QED
    BY <2>1, <2>2, <2>3, <2>4 DEF Through
<1>2. 0 \in 0 .. CommonChunks
  BY CommonChunksIsGreatest
<1>3. QED
  BY <1>1, <1>2 DEF Amounts

\* What a pair has exchanged one way is a matter of its counts and what is left.
LEMMA ThroughIsKept ==
  ASSUME NEW r \in Ranks, NEW q \in Ranks, NEW way \in Ways, NEW m,
         Through(r, q, way, m), chunked' = chunked,
         \A b \in Whole(r) : IsWay(r, b, q, way) => (b \in Left(r)' <=> b \in Left(r)),
         Posted(r, q, way)' = Posted(r, q, way)
  PROVE  Through(r, q, way, m)'
<1>1. Whole(r)' = Whole(r) /\ CommonStep' = CommonStep
  BY CommonIsFixed
<1>2. Planned(r, q, way)' = Planned(r, q, way)
  BY DEF Planned
<1>3. \A b : IsWay(r, b, q, way)' <=> IsWay(r, b, q, way)
  BY DEF IsWay, Sends, InFirstHalf, Base, Half, PartitionSize
<1>4. QED
  BY <1>1, <1>2, <1>3 DEF Through

\* Steps that post nothing put nothing through.
LEMMA OtherAmounts ==
  ASSUME TypeInv, Amounts, NEW r \in Ranks,
         \/ PlanWhole(r) \/ PlanChunks(r) \/ MinReduce(r) \/ MaxReduce(r)
         \/ Complete(r) \/ Finish(r)
  PROVE  Amounts'
<1>1. /\ chunked' = chunked /\ sent' = sent /\ received' = received
      /\ \A x \in Ranks : Left(x)' = Left(x)
  BY LeftIsKept
<1>2. CommonChunks' = CommonChunks
  BY <1>1, CommonIsFixed
<1>3. ASSUME NEW x \in Ranks, NEW q \in Ranks, NEW way \in Ways, x # q
      PROVE  \E m \in 0 .. CommonChunks' : Through(x, q, way, m)'
  <2>1. PICK m \in 0 .. CommonChunks : Through(x, q, way, m)
    BY <1>3 DEF Amounts
  <2>2. Posted(x, q, way)' = Posted(x, q, way)
    BY <1>1 DEF Posted
  <2>3. Through(x, q, way, m)'
    BY <1>1, <2>1, <2>2, ThroughIsKept
  <2>4. QED
    BY <1>2, <2>3
<1>4. QED
  BY <1>3 DEF Amounts

\* Behind an empty slice all are empty.
LEMMA EmptyBehind ==
  ASSUME NEW len \in Nat, NEW m \in Nat, NEW c \in Nat, m <= c, NEW size \in Nat \ {0},
         SliceLength(len, m, size) = 0
  PROVE  SliceLength(len, c, size) = 0
<1>1. len <= m * size
  BY SliceIs
<1>2. m * size <= c * size
  <2>1. (c - m) * size >= 0
    BY Z3
  <2>2. QED
    BY <2>1
<1>3. len <= c * size
  BY <1>1, <1>2
<1>4. QED
  BY <1>3, SliceIs

\* A batch comes before those of later chunks only.
LEMMA BeforeIsNotLater ==
  ASSUME NEW a, NEW b, a[1] \in Int, b[1] \in Int, Before(a, b)
  PROVE  a[1] <= b[1]
<1>1. PICK i \in 1 .. 4 : a[i] < b[i] /\ \A j \in 1 .. i - 1 : a[j] = b[j]
  BY DEF Before
<1>2. CASE i = 1
  BY <1>1, <1>2
<1>3. CASE i # 1
  <2>1. 1 \in 1 .. i - 1
    BY <1>3
  <2>2. QED
    BY <1>1, <2>1
<1>4. QED
  BY <1>2, <1>3

\* The first batch left of a way is that of the first chunk which is not through.
LEMMA FirstLeft ==
  ASSUME PowerOfTwo, NEW r \in Ranks, NEW p \in Ranks, r # p, NEW w \in Ways,
         NEW b \in Whole(r), IsWay(r, b, p, w), b \in Left(r),
         \A a \in Left(r) \ {b} : Before(b, a),
         NEW m \in 0 .. CommonChunks, Through(r, p, w, m)
  PROVE  /\ b[1] = m /\ m < CommonChunks
         /\ Length(r, b) = SliceLength(Planned(r, p, w), m, CommonStep)
<1>1. b[1] \in 0 .. CommonChunks - 1 /\ CommonChunks \in Nat
  BY CommonChunksIsGreatest DEF Whole, Batches
<1>2. Planned(r, p, w) \in Nat /\ CommonStep \in Nat \ {0}
  BY WorldAssumption, CommonStepSuffices DEF Planned
<1>3. Length(r, b) = SliceLength(Planned(r, p, w), b[1], CommonStep)
  BY DEF Length, BatchLength, Planned, IsWay, Ways
<1>4. Length(r, b) > 0
  BY WholeIsTwinned
<1>5. b[1] >= m
  BY DEF Through
<1>6. b[1] = m
  <2>1. SUFFICES ASSUME m < b[1] PROVE FALSE
    BY <1>1, <1>5
  <2>2. m \in 0 .. CommonChunks - 1
    BY <1>1, <2>1
  <2>3. SliceLength(Planned(r, p, w), m, CommonStep) = 0
    <3>1. SUFFICES ASSUME SliceLength(Planned(r, p, w), m, CommonStep) # 0
                   PROVE  FALSE
      OBVIOUS
    <3>2. PICK a \in Whole(r) : a[1] = m /\ IsWay(r, a, p, w)
      BY <2>2, <3>1, BatchOfSlice
    <3>3. a \in Left(r)
      BY <3>2 DEF Through
    <3>4. Before(b, a)
      BY <2>1, <3>2, <3>3
    <3>5. b[1] \in Int /\ a[1] \in Int
      BY <1>1, <2>2, <3>2
    <3>6. b[1] <= a[1]
      BY <3>4, <3>5, BeforeIsNotLater
    <3>7. QED
      BY <1>1, <2>1, <2>2, <3>2, <3>6
  <2>4. SliceLength(Planned(r, p, w), b[1], CommonStep) = 0
    <3>1. m \in Nat /\ b[1] \in Nat /\ m <= b[1]
      BY <1>1, <2>1, <2>2
    <3>2. QED
      BY <1>2, <2>3, <3>1, EmptyBehind
  <2>5. QED
    BY <1>3, <1>4, <2>4
<1>7. QED
  BY <1>1, <1>3, <1>6

\* When it is posted, one chunk more is through.
LEMMA PostThrough ==
  ASSUME PowerOfTwo, NEW r \in Ranks, NEW p \in Ranks, r # p, NEW w \in Ways,
         NEW b \in Whole(r), IsWay(r, b, p, w), b \in Left(r),
         \A a \in Left(r) \ {b} : Before(b, a),
         chunked' = chunked, Left(r)' = Left(r) \ {b},
         Posted(r, p, w)' = Posted(r, p, w) + Length(r, b),
         NEW m \in 0 .. CommonChunks, Through(r, p, w, m)
  PROVE  m + 1 \in 0 .. CommonChunks' /\ Through(r, p, w, m + 1)'
<1>1. CommonChunks' = CommonChunks /\ CommonStep' = CommonStep /\ Whole(r)' = Whole(r)
  BY CommonIsFixed
<1>2. Planned(r, p, w)' = Planned(r, p, w)
  BY DEF Planned
<1>3. \A a : IsWay(r, a, p, w)' <=> IsWay(r, a, p, w)
  BY DEF IsWay, Sends, InFirstHalf, Base, Half, PartitionSize
<1>4. /\ b[1] = m /\ m < CommonChunks
      /\ Length(r, b) = SliceLength(Planned(r, p, w), m, CommonStep)
  BY FirstLeft
<1>5. m \in Nat /\ CommonChunks \in Nat
  BY CommonChunksIsGreatest
<1>6. Posted(r, p, w)' = Smaller(Planned(r, p, w), (m + 1) * CommonStep)
  <2>1. Planned(r, p, w) \in Nat /\ CommonStep \in Nat \ {0}
    BY WorldAssumption, CommonStepSuffices DEF Planned
  <2>2. Smaller(Planned(r, p, w), (m + 1) * CommonStep)
          = Smaller(Planned(r, p, w), m * CommonStep)
              + SliceLength(Planned(r, p, w), m, CommonStep)
    BY <1>5, <2>1, SliceIs
  <2>3. Posted(r, p, w) = Smaller(Planned(r, p, w), m * CommonStep)
    BY DEF Through
  <2>4. QED
    BY <1>4, <2>2, <2>3
<1>7. ASSUME NEW a \in Whole(r), IsWay(r, a, p, w)
      PROVE  a \in Left(r)' <=> a[1] >= m + 1
  <2>1. a \in Left(r) <=> a[1] >= m
    BY <1>7 DEF Through
  <2>2. a[1] = m => a = b
    BY <1>4, <1>7, OneBatchOfSlice
  <2>3. a[1] \in Nat
    BY <1>7, WholeIsTwinned
  <2>4. QED
    BY <1>4, <1>5, <2>1, <2>2, <2>3
<1>8. QED
  BY <1>1, <1>2, <1>3, <1>4, <1>5, <1>6, <1>7 DEF Through

\* What Post does, way by way.
LEMMA PostIsOneWay ==
  ASSUME TypeInv, NEW r \in Ranks, Post(r)
  PROVE  \E p \in Ranks, w \in Ways, b \in Whole(r) :
        /\ chunked' = chunked
        /\ p # r /\ IsWay(r, b, p, w)
        /\ b \in Left(r) /\ Left(r)' = Left(r) \ {b}
        /\ \A a \in Left(r) \ {b} : Before(b, a)
        /\ \A x \in Ranks \ {r} : Left(x)' = Left(x)
        /\ \A x, y \in Ranks : \A way \in Ways : <<x, y, way>> # <<r, p, w>> =>
             Posted(x, y, way)' = Posted(x, y, way)
        /\ Posted(r, p, w)' = Posted(r, p, w) + Length(r, b)
<1> DEFINE b == First(todo[r])
           p == b[4]
           w == IF Sends(r, b[2], b[3]) THEN "send" ELSE "recv"
<1>1. /\ chunked' = chunked
      /\ p \in Ranks /\ p # r
      /\ b \in Left(r) /\ b \in Whole(r) /\ Left(r)' = Left(r) \ {b}
      /\ \A a \in Left(r) \ {b} : Before(b, a)
      /\ \A x \in Ranks \ {r} : Left(x)' = Left(x)
      /\ \A x, y \in Ranks : <<x, y>> # <<r, p>> =>
           sent'[x][y] = sent[x][y] /\ received'[x][y] = received[x][y]
      /\ Sends(r, b[2], b[3]) =>
           /\ sent'[r][p] = sent[r][p] + Length(r, b)
           /\ received'[r][p] = received[r][p]
      /\ ~Sends(r, b[2], b[3]) =>
           /\ received'[r][p] = received[r][p] + Length(r, b)
           /\ sent'[r][p] = sent[r][p]
  BY PostIs
<1>2. w \in Ways /\ IsWay(r, b, p, w)
  BY DEF Ways, IsWay
<1>3. PICK bb, pp, ww : bb = b /\ pp = p /\ ww = w
  OBVIOUS
<1>4. w = "send" <=> Sends(r, b[2], b[3])
  OBVIOUS
<1> HIDE DEF b, p, w
<1>5. ASSUME NEW x \in Ranks, NEW y \in Ranks, NEW way \in Ways,
             <<x, y, way>> # <<r, pp, ww>>
      PROVE  Posted(x, y, way)' = Posted(x, y, way)
  <2>1. CASE <<x, y>> # <<r, pp>>
    BY <1>1, <1>3, <2>1 DEF Posted
  <2>2. CASE x = r /\ y = pp /\ way # ww
    BY <1>1, <1>2, <1>3, <1>4, <1>5, <2>2 DEF Posted, Ways
  <2>3. QED
    BY <1>5, <2>1, <2>2
<1>6. Posted(r, pp, ww)' = Posted(r, pp, ww) + Length(r, bb)
  BY <1>1, <1>2, <1>3, <1>4 DEF Posted, Ways
<1>7. QED
  BY <1>1, <1>2, <1>3, <1>5, <1>6

\* A batch puts a chunk of its way through, and nothing else.
LEMMA PostAmounts ==
  ASSUME PowerOfTwo, TypeInv, Amounts, NEW r \in Ranks, Post(r)
  PROVE  Amounts'
<1>1. PICK p \in Ranks, w \in Ways, b \in Whole(r) :
        /\ chunked' = chunked
        /\ p # r /\ IsWay(r, b, p, w)
        /\ b \in Left(r) /\ Left(r)' = Left(r) \ {b}
        /\ \A a \in Left(r) \ {b} : Before(b, a)
        /\ \A x \in Ranks \ {r} : Left(x)' = Left(x)
        /\ \A x, y \in Ranks : \A way \in Ways : <<x, y, way>> # <<r, p, w>> =>
             Posted(x, y, way)' = Posted(x, y, way)
        /\ Posted(r, p, w)' = Posted(r, p, w) + Length(r, b)
  BY PostIsOneWay
<1>2. CommonChunks' = CommonChunks
  BY <1>1, CommonIsFixed
<1>3. ASSUME NEW x \in Ranks, NEW q \in Ranks, NEW way \in Ways, x # q,
             <<x, q, way>> # <<r, p, w>>
      PROVE  \E m \in 0 .. CommonChunks' : Through(x, q, way, m)'
  <2>1. PICK m \in 0 .. CommonChunks : Through(x, q, way, m)
    BY <1>3 DEF Amounts
  <2>2. Posted(x, q, way)' = Posted(x, q, way)
    BY <1>1, <1>3
  <2>3. ASSUME NEW a \in Whole(x), IsWay(x, a, q, way)
        PROVE  a \in Left(x)' <=> a \in Left(x)
    <3>1. CASE x # r
      BY <1>1, <3>1
    <3>2. CASE x = r
      <4>1. ASSUME a = b PROVE FALSE
        <5>1. q = p /\ way = w
          BY <1>1, <2>3, <3>2, <4>1 DEF IsWay, Ways
        <5>2. QED
          BY <1>3, <3>2, <5>1
      <4>2. QED
        BY <1>1, <3>2, <4>1
    <3>3. QED
      BY <3>1, <3>2
  <2>4. Through(x, q, way, m)'
    BY <1>1, <2>1, <2>2, <2>3, ThroughIsKept
  <2>5. QED
    BY <1>2, <2>4
<1>4. \E m \in 0 .. CommonChunks' : Through(r, p, w, m)'
  <2>1. PICK m \in 0 .. CommonChunks : Through(r, p, w, m)
    BY <1>1 DEF Amounts
  <2>2. m + 1 \in 0 .. CommonChunks' /\ Through(r, p, w, m + 1)'
    BY <1>1, <2>1, PostThrough
  <2>3. QED
    BY <2>2
<1>5. QED
  <2>1. ASSUME NEW x \in Ranks, NEW q \in Ranks, NEW way \in Ways, x # q
        PROVE  \E m \in 0 .. CommonChunks' : Through(x, q, way, m)'
    <3>1. CASE <<x, q, way>> # <<r, p, w>>
      BY <1>3, <2>1, <3>1
    <3>2. CASE <<x, q, way>> = <<r, p, w>>
      BY <1>4, <3>2
    <3>3. QED
      BY <3>1, <3>2
  <2>2. QED
    BY <2>1 DEF Amounts

\* A rank that is done has nothing left.
DoneIsEmpty == \A r \in Ranks : pc[r] = "done" => todo[r] = {}

PairsInv == IInv /\ Amounts /\ DoneIsEmpty

\* A rank is done when it has nothing left.
LEMMA NextDone ==
  ASSUME TypeInv, DoneIsEmpty, [Next]_vars
  PROVE  DoneIsEmpty'
<1>1. CASE UNCHANGED vars
  BY <1>1 DEF vars, DoneIsEmpty
<1>2. ASSUME NEW r \in Ranks, RankStep(r), NEW q \in Ranks, pc'[q] = "done"
      PROVE  todo'[q] = {}
  <2>1. pc \in [Ranks -> {"plan", "min", "max", "run", "wait", "done"}]
    BY DEF TypeInv, TypeOK
  <2>2. CASE q = r
    <3>1. Finish(r)
      BY <1>2, <2>1, <2>2
      DEF RankStep, PlanWhole, PlanChunks, MinReduce, MaxReduce, Post, Complete
    <3>2. QED
      BY <2>2, <3>1 DEF Finish
  <2>3. CASE q # r
    <3>1. pc[q] = "done"
      BY <1>2, <2>1, <2>3
      DEF RankStep, PlanWhole, PlanChunks, MinReduce, MaxReduce, Post, Complete, Finish
    <3>2. todo'[q] = todo[q]
      BY <1>2, <2>3
      DEF RankStep, PlanWhole, PlanChunks, MinReduce, MaxReduce, Post, Complete, Finish,
          TypeInv, TypeOK
    <3>3. QED
      BY <3>1, <3>2 DEF DoneIsEmpty
  <2>4. QED
    BY <2>2, <2>3
<1>3. CASE Next
  BY <1>2, <1>3 DEF Next, DoneIsEmpty
<1>4. QED
  BY <1>1, <1>3

\* What is through stays so in a stutter.
LEMMA SameAmounts ==
  ASSUME Amounts, UNCHANGED vars
  PROVE  Amounts'
<1>1. /\ chunked' = chunked /\ sent' = sent /\ received' = received
      /\ CommonChunks' = CommonChunks
  BY CommonIsFixed DEF vars
<1>2. \A x : Left(x)' = Left(x)
  <2>1. \A x : Whole(x)' = Whole(x)
    BY <1>1, CommonIsFixed
  <2>2. QED
    BY <2>1 DEF vars, Left, Planning
<1>3. ASSUME NEW x \in Ranks, NEW q \in Ranks, NEW way \in Ways, x # q
      PROVE  \E m \in 0 .. CommonChunks' : Through(x, q, way, m)'
  <2>1. PICK m \in 0 .. CommonChunks : Through(x, q, way, m)
    BY <1>3 DEF Amounts
  <2>2. Posted(x, q, way)' = Posted(x, q, way)
    BY <1>1 DEF Posted
  <2>3. Through(x, q, way, m)'
    BY <1>1, <1>2, <2>1, <2>2, ThroughIsKept
  <2>4. QED
    BY <1>1, <2>3
<1>4. QED
  BY <1>3 DEF Amounts

\* Of every other rank and either way, a rank has exchanged a number of whole
\* chunks, and has exactly the batches of the later ones left.
THEOREM WholeChunks ==
  ASSUME PowerOfTwo
  PROVE  Spec => []PairsInv
<1>1. Init => Amounts /\ DoneIsEmpty
  BY InitAmounts DEF Init, DoneIsEmpty
<1>2. IInv /\ Amounts /\ DoneIsEmpty /\ [Next]_vars => Amounts' /\ DoneIsEmpty'
  <2>1. SUFFICES ASSUME IInv, Amounts, DoneIsEmpty, [Next]_vars
                 PROVE  Amounts'
    BY NextDone DEF IInv
  <2>2. CASE UNCHANGED vars
    BY <2>1, <2>2, SameAmounts
  <2>3. CASE Next
    <3>1. PICK r \in Ranks : RankStep(r)
      BY <2>3 DEF Next
    <3>2. QED
      BY <2>1, <3>1, OtherAmounts, PostAmounts DEF IInv, RankStep
  <2>4. QED
    BY <2>1, <2>2, <2>3
<1>3. QED
  BY <1>1, <1>2, Inductive, PTL DEF Spec, PairsInv

\* What is posted is planned.
LEMMA PostedIsPlanned ==
  ASSUME TypeInv, Amounts, NEW r \in Ranks, NEW q \in Ranks, r # q, NEW way \in Ways
  PROVE  /\ Posted(r, q, way) \in Nat /\ Planned(r, q, way) \in Nat
         /\ Posted(r, q, way) <= Planned(r, q, way)
<1>1. Posted(r, q, way) \in Nat /\ Planned(r, q, way) \in Nat
  BY WorldAssumption DEF TypeInv, TypeOK, Posted, Planned
<1>2. PICK m \in 0 .. CommonChunks : Through(r, q, way, m)
  BY DEF Amounts
<1>3. \A x : x \in Nat => Smaller(Planned(r, q, way), x) <= Planned(r, q, way)
  BY <1>1 DEF Smaller
<1>4. m * CommonStep \in Nat
  BY <1>2, CommonChunksIsGreatest, CommonStepSuffices
<1>5. QED
  BY <1>1, <1>2, <1>3, <1>4 DEF Through

\* When nothing is left, all that is planned is posted.
LEMMA NothingLeft ==
  ASSUME PowerOfTwo, TypeInv, Amounts, NEW r \in Ranks, Left(r) = {},
         NEW q \in Ranks, r # q, NEW way \in Ways
  PROVE  Posted(r, q, way) = Planned(r, q, way)
<1>1. PICK m \in 0 .. CommonChunks : Through(r, q, way, m)
  BY DEF Amounts
<1>2. /\ Planned(r, q, way) \in Nat /\ CommonStep \in Nat \ {0} /\ m \in Nat
      /\ CommonChunks \in Nat
  BY WorldAssumption, CommonStepSuffices, CommonChunksIsGreatest DEF Planned
<1>3. Planned(r, q, way) <= m * CommonStep
  <2>1. CASE m = CommonChunks
    <3>1. /\ Ops[r][q] <= CommonChunks * CommonStep
          /\ Ops[q][r] <= CommonChunks * CommonStep
      BY ChunksSuffice
    <3>2. QED
      BY <2>1, <3>1 DEF Planned
  <2>2. CASE m # CommonChunks
    <3>1. m \in 0 .. CommonChunks - 1
      BY <1>2, <2>2
    <3>2. SliceLength(Planned(r, q, way), m, CommonStep) = 0
      <4>1. SUFFICES ASSUME SliceLength(Planned(r, q, way), m, CommonStep) # 0
                     PROVE  FALSE
        OBVIOUS
      <4>2. PICK b \in Whole(r) : b[1] = m /\ IsWay(r, b, q, way)
        BY <3>1, <4>1, BatchOfSlice
      <4>3. b \in Left(r)
        BY <1>1, <1>2, <4>2 DEF Through
      <4>4. QED
        BY <4>3
    <3>3. QED
      BY <1>2, <3>2, SliceIs
  <2>3. QED
    BY <2>1, <2>2
<1>4. m * CommonStep \in Nat
  BY <1>2
<1>5. QED
  BY <1>1, <1>2, <1>3, <1>4 DEF Through, Smaller

\* A rank that has finished has exchanged every op with every other rank, in worlds
\* of a power of two (the world of the run stream_odd is not one).
THEOREM AllExchanged ==
  ASSUME PowerOfTwo
  PROVE  Spec => []FinishedHasExchangedAll
<1>1. PairsInv => FinishedHasExchangedAll
  <2>1. SUFFICES ASSUME PairsInv, NEW r \in Ranks, pc[r] = "done",
                        NEW q \in Ranks \ {r}
                 PROVE  sent[r][q] = Ops[r][q] /\ received[r][q] = Ops[q][r]
    BY DEF FinishedHasExchangedAll
  <2>2. Left(r) = {}
    BY <2>1 DEF PairsInv, DoneIsEmpty, Left, Planning
  <2>3. \A way \in Ways : Posted(r, q, way) = Planned(r, q, way)
    BY <2>1, <2>2, NothingLeft DEF PairsInv, IInv
  <2>4. Posted(r, q, "send") = Planned(r, q, "send")
        /\ Posted(r, q, "recv") = Planned(r, q, "recv")
    BY <2>3 DEF Ways
  <2>5. QED
    BY <2>4 DEF Posted, Planned
<1>2. QED
  BY <1>1, WholeChunks, PTL

-----------------------------------------------------------------------------
(***************************************************************************)
(* The stream transport keeps the promise of ColocateExchange.             *)
(***************************************************************************)

\* At first nothing is moved and nobody has returned.
LEMMA StreamStarts ==
  ASSUME Init
  PROVE  streamPromise!Init
<1>1. \A p \in Pairs : sent[p[1]][p[2]] # Ops[p[1]][p[2]]
  <2>1. ASSUME NEW p \in Pairs
        PROVE  sent[p[1]][p[2]] = 0 /\ Ops[p[1]][p[2]] > 0
    BY DEF Pairs, Init
  <2>2. QED
    BY <2>1
<1>2. StreamMoved = {}
  BY <1>1 DEF StreamMoved
<1>3. StreamReturned = {}
  BY DEF StreamReturned, Init
<1>4. QED
  BY <1>2, <1>3 DEF streamPromise!Init

\* Steps that post nothing and end nothing are not seen.
LEMMA StreamStutters ==
  ASSUME TypeInv, NEW r \in Ranks,
         \/ PlanWhole(r) \/ PlanChunks(r) \/ MinReduce(r) \/ MaxReduce(r) \/ Complete(r)
  PROVE  UNCHANGED streamPromise!vars
<1>1. sent' = sent /\ received' = received
  BY LeftIsKept
<1>2. \A q \in Ranks : pc'[q] = "done" <=> pc[q] = "done"
  BY DEF PlanWhole, PlanChunks, MinReduce, MaxReduce, Complete, TypeInv, TypeOK
<1>3. StreamMoved' = StreamMoved
  BY <1>1 DEF StreamMoved
<1>4. StreamReturned' = StreamReturned
  BY <1>2 DEF StreamReturned
<1>5. QED
  BY <1>3, <1>4 DEF streamPromise!vars

\* A batch moves at most its own pair.
LEMMA StreamMoves ==
  ASSUME PowerOfTwo, TypeInv, Amounts, TypeInv', Amounts', NEW r \in Ranks, Post(r)
  PROVE  (\E p \in Pairs : streamPromise!Move(p)) \/ UNCHANGED streamPromise!vars
<1>1. PICK p \in Ranks, w \in Ways, b \in Whole(r) :
        /\ chunked' = chunked /\ p # r
        /\ \A x, y \in Ranks : \A way \in Ways : <<x, y, way>> # <<r, p, w>> =>
             Posted(x, y, way)' = Posted(x, y, way)
        /\ Posted(r, p, w)' = Posted(r, p, w) + Length(r, b)
  BY PostIsOneWay
<1> DEFINE both == IF w = "send" THEN <<r, p>> ELSE <<p, r>>
<1>2. PICK pair \in Ranks \X Ranks :
        pair = IF w = "send" THEN <<r, p>> ELSE <<p, r>>
  <2>1. both \in Ranks \X Ranks
    OBVIOUS
  <2> HIDE DEF both
  <2>2. \E pair \in Ranks \X Ranks : pair = both
    BY <2>1
  <2>3. QED
    BY <2>2 DEF both
<1>3. StreamReturned' = StreamReturned
  <2>1. \A q \in Ranks : pc'[q] = "done" <=> pc[q] = "done"
    BY DEF Post, TypeInv, TypeOK
  <2>2. QED
    BY <2>1 DEF StreamReturned
<1>4. ASSUME NEW x \in Pairs, x # pair
      PROVE  x \in StreamMoved' <=> x \in StreamMoved
  <2>1. /\ x = <<x[1], x[2]>> /\ x[1] \in Ranks /\ x[2] \in Ranks
        /\ "send" \in Ways /\ "recv" \in Ways
    BY DEF Pairs, Ways
  <2>2. /\ <<x[1], x[2], "send">> # <<r, p, w>>
        /\ <<x[2], x[1], "recv">> # <<r, p, w>>
    BY <1>2, <1>4, <2>1
  <2>3. /\ Posted(x[1], x[2], "send")' = Posted(x[1], x[2], "send")
        /\ Posted(x[2], x[1], "recv")' = Posted(x[2], x[1], "recv")
    BY <1>1, <2>1, <2>2
  <2>4. sent'[x[1]][x[2]] = sent[x[1]][x[2]] /\ received'[x[2]][x[1]] = received[x[2]][x[1]]
    BY <2>3 DEF Posted
  <2>5. QED
    BY <2>4 DEF StreamMoved
<1>5. pair \notin StreamMoved
  <2>1. Posted(r, p, w)' <= Planned(r, p, w)
    <3>1. PICK m \in 0 .. CommonChunks' : Through(r, p, w, m)'
      BY <1>1 DEF Amounts
    <3>2. Posted(r, p, w)' = Smaller(Planned(r, p, w), m * CommonStep')
      BY <3>1 DEF Through, Planned
    <3>3. m * CommonStep' \in Nat
      <4>1. CommonChunks' \in Nat /\ CommonStep' \in Nat
        BY <1>1, CommonIsFixed, CommonChunksIsGreatest, CommonStepSuffices
      <4>2. m \in Nat
        BY <3>1, <4>1
      <4>3. \A x, y \in Nat : x * y \in Nat
        OBVIOUS
      <4>4. QED
        BY <4>1, <4>2, <4>3
    <3>4. Planned(r, p, w) \in Nat
      BY WorldAssumption DEF Planned
    <3>5. QED
      BY <3>2, <3>3, <3>4 DEF Smaller
  <2>2. /\ Length(r, b) \in Nat /\ Length(r, b) > 0
        /\ Posted(r, p, w) \in Nat /\ Planned(r, p, w) \in Nat
    BY <1>1, PostedIsPlanned, WholeIsTwinned
  <2>3. Posted(r, p, w) # Planned(r, p, w)
    BY <1>1, <2>1, <2>2
  <2>4. CASE w = "send"
    BY <1>2, <2>3, <2>4 DEF StreamMoved, Posted, Planned
  <2>5. CASE w = "recv"
    BY <1>2, <2>3, <2>5 DEF StreamMoved, Posted, Planned
  <2>6. QED
    BY <2>4, <2>5 DEF Ways
<1>6. StreamMoved \subseteq Pairs /\ StreamMoved' \subseteq Pairs
  BY DEF StreamMoved, Pairs
<1>7. CASE pair \in StreamMoved'
  <2>1. pair \in Pairs \ StreamMoved
    BY <1>5, <1>6, <1>7
  <2>2. StreamMoved' = StreamMoved \cup {pair}
    BY <1>4, <1>6, <1>7
  <2>3. QED
    BY <1>3, <2>1, <2>2 DEF streamPromise!Move
<1>8. CASE pair \notin StreamMoved'
  <2>1. StreamMoved' = StreamMoved
    BY <1>4, <1>5, <1>6, <1>8
  <2>2. QED
    BY <1>3, <2>1 DEF streamPromise!vars
<1>9. QED
  BY <1>7, <1>8

\* A rank that finishes has moved all, and so have its peers: they are in step.
LEMMA StreamReturns ==
  ASSUME PowerOfTwo, IInv, Amounts, NEW r \in Ranks, Finish(r)
  PROVE  streamPromise!Return(r)
<1>1. /\ pc[r] = "run" /\ todo[r] = {} /\ pc' = [pc EXCEPT ![r] = "done"]
      /\ sent' = sent /\ received' = received
  BY DEF Finish
<1>2. Left(r) = {}
  BY <1>1 DEF Left, Planning
<1>3. ASSUME NEW q \in Ranks, q # r
      PROVE  /\ sent[r][q] = Ops[r][q] /\ received[q][r] = Ops[r][q]
             /\ sent[q][r] = Ops[q][r] /\ received[r][q] = Ops[q][r]
  <2>1. InStep(r, q)
    <3>1. ~Ahead(r, q)
      BY <1>1 DEF Ahead
    <3>2. ~Ahead(q, r)
      BY <1>2 DEF Ahead
    <3>3. QED
      BY <1>3, <3>1, <3>2 DEF IInv, LockStep
  <2>2. /\ Posted(r, q, "send") = Planned(r, q, "send")
        /\ Posted(r, q, "recv") = Planned(r, q, "recv")
    BY <1>2, <1>3, NothingLeft DEF IInv, Ways
  <2>3. QED
    BY <2>1, <2>2 DEF InStep, Posted, Planned
<1>4. {p \in Pairs : r \in {p[1], p[2]}} \subseteq StreamMoved
  <2>1. SUFFICES ASSUME NEW p \in Pairs, r \in {p[1], p[2]}
                 PROVE  p \in StreamMoved
    OBVIOUS
  <2>2. p[1] \in Ranks /\ p[2] \in Ranks /\ p[1] # p[2]
    BY DEF Pairs
  <2>3. QED
    BY <1>3, <2>1, <2>2 DEF StreamMoved
<1>5. r \in Ranks \ StreamReturned /\ StreamReturned' = StreamReturned \cup {r}
  BY <1>1 DEF StreamReturned, IInv, TypeInv, TypeOK
<1>6. StreamMoved' = StreamMoved
  BY <1>1 DEF StreamMoved
<1>7. QED
  BY <1>4, <1>5, <1>6 DEF streamPromise!Return

\* The stream transport implements the promise.
LEMMA StreamImplements ==
  ASSUME PowerOfTwo
  PROVE  Spec => streamPromise!Spec
<1>1. Init => streamPromise!Init
  BY StreamStarts
<1>2. PairsInv /\ PairsInv' /\ [Next]_vars => [streamPromise!Next]_(streamPromise!vars)
  <2>1. SUFFICES ASSUME PairsInv, PairsInv', [Next]_vars
                 PROVE  streamPromise!Next \/ UNCHANGED streamPromise!vars
    OBVIOUS
  <2>2. CASE UNCHANGED vars
    BY <2>2 DEF vars, streamPromise!vars, StreamMoved, StreamReturned
  <2>3. CASE Next
    <3>1. PICK r \in Ranks : RankStep(r)
      BY <2>3 DEF Next
    <3>2. CASE Post(r)
      BY <2>1, <3>2, StreamMoves DEF PairsInv, IInv, streamPromise!Next
    <3>3. CASE Finish(r)
      BY <2>1, <3>3, StreamReturns DEF PairsInv, streamPromise!Next
    <3>4. CASE ~Post(r) /\ ~Finish(r)
      BY <2>1, <3>1, <3>4, StreamStutters DEF PairsInv, IInv, RankStep
    <3>5. QED
      BY <3>2, <3>3, <3>4
  <2>4. QED
    BY <2>1, <2>2, <2>3
<1>3. QED
  BY <1>1, <1>2, WholeChunks, PTL DEF Spec, streamPromise!Spec

-----------------------------------------------------------------------------
(***************************************************************************)
(* The staged transport keeps the promise of ColocateExchange.             *)
(***************************************************************************)

Phases == {"phase1", "phase2"}

StagesTypeOK ==
  /\ stage \in [stages!Ranks -> 1 .. StagesWorld]
  /\ at    \in [stages!Ranks -> {"phase1", "barrier1", "phase2", "barrier2"}]
  /\ busy  \in [stages!Ranks -> BOOLEAN]
  /\ \A r \in stages!Ranks : at[r] # "phase1" => stage[r] < StagesWorld

\* The call of a rank in a phase of stage i.
Call(r, i, phase) ==
  IF (stages!Partition(r, i) = 0) <=> (phase = "phase1")
  THEN <<r, stages!Ahead(r, i), "send">>
  ELSE <<stages!Behind(r, i), r, "recv">>

\* The rank has left the phase.
Past(r, i, phase) ==
  \/ stage[r] > i
  \/ stage[r] = i /\ IF phase = "phase1" THEN at[r] # "phase1" ELSE at[r] = "barrier2"

\* A busy rank has posted the call of its phase, and a rank leaves no phase before
\* its call is posted at both ends.
BusyHasPosted ==
  \A r \in stages!Ranks : busy[r] => stages!InPhase(r) /\ stages!Mine(r) \in posted

LeftHaveMet ==
  \A r \in stages!Ranks : \A i \in 1 .. StagesWorld - 1 : \A phase \in Phases :
    LET op == Call(r, i, phase) IN
      Past(r, i, phase) /\ stages!Planned(op) => op \in posted /\ stages!Peer(op) \in posted

StagesInv == StagesTypeOK /\ BusyHasPosted /\ LeftHaveMet

\* In stage i a rank sends to one and receives from one, and i takes it to all.
LEMMA StageOfPair ==
  ASSUME NEW r \in stages!Ranks, NEW q \in stages!Ranks, r # q
  PROVE  /\ \E i \in 1 .. StagesWorld - 1 : stages!Ahead(r, i) = q
         /\ \E i \in 1 .. StagesWorld - 1 : stages!Behind(r, i) = q
<1> DEFINE w == StagesWorld
           ahead == IF q > r THEN q - r ELSE q - r + w
           behind == IF r > q THEN r - q ELSE r - q + w
<1>1. w \in Nat \ {0} /\ r \in 0 .. w - 1 /\ q \in 0 .. w - 1
  BY StagesAssumption DEF stages!Ranks
<1> HIDE DEF w
<1>2. \A x \in 0 .. w - 1 : x % w = x /\ (x + w) % w = x /\ (x - w) % w = x
  BY <1>1
<1>3. ahead \in 1 .. w - 1 /\ (r + ahead = q \/ r + ahead = q + w)
  BY <1>1
<1>4. behind \in 1 .. w - 1 /\ (r - behind = q \/ r - behind = q - w)
  BY <1>1
<1> HIDE DEF ahead, behind
<1>5. (r + ahead) % w = q /\ (r - behind) % w = q
  BY <1>1, <1>2, <1>3, <1>4
<1>6. QED
  BY <1>3, <1>4, <1>5 DEF stages!Ahead, stages!Behind, w

\* The call of the phase a rank is in.
LEMMA MineIsCall ==
  ASSUME NEW r \in stages!Ranks
  PROVE  stages!Mine(r) = Call(r, stage[r], at[r])
BY DEF stages!Mine, stages!Sending, Call

\* At first nobody has left a phase, and nothing is moved.
LEMMA StagesStart ==
  ASSUME stages!Init
  PROVE  StagesInv /\ stagesPromise!Init
<1>1. StagesWorld \in Nat /\ StagesWorld > 1
  BY StagesAssumption
<1>2. StagesTypeOK
  BY <1>1 DEF StagesTypeOK, stages!Init
<1>3. BusyHasPosted
  BY DEF BusyHasPosted, stages!Init
<1>4. LeftHaveMet
  <2>1. ASSUME NEW r \in stages!Ranks, NEW i \in 1 .. StagesWorld - 1,
               NEW phase \in Phases
        PROVE  ~Past(r, i, phase)
    BY DEF Past, Phases, stages!Init
  <2>2. QED
    BY <2>1 DEF LeftHaveMet
<1>5. StagesMoved = {} /\ StagesReturned = {}
  BY <1>1 DEF StagesMoved, StagesReturned, stages!Init
<1>6. QED
  BY <1>2, <1>3, <1>4, <1>5 DEF StagesInv, stagesPromise!Init

\* The ranges of the stages' variables are kept.
LEMMA NextStagesTypeOK ==
  ASSUME StagesTypeOK, NEW r \in stages!Ranks, stages!RankStep(r)
  PROVE  StagesTypeOK'
<1> USE DEF StagesTypeOK
<1>1. CASE stages!Post(r)
  BY <1>1 DEF stages!Post
<1>2. CASE stages!EndPhase(r)
  <2>1. /\ at[r] \in {"phase1", "phase2"} /\ stage[r] < StagesWorld
        /\ at' = [at EXCEPT ![r] = stages!Barrier[at[r]]]
        /\ busy' = [busy EXCEPT ![r] = FALSE] /\ stage' = stage
    BY <1>2 DEF stages!EndPhase, stages!InPhase
  <2>2. stages!Barrier[at[r]] \in {"barrier1", "barrier2"}
    BY <2>1 DEF stages!Barrier
  <2>3. QED
    BY <2>1, <2>2
<1>3. CASE stages!Barrier1(r)
  BY <1>3 DEF stages!Barrier1
<1>4. CASE stages!Barrier2(r)
  <2>1. StagesWorld \in Nat /\ stage[r] \in 1 .. StagesWorld /\ stage[r] < StagesWorld
    BY <1>4, StagesAssumption DEF stages!Barrier2
  <2>2. stage[r] + 1 \in 1 .. StagesWorld
    BY <2>1
  <2>3. QED
    BY <1>4, <2>2 DEF stages!Barrier2
<1>5. QED
  BY <1>1, <1>2, <1>3, <1>4 DEF stages!RankStep

\* A barrier lets a rank out of no phase that it had not left.
LEMMA NextBusy ==
  ASSUME StagesTypeOK, BusyHasPosted, NEW r \in stages!Ranks, stages!RankStep(r)
  PROVE  BusyHasPosted' /\ posted \subseteq posted'
<1>1. posted \subseteq posted'
  BY DEF stages!RankStep, stages!Post, stages!EndPhase, stages!Barrier1, stages!Barrier2
<1>2. ASSUME NEW q \in stages!Ranks, busy'[q]
      PROVE  stages!InPhase(q)' /\ stages!Mine(q)' \in posted'
  <2>1. stage'[q] = stage[q] /\ at'[q] = at[q]
    <3>1. CASE q # r
      BY <3>1 DEF stages!RankStep, stages!Post, stages!EndPhase, stages!Barrier1,
                  stages!Barrier2, StagesTypeOK
    <3>2. CASE q = r
      <4>1. ~stages!EndPhase(r)
        BY <1>2, <3>2 DEF stages!EndPhase, StagesTypeOK
      <4>2. ~stages!Barrier1(r) /\ ~stages!Barrier2(r)
        BY <1>2, <3>2 DEF stages!Barrier1, stages!Barrier2, BusyHasPosted, stages!InPhase
      <4>3. QED
        BY <3>2, <4>1, <4>2 DEF stages!RankStep, stages!Post
    <3>3. QED
      BY <3>1, <3>2
  <2>2. /\ stages!InPhase(q)' <=> stages!InPhase(q)
        /\ stages!Mine(q)' = stages!Mine(q)
    BY <2>1 DEF stages!InPhase, stages!Mine, stages!Sending
  <2>3. CASE busy[q]
    BY <1>1, <2>2, <2>3 DEF BusyHasPosted
  <2>4. CASE ~busy[q]
    <3>1. stages!Post(r) /\ q = r
      BY <1>2, <2>4 DEF stages!RankStep, stages!Post, stages!EndPhase, stages!Barrier1,
                        stages!Barrier2, StagesTypeOK
    <3>2. QED
      BY <2>2, <3>1 DEF stages!Post
  <2>5. QED
    BY <2>3, <2>4
<1>3. QED
  BY <1>1, <1>2 DEF BusyHasPosted

\* A rank leaves a phase when its call and the peer's are posted.
LEMMA NextLeftHaveMet ==
  ASSUME StagesInv, NEW r \in stages!Ranks, stages!RankStep(r)
  PROVE  LeftHaveMet'
<1>1. posted \subseteq posted'
  BY NextBusy DEF StagesInv
<1>2. ASSUME NEW q \in stages!Ranks, NEW i \in 1 .. StagesWorld - 1, NEW phase \in Phases,
             Past(q, i, phase)', stages!Planned(Call(q, i, phase))
      PROVE  /\ Call(q, i, phase) \in posted'
             /\ stages!Peer(Call(q, i, phase)) \in posted'
  <2>1. CASE Past(q, i, phase)
    BY <1>1, <1>2, <2>1 DEF StagesInv, LeftHaveMet
  <2>2. CASE ~Past(q, i, phase)
    <3>1. stages!EndPhase(r) /\ q = r
      <4>1. stage[q] \in Int /\ stage'[q] \in Int /\ i \in Int
        BY NextStagesTypeOK, StagesAssumption DEF StagesInv, StagesTypeOK
      <4>2. CASE q # r
        <5>1. stage'[q] = stage[q] /\ at'[q] = at[q]
          BY <4>2 DEF stages!RankStep, stages!Post, stages!EndPhase, stages!Barrier1,
                      stages!Barrier2, StagesInv, StagesTypeOK
        <5>2. QED
          BY <1>2, <2>2, <5>1 DEF Past
      <4>3. CASE q = r
        <5>1. ~stages!Post(r)
          BY <1>2, <2>2, <4>3 DEF stages!Post, Past
        <5>2. ~stages!Barrier1(r)
          BY <1>2, <2>2, <4>3 DEF stages!Barrier1, Past, StagesInv, StagesTypeOK, Phases
        <5>3. ~stages!Barrier2(r)
          <6>1. SUFFICES ASSUME stages!Barrier2(r)
                         PROVE  FALSE
            OBVIOUS
          <6>2. /\ at[q] = "barrier2" /\ at'[q] = "phase1" /\ stage'[q] = stage[q] + 1
            BY <4>3, <6>1 DEF stages!Barrier2, StagesInv, StagesTypeOK
          <6>3. stage'[q] > i
            BY <1>2, <6>2 DEF Past, Phases
          <6>4. stage[q] > i \/ stage[q] = i
            BY <4>1, <6>2, <6>3
          <6>5. QED
            BY <2>2, <6>2, <6>4 DEF Past
        <5>4. QED
          BY <4>3, <5>1, <5>2, <5>3 DEF stages!RankStep
      <4>4. QED
        BY <4>2, <4>3
    <3>2. i = stage[q] /\ phase = at[q]
      <4>1. /\ at[q] \in {"phase1", "phase2"} /\ stage'[q] = stage[q]
            /\ at'[q] = stages!Barrier[at[q]]
        BY <3>1 DEF stages!EndPhase, stages!InPhase, StagesInv, StagesTypeOK
      <4>2. /\ at[q] = "phase1" => at'[q] = "barrier1"
            /\ at[q] = "phase2" => at'[q] = "barrier2"
        BY <4>1 DEF stages!Barrier
      <4>3. QED
        BY <1>2, <2>2, <4>1, <4>2 DEF Past, Phases
    <3>3. stages!Mine(q) = Call(q, i, phase)
      BY <3>2, MineIsCall
    <3>4. /\ busy[q] /\ stages!Peer(stages!Mine(q)) \in posted
      BY <1>2, <3>1, <3>3 DEF stages!EndPhase
    <3>5. stages!Mine(q) \in posted
      BY <3>4 DEF StagesInv, BusyHasPosted
    <3>6. QED
      BY <1>1, <3>3, <3>4, <3>5
  <2>3. QED
    BY <2>1, <2>2
<1>3. \A q, i, phase : Call(q, i, phase)' = Call(q, i, phase)
  BY DEF Call
<1>4. QED
  BY <1>2, <1>3 DEF LeftHaveMet, stages!Planned, stages!Peer

\* A call that is posted moves at most its own pair.
LEMMA StagesMove ==
  ASSUME NEW r \in stages!Ranks, stages!Post(r)
  PROVE  (\E p \in StagesPlan : stagesPromise!Move(p)) \/ UNCHANGED stagesPromise!vars
<1>1. PICK op : op = stages!Mine(r)
  OBVIOUS
<1>2. PICK p \in StagesPlan : p = <<op[1], op[2]>>
  BY <1>1 DEF stages!Post, stages!Planned
<1>3. /\ posted' = posted \cup {op} /\ stage' = stage
  BY <1>1 DEF stages!Post
<1>4. StagesReturned' = StagesReturned
  BY <1>3 DEF StagesReturned
<1>5. StagesMoved \subseteq StagesMoved' /\ StagesMoved' \subseteq StagesMoved \cup {p}
  <2>1. ASSUME NEW x \in StagesPlan, x # p, NEW kind, <<x[1], x[2], kind>> \in posted'
        PROVE  <<x[1], x[2], kind>> \in posted
    <3>1. x = <<x[1], x[2]>>
      BY StagesAssumption
    <3>2. <<x[1], x[2], kind>> # op
      BY <1>2, <2>1, <3>1
    <3>3. QED
      BY <1>3, <2>1, <3>2
  <2>2. QED
    BY <1>3, <2>1 DEF StagesMoved
<1>6. CASE StagesMoved' = StagesMoved
  BY <1>4, <1>6 DEF stagesPromise!vars
<1>7. CASE StagesMoved' # StagesMoved
  <2>1. p \in StagesPlan \ StagesMoved /\ StagesMoved' = StagesMoved \cup {p}
    BY <1>5, <1>7
  <2>2. QED
    BY <1>4, <2>1 DEF stagesPromise!Move
<1>8. QED
  BY <1>6, <1>7

\* Behind the last barrier a rank has left the phases in which it meets the others.
LEMMA StagesReturn ==
  ASSUME StagesInv, NEW r \in stages!Ranks, stages!Barrier2(r),
         stage[r] + 1 = StagesWorld
  PROVE  stagesPromise!Return(r)
<1>1. /\ at[r] = "barrier2" /\ stage' = [stage EXCEPT ![r] = stage[r] + 1]
      /\ posted' = posted
  BY DEF stages!Barrier2
<1>2. stage[r] \in Int /\ StagesWorld \in Int
  BY StagesAssumption DEF StagesInv, StagesTypeOK
<1>3. ASSUME NEW i \in 1 .. StagesWorld - 1
      PROVE  LET to   == <<r, stages!Ahead(r, i), "send">>
                 from == <<stages!Behind(r, i), r, "recv">>
             IN  /\ stages!Planned(to) => to \in posted /\ stages!Peer(to) \in posted
                 /\ stages!Planned(from) => from \in posted /\ stages!Peer(from) \in posted
  <2>1. \A phase \in Phases : Past(r, i, phase)
    BY <1>1, <1>2 DEF Past, Phases
  <2>2. /\ \E phase \in Phases : Call(r, i, phase) = <<r, stages!Ahead(r, i), "send">>
        /\ \E phase \in Phases : Call(r, i, phase) = <<stages!Behind(r, i), r, "recv">>
    <3>1. CASE stages!Partition(r, i) = 0
      BY <3>1 DEF Call, Phases
    <3>2. CASE stages!Partition(r, i) # 0
      BY <3>2 DEF Call, Phases
    <3>3. QED
      BY <3>1, <3>2
  <2>3. QED
    BY <2>1, <2>2 DEF StagesInv, LeftHaveMet
<1>4. ASSUME NEW p \in StagesPlan, r \in {p[1], p[2]}
      PROVE  p \in StagesMoved
  <2>1. /\ p = <<p[1], p[2]>> /\ p[1] \in stages!Ranks /\ p[2] \in stages!Ranks
        /\ p[1] # p[2]
    BY StagesAssumption
  <2>2. CASE r = p[1]
    <3>1. PICK i \in 1 .. StagesWorld - 1 : stages!Ahead(r, i) = p[2]
      BY <2>1, <2>2, StageOfPair
    <3>2. stages!Planned(<<r, p[2], "send">>)
      BY <2>1, <2>2 DEF stages!Planned
    <3>3. <<r, p[2], "send">> \in posted /\ stages!Peer(<<r, p[2], "send">>) \in posted
      BY <1>3, <3>1, <3>2
    <3>4. QED
      BY <2>2, <3>3 DEF StagesMoved, stages!Peer
  <2>3. CASE r = p[2]
    <3>1. PICK i \in 1 .. StagesWorld - 1 : stages!Behind(r, i) = p[1]
      BY <2>1, <2>3, StageOfPair
    <3>2. stages!Planned(<<p[1], r, "recv">>)
      BY <2>1, <2>3 DEF stages!Planned
    <3>3. <<p[1], r, "recv">> \in posted /\ stages!Peer(<<p[1], r, "recv">>) \in posted
      BY <1>3, <3>1, <3>2
    <3>4. QED
      BY <2>3, <3>3 DEF StagesMoved, stages!Peer
  <2>4. QED
    BY <1>4, <2>2, <2>3
<1>5. r \in stages!Ranks \ StagesReturned /\ StagesReturned' = StagesReturned \cup {r}
  BY <1>1, <1>2 DEF StagesReturned, StagesInv, StagesTypeOK
<1>6. StagesMoved' = StagesMoved
  BY <1>1 DEF StagesMoved
<1>7. QED
  BY <1>4, <1>5, <1>6 DEF stagesPromise!Return

\* Nobody leaves a phase of a stage before its call is posted at both ends.
THEOREM StagesInductive == stages!Spec => []StagesInv
<1>1. stages!Init => StagesInv
  BY StagesStart
<1>2. StagesInv /\ [stages!Next]_(stages!vars) => StagesInv'
  <2>1. SUFFICES ASSUME StagesInv, [stages!Next]_(stages!vars)
                 PROVE  StagesInv'
    OBVIOUS
  <2>2. CASE UNCHANGED stages!vars
    BY <2>1, <2>2 DEF stages!vars, StagesInv, StagesTypeOK, BusyHasPosted, LeftHaveMet,
                      Past, Call, stages!InPhase, stages!Mine, stages!Sending
  <2>3. CASE stages!Next
    <3>1. PICK r \in stages!Ranks : stages!RankStep(r)
      BY <2>3 DEF stages!Next
    <3>2. QED
      BY <2>1, <3>1, NextStagesTypeOK, NextBusy, NextLeftHaveMet DEF StagesInv
  <2>4. QED
    BY <2>1, <2>2, <2>3
<1>3. QED
  BY <1>1, <1>2, PTL DEF stages!Spec

\* The staged transport implements the promise.
LEMMA StagesImplement == stages!Spec => stagesPromise!Spec
<1>1. stages!Init => stagesPromise!Init
  BY StagesStart
<1>2. StagesInv /\ [stages!Next]_(stages!vars)
        => [stagesPromise!Next]_(stagesPromise!vars)
  <2>1. SUFFICES ASSUME StagesInv, [stages!Next]_(stages!vars)
                 PROVE  stagesPromise!Next \/ UNCHANGED stagesPromise!vars
    OBVIOUS
  <2>2. CASE UNCHANGED stages!vars
    BY <2>2 DEF stages!vars, stagesPromise!vars, StagesMoved, StagesReturned
  <2>3. ASSUME NEW r \in stages!Ranks, stages!RankStep(r)
        PROVE  stagesPromise!Next \/ UNCHANGED stagesPromise!vars
    <3>1. CASE stages!Post(r)
      BY <3>1, StagesMove DEF stagesPromise!Next
    <3>2. CASE stages!EndPhase(r) \/ stages!Barrier1(r)
      BY <3>2 DEF stages!EndPhase, stages!Barrier1, stagesPromise!vars, StagesMoved,
                  StagesReturned
    <3>3. CASE stages!Barrier2(r)
      <4>1. CASE stage[r] + 1 = StagesWorld
        BY <2>1, <3>3, <4>1, StagesReturn DEF stagesPromise!Next
      <4>2. CASE stage[r] + 1 # StagesWorld
        <5>1. stage[r] < StagesWorld
          BY <2>1, <3>3 DEF stages!Barrier2, StagesInv, StagesTypeOK
        <5>2. \A q \in stages!Ranks : stage'[q] = StagesWorld <=> stage[q] = StagesWorld
          BY <2>1, <3>3, <4>2, <5>1, StagesAssumption
          DEF stages!Barrier2, StagesInv, StagesTypeOK
        <5>3. posted' = posted
          BY <3>3 DEF stages!Barrier2
        <5>4. QED
          BY <5>2, <5>3 DEF stagesPromise!vars, StagesMoved, StagesReturned
      <4>3. QED
        BY <4>1, <4>2
    <3>4. QED
      BY <2>3, <3>1, <3>2, <3>3 DEF stages!RankStep
  <2>4. QED
    BY <2>1, <2>2, <2>3 DEF stages!Next
<1>3. QED
  BY <1>1, <1>2, StagesInductive, PTL DEF stages!Spec, stagesPromise!Spec

\* A call that returns on a rank has moved all of the rank's weights, by either
\* transport: each step of theirs is a step of ColocateExchange or is not seen there.
THEOREM BothImplementExchange ==
  ASSUME PowerOfTwo
  PROVE  TransportSpec => ImplementsExchange
<1>1. TransportSpec => Spec
  <2>1. TransportInit => Init
    BY DEF TransportInit
  <2>2. [TransportNext]_TransportVars => [Next]_vars
    BY DEF TransportNext, TransportVars, vars
  <2>3. QED
    BY <2>1, <2>2, PTL DEF TransportSpec, Spec
<1>2. TransportSpec => stages!Spec
  <2>1. TransportInit => stages!Init
    BY DEF TransportInit
  <2>2. [TransportNext]_TransportVars => [stages!Next]_(stages!vars)
    BY DEF TransportNext, TransportVars, stagesVars, stages!vars
  <2>3. QED
    BY <2>1, <2>2, PTL DEF TransportSpec, stages!Spec
<1>3. QED
  BY <1>1, <1>2, StreamImplements, StagesImplement, PTL DEF ImplementsExchange
=============================================================================
