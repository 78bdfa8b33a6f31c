--------------------------- MODULE FiniteNumbers ---------------------------
(***************************************************************************)
(* Facts about finite sets and numbers that the proofs of several modules  *)
(* need. Where an induction is called for they use that the finite subsets *)
(* of a set are well founded by inclusion.                                 *)
(***************************************************************************)
EXTENDS FiniteSetsExt, FiniteSetTheorems, TLAPS

-----------------------------------------------------------------------------
(***************************************************************************)
(* Least and greatest elements.                                            *)
(***************************************************************************)

\* Some element of a finite set has the fewest, by any measure in sets.
LEMMA SmallestSet ==
  ASSUME NEW D, NEW F, F \subseteq FiniteSubsetsOf(D), F # {}
  PROVE  \E A \in F : \A B \in F : ~(B \subseteq A /\ B # A)
<1>1. IsWellFoundedOn(StrictSubsetOrdering(D), FiniteSubsetsOf(D))
  BY FS_StrictSubsetOrderingWellFounded
<1>2. PICK A \in F : \A B \in F : <<B, A>> \notin StrictSubsetOrdering(D)
  BY <1>1, WFMin
<1>3. \A B \in F : B \in SUBSET D
  BY DEF FiniteSubsetsOf
<1>4. QED
  BY <1>2, <1>3 DEF StrictSubsetOrdering

\* A set of natural numbers has a least element.
LEMMA LeastNumber ==
  ASSUME NEW T \in SUBSET Nat, T # {}
  PROVE  \E x \in T : \A y \in T : x <= y
<1> DEFINE F == {0 .. x : x \in T}
<1>1. F \subseteq FiniteSubsetsOf(Nat) /\ F # {}
  <2>1. ASSUME NEW x \in T PROVE 0 .. x \in FiniteSubsetsOf(Nat)
    <3>1. IsFiniteSet(0 .. x)
      BY FS_Interval
    <3>2. QED
      BY <3>1 DEF FiniteSubsetsOf
  <2>2. QED
    BY <2>1
<1>2. PICK A \in F : \A B \in F : ~(B \subseteq A /\ B # A)
  <2> HIDE DEF F
  <2>1. QED
    BY <1>1, SmallestSet
<1>3. PICK x \in T : A = 0 .. x
  BY <1>2
<1>4. ASSUME NEW y \in T, y < x PROVE FALSE
  <2>1. 0 .. y \subseteq A /\ x \in A /\ x \notin 0 .. y
    BY <1>3, <1>4
  <2>2. QED
    BY <1>2, <2>1
<1>5. QED
  BY <1>4

\* A finite set of natural numbers has a greatest element.
LEMMA GreatestNumber ==
  ASSUME NEW T \in SUBSET Nat, T # {}, IsFiniteSet(T)
  PROVE  \E x \in T : \A y \in T : x >= y
<1> DEFINE Above(x) == {z \in T : z > x}
           F == {Above(x) : x \in T}
<1>1. F \subseteq FiniteSubsetsOf(T) /\ F # {}
  <2>1. ASSUME NEW x \in T PROVE Above(x) \in FiniteSubsetsOf(T)
    <3>1. IsFiniteSet(Above(x))
      BY FS_Subset
    <3>2. QED
      BY <3>1 DEF FiniteSubsetsOf
  <2>2. QED
    BY <2>1
<1>2. PICK A \in F : \A B \in F : ~(B \subseteq A /\ B # A)
  <2> HIDE DEF F
  <2>1. QED
    BY <1>1, SmallestSet
<1>3. PICK x \in T : A = Above(x)
  BY <1>2
<1>4. ASSUME NEW y \in T, y > x PROVE FALSE
  <2>1. Above(y) \subseteq A /\ y \in A /\ y \notin Above(y)
    <3>1. x \in Nat /\ y \in Nat
      OBVIOUS
    <3>2. \A z \in T : z \in Nat
      OBVIOUS
    <3>3. ASSUME NEW z \in Above(y) PROVE z \in Above(x)
      <4>1. z \in T /\ z > y /\ z \in Nat
        BY <3>2
      <4>2. z > x
        BY <4>1, <3>1, <1>4
      <4>3. QED
        BY <4>1, <4>2
    <3>4. y \in Above(x) /\ y \notin Above(y)
      BY <1>4, <3>1
    <3>5. QED
      BY <1>3, <3>3, <3>4
  <2>2. Above(y) \in F
    OBVIOUS
  <2>3. QED
    BY <1>2, <2>1, <2>2
<1>5. QED
  BY <1>4

\* What Max and Min choose.
LEMMA MaxIs ==
  ASSUME NEW T \in SUBSET Nat, T # {}, IsFiniteSet(T)
  PROVE  Max(T) \in T /\ \A y \in T : Max(T) >= y
BY GreatestNumber DEF Max

LEMMA MinIs ==
  ASSUME NEW T \in SUBSET Nat, T # {}
  PROVE  Min(T) \in T /\ \A y \in T : Min(T) <= y
BY LeastNumber DEF Min

\* The values of a function on a finite set are finitely many.
LEMMA ValuesAreFinite ==
  ASSUME NEW D, IsFiniteSet(D), NEW f
  PROVE  IsFiniteSet({f[x] : x \in D})
<1> DEFINE g == [x \in D |-> f[x]]
<1>1. g \in Surjection(D, {f[x] : x \in D})
  BY DEF Surjection
<1>2. QED
  BY <1>1, FS_Surjection

\* A union of finitely many finite sets is finite.
LEMMA UnionIsFinite ==
  ASSUME NEW D, IsFiniteSet(D), NEW f, \A x \in D : IsFiniteSet(f[x])
  PROVE  IsFiniteSet(UNION {f[x] : x \in D})
BY ValuesAreFinite, FS_UNION

\* A finite set as large as the whole is the whole.
LEMMA WholeSet ==
  ASSUME NEW W, IsFiniteSet(W), NEW P, P \subseteq W,
         Cardinality(P) >= Cardinality(W)
  PROVE  P = W
<1>1. Cardinality(P) <= Cardinality(W) /\ (Cardinality(W) = Cardinality(P) => W = P)
  BY FS_Subset
<1>2. Cardinality(P) \in Nat /\ Cardinality(W) \in Nat
  BY FS_Subset, FS_CardinalityType
<1>3. QED
  BY <1>1, <1>2

-----------------------------------------------------------------------------
(***************************************************************************)
(* The places of the elements of a finite set in a strict order R.         *)
(***************************************************************************)
Lower(S, R, x) == {o \in S : <<o, x>> \in R}

LEMMA LowerIsFinite ==
  ASSUME NEW S, IsFiniteSet(S), NEW R, NEW x \in S, <<x, x>> \notin R
  PROVE  Cardinality(Lower(S, R, x)) \in 0 .. Cardinality(S) - 1
<1>1. Lower(S, R, x) \subseteq S \ {x}
  BY DEF Lower
<1>2. IsFiniteSet(S \ {x}) /\ Cardinality(S \ {x}) = Cardinality(S) - 1
  BY FS_RemoveElement
<1>3. /\ IsFiniteSet(Lower(S, R, x))
      /\ Cardinality(Lower(S, R, x)) <= Cardinality(S \ {x})
  BY <1>1, <1>2, FS_Subset
<1>4. Cardinality(Lower(S, R, x)) \in Nat /\ Cardinality(S) \in Nat
  BY <1>3, FS_CardinalityType
<1>5. QED
  BY <1>2, <1>3, <1>4

\* What comes before has the lower place.
LEMMA LowerPlace ==
  ASSUME NEW S, IsFiniteSet(S), NEW R,
         \A x \in S : <<x, x>> \notin R,
         \A x, y, z \in S : <<x, y>> \in R /\ <<y, z>> \in R => <<x, z>> \in R,
         NEW x \in S, NEW y \in S, <<x, y>> \in R
  PROVE  Cardinality(Lower(S, R, x)) < Cardinality(Lower(S, R, y))
<1>1. /\ Lower(S, R, x) \subseteq Lower(S, R, y)
      /\ x \in Lower(S, R, y) /\ x \notin Lower(S, R, x)
  BY DEF Lower
<1>2. IsFiniteSet(Lower(S, R, y))
  BY FS_Subset DEF Lower
<1>3. /\ IsFiniteSet(Lower(S, R, x))
      /\ Cardinality(Lower(S, R, x)) <= Cardinality(Lower(S, R, y))
      /\ Cardinality(Lower(S, R, x)) # Cardinality(Lower(S, R, y))
  BY <1>1, <1>2, FS_Subset
<1>4. /\ Cardinality(Lower(S, R, x)) \in Nat
      /\ Cardinality(Lower(S, R, y)) \in Nat
  BY <1>2, <1>3, FS_CardinalityType
<1>5. QED
  BY <1>3, <1>4

\* Every place is that of one element.
LEMMA PlacesAreTaken ==
  ASSUME NEW S, IsFiniteSet(S), NEW R,
         \A x \in S : <<x, x>> \notin R,
         \A x, y, z \in S : <<x, y>> \in R /\ <<y, z>> \in R => <<x, z>> \in R,
         \A x, y \in S : x # y => <<x, y>> \in R \/ <<y, x>> \in R
  PROVE  /\ \A x, y \in S :
              Cardinality(Lower(S, R, x)) = Cardinality(Lower(S, R, y)) => x = y
         /\ \A p \in 0 .. Cardinality(S) - 1 :
              \E x \in S : Cardinality(Lower(S, R, x)) = p
<1> DEFINE n == Cardinality(S)
           Places == 0 .. n - 1
           place == [x \in S |-> Cardinality(Lower(S, R, x))]
<1>1. n \in Nat
  BY FS_CardinalityType
<1>2. IsFiniteSet(Places) /\ Cardinality(Places) = n
  <2> HIDE DEF n
  <2>1. 0 \in Int /\ n - 1 \in Int
    BY <1>1
  <2>2. /\ IsFiniteSet(0 .. n - 1)
        /\ Cardinality(0 .. n - 1) = IF 0 > n - 1 THEN 0 ELSE n - 1 - 0 + 1
    BY <2>1, FS_Interval
  <2>3. QED
    BY <1>1, <2>2
<1>3. \A x \in S : Cardinality(Lower(S, R, x)) \in Places
  BY LowerIsFinite
<1>4. \A x, y \in S :
        Cardinality(Lower(S, R, x)) = Cardinality(Lower(S, R, y)) => x = y
  <2>1. SUFFICES ASSUME NEW x \in S, NEW y \in S, x # y
                 PROVE  Cardinality(Lower(S, R, x)) # Cardinality(Lower(S, R, y))
    OBVIOUS
  <2>2. /\ Cardinality(Lower(S, R, x)) \in Nat
        /\ Cardinality(Lower(S, R, y)) \in Nat
    BY <1>1, <1>3
  <2>3. \/ Cardinality(Lower(S, R, x)) < Cardinality(Lower(S, R, y))
        \/ Cardinality(Lower(S, R, y)) < Cardinality(Lower(S, R, x))
    <3>1. CASE <<x, y>> \in R
      BY <3>1, LowerPlace
    <3>2. CASE <<y, x>> \in R
      BY <3>2, LowerPlace
    <3>3. QED
      BY <2>1, <3>1, <3>2
  <2>4. QED
    BY <2>2, <2>3
<1>5. Range(place) = Places
  <2>1. place \in Surjection(S, Range(place))
    BY DEF Surjection, Range
  <2>2. /\ IsFiniteSet(Range(place))
        /\ Cardinality(Range(place)) = Cardinality(S) <=> place \in Injection(S, Range(place))
    BY <2>1, FS_Surjection
  <2>3. place \in Injection(S, Range(place))
    BY <1>4 DEF Injection, IsInjective, Range
  <2>4. Range(place) \subseteq Places
    BY <1>3 DEF Range
  <2>5. QED
    BY <1>1, <1>2, <2>2, <2>3, <2>4, WholeSet
<1>6. \A p \in Places : \E x \in S : Cardinality(Lower(S, R, x)) = p
  BY <1>5 DEF Range
<1>7. QED
  BY <1>4, <1>6

-----------------------------------------------------------------------------
(***************************************************************************)
(* Powers of two.                                                          *)
(***************************************************************************)

\* The least power.
LEMMA PowerOfZero == 2^0 = 1
<1>1. IsFiniteSet({}) /\ Cardinality({}) = 0
  BY FS_EmptySet
<1>2. Cardinality(SUBSET {}) = 2^0
  BY <1>1, FS_SUBSET
<1>3. SUBSET {} = {{}}
  OBVIOUS
<1>4. QED
  BY <1>2, <1>3, FS_Singleton

\* A power of two is the number of subsets of a set of that size.
LEMMA PowerIsPositive ==
  ASSUME NEW n \in Nat
  PROVE  2^n \in Nat \ {0}
<1>1. IsFiniteSet(1 .. n) /\ Cardinality(1 .. n) = n
  BY FS_Interval
<1>2. IsFiniteSet(SUBSET (1 .. n)) /\ Cardinality(SUBSET (1 .. n)) = 2^n
  BY <1>1, FS_SUBSET
<1>3. Cardinality(SUBSET (1 .. n)) # 0
  BY <1>2, FS_EmptySet
<1>4. Cardinality(SUBSET (1 .. n)) \in Nat
  BY <1>2, FS_CardinalityType
<1>5. QED
  BY <1>2, <1>3, <1>4

\* The next power is twice as much: of the subsets of a set half have a new element.
LEMMA PowersDouble ==
  ASSUME NEW n \in Nat
  PROVE  2^(n + 1) = 2 * 2^n
<1> DEFINE Old == SUBSET (1 .. n)
           New == {s \cup {n + 1} : s \in Old}
<1>1. SUBSET (1 .. n + 1) = Old \cup New
  <2>1. ASSUME NEW s \in SUBSET (1 .. n + 1), n + 1 \in s PROVE s \in New
    <3>1. s \ {n + 1} \in Old
      OBVIOUS
    <3>2. s = (s \ {n + 1}) \cup {n + 1}
      BY <2>1
    <3>3. QED
      BY <3>1, <3>2
  <2>2. ASSUME NEW s \in SUBSET (1 .. n + 1), n + 1 \notin s PROVE s \in Old
    BY <2>2
  <2>3. Old \subseteq SUBSET (1 .. n + 1) /\ New \subseteq SUBSET (1 .. n + 1)
    <3>1. 1 .. n \subseteq 1 .. n + 1 /\ n + 1 \in 1 .. n + 1
      OBVIOUS
    <3>2. QED
      BY <3>1
  <2>4. QED
    BY <2>1, <2>2, <2>3
<1>2. Old \cap New = {}
  OBVIOUS
<1>3. IsFiniteSet(Old) /\ Cardinality(Old) = 2^n
  <2>1. IsFiniteSet(1 .. n) /\ Cardinality(1 .. n) = n
    BY FS_Interval
  <2>2. QED
    BY <2>1, FS_SUBSET
<1>4. IsFiniteSet(New) /\ Cardinality(New) = Cardinality(Old)
  <2> DEFINE f == [s \in Old |-> s \cup {n + 1}]
  <2>1. f \in Bijection(Old, New)
    <3>1. f \in Injection(Old, New)
      <4>1. \A s, t \in Old : f[s] = f[t] => s = t
        OBVIOUS
      <4>2. f \in [Old -> New]
        OBVIOUS
      <4>3. QED
        <5> HIDE DEF f
        <5>1. QED
          BY <4>1, <4>2 DEF Injection, IsInjective
    <3>2. f \in Surjection(Old, New)
      BY DEF Surjection
    <3>3. QED
      BY <3>1, <3>2 DEF Bijection
  <2>2. QED
    BY <1>3, <2>1, FS_Bijection DEF ExistsBijection
<1>5. Cardinality(SUBSET (1 .. n + 1)) = 2^n + 2^n
  <2> HIDE DEF Old, New
  <2>1. Cardinality(Old \cup New) = Cardinality(Old) + Cardinality(New) - Cardinality(Old \cap New)
    BY <1>3, <1>4, FS_Union
  <2>2. Cardinality(Old \cap New) = 0
    BY <1>2, FS_EmptySet
  <2>3. Cardinality(Old \cup New) = Cardinality(Old) + Cardinality(Old)
    <3>1. Cardinality(Old) \in Nat
      BY <1>3, FS_CardinalityType
    <3>2. QED
      BY <1>4, <2>1, <2>2, <3>1
  <2>4. QED
    BY <1>1, <1>3, <2>3
<1>6. Cardinality(SUBSET (1 .. n + 1)) = 2^(n + 1)
  <2>1. IsFiniteSet(1 .. n + 1) /\ Cardinality(1 .. n + 1) = n + 1
    BY FS_Interval
  <2>2. QED
    BY <2>1, FS_SUBSET
<1>7. QED
  BY <1>5, <1>6, PowerIsPositive

\* Powers grow.
LEMMA PowersGrow ==
  ASSUME NEW m \in Nat, NEW n \in Nat, m < n
  PROVE  2^m < 2^n
<1> DEFINE T == {k \in Nat : k > m /\ ~(2^m < 2^k)}
<1>1. SUFFICES ASSUME T # {} PROVE FALSE
  OBVIOUS
<1>2. PICK k \in T : \A y \in T : k <= y
  <2> HIDE DEF T
  <2>1. T \subseteq Nat
    BY DEF T
  <2>2. QED
    BY <1>1, <2>1, LeastNumber
<1>3. k \in Nat /\ k > m /\ ~(2^m < 2^k)
  OBVIOUS
<1>4. k - 1 \in Nat /\ 2^k = 2 * 2^(k - 1)
  BY <1>3, PowersDouble
<1>5. 2^m \in Nat \ {0} /\ 2^(k - 1) \in Nat \ {0}
  BY <1>4, PowerIsPositive
<1>6. CASE k - 1 = m
  BY <1>3, <1>4, <1>5, <1>6
<1>7. CASE k - 1 # m
  <2>1. k - 1 \notin T
    BY <1>2, <1>3
  <2>2. 2^m < 2^(k - 1)
    BY <1>3, <1>4, <1>7, <2>1
  <2>3. QED
    BY <1>3, <1>4, <1>5, <2>2
<1>8. QED
  BY <1>6, <1>7
\* A power is above its exponent.
LEMMA PowerIsAbove ==
  ASSUME NEW n \in Nat
  PROVE  n < 2^n
<1> DEFINE T == {k \in Nat : ~(k < 2^k)}
<1>1. SUFFICES ASSUME T # {} PROVE FALSE
  OBVIOUS
<1>2. PICK k \in T : \A y \in T : k <= y
  <2>1. T \subseteq Nat
    OBVIOUS
  <2> HIDE DEF T
  <2>2. QED
    BY <1>1, <2>1, LeastNumber
<1>3. k \in Nat /\ ~(k < 2^k)
  OBVIOUS
<1>4. CASE k = 0
  BY <1>3, <1>4, PowerIsPositive
<1>5. CASE k # 0
  <2>1. k - 1 \in Nat /\ k - 1 \notin T
    BY <1>2, <1>3, <1>5
  <2>2. k - 1 < 2^(k - 1) /\ 2^(k - 1) \in Nat
    BY <2>1, PowerIsPositive
  <2>3. 2^((k - 1) + 1) = 2 * 2^(k - 1)
    BY <2>1, PowersDouble
  <2>4. 2^k = 2 * 2^(k - 1)
    BY <1>3, <2>3
  <2>5. QED
    BY <1>3, <1>5, <2>2, <2>4
<1>6. QED
  BY <1>4, <1>5

\* The exponents of a quotient subtract.
LEMMA PowersDivide ==
  ASSUME NEW n \in Nat, NEW k \in 0 .. n
  PROVE  2^n = 2^(n - k) * 2^k
<1> DEFINE T == {i \in 0 .. n : 2^n # 2^(n - i) * 2^i}
<1>1. SUFFICES ASSUME T # {} PROVE FALSE
  OBVIOUS
<1>2. PICK i \in T : \A y \in T : i <= y
  <2>1. T \subseteq Nat
    OBVIOUS
  <2> HIDE DEF T
  <2>2. QED
    BY <1>1, <2>1, LeastNumber
<1>3. i \in 0 .. n /\ 2^n # 2^(n - i) * 2^i
  OBVIOUS
<1>4. CASE i = 0
  <2>1. 2^(n - i) = 2^n /\ 2^n \in Nat /\ 2^i = 1
    <3>1. 2^n \in Nat /\ n - 0 = n
      BY PowerIsPositive
    <3>2. 2^0 = 1
      BY PowerOfZero
    <3>3. QED
      BY <1>4, <3>1, <3>2
  <2>2. QED
    BY <1>3, <2>1
<1>5. CASE i # 0
  <2>1. i - 1 \in 0 .. n /\ i - 1 \notin T
    BY <1>2, <1>3, <1>5
  <2>2. 2^n = 2^(n - (i - 1)) * 2^(i - 1)
    BY <2>1
  <2>3. 2^((i - 1) + 1) = 2 * 2^(i - 1)
    BY <2>1, PowersDouble
  <2>4. 2^((n - i) + 1) = 2 * 2^(n - i)
    <3>1. n - i \in Nat
      BY <1>3
    <3>2. QED
      BY <3>1, PowersDouble
  <2>5. (i - 1) + 1 = i /\ (n - i) + 1 = n - (i - 1)
    BY <1>3
  <2> DEFINE a == 2^(i - 1)
             b == 2^(n - i)
  <2>6. a \in Nat /\ b \in Nat
    BY <1>3, <2>1, PowerIsPositive
  <2>7. 2^i = 2 * a /\ 2^n = (2 * b) * a
    BY <2>2, <2>3, <2>4, <2>5
  <2>8. 2^n = b * 2^i
    <3> HIDE DEF a, b
    <3>1. (2 * b) * a = b * (2 * a)
      BY <2>6
    <3>2. QED
      BY <2>7, <3>1
  <2>9. QED
    BY <1>3, <2>8
<1>6. QED
  BY <1>4, <1>5
=============================================================================
