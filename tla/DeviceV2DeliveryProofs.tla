----------------------- MODULE DeviceV2DeliveryProofs -----------------------
(***************************************************************************)
(* Proofs that the streams of DeviceV2 deliver: for all deployments, and   *)
(* plans whose two ends agree, what returns has what it should.            *)
(***************************************************************************)
EXTENDS DeviceV2Proofs

-----------------------------------------------------------------------------
(***************************************************************************)
(* The works of an end, and what each step of its FIFO carries.            *)
(***************************************************************************)
Covers(w, t) == w.first <= t /\ t < w.first + WorkSteps(w)

\* The works of an end cover the steps of its FIFO, each step once.
LEMMA WorksCover ==
  ASSUME StepsInOrder, NEW e \in Links
  PROVE  /\ LastStep(e) \in Nat
         /\ \A w \in PlannedWorks(e) :
              /\ WorkSteps(w) \in Nat \ {0} /\ w.first \in Nat \ {0}
              /\ w.first + WorkSteps(w) - 1 <= LastStep(e)
              /\ \A k \in 1 .. WorkSteps(w) : SliceBytes(w, k) \in Nat \ {0}
         /\ \A w, v \in PlannedWorks(e), t \in Nat : Covers(w, t) /\ Covers(v, t) => w = v
         /\ \A t \in 1 .. LastStep(e) : \E w \in PlannedWorks(e) : Covers(w, t)
<1>1. CASE ~Used(e)
  <2>1. PlannedWorks(e) = {} /\ LastStep(e) = 0
    BY <1>1 DEF PlannedWorks, LastStep
  <2>2. QED
    BY <2>1
<1>2. CASE Used(e)
  <2>1. /\ Count(e) \in Nat /\ StepsBefore(e, 1) = 0 /\ LastStep(e) \in Nat
        /\ \A n \in 1 .. Count(e) + 1 : StepsBefore(e, n) \in Nat /\ StepsBefore(e, n) <= LastStep(e)
        /\ \A n \in 1 .. Count(e) + 1 : \A m \in 1 .. n : StepsBefore(e, m) <= StepsBefore(e, n)
        /\ \A n \in 1 .. Count(e) : WorksIn(e, n) = {} => StepsBefore(e, n + 1) = StepsBefore(e, n)
        /\ \A n \in 1 .. Count(e) : \A w \in WorksIn(e, n) :
             StepsBefore(e, n + 1) = StepsBefore(e, n) + WorkSteps(w)
    BY <1>2, StepsAre
  <2>2. \A n \in 1 .. Count(e) : \A w \in WorksIn(e, n) :
          /\ WorksIn(e, n) = {w}
          /\ WorkSteps(w) \in Nat \ {0} /\ w.first = StepsBefore(e, n) + 1
          /\ \A k \in 1 .. WorkSteps(w) : SliceBytes(w, k) \in Nat \ {0}
    BY <1>2 DEF StepsInOrder, Used, Count
  <2>3. PlannedWorks(e) = UNION {WorksIn(e, n) : n \in 1 .. Count(e)}
    BY <1>2 DEF PlannedWorks
  <2>4. LastStep(e) = StepsBefore(e, Count(e) + 1)
    BY <1>2 DEF LastStep
  <2>5. \A n \in 1 .. Count(e) : n \in 1 .. Count(e) + 1 /\ n + 1 \in 1 .. Count(e) + 1
    BY <2>1
  <2>6. ASSUME NEW w \in PlannedWorks(e)
        PROVE  /\ WorkSteps(w) \in Nat \ {0} /\ w.first \in Nat \ {0}
               /\ w.first + WorkSteps(w) - 1 <= LastStep(e)
               /\ \A k \in 1 .. WorkSteps(w) : SliceBytes(w, k) \in Nat \ {0}
    <3>1. PICK n \in 1 .. Count(e) : w \in WorksIn(e, n)
      BY <2>3
    <3>2. /\ StepsBefore(e, n) \in Nat /\ StepsBefore(e, n + 1) \in Nat
          /\ StepsBefore(e, n + 1) <= LastStep(e)
          /\ StepsBefore(e, n + 1) = StepsBefore(e, n) + WorkSteps(w)
      BY <2>1, <2>5, <3>1
    <3>3. /\ WorkSteps(w) \in Nat \ {0} /\ w.first = StepsBefore(e, n) + 1
          /\ \A k \in 1 .. WorkSteps(w) : SliceBytes(w, k) \in Nat \ {0}
      BY <2>2, <3>1
    <3>4. QED
      BY <3>2, <3>3
  <2>7. ASSUME NEW w \in PlannedWorks(e), NEW v \in PlannedWorks(e), NEW t \in Nat,
               Covers(w, t), Covers(v, t), NEW n \in 1 .. Count(e), NEW m \in 1 .. Count(e),
               w \in WorksIn(e, n), v \in WorksIn(e, m), n < m
        PROVE  FALSE
    <3>1. /\ StepsBefore(e, n) \in Nat /\ StepsBefore(e, m) \in Nat
          /\ StepsBefore(e, n + 1) = StepsBefore(e, n) + WorkSteps(w)
      BY <2>1, <2>5, <2>7
    <3>2. n + 1 \in 1 .. m /\ m \in 1 .. Count(e) + 1
      BY <2>1, <2>7
    <3>3. StepsBefore(e, n + 1) <= StepsBefore(e, m)
      BY <2>1, <3>2
    <3>4. w.first = StepsBefore(e, n) + 1 /\ v.first = StepsBefore(e, m) + 1 /\ WorkSteps(w) \in Nat
      BY <2>2, <2>7
    <3>5. v.first <= t /\ t < w.first + WorkSteps(w)
      BY <2>7 DEF Covers
    <3>6. QED
      BY <3>1, <3>3, <3>4, <3>5
  <2>8. ASSUME NEW w \in PlannedWorks(e), NEW v \in PlannedWorks(e), NEW t \in Nat,
               Covers(w, t), Covers(v, t)
        PROVE  w = v
    <3>1. PICK n \in 1 .. Count(e), m \in 1 .. Count(e) : w \in WorksIn(e, n) /\ v \in WorksIn(e, m)
      BY <2>3
    <3>2. n = m
      <4>1. ~(n < m) /\ ~(m < n)
        BY <2>7, <2>8, <3>1
      <4>2. QED
        BY <2>1, <4>1
    <3>3. QED
      BY <2>2, <3>1, <3>2
  <2>9. ASSUME NEW t \in 1 .. LastStep(e)
        PROVE  \E w \in PlannedWorks(e) : Covers(w, t)
    <3> DEFINE Behind == {n \in 1 .. Count(e) + 1 : t <= StepsBefore(e, n)}
    <3>1. Behind \in SUBSET Nat /\ Behind # {}
      BY <2>1, <2>4
    <3> HIDE DEF Behind
    <3>2. PICK n \in Behind : \A m \in Behind : n <= m
      BY <3>1, LeastNumber
    <3>3. n \in 1 .. Count(e) + 1 /\ t <= StepsBefore(e, n)
      BY <3>2 DEF Behind
    <3>4. n # 1
      BY <2>1, <2>9, <3>3
    <3> DEFINE m == n - 1
    <3>5. m \in 1 .. Count(e) /\ m + 1 = n /\ m < n
      BY <2>1, <3>3, <3>4
    <3> HIDE DEF m
    <3>6. StepsBefore(e, m) < t /\ StepsBefore(e, m) \in Nat
      <4>1. m \in 1 .. Count(e) + 1 /\ ~(n <= m)
        BY <2>1, <3>3, <3>5
      <4>2. StepsBefore(e, m) \in Nat /\ m \notin Behind
        BY <2>1, <3>2, <4>1
      <4>3. ~(t <= StepsBefore(e, m))
        BY <4>1, <4>2 DEF Behind
      <4>4. QED
        BY <2>1, <4>2, <4>3
    <3>7. PICK w : w \in WorksIn(e, m)
      <4>1. StepsBefore(e, n) \in Nat
        BY <2>1, <3>3
      <4>2. StepsBefore(e, m + 1) # StepsBefore(e, m)
        BY <2>1, <3>3, <3>5, <3>6, <4>1
      <4>3. QED
        BY <2>1, <3>5, <4>2
    <3>8. /\ StepsBefore(e, n) = StepsBefore(e, m) + WorkSteps(w)
          /\ w.first = StepsBefore(e, m) + 1 /\ WorkSteps(w) \in Nat
      BY <2>1, <2>2, <3>5, <3>7
    <3>9. w \in PlannedWorks(e)
      BY <2>3, <3>5, <3>7
    <3>10. Covers(w, t)
      BY <2>1, <3>3, <3>6, <3>8 DEF Covers
    <3>11. QED
      BY <3>9, <3>10
  <2>10. QED
    BY <2>1, <2>6, <2>8, <2>9
<1>3. QED
  BY <1>1, <1>2

\* What WorkAt chooses.
LEMMA WorkAtIs ==
  ASSUME StepsInOrder, NEW e \in Links
  PROVE  /\ \A t \in 1 .. LastStep(e) :
              /\ WorkAt(e, t) \in PlannedWorks(e) /\ Covers(WorkAt(e, t), t)
              /\ StepBytes(e, t) \in Nat \ {0}
         /\ \A w \in PlannedWorks(e), t \in Nat : Covers(w, t) => WorkAt(e, t) = w
<1>1. ASSUME NEW w \in PlannedWorks(e), NEW t \in Nat, Covers(w, t)
      PROVE  WorkAt(e, t) = w
  <2>1. \A v \in PlannedWorks(e) : Covers(v, t) => v = w
    BY <1>1, WorksCover
  <2>2. WorkAt(e, t) = CHOOSE v \in PlannedWorks(e) : Covers(v, t)
    BY DEF WorkAt, Covers
  <2>3. QED
    BY <1>1, <2>1, <2>2
<1>2. ASSUME NEW t \in 1 .. LastStep(e)
      PROVE  /\ WorkAt(e, t) \in PlannedWorks(e) /\ Covers(WorkAt(e, t), t)
             /\ StepBytes(e, t) \in Nat \ {0}
  <2>1. LastStep(e) \in Nat /\ t \in Nat
    BY WorksCover
  <2>2. PICK w \in PlannedWorks(e) : Covers(w, t)
    BY WorksCover
  <2>3. WorkAt(e, t) = w
    BY <1>1, <2>1, <2>2
  <2>4. /\ WorkSteps(w) \in Nat \ {0} /\ w.first \in Nat \ {0}
        /\ \A k \in 1 .. WorkSteps(w) : SliceBytes(w, k) \in Nat \ {0}
    BY <2>2, WorksCover
  <2>5. t - w.first + 1 \in 1 .. WorkSteps(w)
    BY <2>1, <2>2, <2>4 DEF Covers
  <2>6. SliceBytes(w, t - w.first + 1) \in Nat \ {0}
    BY <2>4, <2>5
  <2>7. QED
    BY <2>2, <2>3, <2>6 DEF StepBytes
<1>3. QED
  BY <1>1, <1>2

\* What step t of an end's stream is in the rank's current step.
Piece(e, t) ==
  [seq |-> seq[e[1]], offset |-> WorkAt(e, t).offset + (t - WorkAt(e, t).first) * WorkAt(e, t).step,
   bytes |-> StepBytes(e, t)]

\* The two ends of a stream have the same steps.
LEMMA SameSteps ==
  ASSUME TypeInv, StepsInOrder, WorksMatch, NEW e \in Links
  PROVE  /\ LastStep(Back(e)) = LastStep(e)
         /\ \A t \in 1 .. LastStep(e) :
              /\ StepBytes(Back(e), t) = StepBytes(e, t)
              /\ seq[e[1]] = seq[e[2]] => Piece(Back(e), t) = Piece(e, t)
<1>1. ASSUME NEW f \in Links, NEW t \in 1 .. LastStep(f)
      PROVE  \E v \in PlannedWorks(Back(f)) :
               /\ Covers(v, t) /\ t <= LastStep(Back(f))
               /\ v.offset = WorkAt(f, t).offset /\ v.bytes = WorkAt(f, t).bytes
               /\ v.first = WorkAt(f, t).first /\ v.step = WorkAt(f, t).step
  <2>1. Back(f) \in Links /\ LastStep(f) \in Nat /\ LastStep(Back(f)) \in Nat
    BY LinkParts, WorksCover
  <2> DEFINE w == WorkAt(f, t)
  <2>2. w \in PlannedWorks(f) /\ Covers(w, t)
    BY WorkAtIs
  <2> HIDE DEF w
  <2>3. PICK v \in PlannedWorks(Back(f)) : Division(v) = Division(w)
    <3>1. {Division(x) : x \in PlannedWorks(f)} = {Division(x) : x \in PlannedWorks(Back(f))}
      BY DEF WorksMatch
    <3>2. Division(w) \in {Division(x) : x \in PlannedWorks(f)}
      BY <2>2
    <3>3. QED
      BY <3>1, <3>2
  <2>4. v.offset = w.offset /\ v.bytes = w.bytes /\ v.first = w.first /\ v.step = w.step
    BY <2>3 DEF Division
  <2>5. WorkSteps(v) = WorkSteps(w)
    BY <2>4 DEF WorkSteps
  <2>6. Covers(v, t)
    BY <2>2, <2>4, <2>5 DEF Covers
  <2>7. v.first + WorkSteps(v) - 1 <= LastStep(Back(f)) /\ WorkSteps(v) \in Nat /\ v.first \in Nat
    BY <2>1, WorksCover
  <2>8. t <= LastStep(Back(f))
    BY <2>1, <2>6, <2>7 DEF Covers
  <2>9. QED
    BY <2>4, <2>6, <2>8 DEF w
<1>2. ASSUME NEW f \in Links PROVE LastStep(f) <= LastStep(Back(f))
  <2>1. Back(f) \in Links /\ LastStep(f) \in Nat /\ LastStep(Back(f)) \in Nat
    BY LinkParts, WorksCover
  <2>2. CASE LastStep(f) = 0
    BY <2>1, <2>2
  <2>3. CASE LastStep(f) # 0
    <3>1. LastStep(f) \in 1 .. LastStep(f)
      BY <2>1, <2>3
    <3>2. QED
      BY <1>1, <3>1
  <2>4. QED
    BY <2>2, <2>3
<1>3. LastStep(Back(e)) = LastStep(e)
  <2>1. Back(e) \in Links /\ Back(Back(e)) = e
    BY LinkParts
  <2>2. LastStep(e) \in Nat /\ LastStep(Back(e)) \in Nat
    BY <2>1, WorksCover
  <2>3. LastStep(e) <= LastStep(Back(e)) /\ LastStep(Back(e)) <= LastStep(e)
    BY <1>2, <2>1
  <2>4. QED
    BY <2>2, <2>3
<1>4. ASSUME NEW t \in 1 .. LastStep(e)
      PROVE  /\ StepBytes(Back(e), t) = StepBytes(e, t)
             /\ seq[e[1]] = seq[e[2]] => Piece(Back(e), t) = Piece(e, t)
  <2>1. Back(e) \in Links /\ Back(e)[1] = e[2] /\ LastStep(e) \in Nat
    BY LinkParts, WorksCover
  <2>2. PICK v \in PlannedWorks(Back(e)) :
               /\ Covers(v, t)
               /\ v.offset = WorkAt(e, t).offset /\ v.bytes = WorkAt(e, t).bytes
               /\ v.first = WorkAt(e, t).first /\ v.step = WorkAt(e, t).step
    BY <1>1
  <2>3. WorkAt(Back(e), t) = v
    BY <2>1, <2>2, WorkAtIs
  <2>4. StepBytes(Back(e), t) = StepBytes(e, t)
    BY <2>2, <2>3 DEF StepBytes, SliceBytes
  <2>5. QED
    BY <2>1, <2>2, <2>3, <2>4 DEF Piece
<1>5. QED
  BY <1>3, <1>4

\* What the group of an end copies in slice k.
LEMMA ServedPiece ==
  ASSUME StepsInOrder, NEW e \in Links, Serving(e), NEW k \in 1 .. Steps(e)
  PROVE  LET t == StepsBefore(e, At(e)) + k
         IN  /\ t \in 1 .. LastStep(e) /\ WorkAt(e, t) = WorkOf(e)
             /\ Content(e, k) = Piece(e, t) /\ Content(e, k).bytes = StepBytes(e, t)
<1> DEFINE t == StepsBefore(e, At(e)) + k
           w == WorkOf(e)
<1>1. /\ Used(e) /\ At(e) \in 1 .. Count(e)
      /\ Steps(e) \in Nat \ {0} /\ StepsBefore(e, At(e)) \in Nat
      /\ w.first = StepsBefore(e, At(e)) + 1
      /\ StepsBefore(e, At(e) + 1) = StepsBefore(e, At(e)) + Steps(e)
      /\ LastStep(e) \in Nat /\ StepsBefore(e, At(e) + 1) <= LastStep(e)
  BY WorkIs
<1>2. w \in WorksIn(e, At(e))
  <2>1. WorksIn(e, At(e)) = {x \in ToSet(Works(BlockOf(e))[At(e)]) : x.peer = e[2]}
    BY <1>1 DEF WorksIn, Used, Count
  <2>2. WorksIn(e, At(e)) # {}
    BY DEF Serving
  <2>3. QED
    BY <2>1, <2>2 DEF WorkOf, At
<1>3. w \in PlannedWorks(e)
  BY <1>1, <1>2 DEF PlannedWorks
<1>4. t \in 1 .. LastStep(e) /\ t \in Nat /\ t - w.first = k - 1 /\ t - w.first + 1 = k
  BY <1>1
<1>5. Covers(w, t)
  BY <1>1, <1>4 DEF Covers, Steps
<1>6. WorkAt(e, t) = w
  BY <1>3, <1>4, <1>5, WorkAtIs
<1>7. StepBytes(e, t) = SliceBytes(w, k)
  BY <1>4, <1>6 DEF StepBytes
<1>8. QED
  BY <1>4, <1>6, <1>7 DEF Content, Piece

\* None of it changes.
LEMMA WorksAreKept ==
  ASSUME d' = d, plan' = plan, DOMAIN host' = DOMAIN host
  PROVE  /\ \A e : PlannedWorks(e)' = PlannedWorks(e) /\ Back(e)' = Back(e)
         /\ \A e, t : WorkAt(e, t)' = WorkAt(e, t) /\ StepBytes(e, t)' = StepBytes(e, t)
         /\ \A e, n : BytesThrough(e, n)' = BytesThrough(e, n)
         /\ WorksMatch => WorksMatch'
         /\ WholeStreams => WholeStreams'
<1>1. /\ Links' = Links
      /\ \A e, n : WorksIn(e, n)' = WorksIn(e, n)
      /\ \A e : (Used(e)' <=> Used(e)) /\ Count(e)' = Count(e) /\ LastStep(e)' = LastStep(e)
  BY PlanIsKept
<1>2. ASSUME NEW e PROVE PlannedWorks(e)' = PlannedWorks(e)
  <2>1. WorksIn(e, 1)' = WorksIn(e, 1) /\ (Used(e)' <=> Used(e)) /\ Count(e)' = Count(e)
    BY <1>1
  <2>2. {WorksIn(e, n) : n \in 1 .. Count(e)}' = {WorksIn(e, n) : n \in 1 .. Count(e)}
    BY <1>1
  <2>3. QED
    BY <2>1, <2>2 DEF PlannedWorks
<1>3. \A e, t : WorkAt(e, t)' = WorkAt(e, t)
  BY <1>2 DEF WorkAt
<1>4. \A e, t : StepBytes(e, t)' = StepBytes(e, t)
  BY <1>3 DEF StepBytes
<1>5. \A e, n : BytesThrough(e, n)' = BytesThrough(e, n)
  BY <1>4 DEF BytesThrough
<1>6. \A e : Back(e)' = Back(e)
  BY DEF Back
<1>7. WorksMatch => WorksMatch'
  <2>1. \A e : PlannedWorks(Back(e))' = PlannedWorks(Back(e))
    BY <1>2, <1>6
  <2>2. \A e : {Division(w) : w \in PlannedWorks(e)}' = {Division(w) : w \in PlannedWorks(e)}
    BY <1>2
  <2>3. \A e : {Division(w) : w \in PlannedWorks(Back(e))}' = {Division(w) : w \in PlannedWorks(Back(e))}
    BY <2>1
  <2>4. QED
    BY <1>1, <2>2, <2>3 DEF WorksMatch
<1>8. WholeStreams => WholeStreams'
  <2>1. \A e : BytesThrough(e, LastStep(e))' = BytesThrough(e, LastStep(e))
    BY <1>1, <1>5
  <2>2. QED
    BY <2>1 DEF WholeStreams
<1>9. QED
  BY <1>2, <1>3, <1>4, <1>5, <1>6, <1>7, <1>8

\* Functions that grow alike but for one place.
Adds(f, n, s) == \A i \in 1 .. n : f[i] = f[i - 1] + s[i]
\* Sums of sequences that differ in one place differ by that.
LEMMA SumsDiffer ==
  ASSUME NEW n \in Nat, NEW f \in [0 .. n -> Nat], NEW g \in [0 .. n -> Nat], f[0] = g[0],
         NEW k \in 1 .. n, NEW x \in Nat, NEW s, NEW u,
         Adds(f, n, s), Adds(g, n, u), \A i \in 1 .. n : s[i] \in Nat,
         u[k] = s[k] + x, \A i \in 1 .. n : i # k => u[i] = s[i]
  PROVE  g[n] = f[n] + x
<1> DEFINE h == [i \in 0 .. n |-> IF i < k THEN f[i] ELSE f[i] + x]
<1>1. \A i \in 0 .. n : f[i] \in Nat /\ g[i] \in Nat
  OBVIOUS
<1>2. \A i \in 0 .. n : /\ i < k => h[i] = f[i]
                        /\ ~(i < k) => h[i] = f[i] + x
  OBVIOUS
<1>3. h \in [0 .. n -> Nat]
  <2>1. ASSUME NEW i \in 0 .. n PROVE h[i] \in Nat
    <3>1. h[i] = f[i] \/ h[i] = f[i] + x
      BY <1>2
    <3>2. f[i] \in Nat
      OBVIOUS
    <3> HIDE DEF h
    <3>3. QED
      BY <3>1, <3>2
  <2>2. h = [i \in 0 .. n |-> h[i]]
    OBVIOUS
  <2> HIDE DEF h
  <2>3. QED
    BY <2>1, <2>2
<1> HIDE DEF h
<1>4. k \in Nat /\ 0 < k /\ k <= n
  OBVIOUS
<1>5. h[0] = f[0] /\ h[n] = f[n] + x
  <2>1. 0 \in 0 .. n /\ n \in 0 .. n /\ 0 < k /\ ~(n < k)
    BY <1>4
  <2>2. QED
    BY <1>2, <2>1
<1>6. ASSUME NEW i \in 0 + 1 .. n PROVE g[i] - g[i - 1] = h[i] - h[i - 1]
  <2>1. i \in 1 .. n /\ i - 1 \in 0 .. n /\ i \in 0 .. n
    OBVIOUS
  <2>2. /\ f[i] \in Nat /\ f[i - 1] \in Nat /\ g[i] \in Nat /\ g[i - 1] \in Nat
        /\ i < k => h[i] = f[i]
        /\ ~(i < k) => h[i] = f[i] + x
        /\ i - 1 < k => h[i - 1] = f[i - 1]
        /\ ~(i - 1 < k) => h[i - 1] = f[i - 1] + x
    BY <1>1, <1>2, <2>1
  <2>3. /\ i # k => g[i] - g[i - 1] = f[i] - f[i - 1]
        /\ i = k => g[i] - g[i - 1] = f[i] - f[i - 1] + x
    <3>1. /\ s[i] \in Nat /\ f[i] = f[i - 1] + s[i] /\ g[i] = g[i - 1] + u[i]
          /\ (i = k => u[i] = s[i] + x) /\ (i # k => u[i] = s[i])
      BY <2>1 DEF Adds
    <3>2. u[i] \in Nat
      BY ONLY <3>1, x \in Nat
    <3>3. f[i] - f[i - 1] = s[i]
      BY ONLY <2>2, <3>1
    <3>4. g[i] - g[i - 1] = u[i]
      BY ONLY <2>2, <3>1, <3>2
    <3>5. QED
      BY ONLY <3>1, <3>3, <3>4
  <2>4. i < k \/ i = k \/ i > k
    BY <1>4, <2>1
  <2>5. /\ i < k => i - 1 < k /\ i # k
        /\ i = k => i - 1 < k /\ ~(i < k)
        /\ i > k => ~(i < k) /\ ~(i - 1 < k) /\ i # k
    BY <1>4, <2>1
  <2>6. QED
    BY ONLY <2>2, <2>3, <2>4, <2>5, x \in Nat
<1>7. 0 \in 0 .. n /\ g[0] = h[0]
  BY <1>5
<1>8. g[n] = h[n]
  BY <1>3, <1>6, <1>7, SumsAgree
<1>9. QED
  BY <1>5, <1>8

\* A sum in which one number grows, and a sum of nothing but zeros.
LEMMA TotalGrows ==
  ASSUME NEW s \in Seq(Nat), NEW u \in Seq(Nat), Len(u) = Len(s), NEW k \in 1 .. Len(s), NEW x \in Nat,
         u[k] = s[k] + x, \A i \in 1 .. Len(s) : i # k => u[i] = s[i]
  PROVE  Total(u) = Total(s) + x
<1> DEFINE n == Len(s)
<1>1. n \in Nat /\ Len(u) = n /\ \A i \in 1 .. n : s[i] \in Nat
  OBVIOUS
<1>2. PICK f \in [0 .. n -> Nat] :
        Total(s) = f[n] /\ f[0] = 0 /\ \A i \in 1 .. n : f[i] = f[i - 1] + s[i]
  BY TotalIs
<1>3. PICK g \in [0 .. n -> Nat] :
        Total(u) = g[n] /\ g[0] = 0 /\ \A i \in 1 .. n : g[i] = g[i - 1] + u[i]
  <2>1. PICK g \in [0 .. Len(u) -> Nat] :
          /\ Total(u) = g[Len(u)] /\ g[0] = 0
          /\ \A i \in 1 .. Len(u) : g[i] = g[i - 1] + u[i]
    BY TotalIs
  <2>2. QED
    BY <1>1, <2>1
<1>4. k \in 1 .. n /\ x \in Nat /\ u[k] = s[k] + x /\ \A i \in 1 .. n : i # k => u[i] = s[i]
  OBVIOUS
<1> HIDE DEF n
<1>5. n \in Nat /\ f \in [0 .. n -> Nat] /\ g \in [0 .. n -> Nat] /\ f[0] = g[0]
  BY <1>1, <1>2, <1>3
<1>6. Adds(f, n, s) /\ Adds(g, n, u) /\ \A i \in 1 .. n : s[i] \in Nat
  BY <1>1, <1>2, <1>3 DEF Adds
<1>7. g[n] = f[n] + x
  BY ONLY <1>4, <1>5, <1>6, SumsDiffer
<1>8. QED
  BY <1>2, <1>3, <1>7

LEMMA TotalOfZeros ==
  ASSUME NEW s \in Seq(Nat), \A i \in 1 .. Len(s) : s[i] = 0
  PROVE  Total(s) = 0
<1> DEFINE n == Len(s)
<1>1. n \in Nat
  OBVIOUS
<1>2. PICK f \in [0 .. n -> Nat] :
        Total(s) = f[n] /\ f[0] = 0 /\ \A i \in 1 .. n : f[i] = f[i - 1] + s[i]
  BY TotalIs
<1>3. \A i \in 1 .. n : s[i] = 0
  OBVIOUS
<1> HIDE DEF n
<1> DEFINE h == [i \in 0 .. n |-> 0]
<1>4. h \in [0 .. n -> Nat] /\ h[0] = 0 /\ h[n] = 0
  BY <1>1
<1>5. ASSUME NEW i \in 0 + 1 .. n PROVE f[i] - f[i - 1] = h[i] - h[i - 1]
  <2>1. i \in 1 .. n /\ i - 1 \in 0 .. n /\ i \in 0 .. n
    BY <1>1
  <2>2. f[i] \in Nat /\ f[i - 1] \in Nat /\ f[i] = f[i - 1] + s[i] /\ s[i] = 0
    BY <1>2, <1>3, <2>1
  <2>3. h[i] = 0 /\ h[i - 1] = 0
    BY <2>1
  <2>4. QED
    BY <2>2, <2>3
<1> HIDE DEF h
<1>6. 0 \in 0 .. n /\ f[0] = h[0]
  BY <1>1, <1>2, <1>4
<1>7. f[n] = h[n]
  BY <1>1, <1>4, <1>5, <1>6, SumsAgree
<1>8. QED
  BY <1>2, <1>4, <1>7

\* The bytes of the first steps of an end.
LEMMA BytesGrow ==
  ASSUME StepsInOrder, NEW e \in Links, NEW n \in 0 .. LastStep(e)
  PROVE  /\ BytesThrough(e, n) \in Nat /\ BytesThrough(e, 0) = 0
         /\ n < LastStep(e) => BytesThrough(e, n + 1) = BytesThrough(e, n) + StepBytes(e, n + 1)
<1> DEFINE S(m) == [t \in 1 .. m |-> StepBytes(e, t)]
<1>1. LastStep(e) \in Nat /\ n \in Nat /\ \A t \in 1 .. LastStep(e) : StepBytes(e, t) \in Nat
  BY WorksCover, WorkAtIs
<1>2. S(n) \in Seq(Nat) /\ Len(S(n)) = n
  <2>1. \A t \in 1 .. n : StepBytes(e, t) \in Nat
    BY <1>1
  <2>2. S(n) \in [1 .. n -> Nat]
    BY <2>1
  <2>3. QED
    BY <1>1, <2>2
<1>3. S(0) = <<>>
  OBVIOUS
<1>4. ASSUME n < LastStep(e) PROVE S(n + 1) = Append(S(n), StepBytes(e, n + 1)) /\ StepBytes(e, n + 1) \in Nat
  <2>1. n + 1 \in 1 .. LastStep(e)
    BY <1>1, <1>4
  <2>2. StepBytes(e, n + 1) \in Nat
    BY <1>1, <2>1
  <2> DEFINE u == Append(S(n), StepBytes(e, n + 1))
  <2>3. /\ u \in Seq(Nat) /\ Len(u) = n + 1
        /\ \A t \in 1 .. n : u[t] = S(n)[t]
        /\ u[n + 1] = StepBytes(e, n + 1)
    <3> HIDE DEF S
    <3>1. QED
      BY <1>1, <1>2, <2>2
  <2>4. \A t \in 1 .. n + 1 : u[t] = StepBytes(e, t)
    BY <1>1, <2>3
  <2>5. DOMAIN u = 1 .. n + 1 /\ u = [t \in DOMAIN u |-> u[t]]
    BY <2>3
  <2> HIDE DEF u
  <2>6. u = S(n + 1)
    BY <2>4, <2>5
  <2>7. QED
    BY <2>2, <2>6 DEF u
<1>5. \A m : BytesThrough(e, m) = Total(S(m))
  BY DEF BytesThrough
<1>6. Total(S(n)) \in Nat
  <2> HIDE DEF S
  <2>1. QED
    BY <1>2, TotalAppend
<1>7. Total(S(0)) = 0
  BY <1>3, TotalOfNone
<1>8. n < LastStep(e) => Total(S(n + 1)) = Total(S(n)) + StepBytes(e, n + 1)
  <2> HIDE DEF S
  <2>1. QED
    BY <1>2, <1>4, TotalAppend
<1>9. QED
  <2> HIDE DEF S
  <2>1. QED
    BY <1>5, <1>6, <1>7, <1>8

-----------------------------------------------------------------------------
(***************************************************************************)
(* What the steps do to the ends, the words and the payloads.              *)
(***************************************************************************)
\* A step of no host.
Moving ==
  \/ QuietStep /\ UNCHANGED <<payload, landed>>
  \/ \E x \in Links : CopyOut(x) \/ CopyIn(x) \/ Post(x) \/ DeliverPut(x) \/ DeliverCredit(x)

\* A step is one of these or a host's.
LEMMA StepsMove ==
  ASSUME Base, [Next]_vars
  PROVE  Moving \/ \E r \in Ranks(d) : HostStep(r)
<1>1. DOMAIN lead = Links /\ DOMAIN puts = Links /\ R = Ranks(d)
  BY DEF Base, LaunchInv, TypeInv, StateTypes, ThreadTypes, ShareTypes, R
<1>2. CASE UNCHANGED vars
  BY <1>2, NothingIsQuiet DEF Base, Moving, vars, memory
<1>3. ASSUME NEW b \in DOMAIN block, BlockStep(b) PROVE Moving
  <2>1. QuietStep
    BY <1>3, BlocksAreQuiet DEF Base
  <2>2. UNCHANGED <<payload, landed>>
    BY <1>3 DEF BlockStep, PublishEpoch, Gate, NextBatch, EndBlock, memory
  <2>3. QED
    BY <2>1, <2>2 DEF Moving
<1>4. ASSUME NEW e \in Links, ThreadStep(e) PROVE Moving
  <2>1. CASE CopyOut(e) \/ CopyIn(e) \/ Post(e)
    BY <2>1 DEF Moving
  <2>2. CASE \/ WaitPasses(e) \/ WaitGivesUp(e) \/ FirstBarrier(e) \/ MainBarrier(e)
             \/ LeadCheck(e) \/ PostCheck(e)
    <3>1. QuietStep
      BY <2>2, ThreadsAreQuiet DEF Base
    <3>2. UNCHANGED <<payload, landed>>
      BY <2>2 DEF WaitPasses, WaitGivesUp, FirstBarrier, MainBarrier, LeadCheck, PostCheck, memory
    <3>3. QED
      BY <3>1, <3>2 DEF Moving
  <2>3. QED
    BY <1>4, <2>1, <2>2 DEF ThreadStep
<1>5. QED
  BY <1>1, <1>2, <1>3, <1>4 DEF Next, Moving

\* Such a step and an end.
LEMMA EndsMove ==
  ASSUME Base, Base', Moving, NEW e \in Links
  PROVE  /\ Kept /\ Framed(e) /\ Loads(e) /\ ToCopy(e) <= ToCopy(e)'
         /\ ~error'[e[1]] => /\ ~error[e[1]]
                             /\ ToCopy(e)' = ToCopy(e) \/ CopyOut(e) \/ CopyIn(e)
                             /\ ToPost(e)' = ToPost(e) \/ Post(e)
<1>1. TypeInv /\ ToCopy(e) \in Nat \ {0}
  BY NumbersHold DEF Base, LaunchInv, NumbersInv, Numbers
<1>2. SUFFICES /\ Kept /\ Loads(e) /\ ToCopy(e) <= ToCopy(e)'
               /\ ~error'[e[1]] => /\ ToCopy(e)' = ToCopy(e) \/ CopyOut(e) \/ CopyIn(e)
                                   /\ ToPost(e)' = ToPost(e) \/ Post(e)
  BY <1>1, KeptIsFramed, LinkParts DEF Kept
<1>3. CASE QuietStep
  BY <1>3 DEF QuietStep, Steady
<1>4. ASSUME NEW x \in Links, CopyOut(x) \/ CopyIn(x) \/ Post(x), x # e
      PROVE  Kept /\ Still(e)
  <2>1. ThreadStep(x)
    BY <1>4 DEF ThreadStep
  <2>2. QED
    BY <1>1, <1>4, <2>1, ThreadFrame, OtherEnds DEF Base
<1>5. ASSUME NEW x \in Links, DeliverPut(x) \/ DeliverCredit(x)
      PROVE  Kept /\ Still(e)
  BY <1>5, PutsDelivered, CreditsDelivered DEF Base
<1>6. CASE Kept /\ Still(e)
  <2>1. Steady(e) /\ Loads(e)
    BY <1>1, <1>6, StillIsSteady
  <2>2. QED
    BY <1>1, <1>6, <2>1 DEF Steady, Still
<1>7. CASE CopyOut(e) \/ CopyIn(e)
  <2>1. ThreadStep(e) /\ Kept
    BY <1>1, <1>7, ThreadFrame DEF ThreadStep, Base
  <2>2. /\ ToCopy(e)' = ToCopy(e) + 1 /\ ToPost(e)' = ToPost(e)
        /\ lead[e] = "copy" /\ cache' = cache
    BY <1>7, CopySteps DEF Base, EndsInv
  <2>3. QED
    BY <1>1, <1>7, <2>1, <2>2 DEF Loads
<1>8. CASE Post(e)
  <2>1. ThreadStep(e) /\ Kept
    BY <1>1, <1>8, ThreadFrame DEF ThreadStep, Base
  <2>2. ToCopy(e)' = ToCopy(e) /\ cache' = cache /\ lead' = lead
    BY <1>8, PostSteps DEF Base, EndsInv
  <2>3. QED
    BY <1>1, <1>8, <2>1, <2>2 DEF Loads
<1>9. QED
  BY <1>3, <1>4, <1>5, <1>6, <1>7, <1>8 DEF Moving

\* Such a step and the words of a FIFO in a window.
LEMMA WordsMove ==
  ASSUME Base, Base', Moving, NEW e \in Links, Near(e)
  PROVE  /\ \/ \A i \in Index(e) : ready'[Fifo(e, i)] = ready[Fifo(e, i)]
            \/ /\ Post(e) /\ Serving(e) /\ ~error[e[1]] /\ host[e[1]] = "kernel" /\ ToPost(e) < ToCopy(e)
               /\ consumed' = consumed
               /\ \A i \in Index(e) : ready'[Fifo(e, i)] \in {ready[Fifo(e, i)], ToPost(e)}
         /\ \/ \A i \in Index(e) : consumed'[Fifo(e, i)] = consumed[Fifo(e, i)]
            \/ /\ Post(Back(e)) /\ Serving(Back(e)) /\ ~error[e[2]] /\ host[e[2]] = "kernel"
               /\ error' = error /\ ready' = ready
               /\ ToPost(Back(e)) \in Nat /\ ToPost(Back(e)) < ToCopy(Back(e))
               /\ ToPost(Back(e))' = ToPost(Back(e)) + 1
               /\ \E j \in Index(e) : \A i \in Index(e) :
                    consumed'[Fifo(e, i)] = IF i = j THEN ToPost(Back(e)) ELSE consumed[Fifo(e, i)]
<1> DEFINE b == Back(e)
           Same == \A i \in Index(e) : /\ ready'[Fifo(e, i)] = ready[Fifo(e, i)]
                                       /\ consumed'[Fifo(e, i)] = consumed[Fifo(e, i)]
<1>1. /\ TypeInv /\ b \in Links /\ b[1] = e[2] /\ Back(b) = e /\ Sends(e[1]) /\ ~Sends(e[2])
      /\ ~Gin(e) /\ ~Gin(b) /\ Index(b) = Index(e) /\ Depth(b) = Depth(e)
  BY LinkParts DEF Base, LaunchInv, Near, Index
<1>2. /\ \A i \in Index(e) : Fifo(e, i) \in Slots
      /\ DOMAIN ready = Slots /\ DOMAIN consumed = Slots
  BY <1>1, FifoIsSlot DEF Base, StateTypes, ShareTypes
<1>3. CASE UNCHANGED fifo
  BY <1>3 DEF fifo
<1>4. CASE QuietStep
  BY <1>3, <1>4 DEF QuietStep
<1>5. ASSUME NEW x \in Links, CopyOut(x) \/ CopyIn(x) \/ DeliverPut(x) \/ DeliverCredit(x)
      PROVE  UNCHANGED fifo
  BY <1>5 DEF CopyOut, CopyIn, DeliverPut, DeliverCredit
<1>6. ASSUME NEW x \in Links, Post(x), x # e, x # b
      PROVE  Same
  <2>1. Back(x) \in Links /\ Back(Back(x)) = x /\ Back(x) # e
    BY <1>1, <1>6, LinkParts
  <2>2. ASSUME NEW i \in Index(e)
        PROVE  /\ \A j : Fifo(e, i) # Fifo(x, j)
               /\ \A j : Fifo(e, i) # Fifo(Back(x), j)
    BY <1>1, <1>6, <2>1, SlotsOfOthers
  <2>3. QED
    BY <1>2, <1>6, <2>2, NearPublished
<1>7. CASE Post(e)
  <2>1. Serving(e) /\ host[e[1]] = "kernel"
    BY <1>7, PostSteps DEF Base, EndsInv
  <2>2. CASE error[e[1]]
    BY <1>3, <1>7, <2>2, NearPublished DEF fifo
  <2>3. CASE ~error[e[1]]
    BY <1>1, <1>2, <1>7, <2>1, <2>3, NearPublished
  <2>4. QED
    BY <2>2, <2>3
<1>8. CASE Post(b)
  <2>1. Serving(b) /\ host[e[2]] = "kernel"
    BY <1>1, <1>8, PostSteps DEF Base, EndsInv
  <2>2. CASE error[e[2]]
    BY <1>1, <1>3, <1>8, <2>2, NearPublished DEF fifo
  <2>3. CASE ~error[e[2]]
    <3> DEFINE step == StepsBefore(b, At(b)) + PostSlice(b)
    <3>1. /\ error' = error /\ ready' = ready
          /\ step < ToCopy(b) /\ step \in Nat /\ ToPost(b) = step
          /\ step % Depth(b) \in Index(e) /\ Fifo(e, step % Depth(b)) \in Slots
          /\ consumed' = [consumed EXCEPT ![Fifo(e, step % Depth(b))] = step]
      BY <1>1, <1>8, <2>3, NearPublished
    <3>2. ToPost(b)' = step + 1
      BY <1>1, <1>8, <2>3, FarPublished
    <3> HIDE DEF step
    <3> DEFINE j == step % Depth(b)
    <3>3. \A i \in Index(e) : Fifo(e, i) = Fifo(e, j) => i = j
      BY DEF Fifo
    <3>4. \A i \in Index(e) : consumed'[Fifo(e, i)] = IF i = j THEN step ELSE consumed[Fifo(e, i)]
      BY <1>2, <3>1, <3>3
    <3>5. j \in Index(e)
      BY <3>1
    <3> HIDE DEF j
    <3>6. QED
      BY <1>8, <2>1, <2>3, <3>1, <3>2, <3>4, <3>5
  <2>4. QED
    BY <2>2, <2>3
<1>9. QED
  BY <1>3, <1>4, <1>5, <1>6, <1>7, <1>8 DEF Moving

\* A host's step and an end.
LEMMA HostsMove ==
  ASSUME Base, Base', NEW r \in Ranks(d), HostStep(r), NEW e \in Links
  PROVE  /\ d' = d /\ plan' = plan /\ DOMAIN host' = DOMAIN host /\ payload' = payload
         /\ puts' = puts /\ credits' = credits
         /\ r # e[1] => /\ Still(e) /\ host'[e[1]] = host[e[1]] /\ seq'[e[1]] = seq[e[1]]
                        /\ error'[e[1]] = error[e[1]]
         /\ r = e[1] => /\ lead'[e] = "out" /\ ToCopy(e)' = 1 /\ cache'[e] = cache[e] /\ lead[e] = "out"
                        /\ host[r] # "kernel" => ToCopy(e) = 1
                        /\ host[r] = "kernel" => Synchronize(r) /\ ToCopy(e) = LastStep(e) + 1
<1>1. e[1] \in Ranks(d)
  BY LinkParts DEF Base, LaunchInv
<1>2. /\ UNCHANGED <<d, plan, threads, puts, credits>> /\ DOMAIN host' = DOMAIN host
      /\ \A q \in Ranks(d) \ {r} : host'[q] = host[q] /\ seq'[q] = seq[q] /\ error'[q] = error[q]
  BY HostFrame DEF Base
<1>3. payload' = payload
  BY DEF HostStep, Launch, Register, Reset, GinBarrier, Synchronize, Complete, memory
<1>4. ASSUME r # e[1]
      PROVE  /\ Still(e) /\ host'[e[1]] = host[e[1]] /\ seq'[e[1]] = seq[e[1]]
             /\ error'[e[1]] = error[e[1]]
  BY <1>1, <1>2, <1>4, HostOthers DEF Base
<1>5. ASSUME r = e[1]
      PROVE  /\ lead'[e] = "out" /\ ToCopy(e)' = 1 /\ cache'[e] = cache[e] /\ lead[e] = "out"
             /\ host[r] # "kernel" => ToCopy(e) = 1
             /\ host[r] = "kernel" => Synchronize(r) /\ ToCopy(e) = LastStep(e) + 1
  <2>1. /\ Rests(e, 0)' /\ cache'[e] = cache[e]
        /\ host[r] # "kernel" => Rests(e, 0)
        /\ host[r] = "kernel" => Synchronize(r) /\ Rests(e, LastStep(e))
    BY <1>5, HostOwn DEF Base
  <2>2. QED
    BY <2>1 DEF Rests
<1>6. QED
  BY <1>2, <1>3, <1>4, <1>5

-----------------------------------------------------------------------------
(***************************************************************************)
(* What the steps do to the payload slots and to what has landed.          *)
(***************************************************************************)
MemoryTypes == DOMAIN payload = PayloadSpace /\ landed \in [Pairs(d) -> Nat]
\* The end in whose lanes an end's payloads lie.
LaneEnd(x) == IF Owns(x) THEN x ELSE Back(x)

LEMMA LaneIsSpace ==
  ASSUME TypeInv, PlanTypes, NEW e \in Links, Owns(e), NEW i \in Index(e)
  PROVE  Lane(e, i) \in PayloadSpace
<1> DEFINE top == (IF \E m \in Links : Gin(m) THEN Larger(d.depth, d.ginDepth) ELSE d.depth) - 1
<1>1. /\ e[1] \in Ranks(d) /\ e[2] \in PeersOf(d, e[1]) /\ Depth(e) \in Nat \ {0}
      /\ d.depth \in Nat /\ d.ginDepth \in Nat
  BY LinkParts, DeploymentsAssumption DEF TypeInv
<1>2. plan[e[1]].slot[e[2]] = PayloadSlot(d, e[1], e[2])
  BY <1>1 DEF PlanTypes
<1>3. i \in 0 .. top
  <2>1. CASE Gin(e)
    BY <1>1, <2>1 DEF Index, Depth, Larger
  <2>2. CASE ~Gin(e)
    BY <1>1, <2>2 DEF Index, Depth, Larger
  <2>3. QED
    BY <2>1, <2>2
<1>4. e \in {m \in Links : Sends(m[1]) \/ Gin(m)}
  BY DEF Owns
<1> HIDE DEF top
<1>5. <<e[1], PayloadSlot(d, e[1], e[2]), e[3], i>> \in
        {<<l[1], PayloadSlot(d, l[1], l[2]), l[3], j>> :
           l \in {m \in Links : Sends(m[1]) \/ Gin(m)}, j \in 0 .. top}
  BY <1>3, <1>4
<1>6. QED
  BY <1>2, <1>5 DEF Lane, PayloadSpace, top

\* The step of the FIFO that a copy is of.
LEMMA CopiesPiece ==
  ASSUME Base, NEW x \in Links, CopyOut(x) \/ CopyIn(x)
  PROVE  /\ ToCopy(x) \in 1 .. LastStep(x) /\ ToCopy(x)' = ToCopy(x) + 1
         /\ Content(x, slice[x]) = Piece(x, ToCopy(x))
         /\ Content(x, slice[x]).bytes = StepBytes(x, ToCopy(x))
         /\ StepBytes(x, ToCopy(x)) \in Nat \ {0}
         /\ lead[x] = "copy" /\ host[x[1]] = "kernel" /\ error' = error
<1>1. /\ Serving(x) /\ ToCopy(x) = StepsBefore(x, At(x)) + slice[x] /\ lead[x] = "copy"
      /\ ToCopy(x)' = ToCopy(x) + 1 /\ host[x[1]] = "kernel" /\ error' = error
  BY CopySteps DEF Base, EndsInv
<1>2. slice[x] \in 1 .. Steps(x)
  <2>1. slice[x] \in Nat \ {0} /\ slice[x] <= Steps(x)
    BY <1>1 DEF Base, EndsInv, EndInv, EndShape, StateTypes, ThreadTypes
  <2>2. Steps(x) \in Nat
    BY <1>1, WorkIs DEF Base
  <2>3. QED
    BY <2>1, <2>2
<1>3. QED
  BY <1>1, <1>2, ServedPiece, WorkAtIs DEF Base

\* What a sender's copy, a receiver's and a put make of the payloads.
LEMMA CopiedOut ==
  ASSUME Base, MemoryTypes, NEW x \in Links, CopyOut(x)
  PROVE  /\ landed' = landed /\ DOMAIN payload' = DOMAIN payload
         /\ \A e \in Links : Owns(e) => \A i \in Index(e) :
              payload'[Lane(e, i)] = IF filled[x] /\ e = x /\ i = ToCopy(x) % Depth(x)
                                     THEN Piece(x, ToCopy(x)) ELSE payload[Lane(e, i)]
<1>1. /\ Sends(x[1]) /\ lead[x] = "copy" /\ landed' = landed
      /\ payload' = IF filled[x] THEN [payload EXCEPT ![CopySlot(x, slice[x])] = Content(x, slice[x])]
                    ELSE payload
  BY DEF CopyOut
<1>2. Owns(x) /\ CopySlot(x, slice[x]) = Lane(x, ToCopy(x) % Depth(x))
  BY <1>1, CopySlotIs DEF Base, Owns
<1>3. Content(x, slice[x]) = Piece(x, ToCopy(x))
  BY CopiesPiece
<1>4. TypeInv /\ PlanTypes
  BY DEF Base, LaunchInv, StateTypes
<1> DEFINE j == ToCopy(x) % Depth(x)
<1>5. ASSUME NEW e \in Links, Owns(e), NEW i \in Index(e)
      PROVE  payload'[Lane(e, i)] = IF filled[x] /\ e = x /\ i = j
                                    THEN Piece(x, ToCopy(x)) ELSE payload[Lane(e, i)]
  <2>1. Lane(e, i) \in DOMAIN payload
    BY <1>4, <1>5, LaneIsSpace DEF MemoryTypes
  <2> HIDE DEF j
  <2>2. Lane(e, i) = Lane(x, j) <=> e = x /\ i = j
    BY <1>2, <1>4, <1>5, LanesApart
  <2>3. payload' = IF filled[x] THEN [payload EXCEPT ![Lane(x, j)] = Piece(x, ToCopy(x))] ELSE payload
    BY <1>1, <1>2, <1>3 DEF j
  <2>4. QED
    BY <2>1, <2>2, <2>3
<1>6. QED
  BY <1>1, <1>5

LEMMA CopiedIn ==
  ASSUME Base, MemoryTypes, NEW x \in Links, CopyIn(x)
  PROVE  /\ payload' = payload /\ ~Sends(x[1])
         /\ landed' = IF filled[x] /\ payload[Lane(LaneEnd(x), ToCopy(x) % Depth(x))] = Piece(x, ToCopy(x))
                      THEN [landed EXCEPT ![<<x[2], x[1]>>] = @ + StepBytes(x, ToCopy(x))]
                      ELSE landed
<1>1. /\ ~Sends(x[1]) /\ lead[x] = "copy" /\ payload' = payload
      /\ landed' = IF filled[x]
                   THEN [landed EXCEPT ![<<x[2], x[1]>>] =
                          IF payload[CopySlot(x, slice[x])] = Content(x, slice[x])
                          THEN @ + payload[CopySlot(x, slice[x])].bytes ELSE @]
                   ELSE landed
  BY DEF CopyIn
<1>2. CopySlot(x, slice[x]) = Lane(LaneEnd(x), ToCopy(x) % Depth(x))
  BY <1>1, CopySlotIs DEF Base, LaneEnd
<1>3. /\ Content(x, slice[x]) = Piece(x, ToCopy(x))
      /\ Content(x, slice[x]).bytes = StepBytes(x, ToCopy(x))
  BY CopiesPiece
<1> DEFINE p == Lane(LaneEnd(x), ToCopy(x) % Depth(x))
<1>4. landed' = IF filled[x]
                THEN [landed EXCEPT ![<<x[2], x[1]>>] =
                       IF payload[p] = Piece(x, ToCopy(x)) THEN @ + StepBytes(x, ToCopy(x)) ELSE @]
                ELSE landed
  BY <1>1, <1>2, <1>3
<1> HIDE DEF p
<1>5. [landed EXCEPT ![<<x[2], x[1]>>] = @] = landed
  BY DEF MemoryTypes
<1>6. QED
  BY <1>1, <1>4, <1>5 DEF p

LEMMA PutMade ==
  ASSUME Base, MemoryTypes, QueuesInv, FarsInv, NEW l \in Links, DeliverPut(l)
  PROVE  /\ landed' = landed /\ DOMAIN payload' = DOMAIN payload /\ Far(l) /\ Both(l)
         /\ readySignal' = [readySignal EXCEPT ![l] = @ + 1] /\ puts' = [puts EXCEPT ![l] = Tail(@)]
         /\ UNCHANGED <<credits, creditSignal, fifo>>
         /\ Len(puts'[l]) = Len(puts[l]) - 1 /\ Len(puts[l]) \in Nat \ {0}
         /\ \A e \in Links : Owns(e) => \A i \in Index(e) :
              payload'[Lane(e, i)] = IF e = Back(l) /\ i = (readySignal[l] + 1) % Depth(l)
                                     THEN payload[Lane(l, i)] ELSE payload[Lane(e, i)]
<1>1. /\ Far(l) /\ Both(l) /\ Len(puts[l]) \in Nat \ {0}
      /\ Head(puts[l]) = [step |-> readySignal[l] + 1, depth |-> Depth(l)]
      /\ Len(Tail(puts[l])) = Len(puts[l]) - 1
  BY FirstPut
<1>2. TypeInv /\ PlanTypes /\ puts \in [Links -> Seq(Message)]
  BY DEF Base, LaunchInv, StateTypes, ShareTypes
<1>3. /\ Back(l) \in Links /\ Owns(l) /\ Owns(Back(l))
      /\ Back(l)[1] = l[2] /\ Back(l)[2] = l[1] /\ Back(l)[3] = l[3]
  BY <1>1, <1>2, LinkParts DEF Far, Owns
<1> DEFINE j == (readySignal[l] + 1) % Depth(l)
<1>4. /\ Payload(l[1], l[2], l[3], Head(puts[l]).step, Head(puts[l]).depth) = Lane(l, j)
      /\ Payload(l[2], l[1], l[3], Head(puts[l]).step, Head(puts[l]).depth) = Lane(Back(l), j)
  BY <1>1, <1>3 DEF Payload, Lane
<1>5. /\ payload' = [payload EXCEPT ![Lane(Back(l), j)] = payload[Lane(l, j)]]
      /\ landed' = landed /\ UNCHANGED <<credits, creditSignal, fifo>>
      /\ readySignal' = [readySignal EXCEPT ![l] = @ + 1] /\ puts' = [puts EXCEPT ![l] = Tail(@)]
  BY <1>4 DEF DeliverPut
<1>6. ASSUME NEW e \in Links, Owns(e), NEW i \in Index(e)
      PROVE  payload'[Lane(e, i)] = IF e = Back(l) /\ i = j
                                    THEN payload[Lane(l, i)] ELSE payload[Lane(e, i)]
  <2>1. Lane(e, i) \in DOMAIN payload
    BY <1>2, <1>6, LaneIsSpace DEF MemoryTypes
  <2> HIDE DEF j
  <2>2. Lane(e, i) = Lane(Back(l), j) <=> e = Back(l) /\ i = j
    BY <1>2, <1>3, <1>6, LanesApart
  <2>3. QED
    BY <1>5, <2>1, <2>2
<1>7. puts'[l] = Tail(puts[l])
  BY <1>2, <1>5
<1>8. QED
  BY <1>1, <1>5, <1>6, <1>7

\* The other steps.
LEMMA MemoryRests ==
  ASSUME Moving, ~(\E x \in Links : CopyOut(x) \/ CopyIn(x) \/ DeliverPut(x))
  PROVE  payload' = payload /\ landed' = landed
BY DEF Moving, Post, DeliverCredit, memory

LEMMA MemoryTyped ==
  ASSUME StreamInv, MemoryTypes, [Next]_vars
  PROVE  MemoryTypes'
<1>1. /\ d' = d /\ plan' = plan /\ DOMAIN host' = DOMAIN host /\ Links' = Links
  BY EndsKept DEF StreamInv, Base
<1>2. PayloadSpace' = PayloadSpace /\ Pairs(d)' = Pairs(d)
  BY <1>1, PlanIsKept DEF PayloadSpace, Gin, Sends
<1>3. SUFFICES DOMAIN payload' = DOMAIN payload /\ landed' \in [Pairs(d) -> Nat]
  BY <1>2 DEF MemoryTypes
<1>4. ASSUME NEW x \in Links, CopyIn(x)
      PROVE  DOMAIN payload' = DOMAIN payload /\ landed' \in [Pairs(d) -> Nat]
  <2>1. StepBytes(x, ToCopy(x)) \in Nat
    BY <1>4, CopiesPiece DEF StreamInv
  <2> DEFINE q == <<x[2], x[1]>>
             s == StepBytes(x, ToCopy(x))
  <2>2. payload' = payload /\ (landed' = [landed EXCEPT ![q] = @ + s] \/ landed' = landed)
    BY <1>4, CopiedIn DEF StreamInv
  <2> HIDE DEF q, s
  <2>3. s \in Nat
    BY <2>1 DEF s
  <2>4. QED
    BY <2>2, <2>3 DEF MemoryTypes
<1>5. ASSUME NEW r \in Ranks(d), HostStep(r)
      PROVE  DOMAIN payload' = DOMAIN payload /\ landed' \in [Pairs(d) -> Nat]
  <2>1. payload' = payload
    BY <1>5 DEF HostStep, Launch, Register, Reset, GinBarrier, Synchronize, Complete, memory
  <2>2. \/ landed' = landed
        \/ landed' = [q \in DOMAIN landed |-> IF q[2] = r THEN 0 ELSE landed[q]]
    BY <1>5 DEF HostStep, Launch, Register, Reset, GinBarrier, Synchronize, Complete, memory
  <2>3. QED
    BY <2>1, <2>2 DEF MemoryTypes
<1>6. CASE Moving
  <2>1. CASE \E x \in Links : CopyOut(x) \/ CopyIn(x) \/ DeliverPut(x)
    BY <1>4, <2>1, CopiedOut, PutMade DEF StreamInv, MemoryTypes
  <2>2. QED
    BY <1>6, <2>1, MemoryRests DEF MemoryTypes
<1>7. QED
  BY <1>5, <1>6, StepsMove DEF StreamInv

-----------------------------------------------------------------------------
(***************************************************************************)
(* A stream over the window of the sender: what is consumed, what the      *)
(* sender has seen of it, and what the receiver finds in a slot.           *)
(***************************************************************************)
Live(r) == Begins(r) /\ ~error[r]
\* A slot says that step n and all before it are consumed.
Holds(e, n) == n = 0 \/ \E i \in Index(e) : n <= consumed[Fifo(e, i)]

\* No slot says anything while the receiver has yet to come to the step.
NearAlone(e) ==
  host[e[1]] \notin {"idle", "register", "reset"} /\ ~Cleared(e[2], seq[e[1]]) =>
    \A i \in Index(e) : ready[Fifo(e, i)] = 0 /\ consumed[Fifo(e, i)] = 0
\* The receiver has copied what it calls consumed.
NearTaken(e) ==
  Both(e) /\ Begins(e[2]) => \A i \in Index(e) :
    /\ consumed[Fifo(e, i)] < ToCopy(Back(e))
    /\ ~error[e[2]] => consumed[Fifo(e, i)] = 0 \/ consumed[Fifo(e, i)] < ToPost(Back(e))
\* What the sender remembers as consumed is.
NearSeen(e) ==
  Begins(e[1]) /\ (lead[e] # "out" \/ (~error[e[1]] /\ ToCopy(e) # 1)) => Holds(e, cache[e])
\* A send returns when everything is.
NearAcked(e) ==
  host[e[1]] \in {"returned", "idle"} /\ seq[e[1]] > 0 /\ Both(e) => Holds(e, LastStep(e))
\* A step the receiver may take for ready, and has yet to copy, is in its slot.
Shown(e, t) ==
  \/ \E i \in Index(e) : t <= ready[Fifo(e, i)]
  \/ lead[Back(e)] # "out" /\ t <= cache[Back(e)]
  \/ Runs(e[1]) /\ t < ToCopy(e)
NearHeld(e) ==
  Both(e) /\ Live(e[2]) => \A t \in 1 .. LastStep(e) :
    ToCopy(Back(e)) <= t /\ Shown(e, t) => payload[Lane(e, t % Depth(e))] = Piece(e, t)
NearMore(e) == NearAlone(e) /\ NearTaken(e) /\ NearSeen(e) /\ NearAcked(e) /\ NearHeld(e)
\* A sender that returned has had a receiver in its step, if there was anything.
StartedInv ==
  \A e \in Links : Sends(e[1]) /\ host[e[1]] = "returned" /\ LastStep(e) # 0 => Cleared(e[2], seq[e[1]])

\* Two ends of which one serves are in the same step.
LEMMA ServeTogether ==
  ASSUME LaunchInv, NEW e \in Links, ~Gin(e), Serving(e) \/ Serving(Back(e))
  PROVE  Both(e)
<1>1. ASSUME NEW f \in Links, ~Gin(f), Serving(f)
      PROVE  /\ seq[f[1]] = seq[f[2]]
             /\ host[f[1]] \notin {"register", "reset"} /\ host[f[2]] \notin {"register", "reset"}
  <2>1. f[1] \in Ranks(d) /\ f[2] \in Ranks(d) /\ BlockOf(f) \in DOMAIN block /\ BlockOf(f)[1] = f[1]
    BY LinkParts DEF LaunchInv
  <2>2. host[f[1]] = "kernel"
    BY <1>1, <2>1 DEF Serving, Pc, LaunchInv, GateInv
  <2>3. Cleared(f[2], seq[f[1]])
    BY <1>1, ServingIsCleared DEF Serving
  <2>4. seq[f[1]] \in Nat /\ seq[f[2]] \in Nat
    BY <2>1 DEF LaunchInv, TypeInv
  <2>5. seq[f[2]] > 0 => Ended(f[1], seq[f[2]] - 1)
    BY <2>1 DEF LaunchInv, StepsInv
  <2>6. QED
    BY <2>2, <2>3, <2>4, <2>5 DEF Cleared, Ended
<1>2. TypeInv /\ Back(e) \in Links /\ Back(e)[1] = e[2] /\ Back(e)[2] = e[1] /\ ~Gin(Back(e))
  BY LinkParts DEF LaunchInv
<1>3. QED
  BY <1>1, <1>2 DEF Both

\* A step of no host and what the slots say.
LEMMA HoldsKept ==
  ASSUME Base, Base', Moving, NEW e \in Links, Near(e), NearTaken(e), NEW n, Holds(e, n), n \in Nat
  PROVE  Holds(e, n)'
<1>1. /\ Kept /\ d' = d /\ plan' = plan /\ DOMAIN host' = DOMAIN host
  BY EndsMove DEF Kept
<1>2. /\ Index(e)' = Index(e) /\ \A i : Fifo(e, i)' = Fifo(e, i)
      /\ \A i \in Index(e) : consumed[Fifo(e, i)] \in Nat
      /\ ~Gin(e)
  BY <1>1, NearFacts
<1>3. CASE n = 0
  BY <1>3 DEF Holds
<1>4. CASE n # 0 /\ \A i \in Index(e) : consumed'[Fifo(e, i)] = consumed[Fifo(e, i)]
  BY <1>2, <1>4 DEF Holds
<1>5. ASSUME n # 0, Serving(Back(e)), host[e[2]] = "kernel", ~error[e[2]],
             ToPost(Back(e)) \in Nat, NEW j \in Index(e),
             \A i \in Index(e) :
               consumed'[Fifo(e, i)] = IF i = j THEN ToPost(Back(e)) ELSE consumed[Fifo(e, i)]
      PROVE  Holds(e, n)'
  <2>1. PICK i \in Index(e) : n <= consumed[Fifo(e, i)]
    BY <1>5 DEF Holds
  <2>2. Both(e) /\ Begins(e[2])
    BY <1>2, <1>5, ServeTogether DEF Base, Begins
  <2>3. consumed[Fifo(e, i)] = 0 \/ consumed[Fifo(e, i)] < ToPost(Back(e))
    BY <1>5, <2>2 DEF NearTaken
  <2>4. n <= consumed'[Fifo(e, i)]
    BY <1>2, <1>5, <2>1, <2>3
  <2>5. QED
    BY <1>2, <2>1, <2>4 DEF Holds
<1>6. QED
  BY <1>3, <1>4, <1>5, WordsMove

LEMMA AloneMoves ==
  ASSUME Base, Base', Moving, NEW e \in Links, Near(e), NearAlone(e)
  PROVE  NearAlone(e)'
<1>1. /\ Kept /\ d' = d /\ plan' = plan /\ DOMAIN host' = DOMAIN host /\ host' = host /\ seq' = seq
  BY EndsMove DEF Kept
<1>2. /\ Index(e)' = Index(e) /\ \A i : Fifo(e, i)' = Fifo(e, i)
      /\ ~Gin(e) /\ Back(e)[1] = e[2]
  BY <1>1, NearFacts
<1>3. SUFFICES ASSUME host[e[1]] \notin {"idle", "register", "reset"}, ~Cleared(e[2], seq[e[1]])
               PROVE  \A i \in Index(e) : ready'[Fifo(e, i)] = 0 /\ consumed'[Fifo(e, i)] = 0
  BY <1>1, <1>2 DEF NearAlone, Cleared
<1>4. ~Serving(e) /\ ~Serving(Back(e))
  BY <1>2, <1>3, ServeTogether DEF Base, Both, Cleared
<1>5. QED
  BY <1>3, <1>4, WordsMove DEF NearAlone

LEMMA TakenMoves ==
  ASSUME Base, Base', Moving, NEW e \in Links, Near(e), NearTaken(e)
  PROVE  NearTaken(e)'
<1> DEFINE b == Back(e)
<1>1. /\ Kept /\ d' = d /\ plan' = plan /\ DOMAIN host' = DOMAIN host /\ host' = host /\ seq' = seq
  BY EndsMove DEF Kept
<1>2. /\ Index(e)' = Index(e) /\ \A i : Fifo(e, i)' = Fifo(e, i)
      /\ \A i \in Index(e) : consumed[Fifo(e, i)] \in Nat
      /\ ~Gin(e) /\ b[1] = e[2] /\ Back(e)' = b /\ b \in Links
      /\ ToCopy(b) \in Nat /\ ToCopy(b)' \in Nat
  BY <1>1, NearFacts
<1>3. ToCopy(b) <= ToCopy(b)'
  BY <1>2, EndsMove
<1>4. ~error'[e[2]] => /\ ~error[e[2]] /\ ToPost(b) \in Nat
                       /\ ToPost(b)' \in Nat /\ ToPost(b) <= ToPost(b)'
  <2>1. SUFFICES ASSUME ~error'[e[2]]
                 PROVE  ~error[e[2]] /\ ToPost(b) \in Nat /\ ToPost(b)' \in Nat /\ ToPost(b) <= ToPost(b)'
    OBVIOUS
  <2>2. ~error[e[2]] /\ (ToPost(b)' = ToPost(b) \/ Post(b))
    BY <1>2, <2>1, EndsMove
  <2>3. ToPost(b) \in Nat
    BY <1>2, <2>2, NumbersHold DEF NumbersInv, Numbers
  <2>4. Post(b) => ToPost(b)' = ToPost(b) + 1
    BY <1>2, <2>2, FarPublished
  <2>5. QED
    BY <2>2, <2>3, <2>4
<1>5. SUFFICES ASSUME Both(e), Begins(e[2]), NEW i \in Index(e)
               PROVE  /\ consumed'[Fifo(e, i)] < ToCopy(b)'
                      /\ ~error'[e[2]] => consumed'[Fifo(e, i)] = 0 \/ consumed'[Fifo(e, i)] < ToPost(b)'
  BY <1>1, <1>2 DEF NearTaken, Both, Begins
<1>6. CASE consumed'[Fifo(e, i)] = consumed[Fifo(e, i)]
  <2>1. /\ consumed[Fifo(e, i)] < ToCopy(b)
        /\ ~error[e[2]] => consumed[Fifo(e, i)] = 0 \/ consumed[Fifo(e, i)] < ToPost(b)
    BY <1>5 DEF NearTaken
  <2> HIDE DEF b
  <2>2. QED
    BY <1>2, <1>3, <1>4, <1>6, <2>1
<1>7. CASE /\ consumed'[Fifo(e, i)] = ToPost(b) /\ ToPost(b) \in Nat /\ ToPost(b) < ToCopy(b)
           /\ ToPost(b)' = ToPost(b) + 1
  <2> HIDE DEF b
  <2>1. QED
    BY <1>2, <1>3, <1>7
<1>8. QED
  BY <1>6, <1>7, WordsMove

LEMMA SeenMoves ==
  ASSUME Base, Base', Moving, NEW e \in Links, Near(e), NearTaken(e), NearSeen(e)
  PROVE  NearSeen(e)'
<1>1. /\ Kept /\ d' = d /\ plan' = plan /\ DOMAIN host' = DOMAIN host /\ host' = host /\ seq' = seq
  BY EndsMove DEF Kept
<1>2. /\ Index(e)' = Index(e) /\ \A i : Fifo(e, i)' = Fifo(e, i)
      /\ Sends(e[1]) /\ cache[e] \in Nat /\ cache'[e] \in Nat
      /\ \A i \in Index(e) : consumed[Fifo(e, i)] \in Nat
  BY <1>1, NearFacts
<1>3. SUFFICES ASSUME Begins(e[1]), lead'[e] # "out" \/ (~error'[e[1]] /\ ToCopy(e)' # 1)
               PROVE  Holds(e, cache[e])'
  BY <1>1 DEF NearSeen, Begins
<1>4. \A n \in Nat : Holds(e, n) => n = 0 \/ \E i \in Index(e) : n <= consumed'[Fifo(e, i)]
  <2>1. ASSUME NEW n \in Nat, Holds(e, n)
        PROVE  n = 0 \/ \E i \in Index(e) : n <= consumed'[Fifo(e, i)]
    <3>1. Holds(e, n)'
      BY <2>1, HoldsKept
    <3>2. QED
      BY <1>2, <3>1 DEF Holds
  <2>2. QED
    BY <2>1
<1>5. SUFFICES Holds(e, cache'[e])
  BY <1>2, <1>4 DEF Holds
<1>6. Loads(e)
  BY EndsMove
<1>7. CASE cache'[e] = 0
  BY <1>7 DEF Holds
<1>8. CASE cache'[e] = cache[e] /\ (lead'[e] # "out" => lead[e] # "out")
  <2>1. lead[e] # "out" \/ (~error[e[1]] /\ ToCopy(e) # 1)
    <3>1. CASE lead'[e] # "out"
      BY <1>8, <3>1
    <3>2. CASE ~error'[e[1]] /\ ToCopy(e)' # 1
      BY <3>2, EndsMove, CopiesPiece
    <3>3. QED
      BY <1>3, <3>1, <3>2
  <2>2. QED
    BY <1>3, <1>8, <2>1 DEF NearSeen
<1>9. CASE cache'[e] = Awaited(e).read /\ Serving(e) /\ ~Gin(e)
  <2>1. \E i \in Index(e) : Awaited(e).read = consumed[Fifo(e, i)]
    BY <1>2, <1>9, AwaitedIs DEF Base
  <2>2. QED
    BY <1>2, <1>9, <2>1 DEF Holds
<1>10. QED
  BY <1>6, <1>7, <1>8, <1>9 DEF Loads

LEMMA AckedMoves ==
  ASSUME Base, Base', Moving, NEW e \in Links, Near(e), NearTaken(e), NearAcked(e)
  PROVE  NearAcked(e)'
<1>1. /\ Kept /\ d' = d /\ plan' = plan /\ DOMAIN host' = DOMAIN host /\ host' = host /\ seq' = seq
  BY EndsMove DEF Kept
<1>2. LastStep(e)' = LastStep(e) /\ LastStep(e) \in Nat
  BY <1>1, PlanIsKept, NumbersHold DEF NumbersInv, Numbers
<1>3. SUFFICES ASSUME Holds(e, LastStep(e)) PROVE Holds(e, LastStep(e))'
  BY <1>1 DEF NearAcked, Both
<1>4. \A n \in Nat : Holds(e, n) => n = 0 \/ \E i \in Index(e)' : n <= consumed'[Fifo(e, i)']
  <2>1. ASSUME NEW n \in Nat, Holds(e, n)
        PROVE  n = 0 \/ \E i \in Index(e)' : n <= consumed'[Fifo(e, i)']
    <3>1. Holds(e, n)'
      BY <2>1, HoldsKept
    <3>2. QED
      BY <3>1 DEF Holds
  <2>2. QED
    BY <2>1
<1>5. QED
  BY <1>2, <1>3, <1>4 DEF Holds

\* What a receiver may take for ready it could take before, or the sender copies it now.
LEMMA ShownBefore ==
  ASSUME Base, Base', Moving, NEW e \in Links, Near(e), NearInv(e), NEW t \in Nat \ {0}, Shown(e, t)'
  PROVE  \/ Shown(e, t)
         \/ CopyOut(e) /\ t = ToCopy(e) /\ Runs(e[1])
<1> DEFINE b == Back(e)
<1>1. /\ Kept /\ d' = d /\ plan' = plan /\ DOMAIN host' = DOMAIN host /\ host' = host
  BY EndsMove DEF Kept
<1>2. /\ Index(e)' = Index(e) /\ \A i : Fifo(e, i)' = Fifo(e, i)
      /\ Back(e)' = b /\ b \in Links /\ Sends(e[1]) /\ ~Gin(e) /\ ~Gin(b) /\ ~Sends(e[2]) /\ b[1] = e[2]
      /\ Back(b) = e /\ Index(b) = Index(e)
      /\ ToCopy(e) \in Nat /\ ToCopy(e)' \in Nat /\ cache[b] \in Nat
      /\ \A i \in Index(e) : ready[Fifo(e, i)] \in Nat
  BY <1>1, NearFacts
<1>3. ASSUME NEW i \in Index(e), t <= ready'[Fifo(e, i)] PROVE Shown(e, t)
  <2>1. CASE ready'[Fifo(e, i)] = ready[Fifo(e, i)]
    BY <1>3, <2>1 DEF Shown
  <2>2. CASE /\ ready'[Fifo(e, i)] = ToPost(e) /\ ~error[e[1]] /\ host[e[1]] = "kernel"
             /\ ToPost(e) < ToCopy(e)
    <3>1. ToPost(e) \in Nat
      BY <2>2, NumbersHold DEF NumbersInv, Numbers
    <3>2. QED
      BY <1>2, <1>3, <2>2, <3>1 DEF Shown, Runs
  <2>3. QED
    BY <2>1, <2>2, WordsMove
<1>4. ASSUME lead'[b] # "out", t <= cache'[b] PROVE Shown(e, t)
  <2>1. Loads(b)
    BY <1>2, EndsMove
  <2>2. CASE cache'[b] = cache[b] /\ lead[b] # "out"
    BY <1>4, <2>2 DEF Shown
  <2>3. CASE cache'[b] = Awaited(b).read /\ Serving(b)
    <3>1. \E i \in Index(b) : Awaited(b).read = ready[Fifo(Back(b), i)]
      BY <1>2, <2>3, AwaitedIs DEF Base
    <3>2. QED
      BY <1>2, <1>4, <2>3, <3>1 DEF Shown
  <2>4. cache'[b] # 0
    BY <1>4
  <2>5. QED
    BY <1>4, <2>1, <2>2, <2>3, <2>4 DEF Loads
<1>5. ASSUME Runs(e[1])', t < ToCopy(e)'
      PROVE  Shown(e, t) \/ (CopyOut(e) /\ t = ToCopy(e) /\ Runs(e[1]))
  <2>1. Runs(e[1]) /\ (ToCopy(e)' = ToCopy(e) \/ CopyOut(e) \/ CopyIn(e))
    BY <1>1, <1>5, EndsMove DEF Runs
  <2>2. ~CopyIn(e)
    BY <1>2 DEF CopyIn
  <2>3. CopyOut(e) => ToCopy(e)' = ToCopy(e) + 1
    BY CopiesPiece
  <2>4. QED
    BY <1>2, <1>5, <2>1, <2>2, <2>3 DEF Shown
<1>6. QED
  BY <1>2, <1>3, <1>4, <1>5 DEF Shown

\* The steps a receiver may take for ready are copied.
LEMMA ShownIsCopied ==
  ASSUME Base, NEW e \in Links, Near(e), NearInv(e), Begins(e[1]), NEW t \in Nat, Shown(e, t)
  PROVE  t < ToCopy(e)
<1>1. /\ ToCopy(e) \in Nat /\ Back(e) \in Links
      /\ \A i \in Index(e) : ready[Fifo(e, i)] \in Nat
      /\ cache[Back(e)] \in Nat
  BY NumbersHold, LinkParts DEF NumbersInv, Numbers, Near, Base, LaunchInv
<1>2. QED
  BY <1>1 DEF NearInv, NearWords, NearCaches, Shown

\* Behind a step that the sender copies into its slot, the receiver is past
\* the step that was there.
LEMMA SlotIsTaken ==
  ASSUME Base, NEW e \in Links, Near(e), NearTaken(e), NearSeen(e), CopyOut(e), filled[e],
         NEW t \in Nat \ {0}, t < ToCopy(e), t % Depth(e) = ToCopy(e) % Depth(e), Both(e), Begins(e[2])
  PROVE  t < ToCopy(Back(e))
<1>1. /\ lead[e] = "copy" /\ host[e[1]] = "kernel" /\ Sends(e[1]) /\ ~Gin(e)
  BY CopiesPiece DEF Near
<1>2. /\ ToCopy(e) \in Nat /\ Depth(e) \in Nat \ {0} /\ cache[e] \in Nat /\ Back(e) \in Links
      /\ \A i \in Index(e) : consumed[Fifo(e, i)] \in Nat
  BY <1>1, NumbersHold, LinkParts DEF NumbersInv, Numbers, Base, LaunchInv
<1>3. ToCopy(Back(e)) \in Nat
  BY <1>2, NumbersHold DEF NumbersInv, Numbers
<1>4. t <= ToCopy(e) - Depth(e)
  BY <1>2, SameRemainder
<1>5. ToCopy(e) <= cache[e] + Depth(e)
  BY <1>1 DEF Base, EndsInv, EndInv, EndCopy, Known, Room
<1>6. t <= cache[e]
  BY <1>2, <1>4, <1>5
<1>7. Holds(e, cache[e])
  BY <1>1 DEF NearSeen, Begins
<1>8. PICK i \in Index(e) : cache[e] <= consumed[Fifo(e, i)]
  BY <1>2, <1>6, <1>7 DEF Holds
<1>9. consumed[Fifo(e, i)] < ToCopy(Back(e))
  BY DEF NearTaken
<1>10. QED
  BY <1>2, <1>3, <1>6, <1>8, <1>9

LEMMA PieceKept ==
  ASSUME d' = d, plan' = plan, DOMAIN host' = DOMAIN host, NEW e, seq'[e[1]] = seq[e[1]], NEW t
  PROVE  Piece(e, t)' = Piece(e, t)
BY WorksAreKept DEF Piece

LEMMA HeldMoves ==
  ASSUME StreamInv, MemoryTypes, Base', Moving,
         NEW e \in Links, Near(e), NearTaken(e), NearSeen(e), NearHeld(e)
  PROVE  NearHeld(e)'
<1> DEFINE b == Back(e)
<1>1. /\ Kept /\ d' = d /\ plan' = plan /\ DOMAIN host' = DOMAIN host /\ host' = host /\ seq' = seq
      /\ Base /\ NearInv(e)
  BY EndsMove DEF Kept, StreamInv, NearsInv
<1>2. /\ Index(e)' = Index(e) /\ Depth(e)' = Depth(e) /\ \A i : Lane(e, i)' = Lane(e, i)
      /\ Back(e)' = b /\ b \in Links /\ b[1] = e[2] /\ Owns(e) /\ Sends(e[1]) /\ ~Gin(e)
      /\ e[1] \in Ranks(d) /\ e[2] \in Ranks(d)
      /\ ToCopy(b) \in Nat /\ ToCopy(b)' \in Nat /\ ToCopy(e) \in Nat
  BY <1>1, NearFacts
<1>3. LastStep(e)' = LastStep(e) /\ LastStep(e) \in Nat
  BY <1>1, PlanIsKept, NumbersHold DEF NumbersInv, Numbers
<1>4. SUFFICES ASSUME Both(e), Live(e[2])', NEW t \in 1 .. LastStep(e), ToCopy(b)' <= t, Shown(e, t)'
               PROVE  payload'[Lane(e, t % Depth(e))] = Piece(e, t)
  <2>1. \A t : Piece(e, t)' = Piece(e, t)
    BY <1>1, PieceKept
  <2>2. Both(e)' <=> Both(e)
    BY <1>1 DEF Both
  <2> HIDE DEF b
  <2>3. QED
    BY <1>2, <1>3, <1>4, <2>1, <2>2 DEF NearHeld
<1>5. Live(e[2]) /\ Begins(e[2])
  BY <1>1, <1>2, <1>4 DEF Live, Begins, Kept
<1>6. ToCopy(b) <= t /\ t \in Nat \ {0} /\ t % Depth(e) \in Index(e)
  <2>1. ToCopy(b) <= ToCopy(b)'
    BY <1>1, <1>2, EndsMove
  <2>2. t % Depth(e) \in Index(e)
    BY <1>1, <1>3, IndexOf DEF Base, LaunchInv
  <2> HIDE DEF b
  <2>3. QED
    BY <1>2, <1>3, <1>4, <2>1, <2>2
<1>7. CASE ~CopyOut(e)
  <2>1. Shown(e, t)
    BY <1>1, <1>4, <1>6, <1>7, ShownBefore
  <2>2. payload[Lane(e, t % Depth(e))] = Piece(e, t)
    BY <1>4, <1>5, <1>6, <2>1 DEF NearHeld
  <2>3. payload'[Lane(e, t % Depth(e))] = payload[Lane(e, t % Depth(e))]
    <3>1. ASSUME NEW x \in Links, CopyOut(x)
          PROVE  payload'[Lane(e, t % Depth(e))] = payload[Lane(e, t % Depth(e))]
      BY <1>1, <1>2, <1>6, <1>7, <3>1, CopiedOut
    <3>2. ASSUME NEW x \in Links, CopyIn(x)
          PROVE  payload' = payload
      BY <3>2, CopiedIn DEF StreamInv
    <3>3. ASSUME NEW x \in Links, DeliverPut(x)
          PROVE  payload'[Lane(e, t % Depth(e))] = payload[Lane(e, t % Depth(e))]
      <4>1. Far(x) /\ \A f \in Links : Owns(f) => \A i \in Index(f) :
              payload'[Lane(f, i)] = IF f = Back(x) /\ i = (readySignal[x] + 1) % Depth(x)
                                     THEN payload[Lane(x, i)] ELSE payload[Lane(f, i)]
        BY <3>3, PutMade DEF StreamInv
      <4>2. e # Back(x)
        BY <1>1, <1>2, <4>1, LinkParts DEF Far, Base, LaunchInv
      <4>3. QED
        BY <1>2, <1>6, <4>1, <4>2
    <3>4. QED
      BY <3>1, <3>2, <3>3, MemoryRests
  <2>4. QED
    BY <2>2, <2>3
<1>8. CASE CopyOut(e)
  <2>1. /\ Begins(e[1]) /\ ToCopy(e) \in 1 .. LastStep(e)
        /\ payload'[Lane(e, t % Depth(e))] =
             IF filled[e] /\ t % Depth(e) = ToCopy(e) % Depth(e)
             THEN Piece(e, ToCopy(e)) ELSE payload[Lane(e, t % Depth(e))]
    BY <1>1, <1>2, <1>6, <1>8, CopiedOut, CopiesPiece DEF Begins
  <2>2. CASE t = ToCopy(e)
    <3>1. ~Shown(e, t)
      BY <1>1, <1>2, <1>6, <2>1, <2>2, ShownIsCopied
    <3>2. Runs(e[1])
      BY <1>1, <1>4, <1>6, <3>1, ShownBefore
    <3>3. filled[e]
      BY <1>1, <3>2 DEF Runs, Base, EndsInv, EndInv, EndShape
    <3>4. QED
      BY <2>1, <2>2, <3>3
  <2>3. CASE t # ToCopy(e)
    <3>1. Shown(e, t)
      BY <1>1, <1>4, <1>6, <2>3, ShownBefore
    <3>2. t < ToCopy(e)
      BY <1>1, <1>6, <2>1, <3>1, ShownIsCopied
    <3>3. ~(filled[e] /\ t % Depth(e) = ToCopy(e) % Depth(e))
      <4>1. ASSUME filled[e], t % Depth(e) = ToCopy(e) % Depth(e)
            PROVE  t < ToCopy(b)
        BY <1>1, <1>4, <1>5, <1>6, <1>8, <3>2, <4>1, SlotIsTaken
      <4> HIDE DEF b
      <4>2. QED
        BY <1>2, <1>6, <4>1
    <3>4. payload[Lane(e, t % Depth(e))] = Piece(e, t)
      BY <1>4, <1>5, <1>6, <3>1 DEF NearHeld
    <3>5. QED
      BY <2>1, <3>3, <3>4
  <2>4. QED
    BY <2>2, <2>3
<1>9. QED
  BY <1>7, <1>8

-----------------------------------------------------------------------------
(***************************************************************************)
(* The hosts' calls and a stream over the window of the sender.            *)
(***************************************************************************)
LEMMA HostCalls ==
  ASSUME LaunchInv, NEW r \in Ranks(d), HostStep(r)
  PROVE  /\ host'[r] \notin {"register", "reset"} => seq' = seq
         /\ host'[r] \notin {"register", "reset"} /\ ~Reset(r) => host[r] \notin {"idle", "register", "reset"}
         /\ host'[r] # "threw" => error[r] \/ ~error'[r] \/ host'[r] = "kernel"
         /\ Reset(r) => host[r] = "reset" /\ host'[r] \in {"barrier", "kernel"} /\ ~error'[r]
         /\ host'[r] \in {"barrier", "kernel"} => Reset(r) \/ (host[r] = "barrier" /\ (error[r] => error'[r]))
         /\ host'[r] = "returned" => Synchronize(r) /\ host[r] = "kernel" /\ ~error[r]
         /\ host'[r] = "idle" => host[r] = "returned"
         /\ host'[r] = "threw" => Synchronize(r) /\ host[r] = "kernel" /\ error[r]
         /\ host[r] = "kernel" => Synchronize(r)
         /\ ~Reset(r) => UNCHANGED <<fifo, gin>>
<1>1. /\ host \in [Ranks(d) -> HostPlaces] /\ seq \in [Ranks(d) -> Nat]
      /\ error \in [Ranks(d) -> BOOLEAN]
  BY DEF LaunchInv, TypeInv
<1>2. CASE Launch(r)
  BY <1>1, <1>2 DEF Launch, Reset, gin, fifo
<1>3. CASE Register(r)
  BY <1>1, <1>3 DEF Register, Reset, gin, fifo
<1>4. CASE Reset(r)
  <2>1. host'[r] \in {"barrier", "kernel"} /\ host[r] = "reset" /\ seq' = seq /\ ~error'[r]
    BY <1>1, <1>4 DEF Reset
  <2>2. QED
    BY <1>4, <2>1
<1>5. CASE GinBarrier(r)
  <2>1. host'[r] = "kernel" /\ host[r] = "barrier" /\ seq' = seq /\ (error[r] => error'[r])
        /\ UNCHANGED <<fifo, gin>>
    BY <1>1, <1>5 DEF GinBarrier
  <2>2. ~Reset(r)
    BY <2>1 DEF Reset
  <2>3. QED
    BY <2>1, <2>2
<1>6. CASE Synchronize(r)
  BY <1>1, <1>6 DEF Synchronize, Reset, gin, fifo
<1>7. CASE Complete(r)
  BY <1>1, <1>7 DEF Complete, Reset, gin, fifo
<1>8. QED
  BY <1>2, <1>3, <1>4, <1>5, <1>6, <1>7 DEF HostStep

\* Two ends that are in the same step were so before, or one of them has
\* just cleared its window.
LEMMA BothBefore ==
  ASSUME LaunchInv, StateTypes, NEW r \in Ranks(d), HostStep(r), NEW e \in Links, Both(e)'
  PROVE  /\ seq'[e[1]] = seq[e[1]] /\ seq'[e[2]] = seq[e[2]] /\ seq[e[1]] = seq[e[2]]
         /\ Both(e) \/ (Reset(r) /\ r \in {e[1], e[2]})
         /\ Reset(r) /\ r = e[1] => ~Both(e) /\ host[e[2]] \notin {"idle", "register", "reset"}
         /\ Reset(r) /\ r = e[2] => ~Both(e) /\ host[e[1]] \notin {"idle", "register", "reset"}
<1>1. e[1] \in Ranks(d) /\ e[2] \in Ranks(d) /\ e[1] # e[2] /\ TypeInv
  BY LinkParts DEF LaunchInv
<1>2. \A q \in Ranks(d) \ {r} : host'[q] = host[q] /\ seq'[q] = seq[q]
  BY HostFrame
<1>3. \A q \in Ranks(d) : host[q] = "idle" => Ended(e[1], seq[q]) /\ Ended(e[2], seq[q])
  BY <1>1 DEF LaunchInv, StepsInv
<1>4. seq \in [Ranks(d) -> Nat]
  BY <1>1 DEF TypeInv
<1>5. CASE r = e[1]
  BY <1>1, <1>2, <1>3, <1>4, <1>5, HostCalls DEF Both, Ended
<1>6. CASE r = e[2]
  BY <1>1, <1>2, <1>3, <1>4, <1>6, HostCalls DEF Both, Ended
<1>7. CASE r # e[1] /\ r # e[2]
  BY <1>1, <1>2, <1>7 DEF Both
<1>8. QED
  BY <1>5, <1>6, <1>7

LEMMA HostWords ==
  ASSUME Base, Base', NEW r \in Ranks(d), HostStep(r), NEW e \in Links, Near(e)
  PROVE  /\ Reset(r) /\ r = e[1] =>
              \A i \in Index(e) : ready'[Fifo(e, i)] = 0 /\ consumed'[Fifo(e, i)] = 0
         /\ ~(Reset(r) /\ r = e[1]) =>
              \A i \in Index(e) : /\ ready'[Fifo(e, i)] = ready[Fifo(e, i)]
                                  /\ consumed'[Fifo(e, i)] = consumed[Fifo(e, i)]
<1>1. \A i \in Index(e) : Fifo(e, i) \in Slots /\ Fifo(e, i)[1] = e[1]
  BY FifoIsSlot DEF Near, Base, LaunchInv, Fifo
<1>2. DOMAIN ready = Slots
  BY DEF Base, StateTypes, ShareTypes
<1>3. CASE Reset(r) /\ r = e[1]
  BY <1>1, <1>2, <1>3 DEF Reset
<1>4. CASE ~Reset(r)
  BY <1>4, HostCalls DEF Base, fifo
<1>5. CASE r # e[1]
  BY <1>1, <1>5, HostFrame DEF Base
<1>6. QED
  BY <1>3, <1>4, <1>5

LEMMA AloneCalls ==
  ASSUME Base, Base', NEW r \in Ranks(d), HostStep(r), NEW e \in Links, Near(e), NearAlone(e)
  PROVE  NearAlone(e)'
<1>1. /\ e[1] \in Ranks(d) /\ e[2] \in Ranks(d) /\ seq \in [Ranks(d) -> Nat] /\ TypeInv /\ LaunchInv
      /\ d' = d /\ plan' = plan /\ DOMAIN host' = DOMAIN host
  BY LinkParts, HostsMove DEF Base, LaunchInv, TypeInv
<1>2. Index(e)' = Index(e) /\ \A i : Fifo(e, i)' = Fifo(e, i)
  BY <1>1, NearFacts
<1>3. SUFFICES ASSUME host'[e[1]] \notin {"idle", "register", "reset"}, ~Cleared(e[2], seq[e[1]])'
               PROVE  \A i \in Index(e) : ready'[Fifo(e, i)] = 0 /\ consumed'[Fifo(e, i)] = 0
  BY <1>2 DEF NearAlone
<1>4. CASE Reset(r) /\ r = e[1]
  BY <1>4, HostWords
<1>5. CASE ~(Reset(r) /\ r = e[1])
  <2>1. host[e[1]] \notin {"idle", "register", "reset"} /\ seq'[e[1]] = seq[e[1]]
    BY <1>1, <1>3, <1>5, HostCalls, HostFrame DEF Base
  <2>2. ~Cleared(e[2], seq[e[1]])
    <3>1. seq[e[1]] \in Int
      BY <1>1
    <3>2. Cleared(e[2], seq[e[1]]) => Cleared(e[2], seq[e[1]])'
      <4> DEFINE n == seq[e[1]]
      <4>1. Cleared(e[2], n) => seq'[e[2]] > n \/ (seq'[e[2]] = n /\ host'[e[2]] \notin {"register", "reset"})
        <5>1. ASSUME NEW m \in Int, Cleared(e[2], m)
              PROVE  seq'[e[2]] > m \/ (seq'[e[2]] = m /\ host'[e[2]] \notin {"register", "reset"})
          <6>1. Cleared(e[2], m)'
            BY <1>1, <5>1, OnceCleared
          <6>2. QED
            BY <6>1 DEF Cleared
        <5>2. QED
          BY <3>1, <5>1
      <4>2. QED
        BY <2>1, <4>1 DEF Cleared
    <3>3. QED
      BY <1>3, <3>2
  <2>3. QED
    BY <1>5, <2>1, <2>2, HostWords DEF NearAlone
<1>6. QED
  BY <1>4, <1>5

\* A receiver that clears its window for a step finds the slots empty.
LEMMA EmptyAtReset ==
  ASSUME Base, NEW e \in Links, NEW r \in Ranks(d), HostStep(r), Reset(r), r = e[2], Both(e)',
         Near(e), NearAlone(e)
  PROVE  \A i \in Index(e) : ready[Fifo(e, i)] = 0 /\ consumed[Fifo(e, i)] = 0
<1>1. host[e[1]] \notin {"idle", "register", "reset"} /\ seq[e[1]] = seq[e[2]] /\ host[e[2]] = "reset"
  BY BothBefore, HostCalls DEF Base
<1>2. seq[e[1]] \in Nat
  BY LinkParts DEF Base, LaunchInv, TypeInv
<1>3. ~Cleared(e[2], seq[e[1]])
  BY <1>1, <1>2 DEF Cleared
<1>4. QED
  BY <1>1, <1>3 DEF NearAlone

LEMMA TakenCalls ==
  ASSUME Base, Base', NEW r \in Ranks(d), HostStep(r), NEW e \in Links, Near(e),
         NearAlone(e), NearTaken(e)
  PROVE  NearTaken(e)'
<1> DEFINE b == Back(e)
<1>1. d' = d /\ plan' = plan /\ DOMAIN host' = DOMAIN host
  BY HostsMove
<1>2. /\ Index(e)' = Index(e) /\ \A i : Fifo(e, i)' = Fifo(e, i)
      /\ \A i \in Index(e) : consumed[Fifo(e, i)] \in Nat
      /\ b[1] = e[2] /\ Back(e)' = b /\ b \in Links /\ e[1] # e[2] /\ e[1] \in Ranks(d) /\ e[2] \in Ranks(d)
      /\ ToCopy(b) \in Nat \ {0} /\ ToCopy(b)' \in Nat \ {0}
  BY <1>1, NearFacts
<1>3. SUFFICES ASSUME Both(e)', Begins(e[2])', NEW i \in Index(e)
               PROVE  /\ consumed'[Fifo(e, i)] < ToCopy(b)'
                      /\ ~error'[e[2]] => consumed'[Fifo(e, i)] = 0 \/ consumed'[Fifo(e, i)] < ToPost(b)'
  BY <1>2 DEF NearTaken
<1>4. CASE consumed'[Fifo(e, i)] = 0
  BY <1>2, <1>4
<1>5. CASE Reset(r) /\ r = e[1]
  BY <1>4, <1>5, HostWords
<1>6. CASE ~(Reset(r) /\ r = e[1])
  <2>1. consumed'[Fifo(e, i)] = consumed[Fifo(e, i)]
    BY <1>6, HostWords
  <2>2. CASE r # e[2]
    <3>1. Both(e) /\ Begins(e[2])
      BY <1>2, <1>3, <1>6, <2>2, BothBefore, HostFrame DEF Begins, Base
    <3>2. Still(b) /\ error'[e[2]] = error[e[2]]
      BY <1>2, <2>2, HostsMove
    <3>3. QED
      BY <1>3, <2>1, <3>1, <3>2 DEF NearTaken, Still
  <2>3. CASE r = e[2] /\ Reset(r)
    BY <1>2, <1>3, <1>4, <2>1, <2>3, EmptyAtReset
  <2>4. CASE r = e[2] /\ ~Reset(r)
    <3>1. host[r] = "barrier"
      BY <1>3, <2>4, HostCalls DEF Base, Begins
    <3>2. Both(e)
      BY <1>3, <2>4, BothBefore DEF Base
    <3>3. ToCopy(b) = 1
      BY <1>2, <2>4, <3>1, HostsMove
    <3>4. consumed[Fifo(e, i)] < ToCopy(b)
      BY <1>3, <2>4, <3>1, <3>2 DEF NearTaken, Begins
    <3> HIDE DEF b
    <3>5. consumed[Fifo(e, i)] = 0
      BY <1>2, <3>3, <3>4
    <3>6. QED
      BY <1>4, <2>1, <3>5
  <2>5. QED
    BY <2>2, <2>3, <2>4
<1>7. QED
  BY <1>5, <1>6

LEMMA SeenCalls ==
  ASSUME Base, Base', NEW r \in Ranks(d), HostStep(r), NEW e \in Links, Near(e), NearSeen(e)
  PROVE  NearSeen(e)'
<1>1. d' = d /\ plan' = plan /\ DOMAIN host' = DOMAIN host
  BY HostsMove
<1>2. Index(e)' = Index(e) /\ \A i : Fifo(e, i)' = Fifo(e, i)
  BY <1>1, NearFacts
<1>3. CASE r = e[1]
  BY <1>3, HostsMove DEF NearSeen
<1>4. CASE r # e[1]
  <2>1. /\ cache'[e] = cache[e] /\ lead'[e] = lead[e] /\ ToCopy(e)' = ToCopy(e)
        /\ host'[e[1]] = host[e[1]] /\ error'[e[1]] = error[e[1]]
    BY <1>4, HostsMove DEF Still
  <2>2. \A i \in Index(e) : consumed'[Fifo(e, i)] = consumed[Fifo(e, i)]
    BY <1>4, HostWords
  <2>3. QED
    BY <1>2, <2>1, <2>2 DEF NearSeen, Begins, Holds
<1>5. QED
  BY <1>3, <1>4

\* A sender that returns has done the final wait, or had nothing to send.
LEMMA DoneAtReturn ==
  ASSUME Base, Base', NEW e \in Links, Sends(e[1]), HostStep(e[1]), host'[e[1]] = "returned"
  PROVE  /\ host[e[1]] = "kernel" /\ ~error[e[1]] /\ ToCopy(e) = LastStep(e) + 1
         /\ LastStep(e) \in Nat /\ LastStep(e) <= Known(e)
<1>1. e[1] \in Ranks(d)
  BY LinkParts DEF Base, LaunchInv
<1>2. host[e[1]] = "kernel" /\ ~error[e[1]]
  BY <1>1, HostCalls DEF Base
<1>3. lead[e] = "out" /\ ToCopy(e) = LastStep(e) + 1
  BY <1>1, <1>2, HostsMove
<1>4. EndDone(e) /\ LastStep(e) \in Nat
  BY NumbersHold DEF Base, EndsInv, EndInv, NumbersInv, Numbers
<1>5. QED
  BY <1>2, <1>3, <1>4 DEF EndDone

LEMMA AckedCalls ==
  ASSUME Base, Base', StartedInv, NEW r \in Ranks(d), HostStep(r), NEW e \in Links, Near(e),
         NearSeen(e), NearAcked(e)
  PROVE  NearAcked(e)'
<1>1. /\ d' = d /\ plan' = plan /\ DOMAIN host' = DOMAIN host
      /\ e[1] \in Ranks(d) /\ e[2] \in Ranks(d) /\ e[1] # e[2]
      /\ seq \in [Ranks(d) -> Nat]
  BY HostsMove, LinkParts DEF Base, LaunchInv, TypeInv
<1>2. /\ Index(e)' = Index(e) /\ \A i : Fifo(e, i)' = Fifo(e, i)
      /\ Sends(e[1]) /\ ~Gin(e) /\ cache[e] \in Nat
      /\ \A i \in Index(e) : consumed[Fifo(e, i)] \in Nat
  BY <1>1, NearFacts
<1>3. LastStep(e)' = LastStep(e) /\ LastStep(e) \in Nat
  BY <1>1, PlanIsKept, NumbersHold DEF NumbersInv, Numbers
<1>4. SUFFICES ASSUME host'[e[1]] \in {"returned", "idle"}, seq'[e[1]] > 0, Both(e)', LastStep(e) # 0
               PROVE  \E i \in Index(e) : LastStep(e) <= consumed'[Fifo(e, i)]
  BY <1>2, <1>3 DEF NearAcked, Holds
<1>5. ~(Reset(r) /\ r = e[1])
  BY <1>4, HostCalls DEF Base
<1>6. \A i \in Index(e) : consumed'[Fifo(e, i)] = consumed[Fifo(e, i)]
  BY <1>5, HostWords
<1>7. CASE host[e[1]] \in {"returned", "idle"} /\ Both(e)
  <2>1. seq[e[1]] > 0
    BY <1>4, BothBefore DEF Base
  <2>2. Holds(e, LastStep(e))
    BY <1>7, <2>1 DEF NearAcked
  <2>3. QED
    BY <1>4, <1>6, <2>2 DEF Holds
<1>8. CASE host[e[1]] \in {"returned", "idle"} /\ ~Both(e)
  <2>1. Reset(r) /\ r = e[2] /\ host[e[1]] = "returned" /\ seq[e[1]] = seq[e[2]]
    BY <1>4, <1>5, <1>8, BothBefore DEF Base
  <2>2. Cleared(e[2], seq[e[1]])
    BY <1>2, <1>4, <2>1 DEF StartedInv
  <2>3. host[e[2]] = "reset"
    BY <2>1, HostCalls DEF Base
  <2>4. QED
    BY <1>1, <2>1, <2>2, <2>3 DEF Cleared
<1>9. CASE host[e[1]] \notin {"returned", "idle"}
  <2>1. r = e[1] /\ host'[r] = "returned"
    BY <1>1, <1>4, <1>9, HostCalls, HostFrame DEF Base
  <2>2. /\ host[e[1]] = "kernel" /\ ~error[e[1]] /\ ToCopy(e) = LastStep(e) + 1
        /\ LastStep(e) <= Known(e)
    BY <1>2, <2>1, DoneAtReturn
  <2>3. LastStep(e) <= cache[e]
    BY <1>2, <2>2 DEF Known
  <2>4. Holds(e, cache[e])
    BY <1>3, <1>4, <2>2 DEF NearSeen, Begins
  <2>5. \E i \in Index(e) : cache[e] <= consumed[Fifo(e, i)]
    BY <1>2, <1>3, <1>4, <2>3, <2>4 DEF Holds
  <2>6. QED
    BY <1>2, <1>3, <1>6, <2>3, <2>5
<1>10. QED
  BY <1>7, <1>8, <1>9

LEMMA HeldCalls ==
  ASSUME StreamInv, Base', NEW r \in Ranks(d), HostStep(r),
         NEW e \in Links, Near(e), NearAlone(e), NearHeld(e)
  PROVE  NearHeld(e)'
<1> DEFINE b == Back(e)
<1>1. Base /\ d' = d /\ plan' = plan /\ DOMAIN host' = DOMAIN host /\ payload' = payload
  BY HostsMove DEF StreamInv
<1>2. /\ Index(e)' = Index(e) /\ Depth(e)' = Depth(e)
      /\ \A i : Fifo(e, i)' = Fifo(e, i) /\ Lane(e, i)' = Lane(e, i)
      /\ \A i \in Index(e) : ready[Fifo(e, i)] \in Nat
      /\ Back(e)' = b /\ b \in Links /\ b[1] = e[2] /\ b[2] = e[1]
      /\ e[1] \in Ranks(d) /\ e[2] \in Ranks(d) /\ e[1] # e[2]
      /\ ToCopy(b) \in Nat \ {0} /\ ToCopy(b)' \in Nat \ {0} /\ ToCopy(e) \in Nat \ {0}
      /\ cache[b] \in Nat
  BY <1>1, NearFacts
<1>3. LastStep(e)' = LastStep(e) /\ LastStep(e) \in Nat
  BY <1>1, PlanIsKept, NumbersHold DEF NumbersInv, Numbers
<1>4. SUFFICES ASSUME Both(e)', Live(e[2])', NEW t \in 1 .. LastStep(e), ToCopy(b)' <= t, Shown(e, t)'
               PROVE  payload[Lane(e, t % Depth(e))] = Piece(e, t)
  <2>1. Both(e)' => seq'[e[1]] = seq[e[1]]
    BY <1>1, BothBefore DEF Base
  <2>2. \A t : Both(e)' => Piece(e, t)' = Piece(e, t)
    BY <1>1, <2>1, PieceKept
  <2> HIDE DEF b
  <2>3. QED
    BY <1>1, <1>2, <1>3, <1>4, <2>2 DEF NearHeld
<1>5. t \in Nat \ {0}
  BY <1>3, <1>4
<1>6. \/ \E i \in Index(e) : t <= ready'[Fifo(e, i)]
      \/ lead'[b] # "out" /\ t <= cache'[b]
      \/ Runs(e[1])' /\ t < ToCopy(e)'
  BY <1>2, <1>4 DEF Shown
<1>7. SUFFICES ASSUME ~Reset(r) \/ r \notin {e[1], e[2]}
               PROVE  payload[Lane(e, t % Depth(e))] = Piece(e, t)
  <2>1. ~(Reset(r) /\ r = e[1])
    <3>1. ASSUME Reset(r), r = e[1] PROVE FALSE
      <4>1. \A i \in Index(e) : ready'[Fifo(e, i)] = 0
        BY <3>1, HostWords, <1>1
      <4>2. ToCopy(e)' = 1
        BY <1>1, <3>1, HostsMove
      <4>3. lead[b] = "out"
        <5>1. host[e[1]] = "reset"
          BY <1>1, <3>1, HostCalls DEF Base
        <5>2. QED
          BY <1>1, <5>1, ReceiverWaits DEF StreamInv
      <4>4. lead'[b] = lead[b]
        BY <1>1, <1>2, <3>1, HostsMove DEF Still
      <4> HIDE DEF b
      <4>5. QED
        BY <1>5, <1>6, <4>1, <4>2, <4>3, <4>4
    <3>2. QED
      BY <3>1
  <2>2. ~(Reset(r) /\ r = e[2])
    <3>1. ASSUME Reset(r), r = e[2] PROVE FALSE
      <4>1. \A i \in Index(e) : ready'[Fifo(e, i)] = 0
        BY <1>1, <1>2, <1>4, <3>1, HostWords, EmptyAtReset
      <4>2. lead'[b] = "out"
        BY <1>1, <1>2, <3>1, HostsMove
      <4>3. Runs(e[1])' => ToCopy(e)' = 1
        <5>1. /\ ToCopy(e)' = ToCopy(e) /\ host'[e[1]] = host[e[1]] /\ error'[e[1]] = error[e[1]]
          BY <1>1, <1>2, <3>1, HostsMove DEF Still
        <5>2. host[e[2]] = "reset" /\ seq[e[1]] = seq[e[2]]
          BY <1>1, <1>4, <3>1, HostCalls, BothBefore DEF Base
        <5>3. seq[e[1]] \in Nat
          BY <1>1, <1>2 DEF Base, LaunchInv, TypeInv
        <5>4. ~Cleared(e[2], seq[e[1]])
          BY <5>2, <5>3 DEF Cleared
        <5>5. ~error[e[1]] => ToCopy(e) = 1
          BY <5>4 DEF StreamInv, BegunInv
        <5>6. QED
          BY <5>1, <5>5 DEF Runs
      <4> HIDE DEF b
      <4>4. QED
        BY <1>5, <1>6, <4>1, <4>2, <4>3
    <3>2. QED
      BY <3>1
  <2>3. QED
    BY <1>7, <2>1, <2>2
<1>8. Both(e)
  BY <1>1, <1>4, <1>7, BothBefore DEF Base
<1>9. Live(e[2]) /\ ToCopy(b) = ToCopy(b)' /\ (lead'[b] # "out" => lead[b] # "out" /\ cache'[b] = cache[b])
  <2>1. CASE r = e[2]
    <3>1. host[r] = "barrier" /\ ~error[r]
      BY <1>1, <1>4, <1>7, <2>1, HostCalls DEF Live, Begins, Base
    <3>2. ToCopy(b) = 1 /\ ToCopy(b)' = 1 /\ lead'[b] = "out"
      BY <1>1, <1>2, <2>1, <3>1, HostsMove
    <3>3. QED
      BY <2>1, <3>1, <3>2 DEF Live, Begins
  <2>2. CASE r # e[2]
    BY <1>1, <1>2, <1>4, <2>2, HostsMove DEF Still, Live, Begins
  <2>3. QED
    BY <2>1, <2>2
<1>10. \A i \in Index(e) : ready'[Fifo(e, i)] = ready[Fifo(e, i)]
  BY <1>1, <1>7, HostWords
<1>11. Runs(e[1])' /\ t < ToCopy(e)' => Runs(e[1]) /\ t < ToCopy(e)
  <2>1. CASE r = e[1]
    <3>1. ToCopy(e)' = 1
      BY <1>1, <2>1, HostsMove
    <3>2. QED
      BY <1>5, <3>1
  <2>2. CASE r # e[1]
    BY <1>1, <2>2, HostsMove DEF Still, Runs
  <2>3. QED
    BY <2>1, <2>2
<1>12. Shown(e, t)
  BY <1>6, <1>9, <1>10, <1>11 DEF Shown
<1>13. QED
  BY <1>4, <1>8, <1>9, <1>12 DEF NearHeld

LEMMA StartedKept ==
  ASSUME StreamInv, Base', StartedInv, [Next]_vars
  PROVE  StartedInv'
<1>1. Base /\ TypeInv /\ d' = d /\ plan' = plan /\ DOMAIN host' = DOMAIN host /\ Links' = Links
  BY EndsKept DEF StreamInv, Base, LaunchInv
<1>2. SUFFICES ASSUME NEW e \in Links, Sends(e[1]), host'[e[1]] = "returned", LastStep(e) # 0
               PROVE  seq'[e[2]] > seq'[e[1]] \/
                        (seq'[e[2]] = seq'[e[1]] /\ host'[e[2]] \notin {"register", "reset"})
  BY <1>1, PlanIsKept DEF StartedInv, Cleared
<1>3. /\ e[1] \in Ranks(d) /\ e[2] \in Ranks(d) /\ seq \in [Ranks(d) -> Nat] /\ LastStep(e) \in Nat
  BY <1>1, LinkParts, NumbersHold DEF TypeInv, NumbersInv, Numbers
<1>4. CASE Moving
  <2>1. host' = host /\ seq' = seq
    BY <1>1, <1>2, <1>4, EndsMove DEF Kept
  <2>2. QED
    BY <1>2, <2>1 DEF StartedInv, Cleared
<1>5. ASSUME NEW r \in Ranks(d), HostStep(r)
      PROVE  seq'[e[2]] > seq'[e[1]] \/
               (seq'[e[2]] = seq'[e[1]] /\ host'[e[2]] \notin {"register", "reset"})
  <2>1. Cleared(e[2], seq[e[1]]) /\ seq'[e[1]] = seq[e[1]]
    <3>1. CASE r = e[1]
      <4>1. ~error[e[1]] /\ ToCopy(e) = LastStep(e) + 1
        BY <1>1, <1>2, <1>5, <3>1, DoneAtReturn
      <4>2. ToCopy(e) # 1
        BY <1>2, <1>3, <4>1
      <4>3. seq' = seq
        BY <1>1, <1>2, <1>5, <3>1, HostCalls DEF Base
      <4>4. QED
        BY <4>1, <4>2, <4>3 DEF StreamInv, BegunInv
    <3>2. CASE r # e[1]
      <4>1. host'[e[1]] = host[e[1]] /\ seq'[e[1]] = seq[e[1]]
        BY <1>1, <1>5, <3>2, HostsMove
      <4>2. QED
        BY <1>2, <4>1 DEF StartedInv
    <3>3. QED
      BY <3>1, <3>2
  <2>2. \A n \in Int : Cleared(e[2], n) =>
          seq'[e[2]] > n \/ (seq'[e[2]] = n /\ host'[e[2]] \notin {"register", "reset"})
    <3>1. ASSUME NEW n \in Int, Cleared(e[2], n)
          PROVE  seq'[e[2]] > n \/ (seq'[e[2]] = n /\ host'[e[2]] \notin {"register", "reset"})
      <4>1. Cleared(e[2], n)'
        BY <1>1, <1>3, <1>5, <3>1, OnceCleared
      <4>2. QED
        BY <4>1 DEF Cleared
    <3>2. QED
      BY <3>1
  <2>3. QED
    BY <1>3, <2>1, <2>2
<1>6. QED
  BY <1>1, <1>4, <1>5, StepsMove

LEMMA NearMoreKept ==
  ASSUME StreamInv, Base', MemoryTypes, StartedInv, [Next]_vars, NEW e \in Links, Near(e), NearMore(e)
  PROVE  NearMore(e)'
<1>1. Base
  BY DEF StreamInv
<1>2. CASE Moving
  BY <1>1, <1>2, AloneMoves, TakenMoves, SeenMoves, AckedMoves, HeldMoves DEF NearMore
<1>3. ASSUME NEW r \in Ranks(d), HostStep(r) PROVE NearMore(e)'
  BY <1>1, <1>3, AloneCalls, TakenCalls, SeenCalls, AckedCalls, HeldCalls DEF NearMore
<1>4. QED
  BY <1>1, <1>2, <1>3, StepsMove

-----------------------------------------------------------------------------
(***************************************************************************)
(* A stream over the network: what is credited is copied, and what the     *)
(* slots on both sides hold.                                               *)
(***************************************************************************)
FarTaken(e) == Both(e) /\ Begins(e[2]) => Due(e) < ToCopy(Back(e))
FarAcked(e) ==
  host[e[1]] \in {"returned", "idle"} /\ seq[e[1]] > 0 /\ Both(e) => LastStep(e) <= creditSignal[Back(e)]
\* What has yet to arrive is in the sender's slots, and what has arrived and
\* is not copied in the receiver's.
FarStays(e) ==
  Both(e) => \A t \in 1 .. LastStep(e) :
    readySignal[e] < t /\ (t <= Given(e) \/ (Runs(e[1]) /\ t < ToCopy(e))) =>
      payload[Lane(e, t % Depth(e))] = Piece(e, t)
FarHeld(e) ==
  Both(e) /\ Live(e[2]) => \A t \in 1 .. LastStep(e) :
    ToCopy(Back(e)) <= t /\ t <= readySignal[e] =>
      payload[Lane(Back(e), t % Depth(e))] = Piece(e, t)
FarMore(e) == FarTaken(e) /\ FarAcked(e) /\ FarStays(e) /\ FarHeld(e)

\* What a step of no host makes of the messages of such a stream.
LEMMA MessagesMove ==
  ASSUME StreamInv, Base', MemoryTypes, Moving, NEW e \in Links, Far(e)
  PROVE  /\ \/ puts'[e] = puts[e]
            \/ Post(e) /\ Runs(e[1]) /\ Len(puts'[e]) = Len(puts[e]) + 1
            \/ DeliverPut(e) /\ Len(puts'[e]) = Len(puts[e]) - 1
         /\ readySignal'[e] = IF DeliverPut(e) THEN readySignal[e] + 1 ELSE readySignal[e]
         /\ creditSignal[Back(e)] <= creditSignal'[Back(e)]
         /\ error'[e[2]] => Due(e)' = Due(e)
<1> DEFINE b == Back(e)
<1>1. Base /\ d' = d /\ plan' = plan /\ DOMAIN host' = DOMAIN host /\ QueuesInv /\ FarsInv
  BY EndsMove DEF Kept, StreamInv
<1>2. /\ b \in Links /\ Gin(e) /\ Gin(b) /\ Sends(e[1]) /\ ~Sends(b[1]) /\ b[1] = e[2] /\ Back(e)' = b
      /\ Back(b) = e /\ b # e
  BY <1>1, FarFacts
<1>3. /\ readySignal \in [Links -> Nat] /\ creditSignal \in [Links -> Nat]
      /\ puts \in [Links -> Seq(Message)] /\ credits \in [Links -> Seq(Nat)]
  BY <1>1 DEF Base, StateTypes, ShareTypes
<1>4. \A x \in Links : Len(puts[x]) \in Nat
  BY <1>3
<1> HIDE DEF b
<1>5. SUFFICES /\ \/ puts'[e] = puts[e]
                  \/ Post(e) /\ Runs(e[1]) /\ Len(puts'[e]) = Len(puts[e]) + 1
                  \/ DeliverPut(e) /\ Len(puts'[e]) = Len(puts[e]) - 1
               /\ readySignal'[e] = IF DeliverPut(e) THEN readySignal[e] + 1 ELSE readySignal[e]
               /\ creditSignal[b] <= creditSignal'[b]
               /\ error'[e[2]] =>
                    creditSignal'[b] + Total(credits'[b]) = creditSignal[b] + Total(credits[b])
  BY <1>2 DEF Due, b
<1>6. creditSignal[b] <= creditSignal[b]
  BY <1>2, <1>3
<1>7. ASSUME UNCHANGED gin
      PROVE  ~DeliverPut(e)
  <2>1. ASSUME DeliverPut(e) PROVE FALSE
    <3>1. readySignal' = readySignal
      BY <1>7 DEF gin
    <3>2. readySignal'[e] = readySignal[e] + 1
      BY <1>1, <1>3, <2>1, PutMade
    <3>3. QED
      BY <1>3, <3>1, <3>2
  <2>2. QED
    BY <2>1
<1>8. CASE UNCHANGED gin
  BY <1>7, <1>8, <1>6 DEF gin
<1>9. ASSUME NEW x \in Links, CopyOut(x) \/ CopyIn(x)
      PROVE  UNCHANGED gin
  BY <1>9 DEF CopyOut, CopyIn
<1>10. ASSUME NEW x \in Links, Post(x)
      PROVE  /\ puts'[e] = puts[e] \/ (Post(e) /\ Runs(e[1]) /\ Len(puts'[e]) = Len(puts[e]) + 1)
             /\ readySignal' = readySignal /\ creditSignal' = creditSignal
             /\ error'[e[2]] => credits'[b] = credits[b]
  <2>1. /\ UNCHANGED <<readySignal, creditSignal>> /\ error' = error /\ host[x[1]] = "kernel"
        /\ error[x[1]] \/ ~Gin(x) => puts' = puts /\ credits' = credits
    BY <1>1, <1>10, FarPublished
  <2>2. CASE error[x[1]] \/ ~Gin(x)
    BY <2>1, <2>2
  <2>3. CASE ~error[x[1]] /\ Gin(x) /\ Sends(x[1])
    <3> DEFINE m == [step |-> StepsBefore(x, At(x)) + PostSlice(x), depth |-> Depth(x)]
    <3>1. puts' = [puts EXCEPT ![x] = Append(@, m)] /\ credits' = credits
      BY <1>1, <1>10, <2>3, FarPublished
    <3> HIDE DEF m
    <3>2. x # e => puts'[e] = puts[e]
      BY <1>3, <3>1
    <3>3. x = e => Len(puts'[e]) = Len(puts[e]) + 1
      BY <1>3, <3>1
    <3>4. QED
      BY <1>10, <2>1, <2>3, <3>1, <3>2, <3>3 DEF Runs
  <2>4. CASE ~error[x[1]] /\ Gin(x) /\ ~Sends(x[1])
    <3> DEFINE g == CreditsReturned(plan[x[1]].credit, PostSlice(x), PostSlice(x) = Steps(x))
    <3>1. /\ puts' = puts
          /\ credits' = IF g = 0 THEN credits ELSE [credits EXCEPT ![x] = Append(@, g)]
      BY <1>1, <1>10, <2>4, FarPublished
    <3> HIDE DEF g
    <3>2. error'[e[2]] => x # b
      BY <1>2, <2>1, <2>4
    <3>3. x # b => credits'[b] = credits[b]
      BY <1>2, <1>3, <3>1
    <3>4. QED
      BY <2>1, <3>1, <3>2, <3>3
  <2>5. QED
    BY <2>2, <2>3, <2>4
<1>11. ASSUME NEW x \in Links, Post(x)
       PROVE  ~DeliverPut(e)
  <2>1. ASSUME DeliverPut(e) PROVE FALSE
    <3>1. readySignal' = readySignal
      BY <1>10, <1>11
    <3>2. readySignal'[e] = readySignal[e] + 1
      BY <1>1, <1>3, <2>1, PutMade
    <3>3. QED
      BY <1>3, <3>1, <3>2
  <2>2. QED
    BY <2>1
<1>12. ASSUME NEW x \in Links, DeliverPut(x)
       PROVE  /\ puts'[e] = puts[e] \/ (DeliverPut(e) /\ Len(puts'[e]) = Len(puts[e]) - 1)
              /\ readySignal'[e] = IF DeliverPut(e) THEN readySignal[e] + 1 ELSE readySignal[e]
              /\ creditSignal' = creditSignal /\ credits' = credits
  <2>1. /\ readySignal' = [readySignal EXCEPT ![x] = @ + 1] /\ puts' = [puts EXCEPT ![x] = Tail(@)]
        /\ UNCHANGED <<credits, creditSignal>> /\ Len(puts'[x]) = Len(puts[x]) - 1
    BY <1>1, <1>12, PutMade
  <2>2. CASE x = e
    BY <1>3, <1>12, <2>1, <2>2
  <2>3. CASE x # e
    <3>1. readySignal'[e] = readySignal[e] /\ puts'[e] = puts[e]
      BY <1>3, <2>1, <2>3
    <3>2. ~DeliverPut(e)
      <4>1. ASSUME DeliverPut(e) PROVE FALSE
        <5>1. readySignal'[e] = readySignal[e] + 1
          BY <1>1, <1>3, <4>1, PutMade
        <5>2. QED
          BY <1>3, <3>1, <5>1
      <4>2. QED
        BY <4>1
    <3>3. QED
      BY <2>1, <3>1, <3>2
  <2>4. QED
    BY <2>2, <2>3
<1>13. ASSUME NEW x \in Links, DeliverCredit(x)
       PROVE  /\ puts' = puts /\ readySignal' = readySignal /\ creditSignal[b] <= creditSignal'[b]
              /\ creditSignal'[b] + Total(credits'[b]) = creditSignal[b] + Total(credits[b])
  <2>1. /\ creditSignal'[x] >= creditSignal[x]
        /\ creditSignal'[x] + Total(credits'[x]) = creditSignal[x] + Total(credits[x])
        /\ \A f \in Links \ {x} : creditSignal'[f] = creditSignal[f] /\ credits'[f] = credits[f]
    BY <1>1, <1>13, CreditsDelivered DEF Base
  <2>2. puts' = puts /\ readySignal' = readySignal
    BY <1>13 DEF DeliverCredit
  <2>3. CASE x = b
    BY <2>1, <2>2, <2>3
  <2>4. CASE x # b
    BY <1>2, <1>6, <2>1, <2>2, <2>4
  <2>5. QED
    BY <2>3, <2>4
<1>14. ASSUME NEW x \in Links, DeliverCredit(x)
       PROVE  ~DeliverPut(e)
  <2>1. ASSUME DeliverPut(e) PROVE FALSE
    <3>1. readySignal' = readySignal
      BY <1>13, <1>14
    <3>2. readySignal'[e] = readySignal[e] + 1
      BY <1>1, <1>3, <2>1, PutMade
    <3>3. QED
      BY <1>3, <3>1, <3>2
  <2>2. QED
    BY <2>1
<1>15. CASE QuietStep
  BY <1>8, <1>15 DEF QuietStep
<1>16. QED
  BY <1>8, <1>9, <1>10, <1>11, <1>12, <1>13, <1>14, <1>15, <1>6 DEF Moving

LEMMA FarTakenMoves ==
  ASSUME StreamInv, StreamInv', MemoryTypes, Moving, NEW e \in Links, Far(e), FarTaken(e)
  PROVE  FarTaken(e)'
<1> DEFINE b == Back(e)
<1>1. /\ Base /\ Base' /\ Kept /\ d' = d /\ plan' = plan /\ DOMAIN host' = DOMAIN host
      /\ host' = host /\ seq' = seq
  BY EndsMove DEF Kept, StreamInv
<1>2. /\ b \in Links /\ b[1] = e[2] /\ Back(e)' = b /\ Links' = Links
      /\ ToCopy(b) \in Nat /\ ToCopy(b)' \in Nat /\ Due(e) \in Nat
  BY <1>1, FarFacts DEF FarNumbers
<1>3. SUFFICES ASSUME Both(e), Begins(e[2]) PROVE Due(e)' < ToCopy(b)'
  BY <1>1, <1>2 DEF FarTaken, Both, Begins
<1>4. CASE ~error'[e[2]]
  <2>1. FarReceiver(e)'
    BY <1>1, <1>2 DEF StreamInv, FarsInv, FarInv, Far, Sends, Gin
  <2>2. Due(e)' = Credited(b)'
    BY <1>1, <1>2, <1>3, <1>4, <2>1 DEF FarReceiver, Both, Begins
  <2>3. Credited(b)' < ToCopy(b)'
    BY <1>1, <1>2, <1>4, NumbersHoldNext DEF NumbersInv, Numbers
  <2>4. QED
    BY <2>2, <2>3
<1>5. CASE error'[e[2]]
  <2>1. Due(e)' = Due(e) /\ ToCopy(b) <= ToCopy(b)'
    BY <1>1, <1>2, <1>5, MessagesMove, EndsMove
  <2>2. Due(e) < ToCopy(b)
    BY <1>3 DEF FarTaken
  <2> HIDE DEF b
  <2>3. QED
    BY <1>2, <2>1, <2>2
<1>6. QED
  BY <1>4, <1>5

LEMMA FarAckedMoves ==
  ASSUME StreamInv, Base', MemoryTypes, Moving, NEW e \in Links, Far(e), FarAcked(e)
  PROVE  FarAcked(e)'
<1>1. /\ Base /\ Kept /\ d' = d /\ plan' = plan /\ DOMAIN host' = DOMAIN host /\ host' = host /\ seq' = seq
  BY EndsMove DEF Kept, StreamInv
<1>2. /\ Back(e)' = Back(e) /\ LastStep(e)' = LastStep(e) /\ LastStep(e) \in Nat
      /\ creditSignal[Back(e)] \in Nat /\ creditSignal'[Back(e)] \in Nat
  BY <1>1, FarFacts, PlanIsKept DEF FarNumbers
<1>3. creditSignal[Back(e)] <= creditSignal'[Back(e)]
  BY MessagesMove
<1>4. QED
  BY <1>1, <1>2, <1>3 DEF FarAcked, Both

\* Only the sender writes its slots, and only puts the receiver's.
LEMMA LanesMove ==
  ASSUME StreamInv, Base', MemoryTypes, Moving, NEW e \in Links, Far(e), NEW i \in Index(e)
  PROVE  /\ payload'[Lane(e, i)] = payload[Lane(e, i)] \/ CopyOut(e)
         /\ payload'[Lane(Back(e), i)] = payload[Lane(Back(e), i)] \/ DeliverPut(e)
<1>1. Base /\ d' = d /\ plan' = plan /\ DOMAIN host' = DOMAIN host /\ QueuesInv /\ FarsInv
  BY EndsMove DEF Kept, StreamInv
<1>2. /\ Back(e) \in Links /\ Back(Back(e)) = e /\ Sends(e[1]) /\ ~Sends(e[2]) /\ Back(e)[1] = e[2]
      /\ Owns(e) /\ Owns(Back(e)) /\ Index(Back(e)) = Index(e) /\ TypeInv
  BY <1>1, FarFacts
<1>3. ASSUME NEW x \in Links, CopyOut(x)
      PROVE  /\ payload'[Lane(e, i)] = payload[Lane(e, i)] \/ CopyOut(e)
             /\ payload'[Lane(Back(e), i)] = payload[Lane(Back(e), i)]
  <2>1. Sends(x[1])
    BY <1>3 DEF CopyOut
  <2>2. Back(e) # x
    BY <1>2, <2>1
  <2>3. \A f \in Links : Owns(f) => \A j \in Index(f) :
              payload'[Lane(f, j)] = IF filled[x] /\ f = x /\ j = ToCopy(x) % Depth(x)
                                     THEN Piece(x, ToCopy(x)) ELSE payload[Lane(f, j)]
    BY <1>1, <1>3, CopiedOut
  <2>4. QED
    BY <1>2, <1>3, <2>2, <2>3
<1>4. ASSUME NEW x \in Links, CopyIn(x)
      PROVE  payload' = payload
  BY <1>1, <1>4, CopiedIn
<1>5. ASSUME NEW x \in Links, DeliverPut(x)
      PROVE  /\ payload'[Lane(e, i)] = payload[Lane(e, i)]
             /\ payload'[Lane(Back(e), i)] = payload[Lane(Back(e), i)] \/ DeliverPut(e)
  <2>1. Far(x) /\ \A f \in Links : Owns(f) => \A j \in Index(f) :
              payload'[Lane(f, j)] = IF f = Back(x) /\ j = (readySignal[x] + 1) % Depth(x)
                                     THEN payload[Lane(x, j)] ELSE payload[Lane(f, j)]
    BY <1>1, <1>5, PutMade
  <2>2. /\ Back(x)[1] = x[2] /\ ~Sends(x[2]) /\ Back(Back(x)) = x
    BY <1>2, <2>1, LinkParts DEF Far
  <2>3. e # Back(x)
    BY <1>2, <2>2
  <2>4. Back(e) = Back(x) => e = x
    BY <1>2, <2>2
  <2>5. QED
    BY <1>2, <1>5, <2>1, <2>3, <2>4
<1>6. QED
  BY <1>3, <1>4, <1>5, MemoryRests

LEMMA FarStaysMoves ==
  ASSUME StreamInv, Base', MemoryTypes, Moving, NEW e \in Links, Far(e), FarStays(e)
  PROVE  FarStays(e)'
<1> DEFINE b == Back(e)
           n == ToCopy(e)
           g == Given(e)
<1>1. /\ Base /\ Kept /\ d' = d /\ plan' = plan /\ DOMAIN host' = DOMAIN host /\ host' = host /\ seq' = seq
      /\ FarSender(e) /\ FarQueue(e) /\ QueuesInv /\ FarsInv
  BY EndsMove DEF Kept, StreamInv, FarsInv, FarInv
<1>2. /\ Depth(e)' = Depth(e) /\ \A i : Lane(e, i)' = Lane(e, i)
      /\ b \in Links /\ Sends(e[1]) /\ Gin(e) /\ Depth(e) \in Nat \ {0}
      /\ n \in Nat \ {0} /\ n' \in Nat \ {0} /\ g \in Nat
      /\ creditSignal[b] \in Nat /\ creditSignal[b] <= Due(e) /\ Due(e) \in Nat /\ readySignal[e] \in Nat
  BY <1>1, FarFacts DEF FarNumbers
<1>3. LastStep(e)' = LastStep(e) /\ LastStep(e) \in Nat
  BY <1>1, PlanIsKept, NumbersHold DEF NumbersInv, Numbers
<1>4. /\ puts \in [Links -> Seq(Message)] /\ Len(puts[e]) \in Nat
      /\ g = readySignal[e] + Len(puts[e]) /\ Given(e)' = readySignal'[e] + Len(puts'[e])
  BY <1>1 DEF Base, StateTypes, ShareTypes, Given
<1>5. SUFFICES ASSUME Both(e), NEW t \in 1 .. LastStep(e), readySignal'[e] < t,
                      t <= Given(e)' \/ (Runs(e[1])' /\ t < n')
               PROVE  payload'[Lane(e, t % Depth(e))] = Piece(e, t)
  <2>1. \A t : Piece(e, t)' = Piece(e, t)
    BY <1>1, PieceKept
  <2>2. Both(e)' <=> Both(e)
    BY <1>1 DEF Both
  <2> HIDE DEF b, g
  <2>3. QED
    BY <1>2, <1>3, <1>5, <2>1, <2>2 DEF FarStays
<1>6. t \in Nat \ {0} /\ t % Depth(e) \in Index(e)
  BY <1>1, <1>3, IndexOf DEF Base, LaunchInv
<1>7. host[e[1]] = "kernel" => g < n /\ (~error[e[1]] => g + 1 = ToPost(e))
  BY <1>1, <1>5 DEF FarSender, Begins
<1>8. Runs(e[1])' => Runs(e[1]) /\ (n' = n \/ (CopyOut(e) /\ n' = n + 1))
  <2>1. Runs(e[1])' => Runs(e[1]) /\ (n' = n \/ CopyOut(e) \/ CopyIn(e))
    BY <1>1, EndsMove DEF Runs
  <2>2. ~CopyIn(e)
    BY <1>2 DEF CopyIn
  <2>3. CopyOut(e) => n' = n + 1
    BY <1>1, CopiesPiece
  <2>4. QED
    BY <2>1, <2>2, <2>3
<1>9. readySignal[e] < t
  <2>1. readySignal'[e] = IF DeliverPut(e) THEN readySignal[e] + 1 ELSE readySignal[e]
    BY MessagesMove
  <2>2. QED
    BY <1>2, <1>5, <1>6, <2>1
<1>10. ASSUME t <= Given(e)' PROVE t <= g \/ (Runs(e[1]) /\ t < n)
  <2>1. CASE DeliverPut(e)
    <3>1. readySignal'[e] = readySignal[e] + 1 /\ Len(puts'[e]) = Len(puts[e]) - 1
      BY <1>1, <2>1, MessagesMove, PutMade
    <3> HIDE DEF b, n
    <3>2. QED
      BY <1>2, <1>4, <1>10, <3>1
  <2>2. CASE ~DeliverPut(e) /\ puts'[e] = puts[e]
    <3>1. readySignal'[e] = readySignal[e]
      BY <2>2, MessagesMove
    <3>2. QED
      BY <1>4, <1>10, <2>2, <3>1
  <2>3. CASE ~DeliverPut(e) /\ Post(e) /\ Runs(e[1]) /\ Len(puts'[e]) = Len(puts[e]) + 1
    <3>1. readySignal'[e] = readySignal[e]
      BY <2>3, MessagesMove
    <3>2. ToPost(e) < n
      BY <1>1, <2>3, FarPublished DEF Runs
    <3>3. g + 1 = ToPost(e)
      BY <1>7, <2>3 DEF Runs
    <3>4. Given(e)' = g + 1
      BY <1>2, <1>4, <2>3, <3>1
    <3> HIDE DEF n, g
    <3>5. QED
      BY <1>2, <1>6, <1>10, <2>3, <3>2, <3>3, <3>4
  <2>4. QED
    BY <2>1, <2>2, <2>3, MessagesMove
<1>11. (t <= g \/ (Runs(e[1]) /\ t < n)) \/ (CopyOut(e) /\ t = n /\ Runs(e[1]))
  <2> HIDE DEF n, g
  <2>1. QED
    BY <1>2, <1>5, <1>6, <1>8, <1>10
<1>12. t <= g \/ (Runs(e[1]) /\ t < n) => payload[Lane(e, t % Depth(e))] = Piece(e, t)
  BY <1>5, <1>9 DEF FarStays
<1>13. CASE ~CopyOut(e)
  BY <1>6, <1>11, <1>12, <1>13, LanesMove
<1>14. CASE CopyOut(e)
  <2>1. /\ n \in 1 .. LastStep(e) /\ host[e[1]] = "kernel" /\ lead[e] = "copy" /\ Owns(e)
        /\ payload'[Lane(e, t % Depth(e))] =
             IF filled[e] /\ t % Depth(e) = n % Depth(e) THEN Piece(e, n) ELSE payload[Lane(e, t % Depth(e))]
    BY <1>1, <1>2, <1>6, <1>14, CopiedOut, CopiesPiece DEF Owns
  <2>2. g < n
    BY <1>7, <2>1
  <2>3. CASE t = n
    <3>1. Runs(e[1])
      BY <1>2, <1>11, <2>2, <2>3
    <3>2. filled[e]
      BY <1>1, <3>1 DEF Runs, Base, EndsInv, EndInv, EndShape
    <3>3. QED
      BY <2>1, <2>3, <3>2
  <2>4. CASE t # n
    <3>1. t <= g \/ (Runs(e[1]) /\ t < n)
      BY <1>11, <2>4
    <3>2. t < n
      BY <1>2, <1>6, <2>2, <3>1
    <3>3. ASSUME filled[e], t % Depth(e) = n % Depth(e)
          PROVE  FALSE
      <4>1. t <= n - Depth(e)
        BY <1>2, <1>6, <3>2, <3>3, SameRemainder
      <4>2. n <= creditSignal[b] + Depth(e)
        BY <1>1, <1>2, <2>1, <3>3 DEF Base, EndsInv, EndInv, EndCopy, Known, Room
      <4>3. Due(e) <= readySignal[e]
        BY <1>1, <1>5 DEF FarQueue
      <4> HIDE DEF b, n, g
      <4>4. QED
        BY <1>2, <1>6, <1>9, <4>1, <4>2, <4>3
    <3>4. QED
      BY <1>12, <2>1, <3>1, <3>3
  <2>5. QED
    BY <2>3, <2>4
<1>15. QED
  BY <1>13, <1>14

LEMMA FarHeldMoves ==
  ASSUME StreamInv, Base', MemoryTypes, Moving, NEW e \in Links, Far(e),
         FarTaken(e), FarStays(e), FarHeld(e)
  PROVE  FarHeld(e)'
<1> DEFINE b == Back(e)
           s == readySignal[e]
<1>1. /\ Base /\ Kept /\ d' = d /\ plan' = plan /\ DOMAIN host' = DOMAIN host /\ host' = host /\ seq' = seq
      /\ FarQueue(e) /\ QueuesInv /\ FarsInv
  BY EndsMove DEF Kept, StreamInv, FarsInv, FarInv
<1>2. /\ Depth(e)' = Depth(e) /\ \A i : Lane(b, i)' = Lane(b, i)
      /\ Back(e)' = b /\ b \in Links /\ Depth(e) \in Nat \ {0} /\ Owns(b) /\ Index(b) = Index(e)
      /\ e[2] \in Ranks(d)
      /\ ToCopy(b) \in Nat \ {0} /\ ToCopy(b)' \in Nat \ {0}
      /\ creditSignal[b] \in Nat /\ creditSignal[b] <= Due(e) /\ Due(e) \in Nat /\ s \in Nat
      /\ Given(e) \in Nat
  BY <1>1, FarFacts DEF FarNumbers
<1>3. LastStep(e)' = LastStep(e) /\ LastStep(e) \in Nat
  BY <1>1, PlanIsKept, NumbersHold DEF NumbersInv, Numbers
<1>4. SUFFICES ASSUME Both(e), Live(e[2])', NEW t \in 1 .. LastStep(e), ToCopy(b)' <= t, t <= readySignal'[e]
               PROVE  payload'[Lane(b, t % Depth(e))] = Piece(e, t)
  <2>1. \A t : Piece(e, t)' = Piece(e, t)
    BY <1>1, PieceKept
  <2>2. Both(e)' <=> Both(e)
    BY <1>1 DEF Both
  <2> HIDE DEF b, s
  <2>3. QED
    BY <1>2, <1>3, <1>4, <2>1, <2>2 DEF FarHeld
<1>5. Live(e[2]) /\ Begins(e[2])
  BY <1>1, <1>2, <1>4 DEF Live, Begins, Kept
<1>6. ToCopy(b) <= t /\ t \in Nat \ {0} /\ t % Depth(e) \in Index(e)
  <2>1. ToCopy(b) <= ToCopy(b)'
    BY <1>1, <1>2, EndsMove
  <2>2. t % Depth(e) \in Index(e)
    BY <1>1, <1>3, IndexOf DEF Base, LaunchInv
  <2> HIDE DEF b
  <2>3. QED
    BY <1>2, <1>3, <1>4, <2>1, <2>2
<1>7. t <= s => payload[Lane(b, t % Depth(e))] = Piece(e, t)
  BY <1>4, <1>5, <1>6 DEF FarHeld
<1>8. CASE ~DeliverPut(e)
  <2>1. readySignal'[e] = s
    BY <1>8, MessagesMove
  <2>2. QED
    BY <1>4, <1>6, <1>7, <1>8, <2>1, LanesMove
<1>9. CASE DeliverPut(e)
  <2>1. readySignal'[e] = s + 1 /\ Len(puts[e]) \in Nat \ {0}
    BY <1>1, <1>9, MessagesMove, PutMade
  <2>2. payload'[Lane(b, t % Depth(e))] =
          IF t % Depth(e) = (s + 1) % Depth(e)
          THEN payload[Lane(e, t % Depth(e))] ELSE payload[Lane(b, t % Depth(e))]
    BY <1>1, <1>2, <1>6, <1>9, PutMade
  <2>3. s + 1 <= Given(e)
    BY <1>2, <2>1 DEF Given
  <2>4. CASE t = s + 1
    <3>1. s < t /\ t <= Given(e)
      BY <1>2, <2>3, <2>4
    <3>2. payload[Lane(e, t % Depth(e))] = Piece(e, t)
      BY <1>4, <3>1 DEF FarStays
    <3>3. QED
      BY <2>2, <2>4, <3>2
  <2>5. CASE t # s + 1
    <3>1. t <= s /\ t < s + 1
      BY <1>2, <1>4, <1>6, <2>1, <2>5
    <3>2. ASSUME t % Depth(e) = (s + 1) % Depth(e)
          PROVE  FALSE
      <4>1. t <= s + 1 - Depth(e)
        BY <1>2, <1>6, <3>1, <3>2, SameRemainder
      <4>2. Given(e) <= creditSignal[b] + Depth(e)
        BY <1>1, <1>4 DEF FarQueue
      <4>3. Due(e) < ToCopy(b)
        BY <1>4, <1>5 DEF FarTaken
      <4> HIDE DEF b, s
      <4>4. QED
        BY <1>2, <1>6, <2>3, <4>1, <4>2, <4>3
    <3>3. QED
      BY <1>7, <2>2, <3>1, <3>2
  <2>6. QED
    BY <2>4, <2>5
<1>10. QED
  BY <1>8, <1>9

\* A rank that clears its signals finds nothing of the stream under way, and
\* nothing arrived.
LEMMA SignalsAtReset ==
  ASSUME StreamInv, Base', NEW r \in Ranks(d), HostStep(r), Reset(r), NEW e \in Links, Far(e), Both(e)',
         r \in {e[1], e[2]}
  PROVE  puts'[e] = <<>> /\ readySignal'[e] = 0
<1>1. /\ Base /\ d' = d /\ plan' = plan /\ DOMAIN host' = DOMAIN host /\ FarAlone(e) /\ puts' = puts
      /\ LaunchInv /\ StateTypes
  BY HostsMove DEF StreamInv, Base, FarsInv, FarInv
<1>2. /\ GinEnabled(d) /\ e[1] \in Ranks(d) /\ e[2] \in Ranks(d) /\ e[1] # e[2]
      /\ seq \in [Ranks(d) -> Nat] /\ host \in [Ranks(d) -> HostPlaces]
      /\ readySignal \in [Links -> Nat] /\ DOMAIN puts = Links
  BY <1>1, FarHostFacts DEF StateTypes, ShareTypes
<1>3. ~Both(e) /\ seq[e[1]] = seq[e[2]]
  BY <1>1, BothBefore
<1>4. puts[e] = <<>> /\ (Reached(e[2]) => readySignal[e] = 0)
  BY <1>1, <1>3 DEF FarAlone
<1>5. CASE r = e[2]
  BY <1>1, <1>2, <1>4, <1>5 DEF Reset
<1>6. CASE r = e[1]
  <2>1. host[e[2]] \notin {"idle", "register", "reset"} /\ host[e[1]] = "reset"
    BY <1>1, <1>6, BothBefore, HostCalls
  <2>2. host[e[2]] # "returned"
    <3>1. ASSUME host[e[2]] = "returned" PROVE FALSE
      <4>1. Cleared(e[1], seq[e[2]])
        BY <1>2, <3>1 DEF StreamInv, ReturnedInv
      <4>2. QED
        BY <1>2, <1>3, <2>1, <4>1 DEF Cleared
    <3>2. QED
      BY <3>1
  <2>3. Reached(e[2])
    BY <1>2, <2>1, <2>2 DEF HostPlaces, Reached
  <2>4. readySignal'[e] = readySignal[e]
    BY <1>1, <1>2, <1>6, HostFrame
  <2>5. QED
    BY <1>1, <1>4, <2>3, <2>4
<1>7. QED
  BY <1>5, <1>6

LEMMA FarTakenCalls ==
  ASSUME StreamInv, StreamInv', NEW r \in Ranks(d), HostStep(r), NEW e \in Links, Far(e), FarTaken(e)
  PROVE  FarTaken(e)'
<1> DEFINE b == Back(e)
<1>1. /\ Base /\ Base' /\ d' = d /\ plan' = plan /\ DOMAIN host' = DOMAIN host
      /\ credits' = credits /\ LaunchInv /\ StateTypes
  BY HostsMove DEF StreamInv, Base
<1>2. /\ b \in Links /\ b[1] = e[2] /\ b[2] = e[1] /\ Back(e)' = b /\ Links' = Links
      /\ e[1] \in Ranks(d) /\ e[2] \in Ranks(d) /\ e[1] # e[2]
      /\ ToCopy(b) \in Nat \ {0} /\ ToCopy(b)' \in Nat \ {0} /\ Due(e) \in Nat /\ Due(e)' \in Nat
  BY <1>1, FarFacts DEF FarNumbers
<1>3. /\ FarReceiver(e)' /\ FarQueue(e)'
  BY <1>1, <1>2 DEF StreamInv, FarsInv, FarInv, Far, Sends, Gin
<1>4. SUFFICES ASSUME Both(e)', Begins(e[2])' PROVE Due(e)' < ToCopy(b)'
  BY <1>2 DEF FarTaken
<1>5. CASE ~error'[e[2]]
  <2>1. Due(e)' = Credited(b)'
    BY <1>2, <1>3, <1>4, <1>5 DEF FarReceiver
  <2>2. Credited(b)' < ToCopy(b)'
    BY <1>1, <1>2, <1>5, NumbersHoldNext DEF NumbersInv, Numbers
  <2>3. QED
    BY <2>1, <2>2
<1>6. CASE Reset(r) /\ r \in {e[1], e[2]}
  <2>1. readySignal'[e] = 0
    BY <1>1, <1>4, <1>6, SignalsAtReset
  <2>2. Due(e)' <= 0
    BY <1>3, <1>4, <2>1 DEF FarQueue
  <2> HIDE DEF b
  <2>3. QED
    BY <1>2, <2>2
<1>7. CASE ~(Reset(r) /\ r \in {e[1], e[2]}) /\ error'[e[2]]
  <2>1. Both(e)
    BY <1>1, <1>4, <1>7, BothBefore
  <2>2. Due(e)' = Due(e)
    <3>1. creditSignal'[b] = creditSignal[b]
      <4>1. CASE r = e[1]
        BY <1>1, <1>7, <4>1, HostCalls DEF gin
      <4>2. CASE r # e[1]
        BY <1>1, <1>2, <4>2, HostFrame
      <4>3. QED
        BY <4>1, <4>2
    <3>2. QED
      BY <1>1, <1>2, <3>1 DEF Due
  <2>3. Begins(e[2]) /\ ToCopy(b)' = ToCopy(b)
    <3>1. CASE r = e[2]
      <4>1. host[r] = "barrier"
        BY <1>1, <1>4, <1>7, <3>1, HostCalls DEF Begins
      <4>2. ToCopy(b) = 1 /\ ToCopy(b)' = 1
        BY <1>1, <1>2, <3>1, <4>1, HostsMove
      <4>3. QED
        BY <3>1, <4>1, <4>2 DEF Begins
    <3>2. CASE r # e[2]
      BY <1>1, <1>2, <1>4, <3>2, HostsMove DEF Still, Begins
    <3>3. QED
      BY <3>1, <3>2
  <2>4. QED
    BY <2>1, <2>2, <2>3 DEF FarTaken
<1>8. QED
  BY <1>5, <1>6, <1>7

LEMMA FarAckedCalls ==
  ASSUME StreamInv, Base', NEW r \in Ranks(d), HostStep(r), NEW e \in Links, Far(e), FarAcked(e)
  PROVE  FarAcked(e)'
<1> DEFINE b == Back(e)
<1>1. /\ Base /\ d' = d /\ plan' = plan /\ DOMAIN host' = DOMAIN host /\ LaunchInv /\ StateTypes
  BY HostsMove DEF StreamInv, Base
<1>2. /\ b \in Links /\ b[1] = e[2] /\ b[2] = e[1] /\ Back(e)' = b /\ Sends(e[1]) /\ Gin(e) /\ GinEnabled(d)
      /\ e[1] \in Ranks(d) /\ e[2] \in Ranks(d) /\ e[1] # e[2] /\ seq \in [Ranks(d) -> Nat]
  BY <1>1, FarFacts, FarHostFacts
<1>3. LastStep(e)' = LastStep(e) /\ LastStep(e) \in Nat
  BY <1>1, PlanIsKept, NumbersHold DEF NumbersInv, Numbers
<1>4. SUFFICES ASSUME host'[e[1]] \in {"returned", "idle"}, seq'[e[1]] > 0, Both(e)'
               PROVE  LastStep(e) <= creditSignal'[b]
  BY <1>2, <1>3 DEF FarAcked
<1>5. ~(Reset(r) /\ r = e[1])
  BY <1>1, <1>4, HostCalls
<1>6. creditSignal'[b] = creditSignal[b]
  <2>1. CASE r = e[1]
    BY <1>1, <1>5, <2>1, HostCalls DEF gin
  <2>2. CASE r # e[1]
    BY <1>1, <1>2, <2>2, HostFrame
  <2>3. QED
    BY <2>1, <2>2
<1>7. CASE host[e[1]] \in {"returned", "idle"} /\ Both(e)
  BY <1>1, <1>4, <1>6, <1>7, BothBefore DEF FarAcked
<1>8. CASE host[e[1]] \in {"returned", "idle"} /\ ~Both(e)
  <2>1. Reset(r) /\ r = e[2] /\ host[e[1]] = "returned" /\ seq[e[1]] = seq[e[2]]
    BY <1>1, <1>4, <1>5, <1>8, BothBefore
  <2>2. Cleared(e[2], seq[e[1]])
    BY <1>2, <2>1 DEF StreamInv, ReturnedInv
  <2>3. host[e[2]] = "reset"
    BY <1>1, <2>1, HostCalls
  <2>4. QED
    BY <1>2, <2>1, <2>2, <2>3 DEF Cleared
<1>9. CASE host[e[1]] \notin {"returned", "idle"}
  <2>1. r = e[1] /\ host'[r] = "returned"
    BY <1>1, <1>2, <1>4, <1>9, HostCalls, HostFrame
  <2>2. LastStep(e) <= Known(e)
    BY <1>1, <1>2, <2>1, DoneAtReturn
  <2>3. QED
    BY <1>2, <1>6, <2>2 DEF Known
<1>10. QED
  BY <1>7, <1>8, <1>9

LEMMA FarStaysCalls ==
  ASSUME StreamInv, Base', NEW r \in Ranks(d), HostStep(r), NEW e \in Links, Far(e), FarStays(e)
  PROVE  FarStays(e)'
<1>1. /\ Base /\ d' = d /\ plan' = plan /\ DOMAIN host' = DOMAIN host /\ payload' = payload
      /\ puts' = puts /\ LaunchInv /\ StateTypes
  BY HostsMove DEF StreamInv, Base
<1>2. /\ Depth(e)' = Depth(e) /\ \A i : Lane(e, i)' = Lane(e, i)
      /\ e[1] \in Ranks(d) /\ e[2] \in Ranks(d) /\ e[1] # e[2] /\ Gin(e)
      /\ ToCopy(e) \in Nat \ {0}
  BY <1>1, FarFacts
<1>3. LastStep(e)' = LastStep(e) /\ LastStep(e) \in Nat
  BY <1>1, PlanIsKept, NumbersHold DEF NumbersInv, Numbers
<1>4. SUFFICES ASSUME Both(e)', NEW t \in 1 .. LastStep(e), readySignal'[e] < t,
                      t <= Given(e)' \/ (Runs(e[1])' /\ t < ToCopy(e)')
               PROVE  payload[Lane(e, t % Depth(e))] = Piece(e, t)
  <2>1. Both(e)' => seq'[e[1]] = seq[e[1]]
    BY <1>1, BothBefore
  <2>2. \A t : Both(e)' => Piece(e, t)' = Piece(e, t)
    BY <1>1, <2>1, PieceKept
  <2>3. QED
    BY <1>1, <1>2, <1>3, <1>4, <2>2 DEF FarStays
<1>5. t \in Nat \ {0}
  BY <1>3, <1>4
<1>6. r = e[1] => ~(Runs(e[1])' /\ t < ToCopy(e)')
  <2>1. ASSUME r = e[1] PROVE ToCopy(e)' = 1
    BY <1>1, <2>1, HostsMove
  <2>2. QED
    BY <1>5, <2>1
<1>7. r # e[1] => (Runs(e[1])' <=> Runs(e[1])) /\ ToCopy(e)' = ToCopy(e)
  BY <1>1, HostsMove DEF Runs, Still
<1>8. CASE Reset(r) /\ r \in {e[1], e[2]}
  <2>1. puts'[e] = <<>> /\ readySignal'[e] = 0
    BY <1>1, <1>4, <1>8, SignalsAtReset
  <2>2. Given(e)' = 0
    BY <2>1 DEF Given
  <2>3. r = e[2] /\ Runs(e[1])
    BY <1>4, <1>5, <1>6, <1>7, <1>8, <2>2
  <2>4. Both(e)
    BY <1>1, <1>2, <2>3, RunsTogether
  <2>5. QED
    BY <1>1, <1>4, <1>8, <2>3, <2>4, BothBefore
<1>9. CASE ~(Reset(r) /\ r \in {e[1], e[2]})
  <2>1. Both(e)
    BY <1>1, <1>4, <1>9, BothBefore
  <2>2. readySignal'[e] = readySignal[e]
    <3>1. CASE r = e[2]
      BY <1>1, <1>9, <3>1, HostCalls DEF gin
    <3>2. CASE r # e[2]
      BY <1>1, <1>2, <3>2, HostFrame
    <3>3. QED
      BY <3>1, <3>2
  <2>3. Given(e)' = Given(e)
    BY <1>1, <2>2 DEF Given
  <2>4. QED
    BY <1>4, <1>6, <1>7, <2>1, <2>2, <2>3 DEF FarStays
<1>10. QED
  BY <1>8, <1>9

LEMMA FarHeldCalls ==
  ASSUME StreamInv, Base', NEW r \in Ranks(d), HostStep(r), NEW e \in Links, Far(e), FarHeld(e)
  PROVE  FarHeld(e)'
<1> DEFINE b == Back(e)
<1>1. /\ Base /\ d' = d /\ plan' = plan /\ DOMAIN host' = DOMAIN host /\ payload' = payload
      /\ LaunchInv /\ StateTypes
  BY HostsMove DEF StreamInv, Base
<1>2. /\ Depth(e)' = Depth(e) /\ \A i : Lane(b, i)' = Lane(b, i)
      /\ Back(e)' = b /\ b \in Links /\ b[1] = e[2]
      /\ e[1] \in Ranks(d) /\ e[2] \in Ranks(d) /\ e[1] # e[2]
  BY <1>1, FarFacts
<1>3. LastStep(e)' = LastStep(e) /\ LastStep(e) \in Nat
  BY <1>1, PlanIsKept, NumbersHold DEF NumbersInv, Numbers
<1>4. SUFFICES ASSUME Both(e)', Live(e[2])', NEW t \in 1 .. LastStep(e), ToCopy(b)' <= t, t <= readySignal'[e]
               PROVE  payload[Lane(b, t % Depth(e))] = Piece(e, t)
  <2>1. Both(e)' => seq'[e[1]] = seq[e[1]]
    BY <1>1, BothBefore
  <2>2. \A t : Both(e)' => Piece(e, t)' = Piece(e, t)
    BY <1>1, <2>1, PieceKept
  <2> HIDE DEF b
  <2>3. QED
    BY <1>1, <1>2, <1>3, <1>4, <2>2 DEF FarHeld
<1>5. t \in Nat \ {0}
  BY <1>3, <1>4
<1>6. ~(Reset(r) /\ r \in {e[1], e[2]})
  <2>1. Reset(r) /\ r \in {e[1], e[2]} => readySignal'[e] = 0
    BY <1>1, <1>4, SignalsAtReset
  <2>2. QED
    BY <1>4, <1>5, <2>1
<1>7. Both(e)
  BY <1>1, <1>4, <1>6, BothBefore
<1>8. readySignal'[e] = readySignal[e]
  <2>1. CASE r = e[2]
    BY <1>1, <1>6, <2>1, HostCalls DEF gin
  <2>2. CASE r # e[2]
    BY <1>1, <1>2, <2>2, HostFrame
  <2>3. QED
    BY <2>1, <2>2
<1>9. Live(e[2]) /\ ToCopy(b) = ToCopy(b)'
  <2>1. CASE r = e[2]
    <3>1. host[r] = "barrier" /\ ~error[r]
      BY <1>1, <1>4, <1>6, <2>1, HostCalls DEF Live, Begins
    <3>2. ToCopy(b) = 1 /\ ToCopy(b)' = 1
      BY <1>1, <1>2, <2>1, <3>1, HostsMove
    <3>3. QED
      BY <2>1, <3>1, <3>2 DEF Live, Begins
  <2>2. CASE r # e[2]
    BY <1>1, <1>2, <1>4, <2>2, HostsMove DEF Still, Live, Begins
  <2>3. QED
    BY <2>1, <2>2
<1>10. QED
  BY <1>4, <1>7, <1>8, <1>9 DEF FarHeld

LEMMA FarMoreKept ==
  ASSUME StreamInv, StreamInv', MemoryTypes, [Next]_vars, NEW e \in Links, Far(e), FarMore(e)
  PROVE  FarMore(e)'
<1>1. Base /\ Base'
  BY DEF StreamInv
<1>2. CASE Moving
  BY <1>1, <1>2, FarTakenMoves, FarAckedMoves, FarStaysMoves, FarHeldMoves DEF FarMore
<1>3. ASSUME NEW r \in Ranks(d), HostStep(r) PROVE FarMore(e)'
  BY <1>1, <1>3, FarTakenCalls, FarAckedCalls, FarStaysCalls, FarHeldCalls DEF FarMore
<1>4. QED
  BY <1>1, <1>2, <1>3, StepsMove

-----------------------------------------------------------------------------
(***************************************************************************)
(* What a receiver has of a pair's stream.                                 *)
(***************************************************************************)
\* The receiver's ends of a pair, the steps they have copied, and the bytes
\* of as many steps of each.
EndOf(q, c)   == <<q[2], q[1], c - 1>>
Copied(q)     == [c \in 1 .. d.channels |-> ToCopy(EndOf(q, c)) - 1]
Through(q, t) == Total([c \in 1 .. d.channels |-> BytesThrough(EndOf(q, c), t[c])])
Within(q, t)  == \A c \in 1 .. d.channels : t[c] \in 0 .. LastStep(EndOf(q, c))
Got(q)        == Through(q, Copied(q))

\* The ends of a pair, and the pair of an end.
LEMMA PairIs ==
  ASSUME TypeInv, NEW q \in Pairs(d)
  PROVE  /\ q = <<q[1], q[2]>> /\ q[1] \in Ranks(d) /\ q[2] \in Ranks(d) /\ q[1] # q[2]
         /\ Sends(q[1]) /\ ~Sends(q[2]) /\ d.channels \in Nat
         /\ \A c \in 1 .. d.channels :
              /\ EndOf(q, c) \in Links /\ EndOf(q, c)[1] = q[2] /\ EndOf(q, c)[2] = q[1]
              /\ Back(EndOf(q, c)) \in Links /\ Back(Back(EndOf(q, c))) = EndOf(q, c)
              /\ Back(EndOf(q, c))[1] = q[1] /\ Back(EndOf(q, c))[2] = q[2]
              /\ Near(Back(EndOf(q, c))) \/ Far(Back(EndOf(q, c)))
<1>1. /\ d.channels \in Nat /\ d.senders \subseteq Ranks(d)
      /\ Pairs(d) \subseteq d.senders \X (Ranks(d) \ d.senders)
  BY DeploymentsAssumption DEF TypeInv
<1>2. /\ q = <<q[1], q[2]>> /\ q[1] \in Ranks(d) /\ q[2] \in Ranks(d)
      /\ Sends(q[1]) /\ ~Sends(q[2]) /\ q[1] # q[2]
  BY <1>1 DEF Sends
<1>3. R = Ranks(d)
  BY DEF TypeInv, R
<1>4. ASSUME NEW c \in 1 .. d.channels
      PROVE  /\ EndOf(q, c) \in Links /\ EndOf(q, c)[1] = q[2] /\ EndOf(q, c)[2] = q[1]
  <2>1. PairOf(q[2], q[1], d) \in Pairs(d)
    BY <1>2 DEF PairOf, Sends
  <2>2. c - 1 \in 0 .. d.channels - 1
    BY <1>1, <1>4
  <2>3. QED
    BY <1>2, <1>3, <2>1, <2>2 DEF EndOf, Links
<1>5. QED
  BY <1>1, <1>2, <1>4, LinkParts DEF Near, Far

LEMMA EndIs ==
  ASSUME TypeInv, NEW x \in Links, ~Sends(x[1])
  PROVE  /\ <<x[2], x[1]>> \in Pairs(d) /\ x[3] + 1 \in 1 .. d.channels
         /\ EndOf(<<x[2], x[1]>>, x[3] + 1) = x
<1>1. x[3] \in 0 .. d.channels - 1 /\ x = <<x[1], x[2], x[3]>> /\ d.channels \in Nat
  BY LinkParts, DeploymentsAssumption DEF TypeInv
<1>2. PairOf(x[1], x[2], d) \in Pairs(d)
  BY DEF Links
<1>3. x[3] + 1 - 1 = x[3]
  BY <1>1
<1>4. QED
  BY <1>1, <1>2, <1>3 DEF PairOf, Sends, EndOf

\* The bytes of as many steps of each end are a sum that grows with them.
LEMMA ThroughTypes ==
  ASSUME TypeInv, StepsInOrder, NEW q \in Pairs(d), NEW t, Within(q, t)
  PROVE  /\ [c \in 1 .. d.channels |-> BytesThrough(EndOf(q, c), t[c])] \in Seq(Nat)
         /\ Len([c \in 1 .. d.channels |-> BytesThrough(EndOf(q, c), t[c])]) = d.channels
<1>1. d.channels \in Nat
  BY PairIs
<1>2. \A c \in 1 .. d.channels : BytesThrough(EndOf(q, c), t[c]) \in Nat
  BY PairIs, BytesGrow DEF Within
<1>3. QED
  BY <1>1, <1>2

LEMMA ThroughNone ==
  ASSUME TypeInv, StepsInOrder, NEW q \in Pairs(d), NEW t, Within(q, t), \A c \in 1 .. d.channels : t[c] = 0
  PROVE  Through(q, t) = 0
<1> DEFINE s == [c \in 1 .. d.channels |-> BytesThrough(EndOf(q, c), t[c])]
<1>1. s \in Seq(Nat) /\ Len(s) = d.channels
  BY ThroughTypes
<1>2. \A c \in 1 .. d.channels : s[c] = 0
  BY PairIs, BytesGrow DEF Within
<1> HIDE DEF s
<1>3. Total(s) = 0
  BY <1>1, <1>2, TotalOfZeros
<1>4. QED
  BY <1>3 DEF Through, s

LEMMA ThroughAll ==
  ASSUME WholeStreams, NEW q \in Pairs(d), NEW t, \A c \in 1 .. d.channels : t[c] = LastStep(EndOf(q, c))
  PROVE  Through(q, t) = plan[q[2]].bytes[q[1]]
<1>1. [c \in 1 .. d.channels |-> BytesThrough(EndOf(q, c), t[c])] =
        [c \in 1 .. d.channels |-> LET e == <<q[2], q[1], c - 1>> IN BytesThrough(e, LastStep(e))]
  BY DEF EndOf
<1>2. QED
  BY <1>1 DEF Through, WholeStreams

LEMMA ThroughGrows ==
  ASSUME TypeInv, StepsInOrder, NEW q \in Pairs(d), NEW t, NEW u, Within(q, t), Within(q, u),
         NEW k \in 1 .. d.channels, u[k] = t[k] + 1, \A c \in 1 .. d.channels : c # k => u[c] = t[c]
  PROVE  Through(q, u) = Through(q, t) + StepBytes(EndOf(q, k), u[k])
<1> DEFINE s == [c \in 1 .. d.channels |-> BytesThrough(EndOf(q, c), t[c])]
           v == [c \in 1 .. d.channels |-> BytesThrough(EndOf(q, c), u[c])]
           x == StepBytes(EndOf(q, k), u[k])
<1>1. /\ s \in Seq(Nat) /\ Len(s) = d.channels
      /\ v \in Seq(Nat) /\ Len(v) = d.channels
  BY ThroughTypes
<1>2. EndOf(q, k) \in Links /\ t[k] \in 0 .. LastStep(EndOf(q, k)) /\ u[k] \in 1 .. LastStep(EndOf(q, k))
      /\ t[k] < LastStep(EndOf(q, k)) /\ LastStep(EndOf(q, k)) \in Nat
  <2>1. EndOf(q, k) \in Links
    BY PairIs
  <2>2. LastStep(EndOf(q, k)) \in Nat
    BY <2>1, WorksCover
  <2>3. QED
    BY <2>1, <2>2 DEF Within
<1>3. x \in Nat /\ v[k] = s[k] + x
  <2>1. x \in Nat
    BY <1>2, WorkAtIs
  <2>2. BytesThrough(EndOf(q, k), t[k] + 1) = BytesThrough(EndOf(q, k), t[k]) + StepBytes(EndOf(q, k), t[k] + 1)
    BY <1>2, BytesGrow
  <2>3. QED
    BY <2>1, <2>2
<1>4. \A c \in 1 .. d.channels : c # k => v[c] = s[c]
  OBVIOUS
<1> HIDE DEF s, v, x
<1>5. Total(v) = Total(s) + x
  BY <1>1, <1>3, <1>4, TotalGrows
<1>6. QED
  BY <1>5 DEF Through, s, v, x

\* A pair whose stream has no steps has no bytes.
LEMMA NothingToCarry ==
  ASSUME TypeInv, StepsInOrder, WholeStreams, NEW q \in Pairs(d),
         \A c \in 1 .. d.channels : LastStep(EndOf(q, c)) = 0
  PROVE  plan[q[2]].bytes[q[1]] = 0
<1> DEFINE t == [c \in 1 .. d.channels |-> 0]
<1>1. Within(q, t)
  BY DEF Within
<1>2. Through(q, t) = plan[q[2]].bytes[q[1]]
  BY ThroughAll
<1>3. Through(q, t) = 0
  BY <1>1, ThroughNone
<1>4. QED
  BY <1>2, <1>3

\* What has been copied, in a state and in the next one.
CopiedInv == \A q \in Pairs(d) : Within(q, Copied(q))

LEMMA CopiedHold == Base => CopiedInv
<1>1. SUFFICES ASSUME Base, NEW q \in Pairs(d), NEW c \in 1 .. d.channels
               PROVE  ToCopy(EndOf(q, c)) - 1 \in 0 .. LastStep(EndOf(q, c))
  BY DEF CopiedInv, Within, Copied
<1>2. EndOf(q, c) \in Links
  BY <1>1, PairIs DEF Base, LaunchInv
<1>3. /\ LastStep(EndOf(q, c)) \in Nat /\ ToCopy(EndOf(q, c)) \in Nat \ {0}
      /\ ToCopy(EndOf(q, c)) <= LastStep(EndOf(q, c)) + 1
  BY <1>1, <1>2, EndOrder DEF Base, EndsInv, EndInv
<1>4. QED
  BY <1>3

LEMMA CopiedHoldNext == Base' => CopiedInv'
BY CopiedHold, PTL

\* What a receiver has got, in the next state.
LEMMA GotNext ==
  ASSUME Base, Base', d' = d, plan' = plan, DOMAIN host' = DOMAIN host, NEW q \in Pairs(d)
  PROVE  /\ Within(q, Copied(q)) /\ Within(q, Copied(q)')
         /\ Got(q)' = Through(q, Copied(q)')
         /\ Copied(q)' = [c \in 1 .. d.channels |-> ToCopy(EndOf(q, c))' - 1]
<1>1. Within(q, Copied(q)) /\ (Within(q, Copied(q)))'
  BY CopiedHold, CopiedHoldNext DEF CopiedInv
<1>2. \A e : LastStep(e)' = LastStep(e)
  BY PlanIsKept
<1>3. \A e, n : BytesThrough(e, n)' = BytesThrough(e, n)
  BY WorksAreKept
<1>4. Within(q, Copied(q)')
  BY <1>1, <1>2 DEF Within, EndOf
<1>5. Got(q)' = Through(q, Copied(q)')
  BY <1>3 DEF Got, Through, EndOf
<1>6. Copied(q)' = [c \in 1 .. d.channels |-> ToCopy(EndOf(q, c))' - 1]
  BY DEF Copied, EndOf
<1>7. QED
  BY <1>1, <1>4, <1>5, <1>6

\* A receiver has copied nothing, or everything.
LEMMA GotNone ==
  ASSUME Base, NEW q \in Pairs(d), \A c \in 1 .. d.channels : ToCopy(EndOf(q, c)) = 1
  PROVE  Got(q) = 0
<1>1. \A c \in 1 .. d.channels : Copied(q)[c] = 0
  BY DEF Copied
<1>2. Within(q, Copied(q))
  BY CopiedHold DEF CopiedInv
<1>3. QED
  BY <1>1, <1>2, ThroughNone DEF Got, Base, LaunchInv

LEMMA GotAll ==
  ASSUME Base, WholeStreams, NEW q \in Pairs(d),
         \A c \in 1 .. d.channels : ToCopy(EndOf(q, c)) = LastStep(EndOf(q, c)) + 1
  PROVE  Got(q) = plan[q[2]].bytes[q[1]]
<1>1. ASSUME NEW c \in 1 .. d.channels PROVE Copied(q)[c] = LastStep(EndOf(q, c))
  <2>1. LastStep(EndOf(q, c)) \in Nat
    BY PairIs, WorksCover DEF Base, LaunchInv
  <2>2. QED
    BY <2>1 DEF Copied
<1>2. QED
  BY <1>1, ThroughAll DEF Got

-----------------------------------------------------------------------------
(***************************************************************************)
(* What has landed.                                                        *)
(***************************************************************************)
MoreInv  == \A e \in Links : (Near(e) => NearMore(e)) /\ (Far(e) => FarMore(e))
ThrewInv == \A r \in Ranks(d) : host[r] = "threw" => error[r]

\* The streams and what their slots hold.
CarriedInv ==
  /\ StreamInv /\ WorksMatch /\ WholeStreams
  /\ MemoryTypes /\ StartedInv /\ ThrewInv /\ MoreInv

\* A receiver in a step that has met no error has in place what it copied,
\* one that returned has everything, and one without a stream nothing.
LandedSoFar(q) ==
  /\ host[q[2]] \notin {"returned", "idle", "threw"}
  /\ host[q[2]] = "kernel" => ~error[q[2]]
  => landed[q] = Got(q)
LandedAll(q)  ==
  host[q[2]] \in {"returned", "idle"} /\ seq[q[2]] > 0 => landed[q] = plan[q[2]].bytes[q[1]]
LandedNone(q) == (\A c \in 1 .. d.channels : LastStep(EndOf(q, c)) = 0) => landed[q] = 0

\* One that met an error has everything when the sender is told so.
Late(r)  == host[r] \in {"kernel", "threw"} /\ error[r]
Acked(e) == IF Gin(e) THEN LastStep(e) <= Due(e) ELSE Holds(e, LastStep(e))
AllAcked(q) == \A c \in 1 .. d.channels : Acked(Back(EndOf(q, c)))
LandedLate(q) == Both(q) /\ Late(q[2]) /\ AllAcked(q) => landed[q] = plan[q[2]].bytes[q[1]]

LandedInv(q) == LandedSoFar(q) /\ LandedAll(q) /\ LandedNone(q) /\ LandedLate(q)

\* A receiver without an error finds in every slot what belongs there.
LEMMA CopiedRight ==
  ASSUME CarriedInv, NEW x \in Links, CopyIn(x), ~error[x[1]]
  PROVE  landed' = [landed EXCEPT ![<<x[2], x[1]>>] = @ + StepBytes(x, ToCopy(x))]
<1> DEFINE b == Back(x)
           t == ToCopy(x)
<1>1. /\ Base /\ LaunchInv /\ TypeInv /\ StepsInOrder /\ WorksMatch /\ MemoryTypes /\ MoreInv /\ EndInv(x)
  BY DEF CarriedInv, StreamInv, Base, LaunchInv, EndsInv
<1>2. /\ ~Sends(x[1])
      /\ landed' = IF filled[x] /\ payload[Lane(LaneEnd(x), t % Depth(x))] = Piece(x, t)
                   THEN [landed EXCEPT ![<<x[2], x[1]>>] = @ + StepBytes(x, t)] ELSE landed
  BY <1>1, CopiedIn
<1>3. t \in 1 .. LastStep(x) /\ lead[x] = "copy" /\ host[x[1]] = "kernel"
  BY <1>1, CopiesPiece
<1>4. /\ b \in Links /\ Back(b) = x /\ b[1] = x[2] /\ b[2] = x[1] /\ Sends(b[1])
      /\ (Gin(b) <=> Gin(x)) /\ Depth(b) = Depth(x)
  BY <1>1, <1>2, LinkParts
<1>5. filled[x] /\ Serving(x)
  BY <1>1, <1>3 DEF EndInv, EndShape
<1>6. t <= Known(x)
  <2>1. t <= Known(x) + 0
    BY <1>1, <1>2, <1>3, <1>5 DEF EndInv, EndCopy, Room
  <2>2. Known(x) \in Nat
    BY <1>1, <1>4, NumbersHold DEF Known, NumbersInv, Numbers
  <2> HIDE DEF t
  <2>3. QED
    BY <2>1, <2>2
<1>7. LastStep(b) = LastStep(x) /\ (seq[x[1]] = seq[x[2]] => Piece(b, t) = Piece(x, t))
  BY <1>1, <1>3, SameSteps
<1> HIDE DEF t
<1>8. CASE ~Gin(x)
  <2>1. Near(b) /\ NearHeld(b) /\ LaneEnd(x) = b
    BY <1>1, <1>2, <1>4, <1>8 DEF Near, MoreInv, NearMore, LaneEnd, Owns
  <2>2. Both(b)
    BY <1>1, <1>4, <1>5, <1>8, ServeTogether
  <2>3. Shown(b, t)
    BY <1>3, <1>4, <1>6, <1>8 DEF Shown, Known
  <2>4. payload[Lane(b, t % Depth(b))] = Piece(b, t)
    BY <1>3, <1>4, <1>7, <2>1, <2>2, <2>3 DEF NearHeld, Live, Begins, t
  <2>5. QED
    BY <1>2, <1>4, <1>5, <1>7, <2>1, <2>2, <2>4 DEF Both, t
<1>9. CASE Gin(x)
  <2>1. Far(b) /\ FarHeld(b) /\ LaneEnd(x) = x
    BY <1>1, <1>4, <1>9 DEF Far, MoreInv, FarMore, LaneEnd, Owns
  <2>2. Both(b)
    BY <1>1, <1>3, <1>9, RunsTogether DEF Runs
  <2>3. t <= readySignal[b]
    BY <1>2, <1>6, <1>9 DEF Known
  <2>4. payload[Lane(x, t % Depth(b))] = Piece(b, t)
    BY <1>3, <1>4, <1>7, <2>1, <2>2, <2>3 DEF FarHeld, Live, Begins, t
  <2>5. QED
    BY <1>2, <1>4, <1>5, <1>7, <2>1, <2>2, <2>4 DEF Both, t
<1>10. QED
  BY <1>8, <1>9

\* Only the copies of a pair's receiver, and its launch, change what landed.
LEMMA LandedRests ==
  ASSUME StreamInv, MemoryTypes, Moving, NEW q \in Pairs(d),
         \A c \in 1 .. d.channels : ~CopyIn(EndOf(q, c))
  PROVE  landed'[q] = landed[q]
<1>1. Base /\ TypeInv /\ QueuesInv /\ FarsInv
  BY DEF StreamInv, Base, LaunchInv
<1>2. ASSUME NEW x \in Links, CopyOut(x) PROVE landed'[q] = landed[q]
  BY <1>1, <1>2, CopiedOut
<1>3. ASSUME NEW x \in Links, CopyIn(x) PROVE landed'[q] = landed[q]
  <2>1. ~Sends(x[1]) /\ (landed' = landed \/ landed' = [landed EXCEPT ![<<x[2], x[1]>>] = @ + StepBytes(x, ToCopy(x))])
    BY <1>1, <1>3, CopiedIn
  <2>2. /\ <<x[2], x[1]>> \in Pairs(d) /\ x[3] + 1 \in 1 .. d.channels
        /\ EndOf(<<x[2], x[1]>>, x[3] + 1) = x
    BY <1>1, <2>1, EndIs
  <2>3. <<x[2], x[1]>> # q
    BY <1>3, <2>2
  <2>4. QED
    BY <2>1, <2>3 DEF MemoryTypes
<1>4. ASSUME NEW x \in Links, DeliverPut(x) PROVE landed'[q] = landed[q]
  BY <1>1, <1>4, PutMade
<1>5. QED
  BY <1>2, <1>3, <1>4, MemoryRests

\* A launch forgets what landed for its rank.
LEMMA HostLanded ==
  ASSUME MemoryTypes, NEW r, HostStep(r), NEW q \in Pairs(d)
  PROVE  landed'[q] = IF Launch(r) /\ q[2] = r THEN 0 ELSE landed[q]
<1>1. CASE Launch(r)
  BY <1>1 DEF Launch, MemoryTypes
<1>2. CASE ~Launch(r)
  <2>1. landed' = landed
    BY <1>2 DEF HostStep, Register, Reset, GinBarrier, Synchronize, Complete, memory
  <2>2. QED
    BY <1>2, <2>1
<1>3. QED
  BY <1>1, <1>2

LEMMA MovingKeeps ==
  ASSUME Base, Moving
  PROVE  Kept /\ DOMAIN host' = DOMAIN host
<1>1. CASE QuietStep
  BY <1>1 DEF QuietStep, Kept
<1>2. ASSUME NEW x \in Links, CopyOut(x) \/ CopyIn(x) \/ Post(x) PROVE Kept
  <2>1. ThreadStep(x)
    BY <1>2 DEF ThreadStep
  <2>2. QED
    BY <2>1, ThreadFrame DEF Base, LaunchInv
<1>3. ASSUME NEW x \in Links, DeliverPut(x) \/ DeliverCredit(x) PROVE Kept
  BY <1>3, PutsDelivered, CreditsDelivered DEF Base
<1>4. QED
  BY <1>1, <1>2, <1>3 DEF Moving, Kept

\* What a receiver without an error has, through every step.
LEMMA SoFarMoves ==
  ASSUME CarriedInv, Base', Moving, NEW q \in Pairs(d), LandedSoFar(q)
  PROVE  LandedSoFar(q)'
<1>1. /\ Base /\ StreamInv /\ MemoryTypes /\ TypeInv /\ StepsInOrder
  BY DEF CarriedInv, StreamInv, Base, LaunchInv
<1>2. /\ d.channels \in Nat /\ q = <<q[1], q[2]>> /\ q[2] \in Ranks(d) /\ ~Sends(q[2])
      /\ \A c \in 1 .. d.channels :
           EndOf(q, c) \in Links /\ EndOf(q, c)[1] = q[2] /\ EndOf(q, c)[2] = q[1]
  BY <1>1, PairIs
<1>3. Kept /\ DOMAIN host' = DOMAIN host
  BY <1>1, MovingKeeps
<1>4. SUFFICES ASSUME host[q[2]] \notin {"returned", "idle", "threw"},
                      host[q[2]] = "kernel" => ~error'[q[2]]
               PROVE  landed'[q] = Got(q)'
  BY <1>3 DEF LandedSoFar, Kept
<1>5. host[q[2]] = "kernel" => ~error[q[2]]
  BY <1>2, <1>3, <1>4 DEF Kept
<1>6. landed[q] = Got(q)
  BY <1>4, <1>5 DEF LandedSoFar
<1>7. /\ Within(q, Copied(q)) /\ Within(q, Copied(q)')
      /\ Got(q)' = Through(q, Copied(q)')
      /\ Copied(q)' = [c \in 1 .. d.channels |-> ToCopy(EndOf(q, c))' - 1]
  BY <1>1, <1>3, GotNext DEF Kept
<1>8. ASSUME NEW c \in 1 .. d.channels, ~CopyIn(EndOf(q, c))
      PROVE  Copied(q)'[c] = Copied(q)[c]
  <2>1. ToCopy(EndOf(q, c))' = ToCopy(EndOf(q, c))
    <3>1. CASE host[q[2]] = "kernel"
      <4>1. ~CopyOut(EndOf(q, c))
        BY <1>2 DEF CopyOut
      <4>2. QED
        BY <1>1, <1>2, <1>4, <1>8, <3>1, <4>1, EndsMove
    <3>2. CASE host[q[2]] # "kernel"
      BY <1>2, <1>3, <3>2 DEF ToCopy, Kept
    <3>3. QED
      BY <3>1, <3>2
  <2>2. QED
    BY <1>7, <2>1 DEF Copied
<1>9. CASE \A c \in 1 .. d.channels : ~CopyIn(EndOf(q, c))
  <2>1. landed'[q] = landed[q]
    BY <1>1, <1>9, LandedRests
  <2>2. Copied(q)' = Copied(q)
    BY <1>7, <1>8, <1>9 DEF Copied
  <2>3. QED
    BY <1>6, <1>7, <2>1, <2>2 DEF Got
<1>10. ASSUME NEW k \in 1 .. d.channels, CopyIn(EndOf(q, k))
       PROVE  landed'[q] = Got(q)'
  <2> DEFINE x == EndOf(q, k)
  <2>1. x \in Links /\ x[1] = q[2] /\ x[2] = q[1]
    BY <1>2
  <2>2. /\ ToCopy(x)' = ToCopy(x) + 1 /\ lead[x] = "copy" /\ host[q[2]] = "kernel"
        /\ ToCopy(x) \in Nat
    <3>1. ToCopy(x) \in 1 .. LastStep(x) /\ LastStep(x) \in Nat
      BY <1>1, <1>10, <2>1, CopiesPiece, WorksCover
    <3>2. QED
      BY <1>1, <1>10, <2>1, <3>1, CopiesPiece
  <2>3. landed' = [landed EXCEPT ![<<x[2], x[1]>>] = @ + StepBytes(x, ToCopy(x))]
    BY <1>5, <1>10, <2>1, <2>2, CopiedRight
  <2>4. landed'[q] = landed[q] + StepBytes(x, ToCopy(x))
    BY <1>1, <1>2, <2>1, <2>3 DEF MemoryTypes
  <2>5. Copied(q)'[k] = Copied(q)[k] + 1 /\ Copied(q)'[k] = ToCopy(x)
    <3>1. Copied(q)'[k] = ToCopy(x)' - 1
      BY <1>7
    <3>2. Copied(q)[k] = ToCopy(x) - 1
      BY DEF Copied
    <3> HIDE DEF x
    <3>3. QED
      BY <2>2, <3>1, <3>2
  <2>6. \A c \in 1 .. d.channels : c # k => Copied(q)'[c] = Copied(q)[c]
    <3>1. ASSUME NEW c \in 1 .. d.channels, c # k, CopyIn(EndOf(q, c)) PROVE FALSE
      <4>1. EndOf(q, c) # x
        BY <1>2, <3>1 DEF EndOf
      <4>2. lead[EndOf(q, c)] = "copy" /\ lead' = [lead EXCEPT ![EndOf(q, c)] = "main"]
        BY <3>1 DEF CopyIn
      <4>3. lead' = [lead EXCEPT ![x] = "main"] /\ DOMAIN lead = Links
        BY <1>1, <1>10 DEF CopyIn, Base, StateTypes, ThreadTypes
      <4>4. QED
        BY <1>2, <4>1, <4>2, <4>3
    <3>2. QED
      BY <1>8, <3>1
  <2>7. Through(q, Copied(q)') = Through(q, Copied(q)) + StepBytes(x, ToCopy(x))
    <3> DEFINE u == Copied(q)'
               t == Copied(q)
    <3>1. u[k] = t[k] + 1 /\ u[k] = ToCopy(x) /\ Within(q, t) /\ Within(q, u)
          /\ \A c \in 1 .. d.channels : c # k => u[c] = t[c]
      BY <1>7, <2>5, <2>6
    <3> HIDE DEF u, t, x
    <3>2. Through(q, u) = Through(q, t) + StepBytes(EndOf(q, k), u[k])
      BY <1>1, <3>1, ThroughGrows
    <3>3. QED
      BY <3>1, <3>2 DEF u, t, x
  <2>8. QED
    BY <1>6, <1>7, <2>4, <2>7 DEF Got
<1>11. QED
  BY <1>9, <1>10

LEMMA SoFarCalls ==
  ASSUME CarriedInv, Base', NEW r \in Ranks(d), HostStep(r), NEW q \in Pairs(d), LandedSoFar(q)
  PROVE  LandedSoFar(q)'
<1>1. /\ Base /\ MemoryTypes /\ LaunchInv /\ TypeInv /\ StepsInOrder /\ StateTypes
  BY DEF CarriedInv, StreamInv, Base, LaunchInv
<1>2. /\ q[2] \in Ranks(d)
      /\ \A c \in 1 .. d.channels : EndOf(q, c) \in Links /\ EndOf(q, c)[1] = q[2]
  BY <1>1, PairIs
<1>3. d' = d /\ plan' = plan /\ DOMAIN host' = DOMAIN host
  BY <1>1, HostFrame
<1>4. /\ Within(q, Copied(q)) /\ Within(q, Copied(q)')
      /\ Got(q)' = Through(q, Copied(q)')
      /\ Copied(q)' = [c \in 1 .. d.channels |-> ToCopy(EndOf(q, c))' - 1]
  BY <1>1, <1>3, GotNext
<1>5. landed'[q] = IF Launch(r) /\ q[2] = r THEN 0 ELSE landed[q]
  BY <1>1, HostLanded
<1>6. SUFFICES ASSUME host'[q[2]] \notin {"returned", "idle", "threw"},
                      host'[q[2]] = "kernel" => ~error'[q[2]]
               PROVE  landed'[q] = Got(q)'
  BY DEF LandedSoFar
<1>7. CASE r = q[2]
  <2>1. \A c \in 1 .. d.channels : Copied(q)'[c] = 0
    <3>1. \A c \in 1 .. d.channels : ToCopy(EndOf(q, c))' = 1
      BY <1>1, <1>2, <1>7, HostsMove
    <3>2. QED
      BY <1>4, <3>1
  <2>2. Got(q)' = 0
    BY <1>1, <1>4, <2>1, ThroughNone
  <2>3. CASE Launch(r)
    BY <1>5, <1>7, <2>2, <2>3
  <2>4. CASE ~Launch(r)
    <3>1. host[r] \notin {"returned", "idle", "threw", "kernel"}
      BY <1>1, <1>2, <1>6, <1>7, <2>4
        DEF HostStep, Register, Reset, GinBarrier, Synchronize, Complete, TypeInv
    <3>2. landed[q] = Got(q)
      BY <1>7, <3>1 DEF LandedSoFar
    <3>3. \A c \in 1 .. d.channels : ToCopy(EndOf(q, c)) = 1
      BY <1>2, <1>7, <3>1 DEF ToCopy
    <3>4. Got(q) = 0
      BY <1>1, <3>3, GotNone
    <3>5. QED
      BY <1>5, <2>2, <2>4, <3>2, <3>4
  <2>5. QED
    BY <2>3, <2>4
<1>8. CASE r # q[2]
  <2>1. host'[q[2]] = host[q[2]] /\ error'[q[2]] = error[q[2]]
    BY <1>1, <1>2, <1>8, HostFrame
  <2>2. landed'[q] = landed[q] /\ landed[q] = Got(q)
    BY <1>5, <1>6, <1>8, <2>1 DEF LandedSoFar
  <2>3. \A c \in 1 .. d.channels : ToCopy(EndOf(q, c))' = ToCopy(EndOf(q, c))
    BY <1>1, <1>2, <1>8, HostsMove DEF Still
  <2>4. Copied(q)' = Copied(q)
    BY <1>4, <2>3 DEF Copied
  <2>5. QED
    BY <1>4, <2>2, <2>4 DEF Got
<1>9. QED
  BY <1>7, <1>8

\* A receiver returns when it has copied the last step of every end.
LEMMA AllLandedKept ==
  ASSUME CarriedInv, Base', [Next]_vars, NEW q \in Pairs(d), LandedSoFar(q), LandedAll(q)
  PROVE  LandedAll(q)'
<1>1. /\ Base /\ StreamInv /\ MemoryTypes /\ LaunchInv /\ TypeInv /\ StepsInOrder /\ StateTypes /\ WholeStreams
  BY DEF CarriedInv, StreamInv, Base, LaunchInv
<1>2. /\ q[2] \in Ranks(d)
      /\ \A c \in 1 .. d.channels : EndOf(q, c) \in Links /\ EndOf(q, c)[1] = q[2]
  BY <1>1, PairIs
<1>3. CASE Moving
  <2>1. Kept
    BY <1>1, <1>3, MovingKeeps
  <2>2. SUFFICES ASSUME host[q[2]] \in {"returned", "idle"}
                 PROVE  landed'[q] = landed[q]
    BY <2>1, <2>2 DEF LandedAll, Kept
  <2>3. \A c \in 1 .. d.channels : ~CopyIn(EndOf(q, c))
    BY <1>1, <1>2, <2>2, CopiesPiece
  <2>4. QED
    BY <1>1, <1>3, <2>3, LandedRests
<1>4. ASSUME NEW r \in Ranks(d), HostStep(r) PROVE LandedAll(q)'
  <2>1. landed'[q] = IF Launch(r) /\ q[2] = r THEN 0 ELSE landed[q]
    BY <1>1, <1>4, HostLanded
  <2>2. plan' = plan
    BY <1>1, <1>4, HostFrame
  <2>3. SUFFICES ASSUME host'[q[2]] \in {"returned", "idle"}, seq'[q[2]] > 0
                 PROVE  landed'[q] = plan[q[2]].bytes[q[1]]
    BY <2>2 DEF LandedAll
  <2>4. CASE r # q[2]
    <3>1. host'[q[2]] = host[q[2]] /\ seq'[q[2]] = seq[q[2]]
      BY <1>1, <1>2, <1>4, <2>4, HostFrame
    <3>2. QED
      BY <2>1, <2>3, <2>4, <3>1 DEF LandedAll
  <2>5. CASE r = q[2]
    <3>1. seq' = seq /\ (host'[r] = "idle" => host[r] = "returned")
          /\ (host'[r] = "returned" => Synchronize(r) /\ host[r] = "kernel" /\ ~error[r])
      BY <1>1, <1>4, <2>3, <2>5, HostCalls
    <3>2. landed'[q] = landed[q]
      BY <1>1, <1>2, <2>1, <2>3, <2>5, <3>1 DEF Launch, TypeInv
    <3>3. CASE host'[r] = "idle"
      BY <2>3, <2>5, <3>1, <3>2, <3>3 DEF LandedAll
    <3>4. CASE host'[r] = "returned"
      <4>1. landed[q] = Got(q)
        BY <2>5, <3>1, <3>4 DEF LandedSoFar
      <4>2. \A c \in 1 .. d.channels : ToCopy(EndOf(q, c)) = LastStep(EndOf(q, c)) + 1
        BY <1>1, <1>2, <1>4, <2>5, <3>1, <3>4, HostsMove
      <4>3. QED
        BY <1>1, <3>2, <4>1, <4>2, GotAll
    <3>5. QED
      BY <2>3, <2>5, <3>3, <3>4
  <2>6. QED
    BY <2>4, <2>5
<1>5. QED
  BY <1>1, <1>3, <1>4, StepsMove

LEMMA NoneLandedKept ==
  ASSUME CarriedInv, Base', [Next]_vars, NEW q \in Pairs(d), LandedNone(q)
  PROVE  LandedNone(q)'
<1>1. /\ Base /\ StreamInv /\ MemoryTypes /\ TypeInv
  BY DEF CarriedInv, StreamInv, Base, LaunchInv
<1>2. \A c \in 1 .. d.channels : EndOf(q, c) \in Links
  BY <1>1, PairIs
<1>3. d' = d /\ plan' = plan /\ DOMAIN host' = DOMAIN host
  BY <1>1, EndsKept DEF Base
<1>4. \A e : LastStep(e)' = LastStep(e)
  BY <1>3, PlanIsKept
<1>5. SUFFICES ASSUME \A c \in 1 .. d.channels : LastStep(EndOf(q, c)) = 0 PROVE landed'[q] = 0
  BY <1>3, <1>4 DEF LandedNone, EndOf
<1>6. landed[q] = 0
  BY <1>5 DEF LandedNone
<1>7. CASE Moving
  <2>1. ASSUME NEW c \in 1 .. d.channels, CopyIn(EndOf(q, c)) PROVE FALSE
    <3>1. ToCopy(EndOf(q, c)) \in 1 .. LastStep(EndOf(q, c))
      BY <1>1, <1>2, <2>1, CopiesPiece
    <3>2. QED
      BY <1>5, <3>1
  <2>2. QED
    BY <1>1, <1>6, <1>7, <2>1, LandedRests
<1>8. ASSUME NEW r \in Ranks(d), HostStep(r) PROVE landed'[q] = 0
  BY <1>1, <1>6, <1>8, HostLanded
<1>9. QED
  BY <1>1, <1>7, <1>8, StepsMove

\* A receiver that met no error and is credited with everything has it.
LEMMA AckedIsAll ==
  ASSUME CarriedInv, NEW q \in Pairs(d), LandedSoFar(q), Both(q), Begins(q[2]),
         host[q[2]] = "kernel" => ~error[q[2]], AllAcked(q)
  PROVE  landed[q] = plan[q[2]].bytes[q[1]]
<1>1. /\ Base /\ LaunchInv /\ TypeInv /\ StepsInOrder /\ WorksMatch /\ WholeStreams /\ MoreInv
  BY DEF CarriedInv, StreamInv, Base, LaunchInv
<1>2. ASSUME NEW c \in 1 .. d.channels
      PROVE  ToCopy(EndOf(q, c)) = LastStep(EndOf(q, c)) + 1
  <2> DEFINE x == EndOf(q, c)
             e == Back(x)
  <2>1. /\ x \in Links /\ e \in Links /\ Back(e) = x /\ e[1] = q[1] /\ e[2] = q[2]
        /\ Near(e) \/ Far(e)
    BY <1>1, PairIs
  <2>2. /\ LastStep(x) \in Nat /\ ToCopy(x) \in Nat \ {0} /\ ToCopy(x) <= LastStep(x) + 1
    BY <1>1, <2>1, EndOrder DEF Base, EndsInv, EndInv
  <2>3. LastStep(e) = LastStep(x)
    BY <1>1, <2>1, SameSteps
  <2>4. Acked(e) /\ Both(e)
    BY DEF AllAcked, Both, EndOf, Back
  <2> HIDE DEF x, e
  <2>5. LastStep(e) < ToCopy(x)
    <3>1. CASE Near(e)
      <4>1. NearTaken(e) /\ Holds(e, LastStep(e))
        BY <1>1, <2>1, <2>4, <3>1 DEF MoreInv, NearMore, Acked, Near
      <4>2. \A i \in Index(e) : consumed[Fifo(e, i)] < ToCopy(x) /\ consumed[Fifo(e, i)] \in Nat
        BY <1>1, <2>1, <2>4, <3>1, <4>1, NumbersHold DEF NearTaken, NumbersInv, Numbers, Near
      <4>3. QED
        BY <2>2, <2>3, <4>1, <4>2 DEF Holds
    <3>2. CASE Far(e)
      <4>1. LastStep(e) <= Due(e) /\ Due(e) < ToCopy(x) /\ Due(e) \in Nat
        BY <1>1, <2>1, <2>4, <3>2, FarNumbersHold
          DEF MoreInv, FarMore, FarTaken, Acked, Far, FarNumbersInv, FarNumbers
      <4>2. QED
        BY <2>2, <2>3, <4>1
    <3>3. QED
      BY <2>1, <3>1, <3>2
  <2>6. QED
    BY <2>2, <2>3, <2>5 DEF x
<1>3. landed[q] = Got(q)
  BY DEF LandedSoFar, Begins
<1>4. QED
  BY <1>1, <1>2, <1>3, GotAll

LEMMA NothingLanded ==
  ASSUME CarriedInv, NEW q \in Pairs(d), LandedNone(q), \A c \in 1 .. d.channels : LastStep(EndOf(q, c)) = 0
  PROVE  landed[q] = 0 /\ plan[q[2]].bytes[q[1]] = 0
BY NothingToCarry DEF CarriedInv, StreamInv, Base, LaunchInv, LandedNone

\* What is needed of a receiver before a step behind which it is late.
LEMMA LateBefore ==
  ASSUME CarriedInv, NEW q \in Pairs(d), LandedInv(q), Both(q), AllAcked(q),
         host[q[2]] \in {"barrier", "kernel", "threw"}
  PROVE  landed[q] = plan[q[2]].bytes[q[1]]
<1>1. q[2] \in Ranks(d) /\ ThrewInv
  BY PairIs DEF CarriedInv, StreamInv, Base, LaunchInv
<1>2. CASE Late(q[2])
  BY <1>2 DEF LandedInv, LandedLate
<1>3. CASE ~Late(q[2])
  <2>1. Begins(q[2]) /\ (host[q[2]] = "kernel" => ~error[q[2]])
    BY <1>1, <1>3 DEF Late, ThrewInv, Begins
  <2>2. QED
    BY <2>1, AckedIsAll DEF LandedInv
<1>4. QED
  BY <1>2, <1>3

\* A receiver with an error publishes nothing, and copies nothing behind its last step.
LEMMA LateMoves ==
  ASSUME CarriedInv, Base', Moving, NEW q \in Pairs(d), LandedInv(q)
  PROVE  LandedLate(q)'
<1>1. /\ Base /\ StreamInv /\ MemoryTypes /\ MoreInv /\ ThrewInv /\ LaunchInv /\ TypeInv
      /\ StepsInOrder /\ WorksMatch
  BY DEF CarriedInv, StreamInv, Base, LaunchInv
<1>2. q[1] \in Ranks(d) /\ q[2] \in Ranks(d)
  BY <1>1, PairIs
<1>3. Kept /\ DOMAIN host' = DOMAIN host
  BY <1>1, MovingKeeps
<1>4. /\ Links' = Links /\ \A e : /\ LastStep(e)' = LastStep(e) /\ (Gin(e)' <=> Gin(e))
                                  /\ Back(e)' = Back(e) /\ Index(e)' = Index(e)
                                  /\ \A i : Fifo(e, i)' = Fifo(e, i)
  BY <1>3, PlanIsKept, SameEnds DEF Kept
<1>5. SUFFICES ASSUME Both(q), host[q[2]] \in {"kernel", "threw"}, error'[q[2]], AllAcked(q)'
               PROVE  landed'[q] = plan[q[2]].bytes[q[1]]
  BY <1>3 DEF LandedLate, Late, Both, Kept
<1>6. ASSUME NEW c \in 1 .. d.channels PROVE Acked(Back(EndOf(q, c)))
  <2> DEFINE x == EndOf(q, c)
             e == Back(x)
  <2>1. e \in Links /\ Back(e) = x /\ e[2] = q[2] /\ (Near(e) \/ Far(e))
    BY <1>1, PairIs
  <2>2. Acked(e)'
    BY <1>3, <1>4, <1>5 DEF AllAcked, EndOf, Kept
  <2> HIDE DEF x, e
  <2>3. ASSUME Near(e) PROVE Acked(e)
    <3>1. Holds(e, LastStep(e))'
      BY <1>4, <2>2, <2>3 DEF Acked, Near
    <3>2. \A i \in Index(e) : consumed'[Fifo(e, i)] = consumed[Fifo(e, i)]
      BY <1>1, <1>5, <2>1, <2>3, WordsMove
    <3>3. QED
      BY <1>4, <2>3, <3>1, <3>2 DEF Holds, Acked, Near
  <2>4. ASSUME Far(e) PROVE Acked(e)
    <3>1. Due(e)' = Due(e)
      BY <1>1, <1>5, <2>1, <2>4, MessagesMove
    <3>2. QED
      BY <1>4, <2>2, <2>4, <3>1 DEF Acked, Far
  <2>5. QED
    BY <2>1, <2>3, <2>4 DEF e, x
<1>7. landed[q] = plan[q[2]].bytes[q[1]]
  BY <1>5, <1>6, LateBefore DEF AllAcked
<1>8. ASSUME NEW c \in 1 .. d.channels, CopyIn(EndOf(q, c)) PROVE FALSE
  <2> DEFINE x == EndOf(q, c)
             e == Back(x)
  <2>1. /\ x \in Links /\ e \in Links /\ Back(e) = x /\ e[1] = q[1] /\ e[2] = q[2] /\ x[1] = q[2]
        /\ Near(e) \/ Far(e)
    BY <1>1, PairIs
  <2>2. ToCopy(x) \in 1 .. LastStep(x) /\ host[q[2]] = "kernel"
    BY <1>1, <1>8, <2>1, CopiesPiece
  <2>3. LastStep(e) = LastStep(x) /\ LastStep(e) \in Nat
    BY <1>1, <2>1, SameSteps, WorksCover
  <2>4. Acked(e) /\ Both(e) /\ Begins(e[2])
    BY <1>5, <1>6, <2>1, <2>2 DEF Both, Begins
  <2> HIDE DEF x, e
  <2>5. CASE Near(e)
    <3>1. /\ NearTaken(e) /\ Holds(e, LastStep(e))
          /\ \A i \in Index(e) : consumed[Fifo(e, i)] \in Nat
      BY <1>1, <2>1, <2>4, <2>5, NumbersHold DEF MoreInv, NearMore, Acked, Near, NumbersInv, Numbers
    <3>2. \A i \in Index(e) : consumed[Fifo(e, i)] < ToCopy(x)
      BY <2>1, <2>4, <3>1 DEF NearTaken
    <3>3. QED
      BY <2>2, <2>3, <3>1, <3>2 DEF Holds
  <2>6. CASE Far(e)
    <3>1. LastStep(e) <= Due(e) /\ Due(e) < ToCopy(x) /\ Due(e) \in Nat
      BY <1>1, <2>1, <2>4, <2>6, FarNumbersHold
        DEF MoreInv, FarMore, FarTaken, Acked, Far, FarNumbersInv, FarNumbers
    <3>2. QED
      BY <2>2, <2>3, <3>1
  <2>7. QED
    BY <2>1, <2>5, <2>6
<1>9. landed'[q] = landed[q]
  BY <1>1, <1>8, LandedRests
<1>10. QED
  BY <1>7, <1>9

LEMMA LateCalls ==
  ASSUME CarriedInv, StreamInv', NEW r \in Ranks(d), HostStep(r), NEW q \in Pairs(d), LandedInv(q)
  PROVE  LandedLate(q)'
<1>1. /\ Base /\ Base' /\ StreamInv /\ MemoryTypes /\ MoreInv /\ ThrewInv /\ LaunchInv /\ TypeInv
      /\ StepsInOrder /\ WorksMatch /\ StateTypes
  BY DEF CarriedInv, StreamInv, Base, LaunchInv
<1>2. q[1] \in Ranks(d) /\ q[2] \in Ranks(d) /\ q[1] # q[2]
  BY <1>1, PairIs
<1>3. d' = d /\ plan' = plan /\ DOMAIN host' = DOMAIN host /\ credits' = credits
  BY <1>1, HostFrame
<1>4. /\ Links' = Links /\ \A e : /\ LastStep(e)' = LastStep(e) /\ (Gin(e)' <=> Gin(e))
                                  /\ Back(e)' = Back(e) /\ Index(e)' = Index(e)
                                  /\ (Near(e)' <=> Near(e)) /\ (Far(e)' <=> Far(e))
                                  /\ \A i : Fifo(e, i)' = Fifo(e, i)
  BY <1>3, PlanIsKept, SameEnds DEF Far
<1>5. SUFFICES ASSUME Both(q)', host'[q[2]] \in {"kernel", "threw"}, error'[q[2]], AllAcked(q)'
               PROVE  landed'[q] = plan[q[2]].bytes[q[1]]
  BY <1>3 DEF LandedLate, Late
<1>6. host'[q[2]] \in {"kernel", "threw"} =>
        /\ r = q[2] => ~Reset(r) /\ ~Launch(r)
        /\ host[q[2]] \in {"barrier", "kernel", "threw"}
  <2>1. CASE r = q[2]
    <3>1. ~Reset(r) /\ host[r] \in {"barrier", "kernel"}
      BY <1>1, <1>5, <2>1, HostCalls
    <3>2. QED
      BY <2>1, <3>1 DEF Launch
  <2>2. CASE r # q[2]
    BY <1>1, <1>2, <2>2, HostFrame
  <2>3. QED
    BY <2>1, <2>2
<1>7. landed'[q] = landed[q]
  BY <1>1, <1>5, <1>6, HostLanded
<1>8. CASE \A c \in 1 .. d.channels : LastStep(EndOf(q, c)) = 0
  BY <1>7, <1>8, NothingLanded DEF LandedInv
<1>9. ASSUME NEW k \in 1 .. d.channels, LastStep(EndOf(q, k)) # 0
      PROVE  landed'[q] = plan[q[2]].bytes[q[1]]
  <2> DEFINE x == EndOf(q, k)
             e == Back(x)
  <2>1. /\ x \in Links /\ e \in Links /\ Back(e) = x /\ e[1] = q[1] /\ e[2] = q[2]
        /\ Near(e) \/ Far(e)
    BY <1>1, PairIs
  <2>2. LastStep(e) = LastStep(x) /\ LastStep(e) \in Nat /\ LastStep(e) # 0
    BY <1>1, <1>9, <2>1, SameSteps, WorksCover
  <2>3. Acked(e)' /\ Both(e)'
    BY <1>3, <1>4, <1>5 DEF AllAcked, EndOf, Both, Back
  <2> HIDE DEF x, e
  <2>4. CASE Reset(r) /\ r \in {e[1], e[2]}
    <3>1. r = e[1]
      BY <1>5, <1>6, <2>1, <2>4
    <3>2. CASE Near(e)
      <4>1. \A i \in Index(e) : consumed'[Fifo(e, i)] = 0
        BY <1>1, <2>1, <2>4, <3>1, <3>2, HostWords
      <4>2. Holds(e, LastStep(e))'
        BY <1>4, <2>3, <3>2 DEF Acked, Near
      <4>3. QED
        BY <1>4, <2>2, <4>1, <4>2 DEF Holds
    <3>3. CASE Far(e)
      <4>1. readySignal'[e] = 0
        BY <1>1, <2>1, <2>3, <2>4, <3>3, SignalsAtReset
      <4>2. FarQueue(e)' /\ Due(e)' \in Nat
        BY <1>1, <1>4, <2>1, <3>3, FarNumbersHoldNext
          DEF StreamInv, FarsInv, FarInv, FarNumbersInv, FarNumbers
      <4>3. LastStep(e) <= Due(e)' /\ Due(e)' <= 0
        BY <1>4, <2>3, <3>3, <4>1, <4>2 DEF Acked, Far, FarQueue
      <4>4. QED
        BY <2>2, <4>2, <4>3
    <3>4. QED
      BY <2>1, <3>2, <3>3
  <2>5. CASE ~(Reset(r) /\ r \in {e[1], e[2]})
    <3>1. Both(q)
      BY <1>1, <2>1, <2>3, <2>5, BothBefore DEF Both
    <3>2. ASSUME NEW c \in 1 .. d.channels PROVE Acked(Back(EndOf(q, c)))
      <4> DEFINE y == EndOf(q, c)
                 f == Back(y)
      <4>1. /\ f \in Links /\ Back(f) = y /\ f[1] = q[1] /\ f[2] = q[2]
            /\ Near(f) \/ Far(f)
        BY <1>1, PairIs
      <4>2. Acked(f)'
        BY <1>3, <1>4, <1>5 DEF AllAcked, EndOf
      <4> HIDE DEF y, f
      <4>3. ASSUME Near(f) PROVE Acked(f)
        <5>1. Holds(f, LastStep(f))'
          BY <1>4, <4>2, <4>3 DEF Acked, Near
        <5>2. \A i \in Index(f) : consumed'[Fifo(f, i)] = consumed[Fifo(f, i)]
          BY <1>1, <2>1, <2>5, <4>1, <4>3, HostWords
        <5>3. QED
          BY <1>4, <4>3, <5>1, <5>2 DEF Holds, Acked, Near
      <4>4. ASSUME Far(f) PROVE Acked(f)
        <5>1. creditSignal'[Back(f)] = creditSignal[Back(f)]
          <6>1. /\ Back(f) \in Links /\ Back(f)[1] = q[2] /\ Back(f)[2] = q[1]
            BY <1>1, <4>1, LinkParts
          <6>2. CASE r = q[1]
            BY <1>1, <2>1, <2>5, <6>2, HostCalls DEF gin
          <6>3. CASE r # q[1]
            BY <1>1, <6>1, <6>3, HostFrame
          <6>4. QED
            BY <6>2, <6>3
        <5>2. Due(f)' = Due(f)
          BY <1>3, <1>4, <5>1 DEF Due
        <5>3. QED
          BY <1>4, <4>2, <4>4, <5>2 DEF Acked, Far
      <4>5. QED
        BY <4>1, <4>3, <4>4 DEF f, y
    <3>3. QED
      BY <1>5, <1>6, <1>7, <3>1, <3>2, LateBefore DEF AllAcked
  <2>6. QED
    BY <2>4, <2>5
<1>10. QED
  BY <1>8, <1>9

-----------------------------------------------------------------------------
(***************************************************************************)
(* The streams, what they carry and what has landed, together.             *)
(***************************************************************************)
DeliveredInv == CarriedInv /\ \A q \in Pairs(d) : LandedInv(q)

LEMMA ThrewKept ==
  ASSUME StreamInv, ThrewInv, [Next]_vars
  PROVE  ThrewInv'
<1>1. Base /\ LaunchInv /\ StateTypes /\ d' = d
  BY EndsKept DEF StreamInv, Base
<1>2. SUFFICES ASSUME NEW q \in Ranks(d), host'[q] = "threw" PROVE error'[q]
  BY <1>1 DEF ThrewInv
<1>3. CASE Moving
  BY <1>1, <1>2, <1>3, MovingKeeps DEF Kept, ThrewInv
<1>4. ASSUME NEW r \in Ranks(d), HostStep(r) PROVE error'[q]
  <2>1. CASE r = q
    <3>1. Synchronize(r) /\ error[r]
      BY <1>1, <1>2, <1>4, <2>1, HostCalls
    <3>2. QED
      BY <2>1, <3>1 DEF Synchronize
  <2>2. CASE r # q
    BY <1>1, <1>2, <1>4, <2>2, HostFrame DEF ThrewInv
  <2>3. QED
    BY <2>1, <2>2
<1>5. QED
  BY <1>1, <1>3, <1>4, StepsMove

\* The conjuncts together.
LEMMA CarriedKept ==
  ASSUME CarriedInv, [Next]_vars
  PROVE  CarriedInv'
<1>1. StreamInv' /\ Base' /\ StreamInv /\ Base
  BY StreamKept DEF CarriedInv, StreamInv
<1>2. d' = d /\ plan' = plan /\ DOMAIN host' = DOMAIN host /\ Links' = Links
  BY <1>1, EndsKept DEF Base
<1>3. WorksMatch' /\ WholeStreams'
  BY <1>2, WorksAreKept DEF CarriedInv
<1>4. MemoryTypes' /\ StartedInv' /\ ThrewInv'
  BY <1>1, MemoryTyped, StartedKept, ThrewKept DEF CarriedInv
<1>5. \A e : (Near(e)' <=> Near(e)) /\ (Far(e)' <=> Far(e))
  BY <1>2, SameEnds DEF Far
<1>6. \A e \in Links : (Near(e) => NearMore(e)') /\ (Far(e) => FarMore(e)')
  BY <1>1, NearMoreKept, FarMoreKept DEF CarriedInv, MoreInv
<1>7. MoreInv'
  BY <1>2, <1>5, <1>6 DEF MoreInv
<1>8. QED
  BY <1>1, <1>3, <1>4, <1>7 DEF CarriedInv

LEMMA DeliveredKept ==
  ASSUME DeliveredInv, [Next]_vars
  PROVE  DeliveredInv'
<1>1. CarriedInv /\ CarriedInv' /\ StreamInv' /\ Base' /\ Base
  BY CarriedKept DEF DeliveredInv, CarriedInv, StreamInv
<1>2. d' = d
  BY <1>1, EndsKept DEF Base
<1>3. ASSUME NEW q \in Pairs(d) PROVE LandedInv(q)'
  <2>1. LandedInv(q) /\ LandedSoFar(q) /\ LandedAll(q) /\ LandedNone(q)
    BY DEF DeliveredInv, LandedInv
  <2>2. LandedAll(q)' /\ LandedNone(q)'
    BY <1>1, <2>1, AllLandedKept, NoneLandedKept
  <2>3. CASE Moving
    BY <1>1, <2>1, <2>2, <2>3, SoFarMoves, LateMoves DEF LandedInv
  <2>4. ASSUME NEW r \in Ranks(d), HostStep(r) PROVE LandedInv(q)'
    BY <1>1, <2>1, <2>2, <2>4, SoFarCalls, LateCalls DEF LandedInv
  <2>5. QED
    BY <1>1, <2>3, <2>4, StepsMove
<1>4. QED
  BY <1>1, <1>2, <1>3 DEF DeliveredInv

LEMMA DeliveredStart ==
  ASSUME Init, StepsInOrder, WorksMatch, WholeStreams
  PROVE  DeliveredInv
<1>1. StreamInv /\ Base /\ TypeInv /\ StateTypes
  BY StreamStart DEF StreamInv, Base, LaunchInv
<1>2. R = Ranks(d)
  BY <1>1 DEF TypeInv, R
<1>3. /\ \A r \in Ranks(d) : host[r] = "idle" /\ seq[r] = 0
      /\ lead = [e \in Links |-> "out"]
      /\ payload = [p \in PayloadSpace |-> Empty] /\ landed = [q \in Pairs(d) |-> 0]
      /\ readySignal = [l \in Links |-> 0] /\ puts = [l \in Links |-> <<>>]
      /\ credits = [l \in Links |-> <<>>] /\ creditSignal = [l \in Links |-> 0]
  BY <1>2 DEF Init
<1>4. MemoryTypes
  BY <1>3 DEF MemoryTypes
<1>5. \A e \in Links : /\ host[e[1]] = "idle" /\ host[e[2]] = "idle" /\ seq[e[1]] = 0 /\ seq[e[2]] = 0
                       /\ lead[e] = "out" /\ Back(e) \in Links
                       /\ ToCopy(e) = 1 /\ ToCopy(Back(e)) = 1
  BY <1>1, <1>3, LinkParts DEF ToCopy
<1>6. StartedInv /\ ThrewInv
  BY <1>3, <1>5 DEF StartedInv, ThrewInv
<1>7. ASSUME NEW e \in Links, Near(e) PROVE NearMore(e)
  BY <1>5 DEF NearMore, NearAlone, NearTaken, NearSeen, NearAcked, NearHeld, Begins, Live
<1>8. ASSUME NEW e \in Links, Far(e) PROVE FarMore(e)
  <2>1. Given(e) = 0
    BY <1>3 DEF Given
  <2>2. FarTaken(e) /\ FarAcked(e) /\ FarHeld(e)
    BY <1>5 DEF FarTaken, FarAcked, FarHeld, Begins, Live
  <2>3. FarStays(e)
    BY <1>3, <1>5, <2>1 DEF FarStays, Runs
  <2>4. QED
    BY <2>2, <2>3 DEF FarMore
<1>9. CarriedInv
  BY <1>1, <1>4, <1>6, <1>7, <1>8 DEF CarriedInv, MoreInv
<1>10. ASSUME NEW q \in Pairs(d) PROVE LandedInv(q)
  <2>1. host[q[2]] = "idle" /\ seq[q[2]] = 0 /\ landed[q] = 0
    BY <1>1, <1>3, PairIs
  <2>2. QED
    BY <2>1 DEF LandedInv, LandedSoFar, LandedAll, LandedNone, LandedLate, Late
<1>11. QED
  BY <1>9, <1>10 DEF DeliveredInv

\* What the streams carry and where it is, whatever the deployments and the
\* plans, as long as the two ends of every pair have planned the same works
\* and the works come to the whole stream.
THEOREM DeliveryInductive ==
  Spec /\ StepsInOrder /\ WorksMatch /\ WholeStreams => []DeliveredInv
<1>1. DeliveredInv /\ [Next]_vars => DeliveredInv'
  BY DeliveredKept
<1>2. Init /\ StepsInOrder /\ WorksMatch /\ WholeStreams => DeliveredInv
  BY DeliveredStart
<1>3. QED
  BY <1>1, <1>2, PTL DEF Spec

\* A receiver whose recv returned (launch, behind cudaStreamSynchronize and
\* the check of header.error) has every byte of its step: each step of its
\* FIFOs was in the slot it was copied from, in this launch and not the last.
THEOREM ReceiversAreCurrent ==
  Spec /\ StepsInOrder /\ WorksMatch /\ WholeStreams => []ReceiverReturnIsCurrent
<1>1. DeliveredInv => ReceiverReturnIsCurrent
  BY DEF DeliveredInv, LandedInv, LandedAll, ReceiverReturnIsCurrent
<1>2. QED
  BY <1>1, DeliveryInductive, PTL

\* A sender whose send returned has had every byte of its step taken: the
\* final wait (v2WaitConsumed, the GIN credits) is for steps that the
\* receiver copied, even when the receiver's own launch fails behind it.
THEOREM SendersAreDelivered ==
  Spec /\ StepsInOrder /\ WorksMatch /\ WholeStreams => []SenderReturnIsDelivered
<1>1. DeliveredInv => SenderReturnIsDelivered
  <2>1. SUFFICES ASSUME DeliveredInv, NEW q \in Pairs(d),
                        host[q[1]] \in {"returned", "idle"}, seq[q[1]] > 0, ~(seq[q[2]] > seq[q[1]])
                 PROVE  landed[q] = plan[q[2]].bytes[q[1]]
    BY DEF SenderReturnIsDelivered
  <2>2. /\ CarriedInv /\ LandedInv(q) /\ Base /\ LaunchInv /\ TypeInv /\ StepsInv
        /\ StepsInOrder /\ WorksMatch /\ MoreInv /\ StartedInv
    BY <2>1 DEF DeliveredInv, CarriedInv, StreamInv, Base, LaunchInv
  <2>3. q[1] \in Ranks(d) /\ q[2] \in Ranks(d) /\ host[q[2]] \in HostPlaces /\ seq[q[2]] \in Nat
    BY <2>1, <2>2, PairIs DEF TypeInv
  <2>4. CASE seq[q[2]] = seq[q[1]] /\ host[q[2]] \in {"returned", "idle"}
    BY <2>1, <2>2, <2>4 DEF LandedInv, LandedAll
  <2>5. CASE host[q[1]] = "idle"
    <3>1. Ended(q[2], seq[q[1]])
      BY <2>2, <2>3, <2>5 DEF StepsInv
    <3>2. QED
      BY <2>1, <2>4, <3>1 DEF Ended
  <2>6. CASE \A c \in 1 .. d.channels : LastStep(EndOf(q, c)) = 0
    BY <2>2, <2>6, NothingLanded, <2>1 DEF LandedInv
  <2>7. ASSUME host[q[1]] = "returned", NEW k \in 1 .. d.channels, LastStep(EndOf(q, k)) # 0
        PROVE  landed[q] = plan[q[2]].bytes[q[1]]
    <3>1. \A c \in 1 .. d.channels :
            LET e == Back(EndOf(q, c))
            IN  /\ e \in Links /\ e[1] = q[1] /\ e[2] = q[2] /\ (Near(e) \/ Far(e)) /\ Sends(e[1])
                /\ LastStep(e) = LastStep(EndOf(q, c))
      BY <2>1, <2>2, PairIs, SameSteps
    <3>2. Cleared(q[2], seq[q[1]])
      BY <2>2, <2>7, <3>1 DEF StartedInv
    <3>3. CASE host[q[2]] \in {"returned", "idle"}
      BY <2>1, <2>4, <3>2, <3>3 DEF Cleared
    <3>4. CASE host[q[2]] \notin {"returned", "idle"}
      <4>1. /\ Both(q) /\ host[q[2]] \in {"barrier", "kernel", "threw"}
        BY <2>1, <2>3, <2>7, <3>2, <3>4 DEF Cleared, Both, HostPlaces
      <4>2. ASSUME NEW c \in 1 .. d.channels PROVE Acked(Back(EndOf(q, c)))
        <5> DEFINE e == Back(EndOf(q, c))
        <5>1. e \in Links /\ e[1] = q[1] /\ e[2] = q[2] /\ (Near(e) \/ Far(e))
          BY <3>1
        <5>2. Both(e) /\ host[e[1]] = "returned" /\ seq[e[1]] > 0
          BY <2>1, <2>7, <4>1, <5>1 DEF Both
        <5>3. LastStep(e) \in Nat
          BY <2>2, <5>1, WorksCover
        <5> HIDE DEF e
        <5>4. ASSUME Near(e) PROVE Acked(e)
          BY <2>2, <5>1, <5>2, <5>4 DEF MoreInv, NearMore, NearAcked, Acked, Near
        <5>5. ASSUME Far(e) PROVE Acked(e)
          <6>1. LastStep(e) <= creditSignal[Back(e)]
            BY <2>2, <5>1, <5>2, <5>5 DEF MoreInv, FarMore, FarAcked
          <6>2. creditSignal[Back(e)] <= Due(e) /\ creditSignal[Back(e)] \in Nat /\ Due(e) \in Nat
            BY <2>2, <5>1, FarNumbersHold DEF FarNumbersInv, FarNumbers
          <6>3. QED
            BY <5>3, <5>5, <6>1, <6>2 DEF Acked, Far
        <5>6. QED
          BY <5>1, <5>4, <5>5 DEF e
      <4>3. QED
        BY <2>1, <2>2, <4>1, <4>2, LateBefore DEF AllAcked
    <3>5. QED
      BY <3>3, <3>4
  <2>8. QED
    BY <2>1, <2>5, <2>6, <2>7
<1>2. QED
  BY <1>1, DeliveryInductive, PTL
=============================================================================
