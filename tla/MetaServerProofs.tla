-------------------------- MODULE MetaServerProofs --------------------------
(***************************************************************************)
(* Proofs about MetaServer, for every number of ranks and of attempts.     *)
(***************************************************************************)
EXTENDS MetaServer, FiniteSetTheorems, TLAPS

-----------------------------------------------------------------------------
(***************************************************************************)
(* The types, and what is on the wire of a rank that is in no call.        *)
(***************************************************************************)

\* A call that has used up its attempts is over; a rank that is in no call has
\* nothing on the wire.
InCall ==
  \A r \in Ranks :
    /\ call[r] \in Calls => attempt[r] < Attempts
    /\ call[r] \notin Calls => wire[r] = "none"

TypeInv == TypeOK /\ InCall

\* The types are right, and a rank in no call has nothing on the wire.
LEMMA TypeInvHolds == Spec => []TypeInv
<1>1. Init => TypeInv
  BY MetaAssumption DEF Init, TypeInv, TypeOK, InCall, Calls, NoAnswer
<1>2. TypeInv /\ [Next]_vars => TypeInv'
  <2> SUFFICES ASSUME TypeInv, [Next]_vars PROVE TypeInv'
    OBVIOUS
  <2> USE MetaAssumption DEF TypeInv
  <2>1. ASSUME NEW r \in Ranks, Send(r) PROVE TypeInv'
    BY <2>1 DEF Send, TypeOK, InCall
  <2>2. ASSUME NEW r \in Ranks, Handle(r) PROVE TypeInv'
    <3>1. call[r] \in Calls
      BY <2>2 DEF Handle, InCall
    <3>2. /\ storage' \subseteq Ranks
          /\ id_counter' \in Nat
      BY <2>2, <3>1 DEF Handle, Run, StorageAfter, CounterAfter, TypeOK, Calls
    <3>3. QED
      BY <2>2, <3>1, <3>2 DEF Handle, TypeOK, InCall
  <2>3. ASSUME NEW r \in Ranks, Retry(r) PROVE TypeInv'
    <3>1. call[r] \in Calls /\ attempt[r] \in 0 .. Attempts /\ attempt[r] < Attempts
      BY <2>3 DEF Retry, InCall, TypeOK
    <3>2. attempt' \in [Ranks -> 0 .. Attempts]
      BY <2>3, <3>1 DEF Retry, TypeOK
    <3>3. call' \in [Ranks -> Calls \cup {"done", "failed"}]
      BY <2>3, <3>1 DEF Retry, TypeOK, GiveUp
    <3>4. late' \subseteq Ranks \X Calls \X (0 .. Attempts)
      BY <2>3, <3>1 DEF Retry, TypeOK
    <3>5. answer' \in [Ranks -> [id : Nat \cup {-1}, set : SUBSET Ranks]]
      BY <2>3 DEF Retry, TypeOK, NoAnswer
    <3>6. TypeOK'
      BY <2>3, <3>2, <3>3, <3>4, <3>5 DEF Retry, TypeOK
    <3>7. InCall'
      <4> SUFFICES ASSUME NEW q \in Ranks
                   PROVE  /\ call'[q] \in Calls => attempt'[q] < Attempts
                          /\ call'[q] \notin Calls => wire'[q] = "none"
        BY DEF InCall
      <4>1. CASE q = r
        <5>1. call'[r] = IF attempt[r] + 1 = Attempts THEN GiveUp(call[r]) ELSE call[r]
          BY <2>3 DEF Retry, TypeOK
        <5>2. attempt'[r] = attempt[r] + 1 /\ wire'[r] = "none"
          BY <2>3 DEF Retry, TypeOK
        <5>3. GiveUp(call[r]) \notin Calls
          BY DEF GiveUp, Calls
        <5>4. QED
          BY <4>1, <5>1, <5>2, <5>3, <3>1
      <4>2. CASE q # r
        BY <2>3, <4>2 DEF Retry, TypeOK, InCall
      <4>3. QED
        BY <4>1, <4>2
    <3>8. QED
      BY <3>6, <3>7
  <2>4. ASSUME NEW r \in Ranks, Answered(r) PROVE TypeInv'
    <3>1. /\ answer[r].id \in Nat \cup {-1}
          /\ call[r] \in Calls
      BY <2>4 DEF Answered, AllocateReturns, AddReturns, DeleteReturns,
                  GetReturnsFewer, GetReturnsAll, TypeOK, Calls
    <3>2. id' \in [Ranks -> Nat \cup {-1}]
      BY <2>4, <3>1 DEF Answered, AllocateReturns, AddReturns, DeleteReturns,
                        GetReturnsFewer, GetReturnsAll, TypeOK
    <3>3. PICK next \in Calls \cup {"done"} : Return(r, next)
      BY <2>4 DEF Answered, AllocateReturns, AddReturns, DeleteReturns,
                  GetReturnsFewer, GetReturnsAll, Calls
    <3>4. TypeOK'
      BY <3>2, <3>3 DEF Return, TypeOK, NoAnswer, Calls
    <3>5. InCall'
      BY <3>3 DEF Return, TypeOK, InCall
    <3>6. QED
      BY <3>4, <3>5
  <2>5. ASSUME NEW x \in late, HandleLate(x) PROVE TypeInv'
    <3>1. x[1] \in Ranks /\ x[2] \in Calls
      BY DEF TypeOK
    <3>2. /\ storage' \subseteq Ranks
          /\ id_counter' \in Nat
      BY <2>5, <3>1 DEF HandleLate, Run, StorageAfter, CounterAfter, TypeOK, Calls
    <3>3. QED
      BY <2>5, <3>2 DEF HandleLate, TypeOK, InCall
  <2>6. CASE UNCHANGED vars
    BY <2>6 DEF vars, TypeOK, InCall
  <2>7. QED
    BY <2>1, <2>2, <2>3, <2>4, <2>5, <2>6 DEF Next
<1>3. QED
  BY <1>1, <1>2, PTL DEF Spec

\* The variables keep their types, whatever the delays and the time-outs.
THEOREM TypeCorrect == Spec => []TypeOK
<1>1. TypeInv => TypeOK
  BY DEF TypeInv
<1>2. QED
  BY <1>1, TypeInvHolds, PTL
-----------------------------------------------------------------------------
(***************************************************************************)
(* Ids. The id a rank holds, and the one on its way to it, are of its own  *)
(* and below the counter.                                                  *)
(***************************************************************************)

\* The answer to the rank's allocation is on the wire.
Allocated(r) == call[r] = "allocate" /\ wire[r] = "answer"

Holds(r, n) == id[r] = n \/ (Allocated(r) /\ answer[r].id = n)

IdInv ==
  /\ \A r \in Ranks, n \in Nat : Holds(r, n) => n < id_counter
  /\ \A r, q \in Ranks, n \in Nat : Holds(r, n) /\ Holds(q, n) => r = q

\* What a step may do to the ids: nobody holds a number it did not hold before,
\* except that one rank is answered with the counter, which is passed.
HoldsNoMore ==
  /\ id_counter' >= id_counter
  /\ \A q \in Ranks, n \in Nat : Holds(q, n)' => Holds(q, n)

\* A step after which nobody holds more keeps the ids apart.
LEMMA IdInvKept ==
  ASSUME TypeInv, TypeInv', IdInv, HoldsNoMore
  PROVE  IdInv'
BY DEF TypeInv, TypeOK, IdInv, HoldsNoMore

\* The ids are apart and below the counter, also those in an answer on
\* its way.
LEMMA IdInvHolds == Spec => []IdInv
<1>1. Init => IdInv
  BY DEF Init, IdInv, Holds, Allocated
<1>2. TypeInv /\ TypeInv' /\ IdInv /\ [Next]_vars => IdInv'
  <2> SUFFICES ASSUME TypeInv, TypeInv', IdInv, [Next]_vars PROVE IdInv'
    OBVIOUS
  <2>1. ASSUME NEW r \in Ranks, Send(r) PROVE HoldsNoMore
    BY <2>1 DEF Send, HoldsNoMore, Holds, Allocated, TypeInv, TypeOK
  <2>2. ASSUME NEW r \in Ranks, Handle(r) PROVE IdInv'
    <3>1. CASE call[r] = "allocate"
      <4>1. id_counter' = id_counter + 1
        BY <2>2, <3>1 DEF Handle, Run, CounterAfter
      <4>2. \A q \in Ranks, n \in Nat :
              Holds(q, n)' => Holds(q, n) \/ (q = r /\ n = id_counter)
        BY <2>2 DEF Handle, Holds, Allocated, TypeInv, TypeOK
      <4>3. QED
        BY <4>1, <4>2 DEF IdInv, TypeInv, TypeOK
    <3>2. CASE call[r] # "allocate"
      <4>1. HoldsNoMore
        BY <2>2, <3>2 DEF Handle, Run, CounterAfter, HoldsNoMore, Holds, Allocated,
                          TypeInv, TypeOK
      <4>2. QED
        BY <4>1, IdInvKept
    <3>3. QED
      BY <3>1, <3>2
  <2>3. ASSUME NEW r \in Ranks, Retry(r) PROVE HoldsNoMore
    BY <2>3 DEF Retry, HoldsNoMore, Holds, Allocated, TypeInv, TypeOK
  <2>4. ASSUME NEW r \in Ranks, Answered(r) PROVE HoldsNoMore
    <3>1. CASE AllocateReturns(r)
      BY <3>1 DEF AllocateReturns, Return, HoldsNoMore, Holds, Allocated, TypeInv, TypeOK
    <3>2. CASE ~AllocateReturns(r)
      <4>1. UNCHANGED <<id, id_counter>> /\ wire' = [wire EXCEPT ![r] = "none"]
            /\ \A q \in Ranks \ {r} : answer'[q] = answer[q] /\ call'[q] = call[q]
        BY <2>4, <3>2 DEF Answered, AddReturns, DeleteReturns, GetReturnsFewer,
                          GetReturnsAll, Return, TypeInv, TypeOK
      <4>2. QED
        BY <4>1 DEF HoldsNoMore, Holds, Allocated, TypeInv, TypeOK
    <3>3. QED
      BY <3>1, <3>2
  <2>5. ASSUME NEW x \in late, HandleLate(x) PROVE HoldsNoMore
    BY <2>5 DEF HandleLate, Run, CounterAfter, HoldsNoMore, Holds, Allocated,
                TypeInv, TypeOK
  <2>6. CASE UNCHANGED vars
    BY <2>6 DEF vars, IdInv, Holds, Allocated
  <2>7. QED
    BY <2>1, <2>2, <2>3, <2>4, <2>5, <2>6, IdInvKept DEF Next
<1>3. QED
  BY <1>1, <1>2, TypeInvHolds, PTL DEF Spec

\* No two ranks get the same id, however often and however late the server
\* runs their requests.
THEOREM IdsUnique == Spec => []IdsAreUnique
<1>1. TypeInv /\ IdInv => IdsAreUnique
  BY DEF TypeInv, TypeOK, IdInv, Holds, IdsAreUnique
<1>2. QED
  BY <1>1, TypeInvHolds, IdInvHolds, PTL
-----------------------------------------------------------------------------
(***************************************************************************)
(* The wait. Whoever is in the set, in an answer or late with its request  *)
(* to be added, has asked to be; and a rank that has asked stays one.      *)
(***************************************************************************)
Askers == {r \in Ranks : Asked(r)}

WaitInv ==
  /\ storage \subseteq Askers
  /\ \A r \in Ranks : answer[r].set \subseteq Askers
  /\ \A x \in late : x[2] = "add" => Asked(x[1])

\* No step makes a rank that asked to be added one that did not.
LEMMA AskersGrow ==
  ASSUME TypeInv, [Next]_vars
  PROVE  Askers \subseteq Askers'
<1> SUFFICES ASSUME NEW q \in Ranks, Asked(q) PROVE Asked(q)'
  BY DEF Askers
<1> USE DEF TypeInv, TypeOK
<1>1. ASSUME NEW r \in Ranks, Send(r) PROVE Asked(q)'
  BY <1>1 DEF Send, Asked
<1>2. ASSUME NEW r \in Ranks, Handle(r) PROVE Asked(q)'
  BY <1>2 DEF Handle, Asked
<1>3. ASSUME NEW r \in Ranks, Retry(r) PROVE Asked(q)'
  BY <1>3 DEF Retry, Asked, GiveUp
<1>4. ASSUME NEW r \in Ranks, Answered(r) PROVE Asked(q)'
  BY <1>4 DEF Answered, AllocateReturns, AddReturns, DeleteReturns, GetReturnsFewer,
              GetReturnsAll, Return, Asked
<1>5. ASSUME NEW x \in late, HandleLate(x) PROVE Asked(q)'
  BY <1>5 DEF HandleLate, Asked
<1>6. CASE UNCHANGED vars
  BY <1>6 DEF vars, Asked
<1>7. QED
  BY <1>1, <1>2, <1>3, <1>4, <1>5, <1>6 DEF Next

\* Every member of the set, and of an answer with it, has asked to be added.
LEMMA WaitInvHolds == Spec => []WaitInv
<1>1. Init => WaitInv
  BY DEF Init, WaitInv, NoAnswer
<1>2. TypeInv /\ WaitInv /\ [Next]_vars => WaitInv'
  <2> SUFFICES ASSUME TypeInv, WaitInv, [Next]_vars PROVE WaitInv'
    OBVIOUS
  <2>0. Askers \subseteq Askers'
    BY AskersGrow
  <2> USE DEF TypeInv, TypeOK
  <2>1. \A q \in Ranks : Asked(q) => Asked(q)'
    BY <2>0 DEF Askers
  <2>2. ASSUME NEW r \in Ranks, Send(r) PROVE WaitInv'
    BY <2>0, <2>1, <2>2 DEF Send, WaitInv
  <2>3. ASSUME NEW r \in Ranks, Handle(r) PROVE WaitInv'
    <3>1. call[r] = "add" => r \in Askers'
      BY <2>3 DEF Handle, Askers, Asked
    <3>2. storage' \subseteq Askers'
      <4>1. CASE call[r] = "add"
        <5>1. storage' = storage \cup {r}
          BY <2>3, <4>1 DEF Handle, Run, StorageAfter
        <5>2. QED
          BY <5>1, <4>1, <3>1, <2>0 DEF WaitInv
      <4>2. CASE call[r] # "add"
        <5>1. storage' = storage \/ storage' = {}
          BY <2>3, <4>2 DEF Handle, Run, StorageAfter
        <5>2. QED
          BY <5>1, <2>0 DEF WaitInv
      <4>3. QED
        BY <4>1, <4>2
    <3>3. \A q \in Ranks : answer'[q].set \subseteq Askers'
      BY <2>3, <2>0 DEF Handle, WaitInv
    <3>4. QED
      BY <2>3, <2>1, <3>2, <3>3 DEF Handle, WaitInv
  <2>4. ASSUME NEW r \in Ranks, Retry(r) PROVE WaitInv'
    <3>1. Asked(r)' \/ call[r] # "add"
      BY <2>4, MetaAssumption DEF Retry, Asked, GiveUp, InCall
    <3>2. \A x \in late' : x[2] = "add" => Asked(x[1])'
      BY <2>4, <3>1, <2>1 DEF Retry, WaitInv
    <3>3. \A q \in Ranks : answer'[q].set \subseteq Askers'
      BY <2>4, <2>0 DEF Retry, WaitInv, NoAnswer
    <3>4. QED
      BY <2>4, <2>0, <3>2, <3>3 DEF Retry, WaitInv
  <2>5. ASSUME NEW r \in Ranks, Answered(r) PROVE WaitInv'
    <3>1. PICK next \in Calls \cup {"done"} : Return(r, next)
      BY <2>5 DEF Answered, AllocateReturns, AddReturns, DeleteReturns,
                  GetReturnsFewer, GetReturnsAll, Calls
    <3>2. \A q \in Ranks : answer'[q].set \subseteq Askers'
      BY <3>1, <2>0 DEF Return, WaitInv, NoAnswer
    <3>3. QED
      BY <3>1, <2>0, <2>1, <3>2 DEF Return, WaitInv
  <2>6. ASSUME NEW x \in late, HandleLate(x) PROVE WaitInv'
    <3>1. storage' \subseteq Askers'
      <4>1. CASE x[2] = "add"
        <5>1. storage' = storage \cup {x[1]}
          BY <2>6, <4>1 DEF HandleLate, Run, StorageAfter
        <5>2. x[1] \in Askers'
          BY <4>1, <2>1 DEF WaitInv, Askers
        <5>3. QED
          BY <5>1, <5>2, <2>0 DEF WaitInv
      <4>2. CASE x[2] # "add"
        <5>1. storage' = storage \/ storage' = {}
          BY <2>6, <4>2 DEF HandleLate, Run, StorageAfter
        <5>2. QED
          BY <5>1, <2>0 DEF WaitInv
      <4>3. QED
        BY <4>1, <4>2
    <3>2. QED
      BY <2>6, <2>0, <2>1, <3>1 DEF HandleLate, WaitInv
  <2>7. CASE UNCHANGED vars
    BY <2>7, <2>0, <2>1 DEF vars, WaitInv
  <2>8. QED
    BY <2>2, <2>3, <2>4, <2>5, <2>6, <2>7 DEF Next
<1>3. QED
  BY <1>1, <1>2, TypeInvHolds, PTL DEF Spec

\* A set of as many ranks as there are has all of them.
LEMMA AllOfRanks ==
  ASSUME NEW S \in SUBSET Ranks, Cardinality(S) >= World
  PROVE  S = Ranks
<1>1. IsFiniteSet(Ranks) /\ Cardinality(Ranks) = World
  BY FS_Interval, MetaAssumption DEF Ranks
<1>2. Cardinality(S) <= Cardinality(Ranks) /\ IsFiniteSet(S)
  BY <1>1, FS_Subset
<1>3. Cardinality(S) = Cardinality(Ranks)
  BY <1>1, <1>2, FS_CardinalityType, MetaAssumption
<1>4. QED
  BY <1>1, <1>3, FS_Subset

\* A rank leaves the wait only when every rank has asked to be added, whichever
\* requests were lost, run twice or run late.
THEOREM WaitForAll == Spec => []WaitIsForAll
<1>1. Init => WaitIsForAll
  BY DEF Init, WaitIsForAll
<1>2. TypeInv /\ WaitInv /\ WaitIsForAll /\ [Next]_vars => WaitIsForAll'
  <2> SUFFICES ASSUME TypeInv, WaitInv, WaitIsForAll, [Next]_vars PROVE WaitIsForAll'
    OBVIOUS
  <2> USE DEF TypeInv, TypeOK
  <2>0. \A q \in Ranks : Asked(q) => Asked(q)'
    BY AskersGrow DEF Askers
  \* All but the last poll leave the ranks behind the wait as they are.
  <2>1. ASSUME NEW p \in Ranks, GetReturnsAll(p) PROVE WaitIsForAll'
    <3>1. answer[p].set = Ranks
      BY <2>1, AllOfRanks DEF GetReturnsAll
    <3>2. \A q \in Ranks : Asked(q)
      BY <3>1 DEF WaitInv, Askers
    <3>3. QED
      BY <3>2, <2>0 DEF WaitIsForAll
  <2>2. ASSUME \A p \in Ranks : ~GetReturnsAll(p),
               NEW r \in Ranks, call'[r] \in {"delete", "done"}
        PROVE  call[r] \in {"delete", "done"}
    <3>1. ASSUME NEW p \in Ranks, Send(p) PROVE call'[r] = call[r]
      BY <3>1 DEF Send
    <3>2. ASSUME NEW p \in Ranks, Handle(p) PROVE call'[r] = call[r]
      BY <3>2 DEF Handle
    <3>3. ASSUME NEW p \in Ranks, Retry(p) PROVE call[r] \in {"delete", "done"}
      BY <3>3, <2>2 DEF Retry, GiveUp, Calls
    <3>4. ASSUME NEW p \in Ranks, Answered(p) PROVE call[r] \in {"delete", "done"}
      BY <3>4, <2>2 DEF Answered, AllocateReturns, AddReturns, DeleteReturns,
                        GetReturnsFewer, Return, Calls
    <3>5. ASSUME NEW x \in late, HandleLate(x) PROVE call'[r] = call[r]
      BY <3>5 DEF HandleLate
    <3>6. QED
      BY <2>2, <3>1, <3>2, <3>3, <3>4, <3>5 DEF Next, vars
  <2>3. QED
    BY <2>0, <2>1, <2>2 DEF WaitIsForAll
<1>3. QED
  BY <1>1, <1>2, TypeInvHolds, WaitInvHolds, PTL DEF Spec
=============================================================================
