----------------------------- MODULE MetaServer -----------------------------
(***************************************************************************)
(* The meta server and its clients: meta/meta_server.py.                   *)
(*                                                                         *)
(* Every rank takes an id (allocate_auto_grow_id), adds itself to a set    *)
(* (add_object_to_set), polls the set until it has the size of the world   *)
(* (wait_set_until_size) and, in barrier, rank 0 then deletes it. A call   *)
(* is up to Attempts HTTP requests (retry): one whose answer does not come *)
(* in time is abandoned, and the server may still run it later. The        *)
(* handlers change the storage after the last await: they are atomic.      *)
(***************************************************************************)
EXTENDS Integers, FiniteSets

CONSTANTS
  World,     \* world_size: the ranks are 0 .. World - 1
  Attempts   \* max_retries

ASSUME MetaAssumption ==
  /\ World \in Nat \ {0}
  /\ Attempts \in Nat \ {0}

Ranks == 0 .. World - 1

\* The calls of a rank, in order; a handler of "get" has no effect.
Calls == {"allocate", "add", "get", "delete"}

VARIABLES
  barrier,     \* the ranks call barrier, or the set's add and wait alone
  storage,     \* the set under the key; a missing key reads as {}
  id_counter,  \* the next id
  call,        \* the call a rank is in, "done" or "failed"
  attempt,     \* requests of the call that have failed
  wire,        \* what is on the wire of a rank: nothing, request, answer
  answer,      \* the answer
  late,        \* abandoned requests the server has yet to run
  id           \* the id a rank got, or -1

vars == <<barrier, storage, id_counter, call, attempt, wire, answer, late, id>>

\* An answer is an id, or a set read from the storage.
NoAnswer == [id |-> -1, set |-> {}]

TypeOK ==
  /\ barrier \in BOOLEAN
  /\ storage \subseteq Ranks
  /\ id_counter \in Nat
  /\ call    \in [Ranks -> Calls \cup {"done", "failed"}]
  /\ attempt \in [Ranks -> 0 .. Attempts]
  /\ wire    \in [Ranks -> {"none", "request", "answer"}]
  /\ answer  \in [Ranks -> [id : Nat \cup {-1}, set : SUBSET Ranks]]
  /\ late    \subseteq Ranks \X Calls \X (0 .. Attempts)
  /\ id      \in [Ranks -> Nat \cup {-1}]

Init ==
  /\ barrier \in BOOLEAN
  /\ storage = {}
  /\ id_counter = 0
  /\ call    = [r \in Ranks |-> "allocate"]
  /\ attempt = [r \in Ranks |-> 0]
  /\ wire    = [r \in Ranks |-> "none"]
  /\ answer  = [r \in Ranks |-> NoAnswer]
  /\ late    = {}
  /\ id      = [r \in Ranks |-> -1]
-----------------------------------------------------------------------------
(***************************************************************************)
(* The server's handlers.                                                  *)
(***************************************************************************)

\* Mutant of StorageAfter: the set is replaced, not added to.
StoragePut(r, op) ==
  CASE op = "add"    -> {r}
    [] op = "delete" -> {}
    [] OTHER         -> storage

StorageAfter(r, op) ==
  CASE op = "add"    -> storage \cup {r}
    [] op = "delete" -> {}
    [] OTHER         -> storage

\* Mutant of CounterAfter: the counter stays.
CounterStuck(r, op) == id_counter

CounterAfter(r, op) ==
  IF op = "allocate" THEN id_counter + 1 ELSE id_counter

Run(r, op) ==
  /\ storage' = StorageAfter(r, op)
  /\ id_counter' = CounterAfter(r, op)

Handle(r) ==
  /\ wire[r] = "request"
  /\ Run(r, call[r])
  /\ answer' = [answer EXCEPT ![r] = [id |-> id_counter, set |-> storage]]
  /\ wire' = [wire EXCEPT ![r] = "answer"]
  /\ UNCHANGED <<barrier, call, attempt, late, id>>

\* An abandoned request reaches the server after all.
HandleLate(x) ==
  /\ Run(x[1], x[2])
  /\ late' = late \ {x}
  /\ UNCHANGED <<barrier, call, attempt, wire, answer, id>>
-----------------------------------------------------------------------------
(***************************************************************************)
(* The clients.                                                            *)
(***************************************************************************)

Send(r) ==
  /\ call[r] \in Calls
  /\ wire[r] = "none"
  /\ wire' = [wire EXCEPT ![r] = "request"]
  /\ UNCHANGED <<barrier, storage, id_counter, call, attempt, answer, late, id>>

\* The call raises after its last attempt; delete_if_exists ignores that.
GiveUp(op) == IF op = "delete" THEN "done" ELSE "failed"

\* A time-out, of a request or of its answer.
Retry(r) ==
  /\ wire[r] # "none"
  /\ attempt' = [attempt EXCEPT ![r] = @ + 1]
  /\ call' = [call EXCEPT ![r] = IF attempt[r] + 1 = Attempts
                                 THEN GiveUp(@) ELSE @]
  /\ late' = IF wire[r] = "request" /\ call[r] # "get"
             THEN late \cup {<<r, call[r], attempt[r]>>} ELSE late
  /\ wire' = [wire EXCEPT ![r] = "none"]
  /\ answer' = [answer EXCEPT ![r] = NoAnswer]
  /\ UNCHANGED <<barrier, storage, id_counter, id>>

Return(r, next) ==
  /\ call'    = [call EXCEPT ![r] = next]
  /\ attempt' = [attempt EXCEPT ![r] = 0]
  /\ wire'    = [wire EXCEPT ![r] = "none"]
  /\ answer'  = [answer EXCEPT ![r] = NoAnswer]
  /\ UNCHANGED <<barrier, storage, id_counter, late>>

AllocateReturns(r) ==
  /\ call[r] = "allocate"
  /\ wire[r] = "answer"
  /\ id' = [id EXCEPT ![r] = answer[r].id]
  /\ Return(r, "add")

AddReturns(r) ==
  /\ call[r] = "add"
  /\ wire[r] = "answer"
  /\ Return(r, "get")
  /\ UNCHANGED id

\* The set is too small: the rank polls again after its backoff interval.
GetReturnsFewer(r) ==
  /\ call[r] = "get"
  /\ wire[r] = "answer"
  /\ Cardinality(answer[r].set) < World
  /\ Return(r, "get")
  /\ UNCHANGED id

\* Mutant of GetReturnsAll: one rank too few.
GetReturnsAlmostAll(r) ==
  /\ call[r] = "get"
  /\ wire[r] = "answer"
  /\ Cardinality(answer[r].set) >= World - 1
  /\ Return(r, IF barrier /\ r = 0 THEN "delete" ELSE "done")
  /\ UNCHANGED id

GetReturnsAll(r) ==
  /\ call[r] = "get"
  /\ wire[r] = "answer"
  /\ Cardinality(answer[r].set) >= World
  /\ Return(r, IF barrier /\ r = 0 THEN "delete" ELSE "done")
  /\ UNCHANGED id

DeleteReturns(r) ==
  /\ call[r] = "delete"
  /\ wire[r] = "answer"
  /\ Return(r, "done")
  /\ UNCHANGED id

Answered(r) ==
  \/ AllocateReturns(r) \/ AddReturns(r) \/ DeleteReturns(r)
  \/ GetReturnsFewer(r) \/ GetReturnsAll(r)

Next ==
  \/ \E r \in Ranks : Send(r) \/ Handle(r) \/ Retry(r) \/ Answered(r)
  \/ \E x \in late : HandleLate(x)

Spec == Init /\ [][Next]_vars

\* Ranks and server keep running.
FairSpec ==
  Spec /\ \A r \in Ranks :
    WF_vars(Send(r)) /\ WF_vars(Handle(r)) /\ WF_vars(Answered(r))
-----------------------------------------------------------------------------
(***************************************************************************)
(* Properties.                                                             *)
(***************************************************************************)

\* No two ranks get the same id, however often their requests are run.
IdsAreUnique ==
  \A r, q \in Ranks : r # q /\ id[r] # -1 => id[r] # id[q]

\* The rank has asked to be added, whether or not it knows that it was.
Asked(r) ==
  \/ call[r] \in {"get", "delete", "done", "failed"}
  \/ call[r] = "add" /\ (wire[r] = "answer" \/ attempt[r] > 0)

\* A rank leaves the wait only when every rank has asked to be added: requests
\* that are run twice do not stand for a rank that is missing.
WaitIsForAll ==
  \A r \in Ranks : call[r] \in {"delete", "done"} =>
    \A q \in Ranks : Asked(q)

AllLeft ==
  \/ \A r \in Ranks : call[r] = "done"
  \/ \E r \in Ranks : call[r] = "failed"

\* Ranks that meet at a set nobody deletes (add_object_to_set and
\* wait_set_until_size) all leave the wait, unless a call has given up.
EveryWaiterLeaves == ~barrier => <>AllLeft

\* Ranks that call barrier all leave it, unless a call has given up.
EveryRankLeaves == barrier => <>AllLeft
=============================================================================
