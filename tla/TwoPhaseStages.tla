--------------------------- MODULE TwoPhaseStages ---------------------------
(***************************************************************************)
(* The staged colocated exchange: NcclColocateTransport of                 *)
(* transfer/nccl_comm.py.                                                  *)
(*                                                                         *)
(* In stage i every rank sends to the rank i ahead and receives from the   *)
(* rank i behind. A stage has two phases with a barrier after each; the    *)
(* partition of a rank says in which of the two it sends. A send or a      *)
(* receive blocks until its peer has met it (external: NCCL).              *)
(***************************************************************************)
EXTENDS Integers, FiniteSetsExt

CONSTANTS
  World,  \* world_size
  Plan    \* the pairs <<s, r>> of ranks with ops from s to r

Ranks == 0 .. World - 1

Ahead(r, i)  == (r + i) % World
Behind(r, i) == (r - i) % World

(***************************************************************************)
(* compute_two_phase_partition: the parity of a rank's position in the     *)
(* cycle it forms by steps of i.                                           *)
(***************************************************************************)
Divides(k, n) == n % k = 0

Gcd(m, n) == Max({k \in 1 .. m : Divides(k, m) /\ Divides(k, n)})

\* pow(a, -1, m).
ModInverse(a, m) == CHOOSE x \in 0 .. m - 1 : (a * x) % m = 1 % m

Partition(r, i) ==
  LET gcd     == Gcd(World, i)
      reduced == World \div gcd
      inverse == ModInverse(i \div gcd, reduced)
  IN  (((r \div gcd) * inverse) % reduced) % 2
-----------------------------------------------------------------------------
VARIABLES
  stage,   \* the stage a rank is in; World after the last
  at,      \* "phase1", "barrier1", "phase2" or "barrier2" of the stage
  busy,    \* the rank has posted the ops of the phase
  posted   \* <<s, r, "send">> and <<s, r, "recv">>: the ops posted

vars == <<stage, at, busy, posted>>

Places == <<"phase1", "barrier1", "phase2", "barrier2">>

Init ==
  /\ stage  = [r \in Ranks |-> 1]
  /\ at     = [r \in Ranks |-> "phase1"]
  /\ busy   = [r \in Ranks |-> FALSE]
  /\ posted = {}

InPhase(r) == stage[r] < World /\ at[r] \in {"phase1", "phase2"}

\* Partition 0 sends in phase 1 and receives in phase 2.
Sending(r) == (Partition(r, stage[r]) = 0) <=> (at[r] = "phase1")

\* What the rank does in the phase, and what its peer does to meet it.
Mine(r) ==
  IF Sending(r) THEN <<r, Ahead(r, stage[r]), "send">>
                ELSE <<Behind(r, stage[r]), r, "recv">>

Peer(op) == <<op[1], op[2], IF op[3] = "send" THEN "recv" ELSE "send">>

Planned(op) == <<op[1], op[2]>> \in Plan

Barrier == [phase1 |-> "barrier1", phase2 |-> "barrier2"]

Post(r) ==
  /\ InPhase(r)
  /\ ~busy[r]
  /\ Planned(Mine(r))
  /\ posted' = posted \cup {Mine(r)}
  /\ busy' = [busy EXCEPT ![r] = TRUE]
  /\ UNCHANGED <<stage, at>>

\* The ops of the phase are done, or there are none.
EndPhase(r) ==
  /\ InPhase(r)
  /\ IF Planned(Mine(r)) THEN busy[r] /\ Peer(Mine(r)) \in posted ELSE TRUE
  /\ at' = [at EXCEPT ![r] = Barrier[@]]
  /\ busy' = [busy EXCEPT ![r] = FALSE]
  /\ UNCHANGED <<stage, posted>>

\* Every rank has come to place k of stage i.
Arrived(i, k) ==
  \A q \in Ranks : stage[q] > i \/ (stage[q] = i /\ at[q] \in {Places[j] : j \in k .. 4})

Barrier1(r) ==
  /\ at[r] = "barrier1"
  /\ Arrived(stage[r], 2)
  /\ at' = [at EXCEPT ![r] = "phase2"]
  /\ UNCHANGED <<stage, busy, posted>>

Barrier2(r) ==
  /\ at[r] = "barrier2"
  /\ Arrived(stage[r], 4)
  /\ at' = [at EXCEPT ![r] = "phase1"]
  /\ stage' = [stage EXCEPT ![r] = @ + 1]
  /\ UNCHANGED <<busy, posted>>

RankStep(r) == Post(r) \/ EndPhase(r) \/ Barrier1(r) \/ Barrier2(r)

Next == \E r \in Ranks : RankStep(r)

Spec == Init /\ [][Next]_vars

\* Every rank's thread keeps running.
FairSpec == Spec /\ WF_vars(Next)
=============================================================================
