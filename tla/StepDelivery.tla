---------------------------- MODULE StepDelivery ----------------------------
(***************************************************************************)
(* What the device transport promises its callers, without slots, lanes,   *)
(* tickets or epochs: writer/nccl_writer.py and reader/nccl_reader.py call *)
(* send and recv once per step, and a call that returns has moved that     *)
(* step's weights.                                                         *)
(*                                                                         *)
(*  - a segment of a tensor only ever moves to the step its receiver is    *)
(*    running, once, and only after its sender has started that step;      *)
(*  - a receiver's call returns only with all its segments at its step;    *)
(*  - a sender's call returns only with all its segments at its step;      *)
(*  - any call may throw instead, and the next call starts the next step.  *)
(***************************************************************************)
EXTENDS Naturals

CONSTANTS Ranks,    \* senders and receivers
          Segments  \* triples <<receiver, sender, ordinal>>

VARIABLES call,     \* the rank's last call: "running", "returned" or "threw"
          step,     \* the step of the rank's last call
          version   \* the step whose weights a segment holds

vars == <<call, step, version>>

Init ==
  /\ call    = [r \in Ranks |-> "returned"]
  /\ step    = [r \in Ranks |-> 0]
  /\ version = [x \in Segments |-> 0]

Begin(r) ==
  /\ call[r] # "running"
  /\ call' = [call EXCEPT ![r] = "running"]
  /\ step' = [step EXCEPT ![r] = @ + 1]
  /\ UNCHANGED version

Deliver(x) ==
  /\ call[x[1]] = "running"
  /\ version[x] < step[x[1]]
  /\ step[x[2]] >= step[x[1]]
  /\ version' = [version EXCEPT ![x] = step[x[1]]]
  /\ UNCHANGED <<call, step>>

Return(r) ==
  /\ call[r] = "running"
  /\ \A x \in Segments :
       /\ x[1] = r => version[x] = step[r]
       /\ x[2] = r => version[x] >= step[r]
  /\ call' = [call EXCEPT ![r] = "returned"]
  /\ UNCHANGED <<step, version>>

Throw(r) ==
  /\ call[r] = "running"
  /\ call' = [call EXCEPT ![r] = "threw"]
  /\ UNCHANGED <<step, version>>

Next ==
  \/ \E r \in Ranks : Begin(r) \/ Return(r) \/ Throw(r)
  \/ \E x \in Segments : Deliver(x)

Spec == Init /\ [][Next]_vars
=============================================================================
