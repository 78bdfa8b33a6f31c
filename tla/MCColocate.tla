----------------------------- MODULE MCColocate -----------------------------
(***************************************************************************)
(* Instances of ColocateTransports for TLC.                                *)
(***************************************************************************)
EXTENDS ColocateTransports

\* Uneven plans: every pair has its own number of ops, some none.
UnevenOps ==
  [s \in 0 .. World - 1 |-> [r \in 0 .. World - 1 |->
     IF s = r THEN 0 ELSE (2 * s + r) % 4]]

\* Ranks whose budgets give different step sizes.
UnevenStep == [r \in 0 .. World - 1 |-> IF r = 1 THEN 1 ELSE 2]

\* Every rank has ops for every other.
FullPlan == {p \in (0 .. StagesWorld - 1) \X (0 .. StagesWorld - 1) : p[1] # p[2]}
=============================================================================
