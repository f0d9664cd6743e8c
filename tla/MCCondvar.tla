----------------------------- MODULE MCCondvar -----------------------------
(***************************************************************************)
(* Instances of Condvar.tla for TLC.                                       *)
(***************************************************************************)
EXTENDS CondvarSleep, TLC

CONSTANTS c1, c2, low, mid, high, m1, m2, cv

ThreeTasks == (low :> 2) @@ (mid :> 1) @@ (high :> 0)
TwoTasks   == (low :> 1) @@ (high :> 0)

============================================================================
