------------------------------ MODULE MCTimer ------------------------------
(* Instances of Timer for TLC: ticks of two microseconds. *)
EXTENDS Timer, TLC

\* Disarm; one tick once; two ticks (rounded down) then every tick; three ticks.
MCRequest == {<<0, 0>>, <<2, 1>>, <<5, 2>>, <<6, 4>>}

\* Set back, as expected, and set forward.
MCDrift == {-2, 0, 1}


============================================================================
