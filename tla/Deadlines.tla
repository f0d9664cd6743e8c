----------------------------- MODULE Deadlines -----------------------------
(***************************************************************************)
(* What kernel timers promise.  A timer that waits has a number of ticks   *)
(* left.  The ticks counted are handed to all of them together, so that    *)
(* none is passed over: a callback starts when its timer has no ticks      *)
(* left, and callbacks run one at a time.                                  *)
(***************************************************************************)
EXTENDS Integers

CONSTANTS Timer, None

VARIABLES left,   \* the ticks left to each timer, or None
          drift,  \* how far the counter is from where the last tick left it
          due,    \* the ticks taken from the counter and not yet handed out
          firing  \* the timer whose callback runs, or None

vars == <<left, drift, due, firing>>

Init ==
  /\ left = [t \in Timer |-> None]
  /\ drift = 0
  /\ due = 0
  /\ firing = None

\* The counter is set.
Set == UNCHANGED <<left, due, firing>>

\* A tick: no tick of an earlier one is still due.
Tick ==
  /\ due = 0
  /\ due' = drift + 1
  /\ drift' = 0
  /\ UNCHANGED <<left, firing>>

\* Ticks are handed out.  When the counter was set back they are negative.
Advance ==
  /\ firing = None
  /\ left' = [t \in Timer |-> IF left[t] = None THEN None
                                                ELSE left[t] - (due - due')]
  /\ \A t \in Timer : left'[t] # None => left'[t] >= 0
  /\ UNCHANGED <<drift, firing>>

\* t waits for one tick at least.
Begin(t) ==
  /\ left[t] = None
  /\ left'[t] # None /\ left'[t] > 0
  /\ left' = [left EXCEPT ![t] = left'[t]]
  /\ UNCHANGED <<drift, due>>

Start(t) == Begin(t) /\ UNCHANGED firing

Stop(t) == left' = [left EXCEPT ![t] = None] /\ UNCHANGED <<drift, due, firing>>

Fire(t) ==
  /\ firing = None
  /\ left[t] = 0
  /\ left' = [left EXCEPT ![t] = None]
  /\ firing' = t
  /\ UNCHANGED <<drift, due>>

\* The callback returns; a periodic timer that was not touched waits again.
\* Ticks that no timer waits for are dropped.
Done(t) ==
  /\ firing = t
  /\ firing' = None
  /\ \/ UNCHANGED left /\ (UNCHANGED due \/ \A u \in Timer : left[u] = None)
     \/ Begin(t)
  /\ UNCHANGED drift

Next ==
  \/ Set
  \/ Tick
  \/ Advance
  \/ \E t \in Timer : Start(t) \/ Stop(t) \/ Fire(t) \/ Done(t)

Spec == Init /\ [][Next]_vars

============================================================================
