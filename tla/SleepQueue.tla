----------------------------- MODULE SleepQueue ----------------------------
(***************************************************************************)
(* What the scheduler promises the code built on it (kernel/core/sched.c,  *)
(* waitqueue.c): a task sleeps on a queue until it is resumed once, with a *)
(* result that it keeps until it runs and reads it.  Processors, priorities*)
(* and the order of a queue are left out, so waking one task of a queue is *)
(* waking any.  Condvar.tla implements SleepSpec; Semaphore.tla and        *)
(* Mailbox.tla use the operators.                                          *)
(***************************************************************************)
EXTENDS Integers, FiniteSets

CONSTANTS Task, WaitQueue, Null

ASSUME SleepAssumption == Null \notin WaitQueue /\ IsFiniteSet(Task)

EINTR     == 4
EAGAIN    == 11
EINVAL    == 22
ETIMEDOUT == 116

VARIABLES status,        \* "awake", how the task sleeps, or "woken"
          on,            \* the queue it sleeps on
          sleep_result,  \* why the sleep ended
          timers         \* tasks with an entry in _k_sched_timeouts

sleepVars == <<status, on, sleep_result, timers>>

How == {"SLEEP", "SLEEP_UNWAKEABLE"}

Sleepers(q) == {t \in Task : status[t] \in How /\ on[t] = q}

\* Tasks woken with the result, which have not run yet.
Woken(q, result) ==
  {t \in Task : status[t] = "woken" /\ on[t] = q /\ sleep_result[t] = result}

SleepInit ==
  /\ status = [t \in Task |-> "awake"]
  /\ on = [t \in Task |-> Null]
  /\ sleep_result = [t \in Task |-> 0]
  /\ timers = {}

\* _k_sched_sleep up to the switch, also for a task that was just woken.
Sleep(t, q, how, timed) ==
  /\ status' = [status EXCEPT ![t] = how]
  /\ on' = [on EXCEPT ![t] = q]
  /\ sleep_result' = [sleep_result EXCEPT ![t] = 0]
  /\ timers' = IF timed THEN timers \cup {t} ELSE timers \ {t}

\* _k_sched_sleep after the switch; sleep_result is dead once it is returned.
Awake(t) ==
  /\ status' = [status EXCEPT ![t] = "awake"]
  /\ on' = [on EXCEPT ![t] = Null]
  /\ sleep_result' = [sleep_result EXCEPT ![t] = 0]
  /\ timers' = timers \ {t}

\* A set of sleeping tasks is resumed.
Resume(ts, result) ==
  /\ status' = [t \in Task |-> IF t \in ts THEN "woken" ELSE status[t]]
  /\ sleep_result' = [t \in Task |-> IF t \in ts THEN result ELSE sleep_result[t]]
  /\ UNCHANGED <<on, timers>>

WakeupOne(q, result) ==
  IF Sleepers(q) = {} THEN UNCHANGED sleepVars
  ELSE \E t \in Sleepers(q) : Resume({t}, result)

\* A task whose sleep has ended, or that did not sleep, wakes one of q.
AwakeAndWakeupOne(t, q, result) ==
  \E ts \in IF Sleepers(q) = {} THEN {{}} ELSE {{u} : u \in Sleepers(q)} :
    /\ status' = [u \in Task |-> IF u \in ts THEN "woken"
                                 ELSE IF u = t THEN "awake" ELSE status[u]]
    /\ sleep_result' = [u \in Task |-> IF u \in ts THEN result
                                       ELSE IF u = t THEN 0 ELSE sleep_result[u]]
    /\ on' = [on EXCEPT ![t] = Null]
    /\ timers' = timers \ {t}

WakeupAll(q, result) == Resume(Sleepers(q), result)

\* Mutant: a timer that expires after the wake-up still makes the call fail.
Timeout_late(t) ==
  /\ t \in timers
  /\ timers' = timers \ {t}
  /\ IF status[t] \in {"SLEEP", "woken"}
     THEN /\ status' = [status EXCEPT ![t] = "woken"]
          /\ sleep_result' = [sleep_result EXCEPT ![t] = -ETIMEDOUT]
     ELSE UNCHANGED <<status, sleep_result>>
  /\ UNCHANGED on

\* The entry of the task expires; an unwakeable sleep goes on without it.
Timeout(t) ==
  /\ t \in timers
  /\ timers' = timers \ {t}
  /\ IF status[t] = "SLEEP"
     THEN /\ status' = [status EXCEPT ![t] = "woken"]
          /\ sleep_result' = [sleep_result EXCEPT ![t] = -ETIMEDOUT]
     ELSE UNCHANGED <<status, sleep_result>>
  /\ UNCHANGED on

\* k_task_wake: an interruptible sleep ends.
Interrupt(t) == status[t] = "SLEEP" /\ Resume({t}, -EINTR)

----------------------------------------------------------------------------
(* The promise by itself. *)

SleepNext ==
  \E t \in Task :
    \/ /\ status[t] = "awake"
       /\ \E q \in WaitQueue, how \in How, timed \in BOOLEAN : Sleep(t, q, how, timed)
    \/ status[t] = "woken" /\ Awake(t)
    \/ \E r \in {0, -EINVAL, EINVAL} : status[t] \in How /\ Resume({t}, r)
    \/ Timeout(t)
    \/ Interrupt(t)

SleepSpec == SleepInit /\ [][SleepNext]_sleepVars

============================================================================
