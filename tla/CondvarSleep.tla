---------------------------- MODULE CondvarSleep ---------------------------
(***************************************************************************)
(* Scheduler, mutexes and condition variables implement SleepQueue.tla.    *)
(***************************************************************************)
EXTENDS Condvar

\* A task sleeps from the switch in _k_sched_sleep to the one that resumes it,
\* and is woken from then until it runs and reads the result.
InSleep(t) == kont[t].at \in {"lock.sleep", "wait.sleep"}

Service == INSTANCE SleepQueue WITH
  status <- [t \in Task |-> IF Sleeping(t) THEN state[t]
                            ELSE IF InSleep(t) THEN "woken" ELSE "awake"],
  on     <- [t \in Task |-> IF InSleep(t) THEN SleepsOn(t) ELSE Null],
  timers <- timeouts

\* Every sleep is ended by one resume, whose result reaches the task whatever
\* happens before it runs; timeouts and interrupts end only the sleeps they may
\* (sched.c: _k_sched_sleep, _k_sched_resume, k_task_timeout_callback).
KeepsSleepPromise == Service!SleepSpec

============================================================================
