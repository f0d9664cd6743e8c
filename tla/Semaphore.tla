----------------------------- MODULE Semaphore -----------------------------
(***************************************************************************)
(* Counting semaphores (kernel/core/semaphore.c).                          *)
(*                                                                         *)
(* sem->lock is held from the test of the count until the task is in the   *)
(* queue, and over all of k_semaphore_put, so each of these is one step; a *)
(* task that was woken takes the lock again and tests again.               *)
(***************************************************************************)
EXTENDS SleepQueue

CONSTANTS sem,           \* the semaphore, named by its queue
          InitialCount,
          MaxCount       \* bound on the count

ASSUME SemaphoreAssumption ==
  /\ sem \in WaitQueue
  /\ InitialCount \in Nat /\ MaxCount \in Nat

VARIABLES count,  \* sem->count
          type,   \* the semaphore is valid
          call    \* the arguments of k_semaphore_timed_get, or NoCall

vars == <<sleepVars, count, type, call>>

NoCall == [how |-> "none", timed |-> FALSE]

\* The types; the count is never negative (semaphore.c:140, 168).
TypeOK ==
  /\ status \in [Task -> How \cup {"awake", "woken"}]
  /\ on \in [Task -> WaitQueue \cup {Null}]
  /\ sleep_result \in [Task -> {0, -EINTR, -EINVAL, -ETIMEDOUT}]
  /\ timers \subseteq Task
  /\ count \in Nat
  /\ type \in BOOLEAN
  /\ call \in [Task -> [how : How \cup {"none"}, timed : BOOLEAN]]

Init ==
  /\ SleepInit
  /\ count = InitialCount
  /\ type = TRUE
  /\ call = [t \in Task |-> NoCall]

----------------------------------------------------------------------------

\* Task t is not in a call and may make one.
Free(t) == status[t] = "awake" /\ type

k_semaphore_try_get_locked == count > 0 /\ count' = count - 1

k_semaphore_try_get(t) ==
  /\ Free(t)
  /\ k_semaphore_try_get_locked
  /\ UNCHANGED <<sleepVars, type, call>>

\* One pass of the loop of k_semaphore_timed_get.
TimedGet(t, args) ==
  \/ /\ k_semaphore_try_get_locked
     /\ Awake(t)
     /\ call' = [call EXCEPT ![t] = NoCall]
  \/ /\ count = 0
     /\ Sleep(t, sem, args.how, args.timed)
     /\ call' = [call EXCEPT ![t] = args]
     /\ UNCHANGED count

k_semaphore_timed_get(t, how, timed) ==
  /\ Free(t)
  /\ TimedGet(t, [how |-> how, timed |-> timed])
  /\ UNCHANGED type

\* _k_sched_sleep returns: an error ends the call, otherwise the loop goes on
\* with the whole timeout again.
k_semaphore_awake(t) ==
  /\ status[t] = "woken"
  /\ IF sleep_result[t] < 0
     THEN /\ Awake(t)
          /\ call' = [call EXCEPT ![t] = NoCall]
          /\ UNCHANGED count
     ELSE TimedGet(t, call[t])
  /\ UNCHANGED type

\* Mutant: a task is woken only when the count leaves zero.
k_semaphore_put_first ==
  /\ type
  /\ count < MaxCount
  /\ count' = count + 1
  /\ IF count = 0 THEN WakeupOne(sem, 0) ELSE UNCHANGED sleepVars
  /\ UNCHANGED <<type, call>>

\* Also called by interrupt handlers.
k_semaphore_put ==
  /\ type
  /\ count < MaxCount
  /\ count' = count + 1
  /\ WakeupOne(sem, 0)
  /\ UNCHANGED <<type, call>>

\* The caller makes sure that no task is inside a call other than asleep.
k_semaphore_destroy ==
  /\ type
  /\ \A t \in Task : status[t] # "woken"
  /\ WakeupAll(sem, -EINVAL)
  /\ type' = FALSE
  /\ UNCHANGED <<count, call>>

k_semaphore_create ==
  /\ ~type
  /\ \A t \in Task : status[t] = "awake"
  /\ count' = InitialCount
  /\ type' = TRUE
  /\ UNCHANGED <<sleepVars, call>>

Next ==
  \/ k_semaphore_put
  \/ k_semaphore_destroy
  \/ k_semaphore_create
  \/ \E t \in Task :
       \/ k_semaphore_try_get(t)
       \/ \E how \in How, timed \in BOOLEAN : k_semaphore_timed_get(t, how, timed)
       \/ k_semaphore_awake(t)
       \/ (Timeout(t) \/ Interrupt(t)) /\ UNCHANGED <<count, type, call>>

Spec == Init /\ [][Next]_vars

\* A task that is ready runs.
FairSpec == Spec /\ \A t \in Task : WF_vars(k_semaphore_awake(t))

----------------------------------------------------------------------------
(* Properties. *)

\* No put is lost: while tasks sleep, every unit of the count has a task on its
\* way to take it, so no task sleeps on a semaphore that nobody will look at,
\* even if the tasks woken for it time out, are interrupted or are overtaken.
NoLostPut ==
  Sleepers(sem) # {} => count <= Cardinality(Woken(sem, 0))

\* A count that sleeping tasks could take does not stay: it is taken, or the
\* tasks are woken.
CountIsTaken ==
  count > 0 /\ Sleepers(sem) # {} ~> count = 0 \/ Sleepers(sem) = {}

============================================================================
