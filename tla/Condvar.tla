------------------------------ MODULE Condvar ------------------------------
(***************************************************************************)
(* Condition variables (kernel/core/condvar.c), and the specification of   *)
(* scheduler, mutexes and condition variables together: any task may make  *)
(* any call its contract allows, on any CPU, in any order.                 *)
(***************************************************************************)
EXTENDS Mutex

CONSTANT Cond

ASSUME CondAssumption ==
  /\ Cond \subseteq WaitQueue \ Mutex
  /\ WaitQueue = Mutex \cup Cond

vars == <<schedVars, mutexVars>>

----------------------------------------------------------------------------

\* The mutex is released and the task goes to sleep inside one section of the
\* scheduler lock: this step, then k_condvar_sleep with the lock still held.
k_condvar_timed_wait(c, t, cond, m) ==
  /\ MayEnter(c, t)
  /\ cond \notin finalised
  /\ owner[m] = t
  /\ k_mutex_unlock_locked(t, m)
  /\ sched_lock' = c
  /\ kont' = [kont EXCEPT ![t] = [at |-> "wait.block", mutex |-> m,
                                  cond |-> cond, timed |-> FALSE]]
  /\ UNCHANGED <<cpu_task, timeouts, loop, panic, sleep_on_mutex,
                 finalised>>

\* how and timed are the arguments options and timeout of the call.
k_condvar_sleep(c, t, how, timed) ==
  /\ Inside(c, t)
  /\ kont[t].at = "wait.block"
  /\ k_sched_sleep(c, t, kont[t].cond, how, timed)
  /\ kont' = [kont EXCEPT ![t].at = "wait.sleep", ![t].timed = timed]
  /\ UNCHANGED <<priority, sched_queue, sleep_result, loop, panic,
                 mutexVars>>

\* _k_sched_sleep returns and the mutex is locked again, without a timeout.
k_condvar_awake(c, t) ==
  /\ Inside(c, t)
  /\ kont[t].at = "wait.sleep"
  /\ timeouts' = timeouts \ {t}
  /\ sleep_result' = [sleep_result EXCEPT ![t] = 0]
  /\ TimedLock(c, t, kont[t].mutex, FALSE, kont[t].cond)
  /\ UNCHANGED <<cpu_task, state, priority, sched_queue, queue,
                 mutex_priority, sleep_on_mutex, finalised>>

k_condvar_notify_one(c, t, cond) ==
  /\ MayEnter(c, t)
  /\ cond \notin finalised
  /\ queue[cond] # <<>>
  /\ k_sched_wakeup_one_locked(cond, 0)
  /\ UNCHANGED <<sched_lock, cpu_task, priority, timeouts, kont, loop,
                 panic, mutexVars>>

k_condvar_notify_all(c, t, cond) ==
  /\ MayEnter(c, t)
  /\ cond \notin finalised
  /\ StartWakeupAll(c, cond, 0)
  /\ UNCHANGED mutexVars

k_condvar_destroy(c, t, cond) ==
  /\ MayEnter(c, t)
  /\ cond \notin finalised
  /\ finalised' = finalised \cup {cond}
  /\ StartWakeupAll(c, cond, EINVAL)
  /\ UNCHANGED <<owner, mutex_priority, sleep_on_mutex>>

k_condvar_create(cond) ==
  /\ panic = "none"
  /\ cond \in finalised
  /\ loop.obj # cond
  /\ \A u \in Task : kont[u].cond # cond
  /\ finalised' = finalised \ {cond}
  /\ queue' = [queue EXCEPT ![cond] = <<>>]
  /\ UNCHANGED <<sched_lock, cpu_task, state, priority, sched_queue, timeouts,
                 sleep_result, kont, loop, panic, owner, mutex_priority,
                 sleep_on_mutex>>

----------------------------------------------------------------------------
(* The specification. *)

\* Steps that the holder of the scheduler lock takes until it releases it.
LockedStep(c) ==
  \/ k_sched_switch(c) /\ UNCHANGED mutexVars
  \/ k_sched_idle(c) /\ UNCHANGED mutexVars
  \/ k_sched_wakeup_all_locked(c) /\ UNCHANGED mutexVars
  \/ k_mutex_may_raise_priority(c)
  \/ \E t \in Task :
       \/ k_task_run(c, t) /\ UNCHANGED mutexVars
       \/ k_mutex_sleep(c, t)
       \/ k_mutex_awake(c, t)
       \/ k_condvar_awake(c, t)
       \/ \E how \in {"SLEEP", "SLEEP_UNWAKEABLE"}, timed \in BOOLEAN :
            k_condvar_sleep(c, t, how, timed)

\* Calls made by the task that runs on c, and the interrupt that preempts it.
Call(c, t) ==
  \/ k_task_yield(c, t) /\ UNCHANGED mutexVars
  \/ k_irq_handler_end(c, t) /\ UNCHANGED mutexVars
  \/ Leaves(c, t)
  \/ \E m \in Mutex :
       \/ k_mutex_try_lock(c, t, m)
       \/ \E timed \in BOOLEAN : k_mutex_timed_lock(c, t, m, timed)
       \/ k_mutex_unlock(c, t, m)
       \/ k_mutex_fini(c, t, m)
       \/ \E cond \in Cond : k_condvar_timed_wait(c, t, cond, m)
  \/ \E cond \in Cond :
       \/ k_condvar_notify_one(c, t, cond)
       \/ k_condvar_notify_all(c, t, cond)
       \/ k_condvar_destroy(c, t, cond)

\* Steps of start-up code and of interrupt handlers.
Elsewhere ==
  \/ \E c \in CPU : k_sched_start(c) /\ UNCHANGED mutexVars
  \/ \E c \in CPU, t \in Task : k_task_resume(c, t) /\ UNCHANGED mutexVars
  \/ \E t \in Task : k_task_timeout_callback(t) /\ UNCHANGED mutexVars
  \/ \E t \in Task : k_task_wake(t)
  \/ \E m \in Mutex : k_mutex_init(m)
  \/ \E cond \in Cond : k_condvar_create(cond)
  \/ Halted /\ UNCHANGED mutexVars

Next ==
  \/ \E c \in CPU : LockedStep(c)
  \/ \E c \in CPU, t \in Task : Call(c, t)
  \/ Elsewhere

Init == MutexInit

Spec == Init /\ [][Next]_vars

\* The holder of the scheduler lock has interrupts off and is not preempted.
FairSpec == Spec /\ \A c \in CPU : WF_vars(LockedStep(c))

----------------------------------------------------------------------------
(* Properties. *)

Kont ==
  [at : {"return", "lock.block", "lock.sleep", "wait.block", "wait.sleep"},
   mutex : Mutex \cup {Null}, cond : Cond \cup {Null}, timed : BOOLEAN]

Loop ==
  [op : {"none", "raise", "wakeup_all"}, obj : WaitQueue \cup {Null},
   arg : Int]

\* The variables of the scheduler, the mutexes and the condition variables
\* hold values of the types the code declares for them.
TypeOK ==
  /\ sched_lock \in CPU \cup {Null}
  /\ cpu_task \in [CPU -> Task \cup {Null}]
  /\ state \in [Task -> TaskState]
  /\ priority \in [Task -> Priority]
  /\ sched_queue \in [Priority -> Seq(Task)]
  /\ queue \in [WaitQueue -> Seq(Task)]
  /\ timeouts \in SUBSET Task
  /\ sleep_result \in [Task -> Result]
  /\ kont \in [Task -> Kont]
  /\ loop \in Loop
  /\ panic \in {"none", "no owner", "lock order"}
  /\ owner \in [Mutex -> Task \cup {Null}]
  /\ mutex_priority \in [Mutex -> 0 .. MaxPriorities]
  /\ sleep_on_mutex \in [Task -> Mutex \cup {Null}]
  /\ finalised \in SUBSET WaitQueue

\* The queue a sleeping task is on.
SleepsOn(t) == IF kont[t].at = "lock.sleep" THEN kont[t].mutex ELSE kont[t].cond

\* A task has one link: a ready task is once in the run queue of its current
\* priority, a sleeping task once in the queue it sleeps on, a running task on
\* one CPU, and no task anywhere else (sched.c: enqueue, resume, raise).
OneList ==
  /\ \A p \in Priority : NoRepeat(sched_queue[p])
  /\ \A t \in Task, p \in Priority :
       In(t, sched_queue[p]) <=> state[t] = "READY" /\ priority[t] = p
  /\ \A q \in WaitQueue : NoRepeat(queue[q])
  /\ \A t \in Task, q \in WaitQueue :
       In(t, queue[q]) <=> Sleeping(t) /\ SleepsOn(t) = q
  /\ \A c \in CPU : cpu_task[c] # Null => state[cpu_task[c]] = "RUNNING"
  /\ \A t \in Task : state[t] = "RUNNING" => \E c \in CPU : cpu_task[c] = t
  /\ \A c, d \in CPU : cpu_task[c] = cpu_task[d] /\ cpu_task[c] # Null => c = d

\* Priority inheritance: once the chain of owners has been followed, no task
\* sleeps on a mutex at a higher priority than its owner runs at, through any
\* number of mutexes (mutex.c: _k_mutex_may_raise_priority).
PriorityInheritance ==
  loop.op # "raise" =>
    \A m \in Mutex, t \in Task :
      owner[m] # Null /\ In(t, queue[m]) => priority[owner[m]] <= priority[t]

\* A task runs exactly at the higher of its own priority and those of the
\* mutexes it owns, so a boost ends with the last mutex that caused it
\* (sched.c: _k_sched_update_effective_priority).
BoostIsExact ==
  \A t \in Task :
    /\ priority[t] <= SavedPriority[t]
    /\ \A m \in Mutex : owner[m] = t => priority[t] <= mutex_priority[m]
    /\ \/ priority[t] = SavedPriority[t]
       \/ \E m \in Mutex : owner[m] = t /\ priority[t] = mutex_priority[m]

\* The tasks asleep on a mutex are in order of their current priorities, those
\* raised while asleep included, so unlocking wakes a highest one.
MutexQueueOrdered == \A m \in Mutex : Ordered(queue[m], priority)

\* Nobody is left asleep on a free mutex: some task that unlocking woke is
\* still on its way to try again (mutex.c: _k_mutex_unlock wakes only one).
NoStrandedWaiter ==
  \A m \in Mutex, u \in Task :
    owner[m] = Null /\ In(u, queue[m]) /\ m \notin finalised
      => \E t \in Task : /\ kont[t].at = "lock.sleep" /\ kont[t].mutex = m
                         /\ ~Sleeping(t) /\ sleep_result[t] = 0

\* The timer of a task is in _k_sched_timeouts only while the task is in the
\* timed sleep that put it there: it cannot end a later sleep.
NoStaleTimer ==
  \A t \in timeouts : kont[t].timed /\ kont[t].at \in {"lock.sleep", "wait.sleep"}

\* k_condvar_timed_wait returns to its caller only with the mutex held again,
\* whatever ended the sleep (condvar.c: "always re-acquired").
ReturnsWithMutex ==
  [][\A t \in Task :
       kont[t].cond # Null /\ kont'[t] = Returning
         => owner'[kont[t].mutex] = t]_vars

\* The scheduler lock is always released: waking a queue and following a chain
\* of owners end, also when the tasks involved wait for each other in a circle.
LockIsReleased ==
  \A c \in CPU : sched_lock = c ~> (sched_lock # c \/ panic # "none")

----------------------------------------------------------------------------
(* What an assertion of the code says and the code does not do. *)

\* The assertion of _k_mutex_may_raise_priority: a mutex that a chain of
\* priority raises reaches has an owner.
RaisedMutexHasOwner == panic # "no owner"

============================================================================
