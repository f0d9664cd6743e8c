------------------------------- MODULE Mutex -------------------------------
(***************************************************************************)
(* Mutexes with priority inheritance (kernel/core/mutex.c and the parts of *)
(* sched.c and task.c that look at them).                                  *)
(*                                                                         *)
(* A mutex is identified with the head of its queue, so Mutex is a subset  *)
(* of WaitQueue.  The list owned_mutexes of a task is the set of mutexes   *)
(* whose owner is the task: the code changes the two together.             *)
(***************************************************************************)
EXTENDS Sched

CONSTANT Mutex

ASSUME MutexAssumption == Mutex \subseteq WaitQueue

VARIABLES owner,           \* mutex->owner
          mutex_priority,  \* mutex->priority, MaxPriorities if nobody waits
          sleep_on_mutex,  \* task->sleep_on_mutex
          finalised        \* objects destroyed and not initialised again

mutexVars == <<owner, mutex_priority, sleep_on_mutex, finalised>>

Owned(t) == {m \in Mutex : owner[m] = t}

MutexInit ==
  /\ SchedInit
  /\ owner = [m \in Mutex |-> Null]
  /\ mutex_priority = [m \in Mutex |-> MaxPriorities]
  /\ sleep_on_mutex = [t \in Task |-> Null]
  /\ finalised = {}

----------------------------------------------------------------------------
(* Priority inheritance. *)

\* Mutant: a ready task stays in the run queue of its old priority.
k_sched_raise_priority_unmoved(t, p) ==
  /\ priority' = [priority EXCEPT ![t] = p]
  /\ loop' = NoLoop
  /\ UNCHANGED <<queue, sched_queue>>

\* Mutant: the chain stops at a task that sleeps on another mutex.
k_sched_raise_priority_unchained(t, p) ==
  /\ priority' = [priority EXCEPT ![t] = p]
  /\ IF state[t] = "READY"
     THEN /\ sched_queue' =
               [sched_queue EXCEPT ![priority[t]] = k_list_remove(@, t),
                                   ![p] = Append(@, t)]
          /\ UNCHANGED queue
     ELSE IF Sleeping(t) /\ sleep_on_mutex[t] # Null
     THEN /\ queue' = [queue EXCEPT ![sleep_on_mutex[t]] =
                         k_sched_add(k_list_remove(@, t), t, p)]
          /\ UNCHANGED sched_queue
     ELSE UNCHANGED <<sched_queue, queue>>
  /\ loop' = NoLoop

\* _k_sched_raise_priority: a ready task changes run queue; a task asleep on a
\* mutex moves up in its queue and the chain goes on with that mutex.
k_sched_raise_priority(t, p) ==
  /\ priority' = [priority EXCEPT ![t] = p]
  /\ IF state[t] = "READY"
     THEN /\ sched_queue' =
               [sched_queue EXCEPT ![priority[t]] = k_list_remove(@, t),
                                   ![p] = Append(@, t)]
          /\ loop' = NoLoop
          /\ UNCHANGED queue
     ELSE IF Sleeping(t) /\ sleep_on_mutex[t] # Null
     THEN /\ queue' = [queue EXCEPT ![sleep_on_mutex[t]] =
                         k_sched_add(k_list_remove(@, t), t, p)]
          /\ loop' = [loop EXCEPT !.obj = sleep_on_mutex[t]]
          /\ UNCHANGED sched_queue
     ELSE /\ loop' = NoLoop
          /\ UNCHANGED <<sched_queue, queue>>

\* Mutant: a mutex that has the priority already passes it on again.
k_mutex_may_raise_priority_again(c) ==
  /\ panic = "none"
  /\ sched_lock = c
  /\ loop.op = "raise"
  /\ LET m == loop.obj
         p == loop.arg
     IN /\ owner[m] # Null
        /\ mutex_priority' = [mutex_priority EXCEPT ![m] = p]
        /\ k_sched_raise_priority(owner[m], p)
  /\ UNCHANGED <<sched_lock, cpu_task, state, timeouts, sleep_result, kont,
                 panic, owner, sleep_on_mutex, finalised>>

\* One link of the chain: the mutex takes the priority of its new waiter and
\* passes it to its owner.
k_mutex_may_raise_priority(c) ==
  /\ panic = "none"
  /\ sched_lock = c
  /\ loop.op = "raise"
  /\ LET m == loop.obj
         p == loop.arg
     IN IF owner[m] = Null
        THEN k_panic("no owner") /\ UNCHANGED mutexVars
        ELSE /\ IF mutex_priority[m] > p
                THEN /\ mutex_priority' = [mutex_priority EXCEPT ![m] = p]
                     /\ IF priority[owner[m]] > p
                        THEN k_sched_raise_priority(owner[m], p)
                        ELSE /\ loop' = NoLoop
                             /\ UNCHANGED <<priority, sched_queue, queue>>
                ELSE /\ loop' = NoLoop
                     /\ UNCHANGED <<mutex_priority, priority, sched_queue,
                                    queue>>
             /\ UNCHANGED <<sched_lock, cpu_task, state, timeouts,
                            sleep_result, kont, panic, owner,
                            sleep_on_mutex, finalised>>

----------------------------------------------------------------------------
(* Locking. *)

\* k_mutex_try_lock_locked on a free mutex, then the return of the caller.
Acquire(t, m) ==
  IF priority[t] <= mutex_priority[m]
  THEN /\ owner' = [owner EXCEPT ![m] = t]
       /\ kont' = [kont EXCEPT ![t] = Returning]
       /\ sched_lock' = Null
       /\ UNCHANGED <<loop, panic>>
  ELSE /\ panic' = "lock order"
       /\ UNCHANGED <<owner, kont, sched_lock, loop>>

\* The body of the loop of _k_mutex_timed_lock: take the mutex, or raise the
\* priority of its owner and then go to sleep.
TimedLock(c, t, m, timed, cond) ==
  IF owner[m] = Null
  THEN Acquire(t, m)
  ELSE /\ sched_lock' = c
       /\ loop' = [op |-> "raise", obj |-> m, arg |-> priority[t]]
       /\ kont' = [kont EXCEPT ![t] = [at |-> "lock.block", mutex |-> m,
                                       cond |-> cond, timed |-> timed]]
       /\ UNCHANGED <<owner, panic>>

\* On a mutex that is taken the call returns an error and changes nothing.
k_mutex_try_lock(c, t, m) ==
  /\ MayEnter(c, t)
  /\ m \notin finalised
  /\ owner[m] = Null
  /\ Acquire(t, m)
  /\ UNCHANGED <<cpu_task, state, priority, sched_queue, queue, timeouts,
                 sleep_result, mutex_priority, sleep_on_mutex, finalised>>

\* On a mutex the task owns already the call returns K_ERR_DEADLK.
k_mutex_timed_lock(c, t, m, timed) ==
  /\ MayEnter(c, t)
  /\ m \notin finalised
  /\ owner[m] # t
  /\ TimedLock(c, t, m, timed, Null)
  /\ UNCHANGED <<cpu_task, state, priority, sched_queue, queue, timeouts,
                 sleep_result, mutex_priority, sleep_on_mutex, finalised>>

k_mutex_sleep(c, t) ==
  /\ Inside(c, t)
  /\ kont[t].at = "lock.block"
  /\ sleep_on_mutex' = [sleep_on_mutex EXCEPT ![t] = kont[t].mutex]
  /\ k_sched_sleep(c, t, kont[t].mutex, "SLEEP", kont[t].timed)
  /\ kont' = [kont EXCEPT ![t].at = "lock.sleep"]
  /\ UNCHANGED <<priority, sched_queue, sleep_result, loop, panic, owner,
                 mutex_priority, finalised>>

\* Mutant: the timer of a task woken before it expires stays queued.
k_mutex_awake_armed(c, t) ==
  /\ Inside(c, t)
  /\ kont[t].at = "lock.sleep"
  /\ sleep_on_mutex' = [sleep_on_mutex EXCEPT ![t] = Null]
  /\ sleep_result' = [sleep_result EXCEPT ![t] = 0]
  /\ IF sleep_result[t] < 0
     THEN /\ kont' = [kont EXCEPT ![t] = Returning]
          /\ sched_lock' = Null
          /\ UNCHANGED <<owner, loop, panic>>
     ELSE TimedLock(c, t, kont[t].mutex, kont[t].timed, kont[t].cond)
  /\ UNCHANGED <<cpu_task, state, priority, sched_queue, queue, timeouts,
                 mutex_priority, finalised>>

\* _k_sched_sleep returns in _k_mutex_timed_lock: an error ends the call,
\* otherwise the loop tries again.  sleep_result is dead after this read.
k_mutex_awake(c, t) ==
  /\ Inside(c, t)
  /\ kont[t].at = "lock.sleep"
  /\ timeouts' = timeouts \ {t}
  /\ sleep_on_mutex' = [sleep_on_mutex EXCEPT ![t] = Null]
  /\ sleep_result' = [sleep_result EXCEPT ![t] = 0]
  /\ IF sleep_result[t] < 0
     THEN /\ kont' = [kont EXCEPT ![t] = Returning]
          /\ sched_lock' = Null
          /\ UNCHANGED <<owner, loop, panic>>
     ELSE TimedLock(c, t, kont[t].mutex, kont[t].timed, kont[t].cond)
  /\ UNCHANGED <<cpu_task, state, priority, sched_queue, queue,
                 mutex_priority, finalised>>

----------------------------------------------------------------------------
(* Unlocking. *)

\* _k_mutex_recalc_priority: the priority of the first task still queued.
k_mutex_recalc_priority(list) ==
  IF list = <<>> THEN MaxPriorities ELSE priority[Head(list)]

\* Mutant: a priority that was raised is not lowered again.
EffectivePriority_kept(t, mutexes) ==
  Min({priority[t]} \cup {mutex_priority[m] : m \in mutexes})

\* _k_sched_update_effective_priority for a task that owns the given mutexes.
EffectivePriority(t, mutexes) ==
  Min({SavedPriority[t]} \cup {mutex_priority[m] : m \in mutexes})

\* _k_mutex_unlock: one waiter is made ready, and no one owns the mutex.
k_mutex_unlock_locked(t, m) ==
  /\ owner' = [owner EXCEPT ![m] = Null]
  /\ k_sched_wakeup_one_locked(m, 0)
  /\ mutex_priority' =
       [mutex_priority EXCEPT ![m] = k_mutex_recalc_priority(queue'[m])]
  /\ priority' =
       [priority EXCEPT ![t] = EffectivePriority(t, Owned(t) \ {m})]

k_mutex_unlock(c, t, m) ==
  /\ MayEnter(c, t)
  /\ owner[m] = t
  /\ k_mutex_unlock_locked(t, m)
  /\ UNCHANGED <<sched_lock, cpu_task, timeouts, kont, loop, panic,
                 sleep_on_mutex, finalised>>

----------------------------------------------------------------------------
(* Life cycle, and the operations on tasks that look at mutexes. *)

\* The callers finalise a mutex that no task owns or is about to take; tasks
\* asleep on it are woken with an error.
k_mutex_fini(c, t, m) ==
  /\ MayEnter(c, t)
  /\ m \notin finalised
  /\ owner[m] = Null
  /\ \A u \in Task : kont[u].mutex = m => Sleeping(u) /\ kont[u].cond = Null
  /\ finalised' = finalised \cup {m}
  /\ StartWakeupAll(c, m, -EINVAL)
  /\ UNCHANGED <<owner, mutex_priority, sleep_on_mutex>>

\* The object is used again once k_mutex_fini and the failed calls returned.
k_mutex_init(m) ==
  /\ panic = "none"
  /\ m \in finalised
  /\ loop.obj # m
  /\ \A u \in Task : kont[u].mutex # m
  /\ finalised' = finalised \ {m}
  /\ owner' = [owner EXCEPT ![m] = Null]
  /\ mutex_priority' = [mutex_priority EXCEPT ![m] = MaxPriorities]
  /\ queue' = [queue EXCEPT ![m] = <<>>]
  /\ UNCHANGED <<sched_lock, cpu_task, state, priority, sched_queue, timeouts,
                 sleep_result, kont, loop, panic, sleep_on_mutex>>

\* Mutant: a sleep on a mutex is interrupted like any other.
k_task_wake_any(t) ==
  /\ panic = "none"
  /\ sched_lock = Null
  /\ state[t] = "SLEEP"
  /\ k_sched_resume(t, -EINTR)
  /\ UNCHANGED <<sched_lock, cpu_task, priority, timeouts, kont, loop,
                 panic, mutexVars>>

\* Interrupts a sleep that is interruptible and not on a mutex.
k_task_wake(t) ==
  /\ panic = "none"
  /\ sched_lock = Null
  /\ sleep_on_mutex[t] = Null
  /\ state[t] = "SLEEP"
  /\ k_sched_resume(t, -EINTR)
  /\ UNCHANGED <<sched_lock, cpu_task, priority, timeouts, kont, loop,
                 panic, mutexVars>>

\* A task holds no mutex when it exits or stops itself on its way to user mode.
Leaves(c, t) ==
  /\ Owned(t) = {}
  /\ k_task_exit(c, t) \/ k_task_suspend(c, t)
  /\ UNCHANGED mutexVars

============================================================================
