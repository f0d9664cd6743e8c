------------------------------- MODULE Sched -------------------------------
(***************************************************************************)
(* The scheduler and the task life cycle (kernel/core/sched.c, task.c and  *)
(* the end of an interrupt handler in irq.c).                              *)
(*                                                                         *)
(* All of this state is guarded by one spinlock, _k_sched_spinlock.  A     *)
(* section of code that takes and releases it without switching is one     *)
(* step.  A task that gives up its CPU keeps the lock: the CPU passes      *)
(* through the loop of k_sched_start, which picks the next task, and the   *)
(* task switched to releases the lock or goes on with the section it was   *)
(* suspended in.  sched_lock therefore names the CPU that holds the lock   *)
(* between two steps, and kont says what a task does when switched to.     *)
(* The loops that run with the lock held (waking a whole queue, following  *)
(* a chain of mutex owners) are taken one iteration per step.              *)
(*                                                                         *)
(* The module defines actions and no specification: Condvar.tla composes   *)
(* them with the mutexes and the condition variables.                      *)
(***************************************************************************)
EXTENDS Lists

CONSTANTS CPU,            \* processors
          Task,           \* kernel tasks
          WaitQueue,      \* heads of the lists tasks sleep on
          MaxPriorities,  \* K_TASK_MAX_PRIORITIES; 0 is the highest priority
          SavedPriority,  \* saved_priority of each task, fixed by k_task_create
          Null

ASSUME SchedAssumption ==
  /\ MaxPriorities \in Nat \ {0}
  /\ SavedPriority \in [Task -> 0 .. MaxPriorities - 1]
  /\ Null \notin CPU \cup Task \cup WaitQueue

EINTR     == 4
EINVAL    == 22
ETIMEDOUT == 116

\* Values of sleep_result.  EINVAL without a sign is what k_condvar_destroy
\* passes: it negates K_ERR_INVAL, which is negative already.
Result == {0, -EINTR, -EINVAL, -ETIMEDOUT, EINVAL}

Priority == 0 .. MaxPriorities - 1

VARIABLES sched_lock,   \* CPU holding _k_sched_spinlock between two steps
          cpu_task,     \* my_cpu->task of each CPU
          state,        \* task->state
          priority,     \* task->priority, the effective priority
          sched_queue,  \* run queues, one list for each priority
          queue,        \* lists of sleeping tasks
          timeouts,     \* tasks with an entry in _k_sched_timeouts
          sleep_result, \* task->sleep_result
          kont,         \* what a task does when it is next switched to
          loop,         \* the loop the holder of sched_lock is in
          panic         \* the assertion that failed and stopped the kernel

schedVars == <<sched_lock, cpu_task, state, priority, sched_queue, queue,
               timeouts, sleep_result, kont, loop, panic>>

\* No iteration is left: the holder of the lock goes on with what follows.
NoLoop == [op |-> "none", obj |-> Null, arg |-> 0]

\* The task only has to release the scheduler lock and return to its caller.
Returning == [at |-> "return", mutex |-> Null, cond |-> Null, timed |-> FALSE]

TaskState == {"READY", "RUNNING", "SLEEP", "SLEEP_UNWAKEABLE", "SUSPENDED",
              "DESTROYED"}

Sleeping(t) == state[t] \in {"SLEEP", "SLEEP_UNWAKEABLE"}

SchedInit ==
  /\ sched_lock = Null
  /\ cpu_task = [c \in CPU |-> Null]
  /\ state = [t \in Task |-> "SUSPENDED"]
  /\ priority = SavedPriority
  /\ sched_queue = [p \in Priority |-> <<>>]
  /\ queue = [q \in WaitQueue |-> <<>>]
  /\ timeouts = {}
  /\ sleep_result = [t \in Task |-> 0]
  /\ kont = [t \in Task |-> Returning]
  /\ loop = NoLoop
  /\ panic = "none"

----------------------------------------------------------------------------
(* Contexts in which code runs. *)

\* Task t executes on CPU c outside the scheduler lock and may enter it.
MayEnter(c, t) ==
  /\ panic = "none"
  /\ sched_lock = Null
  /\ cpu_task[c] = t
  /\ t # Null

\* Task t executes on CPU c inside the scheduler lock, between two steps.
Inside(c, t) ==
  /\ panic = "none"
  /\ sched_lock = c
  /\ cpu_task[c] = t
  /\ t # Null
  /\ loop = NoLoop

\* A failed k_assert: _panic never returns.
k_panic(why) ==
  /\ panic' = why
  /\ UNCHANGED <<sched_lock, cpu_task, state, priority, sched_queue, queue,
                 timeouts, sleep_result, kont, loop>>

----------------------------------------------------------------------------
(* Lists and queues. *)

\* Task t is linked in the list.
In(t, list) == \E i \in 1 .. Len(list) : list[i] = t

\* No task is linked twice.
NoRepeat(list) ==
  \A i, j \in 1 .. Len(list) : list[i] = list[j] => i = j

\* The list is ordered by the given priorities, the highest first.
Ordered(list, prio) ==
  \A i, j \in 1 .. Len(list) : i < j => prio[list[i]] <= prio[list[j]]

\* Position of a task of priority p in a wait queue: before the first task of
\* lower priority, that is, of larger number.
AddPosition(list, p) ==
  Min({i \in 1 .. Len(list) : priority[list[i]] > p} \cup {Len(list) + 1})

\* Mutant: the new sleeper always goes to the back.
k_sched_add_fifo(list, t, p) == Append(list, t)

k_sched_add(list, t, p) == InsertAt(list, AddPosition(list, p), t)

k_list_remove(list, t) ==
  IF In(t, list)
  THEN RemoveAt(list, CHOOSE i \in 1 .. Len(list) : list[i] = t)
  ELSE list

k_sched_enqueue(t) ==
  /\ state' = [state EXCEPT ![t] = "READY"]
  /\ sched_queue' = [sched_queue EXCEPT ![priority[t]] = Append(@, t)]

\* The step leaves the CPU to the scheduler loop, which keeps the lock.
k_sched_yield_locked(c) ==
  /\ sched_lock' = c
  /\ cpu_task' = [cpu_task EXCEPT ![c] = Null]

\* Only a sleeping task is resumed; its link leaves the queue it sleeps on.
k_sched_resume(t, result) ==
  IF Sleeping(t)
  THEN /\ queue' = [q \in WaitQueue |-> k_list_remove(queue[q], t)]
       /\ sleep_result' = [sleep_result EXCEPT ![t] = result]
       /\ k_sched_enqueue(t)
  ELSE UNCHANGED <<queue, sleep_result, state, sched_queue>>

k_sched_wakeup_one_locked(q, result) ==
  IF queue[q] = <<>>
  THEN UNCHANGED <<queue, sleep_result, state, sched_queue>>
  ELSE k_sched_resume(Head(queue[q]), result)

\* What _k_sched_sleep does up to the switch, for a caller holding the lock.
k_sched_sleep(c, t, q, how, timed) ==
  /\ timeouts' = IF timed THEN timeouts \cup {t} ELSE timeouts
  /\ state' = [state EXCEPT ![t] = how]
  /\ queue' = [queue EXCEPT ![q] = k_sched_add(@, t, priority[t])]
  /\ k_sched_yield_locked(c)

----------------------------------------------------------------------------
(* The loop of each CPU. *)

\* The head of the first run queue that is not empty is switched to.
k_sched_switch(c) ==
  /\ panic = "none"
  /\ sched_lock = c
  /\ cpu_task[c] = Null
  /\ \E p \in Priority :
       /\ sched_queue[p] # <<>>
       /\ \A h \in Priority : h < p => sched_queue[h] = <<>>
       /\ LET next == Head(sched_queue[p]) IN
            /\ sched_queue' = [sched_queue EXCEPT ![p] = Tail(@)]
            /\ state' = [state EXCEPT ![next] = "RUNNING"]
            /\ cpu_task' = [cpu_task EXCEPT ![c] = next]
  /\ UNCHANGED <<sched_lock, priority, queue, timeouts, sleep_result, kont,
                 loop, panic>>

\* Nothing is ready: the lock is released and the CPU waits for an interrupt.
k_sched_idle(c) ==
  /\ panic = "none"
  /\ sched_lock = c
  /\ cpu_task[c] = Null
  /\ \A p \in Priority : sched_queue[p] = <<>>
  /\ sched_lock' = Null
  /\ UNCHANGED <<cpu_task, state, priority, sched_queue, queue, timeouts,
                 sleep_result, kont, loop, panic>>

\* The CPU enters the loop, at start-up or after an interrupt ends idling.
k_sched_start(c) ==
  /\ panic = "none"
  /\ sched_lock = Null
  /\ cpu_task[c] = Null
  /\ sched_lock' = c
  /\ UNCHANGED <<cpu_task, state, priority, sched_queue, queue, timeouts,
                 sleep_result, kont, loop, panic>>

\* A task switched to that has nothing left to do inside the lock.
k_task_run(c, t) ==
  /\ Inside(c, t)
  /\ kont[t] = Returning
  /\ sched_lock' = Null
  /\ UNCHANGED <<cpu_task, state, priority, sched_queue, queue, timeouts,
                 sleep_result, kont, loop, panic>>

----------------------------------------------------------------------------
(* Operations on tasks. *)

k_task_yield(c, t) ==
  /\ MayEnter(c, t)
  /\ k_sched_enqueue(t)
  /\ k_sched_yield_locked(c)
  /\ UNCHANGED <<priority, queue, timeouts, sleep_result, kont, loop,
                 panic>>

\* The tick interrupt asks for a reschedule (_k_sched_check_quantum) and the
\* end of the same interrupt grants it: the task keeps its place in its code.
k_irq_handler_end(c, t) ==
  /\ MayEnter(c, t)
  /\ k_sched_enqueue(t)
  /\ k_sched_yield_locked(c)
  /\ UNCHANGED <<priority, queue, timeouts, sleep_result, kont, loop,
                 panic>>

k_task_suspend(c, t) ==
  /\ MayEnter(c, t)
  /\ state' = [state EXCEPT ![t] = "SUSPENDED"]
  /\ k_sched_yield_locked(c)
  /\ UNCHANGED <<priority, sched_queue, queue, timeouts, sleep_result, kont,
                 loop, panic>>

k_task_exit(c, t) ==
  /\ MayEnter(c, t)
  /\ timeouts' = timeouts \ {t}
  /\ state' = [state EXCEPT ![t] = "DESTROYED"]
  /\ k_sched_yield_locked(c)
  /\ UNCHANGED <<priority, sched_queue, queue, sleep_result, kont, loop,
                 panic>>

\* Start-up code, which runs when the CPU has no task, does not yield; a task
\* yields to the one it resumes if that has the higher priority.
k_task_resume(c, t) ==
  /\ panic = "none"
  /\ sched_lock = Null
  /\ state[t] = "SUSPENDED"
  /\ LET me == cpu_task[c] IN
       IF me # Null /\ priority[t] < priority[me]
       THEN /\ state' = [state EXCEPT ![t] = "READY", ![me] = "READY"]
            /\ sched_queue' =
                 [sched_queue EXCEPT ![priority[t]] = Append(@, t),
                                     ![priority[me]] = Append(@, me)]
            /\ k_sched_yield_locked(c)
       ELSE /\ k_sched_enqueue(t)
            /\ UNCHANGED <<sched_lock, cpu_task>>
  /\ UNCHANGED <<priority, queue, timeouts, sleep_result, kont, loop,
                 panic>>

\* Mutant: a timer that expires after the wake-up still makes the call fail.
k_task_timeout_callback_late(t) ==
  /\ panic = "none"
  /\ sched_lock = Null
  /\ t \in timeouts
  /\ timeouts' = timeouts \ {t}
  /\ IF state[t] = "SLEEP"
     THEN k_sched_resume(t, -ETIMEDOUT)
     ELSE /\ sleep_result' = [sleep_result EXCEPT ![t] = -ETIMEDOUT]
          /\ UNCHANGED <<queue, state, sched_queue>>
  /\ UNCHANGED <<sched_lock, cpu_task, priority, kont, loop, panic>>

\* The entry of t in _k_sched_timeouts expires and leaves that list, whatever
\* the callback makes of the state it finds the task in.
k_task_timeout_callback(t) ==
  /\ panic = "none"
  /\ sched_lock = Null
  /\ t \in timeouts
  /\ timeouts' = timeouts \ {t}
  /\ IF state[t] = "SLEEP"
     THEN k_sched_resume(t, -ETIMEDOUT)
     ELSE UNCHANGED <<queue, sleep_result, state, sched_queue>>
  /\ UNCHANGED <<sched_lock, cpu_task, priority, kont, loop, panic>>

\* One iteration of _k_sched_wakeup_all_locked; the lock is released at the
\* end, since every caller does that next.
k_sched_wakeup_all_locked(c) ==
  /\ panic = "none"
  /\ sched_lock = c
  /\ loop.op = "wakeup_all"
  /\ IF queue[loop.obj] = <<>>
     THEN /\ loop' = NoLoop
          /\ sched_lock' = Null
          /\ UNCHANGED <<queue, sleep_result, state, sched_queue>>
     ELSE /\ k_sched_resume(Head(queue[loop.obj]), loop.arg)
          /\ UNCHANGED <<loop, sched_lock>>
  /\ UNCHANGED <<cpu_task, priority, timeouts, kont, panic>>

\* A caller of _k_sched_wakeup_all_locked takes the lock and enters the loop.
StartWakeupAll(c, q, result) ==
  /\ sched_lock' = c
  /\ loop' = [op |-> "wakeup_all", obj |-> q, arg |-> result]
  /\ UNCHANGED <<cpu_task, state, priority, sched_queue, queue, timeouts,
                 sleep_result, kont, panic>>

\* The monitor of a stopped kernel runs for ever.
Halted == panic # "none" /\ UNCHANGED schedVars

============================================================================
