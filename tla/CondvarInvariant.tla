------------------------- MODULE CondvarInvariant --------------------------
(***************************************************************************)
(* The inductive invariant of scheduler, mutexes and condition variables.  *)
(***************************************************************************)
EXTENDS Condvar

\* Where a task stands in a blocking call agrees with where it can be.
KontOK ==
  /\ \A t \in Task :
       /\ kont[t].at \in {"lock.block", "lock.sleep"} => kont[t].mutex \in Mutex
       /\ kont[t].at \in {"wait.block", "wait.sleep"}
            => kont[t].mutex \in Mutex /\ kont[t].cond \in Cond
       /\ kont[t].at = "return" => kont[t] = Returning
       /\ panic # "lock order" => sleep_on_mutex[t] =
            IF kont[t].at = "lock.sleep" THEN kont[t].mutex ELSE Null
       /\ Sleeping(t) => kont[t].at \in {"lock.sleep", "wait.sleep"}
       /\ kont[t].at \in {"lock.block", "wait.block"}
            => sched_lock \in CPU /\ cpu_task[sched_lock] = t
  /\ \A c \in CPU :
       cpu_task[c] # Null /\ sched_lock # c => kont[cpu_task[c]] = Returning

\* A loop belongs to the task that runs on the CPU holding the lock.
LoopOK ==
  /\ loop.op = "none" => loop = NoLoop
  /\ loop.op # "none" => sched_lock \in CPU /\ cpu_task[sched_lock] \in Task
  /\ loop.op = "wakeup_all" =>
       /\ loop.obj \in WaitQueue
       /\ loop.arg \in Result
       /\ kont[cpu_task[sched_lock]] = Returning
       /\ loop.obj \in Mutex => loop.obj \in finalised /\ loop.arg = -EINVAL
  /\ loop.op = "raise" =>
       /\ loop.obj \in Mutex
       /\ kont[cpu_task[sched_lock]].at = "lock.block"
       /\ loop.arg = priority[cpu_task[sched_lock]]

\* The priority of a mutex covers its waiters, but for the mutex the chain of
\* raises has come to; a task about to sleep is covered already.
MutexCovers ==
  /\ \A m \in Mutex, t \in Task : In(t, queue[m]) =>
       \/ mutex_priority[m] <= priority[t]
       \/ loop.op = "raise" /\ loop.obj = m /\ loop.arg <= priority[t]
  /\ \A t \in Task : kont[t].at = "lock.block" =>
       /\ owner[kont[t].mutex] # Null
       /\ \/ mutex_priority[kont[t].mutex] <= priority[t]
          \/ loop.op = "raise" /\ loop.obj = kont[t].mutex

\* A finalised mutex has no owner, and the tasks still in a call on it fail.
FinalisedOK ==
  \A m \in Mutex : m \in finalised =>
    /\ owner[m] = Null
    /\ \A t \in Task : kont[t].mutex = m =>
         /\ kont[t].at = "lock.sleep" /\ kont[t].cond = Null
         /\ Sleeping(t) => loop.op = "wakeup_all" /\ loop.obj = m
         /\ ~ Sleeping(t) => sleep_result[t] < 0

\* Nothing but an unlock ends the sleep in which a wait locks its mutex again.
RelockOK ==
  \A t \in Task :
    kont[t].cond # Null /\ kont[t].at \in {"lock.block", "lock.sleep"}
      => ~ kont[t].timed /\ sleep_result[t] = 0

IInv ==
  /\ TypeOK
  /\ OneList
  /\ KontOK
  /\ LoopOK
  /\ MutexQueueOrdered
  /\ MutexCovers
  /\ BoostIsExact
  /\ FinalisedOK
  /\ NoStaleTimer
  /\ RelockOK
  /\ NoStrandedWaiter

============================================================================
