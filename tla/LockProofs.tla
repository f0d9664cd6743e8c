----------------------------- MODULE LockProofs -----------------------------
(***************************************************************************)
(* That locking a mutex, raising the priorities of the owners on the way,  *)
(* and what a task does when it returns from a sleep, preserve the         *)
(* invariant.                                                              *)
(***************************************************************************)
EXTENDS StepProofs

\* The time that the provers may take.
USE ZenonT(20), SMTT(20)

\* A call on a mutex ends, with the mutex or without it.
LEMMA ReturnStep ==
  ASSUME IInv, NEW c \in CPU, NEW t \in Task, cpu_task[c] = t,
         sched_lock \in {Null, c}, sched_lock' = Null, loop = NoLoop,
         panic = "none",
         kont' = [kont EXCEPT ![t] = Returning],
         timeouts' = timeouts \ {t},
         sleep_on_mutex' = [sleep_on_mutex EXCEPT ![t] = Null],
         sleep_result' \in [Task -> Result],
         \A u \in Task : u # t => sleep_result'[u] = sleep_result[u],
         \/ /\ owner' = owner
            /\ kont[t].at = "lock.sleep" => sleep_result[t] # 0
         \/ \E m \in Mutex \ finalised :
              /\ owner[m] = Null /\ owner' = [owner EXCEPT ![m] = t]
              /\ priority[t] <= mutex_priority[m]
              /\ kont[t].at = "lock.sleep" => kont[t].mutex = m,
         UNCHANGED <<cpu_task, state, priority, sched_queue, queue, loop, panic,
                     mutex_priority, finalised>>
  PROVE  IInv'
<1> USE SchedAssumption, MutexAssumption, CondAssumption
<1>0. /\ TypeOK /\ OneList /\ KontOK /\ LoopOK /\ MutexQueueOrdered
      /\ MutexCovers /\ BoostIsExact /\ FinalisedOK /\ NoStaleTimer /\ RelockOK
      /\ NoStrandedWaiter
  BY DEF IInv
<1>1. state[t] = "RUNNING" /\ t # Null /\ ~ Sleeping(t)
  BY <1>0, Running DEF Sleeping
<1>2. /\ kont'[t] = Returning
      /\ \A u \in Task : u # t => kont'[u] = kont[u]
      /\ \A u \in Task : Sleeping(u)' <=> Sleeping(u)
      /\ \A u \in Task : Sleeping(u) => u # t
      /\ sleep_on_mutex'[t] = Null
      /\ \A u \in Task : u # t => sleep_on_mutex'[u] = sleep_on_mutex[u]
  BY <1>0, <1>1 DEF TypeOK, Sleeping
<1>3. /\ owner' \in [Mutex -> Task \cup {Null}]
      /\ \A m \in Mutex : owner[m] # Null => owner'[m] = owner[m]
      /\ \A m \in Mutex : owner'[m] # owner[m] =>
           /\ owner[m] = Null /\ owner'[m] = t /\ m \notin finalised
           /\ priority[t] <= mutex_priority[m]
  BY <1>0, ZenonT(60) DEF TypeOK
<1>4. \A u \in Task : kont[u].at \in {"lock.block", "wait.block"} => u = t
  BY <1>0, <1>1, SMTT(20) DEF KontOK
<1>5. TypeOK'
  <2>1. kont' \in [Task -> Kont] /\ sleep_on_mutex' \in [Task -> Mutex \cup {Null}]
    BY <1>0 DEF TypeOK, Kont, Returning
  <2> QED
    BY <1>0, <1>3, <2>1 DEF TypeOK
<1>6. OneList'
  BY <1>0, <1>2, SameLists
<1>7. KontOK'
  <2>1. ASSUME NEW u \in Task
        PROVE  KontOK!1!(u)'
    <3>1. CASE u = t
      BY <3>1, <1>1, <1>2, SMTT(20) DEF Returning
    <3>2. CASE u # t
      BY <3>2, <1>0, <1>2, <1>4, SMTT(20) DEF KontOK
    <3> QED
      BY <3>1, <3>2
  <2>2. KontOK!2'
    BY <1>0, <1>2, SMTT(20) DEF KontOK, OneList
  <2> QED
    BY <2>1, <2>2 DEF KontOK
<1>8. LoopOK'
  BY <1>0 DEF LoopOK, NoLoop
<1>9. MutexQueueOrdered'
  BY <1>0 DEF MutexQueueOrdered
<1>10. MutexCovers'
  <2>1. MutexCovers!1'
    BY <1>0 DEF MutexCovers
  <2>2. \A u \in Task : kont'[u].at # "lock.block"
    BY <1>2, <1>4, SMTT(20) DEF Returning
  <2> QED
    BY <2>1, <2>2 DEF MutexCovers
<1>11. BoostIsExact'
  <2> SUFFICES ASSUME NEW u \in Task
               PROVE  BoostIsExact!(u)'
    BY DEF BoostIsExact
  <2>1. BoostIsExact!(u)
    BY <1>0 DEF BoostIsExact
  <2>2. \A m \in Mutex : owner[m] = u => owner'[m] = u
    BY <1>3
  <2>3. \A m \in Mutex : owner'[m] = u =>
          owner[m] = u \/ priority[u] <= mutex_priority[m]
    BY <1>3
  <2> QED
    BY <2>1, <2>2, <2>3
<1>12. FinalisedOK'
  BY <1>0, <1>2, <1>3, SMTT(20) DEF FinalisedOK, Returning
<1>13. NoStaleTimer'
  BY <1>0, <1>2 DEF NoStaleTimer, TypeOK
<1>14. RelockOK'
  BY <1>0, <1>2, SMTT(20) DEF RelockOK, Returning
<1>15. NoStrandedWaiter'
  <2> SUFFICES ASSUME NEW m \in Mutex, NEW u \in Task,
                      owner'[m] = Null, In(u, queue[m]), m \notin finalised
               PROVE  NoStrandedWaiter!(m, u)!2'
    BY DEF NoStrandedWaiter
  <2>1. PICK w \in Task : /\ kont[w].at = "lock.sleep" /\ kont[w].mutex = m
                          /\ ~ Sleeping(w) /\ sleep_result[w] = 0
    BY <1>0, <1>3 DEF NoStrandedWaiter
  <2>2. w # t
    BY <2>1, <1>0, <1>1 DEF TypeOK
  <2> QED
    BY <2>1, <2>2, <1>2
<1> QED
  BY <1>5, <1>6, <1>7, <1>8, <1>9, <1>10, <1>11, <1>12, <1>13, <1>14, <1>15
     DEF IInv

\* A task finds the mutex taken and starts to raise the priority of its owner.
LEMMA BlockStep ==
  ASSUME IInv, NEW c \in CPU, NEW t \in Task, NEW m \in Mutex,
         NEW timed \in BOOLEAN, NEW cond \in Cond \cup {Null},
         cpu_task[c] = t, sched_lock \in {Null, c}, loop = NoLoop,
         panic = "none", owner[m] # Null, m \notin finalised,
         kont[t].at = "lock.sleep" => kont[t].mutex = m,
         sched_lock' = c,
         loop' = [op |-> "raise", obj |-> m, arg |-> priority[t]],
         kont' = [kont EXCEPT ![t] = [at |-> "lock.block", mutex |-> m,
                                      cond |-> cond, timed |-> timed]],
         cond # Null => timed = FALSE /\ sleep_result'[t] = 0,
         timeouts' = timeouts \ {t},
         sleep_on_mutex' = [sleep_on_mutex EXCEPT ![t] = Null],
         sleep_result' \in [Task -> Result],
         \A u \in Task : u # t => sleep_result'[u] = sleep_result[u],
         UNCHANGED <<cpu_task, state, priority, sched_queue, queue, panic,
                     owner, mutex_priority, finalised>>
  PROVE  IInv'
<1> USE SchedAssumption, MutexAssumption, CondAssumption
<1>0. /\ TypeOK /\ OneList /\ KontOK /\ LoopOK /\ MutexQueueOrdered
      /\ MutexCovers /\ BoostIsExact /\ FinalisedOK /\ NoStaleTimer /\ RelockOK
      /\ NoStrandedWaiter
  BY DEF IInv
<1>1. state[t] = "RUNNING" /\ t # Null /\ c # Null /\ ~ Sleeping(t)
  BY <1>0, Running DEF Sleeping
<1>2. /\ kont'[t].at = "lock.block" /\ kont'[t].mutex = m
      /\ kont'[t].cond = cond /\ kont'[t].timed = timed
      /\ \A u \in Task : u # t => kont'[u] = kont[u]
      /\ \A u \in Task : Sleeping(u)' <=> Sleeping(u)
      /\ \A u \in Task : Sleeping(u) => u # t
      /\ sleep_on_mutex'[t] = Null
      /\ \A u \in Task : u # t => sleep_on_mutex'[u] = sleep_on_mutex[u]
  BY <1>0, <1>1 DEF TypeOK, Sleeping
<1>3. loop'.op = "raise" /\ loop'.obj = m /\ loop'.arg = priority[t]
  OBVIOUS
<1>4. \A u \in Task : kont[u].at \in {"lock.block", "wait.block"} => u = t
  BY <1>0, <1>1, SMTT(20) DEF KontOK
<1>5. TypeOK'
  <2>1. [at |-> "lock.block", mutex |-> m, cond |-> cond, timed |-> timed] \in Kont
    BY DEF Kont
  <2>2. kont' \in [Task -> Kont] /\ sleep_on_mutex' \in [Task -> Mutex \cup {Null}]
    BY <1>0, <2>1 DEF TypeOK
  <2>3. priority[t] \in Int /\ m \in WaitQueue
    BY <1>0, SMTT(20) DEF TypeOK, Priority
  <2>4. loop' \in Loop
    BY <2>3 DEF Loop
  <2> QED
    BY <1>0, <2>2, <2>4 DEF TypeOK
<1>6. OneList'
  BY <1>0, <1>2, SameLists
<1>7. KontOK'
  <2>1. ASSUME NEW u \in Task
        PROVE  KontOK!1!(u)'
    <3>1. CASE u = t
      BY <3>1, <1>1, <1>2, SMTT(20)
    <3>2. CASE u # t
      BY <3>2, <1>0, <1>2, <1>4, SMTT(20) DEF KontOK
    <3> QED
      BY <3>1, <3>2
  <2>2. KontOK!2'
    BY <1>0, <1>2, SMTT(20) DEF KontOK, OneList
  <2> QED
    BY <2>1, <2>2 DEF KontOK
<1>8. LoopOK'
  BY <1>1, <1>2, <1>3 DEF LoopOK
<1>9. MutexQueueOrdered'
  BY <1>0 DEF MutexQueueOrdered
<1>10. MutexCovers'
  <2>1. MutexCovers!1'
    BY <1>0 DEF MutexCovers, NoLoop
  <2>2. MutexCovers!2'
    BY <1>1, <1>2, <1>3, <1>4, SMTT(20)
  <2> QED
    BY <2>1, <2>2 DEF MutexCovers
<1>11. BoostIsExact'
  BY <1>0, SMTT(20) DEF BoostIsExact
<1>12. FinalisedOK'
  BY <1>0, <1>2, SMTT(20) DEF FinalisedOK, NoLoop
<1>13. NoStaleTimer'
  BY <1>0, <1>2, SMTT(20) DEF NoStaleTimer, TypeOK
<1>14. RelockOK'
  BY <1>0, <1>2, SMTT(20) DEF RelockOK
<1>15. NoStrandedWaiter'
  <2> SUFFICES ASSUME NEW k \in Mutex, NEW u \in Task,
                      owner[k] = Null, In(u, queue[k]), k \notin finalised
               PROVE  NoStrandedWaiter!(k, u)!2'
    BY DEF NoStrandedWaiter
  <2>1. PICK w \in Task : /\ kont[w].at = "lock.sleep" /\ kont[w].mutex = k
                          /\ ~ Sleeping(w) /\ sleep_result[w] = 0
    BY <1>0 DEF NoStrandedWaiter
  <2>2. w # t
    BY <2>1
  <2> QED
    BY <2>1, <2>2, <1>2
<1> QED
  BY <1>5, <1>6, <1>7, <1>8, <1>9, <1>10, <1>11, <1>12, <1>13, <1>14, <1>15
     DEF IInv

\* The assertion on the order of locking fails in a task that was asleep.
LEMMA LockOrderStep ==
  ASSUME IInv, NEW t \in Task, NEW m \in Mutex, panic = "none",
         panic' = "lock order", m \notin finalised, state[t] = "RUNNING",
         kont[t].at = "lock.sleep" => kont[t].mutex = m /\ sleep_result'[t] = 0,
         timeouts' = timeouts \ {t},
         sleep_on_mutex' = [sleep_on_mutex EXCEPT ![t] = Null],
         sleep_result' \in [Task -> Result],
         \A u \in Task : u # t => sleep_result'[u] = sleep_result[u],
         kont[t].at # "lock.block",
         UNCHANGED <<sched_lock, cpu_task, state, priority, sched_queue, queue,
                     kont, loop, owner, mutex_priority, finalised>>
  PROVE  IInv'
<1> USE SchedAssumption, MutexAssumption, CondAssumption
<1>0. /\ TypeOK /\ OneList /\ KontOK /\ LoopOK /\ MutexQueueOrdered
      /\ MutexCovers /\ BoostIsExact /\ FinalisedOK /\ NoStaleTimer /\ RelockOK
      /\ NoStrandedWaiter
  BY Zenon DEF IInv
<1>1. TypeOK'
  BY <1>0, Zenon DEF TypeOK
<1>2. OneList'
  BY <1>0, SameLists, Zenon
<1>3. KontOK'
  BY <1>0, Zenon DEF KontOK, Sleeping
<1>4. LoopOK' /\ MutexQueueOrdered'
  BY <1>0, Zenon DEF LoopOK, MutexQueueOrdered
<1>5. MutexCovers' /\ BoostIsExact'
  <2>1. MutexCovers'
    BY <1>0, Zenon DEF MutexCovers
  <2>2. BoostIsExact'
    BY <1>0, ZenonT(60) DEF BoostIsExact
  <2> QED
    BY <2>1, <2>2, Zenon
<1>6. FinalisedOK'
  <2>1. \A u \in Task : Sleeping(u)' <=> Sleeping(u)
    BY Zenon DEF Sleeping
  <2>2. kont[t].mutex \notin finalised
    <3>1. kont[t].mutex \in Mutex \/ kont[t].mutex = Null
      BY <1>0, Zenon DEF TypeOK, Kont
    <3>2. Null \notin finalised
      BY <1>0, Zenon DEF TypeOK
    <3>3. kont[t].mutex \in Mutex /\ kont[t].mutex \in finalised => FALSE
      BY <1>0, ZenonT(60) DEF FinalisedOK
    <3> QED
      BY <3>1, <3>2, <3>3, Zenon
  <2>3. ASSUME NEW k \in Mutex, k \in finalised
        PROVE  FinalisedOK!(k)!2'
    <3>1. \A u \in Task : kont[u].mutex = k => u # t
      BY <2>2, <2>3, Zenon
    <3> QED
      BY <1>0, <2>1, <2>3, <3>1, ZenonT(60) DEF FinalisedOK
  <2> QED
    BY <2>3, Zenon DEF FinalisedOK
<1>7. NoStaleTimer'
  BY <1>0, Zenon DEF NoStaleTimer
<1>8. RelockOK'
  BY <1>0, Zenon DEF RelockOK
<1>9. NoStrandedWaiter'
  <2> SUFFICES ASSUME NEW k \in Mutex, NEW u \in Task,
                      owner[k] = Null, In(u, queue[k]), k \notin finalised
               PROVE  NoStrandedWaiter!(k, u)!2'
    BY ZenonT(60) DEF NoStrandedWaiter
  <2>1. PICK w \in Task : /\ kont[w].at = "lock.sleep" /\ kont[w].mutex = k
                          /\ ~ Sleeping(w) /\ sleep_result[w] = 0
    BY <1>0, Zenon DEF NoStrandedWaiter
  <2>2. sleep_result'[w] = 0 /\ ~ Sleeping(w)'
    BY <2>1, Zenon DEF Sleeping
  <2> QED
    BY <2>1, <2>2, Zenon
<1> QED
  BY <1>1, <1>2, <1>3, <1>4, <1>5, <1>6, <1>7, <1>8, <1>9, Zenon DEF IInv

\* The body of the loop of _k_mutex_timed_lock, in a call or after a sleep.
LEMMA TimedLockStep ==
  ASSUME IInv, NEW c \in CPU, NEW t \in Task, NEW m \in Mutex,
         NEW timed \in BOOLEAN, NEW cond \in Cond \cup {Null},
         cpu_task[c] = t, sched_lock \in {Null, c}, loop = NoLoop,
         panic = "none", m \notin finalised, kont[t].at # "lock.block",
         TimedLock(c, t, m, timed, cond),
         kont[t].at = "lock.sleep" => kont[t].mutex = m /\ sleep_result'[t] = 0,
         cond # Null => timed = FALSE /\ sleep_result'[t] = 0,
         timeouts' = timeouts \ {t},
         sleep_on_mutex' = [sleep_on_mutex EXCEPT ![t] = Null],
         sleep_result' \in [Task -> Result],
         \A u \in Task : u # t => sleep_result'[u] = sleep_result[u],
         UNCHANGED <<cpu_task, state, priority, sched_queue, queue,
                     mutex_priority, finalised>>
  PROVE  IInv'
<1>1. CASE owner[m] # Null
  <2>1. /\ sched_lock' = c
        /\ loop' = [op |-> "raise", obj |-> m, arg |-> priority[t]]
        /\ kont' = [kont EXCEPT ![t] = [at |-> "lock.block", mutex |-> m,
                                        cond |-> cond, timed |-> timed]]
        /\ UNCHANGED <<owner, panic>>
    BY <1>1 DEF TimedLock
  <2> QED
    BY <1>1, <2>1, BlockStep, ZenonT(60)
<1>2. CASE owner[m] = Null /\ priority[t] <= mutex_priority[m]
  <2>1. /\ owner' = [owner EXCEPT ![m] = t]
        /\ kont' = [kont EXCEPT ![t] = Returning]
        /\ sched_lock' = Null
        /\ UNCHANGED <<loop, panic>>
    BY <1>2 DEF TimedLock, Acquire
  <2> QED
    BY <1>2, <2>1, ReturnStep, ZenonT(60)
<1>3. CASE owner[m] = Null /\ ~ (priority[t] <= mutex_priority[m])
  <2>1. panic' = "lock order" /\ UNCHANGED <<owner, kont, sched_lock, loop>>
    BY <1>3, ZenonT(60) DEF TimedLock, Acquire
  <2>2. state[t] = "RUNNING"
    BY Running, SchedAssumption DEF IInv
  <2> QED
    BY <2>1, <2>2, LockOrderStep, Zenon
<1> QED
  BY <1>1, <1>2, <1>3

\* Calls to lock a mutex.
LEMMA LockCall ==
  ASSUME IInv, NEW c \in CPU, NEW t \in Task, NEW m \in Mutex,
         \/ k_mutex_try_lock(c, t, m)
         \/ \E timed \in BOOLEAN : k_mutex_timed_lock(c, t, m, timed)
  PROVE  IInv'
<1>1. PICK timed \in BOOLEAN :
        /\ MayEnter(c, t)
        /\ m \notin finalised
        /\ TimedLock(c, t, m, timed, Null)
        /\ UNCHANGED <<cpu_task, state, priority, sched_queue, queue, timeouts,
                 sleep_result, mutex_priority, sleep_on_mutex, finalised>>
  <2>1. CASE k_mutex_try_lock(c, t, m)
    <3>1. \A timed : TimedLock(c, t, m, timed, Null)
      BY <2>1 DEF k_mutex_try_lock, TimedLock
    <3> QED
      BY <2>1, <3>1, Zenon DEF k_mutex_try_lock
  <2>2. CASE \E timed \in BOOLEAN : k_mutex_timed_lock(c, t, m, timed)
    BY <2>2 DEF k_mutex_timed_lock
  <2> QED
    BY <2>1, <2>2
<1>2. /\ kont[t] = Returning /\ loop = NoLoop
      /\ timeouts = timeouts \ {t}
      /\ sleep_on_mutex = [sleep_on_mutex EXCEPT ![t] = Null]
  BY <1>1, Entering
<1>3. /\ cpu_task[c] = t /\ sched_lock \in {Null, c} /\ panic = "none"
      /\ sleep_result' \in [Task -> Result] /\ sleep_result' = sleep_result
      /\ timeouts' = timeouts \ {t}
      /\ sleep_on_mutex' = [sleep_on_mutex EXCEPT ![t] = Null]
      /\ kont[t].at = "return"
      /\ UNCHANGED <<cpu_task, state, priority, sched_queue, queue,
                     mutex_priority, finalised>>
  BY <1>1, <1>2, SMTT(20) DEF MayEnter, IInv, TypeOK, Returning
<1>4. CASE timed = TRUE
  BY <1>1, <1>2, <1>3, <1>4, TimedLockStep, Zenon
<1>5. CASE timed = FALSE
  BY <1>1, <1>2, <1>3, <1>5, TimedLockStep, Zenon
<1> QED
  BY <1>4, <1>5, Zenon

\* A task goes on after its sleep on a mutex.
LEMMA MutexAwake ==
  ASSUME IInv, NEW c \in CPU, NEW t \in Task, k_mutex_awake(c, t)
  PROVE  IInv'
<1> USE SchedAssumption
<1>1. /\ cpu_task[c] = t /\ sched_lock = c /\ panic = "none" /\ t # Null
      /\ loop = NoLoop
      /\ kont[t].at = "lock.sleep"
      /\ timeouts' = timeouts \ {t}
      /\ sleep_on_mutex' = [sleep_on_mutex EXCEPT ![t] = Null]
      /\ sleep_result' = [sleep_result EXCEPT ![t] = 0]
      /\ UNCHANGED <<cpu_task, state, priority, sched_queue, queue,
                     mutex_priority, finalised>>
  BY DEF k_mutex_awake, Inside
<1>2. /\ sleep_result' \in [Task -> Result] /\ sleep_result'[t] = 0
      /\ \A u \in Task : u # t => sleep_result'[u] = sleep_result[u]
  BY <1>1 DEF IInv, TypeOK, Result
<1>3. state[t] = "RUNNING" /\ ~ Sleeping(t)
  BY <1>1, Running DEF IInv, Sleeping
<1>4. CASE sleep_result[t] < 0
  <2>1. /\ kont' = [kont EXCEPT ![t] = Returning]
        /\ sched_lock' = Null
        /\ UNCHANGED <<owner, loop, panic>>
    BY <1>4 DEF k_mutex_awake
  <2>2. sleep_result[t] # 0
    BY <1>4, SMTT(20)
  <2> QED
    BY <1>1, <1>2, <2>1, <2>2, ReturnStep, Zenon
<1>5. CASE ~ (sleep_result[t] < 0)
  <2>1. TimedLock(c, t, kont[t].mutex, kont[t].timed, kont[t].cond)
    BY <1>5 DEF k_mutex_awake
  <2>2. /\ kont[t].mutex \in Mutex /\ kont[t].timed \in BOOLEAN
        /\ kont[t].cond \in Cond \cup {Null}
    BY <1>1 DEF IInv, TypeOK, Kont, KontOK
  <2>3. kont[t].mutex \notin finalised
    BY <1>3, <1>5, <2>2 DEF IInv, FinalisedOK
  <2>4. kont[t].cond # Null => kont[t].timed = FALSE
    BY <1>1, <2>2 DEF IInv, RelockOK
  <2>5. CASE kont[t].timed = TRUE
    BY <1>1, <1>2, <2>1, <2>2, <2>3, <2>4, <2>5, TimedLockStep, Zenon
  <2>6. CASE kont[t].timed = FALSE
    <3>1. TimedLock(c, t, kont[t].mutex, FALSE, kont[t].cond)
      BY <2>1, <2>6, Zenon
    <3>2. kont[t].at # "lock.block" /\ sched_lock \in {Null, c}
      BY <1>1
    <3> QED
      BY <1>1, <1>2, <2>2, <2>3, <3>1, <3>2, TimedLockStep, ZenonT(60)
  <2> QED
    BY <2>2, <2>5, <2>6, Zenon
<1> QED
  BY <1>4, <1>5

\* A task goes on after its sleep on a condition variable.
LEMMA CondvarAwake ==
  ASSUME IInv, NEW c \in CPU, NEW t \in Task, k_condvar_awake(c, t)
  PROVE  IInv'
<1> USE SchedAssumption
<1>1. /\ cpu_task[c] = t /\ sched_lock = c /\ panic = "none" /\ t # Null
      /\ loop = NoLoop
      /\ kont[t].at = "wait.sleep"
      /\ timeouts' = timeouts \ {t}
      /\ sleep_result' = [sleep_result EXCEPT ![t] = 0]
      /\ TimedLock(c, t, kont[t].mutex, FALSE, kont[t].cond)
      /\ UNCHANGED <<cpu_task, state, priority, sched_queue, queue,
                     mutex_priority, sleep_on_mutex, finalised>>
  BY Zenon DEF k_condvar_awake, Inside
<1>2. /\ sleep_result' \in [Task -> Result] /\ sleep_result'[t] = 0
      /\ \A u \in Task : u # t => sleep_result'[u] = sleep_result[u]
  BY <1>1 DEF IInv, TypeOK, Result
<1>3. sleep_on_mutex' = [sleep_on_mutex EXCEPT ![t] = Null]
  <2>1. sleep_on_mutex[t] = Null
    BY <1>1 DEF IInv, KontOK
  <2> QED
    BY <1>1, <2>1 DEF IInv, TypeOK
<1>4. kont[t].mutex \in Mutex /\ kont[t].cond \in Cond \cup {Null}
  BY <1>1 DEF IInv, KontOK
<1>5. kont[t].mutex \notin finalised
  BY <1>1, <1>4 DEF IInv, FinalisedOK
<1> QED
  BY <1>1, <1>2, <1>3, <1>4, <1>5, TimedLockStep, ZenonT(60)

----------------------------------------------------------------------------
(* The chain of owners. *)

\* What a link of the chain of owners cannot disturb.
LEMMA RaiseRest ==
  ASSUME IInv, NEW c \in CPU, NEW t \in Task, panic = "none", sched_lock = c,
         cpu_task[c] = t, loop.op = "raise", priority'[t] = priority[t],
         \/ loop' = NoLoop
         \/ loop'.op = "raise" /\ loop'.obj \in Mutex /\ loop'.arg = loop.arg,
         \A u \in Task, q \in WaitQueue : In(u, queue'[q]) <=> In(u, queue[q]),
         UNCHANGED <<sched_lock, cpu_task, state, timeouts, sleep_result, kont,
                     panic, owner, sleep_on_mutex, finalised>>,
         TypeOK', OneList', MutexQueueOrdered', MutexCovers', BoostIsExact'
  PROVE  IInv'
<1> USE SchedAssumption, MutexAssumption, CondAssumption
<1>0. /\ TypeOK /\ OneList /\ KontOK /\ LoopOK /\ MutexQueueOrdered
      /\ MutexCovers /\ BoostIsExact /\ FinalisedOK /\ NoStaleTimer /\ RelockOK
      /\ NoStrandedWaiter
  BY DEF IInv
<1>1. \A u \in Task : Sleeping(u)' <=> Sleeping(u)
  BY DEF Sleeping
<1>2. KontOK'
  BY <1>0, <1>1 DEF KontOK
<1>3. LoopOK'
  <2>1. /\ kont[t].at = "lock.block" /\ loop.arg = priority[t]
    BY <1>0 DEF LoopOK
  <2>2. CASE loop' = NoLoop
    BY <2>2 DEF LoopOK, NoLoop
  <2>3. CASE loop'.op = "raise" /\ loop'.obj \in Mutex /\ loop'.arg = loop.arg
    BY <2>1, <2>3 DEF LoopOK
  <2> QED
    BY <2>2, <2>3
<1>4. FinalisedOK'
  <2> SUFFICES ASSUME NEW k \in Mutex, k \in finalised
               PROVE  FinalisedOK!(k)!2'
    BY DEF FinalisedOK
  <2>1. FinalisedOK!(k)!2
    BY <1>0 DEF FinalisedOK
  <2> QED
    BY <1>1, <2>1
<1>5. NoStaleTimer' /\ RelockOK'
  BY <1>0 DEF NoStaleTimer, RelockOK
<1>6. NoStrandedWaiter'
  BY <1>0, <1>1, SMTT(20) DEF NoStrandedWaiter
<1> QED
  BY <1>2, <1>3, <1>4, <1>5, <1>6 DEF IInv

\* The lists after _k_sched_raise_priority: nobody enters or leaves a wait
\* queue, and the task raised is moved in the queue of a mutex it sleeps on.
LEMMA RaiseLists ==
  ASSUME LeastElements, TypeOK, OneList, KontOK, MutexQueueOrdered, panic = "none",
         NEW o \in Task, NEW p \in Priority, p < priority[o],
         k_sched_raise_priority(o, p), UNCHANGED <<cpu_task, state, kont>>
  PROVE  /\ priority' \in [Task -> Priority] /\ priority'[o] = p
         /\ \A u \in Task : u # o => priority'[u] = priority[u]
         /\ sched_queue' \in [Priority -> Seq(Task)]
         /\ queue' \in [WaitQueue -> Seq(Task)]
         /\ OneList' /\ MutexQueueOrdered'
         /\ \A u \in Task, q \in WaitQueue : In(u, queue'[q]) <=> In(u, queue[q])
         /\ \/ loop' = NoLoop /\ \A k \in Mutex : ~ In(o, queue[k])
            \/ \E m2 \in Mutex : /\ loop' = [loop EXCEPT !.obj = m2]
                                 /\ \A k \in Mutex : In(o, queue[k]) => k = m2
<1> USE SchedAssumption, MutexAssumption, CondAssumption
<1>1. /\ priority \in [Task -> Priority] /\ sched_queue \in [Priority -> Seq(Task)]
      /\ queue \in [WaitQueue -> Seq(Task)]
      /\ sleep_on_mutex[o] \in Mutex \cup {Null}
  BY DEF TypeOK
<1>2. priority' = [priority EXCEPT ![o] = p]
  BY DEF k_sched_raise_priority
<1>3. /\ priority' \in [Task -> Priority] /\ priority'[o] = p
      /\ \A u \in Task : u # o => priority'[u] = priority[u]
      /\ \A u \in Task : priority[u] \in Int /\ priority'[u] \in Int
      /\ priority[o] \in Priority /\ priority[o] # p /\ p \in Int
  BY <1>1, <1>2, SMTT(20) DEF Priority
<1>4. /\ \A q \in WaitQueue : queue[q] \in Seq(Task) /\ NoRepeat(queue[q])
      /\ \A q \in Priority : sched_queue[q] \in Seq(Task) /\ NoRepeat(sched_queue[q])
  BY <1>1, SMTT(20) DEF OneList
<1>5. \A u \in Task : Sleeping(u)' <=> Sleeping(u)
  BY DEF Sleeping
<1>6. \A u \in Task : SleepsOn(u)' = SleepsOn(u)
  BY DEF SleepsOn
<1>7. OneList!5' /\ OneList!6' /\ OneList!7'
  BY DEF OneList
<1>8. ASSUME \A u \in Task, q \in Priority : In(u, sched_queue'[q]) <=>
               state[u] = "READY" /\ priority'[u] = q,
             \A q \in Priority : NoRepeat(sched_queue'[q]),
             \A q \in WaitQueue : NoRepeat(queue'[q]),
             \A u \in Task, q \in WaitQueue : In(u, queue'[q]) <=> In(u, queue[q])
      PROVE  OneList'
  <2>1. \A u \in Task, q \in WaitQueue :
          In(u, queue'[q]) <=> Sleeping(u)' /\ SleepsOn(u)' = q
    BY <1>5, <1>6, <1>8, SMTT(20) DEF OneList
  <2> QED
    BY <1>7, <1>8, <2>1, SMTT(20) DEF OneList
<1>9. ASSUME NEW k \in Mutex, queue'[k] = queue[k], ~ In(o, queue[k])
      PROVE  Ordered(queue'[k], priority')
  <2>1. \A u \in Task : In(u, queue[k]) => priority[u] = priority'[u]
    BY <1>3, <1>9
  <2>2. Ordered(queue[k], priority) /\ queue[k] \in Seq(Task)
    BY <1>4 DEF MutexQueueOrdered
  <2>3. ASSUME NEW prio, prio = priority'
        PROVE  Ordered(queue[k], prio)
    <3>1. \A u \in Task : In(u, queue[k]) => priority[u] = prio[u]
      BY <2>1, <2>3
    <3> QED
      BY ONLY <2>2, <3>1, OrderedSame
  <2> QED
    BY <1>9, <2>3
<1>10. \A u \in Task, q \in Priority :
         In(u, sched_queue[q]) <=> state[u] = "READY" /\ priority[u] = q
  BY DEF OneList
<1>11. CASE state[o] = "READY"
  <2>1. /\ sched_queue' =
             [sched_queue EXCEPT ![priority[o]] = k_list_remove(sched_queue[priority[o]], o),
                                 ![p] = Append(sched_queue[p], o)]
        /\ loop' = NoLoop /\ queue' = queue
    BY <1>1, <1>3, <1>11 DEF k_sched_raise_priority
  <2>2. \A k \in Mutex : ~ In(o, queue[k])
    BY <1>11 DEF OneList, Sleeping
  <2>3. ~ In(o, sched_queue[p])
    BY <1>3, <1>10
  <2>4. /\ k_list_remove(sched_queue[priority[o]], o) \in Seq(Task)
        /\ NoRepeat(k_list_remove(sched_queue[priority[o]], o))
        /\ \A u : In(u, k_list_remove(sched_queue[priority[o]], o)) <=>
                    In(u, sched_queue[priority[o]]) /\ u # o
    BY <1>3, <1>4, ListRemove, Zenon
  <2>5. /\ Append(sched_queue[p], o) \in Seq(Task)
        /\ NoRepeat(Append(sched_queue[p], o))
        /\ \A u : In(u, Append(sched_queue[p], o)) <=> In(u, sched_queue[p]) \/ u = o
    BY <1>4, <2>3, ListAddBack
  <2>6. /\ sched_queue' \in [Priority -> Seq(Task)]
        /\ sched_queue'[p] = Append(sched_queue[p], o)
        /\ sched_queue'[priority[o]] = k_list_remove(sched_queue[priority[o]], o)
        /\ \A q \in Priority : q # p /\ q # priority[o] => sched_queue'[q] = sched_queue[q]
    BY <1>1, <1>3, <2>1, <2>4, <2>5, Zenon
  <2>7. ASSUME NEW q \in Priority
        PROVE  /\ NoRepeat(sched_queue'[q])
               /\ \A u \in Task : In(u, sched_queue'[q]) <=>
                    (In(u, sched_queue[q]) /\ u # o) \/ (u = o /\ q = p)
    <3>1. CASE q = p
      BY <1>3, <2>3, <2>5, <2>6, <3>1, Zenon
    <3>2. CASE q = priority[o]
      BY ONLY <1>3, <2>4, <2>6, <3>2
    <3>3. CASE q # p /\ q # priority[o]
      BY <1>4, <1>10, <2>6, <3>3, SMTT(20)
    <3> QED
      BY <3>1, <3>2, <3>3
  <2>8. \A u \in Task, q \in Priority : In(u, sched_queue'[q]) <=>
          state[u] = "READY" /\ priority'[u] = q
    BY <1>3, <1>10, <1>11, <2>7, SMTT(20)
  <2>9. OneList'
    BY <1>4, <1>8, <2>1, <2>7, <2>8, Zenon
  <2>10. MutexQueueOrdered'
    BY <1>9, <2>1, <2>2 DEF MutexQueueOrdered
  <2> QED
    BY <1>1, <1>3, <2>1, <2>2, <2>6, <2>9, <2>10, Zenon
<1>12. CASE Sleeping(o) /\ sleep_on_mutex[o] # Null
  <2>1. PICK m2 \in Mutex : /\ m2 = sleep_on_mutex[o] /\ kont[o].at = "lock.sleep"
                            /\ kont[o].mutex = m2
    BY <1>1, <1>12 DEF KontOK
  <2>2. state[o] # "READY"
    BY <1>12 DEF Sleeping
  <2>3. /\ queue' = [queue EXCEPT ![m2] = k_sched_add(k_list_remove(queue[m2], o), o, p)]
        /\ loop' = [loop EXCEPT !.obj = m2]
        /\ sched_queue' = sched_queue
    BY <1>12, <2>1, <2>2 DEF k_sched_raise_priority
  <2>4. \A q \in WaitQueue : In(o, queue[q]) <=> q = m2
    BY <1>12, <2>1, SMTT(20) DEF OneList, SleepsOn
  <2> DEFINE r == k_list_remove(queue[m2], o)
             s == k_sched_add(r, o, p)
  <2>5. /\ r \in Seq(Task) /\ NoRepeat(r)
        /\ \A u : In(u, r) <=> In(u, queue[m2]) /\ u # o
        /\ Ordered(r, priority)
    <3>1. queue[m2] \in Seq(Task) /\ NoRepeat(queue[m2]) /\ Ordered(queue[m2], priority)
      BY <1>4 DEF MutexQueueOrdered
    <3> QED
      BY <3>1, ListRemove
  <2>6. ~ In(o, r) /\ \A u \in Task : In(u, r) => priority'[u] = priority[u]
    BY <1>3, <2>5
  <2>7. /\ s \in Seq(Task) /\ NoRepeat(s)
        /\ \A u : In(u, s) <=> In(u, r) \/ u = o
        /\ Ordered(s, priority')
    <3> HIDE DEF r
    <3>1. /\ s \in Seq(Task) /\ NoRepeat(s)
          /\ \A u : In(u, s) <=> In(u, r) \/ u = o
      BY <2>5, <2>6, SchedAdd
    <3>2. Ordered(s, priority')
      <4>1. ASSUME NEW prio, prio = priority'
            PROVE  Ordered(s, prio)
        <5>1. /\ prio[o] = p /\ p \in Int /\ \A u \in Task : prio[u] \in Int
              /\ \A u \in Task : In(u, r) => prio[u] = priority[u]
          BY <1>3, <2>6, <4>1
        <5> QED
          BY ONLY LeastElements, <2>5, <2>6, <5>1, SchedAddOrdered
      <4> QED
        BY <4>1
    <3> QED
      BY <3>1, <3>2
  <2> HIDE DEF s
  <2>8. queue' = [queue EXCEPT ![m2] = s]
    BY <2>3 DEF s
  <2>9. /\ queue' \in [WaitQueue -> Seq(Task)] /\ queue'[m2] = s
        /\ \A q \in WaitQueue : q # m2 => queue'[q] = queue[q]
    BY <1>1, <2>7, <2>8
  <2>10. \A u \in Task, q \in WaitQueue : In(u, queue'[q]) <=> In(u, queue[q])
    BY <2>4, <2>5, <2>7, <2>9, Zenon
  <2>11. \A q \in WaitQueue : NoRepeat(queue'[q])
    BY ONLY <1>4, <2>7, <2>9
  <2>12. \A u \in Task, q \in Priority : In(u, sched_queue'[q]) <=>
           state[u] = "READY" /\ priority'[u] = q
    BY <1>3, <1>10, <2>2, <2>3
  <2>13. OneList'
    BY <1>4, <1>8, <2>3, <2>10, <2>11, <2>12
  <2>14. MutexQueueOrdered'
    <3> SUFFICES ASSUME NEW k \in Mutex
                 PROVE  Ordered(queue'[k], priority')
      BY DEF MutexQueueOrdered
    <3>1. CASE k = m2
      BY <2>7, <2>9, <3>1
    <3>2. CASE k # m2
      BY <1>9, <2>4, <2>9, <3>2
    <3> QED
      BY <3>1, <3>2
  <2> QED
    BY <1>1, <1>3, <2>3, <2>4, <2>9, <2>10, <2>13, <2>14, ZenonT(60)
<1>13. CASE state[o] # "READY" /\ ~ (Sleeping(o) /\ sleep_on_mutex[o] # Null)
  <2>1. loop' = NoLoop /\ queue' = queue /\ sched_queue' = sched_queue
    BY <1>13 DEF k_sched_raise_priority
  <2>2. \A k \in Mutex : ~ In(o, queue[k])
    <3>1. Sleeping(o) => kont[o].at = "wait.sleep" /\ kont[o].cond \in Cond
      BY <1>13, SMTT(20) DEF KontOK
    <3>2. Sleeping(o) => SleepsOn(o) \notin Mutex
      BY <3>1 DEF SleepsOn
    <3> QED
      BY <3>2, SMTT(20) DEF OneList
  <2>3. \A u \in Task, q \in Priority : In(u, sched_queue'[q]) <=>
           state[u] = "READY" /\ priority'[u] = q
    BY ONLY <1>3, <1>10, <1>13, <2>1
  <2>4. OneList'
    BY ONLY <1>4, <1>8, <2>1, <2>3
  <2>5. MutexQueueOrdered'
    BY <1>9, <2>1, <2>2 DEF MutexQueueOrdered
  <2> QED
    BY <1>1, <1>3, <2>1, <2>2, <2>4, <2>5
<1> QED
  BY <1>11, <1>12, <1>13, ZenonT(60)

\* One link of the chain of priority raises.
LEMMA RaiseStep ==
  ASSUME LeastElements, IInv, NEW c \in CPU, k_mutex_may_raise_priority(c)
  PROVE  IInv'
<1> USE SchedAssumption, MutexAssumption, CondAssumption
<1>0. /\ TypeOK /\ OneList /\ KontOK /\ LoopOK /\ MutexQueueOrdered
      /\ MutexCovers /\ BoostIsExact /\ FinalisedOK /\ NoStaleTimer /\ RelockOK
      /\ NoStrandedWaiter
  BY DEF IInv
<1> DEFINE m == loop.obj
           p == loop.arg
           t == cpu_task[c]
           o == owner[m]
<1>1. panic = "none" /\ sched_lock = c /\ loop.op = "raise"
  BY Zenon DEF k_mutex_may_raise_priority
<1>2. /\ t \in Task /\ m \in Mutex /\ p = priority[t]
      /\ kont[t].at = "lock.block"
  BY <1>0, <1>1 DEF LoopOK
<1>3. /\ p \in Priority /\ p \in Int /\ p \in 0 .. MaxPriorities
      /\ \A u \in Task : priority[u] \in Int
      /\ \A k \in Mutex : mutex_priority[k] \in Int
  <2>1. p \in Priority
    BY <1>0, <1>2, Zenon DEF TypeOK
  <2> QED
    BY <1>0, <2>1, PrioritiesAreNumbers, SMTT(20) DEF Priority
<1>4. \A u \in Task : kont[u].at = "lock.block" => u = t
  BY ONLY <1>0, <1>1 DEF KontOK
<1>5. \A k \in Mutex, u \in Task : In(u, queue[k]) =>
        \/ mutex_priority[k] <= priority[u]
        \/ k = m /\ p <= priority[u]
  BY ONLY <1>0 DEF MutexCovers
<1>6. /\ kont[t].mutex \in Mutex /\ owner[kont[t].mutex] # Null
      /\ \/ mutex_priority[kont[t].mutex] <= p
         \/ kont[t].mutex = m
  <2>1. kont[t].mutex \in Mutex
    BY <1>0, <1>2, Zenon DEF KontOK
  <2> QED
    BY <1>0, <1>2, <2>1 DEF MutexCovers
<1>7. /\ TypeOK /\ mutex_priority \in [Mutex -> 0 .. MaxPriorities]
      /\ priority \in [Task -> Priority] /\ owner \in [Mutex -> Task \cup {Null}]
  BY <1>0, Zenon DEF TypeOK
<1>8. CASE o = Null
  <2>1. k_panic("no owner") /\ UNCHANGED mutexVars
    BY <1>8, Zenon DEF k_mutex_may_raise_priority
  <2> QED
    BY <1>1, <2>1, PanicStep, Zenon DEF k_panic
<1>9. CASE o # Null
  <2>1. o \in Task
    BY <1>2, <1>7, <1>9
  <2>2. UNCHANGED <<sched_lock, cpu_task, state, timeouts, sleep_result, kont,
                    panic, owner, sleep_on_mutex, finalised>>
    BY <1>9 DEF k_mutex_may_raise_priority
  <2>3. CASE mutex_priority[m] <= p
    <3>1. loop' = NoLoop /\ UNCHANGED <<mutex_priority, priority, sched_queue, queue>>
      BY <1>2, <1>3, <1>9, <2>3, SMTT(20) DEF k_mutex_may_raise_priority
    <3>2. TypeOK'
      <4>1. loop' \in Loop
        BY ONLY <3>1 DEF NoLoop, Loop
      <4> QED
        BY <1>0, <2>2, <3>1, <4>1, Zenon DEF TypeOK
    <3>3. OneList'
      BY <1>0, <2>2, <3>1, SameLists
    <3>4. MutexQueueOrdered'
      BY ONLY <1>0, <3>1 DEF MutexQueueOrdered
    <3>5. MutexCovers'
      <4>1. \A k \in Mutex, u \in Task : In(u, queue[k]) => mutex_priority[k] <= priority[u]
        BY <1>2, <1>3, <1>5, <2>3, SMTT(20)
      <4>2. mutex_priority[kont[t].mutex] <= p
        BY <1>6, <2>3
      <4> QED
        BY ONLY <1>2, <1>4, <1>6, <2>2, <3>1, <4>1, <4>2 DEF MutexCovers
    <3>6. BoostIsExact'
      BY <1>0, <2>2, <3>1 DEF BoostIsExact
    <3> QED
      BY <1>1, <1>2, <2>2, <3>1, <3>2, <3>3, <3>4, <3>5, <3>6, RaiseRest
  <2>4. CASE mutex_priority[m] > p
    <3>1. mutex_priority' = [mutex_priority EXCEPT ![m] = p]
      BY <1>9, <2>4 DEF k_mutex_may_raise_priority
    <3>2. /\ mutex_priority' \in [Mutex -> 0 .. MaxPriorities] /\ mutex_priority'[m] = p
          /\ \A k \in Mutex : k # m => mutex_priority'[k] = mutex_priority[k]
      BY <1>2, <1>3, <1>7, <3>1
    <3>3. \A k \in Mutex, u \in Task : In(u, queue[k]) => mutex_priority'[k] <= priority[u]
      <4>1. ASSUME NEW k \in Mutex, NEW u \in Task, In(u, queue[k])
            PROVE  mutex_priority'[k] <= priority[u]
        <5>1. CASE k = m
          BY <1>2, <1>3, <1>5, <2>4, <3>2, <4>1, <5>1, SMTT(20)
        <5>2. CASE k # m
          BY <1>5, <3>2, <4>1, <5>2
        <5> QED
          BY ONLY <5>1, <5>2
      <4> QED
        BY <4>1
    <3>4. mutex_priority'[kont[t].mutex] <= p
      <4>1. CASE kont[t].mutex = m
        BY ONLY <1>3, <3>2, <4>1
      <4>2. CASE kont[t].mutex # m
        BY ONLY <1>6, <3>2, <4>2
      <4> QED
        BY <4>1, <4>2
    <3>5. CASE priority[o] <= p
      <4>1. loop' = NoLoop /\ UNCHANGED <<priority, sched_queue, queue>>
        BY <1>3, <1>9, <2>1, <2>4, <3>5, SMTT(20) DEF k_mutex_may_raise_priority
      <4>2. TypeOK'
        <5>1. loop' \in Loop
          BY ONLY <4>1 DEF NoLoop, Loop
        <5> QED
          BY <1>0, <2>2, <3>2, <4>1, <5>1, Zenon DEF TypeOK
      <4>3. OneList'
        BY <1>0, <2>2, <4>1, SameLists
      <4>4. MutexQueueOrdered'
        BY ONLY SchedAssumption, MutexAssumption, CondAssumption, <1>0, <4>1 DEF MutexQueueOrdered
      <4>5. MutexCovers'
        BY ONLY SchedAssumption, MutexAssumption, CondAssumption, <1>2, <1>4, <1>6,
           <2>2, <3>3, <3>4, <4>1 DEF MutexCovers
      <4>6. BoostIsExact'
        <5> SUFFICES ASSUME NEW u \in Task
                     PROVE  BoostIsExact!(u)'
          BY DEF BoostIsExact
        <5>1. BoostIsExact!(u)
          BY <1>0 DEF BoostIsExact
        <5>2. CASE u = o
          <6>1. \A k \in Mutex : owner[k] = u => priority[u] <= mutex_priority'[k]
            BY <3>2, <3>5, <5>1, <5>2
          <6>2. \A k \in Mutex : priority[u] = mutex_priority[k] => k # m
            BY <1>3, <2>1, <2>4, <3>5, <5>2, SMTT(20)
          <6> QED
            BY ONLY SchedAssumption, MutexAssumption, CondAssumption, <2>2, <3>2, <4>1,
               <5>1, <6>1, <6>2
        <5>3. CASE u # o
          <6>1. \A k \in Mutex : owner[k] = u => mutex_priority'[k] = mutex_priority[k]
            BY <3>2, <5>3
          <6> QED
            BY <2>2, <4>1, <5>1, <6>1
        <5> QED
          BY <5>2, <5>3
      <4> QED
        BY <1>1, <1>2, <2>2, <4>1, <4>2, <4>3, <4>4, <4>5, <4>6, RaiseRest
    <3>6. CASE priority[o] > p
      <4>1. k_sched_raise_priority(o, p)
        BY <1>9, <2>4, <3>6 DEF k_mutex_may_raise_priority
      <4>2. /\ priority' \in [Task -> Priority] /\ priority'[o] = p
            /\ \A u \in Task : u # o => priority'[u] = priority[u]
            /\ sched_queue' \in [Priority -> Seq(Task)]
            /\ queue' \in [WaitQueue -> Seq(Task)]
            /\ OneList' /\ MutexQueueOrdered'
            /\ \A u \in Task, q \in WaitQueue : In(u, queue'[q]) <=> In(u, queue[q])
            /\ \/ loop' = NoLoop /\ \A k \in Mutex : ~ In(o, queue[k])
               \/ \E m2 \in Mutex : /\ loop' = [loop EXCEPT !.obj = m2]
                                    /\ \A k \in Mutex : In(o, queue[k]) => k = m2
        <5>1. p < priority[o]
          BY <1>3, <2>1, <3>6
        <5> HIDE DEF o, p
        <5> QED
          BY <1>0, <1>1, <1>3, <2>1, <2>2, <4>1, <5>1, RaiseLists, Zenon
      <4>3. t # o /\ priority'[t] = priority[t]
        BY <1>2, <1>3, <3>6, <4>2, SMTT(20)
      <4>4. loop \in Loop
        BY <1>0, Zenon DEF TypeOK
      <4>5. /\ loop' \in Loop
            /\ \/ loop' = NoLoop /\ \A k \in Mutex : ~ In(o, queue[k])
               \/ /\ loop'.op = "raise" /\ loop'.obj \in Mutex /\ loop'.arg = p
                  /\ \A k \in Mutex : In(o, queue[k]) => k = loop'.obj
        <5>1. CASE loop' = NoLoop /\ \A k \in Mutex : ~ In(o, queue[k])
          BY <5>1, SMTT(20) DEF NoLoop, Loop
        <5>2. ASSUME NEW m2 \in Mutex, loop' = [loop EXCEPT !.obj = m2],
                     \A k \in Mutex : In(o, queue[k]) => k = m2
              PROVE  /\ loop' \in Loop
                     /\ loop'.op = "raise" /\ loop'.obj = m2 /\ loop'.arg = p
          BY <1>1, <4>4, <5>2 DEF Loop
        <5> QED
          BY ONLY <4>2, <5>1, <5>2, ZenonT(60)
      <4>6. TypeOK'
        BY <1>0, <2>2, <3>2, <4>2, <4>5, Zenon DEF TypeOK
      <4>7. MutexCovers'
        <5>1. ASSUME NEW k \in Mutex, NEW u \in Task, In(u, queue'[k])
              PROVE  MutexCovers!1!(k, u)!2'
          <6>1. In(u, queue[k])
            BY <4>2, <5>1
          <6>2. CASE u = o
            BY <1>3, <4>2, <4>5, <6>1, <6>2, SMTT(20)
          <6>3. CASE u # o
            BY <3>3, <4>2, <6>1, <6>3, ZenonT(60)
          <6> QED
            BY <6>2, <6>3
        <5>2. ASSUME NEW u \in Task, kont[u].at = "lock.block"
              PROVE  MutexCovers!2!(u)!2'
          BY <1>2, <1>4, <1>6, <2>2, <3>4, <4>3, <5>2
        <5> QED
          BY <2>2, <5>1, <5>2 DEF MutexCovers
      <4>8. BoostIsExact'
        <5> SUFFICES ASSUME NEW u \in Task
                     PROVE  BoostIsExact!(u)'
          BY DEF BoostIsExact
        <5>1. BoostIsExact!(u)
          BY <1>0 DEF BoostIsExact
        <5>2. CASE u = o
          <6>1. p <= SavedPriority[u]
            BY <1>3, <2>1, <3>6, <5>1, <5>2, SMTT(20) DEF Priority
          <6>2. ASSUME NEW k \in Mutex, owner[k] = u
                PROVE  p <= mutex_priority'[k]
            BY ONLY <1>3, <2>1, <3>2, <3>6, <5>1, <5>2, <6>2
          <6> QED
            BY ONLY <1>2, <2>2, <3>2, <4>2, <5>2, <6>1, <6>2
        <5>3. CASE u # o
          <6>1. \A k \in Mutex : owner[k] = u => mutex_priority'[k] = mutex_priority[k]
            BY <3>2, <5>3
          <6>2. priority'[u] = priority[u]
            BY <4>2, <5>3
          <6> QED
            BY <2>2, <5>1, <6>1, <6>2
        <5> QED
          BY <5>2, <5>3
      <4> QED
        BY <1>1, <1>2, <2>2, <4>2, <4>3, <4>5, <4>6, <4>7, <4>8, RaiseRest
    <3> QED
      BY <1>3, <2>1, <3>5, <3>6, SMTT(20)
  <2> QED
    BY ONLY <1>2, <1>3, <2>3, <2>4
<1> QED
  BY <1>8, <1>9

============================================================================
