--------------------------- MODULE CondvarProofs ---------------------------
(***************************************************************************)
(* Proofs about scheduler, mutexes and condition variables for any number  *)
(* of CPUs, tasks, priorities, mutexes and condition variables.            *)
(***************************************************************************)
EXTENDS LockProofs, SwitchProofs, WellFoundedInduction

\* The time that the provers may take.
USE ZenonT(20), SMTT(20)

----------------------------------------------------------------------------
(* Unlocking a mutex. *)

\* Unlocking makes at most one task ready, and leaves nobody behind otherwise.
LEMMA UnlockWakes ==
  ASSUME IInv, NEW m \in Mutex, k_sched_wakeup_one_locked(m, 0)
  PROVE  \E W \in SUBSET Task :
           /\ \A u \in W : /\ Sleeping(u) /\ state'[u] = "READY"
                           /\ sleep_result'[u] = 0
                           /\ kont[u].at = "lock.sleep" /\ kont[u].mutex = m
           /\ \A u \in Task : u \notin W => /\ state'[u] = state[u]
                                            /\ sleep_result'[u] = sleep_result[u]
           /\ W = {} => \A u \in Task : ~ In(u, queue[m])
           /\ state' \in [Task -> TaskState] /\ sleep_result' \in [Task -> Result]
           /\ sched_queue' \in [Priority -> Seq(Task)]
           /\ \A p \in Priority : NoRepeat(sched_queue'[p])
           /\ \A u \in Task, p \in Priority : In(u, sched_queue'[p]) <=>
                In(u, sched_queue[p]) \/ (u \in W /\ p = priority[u])
           /\ queue' \in [WaitQueue -> Seq(Task)]
           /\ \A q \in WaitQueue : NoRepeat(queue'[q])
           /\ \A u \in Task, q \in WaitQueue :
                In(u, queue'[q]) <=> In(u, queue[q]) /\ u \notin W
           /\ \A q \in WaitQueue : \A prio :
                Ordered(queue[q], prio) => Ordered(queue'[q], prio)
<1> USE SchedAssumption, MutexAssumption, CondAssumption
<1>1. TypeOK /\ OneList
  BY DEF IInv
<1>2. /\ state \in [Task -> TaskState] /\ sleep_result \in [Task -> Result]
      /\ sched_queue \in [Priority -> Seq(Task)]
      /\ queue \in [WaitQueue -> Seq(Task)]
  BY <1>1, Zenon DEF TypeOK
<1>3. /\ \A p \in Priority : NoRepeat(sched_queue[p])
      /\ \A q \in WaitQueue : NoRepeat(queue[q])
  BY <1>1 DEF OneList
<1>4. CASE queue[m] = <<>>
  <2>1. UNCHANGED <<queue, sleep_result, state, sched_queue>>
    BY <1>4 DEF k_sched_wakeup_one_locked
  <2>2. \A u \in Task : ~ In(u, queue[m])
    BY <1>4, SMTT(20) DEF In
  <2> {} \in SUBSET Task
    BY Zenon
  <2> WITNESS {} \in SUBSET Task
  <2> QED
    BY <1>2, <1>3, <2>1, <2>2
<1>5. CASE queue[m] # <<>>
  <2>1. k_sched_resume(Head(queue[m]), 0)
    BY <1>5 DEF k_sched_wakeup_one_locked
  <2>2. PICK w \in Task : /\ w = Head(queue[m]) /\ Sleeping(w)
                          /\ kont[w].at = "lock.sleep" /\ kont[w].mutex = m
    BY <1>5, HeadSleeps
  <2>3. k_sched_resume(w, 0)
    BY <2>1, <2>2
  <2>4. /\ state' = [state EXCEPT ![w] = "READY"]
        /\ sleep_result' = [sleep_result EXCEPT ![w] = 0]
        /\ sched_queue' \in [Priority -> Seq(Task)]
        /\ \A p \in Priority : NoRepeat(sched_queue'[p])
        /\ \A u \in Task, p \in Priority : In(u, sched_queue'[p]) <=>
             In(u, sched_queue[p]) \/ (u = w /\ p = priority[w])
        /\ queue' \in [WaitQueue -> Seq(Task)]
        /\ \A q \in WaitQueue : NoRepeat(queue'[q])
        /\ \A u \in Task, q \in WaitQueue :
             In(u, queue'[q]) <=> In(u, queue[q]) /\ u # w
        /\ \A q \in WaitQueue : \A prio :
             Ordered(queue[q], prio) => Ordered(queue'[q], prio)
    BY ONLY <1>1, <2>2, <2>3, Resume, Zenon
  <2>5. /\ state' \in [Task -> TaskState] /\ state'[w] = "READY"
        /\ sleep_result' \in [Task -> Result] /\ sleep_result'[w] = 0
        /\ \A u \in Task : u # w => /\ state'[u] = state[u]
                                    /\ sleep_result'[u] = sleep_result[u]
    BY <1>2, <2>4 DEF TaskState, Result
  <2> {w} \in SUBSET Task
    BY Zenon
  <2> WITNESS {w} \in SUBSET Task
  <2> QED
    BY ONLY <2>2, <2>4, <2>5, ZenonT(60)
<1> QED
  BY <1>4, <1>5, ZenonT(60)

\* What _k_sched_update_effective_priority computes.
LEMMA EffectivePriorityOK ==
  ASSUME LeastElements, TypeOK, NEW t \in Task, NEW M \in SUBSET Mutex
  PROVE  /\ EffectivePriority(t, M) \in Priority
         /\ EffectivePriority(t, M) <= SavedPriority[t]
         /\ \A m \in M : EffectivePriority(t, M) <= mutex_priority[m]
         /\ \/ EffectivePriority(t, M) = SavedPriority[t]
            \/ \E m \in M : EffectivePriority(t, M) = mutex_priority[m]
<1> DEFINE T == {SavedPriority[t]} \cup {mutex_priority[m] : m \in M}
           e == Min(T)
<1>1. SavedPriority[t] \in 0 .. MaxPriorities - 1 /\ MaxPriorities \in Nat
  BY SchedAssumption
<1>2. \A m \in M : mutex_priority[m] \in 0 .. MaxPriorities
  BY Zenon DEF TypeOK
<1>3. T \in SUBSET (0 .. MaxPriorities) /\ T # {}
  BY <1>1, <1>2, SMTT(20)
<1>4. e \in T /\ \A y \in T : e <= y
  <2> HIDE DEF T
  <2> QED
    BY <1>1, <1>3, MinIsLeast, Zenon
<1>5. e <= SavedPriority[t] /\ \A m \in M : e <= mutex_priority[m]
  BY <1>4
<1>6. e = SavedPriority[t] \/ \E m \in M : e = mutex_priority[m]
  BY ONLY <1>4
<1>7. e \in Priority
  <2>1. e \in 0 .. MaxPriorities
    BY <1>3, <1>4
  <2> HIDE DEF e
  <2> QED
    BY <1>1, <1>5, <2>1 DEF Priority
<1>8. EffectivePriority(t, M) = e
  BY DEF EffectivePriority
<1> HIDE DEF e
<1> QED
  BY <1>5, <1>6, <1>7, <1>8

\* k_mutex_unlock, and k_condvar_timed_wait up to its sleep.
LEMMA UnlockStep ==
  ASSUME LeastElements, IInv, NEW c \in CPU, NEW t \in Task, NEW m \in Mutex,
         MayEnter(c, t), owner[m] = t, k_mutex_unlock_locked(t, m),
         kont' \in [Task -> Kont],
         \A u \in Task : u # t => kont'[u] = kont[u],
         \/ sched_lock' = sched_lock /\ kont'[t] = kont[t]
         \/ /\ sched_lock' = c
            /\ kont'[t].at = "wait.block" /\ kont'[t].mutex = m
            /\ kont'[t].cond \in Cond,
         UNCHANGED <<cpu_task, timeouts, loop, panic, sleep_on_mutex, finalised>>
  PROVE  IInv'
<1> USE SchedAssumption, MutexAssumption, CondAssumption
<1>0. /\ TypeOK /\ OneList /\ KontOK /\ LoopOK /\ MutexQueueOrdered
      /\ MutexCovers /\ BoostIsExact /\ FinalisedOK /\ NoStaleTimer /\ RelockOK
      /\ NoStrandedWaiter
  BY DEF IInv
<1>1. /\ kont[t] = Returning /\ state[t] = "RUNNING" /\ loop = NoLoop
      /\ t \notin timeouts /\ sleep_on_mutex[t] = Null
      /\ \A u \in Task : kont[u].at \notin {"lock.block", "wait.block"}
  BY Entering
<1>2. /\ panic = "none" /\ sched_lock = Null /\ cpu_task[c] = t /\ c # Null
      /\ t # Null /\ m # Null
  BY DEF MayEnter
<1>3. m \notin finalised
  BY <1>0, <1>2 DEF FinalisedOK
<1>4. /\ owner' = [owner EXCEPT ![m] = Null]
      /\ k_sched_wakeup_one_locked(m, 0)
      /\ mutex_priority' =
           [mutex_priority EXCEPT ![m] = k_mutex_recalc_priority(queue'[m])]
      /\ priority' = [priority EXCEPT ![t] = EffectivePriority(t, Owned(t) \ {m})]
  BY DEF k_mutex_unlock_locked
<1>5. PICK W \in SUBSET Task :
           /\ \A u \in W : /\ Sleeping(u) /\ state'[u] = "READY"
                           /\ sleep_result'[u] = 0
                           /\ kont[u].at = "lock.sleep" /\ kont[u].mutex = m
           /\ \A u \in Task : u \notin W => /\ state'[u] = state[u]
                                            /\ sleep_result'[u] = sleep_result[u]
           /\ W = {} => \A u \in Task : ~ In(u, queue[m])
           /\ state' \in [Task -> TaskState] /\ sleep_result' \in [Task -> Result]
           /\ sched_queue' \in [Priority -> Seq(Task)]
           /\ \A p \in Priority : NoRepeat(sched_queue'[p])
           /\ \A u \in Task, p \in Priority : In(u, sched_queue'[p]) <=>
                In(u, sched_queue[p]) \/ (u \in W /\ p = priority[u])
           /\ queue' \in [WaitQueue -> Seq(Task)]
           /\ \A q \in WaitQueue : NoRepeat(queue'[q])
           /\ \A u \in Task, q \in WaitQueue :
                In(u, queue'[q]) <=> In(u, queue[q]) /\ u \notin W
           /\ \A q \in WaitQueue : \A prio :
                Ordered(queue[q], prio) => Ordered(queue'[q], prio)
  BY <1>4, UnlockWakes, ZenonT(60)
<1>51. \A u \in Task, p \in Priority : In(u, sched_queue'[p]) <=>
         In(u, sched_queue[p]) \/ (u \in W /\ p = priority[u])
  BY <1>5, Zenon
<1>52. \A u \in Task : /\ u \in W => state'[u] = "READY"
                       /\ u \notin W => state'[u] = state[u]
  BY <1>5, Zenon
<1>53. \A u \in Task, q \in WaitQueue :
         In(u, queue'[q]) <=> In(u, queue[q]) /\ u \notin W
  BY <1>5, Zenon
<1>6. /\ t \notin W /\ ~ Sleeping(t)
      /\ \A u \in Task : Sleeping(u)' <=> Sleeping(u) /\ u \notin W
      /\ \A u \in W : state[u] # "READY" /\ state[u] # "RUNNING"
  BY <1>1, <1>5, Zenon DEF Sleeping
<1>7. /\ \A q \in WaitQueue : ~ In(t, queue[q]) /\ ~ In(t, queue'[q])
      /\ \A p \in Priority : ~ In(t, sched_queue[p])
  <2>1. \A p \in Priority : ~ In(t, sched_queue[p])
    BY ONLY <1>0, <1>1 DEF OneList
  <2>2. \A q \in WaitQueue : ~ In(t, queue[q])
    BY ONLY SchedAssumption, MutexAssumption, CondAssumption, <1>0, <1>6 DEF OneList
  <2> QED
    BY ONLY <1>5, <2>1, <2>2
<1>8. /\ owner \in [Mutex -> Task \cup {Null}] /\ owner'[m] = Null
      /\ owner' \in [Mutex -> Task \cup {Null}]
      /\ \A k \in Mutex : k # m => owner'[k] = owner[k]
  <2>1. owner \in [Mutex -> Task \cup {Null}]
    BY <1>0, Zenon DEF TypeOK
  <2> QED
    BY <1>4, <2>1
<1>9. /\ priority' \in [Task -> Priority]
      /\ \A u \in Task : u # t => priority'[u] = priority[u]
      /\ priority'[t] <= SavedPriority[t]
      /\ \A k \in Mutex : owner[k] = t /\ k # m => priority'[t] <= mutex_priority[k]
      /\ \/ priority'[t] = SavedPriority[t]
         \/ \E k \in Mutex : owner[k] = t /\ k # m /\ priority'[t] = mutex_priority[k]
  <2>1. priority \in [Task -> Priority]
    BY <1>0, Zenon DEF TypeOK
  <2>2. \A k \in Mutex : k \in Owned(t) \ {m} <=> owner[k] = t /\ k # m
    BY DEF Owned
  <2>3. Owned(t) \ {m} \in SUBSET Mutex
    BY DEF Owned
  <2> DEFINE M == Owned(t) \ {m}
  <2>4. /\ EffectivePriority(t, M) \in Priority
        /\ EffectivePriority(t, M) <= SavedPriority[t]
        /\ \A k \in M : EffectivePriority(t, M) <= mutex_priority[k]
        /\ \/ EffectivePriority(t, M) = SavedPriority[t]
           \/ \E k \in M : EffectivePriority(t, M) = mutex_priority[k]
    <3> HIDE DEF M
    <3> QED
      BY <1>0, <2>3, EffectivePriorityOK, Zenon DEF M
  <2>5. priority'[t] = EffectivePriority(t, M)
    BY <1>4, <2>1
  <2> QED
    BY ONLY <1>4, <2>1, <2>2, <2>3, <2>4, <2>5, ZenonT(60)
<1>10. /\ mutex_priority' \in [Mutex -> 0 .. MaxPriorities]
       /\ \A k \in Mutex : k # m => mutex_priority'[k] = mutex_priority[k]
       /\ \A u \in Task : In(u, queue'[m]) => mutex_priority'[m] <= priority'[u]
  <2>1. mutex_priority \in [Mutex -> 0 .. MaxPriorities]
    BY <1>0, Zenon DEF TypeOK
  <2>2. queue'[m] \in Seq(Task) /\ Ordered(queue'[m], priority)
    BY <1>0, <1>5, ZenonT(60) DEF MutexQueueOrdered
  <2>3. \A u \in Task : In(u, queue'[m]) =>
          queue'[m] # <<>> /\ priority[Head(queue'[m])] <= priority[u]
    BY ONLY <1>0, <2>2, HeadHighest, PrioritiesAreNumbers
  <2>4. queue'[m] # <<>> => Head(queue'[m]) \in Task
    BY <2>2, SMTT(20)
  <2>5. \A u \in Task : priority[u] \in 0 .. MaxPriorities
    <3>1. \A p \in Priority : p \in 0 .. MaxPriorities
      BY SMTT(20) DEF Priority
    <3> QED
      BY ONLY <1>0, <3>1, Zenon DEF TypeOK
  <2>6. k_mutex_recalc_priority(queue'[m]) \in 0 .. MaxPriorities
    BY <2>4, <2>5, SMTT(20) DEF k_mutex_recalc_priority
  <2>7. \A u \in Task : In(u, queue'[m]) =>
          k_mutex_recalc_priority(queue'[m]) <= priority[u]
    BY ONLY <2>3 DEF k_mutex_recalc_priority
  <2>8. \A u \in Task : In(u, queue'[m]) => priority'[u] = priority[u]
    BY <1>7, <1>9, SMTT(20)
  <2> QED
    BY ONLY SchedAssumption, MutexAssumption, CondAssumption, <1>4, <2>1, <2>6, <2>7, <2>8, Zenon
<1>11. TypeOK'
  <2>1. /\ sched_lock' \in CPU \cup {Null} /\ cpu_task' \in [CPU -> Task \cup {Null}]
        /\ timeouts' \in SUBSET Task /\ loop' \in Loop
        /\ panic' \in {"none", "no owner", "lock order"}
        /\ sleep_on_mutex' \in [Task -> Mutex \cup {Null}]
        /\ finalised' \in SUBSET WaitQueue
    BY <1>0, <1>2 DEF TypeOK
  <2>2. /\ state' \in [Task -> TaskState] /\ sleep_result' \in [Task -> Result]
        /\ sched_queue' \in [Priority -> Seq(Task)]
        /\ queue' \in [WaitQueue -> Seq(Task)]
    BY ONLY <1>5
  <2>3. /\ priority' \in [Task -> Priority] /\ kont' \in [Task -> Kont]
        /\ owner' \in [Mutex -> Task \cup {Null}]
        /\ mutex_priority' \in [Mutex -> 0 .. MaxPriorities]
    BY <1>8, <1>9, <1>10
  <2> QED
    BY ONLY <2>1, <2>2, <2>3, ZenonT(60) DEF TypeOK
<1>12. OneList'
  <2>1. OneList!1' /\ OneList!3'
    BY ONLY <1>5
  <2>2. ASSUME NEW u \in Task, NEW p \in Priority
        PROVE  In(u, sched_queue'[p]) <=> state'[u] = "READY" /\ priority'[u] = p
    <3>1. CASE u = t
      BY ONLY <1>1, <1>51, <1>52, <1>6, <1>7, <2>2, <3>1
    <3>2. CASE u # t /\ u \in W
      <4>1. ~ In(u, sched_queue[p])
        BY <1>0, <1>6, <3>2 DEF OneList
      <4>2. state'[u] = "READY" /\ (In(u, sched_queue'[p]) <=> p = priority[u])
        BY ONLY <1>51, <1>52, <2>2, <3>2, <4>1
      <4>3. priority'[u] = priority[u]
        BY <1>9, <3>2
      <4> QED
        BY ONLY <4>2, <4>3
    <3>3. CASE u # t /\ u \notin W
      <4>1. In(u, sched_queue[p]) <=> state[u] = "READY" /\ priority[u] = p
        BY <1>0 DEF OneList
      <4> QED
        BY ONLY <1>51, <1>52, <1>9, <2>2, <3>3, <4>1
    <3> QED
      BY ONLY <3>1, <3>2, <3>3
  <2>3. ASSUME NEW u \in Task, NEW q \in WaitQueue
        PROVE  In(u, queue'[q]) <=> Sleeping(u)' /\ SleepsOn(u)' = q
    <3>1. CASE u = t
      BY <1>6, <1>7, <3>1
    <3>2. CASE u # t
      <4>1. SleepsOn(u)' = SleepsOn(u)
        BY <3>2 DEF SleepsOn
      <4>2. In(u, queue[q]) <=> Sleeping(u) /\ SleepsOn(u) = q
        BY ONLY <1>0 DEF OneList
      <4> QED
        BY ONLY <1>53, <1>6, <2>3, <4>1, <4>2
    <3> QED
      BY <3>1, <3>2
  <2>4. OneList!5' /\ OneList!6' /\ OneList!7'
    <3>1. /\ \A k \in CPU : cpu_task[k] # Null => cpu_task[k] \in Task
          /\ \A k \in CPU : cpu_task[k] # Null => state[cpu_task[k]] = "RUNNING"
      BY ONLY <1>0, Running
    <3>2. \A u \in Task : state'[u] = "RUNNING" <=> state[u] = "RUNNING"
      BY ONLY <1>5, <1>6
    <3>3. \A u \in Task : state[u] = "RUNNING" => \E k \in CPU : cpu_task[k] = u
      BY ONLY <1>0 DEF OneList
    <3>4. \A k, d \in CPU : cpu_task[k] = cpu_task[d] /\ cpu_task[k] # Null => k = d
      BY <1>0 DEF OneList
    <3> QED
      BY <3>1, <3>2, <3>3, <3>4
  <2> QED
    BY ONLY <2>1, <2>2, <2>3, <2>4 DEF OneList
<1>13. KontOK'
  <2>1. ASSUME NEW u \in Task
        PROVE  KontOK!1!(u)'
    <3> DEFINE slept == Sleeping(u)
    <3>0. /\ sleep_on_mutex'[u] = sleep_on_mutex[u] /\ (slept' => slept)
          /\ panic' = panic
      BY <1>6
    <3> HIDE DEF slept
    <3>1. CASE u = t /\ sched_lock' = sched_lock /\ kont'[t] = kont[t]
      <4>1. kont'[u] = Returning /\ ~ slept'
        BY ONLY SchedAssumption, MutexAssumption, CondAssumption, <1>1, <1>6, <3>1 DEF slept
      <4>2. kont'[u].at = "return" /\ sleep_on_mutex'[u] = Null
        BY <1>1, <3>0, <3>1, <4>1, SMTT(20) DEF Returning
      <4> QED
        BY ONLY <4>1, <4>2 DEF slept
    <3>2. CASE u = t /\ sched_lock' = c /\ kont'[t].at = "wait.block"
                 /\ kont'[t].mutex = m /\ kont'[t].cond \in Cond
      BY <1>1, <1>2, <1>6, <3>2
    <3>3. CASE u # t
      <4>1. kont'[u] = kont[u] /\ kont[u].at \notin {"lock.block", "wait.block"}
        BY <1>1, <3>3
      <4>2. KontOK!1!(u)
        BY <1>0, Zenon DEF KontOK
      <4> QED
        BY <3>0, <4>1, <4>2, ZenonT(60) DEF slept
    <3> QED
      BY <3>1, <3>2, <3>3, ZenonT(60)
  <2>2. KontOK!2'
    <3>1. \A k \in CPU : cpu_task[k] # Null => kont[cpu_task[k]] = Returning
      BY <1>0, <1>2 DEF KontOK
    <3>2. \A k \in CPU : cpu_task[k] = t => k = c
      BY <1>0, <1>2, SMTT(20) DEF OneList
    <3>3. \A k \in CPU : cpu_task[k] # Null => cpu_task[k] \in Task
      BY ONLY <1>0, ZenonT(60) DEF TypeOK
    <3> QED
      BY <1>1, <3>1, <3>2, <3>3
  <2> QED
    BY <2>1, <2>2, Zenon DEF KontOK
<1>14. LoopOK'
  BY <1>1 DEF LoopOK, NoLoop
<1>15. MutexQueueOrdered'
  <2> SUFFICES ASSUME NEW k \in Mutex
               PROVE  Ordered(queue'[k], priority')
    BY DEF MutexQueueOrdered
  <2>1. queue'[k] \in Seq(Task) /\ Ordered(queue'[k], priority)
    BY <1>0, <1>5, ZenonT(60) DEF MutexQueueOrdered
  <2>2. \A u \in Task : In(u, queue'[k]) => priority[u] = priority'[u]
    BY <1>7, <1>9, SMTT(20)
  <2> QED
    BY ONLY <2>1, <2>2, OrderedSame
<1>16. MutexCovers'
  <2>1. ASSUME NEW k \in Mutex, NEW u \in Task, In(u, queue'[k])
        PROVE  mutex_priority'[k] <= priority'[u]
    <3>1. CASE k = m
      BY <1>10, <2>1, <3>1
    <3>2. CASE k # m
      <4>1. In(u, queue[k]) /\ u # t
        BY <1>53, <1>7, <2>1
      <4>2. mutex_priority[k] <= priority[u]
        BY <1>0, <1>1, <4>1 DEF MutexCovers, NoLoop
      <4> QED
        BY <1>9, <1>10, <3>2, <4>1, <4>2
    <3> QED
      BY ONLY <3>1, <3>2
  <2>2. \A u \in Task : kont'[u].at # "lock.block"
    BY <1>1 DEF Returning
  <2> QED
    BY <2>1, <2>2 DEF MutexCovers
<1>17. BoostIsExact'
  <2> SUFFICES ASSUME NEW u \in Task
               PROVE  BoostIsExact!(u)'
    BY DEF BoostIsExact
  <2>1. CASE u = t
    <3>1. \A k \in Mutex : owner'[k] = t <=> owner[k] = t /\ k # m
      BY <1>2, <1>8
    <3> QED
      BY ONLY <1>9, <1>10, <2>1, <3>1
  <2>2. CASE u # t
    <3>1. \A k \in Mutex : owner'[k] = u <=> owner[k] = u
      BY <1>8, <2>2
    <3>2. \A k \in Mutex : owner[k] = u => mutex_priority'[k] = mutex_priority[k]
      BY <1>10, <2>2
    <3>3. priority'[u] = priority[u]
      BY <1>9, <2>2
    <3> QED
      BY <1>0, <3>1, <3>2, <3>3, SMTT(20) DEF BoostIsExact
  <2> QED
    BY <2>1, <2>2
<1>18. FinalisedOK'
  <2> SUFFICES ASSUME NEW k \in Mutex, k \in finalised
               PROVE  FinalisedOK!(k)!2'
    BY DEF FinalisedOK
  <2>1. k # m /\ k # Null
    BY <1>3
  <2>2. owner'[k] = Null
    BY <1>0, <1>8, <2>1, SMTT(20) DEF FinalisedOK
  <2>3. ASSUME NEW u \in Task, kont'[u].mutex = k
        PROVE  u # t /\ u \notin W /\ kont'[u] = kont[u]
    BY <1>1, <1>5, <2>1, <2>3, SMTT(20) DEF Returning
  <2>4. ASSUME NEW u \in Task, kont'[u].mutex = k
        PROVE  FinalisedOK!(k)!2!2!(u)!2'
    <3>1. FinalisedOK!(k)!2!2!(u)!2
      BY <1>0, <2>3, <2>4 DEF FinalisedOK
    <3>2. sleep_result'[u] = sleep_result[u] /\ (Sleeping(u)' <=> Sleeping(u))
      BY <1>5, <1>6, <2>3, <2>4, Zenon
    <3> QED
      BY <2>3, <2>4, <3>1, <3>2
  <2> QED
    BY <2>2, <2>4
<1>19. NoStaleTimer'
  BY <1>0, <1>1, ZenonT(60) DEF NoStaleTimer, TypeOK
<1>20. RelockOK'
  <2> SUFFICES ASSUME NEW u \in Task, kont'[u].cond # Null,
                      kont'[u].at \in {"lock.block", "lock.sleep"}
               PROVE  ~ kont'[u].timed /\ sleep_result'[u] = 0
    BY DEF RelockOK
  <2>1. u # t /\ kont'[u] = kont[u]
    BY <1>1, SMTT(20) DEF Returning
  <2>2. ~ kont[u].timed /\ sleep_result[u] = 0
    BY <1>0, <2>1 DEF RelockOK
  <2> QED
    BY <1>5, <2>1, <2>2
<1>21. NoStrandedWaiter'
  <2> SUFFICES ASSUME NEW k \in Mutex, NEW u \in Task,
                      owner'[k] = Null, In(u, queue'[k]), k \notin finalised'
               PROVE  NoStrandedWaiter!(k, u)!2'
    BY DEF NoStrandedWaiter
  <2>1. CASE k = m
    <3>1. PICK w \in W : TRUE
      BY <1>5, <2>1, Zenon
    <3>2. /\ w \in Task /\ w # t /\ kont[w].at = "lock.sleep" /\ kont[w].mutex = m
          /\ sleep_result'[w] = 0
      <4>1. w \in Task /\ w # t
        BY <1>6, <3>1, Zenon
      <4> QED
        BY <1>5, <3>1, <4>1, Zenon
    <3>3. ~ Sleeping(w)'
      BY ONLY <1>6, <3>1, <3>2, ZenonT(60)
    <3> QED
      BY <2>1, <3>2, <3>3
  <2>2. CASE k # m
    <3>1. owner[k] = Null /\ In(u, queue[k]) /\ k \notin finalised
      BY <1>5, <1>8, <2>2
    <3>2. PICK w \in Task : /\ kont[w].at = "lock.sleep" /\ kont[w].mutex = k
                            /\ ~ Sleeping(w) /\ sleep_result[w] = 0
      BY <1>0, <3>1 DEF NoStrandedWaiter
    <3>3. w # t /\ w \notin W
      BY <1>1, <1>5, <3>2, SMTT(20) DEF Returning
    <3> QED
      BY <1>5, <1>6, <3>2, <3>3
  <2> QED
    BY <2>1, <2>2
<1> QED
  BY <1>11, <1>12, <1>13, <1>14, <1>15, <1>16, <1>17, <1>18, <1>19, <1>20,
     <1>21 DEF IInv

\* k_mutex_unlock and the first half of k_condvar_timed_wait both release a
\* mutex that their caller owns.
LEMMA UnlockCalls ==
  ASSUME LeastElements, IInv, NEW c \in CPU, NEW t \in Task, NEW m \in Mutex,
         \/ k_mutex_unlock(c, t, m)
         \/ \E cond \in Cond : k_condvar_timed_wait(c, t, cond, m)
  PROVE  IInv'
<1>1. kont \in [Task -> Kont]
  BY Zenon DEF IInv, TypeOK
<1>2. CASE k_mutex_unlock(c, t, m)
  <2>1. /\ MayEnter(c, t) /\ owner[m] = t /\ k_mutex_unlock_locked(t, m)
        /\ kont' = kont /\ sched_lock' = sched_lock
        /\ UNCHANGED <<cpu_task, timeouts, loop, panic, sleep_on_mutex, finalised>>
    BY <1>2 DEF k_mutex_unlock
  <2> QED
    BY <1>1, <2>1, UnlockStep
<1>3. ASSUME NEW cond \in Cond, k_condvar_timed_wait(c, t, cond, m)
      PROVE  IInv'
  <2>1. /\ MayEnter(c, t) /\ owner[m] = t /\ k_mutex_unlock_locked(t, m)
        /\ sched_lock' = c
        /\ kont' = [kont EXCEPT ![t] = [at |-> "wait.block", mutex |-> m,
                                        cond |-> cond, timed |-> FALSE]]
        /\ UNCHANGED <<cpu_task, timeouts, loop, panic, sleep_on_mutex, finalised>>
    BY <1>3 DEF k_condvar_timed_wait
  <2>2. /\ kont' \in [Task -> Kont]
        /\ \A u \in Task : u # t => kont'[u] = kont[u]
        /\ kont'[t].at = "wait.block" /\ kont'[t].mutex = m
        /\ kont'[t].cond \in Cond
    BY <1>1, <2>1 DEF Kont
  <2> QED
    BY <2>1, <2>2, UnlockStep, ZenonT(60)
<1> QED
  BY <1>2, <1>3

----------------------------------------------------------------------------
(* The invariant. *)

\* The numbers are well-founded, so the bounded sets of them have least elements.
LEMMA LeastElementsExist == LeastElements
<1> SUFFICES ASSUME NEW n \in Nat, NEW T \in SUBSET (0 .. n), T # {}
             PROVE  \E x \in T : \A y \in T : x <= y
  BY Zenon DEF LeastElements
<1> DEFINE R == OpToRel(<, Nat)
<1>1. IsWellFoundedOn(R, Nat)
  BY NatLessThanWellFounded, Zenon
<1>2. T \subseteq Nat
  OBVIOUS
<1> HIDE DEF R
<1>3. PICK x \in T : \A y \in T : ~ (<<y, x>> \in R)
  BY <1>1, <1>2, WFMin, Zenon
<1>4. \A y \in T : y < x => <<y, x>> \in R
  BY <1>2 DEF R, OpToRel
<1>5. \A y \in T : ~ (y < x)
  BY <1>3, <1>4, Zenon
<1>6. \A y \in T : x <= y
  BY <1>2, <1>5
<1> QED
  BY <1>6, Zenon

\* The initial state satisfies the invariant.
LEMMA InitIInv == Init => IInv
<1> SUFFICES ASSUME Init
             PROVE  IInv
  OBVIOUS
<1> USE SchedAssumption, MutexAssumption, CondAssumption
    DEF Init, MutexInit, SchedInit, Priority
<1>1. \A t : ~ In(t, <<>>)
  BY SMTT(20) DEF In
<1>2. NoRepeat(<<>>) /\ \A prio : Ordered(<<>>, prio)
  BY SMTT(20) DEF NoRepeat, Ordered
<1>3. TypeOK
  BY SMTT(20) DEF TypeOK, TaskState, Result, Kont, Returning, Loop, NoLoop
<1>4. OneList
  BY <1>1, <1>2 DEF OneList, Sleeping
<1>5. KontOK
  BY DEF KontOK, Returning, Sleeping
<1>6. LoopOK
  BY DEF LoopOK, NoLoop
<1>7. MutexQueueOrdered
  BY <1>2 DEF MutexQueueOrdered
<1>8. MutexCovers
  BY <1>1 DEF MutexCovers, Returning
<1>9. BoostIsExact
  BY SMTT(20) DEF BoostIsExact, Owned
<1>10. FinalisedOK /\ NoStaleTimer /\ RelockOK
  BY DEF FinalisedOK, NoStaleTimer, RelockOK, Returning
<1>11. NoStrandedWaiter
  BY <1>1 DEF NoStrandedWaiter
<1> QED
  BY <1>3, <1>4, <1>5, <1>6, <1>7, <1>8, <1>9, <1>10, <1>11 DEF IInv

\* The invariant speaks of the variables only.
LEMMA StutterStep ==
  ASSUME IInv, UNCHANGED vars
  PROVE  IInv'
<1> USE DEF vars, schedVars, mutexVars
<1>1. TypeOK' /\ LoopOK' /\ MutexQueueOrdered'
  BY Zenon DEF IInv, TypeOK, LoopOK, MutexQueueOrdered
<1>2. OneList'
  BY SameLists DEF IInv
<1>3. KontOK' /\ MutexCovers' /\ BoostIsExact'
  BY ZenonT(60) DEF IInv, KontOK, MutexCovers, BoostIsExact, Sleeping
<1>4. FinalisedOK' /\ NoStaleTimer' /\ RelockOK' /\ NoStrandedWaiter'
  BY SMTT(20) DEF IInv, FinalisedOK, NoStaleTimer, RelockOK, NoStrandedWaiter, Sleeping
<1> QED
  BY <1>1, <1>2, <1>3, <1>4 DEF IInv

\* Every step of the specification preserves the invariant.
LEMMA NextIInv == IInv /\ [Next]_vars => IInv'
<1> SUFFICES ASSUME IInv, [Next]_vars
             PROVE  IInv'
  OBVIOUS
<1>1. ASSUME NEW c \in CPU, LockedStep(c)
      PROVE  IInv'
  <2>1. CASE k_sched_switch(c) /\ UNCHANGED mutexVars
    BY <2>1, SwitchStep
  <2>2. CASE k_sched_idle(c) /\ UNCHANGED mutexVars
    BY <2>2, LockCalls
  <2>3. CASE k_sched_wakeup_all_locked(c) /\ UNCHANGED mutexVars
    BY <2>3, WakeupAllLoop
  <2>4. CASE k_mutex_may_raise_priority(c)
    BY <2>4, LeastElementsExist, RaiseStep
  <2>5. ASSUME NEW t \in Task, k_task_run(c, t), UNCHANGED mutexVars
        PROVE  IInv'
    BY <2>5, LockCalls
  <2>6. ASSUME NEW t \in Task, k_mutex_sleep(c, t)
        PROVE  IInv'
    BY <2>6, LeastElementsExist, MutexSleep
  <2>7. ASSUME NEW t \in Task, k_mutex_awake(c, t)
        PROVE  IInv'
    BY <2>7, MutexAwake
  <2>8. ASSUME NEW t \in Task, k_condvar_awake(c, t)
        PROVE  IInv'
    BY <2>8, CondvarAwake
  <2>9. ASSUME NEW t \in Task, NEW how \in {"SLEEP", "SLEEP_UNWAKEABLE"},
               NEW timed \in BOOLEAN, k_condvar_sleep(c, t, how, timed)
        PROVE  IInv'
    BY <2>9, LeastElementsExist, CondvarSleep
  <2> QED
    BY <1>1, <2>1, <2>2, <2>3, <2>4, <2>5, <2>6, <2>7, <2>8, <2>9 DEF LockedStep
<1>2. ASSUME NEW c \in CPU, NEW t \in Task, Call(c, t)
      PROVE  IInv'
  <2>1. CASE /\ k_task_yield(c, t) \/ k_irq_handler_end(c, t)
             /\ UNCHANGED mutexVars
    BY <2>1, YieldCall
  <2>2. CASE Leaves(c, t)
    BY <2>2, LeavesCall
  <2>3. ASSUME NEW m \in Mutex,
               \/ k_mutex_try_lock(c, t, m)
               \/ \E timed \in BOOLEAN : k_mutex_timed_lock(c, t, m, timed)
        PROVE  IInv'
    BY <2>3, LockCall
  <2>4. ASSUME NEW m \in Mutex,
               \/ k_mutex_unlock(c, t, m)
               \/ \E cond \in Cond : k_condvar_timed_wait(c, t, cond, m)
        PROVE  IInv'
    BY <2>4, LeastElementsExist, UnlockCalls
  <2>5. CASE \/ \E m \in Mutex : k_mutex_fini(c, t, m)
             \/ \E cond \in Cond : k_condvar_notify_all(c, t, cond)
             \/ \E cond \in Cond : k_condvar_destroy(c, t, cond)
    BY <2>5, WakeupAllCalls
  <2>6. CASE \E cond \in Cond : k_condvar_notify_one(c, t, cond)
    BY <2>6, WakeupOneCalls
  <2> QED
    BY <1>2, <2>1, <2>2, <2>3, <2>4, <2>5, <2>6 DEF Call
<1>3. CASE Elsewhere
  <2>1. CASE \E c \in CPU : k_sched_start(c) /\ UNCHANGED mutexVars
    BY <2>1, LockCalls
  <2>2. CASE \E c \in CPU, t \in Task : k_task_resume(c, t) /\ UNCHANGED mutexVars
    BY <2>2, TaskResume
  <2>3. CASE \/ \E t \in Task : k_task_timeout_callback(t) /\ UNCHANGED mutexVars
             \/ \E t \in Task : k_task_wake(t)
    BY <2>3, WakeupOneCalls
  <2>4. CASE \/ \E m \in Mutex : k_mutex_init(m)
             \/ \E cond \in Cond : k_condvar_create(cond)
    BY <2>4, InitCalls
  <2>5. CASE Halted /\ UNCHANGED mutexVars
    BY <2>5, StutterStep DEF Halted, vars
  <2> QED
    BY <1>3, <2>1, <2>2, <2>3, <2>4, <2>5 DEF Elsewhere
<1>4. CASE UNCHANGED vars
  BY <1>4, StutterStep
<1> QED
  BY <1>1, <1>2, <1>3, <1>4 DEF Next

\* The inductive invariant holds in every reachable state, for any number of
\* CPUs, tasks, priorities, mutexes and condition variables.
THEOREM Invariant == Spec => []IInv
<1> QED
  BY InitIInv, NextIInv, PTL DEF Spec

\* The variables keep the types the code declares.
THEOREM TypeCorrect == Spec => []TypeOK
<1>1. IInv => TypeOK
  BY DEF IInv
<1> QED
  BY <1>1, Invariant, PTL

\* sched.c never corrupts a list: a task's one link is in the run queue of its
\* priority, in the queue it sleeps on, or nowhere.
THEOREM ListsAreSound == Spec => []OneList
<1>1. IInv => OneList
  BY DEF IInv
<1> QED
  BY <1>1, Invariant, PTL

\* When a chain of raises has been followed, the owner of a mutex runs at least
\* at the priority of every task that sleeps on it.
THEOREM Inheritance == Spec => []PriorityInheritance
<1>1. IInv => PriorityInheritance
  <2> SUFFICES ASSUME IInv, loop.op # "raise", NEW m \in Mutex, NEW t \in Task,
                      owner[m] # Null, In(t, queue[m])
               PROVE  priority[owner[m]] <= priority[t]
    BY DEF PriorityInheritance
  <2>1. mutex_priority[m] <= priority[t]
    BY DEF IInv, MutexCovers
  <2>2. owner[m] \in Task
    BY Zenon DEF IInv, TypeOK
  <2>3. priority[owner[m]] <= mutex_priority[m]
    BY <2>2 DEF IInv, BoostIsExact
  <2>4. /\ priority[t] \in Int /\ priority[owner[m]] \in Int
        /\ mutex_priority[m] \in Int
    BY <2>2, PrioritiesAreNumbers DEF IInv
  <2> QED
    BY <2>1, <2>3, <2>4
<1> QED
  BY <1>1, Invariant, PTL

\* A boost is never kept after the mutex that caused it is unlocked, and never
\* lost while a mutex that causes it is owned.
THEOREM BoostsAreExact == Spec => []BoostIsExact
<1>1. IInv => BoostIsExact
  BY DEF IInv
<1> QED
  BY <1>1, Invariant, PTL

\* Unlocking wakes a task of the highest priority that waits.
THEOREM WakesHighest == Spec => []MutexQueueOrdered
<1>1. IInv => MutexQueueOrdered
  BY DEF IInv
<1> QED
  BY <1>1, Invariant, PTL

\* No wake-up of a mutex is lost.
THEOREM NoLostWakeup == Spec => []NoStrandedWaiter
<1>1. IInv => NoStrandedWaiter
  BY DEF IInv
<1> QED
  BY <1>1, Invariant, PTL

\* A timer never outlives the sleep it was started for.
THEOREM TimersAreFresh == Spec => []NoStaleTimer
<1>1. IInv => NoStaleTimer
  BY DEF IInv
<1> QED
  BY <1>1, Invariant, PTL

\* A step that ends a wait ends it with the mutex taken.
LEMMA WaitReturns ==
  ASSUME IInv, [Next]_vars, NEW t \in Task, kont[t].cond # Null,
         kont'[t] = Returning
  PROVE  owner'[kont[t].mutex] = t
<1> USE SchedAssumption
<1>1. /\ kont \in [Task -> Kont] /\ owner \in [Mutex -> Task \cup {Null}]
      /\ kont[t] # Returning /\ kont'[t].at = "return"
  <2>1. kont \in [Task -> Kont] /\ owner \in [Mutex -> Task \cup {Null}]
    BY Zenon DEF IInv, TypeOK
  <2>2. kont[t] # Returning /\ kont'[t].at = "return"
    BY SMTT(20) DEF Returning
  <2> QED
    BY <2>1, <2>2
<1>2. kont' # kont
  BY <1>1
<1>3. ASSUME NEW c \in CPU, NEW u \in Task, MayEnter(c, u)
      PROVE  u # t
  BY <1>1, <1>3, Entering
<1>4. ASSUME NEW u \in Task, u # t, NEW k, kont' = [kont EXCEPT ![u] = k]
      PROVE  FALSE
  BY <1>1, <1>4
<1>5. ASSUME NEW c \in CPU, NEW m \in Mutex, NEW timed, NEW cond,
             TimedLock(c, t, m, timed, cond)
      PROVE  owner'[m] = t
  <2>1. CASE owner[m] = Null
    BY <1>1, <1>2, <1>5, <2>1, ZenonT(60) DEF TimedLock, Acquire
  <2>2. CASE owner[m] # Null
    BY <1>1, <1>5, <2>2, SMTT(20) DEF TimedLock
  <2> QED
    BY <2>1, <2>2
<1>6. ASSUME NEW c \in CPU, NEW u \in Task, NEW m \in Mutex, NEW timed, NEW cond,
             TimedLock(c, u, m, timed, cond)
      PROVE  u = t
  BY <1>2, <1>4, <1>6, ZenonT(60) DEF TimedLock, Acquire
<1>7. ASSUME NEW c \in CPU, LockedStep(c)
      PROVE  owner'[kont[t].mutex] = t
  <2>1. ASSUME NEW u \in Task, k_mutex_sleep(c, u)
        PROVE  FALSE
    BY <1>1, <2>1 DEF k_mutex_sleep, Kont
  <2>2. ASSUME NEW u \in Task, k_mutex_awake(c, u)
        PROVE  owner'[kont[t].mutex] = t
    <3>1. kont[u].at = "lock.sleep" /\ kont[u].mutex \in Mutex
      BY <2>2, Zenon DEF k_mutex_awake, IInv, KontOK
    <3>2. CASE sleep_result[u] < 0
      <4>1. kont' = [kont EXCEPT ![u] = Returning]
        BY <2>2, <3>2 DEF k_mutex_awake
      <4>2. u = t
        BY <1>4, <4>1, Zenon
      <4>3. sleep_result[t] = 0
        BY <3>1, <4>2 DEF IInv, RelockOK
      <4> QED
        BY <3>2, <4>2, <4>3, SMTT(20)
    <3>3. CASE ~ (sleep_result[u] < 0)
      <4>1. TimedLock(c, u, kont[u].mutex, kont[u].timed, kont[u].cond)
        BY <2>2, <3>3 DEF k_mutex_awake
      <4> QED
        BY <1>5, <1>6, <3>1, <4>1, SMTT(20)
    <3> QED
      BY <3>2, <3>3
  <2>3. ASSUME NEW u \in Task, k_condvar_awake(c, u)
        PROVE  owner'[kont[t].mutex] = t
    <3>1. kont[u].at = "wait.sleep" /\ kont[u].mutex \in Mutex
      BY <2>3, Zenon DEF k_condvar_awake, IInv, KontOK
    <3>2. TimedLock(c, u, kont[u].mutex, FALSE, kont[u].cond)
      BY <2>3, Zenon DEF k_condvar_awake
    <3>3. u = t
      BY <1>6, <3>1, <3>2, Zenon
    <3> QED
      BY <1>5, <3>1, <3>2, <3>3, Zenon
  <2>4. ASSUME NEW u \in Task, NEW how, NEW timed, k_condvar_sleep(c, u, how, timed)
        PROVE  FALSE
    BY <1>1, <2>4 DEF k_condvar_sleep, Kont
  <2>5. \/ \E u \in Task : k_mutex_sleep(c, u)
        \/ \E u \in Task : k_mutex_awake(c, u)
        \/ \E u \in Task : k_condvar_awake(c, u)
        \/ \E u \in Task, how \in {"SLEEP", "SLEEP_UNWAKEABLE"}, timed \in BOOLEAN :
             k_condvar_sleep(c, u, how, timed)
        \/ kont' = kont
    BY <1>7, ZenonT(60) DEF LockedStep, k_sched_switch, k_sched_idle,
       k_sched_wakeup_all_locked, k_mutex_may_raise_priority, k_panic, k_task_run
  <2> QED
    BY <1>2, <2>1, <2>2, <2>3, <2>4, <2>5
<1>8. ASSUME NEW c \in CPU, NEW u \in Task, Call(c, u)
      PROVE  FALSE
  <2>1. ASSUME NEW m \in Mutex, k_mutex_try_lock(c, u, m)
        PROVE  FALSE
    BY <1>2, <1>3, <1>4, <2>1, ZenonT(60) DEF k_mutex_try_lock, Acquire
  <2>2. ASSUME NEW m \in Mutex, NEW timed \in BOOLEAN, k_mutex_timed_lock(c, u, m, timed)
        PROVE  FALSE
    BY <1>3, <1>6, <2>2 DEF k_mutex_timed_lock
  <2>3. ASSUME NEW m \in Mutex, NEW cond \in Cond, k_condvar_timed_wait(c, u, cond, m)
        PROVE  FALSE
    BY <1>3, <1>4, <2>3, ZenonT(60) DEF k_condvar_timed_wait
  <2>4. \/ \E m \in Mutex : k_mutex_try_lock(c, u, m)
        \/ \E m \in Mutex, timed \in BOOLEAN : k_mutex_timed_lock(c, u, m, timed)
        \/ \E m \in Mutex, cond \in Cond : k_condvar_timed_wait(c, u, cond, m)
        \/ kont' = kont
    BY <1>8 DEF Call, k_task_yield, k_irq_handler_end, Leaves, k_task_exit,
       k_task_suspend, k_mutex_unlock, k_mutex_fini, StartWakeupAll,
       k_condvar_notify_one, k_condvar_notify_all, k_condvar_destroy
  <2> QED
    BY <1>2, <2>1, <2>2, <2>3, <2>4
<1>9. ASSUME Elsewhere \/ UNCHANGED vars
      PROVE  kont' = kont
  BY <1>9 DEF Elsewhere, k_sched_start, k_task_resume, k_task_timeout_callback,
     k_task_wake, k_mutex_init, k_condvar_create, Halted, schedVars, vars
<1> QED
  BY <1>2, <1>7, <1>8, <1>9 DEF Next

\* k_condvar_timed_wait re-acquires the mutex before it returns, on success,
\* interrupt, timeout and destruction of the condition variable alike.
THEOREM WaitReturnsWithMutex == Spec => ReturnsWithMutex
<1>1. IInv /\ [Next]_vars =>
        [\A t \in Task : kont[t].cond # Null /\ kont'[t] = Returning
           => owner'[kont[t].mutex] = t]_vars
  BY WaitReturns
<1> QED
  BY <1>1, Invariant, PTL DEF Spec, ReturnsWithMutex

============================================================================
