--------------------------- MODULE SwitchProofs ----------------------------
(***************************************************************************)
(* That switching between tasks, starting, stopping, preempting and waking *)
(* them, and the life cycles of mutexes and condition variables preserve   *)
(* the invariant.                                                          *)
(***************************************************************************)
EXTENDS StepProofs

\* The time that the provers may take.
USE ZenonT(20), SMTT(20)

----------------------------------------------------------------------------
(* Switching, starting, stopping and preempting tasks. *)

\* The loop of a CPU switches to the first task of the first run queue.
LEMMA SwitchStep ==
  ASSUME IInv, NEW c \in CPU, k_sched_switch(c), UNCHANGED mutexVars
  PROVE  IInv'
<1> USE SchedAssumption, MutexAssumption, CondAssumption
<1>0. /\ TypeOK /\ OneList /\ KontOK /\ LoopOK /\ MutexQueueOrdered
      /\ MutexCovers /\ BoostIsExact /\ FinalisedOK /\ NoStaleTimer /\ RelockOK
      /\ NoStrandedWaiter
  BY DEF IInv
<1>1. /\ panic = "none" /\ sched_lock = c /\ cpu_task[c] = Null
      /\ UNCHANGED <<sched_lock, priority, queue, timeouts, sleep_result, kont,
                     loop, panic, owner, mutex_priority, sleep_on_mutex, finalised>>
  BY DEF k_sched_switch, mutexVars
<1>2. PICK p \in Priority :
        /\ sched_queue[p] # <<>>
        /\ sched_queue' = [sched_queue EXCEPT ![p] = Tail(sched_queue[p])]
        /\ state' = [state EXCEPT ![Head(sched_queue[p])] = "RUNNING"]
        /\ cpu_task' = [cpu_task EXCEPT ![c] = Head(sched_queue[p])]
  BY Zenon DEF k_sched_switch
<1> DEFINE t == Head(sched_queue[p])
<1>3. /\ sched_queue[p] \in Seq(Task) /\ NoRepeat(sched_queue[p])
      /\ sched_queue \in [Priority -> Seq(Task)]
      /\ \A r \in Priority : NoRepeat(sched_queue[r])
  <2>1. sched_queue \in [Priority -> Seq(Task)] /\ sched_queue[p] \in Seq(Task)
    BY <1>0, Zenon DEF TypeOK
  <2>2. \A r \in Priority : NoRepeat(sched_queue[r])
    BY <1>0 DEF OneList
  <2> QED
    BY <2>1, <2>2
<1>4. /\ t \in Task
      /\ In(t, sched_queue[p])
      /\ Tail(sched_queue[p]) \in Seq(Task)
      /\ NoRepeat(Tail(sched_queue[p]))
      /\ \A u : In(u, Tail(sched_queue[p])) <=> In(u, sched_queue[p]) /\ u # t
  BY <1>2, <1>3, ListTail
<1> HIDE DEF t
<1>5. state[t] = "READY" /\ priority[t] = p /\ t # Null /\ ~ Sleeping(t)
  BY <1>0, <1>4 DEF OneList, Sleeping
<1>6. /\ sched_queue' \in [Priority -> Seq(Task)]
      /\ sched_queue'[p] = Tail(sched_queue[p])
      /\ \A r \in Priority : r # p => sched_queue'[r] = sched_queue[r]
      /\ state'[t] = "RUNNING"
      /\ \A u \in Task : u # t => state'[u] = state[u]
      /\ cpu_task'[c] = t
      /\ \A d \in CPU : d # c => cpu_task'[d] = cpu_task[d]
  BY <1>0, <1>2, <1>3, <1>4, Zenon DEF TypeOK, t
<1>7. \A u \in Task : Sleeping(u)' <=> Sleeping(u)
  BY <1>5, <1>6 DEF Sleeping
<1>8. \A u \in Task : kont[u].at \notin {"lock.block", "wait.block"}
  BY <1>0, <1>1 DEF KontOK
<1>9. loop = NoLoop
  BY <1>0, <1>1 DEF LoopOK
<1>10. TypeOK'
  <2>1. state' \in [Task -> TaskState] /\ cpu_task' \in [CPU -> Task \cup {Null}]
    BY <1>0, <1>2, <1>4, Zenon DEF TypeOK, TaskState, t
  <2> QED
    BY ONLY <1>0, <1>1, <1>6, <2>1 DEF TypeOK
<1>11. OneList'
  <2>1. ASSUME NEW u \in Task, NEW r \in Priority
        PROVE  In(u, sched_queue'[r]) <=> state'[u] = "READY" /\ priority'[u] = r
    <3>1. In(u, sched_queue[r]) <=> state[u] = "READY" /\ priority[u] = r
      BY <1>0 DEF OneList
    <3>2. In(u, sched_queue'[r]) <=> In(u, sched_queue[r]) /\ u # t
      <4>1. CASE r = p
        BY <4>1, <1>4, <1>6
      <4>2. CASE r # p
        BY <4>2, <3>1, <1>5, <1>6
      <4> QED
        BY <4>1, <4>2
    <3> QED
      BY <3>1, <3>2, <1>1, <1>6
  <2>2. \A r \in Priority : NoRepeat(sched_queue'[r])
    BY <1>3, <1>4, <1>6, Zenon
  <2>3. OneList!3' /\ OneList!4'
    BY <1>0, <1>1, <1>7, SMTT(20) DEF OneList, SleepsOn
  <2>4. OneList!5'
    <3> SUFFICES ASSUME NEW d \in CPU, cpu_task'[d] # Null
                 PROVE  state'[cpu_task'[d]] = "RUNNING"
      OBVIOUS
    <3>1. CASE d = c
      BY <3>1, <1>6
    <3>2. CASE d # c
      <4>1. cpu_task[d] \in Task /\ state[cpu_task[d]] = "RUNNING"
        BY <3>2, <1>0, <1>6, Running
      <4> QED
        BY <3>2, <4>1, <1>5, <1>6
    <3> QED
      BY <3>1, <3>2
  <2>5. ASSUME NEW u \in Task, state'[u] = "RUNNING"
        PROVE  \E d \in CPU : cpu_task'[d] = u
    <3>1. CASE u = t
      BY <3>1, <1>6
    <3>2. CASE u # t
      <4>1. PICK d \in CPU : cpu_task[d] = u
        BY <3>2, <2>5, <1>0, <1>6 DEF OneList
      <4> QED
        BY <4>1, <1>1, <1>6
    <3> QED
      BY <3>1, <3>2
  <2>6. ASSUME NEW d \in CPU, NEW e \in CPU, cpu_task'[d] = cpu_task'[e],
               cpu_task'[d] # Null
        PROVE  d = e
    <3>1. \A f \in CPU : cpu_task[f] # t
      BY <1>0, <1>5 DEF OneList
    <3>2. \A f, g \in CPU : cpu_task[f] = cpu_task[g] /\ cpu_task[f] # Null => f = g
      BY <1>0 DEF OneList
    <3> QED
      BY <2>6, <3>1, <3>2, <1>6, SMTT(20)
  <2> QED
    BY <2>1, <2>2, <2>3, <2>4, <2>5, <2>6 DEF OneList
<1>12. KontOK'
  <2>1. ASSUME NEW u \in Task
        PROVE  KontOK!1!(u)'
    BY <1>0, <1>1, <1>7, <1>8 DEF KontOK
  <2>2. KontOK!2'
    BY <1>0, <1>1, <1>6, SMTT(20) DEF KontOK
  <2> QED
    BY <2>1, <2>2, Zenon DEF KontOK
<1>13. LoopOK' /\ MutexQueueOrdered'
  BY <1>0, <1>1, <1>9 DEF LoopOK, NoLoop, MutexQueueOrdered
<1>14. MutexCovers'
  BY <1>0, <1>1 DEF MutexCovers
<1>15. BoostIsExact'
  BY <1>0, <1>1 DEF BoostIsExact
<1>16. FinalisedOK' /\ NoStaleTimer' /\ RelockOK'
  BY <1>0, <1>1, <1>7, SMTT(20) DEF FinalisedOK, NoStaleTimer, RelockOK
<1>17. NoStrandedWaiter'
  BY <1>0, <1>1, <1>7 DEF NoStrandedWaiter
<1> QED
  BY <1>10, <1>11, <1>12, <1>13, <1>14, <1>15, <1>16, <1>17 DEF IInv

\* A task is made ready, and the task of a CPU may give it up.
LEMMA YieldStep ==
  ASSUME IInv, NEW c \in CPU, sched_lock = Null, panic = "none",
         state' \in [Task -> TaskState],
         sched_queue' \in [Priority -> Seq(Task)],
         \A p \in Priority : NoRepeat(sched_queue'[p]),
         \A u \in Task, p \in Priority :
           In(u, sched_queue'[p]) <=> state'[u] = "READY" /\ priority[u] = p,
         \A u \in Task : Sleeping(u)' <=> Sleeping(u),
         \/ /\ cpu_task[c] # Null /\ state'[cpu_task[c]] # "RUNNING"
            /\ k_sched_yield_locked(c)
            /\ \A u \in Task : u # cpu_task[c] =>
                 (state'[u] = "RUNNING" <=> state[u] = "RUNNING")
         \/ /\ UNCHANGED <<sched_lock, cpu_task>>
            /\ \A u \in Task : state'[u] = "RUNNING" <=> state[u] = "RUNNING",
         UNCHANGED <<priority, queue, timeouts, sleep_result, kont, loop, panic,
                     mutexVars>>
  PROVE  IInv'
<1> USE SchedAssumption, MutexAssumption, CondAssumption
<1>0. /\ TypeOK /\ OneList /\ KontOK /\ LoopOK /\ MutexQueueOrdered
      /\ MutexCovers /\ BoostIsExact /\ FinalisedOK /\ NoStaleTimer /\ RelockOK
      /\ NoStrandedWaiter
  BY DEF IInv
<1>1. /\ UNCHANGED <<owner, mutex_priority, sleep_on_mutex, finalised>>
      /\ loop = NoLoop
      /\ \A u \in Task : kont[u].at \notin {"lock.block", "wait.block"}
      /\ \A d \in CPU : cpu_task[d] # Null => kont[cpu_task[d]] = Returning
  <2>1. loop = NoLoop
    BY <1>0 DEF LoopOK
  <2>2. /\ \A u \in Task : kont[u].at \notin {"lock.block", "wait.block"}
        /\ \A d \in CPU : cpu_task[d] # Null => kont[cpu_task[d]] = Returning
    BY <1>0, SMTT(20) DEF KontOK
  <2> QED
    BY <2>1, <2>2 DEF mutexVars
<1>2. /\ sched_lock' \in {Null, c}
      /\ cpu_task' \in [CPU -> Task \cup {Null}]
      /\ \A d \in CPU : cpu_task'[d] # Null => /\ cpu_task'[d] = cpu_task[d]
                                              /\ state'[cpu_task[d]] = "RUNNING"
      /\ \A u \in Task : state'[u] = "RUNNING" => \E d \in CPU : cpu_task'[d] = u
  <2>1. /\ cpu_task \in [CPU -> Task \cup {Null}]
        /\ \A d \in CPU : cpu_task[d] # Null =>
             cpu_task[d] \in Task /\ state[cpu_task[d]] = "RUNNING"
    <3>1. cpu_task \in [CPU -> Task \cup {Null}]
      BY ONLY <1>0, Zenon DEF TypeOK
    <3> QED
      BY <3>1, <1>0, Running
  <2>2. /\ \A u \in Task : state[u] = "RUNNING" => \E d \in CPU : cpu_task[d] = u
        /\ \A d, e \in CPU : cpu_task[d] = cpu_task[e] /\ cpu_task[d] # Null => d = e
    BY ONLY <1>0 DEF OneList
  <2>3. CASE UNCHANGED <<sched_lock, cpu_task>> /\
             \A u \in Task : state'[u] = "RUNNING" <=> state[u] = "RUNNING"
    BY <2>1, <2>2, <2>3
  <2>4. CASE /\ cpu_task[c] # Null /\ state'[cpu_task[c]] # "RUNNING"
             /\ k_sched_yield_locked(c)
             /\ \A u \in Task : u # cpu_task[c] =>
                  (state'[u] = "RUNNING" <=> state[u] = "RUNNING")
    <3>1. /\ sched_lock' = c
          /\ cpu_task' = [cpu_task EXCEPT ![c] = Null]
          /\ cpu_task'[c] = Null
          /\ \A d \in CPU : d # c => cpu_task'[d] = cpu_task[d]
      BY <2>1, <2>4, SMTT(20) DEF k_sched_yield_locked
    <3>2. ASSUME NEW d \in CPU, cpu_task'[d] # Null
          PROVE  cpu_task'[d] = cpu_task[d] /\ state'[cpu_task[d]] = "RUNNING"
      BY <2>1, <2>2, <2>4, <3>1, <3>2, SMTT(20)
    <3>3. ASSUME NEW u \in Task, state'[u] = "RUNNING"
          PROVE  \E d \in CPU : cpu_task'[d] = u
      <4>1. u # cpu_task[c] /\ state[u] = "RUNNING"
        BY <2>4, <3>3
      <4>2. PICK d \in CPU : cpu_task[d] = u
        BY <4>1, <2>2
      <4> QED
        BY <4>1, <4>2, <3>1
    <3> QED
      BY <2>1, <3>1, <3>2, <3>3
  <2> QED
    BY <2>3, <2>4
<1>3. TypeOK'
  BY <1>0, <1>1, <1>2, SMTT(20) DEF TypeOK
<1>4. OneList'
  <2>1. OneList!3' /\ OneList!4'
    BY <1>0, SMTT(20) DEF OneList, SleepsOn
  <2>2. OneList!5' /\ OneList!6'
    BY ONLY <1>2
  <2>3. OneList!7'
    BY <1>0, <1>2, SMTT(20) DEF OneList
  <2> QED
    BY <2>1, <2>2, <2>3 DEF OneList
<1>5. KontOK'
  <2>1. ASSUME NEW u \in Task
        PROVE  KontOK!1!(u)'
    BY <1>0, <1>1 DEF KontOK
  <2>2. KontOK!2'
    BY <1>1, <1>2
  <2> QED
    BY ONLY <2>1, <2>2, Zenon DEF KontOK
<1>6. LoopOK' /\ MutexQueueOrdered'
  BY <1>0, <1>1 DEF LoopOK, NoLoop, MutexQueueOrdered
<1>7. MutexCovers'
  BY <1>0, <1>1 DEF MutexCovers
<1>8. BoostIsExact'
  BY <1>0, <1>1, SMTT(20) DEF BoostIsExact
<1>9. FinalisedOK' /\ NoStaleTimer' /\ RelockOK'
  BY <1>0, <1>1, SMTT(20) DEF FinalisedOK, NoStaleTimer, RelockOK
<1>10. NoStrandedWaiter'
  BY <1>0, <1>1, SMTT(20) DEF NoStrandedWaiter
<1> QED
  BY ONLY <1>3, <1>4, <1>5, <1>6, <1>7, <1>8, <1>9, <1>10 DEF IInv

\* A running task yields, or is preempted at the end of an interrupt.
LEMMA YieldCall ==
  ASSUME IInv, NEW c \in CPU, NEW t \in Task,
         k_task_yield(c, t) \/ k_irq_handler_end(c, t), UNCHANGED mutexVars
  PROVE  IInv'
<1>1. /\ MayEnter(c, t) /\ k_sched_enqueue(t) /\ k_sched_yield_locked(c)
      /\ UNCHANGED <<priority, queue, timeouts, sleep_result, kont, loop, panic>>
  BY DEF k_task_yield, k_irq_handler_end
<1>2. TypeOK /\ OneList /\ state[t] = "RUNNING"
  BY <1>1, Entering DEF IInv
<1>3. /\ state' = [state EXCEPT ![t] = "READY"]
      /\ sched_queue' \in [Priority -> Seq(Task)]
      /\ \A p \in Priority : NoRepeat(sched_queue'[p])
      /\ \A u \in Task, p \in Priority : In(u, sched_queue'[p]) <=>
           In(u, sched_queue[p]) \/ (u = t /\ p = priority[t])
  BY <1>1, <1>2, Enqueue
<1>4. /\ state' \in [Task -> TaskState] /\ state'[t] = "READY"
      /\ \A u \in Task : u # t => state'[u] = state[u]
  BY <1>2, <1>3, Zenon DEF TypeOK, TaskState
<1>5. \A u \in Task : Sleeping(u)' <=> Sleeping(u)
  BY <1>2, <1>4 DEF Sleeping
<1>6. \A u \in Task, p \in Priority :
        In(u, sched_queue'[p]) <=> state'[u] = "READY" /\ priority[u] = p
  BY <1>2, <1>3, <1>4, SMTT(20) DEF OneList
<1>7. cpu_task[c] = t /\ sched_lock = Null /\ panic = "none" /\ t # Null
  BY ONLY <1>1 DEF MayEnter
<1> QED
  BY <1>1, <1>3, <1>4, <1>5, <1>6, <1>7, YieldStep

\* A task that owns no mutex exits or suspends itself.
LEMMA LeavesCall ==
  ASSUME IInv, NEW c \in CPU, NEW t \in Task, Leaves(c, t)
  PROVE  IInv'
<1>1. MayEnter(c, t)
  BY DEF Leaves, k_task_exit, k_task_suspend
<1>2. TypeOK /\ OneList /\ state[t] = "RUNNING" /\ timeouts = timeouts \ {t}
  BY <1>1, Entering DEF IInv
<1>3. PICK how \in {"SUSPENDED", "DESTROYED"} :
        /\ state' = [state EXCEPT ![t] = how]
        /\ k_sched_yield_locked(c)
        /\ UNCHANGED <<priority, sched_queue, queue, timeouts, sleep_result,
                       kont, loop, panic, mutexVars>>
  BY <1>2 DEF Leaves, k_task_exit, k_task_suspend
<1>4. /\ state' \in [Task -> TaskState] /\ state'[t] = how
      /\ \A u \in Task : u # t => state'[u] = state[u]
  BY <1>2, <1>3, Zenon DEF TypeOK, TaskState
<1>5. \A u \in Task : Sleeping(u)' <=> Sleeping(u)
  BY <1>2, <1>4 DEF Sleeping
<1>6. /\ \A u \in Task, p \in Priority :
           In(u, sched_queue'[p]) <=> state'[u] = "READY" /\ priority[u] = p
      /\ \A p \in Priority : NoRepeat(sched_queue'[p])
  BY <1>2, <1>3, <1>4, SMTT(20) DEF OneList
<1>7. sched_queue' \in [Priority -> Seq(Task)]
  BY <1>2, <1>3, Zenon DEF TypeOK
<1>8. cpu_task[c] = t /\ sched_lock = Null /\ panic = "none" /\ t # Null
  BY <1>1 DEF MayEnter
<1> QED
  BY <1>3, <1>4, <1>5, <1>6, <1>7, <1>8, YieldStep

\* A suspended task is resumed, and may preempt the task that resumes it.
LEMMA TaskResume ==
  ASSUME IInv, NEW c \in CPU, NEW t \in Task, k_task_resume(c, t),
         UNCHANGED mutexVars
  PROVE  IInv'
<1> USE SchedAssumption
<1>1. /\ sched_lock = Null /\ panic = "none" /\ state[t] = "SUSPENDED"
      /\ UNCHANGED <<priority, queue, timeouts, sleep_result, kont, loop, panic>>
  BY DEF k_task_resume
<1>2. TypeOK /\ OneList
  BY DEF IInv
<1>3. CASE cpu_task[c] # Null /\ priority[t] < priority[cpu_task[c]]
  <2> DEFINE me == cpu_task[c]
             a == Append(sched_queue[priority[t]], t)
             b == Append(sched_queue[priority[me]], me)
  <2>1. me \in Task /\ state[me] = "RUNNING" /\ me # t
    BY ONLY <1>1, <1>2, <1>3, Running
  <2>2. /\ state' = [state EXCEPT ![t] = "READY", ![me] = "READY"]
        /\ sched_queue' = [sched_queue EXCEPT ![priority[t]] = Append(@, t),
                                              ![priority[me]] = Append(@, me)]
        /\ k_sched_yield_locked(c)
    BY <1>3 DEF k_task_resume
  <2>3. /\ priority[t] \in Priority /\ priority[me] \in Priority
        /\ sched_queue \in [Priority -> Seq(Task)]
        /\ state \in [Task -> TaskState]
    BY <1>2, <2>1, Zenon DEF TypeOK
  <2>4. priority[t] # priority[me]
    BY ONLY <1>3, <2>3 DEF Priority
  <2>5. /\ \A p \in Priority : NoRepeat(sched_queue[p])
        /\ \A u \in Task, p \in Priority :
             In(u, sched_queue[p]) <=> state[u] = "READY" /\ priority[u] = p
    BY <1>2 DEF OneList
  <2>6. /\ a \in Seq(Task) /\ NoRepeat(a)
        /\ \A u : In(u, a) <=> In(u, sched_queue[priority[t]]) \/ u = t
    BY ONLY <1>1, <2>3, <2>5, ListAddBack
  <2>7. /\ b \in Seq(Task) /\ NoRepeat(b)
        /\ \A u : In(u, b) <=> In(u, sched_queue[priority[me]]) \/ u = me
    <3>1. /\ sched_queue[priority[me]] \in Seq(Task)
          /\ NoRepeat(sched_queue[priority[me]])
          /\ ~ In(me, sched_queue[priority[me]])
      BY <2>1, <2>3, <2>5, SMTT(20)
    <3> HIDE DEF me
    <3> QED
      BY <2>1, <3>1, ListAddBack
  <2>8. /\ sched_queue'[priority[t]] = a /\ sched_queue'[priority[me]] = b
        /\ \A p \in Priority : p # priority[t] /\ p # priority[me]
                                 => sched_queue'[p] = sched_queue[p]
    BY <2>2, <2>3, <2>4, Zenon
  <2>9. sched_queue' \in [Priority -> Seq(Task)]
    <3>1. DOMAIN sched_queue' = Priority /\ sched_queue' = [p \in Priority |-> sched_queue'[p]]
      BY <2>2, <2>3, Zenon
    <3> HIDE DEF a, b
    <3>2. \A p \in Priority : sched_queue'[p] \in Seq(Task)
      BY <2>3, <2>6, <2>7, <2>8, Zenon
    <3> QED
      BY <3>1, <3>2
  <2>10. /\ state' \in [Task -> TaskState]
         /\ state'[t] = "READY" /\ state'[me] = "READY"
         /\ \A u \in Task : u # t /\ u # me => state'[u] = state[u]
    BY <2>1, <2>2, <2>3, Zenon DEF TaskState
  <2> HIDE DEF a, b, me
  <2>11. \A u \in Task : Sleeping(u)' <=> Sleeping(u)
    BY <1>1, <2>1, <2>10 DEF Sleeping
  <2>12. \A p \in Priority : NoRepeat(sched_queue'[p])
    BY <2>5, <2>6, <2>7, <2>8
  <2>13. ASSUME NEW u \in Task, NEW p \in Priority
         PROVE  In(u, sched_queue'[p]) <=> state'[u] = "READY" /\ priority[u] = p
    <3>1. CASE p = priority[t]
      BY <3>1, <1>1, <2>1, <2>4, <2>5, <2>6, <2>8, <2>10, SMTT(20)
    <3>2. CASE p = priority[me]
      <4>1. In(u, sched_queue'[p]) <=> In(u, sched_queue[p]) \/ u = me
        BY <3>2, <2>7, <2>8
      <4>2. In(u, sched_queue[p]) <=> state[u] = "READY" /\ priority[u] = p
        BY <2>5
      <4>3. u = t => priority[u] # p
        BY <3>2, <2>4
      <4> QED
        BY <3>2, <4>1, <4>2, <4>3, <2>1, <2>10
    <3>3. CASE p # priority[t] /\ p # priority[me]
      BY <3>3, <2>5, <2>8, <2>10
    <3> QED
      BY <3>1, <3>2, <3>3
  <2>14. /\ cpu_task[c] # Null /\ state'[cpu_task[c]] # "RUNNING"
         /\ \A u \in Task : u # cpu_task[c] =>
              (state'[u] = "RUNNING" <=> state[u] = "RUNNING")
    BY ONLY <1>1, <1>3, <2>10 DEF me
  <2> QED
    BY <1>1, <2>2, <2>9, <2>10, <2>11, <2>12, <2>13, <2>14, YieldStep, ZenonT(60)
<1>4. CASE ~ (cpu_task[c] # Null /\ priority[t] < priority[cpu_task[c]])
  <2>1. k_sched_enqueue(t) /\ UNCHANGED <<sched_lock, cpu_task>>
    BY <1>4 DEF k_task_resume
  <2>2. /\ state' = [state EXCEPT ![t] = "READY"]
        /\ sched_queue' \in [Priority -> Seq(Task)]
        /\ \A p \in Priority : NoRepeat(sched_queue'[p])
        /\ \A u \in Task, p \in Priority : In(u, sched_queue'[p]) <=>
             In(u, sched_queue[p]) \/ (u = t /\ p = priority[t])
    BY <1>1, <1>2, <2>1, Enqueue
  <2>3. /\ state' \in [Task -> TaskState] /\ state'[t] = "READY"
        /\ \A u \in Task : u # t => state'[u] = state[u]
    BY <1>2, <2>2, Zenon DEF TypeOK, TaskState
  <2>4. \A u \in Task : Sleeping(u)' <=> Sleeping(u)
    BY <1>1, <2>3 DEF Sleeping
  <2>5. \A u \in Task, p \in Priority :
          In(u, sched_queue'[p]) <=> state'[u] = "READY" /\ priority[u] = p
    BY <1>1, <1>2, <2>2, <2>3, SMTT(20) DEF OneList
  <2>6. \A u \in Task : state'[u] = "RUNNING" <=> state[u] = "RUNNING"
    BY <1>1, <2>3
  <2> QED
    BY <1>1, <2>1, <2>2, <2>3, <2>4, <2>5, <2>6, YieldStep
<1> QED
  BY ONLY SchedAssumption, MutexAssumption, CondAssumption, <1>3, <1>4

\* The loop of a CPU and a task that returns only take or release the lock.
LEMMA LockCalls ==
  ASSUME IInv, NEW c \in CPU, UNCHANGED mutexVars,
         \/ k_sched_idle(c)
         \/ k_sched_start(c)
         \/ \E t \in Task : k_task_run(c, t)
  PROVE  IInv'
<1> USE SchedAssumption
<1>1. CASE k_sched_idle(c)
  <2>1. /\ sched_lock = c /\ cpu_task[c] = Null /\ sched_lock' = Null
        /\ UNCHANGED <<cpu_task, state, priority, sched_queue, queue, timeouts,
                       sleep_result, kont, loop, panic>>
    BY <1>1 DEF k_sched_idle
  <2>2. loop.op = "none"
    BY <2>1 DEF IInv, LoopOK
  <2> QED
    BY <2>1, <2>2, LockStep
<1>2. CASE k_sched_start(c)
  <2>1. /\ sched_lock = Null /\ sched_lock' = c
        /\ UNCHANGED <<cpu_task, state, priority, sched_queue, queue, timeouts,
                       sleep_result, kont, loop, panic>>
    BY <1>2 DEF k_sched_start
  <2>2. loop.op = "none"
    BY <2>1 DEF IInv, LoopOK
  <2> QED
    BY <2>1, <2>2, LockStep
<1>3. CASE \E t \in Task : k_task_run(c, t)
  <2>1. /\ sched_lock = c /\ kont[cpu_task[c]] = Returning /\ sched_lock' = Null
        /\ loop = NoLoop
        /\ UNCHANGED <<cpu_task, state, priority, sched_queue, queue, timeouts,
                       sleep_result, kont, loop, panic>>
    BY <1>3 DEF k_task_run, Inside
  <2>2. loop.op = "none"
    BY <2>1 DEF NoLoop
  <2> QED
    BY <2>1, <2>2, LockStep
<1> QED
  BY <1>1, <1>2, <1>3

----------------------------------------------------------------------------
(* Waking tasks, and the life cycles of mutexes and condition variables. *)

\* A wake-up, an interrupt or a timeout ends the sleep of a task.
LEMMA ResumeStep ==
  ASSUME IInv, NEW t \in Task, NEW result \in Result, Sleeping(t),
         k_sched_resume(t, result),
         timeouts' \in SUBSET timeouts,
         kont[t].at = "lock.sleep" /\ kont[t].cond # Null => result = 0,
         kont[t].mutex \in finalised => result < 0,
         UNCHANGED <<sched_lock, cpu_task, priority, kont, loop, panic, mutexVars>>
  PROVE  IInv'
<1> USE SchedAssumption, MutexAssumption, CondAssumption
<1>0. /\ TypeOK /\ OneList /\ KontOK /\ LoopOK /\ MutexQueueOrdered
      /\ MutexCovers /\ BoostIsExact /\ FinalisedOK /\ NoStaleTimer /\ RelockOK
      /\ NoStrandedWaiter
      /\ UNCHANGED <<owner, mutex_priority, sleep_on_mutex, finalised>>
  BY DEF IInv, mutexVars
<1>1. /\ state' = [state EXCEPT ![t] = "READY"]
      /\ sleep_result' = [sleep_result EXCEPT ![t] = result]
      /\ sched_queue' \in [Priority -> Seq(Task)]
      /\ \A p \in Priority : NoRepeat(sched_queue'[p])
      /\ \A u \in Task, p \in Priority : In(u, sched_queue'[p]) <=>
           In(u, sched_queue[p]) \/ (u = t /\ p = priority[t])
      /\ queue' \in [WaitQueue -> Seq(Task)]
      /\ \A q \in WaitQueue : NoRepeat(queue'[q])
      /\ \A u \in Task, q \in WaitQueue :
           In(u, queue'[q]) <=> In(u, queue[q]) /\ u # t
      /\ \A q \in WaitQueue : \A prio :
           Ordered(queue[q], prio) => Ordered(queue'[q], prio)
  BY <1>0, Resume, Zenon
<1>2. /\ state'[t] = "READY" /\ ~ Sleeping(t)' /\ sleep_result'[t] = result
      /\ \A u \in Task : u # t => /\ state'[u] = state[u]
                                  /\ Sleeping(u)' <=> Sleeping(u)
                                  /\ sleep_result'[u] = sleep_result[u]
      /\ \A u \in Task : Sleeping(u)' => Sleeping(u)
  BY ONLY <1>0, <1>1, Zenon DEF TypeOK, Sleeping
<1>3. TypeOK'
  BY <1>0, <1>1, ZenonT(60) DEF TypeOK, TaskState
<1>4. OneList'
  <2>1. state[t] # "RUNNING" /\ state[t] # "READY"
    BY DEF Sleeping
  <2>2. \A u \in Task, p \in Priority :
          In(u, sched_queue'[p]) <=> state'[u] = "READY" /\ priority'[u] = p
    BY <1>0, <1>1, <1>2, <2>1, SMTT(20) DEF OneList
  <2>3. \A u \in Task, q \in WaitQueue :
          In(u, queue'[q]) <=> Sleeping(u)' /\ SleepsOn(u)' = q
    BY <1>0, <1>1, <1>2, SMTT(20) DEF OneList, SleepsOn
  <2>4. OneList!5'
    <3> SUFFICES ASSUME NEW d \in CPU, cpu_task[d] # Null
                 PROVE  state'[cpu_task[d]] = "RUNNING"
      OBVIOUS
    <3>1. cpu_task[d] \in Task /\ state[cpu_task[d]] = "RUNNING"
      BY <1>0, Running
    <3> QED
      BY <3>1, <1>2, <2>1
  <2>5. OneList!6' /\ OneList!7'
    BY <1>0, <1>2, <2>1 DEF OneList
  <2> QED
    BY <1>1, <2>2, <2>3, <2>4, <2>5 DEF OneList
<1>5. KontOK'
  BY <1>0, <1>2, Zenon DEF KontOK
<1>6. LoopOK'
  BY <1>0 DEF LoopOK
<1>7. MutexQueueOrdered'
  BY <1>0, <1>1, ZenonT(60) DEF MutexQueueOrdered
<1>8. MutexCovers'
  BY <1>0, <1>1 DEF MutexCovers
<1>9. BoostIsExact'
  BY <1>0 DEF BoostIsExact
<1>10. FinalisedOK'
  BY <1>0, <1>2, SMTT(20) DEF FinalisedOK
<1>11. NoStaleTimer'
  BY <1>0 DEF NoStaleTimer
<1>12. RelockOK'
  BY <1>0, <1>2, Zenon DEF RelockOK, KontOK
<1>13. NoStrandedWaiter'
  <2> SUFFICES ASSUME NEW m \in Mutex, NEW u \in Task,
                      owner'[m] = Null, In(u, queue'[m]), m \notin finalised'
               PROVE  NoStrandedWaiter!(m, u)!2'
    BY DEF NoStrandedWaiter
  <2>1. PICK w \in Task : /\ kont[w].at = "lock.sleep" /\ kont[w].mutex = m
                          /\ ~ Sleeping(w) /\ sleep_result[w] = 0
    BY <1>0, <1>1 DEF NoStrandedWaiter
  <2> QED
    BY <2>1, <1>2, UNCHANGED kont
<1> QED
  BY <1>3, <1>4, <1>5, <1>6, <1>7, <1>8, <1>9, <1>10, <1>11, <1>12, <1>13
     DEF IInv

\* A timeout, k_task_wake and k_condvar_notify_one wake one task.
LEMMA WakeupOneCalls ==
  ASSUME IInv,
         \/ \E t \in Task : k_task_timeout_callback(t) /\ UNCHANGED mutexVars
         \/ \E t \in Task : k_task_wake(t)
         \/ \E c \in CPU, t \in Task, cond \in Cond : k_condvar_notify_one(c, t, cond)
  PROVE  IInv'
<1> USE SchedAssumption, MutexAssumption, CondAssumption
<1>1. -EINTR \in Result /\ 0 \in Result /\ -ETIMEDOUT \in Result
      /\ -EINTR < 0 /\ -ETIMEDOUT < 0
  BY SMTT(20) DEF Result, EINTR, ETIMEDOUT
<1>2. ASSUME NEW t \in Task, k_task_timeout_callback(t), UNCHANGED mutexVars
      PROVE  IInv'
  <2>1. /\ t \in timeouts /\ timeouts' = timeouts \ {t}
        /\ UNCHANGED <<sched_lock, cpu_task, priority, kont, loop, panic>>
    BY <1>2 DEF k_task_timeout_callback
  <2>2. kont[t].timed = TRUE
    BY <2>1, ZenonT(60) DEF IInv, NoStaleTimer, TypeOK, Kont
  <2>3. CASE state[t] = "SLEEP"
    <3>1. k_sched_resume(t, -ETIMEDOUT) /\ Sleeping(t)
      BY <1>2, <2>3 DEF k_task_timeout_callback, Sleeping
    <3>2. ~ (kont[t].at = "lock.sleep" /\ kont[t].cond # Null)
      BY <2>2 DEF IInv, RelockOK
    <3> QED
      BY <1>1, <1>2, <2>1, <3>1, <3>2, ResumeStep
  <2>4. CASE state[t] # "SLEEP"
    <3>1. UNCHANGED <<queue, sleep_result, state, sched_queue>>
      BY <1>2, <2>4 DEF k_task_timeout_callback
    <3>2. \A u \in Task : Sleeping(u)' <=> Sleeping(u)
      BY <3>1 DEF Sleeping
    <3>3. TypeOK'
      BY <1>2, <2>1, <3>1, ZenonT(60) DEF IInv, TypeOK, mutexVars
    <3>4. OneList'
      BY <2>1, <3>1, SameLists DEF IInv
    <3>5. KontOK'
      BY <1>2, <2>1, <3>2, ZenonT(60) DEF IInv, KontOK, mutexVars
    <3>6. LoopOK' /\ MutexQueueOrdered'
      BY <1>2, <2>1, <3>1 DEF IInv, LoopOK, MutexQueueOrdered, mutexVars
    <3>7. MutexCovers'
      BY <1>2, <2>1, <3>1 DEF IInv, MutexCovers, mutexVars
    <3>8. BoostIsExact'
      BY <1>2, <2>1 DEF IInv, BoostIsExact, mutexVars
    <3>9. FinalisedOK' /\ NoStaleTimer' /\ RelockOK'
      BY <1>2, <2>1, <3>1, <3>2, SMTT(20)
         DEF IInv, FinalisedOK, NoStaleTimer, RelockOK, mutexVars
    <3>10. NoStrandedWaiter'
      BY <1>2, <2>1, <3>1, <3>2 DEF IInv, NoStrandedWaiter, mutexVars
    <3> QED
      BY <3>3, <3>4, <3>5, <3>6, <3>7, <3>8, <3>9, <3>10 DEF IInv
  <2> QED
    BY <2>3, <2>4
<1>3. ASSUME NEW t \in Task, k_task_wake(t)
      PROVE  IInv'
  <2>1. /\ panic = "none" /\ sleep_on_mutex[t] = Null /\ Sleeping(t)
        /\ k_sched_resume(t, -EINTR)
        /\ UNCHANGED <<sched_lock, cpu_task, priority, timeouts, kont, loop,
                       panic, mutexVars>>
    BY ONLY <1>3 DEF k_task_wake, Sleeping
  <2>2. kont[t].at # "lock.sleep"
    BY <2>1 DEF IInv, KontOK
  <2> QED
    BY <1>1, <2>1, <2>2, ResumeStep
<1>4. ASSUME NEW c \in CPU, NEW t \in Task, NEW cond \in Cond,
             k_condvar_notify_one(c, t, cond)
      PROVE  IInv'
  <2>1. /\ queue[cond] # <<>>
        /\ k_sched_resume(Head(queue[cond]), 0)
        /\ UNCHANGED <<sched_lock, cpu_task, priority, timeouts, kont, loop,
                       panic, mutexVars>>
    BY <1>4 DEF k_condvar_notify_one, k_sched_wakeup_one_locked
  <2>2. PICK u \in Task : u = Head(queue[cond]) /\ Sleeping(u) /\ kont[u].at = "wait.sleep"
    BY <2>1, HeadSleeps
  <2>3. kont[u].mutex \in Mutex
    BY <2>2, ZenonT(60) DEF IInv, KontOK
  <2>4. kont[u].mutex \notin finalised
    BY <2>2, <2>3 DEF IInv, FinalisedOK
  <2> QED
    BY <1>1, <2>1, <2>2, <2>3, <2>4, ResumeStep
<1> QED
  BY <1>2, <1>3, <1>4

\* Calls that wake a whole queue enter its loop.
LEMMA WakeupAllCall ==
  ASSUME IInv, NEW c \in CPU, NEW t \in Task, NEW q \in WaitQueue,
         NEW result \in Result, MayEnter(c, t), StartWakeupAll(c, q, result),
         finalised' \in SUBSET WaitQueue,
         finalised \subseteq finalised',
         \A m \in Mutex : m \in finalised' /\ m \notin finalised =>
           /\ m = q
           /\ owner[m] = Null
           /\ \A u \in Task : kont[u].mutex = m => Sleeping(u) /\ kont[u].cond = Null,
         q \in Mutex => q \in finalised' /\ result = -EINVAL,
         UNCHANGED <<owner, mutex_priority, sleep_on_mutex>>
  PROVE  IInv'
<1> USE SchedAssumption, MutexAssumption, CondAssumption
<1>0. /\ TypeOK /\ OneList /\ KontOK /\ LoopOK /\ MutexQueueOrdered
      /\ MutexCovers /\ BoostIsExact /\ FinalisedOK /\ NoStaleTimer /\ RelockOK
      /\ NoStrandedWaiter
  BY DEF IInv
<1>1. /\ sched_lock' = c
      /\ loop' = [op |-> "wakeup_all", obj |-> q, arg |-> result]
      /\ loop'.op = "wakeup_all" /\ loop'.obj = q /\ loop'.arg = result
      /\ UNCHANGED <<cpu_task, state, priority, sched_queue, queue, timeouts,
                     sleep_result, kont, panic>>
  BY DEF StartWakeupAll
<1>2. /\ kont[t] = Returning /\ cpu_task[c] = t /\ loop = NoLoop
      /\ sched_lock = Null /\ panic = "none" /\ t # Null
      /\ \A u \in Task : kont[u].at \notin {"lock.block", "wait.block"}
  BY Entering DEF MayEnter
<1>3. \A u \in Task : Sleeping(u)' <=> Sleeping(u)
  BY <1>1 DEF Sleeping
<1>4. TypeOK'
  <2>1. loop' \in Loop
    BY <1>1, SMTT(20) DEF Loop, Result, EINTR, EINVAL, ETIMEDOUT
  <2> QED
    BY <1>0, <1>1, <2>1, ZenonT(60) DEF TypeOK
<1>5. OneList'
  BY <1>0, <1>1, SameLists
<1>6. KontOK'
  <2>1. ASSUME NEW u \in Task
        PROVE  KontOK!1!(u)'
    BY <1>0, <1>1, <1>2, <1>3 DEF KontOK
  <2>2. KontOK!2'
    BY <1>0, <1>1, <1>2 DEF KontOK
  <2> QED
    BY ONLY <2>1, <2>2, ZenonT(60) DEF KontOK
<1>7. LoopOK'
  BY <1>1, <1>2 DEF LoopOK
<1>8. MutexQueueOrdered'
  BY ONLY SchedAssumption, MutexAssumption, CondAssumption, <1>0, <1>1 DEF MutexQueueOrdered
<1>9. MutexCovers'
  BY <1>0, <1>1, <1>2 DEF MutexCovers, NoLoop
<1>10. BoostIsExact'
  BY <1>0, <1>1, SMTT(20) DEF BoostIsExact
<1>11. FinalisedOK'
  <2> SUFFICES ASSUME NEW m \in Mutex, m \in finalised'
               PROVE  FinalisedOK!(m)!2'
    BY DEF FinalisedOK
  <2>1. CASE m \in finalised
    BY <2>1, <1>0, <1>1, <1>2, <1>3 DEF FinalisedOK, NoLoop
  <2>2. CASE m \notin finalised
    <3>1. ASSUME NEW u \in Task, kont[u].mutex = m
          PROVE  kont[u].at = "lock.sleep"
      <4>1. Sleeping(u) /\ kont[u].cond = Null
        BY <2>2, <3>1
      <4>2. /\ Sleeping(u) => kont[u].at \in {"lock.sleep", "wait.sleep"}
            /\ kont[u].at = "wait.sleep" => kont[u].cond \in Cond
        BY <1>0, ZenonT(60) DEF KontOK
      <4> QED
        BY <4>1, <4>2
    <3> QED
      BY <2>2, <3>1, <1>1, <1>3
  <2> QED
    BY <2>1, <2>2
<1>12. NoStaleTimer' /\ RelockOK'
  BY <1>0, <1>1 DEF NoStaleTimer, RelockOK
<1>13. NoStrandedWaiter'
  BY <1>0, <1>1, <1>3, SMTT(20) DEF NoStrandedWaiter
<1> QED
  BY ONLY <1>4, <1>5, <1>6, <1>7, <1>8, <1>9, <1>10, <1>11, <1>12, <1>13 DEF IInv

\* The calls are k_mutex_fini, k_condvar_notify_all and k_condvar_destroy.
LEMMA WakeupAllCalls ==
  ASSUME IInv, NEW c \in CPU, NEW t \in Task,
         \/ \E m \in Mutex : k_mutex_fini(c, t, m)
         \/ \E cond \in Cond : k_condvar_notify_all(c, t, cond)
         \/ \E cond \in Cond : k_condvar_destroy(c, t, cond)
  PROVE  IInv'
<1> USE MutexAssumption, CondAssumption
<1>1. finalised \in SUBSET WaitQueue
  BY Zenon DEF IInv, TypeOK
<1>2. -EINVAL \in Result /\ 0 \in Result /\ EINVAL \in Result
  BY DEF Result
<1>3. ASSUME NEW m \in Mutex, k_mutex_fini(c, t, m)
      PROVE  IInv'
  BY <1>1, <1>2, <1>3, WakeupAllCall DEF k_mutex_fini
<1>4. ASSUME NEW cond \in Cond, k_condvar_notify_all(c, t, cond)
      PROVE  IInv'
  BY <1>1, <1>2, <1>4, WakeupAllCall DEF k_condvar_notify_all, mutexVars
<1>5. ASSUME NEW cond \in Cond, k_condvar_destroy(c, t, cond)
      PROVE  IInv'
  BY <1>1, <1>2, <1>5, WakeupAllCall DEF k_condvar_destroy
<1> QED
  BY <1>3, <1>4, <1>5

\* One iteration of _k_sched_wakeup_all_locked.
LEMMA WakeupAllLoop ==
  ASSUME IInv, NEW c \in CPU, k_sched_wakeup_all_locked(c), UNCHANGED mutexVars
  PROVE  IInv'
<1> USE SchedAssumption, MutexAssumption, CondAssumption
<1>1. /\ panic = "none" /\ sched_lock = c /\ loop.op = "wakeup_all"
      /\ UNCHANGED <<cpu_task, priority, timeouts, kont, panic>>
      /\ UNCHANGED <<owner, mutex_priority, sleep_on_mutex, finalised>>
  BY DEF k_sched_wakeup_all_locked, mutexVars
<1>2. /\ loop.obj \in WaitQueue /\ loop.arg \in Result
      /\ cpu_task[c] \in Task /\ kont[cpu_task[c]] = Returning
      /\ loop.obj \in Mutex => loop.obj \in finalised /\ loop.arg = -EINVAL
  BY <1>1 DEF IInv, LoopOK
<1>3. CASE queue[loop.obj] # <<>>
  <2>1. /\ k_sched_resume(Head(queue[loop.obj]), loop.arg)
        /\ UNCHANGED <<loop, sched_lock>>
    BY <1>3 DEF k_sched_wakeup_all_locked
  <2>2. PICK u \in Task :
          /\ u = Head(queue[loop.obj]) /\ Sleeping(u)
          /\ loop.obj \in Mutex => kont[u].at = "lock.sleep" /\ kont[u].mutex = loop.obj
          /\ loop.obj \in Cond => kont[u].at = "wait.sleep"
    BY <1>2, <1>3, HeadSleeps
  <2>3. CASE loop.obj \in Mutex
    <3>1. loop.arg = -EINVAL /\ -EINVAL < 0
      BY <1>2, <2>3, SMTT(20) DEF EINVAL
    <3>2. kont[u].cond = Null
      BY <1>2, <2>2, <2>3 DEF IInv, FinalisedOK
    <3> QED
      BY <1>1, <1>2, <2>1, <2>2, <3>1, <3>2, ResumeStep
  <2>4. CASE loop.obj \in Cond
    <3>1. kont[u].at = "wait.sleep"
      BY <2>2, <2>4
    <3>2. kont[u].mutex \in Mutex
      BY <3>1, ZenonT(60) DEF IInv, KontOK
    <3>3. kont[u].mutex \notin finalised
      BY <3>1, <3>2 DEF IInv, FinalisedOK
    <3> QED
      BY <1>1, <1>2, <2>1, <2>2, <3>1, <3>2, <3>3, ResumeStep
  <2> QED
    BY <1>2, <2>3, <2>4
<1>4. CASE queue[loop.obj] = <<>>
  <2>0. /\ TypeOK /\ OneList /\ KontOK /\ MutexQueueOrdered /\ MutexCovers
        /\ BoostIsExact /\ FinalisedOK /\ NoStaleTimer /\ RelockOK
        /\ NoStrandedWaiter
    BY DEF IInv
  <2>1. /\ loop' = NoLoop /\ sched_lock' = Null
        /\ UNCHANGED <<queue, sleep_result, state, sched_queue>>
    BY <1>4 DEF k_sched_wakeup_all_locked
  <2>2. \A u \in Task : Sleeping(u)' <=> Sleeping(u)
    BY <2>1 DEF Sleeping
  <2>3. \A u \in Task : ~ In(u, queue[loop.obj])
    BY <1>4, SMTT(20) DEF In
  <2>4. \A u \in Task : kont[u].at \notin {"lock.block", "wait.block"}
    <3>1. \A u \in Task : kont[u].at \in {"lock.block", "wait.block"} => u = cpu_task[c]
      BY <1>1, <2>0 DEF KontOK
    <3> QED
      BY <1>2, <3>1, SMTT(20) DEF Returning
  <2>5. TypeOK'
    BY <1>1, <2>0, <2>1, SMTT(20) DEF TypeOK, NoLoop, Loop
  <2>6. OneList'
    BY <1>1, <2>0, <2>1, SameLists
  <2>7. KontOK'
    <3>1. ASSUME NEW u \in Task
          PROVE  KontOK!1!(u)'
      BY <1>1, <2>0, <2>2, <2>4 DEF KontOK
    <3>2. KontOK!2'
      BY <1>1, <1>2, <2>0, <2>1 DEF KontOK
    <3> QED
      BY <3>1, <3>2, ZenonT(60) DEF KontOK
  <2>8. LoopOK' /\ MutexQueueOrdered'
    BY <1>1, <2>0, <2>1 DEF LoopOK, NoLoop, MutexQueueOrdered
  <2>9. MutexCovers'
    BY <1>1, <2>0, <2>1, <2>4 DEF MutexCovers
  <2>10. BoostIsExact'
    BY <1>1, <2>0 DEF BoostIsExact
  <2>11. FinalisedOK'
    <3> SUFFICES ASSUME NEW m \in Mutex, m \in finalised
                 PROVE  FinalisedOK!(m)!2'
      BY <1>1 DEF FinalisedOK
    <3>1. ASSUME NEW u \in Task, kont[u].mutex = m, Sleeping(u)
          PROVE  FALSE
      <4>1. kont[u].at = "lock.sleep" /\ loop.obj = m
        BY <3>1, <2>0 DEF FinalisedOK
      <4>2. In(u, queue[m])
        BY <3>1, <4>1, <2>0 DEF OneList, SleepsOn
      <4> QED
        BY <4>1, <4>2, <2>3
    <3> QED
      BY <3>1, <1>1, <2>0, <2>1, <2>2, SMTT(20) DEF FinalisedOK
  <2>12. NoStaleTimer' /\ RelockOK'
    BY ONLY SchedAssumption, MutexAssumption, CondAssumption, <1>4, <1>1, <2>0,
       <2>1 DEF NoStaleTimer, RelockOK
  <2>13. NoStrandedWaiter'
    BY <1>1, <2>0, <2>1, <2>2, SMTT(20) DEF NoStrandedWaiter
  <2> QED
    BY <2>5, <2>6, <2>7, <2>8, <2>9, <2>10, <2>11, <2>12, <2>13 DEF IInv
<1> QED
  BY <1>3, <1>4

----------------------------------------------------------------------------
(* Initialising an object again. *)

\* An object that no call in progress names is initialised again: nobody is in
\* its queue, and a mutex has no owner already.
LEMMA InitCalls ==
  ASSUME IInv,
         \/ \E m \in Mutex : k_mutex_init(m)
         \/ \E cond \in Cond : k_condvar_create(cond)
  PROVE  IInv'
<1> USE SchedAssumption, MutexAssumption, CondAssumption
<1>0. /\ TypeOK /\ OneList /\ KontOK /\ LoopOK /\ MutexQueueOrdered
      /\ MutexCovers /\ BoostIsExact /\ FinalisedOK /\ NoStaleTimer /\ RelockOK
      /\ NoStrandedWaiter
  BY DEF IInv
<1> DEFINE Reset(q) ==
        /\ q \in finalised /\ finalised' = finalised \ {q} /\ loop.obj # q
        /\ queue' = [queue EXCEPT ![q] = <<>>]
        /\ UNCHANGED <<sched_lock, cpu_task, state, priority, sched_queue,
                       timeouts, sleep_result, kont, loop, panic, sleep_on_mutex>>
        /\ \A u \in Task : kont[u].mutex # q /\ kont[u].cond # q
        /\ q \in Mutex => /\ owner' = [owner EXCEPT ![q] = Null]
                          /\ mutex_priority' = [mutex_priority EXCEPT ![q] = MaxPriorities]
        /\ q \notin Mutex => UNCHANGED <<owner, mutex_priority>>
<1>1. PICK q \in WaitQueue : Reset(q)
  <2>1. \A u \in Task : /\ kont[u].mutex \in Mutex \cup {Null}
                        /\ kont[u].cond \in Cond \cup {Null}
    BY <1>0, ZenonT(60) DEF TypeOK, Kont
  <2>2. ASSUME NEW m \in Mutex, k_mutex_init(m)
        PROVE  Reset(m)
    <3>1. \A u \in Task : kont[u].mutex # m /\ kont[u].cond # m
      BY <2>1, <2>2 DEF k_mutex_init
    <3> QED
      BY <2>2, <3>1 DEF k_mutex_init
  <2>3. ASSUME NEW cond \in Cond, k_condvar_create(cond)
        PROVE  Reset(cond)
    <3>1. cond \notin Mutex /\ \A u \in Task : kont[u].mutex # cond /\ kont[u].cond # cond
      BY <2>1, <2>3, SMTT(20) DEF k_condvar_create
    <3> QED
      BY <2>3, <3>1 DEF k_condvar_create
  <2> HIDE DEF Reset
  <2> QED
    BY <2>2, <2>3
<1>2. queue[q] \in Seq(Task) /\ queue \in [WaitQueue -> Seq(Task)]
  BY ONLY <1>0, ZenonT(60) DEF TypeOK
<1>3. \A u \in Task : ~ In(u, queue[q])
  BY <1>0, <1>1, SMTT(20) DEF OneList, SleepsOn
<1>4. queue' = queue
  <2>1. NoRepeat(queue[q])
    BY <1>0 DEF OneList
  <2>2. queue[q] = <<>>
    BY <1>2, <1>3, <2>1, ListTail
  <2> QED
    BY <1>1, <1>2, <2>2
<1>5. /\ owner' = owner
      /\ mutex_priority' \in [Mutex -> 0 .. MaxPriorities]
      /\ \A k \in Mutex : k # q => mutex_priority'[k] = mutex_priority[k]
  <2>1. owner \in [Mutex -> Task \cup {Null}] /\ mutex_priority \in [Mutex -> 0 .. MaxPriorities]
    BY <1>0, ZenonT(60) DEF TypeOK
  <2>2. q \in Mutex => owner[q] = Null
    BY <1>0, <1>1 DEF FinalisedOK
  <2> QED
    BY ONLY SchedAssumption, MutexAssumption, CondAssumption, <1>1, <2>1, <2>2
<1>6. \A u \in Task : Sleeping(u)' <=> Sleeping(u)
  BY <1>1 DEF Sleeping
<1>7. TypeOK'
  BY <1>0, <1>1, <1>4, <1>5, ZenonT(60) DEF TypeOK
<1>8. OneList'
  BY <1>0, <1>1, <1>4, SameLists
<1>9. KontOK'
  BY ONLY <1>0, <1>1, <1>6, ZenonT(60) DEF KontOK
<1>10. LoopOK' /\ MutexQueueOrdered'
  BY <1>0, <1>1, <1>4 DEF LoopOK, MutexQueueOrdered
<1>11. MutexCovers'
  <2>1. MutexCovers!1'
    BY ONLY <1>0, <1>1, <1>3, <1>4, <1>5 DEF MutexCovers
  <2>2. ASSUME NEW u \in Task, kont[u].at = "lock.block"
        PROVE  MutexCovers!2!(u)!2'
    <3>1. kont[u].mutex \in Mutex /\ kont[u].mutex # q
      BY <1>0, <1>1, <2>2, ZenonT(60) DEF KontOK
    <3> QED
      BY <1>0, <1>1, <1>5, <2>2, <3>1 DEF MutexCovers
  <2> QED
    BY <1>1, <2>1, <2>2 DEF MutexCovers
<1>12. BoostIsExact'
  <2>1. \A m \in Mutex, u \in Task : owner[m] = u => m # q
    BY <1>0, <1>1, SMTT(20) DEF FinalisedOK
  <2>2. ASSUME NEW u \in Task
        PROVE  BoostIsExact!(u)'
    <3>1. \A k \in Mutex : owner[k] = u => mutex_priority'[k] = mutex_priority[k]
      BY <1>5, <2>1
    <3>2. priority' = priority /\ owner' = owner
      BY <1>1, <1>5
    <3> QED
      BY <1>0, <3>1, <3>2, SMTT(20) DEF BoostIsExact
  <2> QED
    BY <2>2 DEF BoostIsExact
<1>13. FinalisedOK'
  BY <1>0, <1>1, <1>5, <1>6, SMTT(20) DEF FinalisedOK
<1>14. NoStaleTimer' /\ RelockOK'
  BY <1>0, <1>1 DEF NoStaleTimer, RelockOK
<1>15. NoStrandedWaiter'
  <2> SUFFICES ASSUME NEW m \in Mutex, NEW u \in Task,
                      owner'[m] = Null, In(u, queue'[m]), m \notin finalised'
               PROVE  NoStrandedWaiter!(m, u)!2'
    BY DEF NoStrandedWaiter
  <2>1. m # q
    BY <1>3, <1>4
  <2> QED
    BY <1>0, <1>1, <1>4, <1>5, <1>6, <2>1 DEF NoStrandedWaiter
<1> QED
  BY ONLY <1>7, <1>8, <1>9, <1>10, <1>11, <1>12, <1>13, <1>14, <1>15 DEF IInv

============================================================================
