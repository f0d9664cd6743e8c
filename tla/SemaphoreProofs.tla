-------------------------- MODULE SemaphoreProofs --------------------------
(***************************************************************************)
(* No put on a semaphore is lost, for any number of tasks, count and bound.*)
(***************************************************************************)
EXTENDS Semaphore, FiniteSetTheorems, TLAPS

\* The time that the provers may take.
USE ZenonT(20), SMTT(20)

\* Where a task stands agrees with its call: it sleeps on the semaphore with a
\* mode that it keeps for the next pass, its result is set by the wake-up, and
\* on a destroyed semaphore nobody sleeps and every woken task fails.
CallOK ==
  \A t \in Task :
    /\ status[t] # "awake" => on[t] = sem /\ call[t].how \in How
    /\ status[t] = "awake" => on[t] = Null
    /\ status[t] \in How => sleep_result[t] = 0
    /\ ~ type => status[t] \notin How
    /\ ~ type /\ status[t] = "woken" => sleep_result[t] < 0

\* The inductive invariant: NoLostPut counts on tasks with the result 0 only being
\* tasks that test the count again.
IInv == TypeOK /\ CallOK /\ NoLostPut

----------------------------------------------------------------------------
(* What a step does to the two sets that NoLostPut compares. *)

\* The number of woken tasks is a number.
LEMMA WokenFinite ==
  ASSUME NEW q, NEW r
  PROVE  IsFiniteSet(Woken(q, r)) /\ Cardinality(Woken(q, r)) \in Nat
<1>1. Woken(q, r) \subseteq Task
  BY DEF Woken
<1> QED
  BY <1>1, SleepAssumption, FS_Subset, FS_CardinalityType

\* One more task is woken for the semaphore.
LEMMA WokenMore ==
  ASSUME NEW S, IsFiniteSet(S), NEW t, t \notin S
  PROVE  Cardinality(S \cup {t}) = Cardinality(S) + 1
BY FS_AddElement

\* One of the woken tasks has run.
LEMMA WokenLess ==
  ASSUME NEW S, IsFiniteSet(S), NEW t \in S
  PROVE  Cardinality(S \ {t}) = Cardinality(S) - 1
BY FS_RemoveElement

\* The sleeping and the woken tasks after the sleep of a task has ended.
LEMMA AwakeSets ==
  ASSUME IInv, NEW t \in Task, status[t] \notin How, Awake(t)
  PROVE  /\ Sleepers(sem)' = Sleepers(sem)
         /\ Woken(sem, 0)' = Woken(sem, 0) \ {t}
<1>1. Sleepers(sem)' = Sleepers(sem)
  BY SleepAssumption, SemaphoreAssumption DEF Awake, Sleepers, IInv, TypeOK, How
<1>2. Woken(sem, 0)' = Woken(sem, 0) \ {t}
  BY DEF Awake, Woken, IInv, TypeOK
<1> QED
  BY <1>1, <1>2

\* A task that is resumed with an error is not one of those that test the count.
LEMMA ResumeSets ==
  ASSUME IInv, NEW ts \in SUBSET Sleepers(sem), NEW r \in Int, Resume(ts, r)
  PROVE  /\ Sleepers(sem)' = Sleepers(sem) \ ts
         /\ r = 0 => Woken(sem, 0)' = Woken(sem, 0) \cup ts
         /\ r # 0 => Woken(sem, 0)' = Woken(sem, 0)
<1>1. Sleepers(sem)' = Sleepers(sem) \ ts
  BY DEF Resume, Sleepers, How
<1>2. r = 0 => Woken(sem, 0)' = Woken(sem, 0) \cup ts
  BY DEF Resume, Sleepers, Woken, How
<1>3. r # 0 => Woken(sem, 0)' = Woken(sem, 0)
  BY DEF Resume, Sleepers, Woken, How
<1> QED
  BY <1>1, <1>2, <1>3

\* The invariant does not depend on anything else.
LEMMA ResumeIInv ==
  ASSUME IInv, NEW ts \in SUBSET Sleepers(sem),
         NEW r \in {0, -EINTR, -EINVAL, -ETIMEDOUT},
         Resume(ts, r), UNCHANGED <<call, type>>, type \/ r # 0
  PROVE  CallOK' /\ status' \in [Task -> How \cup {"awake", "woken"}]
         /\ sleep_result' \in [Task -> {0, -EINTR, -EINVAL, -ETIMEDOUT}]
<1> USE DEF IInv, TypeOK, Resume, Sleepers
<1>1. status' \in [Task -> How \cup {"awake", "woken"}]
  OBVIOUS
<1>2. sleep_result' \in [Task -> {0, -EINTR, -EINVAL, -ETIMEDOUT}]
  OBVIOUS
<1>3. CallOK'
  BY DEF CallOK, How, EINTR, EINVAL, ETIMEDOUT
<1> QED
  BY <1>1, <1>2, <1>3

----------------------------------------------------------------------------

\* The invariant holds at first.
LEMMA InitIInv == Init => IInv
<1> SUFFICES ASSUME Init PROVE IInv
  OBVIOUS
<1> USE DEF Init, SleepInit, NoCall
<1>1. TypeOK
  BY SemaphoreAssumption DEF TypeOK, How
<1>2. CallOK
  BY DEF CallOK, How
<1>3. NoLostPut
  BY DEF NoLostPut, Sleepers, How
<1> QED
  BY <1>1, <1>2, <1>3 DEF IInv

----------------------------------------------------------------------------
(* The steps. *)

\* One pass of the loop, by a task that is not asleep.
LEMMA TimedGetIInv ==
  ASSUME IInv, type, NEW t \in Task, status[t] \notin How,
         status[t] = "woken" => sleep_result[t] = 0,
         NEW args \in [how : How, timed : BOOLEAN], TimedGet(t, args), UNCHANGED type
  PROVE  IInv'
<1> USE DEF IInv
<1>1. CASE /\ k_semaphore_try_get_locked
           /\ Awake(t)
           /\ call' = [call EXCEPT ![t] = NoCall]
  <2>1. TypeOK'
    BY <1>1, SMTT(20) DEF TypeOK, k_semaphore_try_get_locked, Awake, NoCall
  <2>2. CallOK'
    BY <1>1 DEF TypeOK, CallOK, Awake, NoCall, How
  <2>3. /\ Sleepers(sem)' = Sleepers(sem)
        /\ Woken(sem, 0)' = Woken(sem, 0) \ {t}
    BY <1>1, AwakeSets
  <2>4. NoLostPut'
    <3>1. CASE t \in Woken(sem, 0)
      BY <1>1, <2>3, <3>1, WokenFinite, WokenLess, SMTT(20)
         DEF NoLostPut, TypeOK, k_semaphore_try_get_locked
    <3>2. CASE t \notin Woken(sem, 0)
      <4>1. Woken(sem, 0)' = Woken(sem, 0)
        BY <2>3, <3>2
      <4> QED
        BY <1>1, <2>3, <4>1, WokenFinite, SMTT(20) DEF NoLostPut, TypeOK, k_semaphore_try_get_locked
    <3> QED
      BY <3>1, <3>2
  <2> QED
    BY <2>1, <2>2, <2>4
<1>2. CASE /\ count = 0
           /\ Sleep(t, sem, args.how, args.timed)
           /\ call' = [call EXCEPT ![t] = args]
           /\ UNCHANGED count
  <2>1. TypeOK'
    BY <1>2, SemaphoreAssumption DEF TypeOK, Sleep
  <2>2. CallOK'
    BY <1>2 DEF TypeOK, CallOK, Sleep, How
  <2>3. Cardinality(Woken(sem, 0)') \in Nat
    <3>1. Woken(sem, 0)' \subseteq Task
      BY DEF Woken
    <3> QED
      BY <3>1, SleepAssumption, FS_Subset, FS_CardinalityType
  <2> QED
    BY <1>2, <2>1, <2>2, <2>3, SMTT(20) DEF NoLostPut
<1> QED
  BY <1>1, <1>2 DEF TimedGet

\* A woken task fails with its result or makes another pass of the loop.
LEMMA AwakeIInv ==
  ASSUME IInv, NEW t \in Task, k_semaphore_awake(t)
  PROVE  IInv'
<1>1. status[t] = "woken" /\ UNCHANGED type
  BY DEF k_semaphore_awake
<1>2. CASE sleep_result[t] < 0
  <2>1. Awake(t) /\ call' = [call EXCEPT ![t] = NoCall] /\ UNCHANGED count
    BY <1>2 DEF k_semaphore_awake
  <2>2. TypeOK'
    BY <1>1, <2>1 DEF IInv, TypeOK, Awake, NoCall
  <2>3. CallOK'
    BY <1>1, <2>1 DEF IInv, TypeOK, CallOK, Awake, NoCall, How
  <2>4. Sleepers(sem)' = Sleepers(sem) /\ Woken(sem, 0)' = Woken(sem, 0) \ {t}
    BY <1>1, <2>1, AwakeSets DEF How
  <2>5. t \notin Woken(sem, 0)
    BY <1>2 DEF Woken
  <2>6. Woken(sem, 0)' = Woken(sem, 0)
    BY <2>4, <2>5
  <2> QED
    BY <2>1, <2>2, <2>3, <2>4, <2>6 DEF IInv, NoLostPut
<1>3. CASE ~ (sleep_result[t] < 0)
  <2>1. TimedGet(t, call[t])
    BY <1>3 DEF k_semaphore_awake
  <2>2. sleep_result[t] = 0 /\ type
    BY <1>1, <1>3, SMTT(20) DEF IInv, TypeOK, CallOK, EINTR, EINVAL, ETIMEDOUT
  <2>3. call[t] \in [how : How, timed : BOOLEAN]
    BY <1>1 DEF IInv, TypeOK, CallOK
  <2> QED
    BY <1>1, <2>1, <2>2, <2>3, TimedGetIInv DEF How
<1> QED
  BY <1>2, <1>3

\* A put makes the count and the woken tasks grow together (k_semaphore_put).
LEMMA PutIInv ==
  ASSUME IInv, k_semaphore_put
  PROVE  IInv'
<1>1. type /\ count' = count + 1 /\ WakeupOne(sem, 0) /\ UNCHANGED <<type, call>>
  BY DEF k_semaphore_put
<1>2. CASE Sleepers(sem) = {}
  <2>1. UNCHANGED sleepVars
    BY <1>1, <1>2 DEF WakeupOne
  <2>2. TypeOK' /\ CallOK'
    BY <1>1, <2>1, SMTT(20) DEF IInv, TypeOK, CallOK, sleepVars
  <2>3. Sleepers(sem)' = {}
    BY <1>2, <2>1 DEF Sleepers, sleepVars
  <2> QED
    BY <2>2, <2>3 DEF IInv, NoLostPut
<1>3. CASE Sleepers(sem) # {}
  <2>1. PICK t \in Sleepers(sem) : Resume({t}, 0)
    BY <1>1, <1>3 DEF WakeupOne
  <2>2. {t} \in SUBSET Sleepers(sem)
    OBVIOUS
  <2>3. CallOK' /\ status' \in [Task -> How \cup {"awake", "woken"}]
        /\ sleep_result' \in [Task -> {0, -EINTR, -EINVAL, -ETIMEDOUT}]
    BY <1>1, <2>1, <2>2, ResumeIInv
  <2>4. TypeOK'
    BY <1>1, <2>1, <2>3, SMTT(20) DEF IInv, TypeOK, Resume
  <2>5. Woken(sem, 0)' = Woken(sem, 0) \cup {t}
    BY <2>1, <2>2, ResumeSets, SMTT(20)
  <2>6. t \notin Woken(sem, 0)
    BY DEF Sleepers, Woken, How
  <2>7. Cardinality(Woken(sem, 0)') = Cardinality(Woken(sem, 0)) + 1
    BY <2>5, <2>6, WokenFinite, WokenMore
  <2>8. NoLostPut'
    BY <1>1, <1>3, <2>7, WokenFinite, SMTT(20) DEF IInv, TypeOK, NoLostPut
  <2> QED
    BY <2>3, <2>4, <2>8 DEF IInv
<1> QED
  BY <1>2, <1>3

\* Destroying leaves nobody asleep.
LEMMA DestroyIInv ==
  ASSUME IInv, k_semaphore_destroy
  PROVE  IInv'
<1>1. /\ \A t \in Task : status[t] # "woken"
      /\ Resume(Sleepers(sem), -EINVAL)
      /\ type' = FALSE /\ UNCHANGED <<count, call>>
  BY DEF k_semaphore_destroy, WakeupAll
<1>2. Sleepers(sem)' = {}
  BY <1>1 DEF Resume, Sleepers, How
<1>3. TypeOK'
  BY <1>1 DEF IInv, TypeOK, Resume
<1>4. CallOK'
  BY <1>1, SMTT(20) DEF IInv, TypeOK, CallOK, Resume, Sleepers, How, EINVAL
<1> QED
  BY <1>2, <1>3, <1>4 DEF IInv, NoLostPut

\* A semaphore that is created has no sleepers.
LEMMA CreateIInv ==
  ASSUME IInv, k_semaphore_create
  PROVE  IInv'
<1> USE DEF k_semaphore_create, sleepVars
<1>1. TypeOK'
  BY SemaphoreAssumption DEF IInv, TypeOK
<1>2. CallOK'
  BY DEF IInv, CallOK, How
<1>3. Sleepers(sem)' = {}
  BY DEF Sleepers, How
<1> QED
  BY <1>1, <1>2, <1>3 DEF IInv, NoLostPut

\* A timer that expires, or k_task_wake, ends a sleep with an error.
LEMMA ErrorIInv ==
  ASSUME IInv, NEW t \in Task, Timeout(t) \/ Interrupt(t), UNCHANGED <<count, type, call>>
  PROVE  IInv'
<1>1. TypeOK'
  BY DEF IInv, TypeOK, Timeout, Interrupt, Resume
<1>2. CallOK'
  BY SMTT(20) DEF IInv, TypeOK, CallOK, Timeout, Interrupt, Resume, How, EINTR, ETIMEDOUT
<1>3. Sleepers(sem)' \subseteq Sleepers(sem)
  BY DEF IInv, TypeOK, Sleepers, Timeout, Interrupt, Resume, How
<1>4. Woken(sem, 0)' = Woken(sem, 0)
  BY SMTT(20) DEF IInv, TypeOK, Woken, Timeout, Interrupt, Resume, EINTR, ETIMEDOUT
<1> QED
  BY <1>1, <1>2, <1>3, <1>4 DEF IInv, NoLostPut

\* Every step keeps the invariant.
LEMMA NextIInv ==
  ASSUME IInv, [Next]_vars
  PROVE  IInv'
<1>1. CASE k_semaphore_put
  BY <1>1, PutIInv
<1>2. CASE k_semaphore_destroy
  BY <1>2, DestroyIInv
<1>3. CASE k_semaphore_create
  BY <1>3, CreateIInv
<1>4. ASSUME NEW t \in Task, k_semaphore_try_get(t)
      PROVE  IInv'
  <2>1. TypeOK' /\ CallOK'
    BY <1>4, SMTT(20) DEF IInv, TypeOK, CallOK, k_semaphore_try_get, k_semaphore_try_get_locked, sleepVars
  <2>2. Sleepers(sem)' = Sleepers(sem) /\ Woken(sem, 0)' = Woken(sem, 0)
    BY <1>4 DEF Sleepers, Woken, k_semaphore_try_get, sleepVars
  <2>3. count' = count - 1 /\ count \in Nat
    BY <1>4 DEF k_semaphore_try_get, k_semaphore_try_get_locked, IInv, TypeOK
  <2> QED
    BY <2>1, <2>2, <2>3, WokenFinite DEF IInv, NoLostPut
<1>5. ASSUME NEW t \in Task, NEW how \in How, NEW timed \in BOOLEAN,
             k_semaphore_timed_get(t, how, timed)
      PROVE  IInv'
  <2>1. /\ type /\ status[t] = "awake" /\ UNCHANGED type
        /\ TimedGet(t, [how |-> how, timed |-> timed])
    BY <1>5 DEF k_semaphore_timed_get, Free
  <2>2. [how |-> how, timed |-> timed] \in [how : How, timed : BOOLEAN]
    OBVIOUS
  <2> QED
    BY <2>1, <2>2, TimedGetIInv DEF How
<1>6. ASSUME NEW t \in Task, k_semaphore_awake(t)
      PROVE  IInv'
  BY <1>6, AwakeIInv
<1>7. ASSUME NEW t \in Task, Timeout(t) \/ Interrupt(t), UNCHANGED <<count, type, call>>
      PROVE  IInv'
  BY <1>7, ErrorIInv
<1>8. CASE UNCHANGED vars
  BY <1>8 DEF IInv, TypeOK, CallOK, NoLostPut, Sleepers, Woken, vars, sleepVars
<1> QED
  BY <1>1, <1>2, <1>3, <1>4, <1>5, <1>6, <1>7, <1>8 DEF Next

----------------------------------------------------------------------------

\* The inductive invariant of the semaphore.
THEOREM Invariant == Spec => []IInv
<1>1. Init => IInv
  BY InitIInv
<1>2. IInv /\ [Next]_vars => IInv'
  BY NextIInv
<1> QED
  BY <1>1, <1>2, PTL DEF Spec

\* Whatever tasks time out, are interrupted or are overtaken after a put woke
\* them, no task sleeps on a count that nobody is on the way to (semaphore.c:171).
THEOREM PutIsNotLost == Spec => []NoLostPut
<1>1. IInv => NoLostPut
  BY DEF IInv
<1> QED
  BY <1>1, Invariant, PTL

============================================================================
