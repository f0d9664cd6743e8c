------------------------------- MODULE Timer -------------------------------
(***************************************************************************)
(* Kernel timers (kernel/core/timer.c), the tick that drives them (tick.c, *)
(* time.c), and their user: the interval timer of a process (process.c).   *)
(*                                                                         *)
(* The tick handler of the master CPU brings the queue up to date under    *)
(* k_timer_lock, which it gives up around every callback; processes on     *)
(* other CPUs stop, recreate and start their timers in between.  The       *)
(* callback needs process_lock, and processes hold it around all of their  *)
(* calls.  A process slot and its timer have the same name here.           *)
(***************************************************************************)
EXTENDS Timeout, FiniteSets

CONSTANTS
  Process,     \* slots of process structures
  UsPerTick,   \* US_PER_TICK
  Request,     \* the <<it_value, it_interval>> of setitimer, in microseconds
  Drift,       \* how far k_tick_set may put the counter from the last tick
  MaxLeft,     \* bound: it is put back only while no timer waits longer
  K_NULL

ASSUME TimerAssumption ==
  /\ UsPerTick \in Nat \ {0}
  /\ Request \subseteq Nat \X Nat
  /\ Drift \subseteq Int /\ MaxLeft \in Nat
  /\ K_NULL \notin Process

VARIABLES
  k_timer_queue,    \* sequence of [entry, remain]
  k_timer_current,  \* the timer being called back, K_NULL when it was stopped
  timer,            \* the fields of each timer
  drift,            \* k_tick_counter - k_tick_prev_counter
  adjust,           \* the tick handler: its place, and the locals of
                    \* _k_timeout_queue_adjust
  process_lock,     \* the process holding the lock
  pc,               \* where each process is
  request,          \* the argument of its setitimer call
  panic             \* the assertion that failed, or "none"

timerVars == <<k_timer_queue, k_timer_current, timer>>
processVars == <<process_lock, pc, request>>
vars == <<timerVars, drift, adjust, processVars, panic>>

Idle == [pc |-> "idle", delta |-> 0, sub |-> 0, entry |-> K_NULL]

Init ==
  /\ k_timer_queue = <<>>
  /\ k_timer_current = K_NULL
  /\ timer = [p \in Process |-> [delay |-> 0, period |-> 0, type |-> FALSE]]
  /\ drift = 0
  /\ adjust = Idle
  /\ process_lock = K_NULL
  /\ pc = [p \in Process |-> "free"]
  /\ request = [p \in Process |-> <<0, 0>>]
  /\ panic = "none"

----------------------------------------------------------------------------
(* Timers. *)

\* k_timer_lock can be acquired: the tick handler does not hold it.
TimerLockFree == adjust.pc \notin {"loop", "expire"}

k_timer_create(p, delay, period) ==
  timer' = [timer EXCEPT ![p] = [delay |-> delay, period |-> period, type |-> TRUE]]

k_timer_enqueue(p, delay) ==
  IF delay > 0
  THEN /\ k_timer_queue' = k_timeout_queue_add(k_timer_queue, p, delay)
       /\ UNCHANGED panic
  ELSE panic' = "delay" /\ UNCHANGED k_timer_queue

k_timer_start(p) ==
  /\ TimerLockFree
  /\ IF p \in Entries(k_timer_queue)
     THEN UNCHANGED <<k_timer_queue, panic>>
     ELSE k_timer_enqueue(p, timer[p].delay)
  /\ UNCHANGED k_timer_current

\* Mutant: a timer whose callback runs is not kept from being started again.
k_timer_stop_queued(p) ==
  /\ TimerLockFree
  /\ k_timer_queue' = IF p \in Entries(k_timer_queue)
                      THEN k_timeout_queue_remove(k_timer_queue, p)
                      ELSE k_timer_queue
  /\ UNCHANGED k_timer_current

k_timer_stop(p) ==
  /\ TimerLockFree
  /\ IF p \in Entries(k_timer_queue)
     THEN /\ k_timer_queue' = k_timeout_queue_remove(k_timer_queue, p)
          /\ UNCHANGED k_timer_current
     ELSE /\ k_timer_current' = IF k_timer_current = p THEN K_NULL
                                                       ELSE k_timer_current
          /\ UNCHANGED k_timer_queue

k_timer_destroy(p) ==
  k_timer_stop(p) /\ timer' = [timer EXCEPT ![p].type = FALSE]

----------------------------------------------------------------------------
(* The tick handler. *)

k_tick ==
  /\ adjust.pc = "idle"
  /\ adjust' = [Idle EXCEPT !.pc = "adjust", !.delta = drift + 1]
  /\ drift' = 0
  /\ UNCHANGED <<timerVars, processVars, panic>>

\* time_tick, on any CPU, synchronises the counter with the real-time clock.
k_tick_set ==
  /\ drift' \in Drift
  /\ drift' < -1 => \A i \in 1 .. Len(k_timer_queue) : Expires(k_timer_queue, i) <= MaxLeft
  /\ UNCHANGED <<timerVars, adjust, processVars, panic>>

\* The counter was set back: the first entry, and so all, wait longer.
Defer(queue, delta) == [queue EXCEPT ![1].remain = @ - delta]

\* _k_timer_adjust_timeouts, up to the loop of _k_timeout_queue_adjust.
k_timer_adjust_timeouts ==
  /\ adjust.pc = "adjust"
  /\ IF k_timer_queue = <<>> \/ adjust.delta = 0
     THEN adjust' = Idle /\ UNCHANGED <<k_timer_queue, panic>>
     ELSE IF Head(k_timer_queue).remain = 0
     THEN panic' = "remain" /\ UNCHANGED <<k_timer_queue, adjust>>
     ELSE IF adjust.delta < 0
     THEN /\ k_timer_queue' = Defer(k_timer_queue, adjust.delta)
          /\ adjust' = Idle
          /\ UNCHANGED panic
     ELSE adjust' = [adjust EXCEPT !.pc = "loop"] /\ UNCHANGED <<k_timer_queue, panic>>
  /\ UNCHANGED <<k_timer_current, timer, drift, processVars>>

\* Mutant: ticks that expire no timer are forgotten.
k_timeout_queue_adjust_forget ==
  /\ adjust.pc = "loop"
  /\ LET remain == Head(k_timer_queue).remain
     IN IF adjust.delta < remain
        THEN adjust' = Idle /\ UNCHANGED k_timer_queue
        ELSE /\ k_timer_queue' = [k_timer_queue EXCEPT ![1].remain = 0]
             /\ adjust' = [adjust EXCEPT !.pc = "expire", !.sub = remain]
  /\ UNCHANGED <<k_timer_current, timer, drift, processVars, panic>>

\* One pass of "while (delta_ticks > 0)", up to the entries that expire.
k_timeout_queue_adjust ==
  /\ adjust.pc = "loop"
  /\ LET remain == Head(k_timer_queue).remain
     IN IF adjust.delta < remain
        THEN /\ k_timer_queue' = [k_timer_queue EXCEPT ![1].remain = @ - adjust.delta]
             /\ adjust' = Idle
        ELSE /\ k_timer_queue' = [k_timer_queue EXCEPT ![1].remain = 0]
             /\ adjust' = [adjust EXCEPT !.pc = "expire", !.sub = remain]
  /\ UNCHANGED <<k_timer_current, timer, drift, processVars, panic>>

\* The first half of _k_timer_timeout: k_timer_lock is released at its end.
k_timer_timeout ==
  /\ adjust.pc = "expire"
  /\ k_timer_queue' = Tail(k_timer_queue)
  /\ k_timer_current' = Head(k_timer_queue).entry
  /\ adjust' = [adjust EXCEPT !.pc = "callback", !.entry = Head(k_timer_queue).entry]
  /\ UNCHANGED <<timer, drift, processVars, panic>>

\* The callback: signal_generate works under process_lock.
process_itimer ==
  /\ adjust.pc = "callback"
  /\ process_lock = K_NULL
  /\ adjust' = [adjust EXCEPT !.pc = "called"]
  /\ UNCHANGED <<timerVars, drift, processVars, panic>>

\* Mutant: of several timers that expire together only the first is called.
Continue_once(queue) ==
  IF queue = <<>> \/ adjust.delta = adjust.sub THEN Idle
  ELSE [Idle EXCEPT !.pc = "loop", !.delta = adjust.delta - adjust.sub]

\* After a callback: on to the next entry that expires, the next pass of the
\* loop, or the end.
Continue(queue) ==
  IF queue = <<>> THEN Idle
  ELSE IF Head(queue).remain = 0 THEN [adjust EXCEPT !.pc = "expire"]
  ELSE IF adjust.delta = adjust.sub THEN Idle
  ELSE [Idle EXCEPT !.pc = "loop", !.delta = adjust.delta - adjust.sub]

\* The second half of _k_timer_timeout.
k_timer_timeout_return ==
  /\ adjust.pc = "called"
  /\ LET entry == adjust.entry
     IN IF k_timer_current = K_NULL
        THEN UNCHANGED <<k_timer_queue, k_timer_current, panic>>
        ELSE IF k_timer_current # entry
        THEN panic' = "current" /\ UNCHANGED <<k_timer_queue, k_timer_current>>
        ELSE /\ k_timer_current' = K_NULL
             /\ IF timer[entry].period # 0
                THEN k_timer_enqueue(entry, timer[entry].period)
                ELSE UNCHANGED <<k_timer_queue, panic>>
  /\ adjust' = Continue(k_timer_queue')
  /\ UNCHANGED <<timer, drift, processVars>>

\* All but the callback, which waits for process_lock.
Tick ==
  \/ k_tick
  \/ k_timer_adjust_timeouts
  \/ k_timeout_queue_adjust
  \/ k_timer_timeout
  \/ k_timer_timeout_return

----------------------------------------------------------------------------
(* Processes. *)

timeval2ticks(us) == us \div UsPerTick

\* process_alloc gives the slot to a new process.
process_alloc(p) ==
  /\ pc[p] = "free"
  /\ k_timer_create(p, 0, 0)
  /\ pc' = [pc EXCEPT ![p] = "user"]
  /\ UNCHANGED <<k_timer_queue, k_timer_current, drift, adjust, process_lock, request, panic>>

\* process_set_itimer, from process_lock() to process_unlock().
SetLock(p) ==
  /\ pc[p] = "user"
  /\ process_lock = K_NULL
  /\ process_lock' = p
  /\ \E r \in Request : request' = [request EXCEPT ![p] = r]
  /\ pc' = [pc EXCEPT ![p] = "stop"]
  /\ UNCHANGED <<timerVars, drift, adjust, panic>>

Return(p) ==
  /\ pc' = [pc EXCEPT ![p] = "user"]
  /\ process_lock' = K_NULL
  /\ request' = [request EXCEPT ![p] = <<0, 0>>]

SetStop(p) ==
  /\ pc[p] = "stop"
  /\ k_timer_stop(p)
  /\ IF request[p][1] = 0
     THEN Return(p)
     ELSE pc' = [pc EXCEPT ![p] = "create"] /\ UNCHANGED <<process_lock, request>>
  /\ UNCHANGED <<timer, drift, adjust, panic>>

SetCreate(p) ==
  /\ pc[p] = "create"
  /\ k_timer_create(p, timeval2ticks(request[p][1]), timeval2ticks(request[p][2]))
  /\ pc' = [pc EXCEPT ![p] = "start"]
  /\ UNCHANGED <<k_timer_queue, k_timer_current, drift, adjust, process_lock, request, panic>>

SetStart(p) ==
  /\ pc[p] = "start"
  /\ k_timer_start(p)
  /\ Return(p)
  /\ UNCHANGED <<timer, drift, adjust>>

\* process_destroy; the slot is free once the parent has waited for the process.
DestroyLock(p) ==
  /\ pc[p] = "user"
  /\ process_lock = K_NULL
  /\ process_lock' = p
  /\ pc' = [pc EXCEPT ![p] = "destroy"]
  /\ UNCHANGED <<timerVars, drift, adjust, request, panic>>

Destroy(p) ==
  /\ pc[p] = "destroy"
  /\ k_timer_destroy(p)
  /\ pc' = [pc EXCEPT ![p] = "free"]
  /\ process_lock' = K_NULL
  /\ UNCHANGED <<drift, adjust, request, panic>>

Call(p) ==
  \/ SetLock(p) \/ SetStop(p) \/ SetCreate(p) \/ SetStart(p)
  \/ DestroyLock(p) \/ Destroy(p)

Next ==
  /\ panic = "none"
  /\ Tick \/ process_itimer \/ k_tick_set \/ \E p \in Process : process_alloc(p) \/ Call(p)

Spec == Init /\ [][Next]_vars

\* Ticks keep coming, the handler and a process in a call go on, and an
\* acquisition of process_lock does not lose to the others for ever.
Fairness ==
  /\ WF_vars(panic = "none" /\ Tick)
  /\ SF_vars(panic = "none" /\ process_itimer)
  /\ \A p \in Process :
       WF_vars(panic = "none" /\ (SetStop(p) \/ SetCreate(p) \/ SetStart(p) \/ Destroy(p)))

FairSpec == Spec /\ Fairness

----------------------------------------------------------------------------
(* Properties. *)

\* The assertions of the tick handler hold: the entry at the head of the queue
\* has ticks left whenever a tick arrives (timeout.c:74), and the timer still
\* current after a callback is the one that was called (timer.c:163), whatever
\* processes did while the lock was released.
TickAssertions == panic \notin {"remain", "current"}

\* k_timer_stop is final: from the moment it returns until the owner starts the
\* timer again, the timer is neither queued nor about to be queued again by a
\* callback that is still running (timer.c:118).
StopIsFinal ==
  \A p \in Process :
    pc[p] \in {"create", "start", "free"} =>
      p \notin Entries(k_timer_queue) /\ k_timer_current # p

\* Once the counter is no longer set back, every timer that waits expires or is
\* stopped.
TimersExpire ==
  <>[](drift >= 0) =>
    \A p \in Process :
      p \in Entries(k_timer_queue) ~> p \notin Entries(k_timer_queue)

\* The ticks the handler took from the counter and has still to hand out.
Due ==
  CASE adjust.pc \in {"adjust", "loop"} -> adjust.delta
    [] adjust.pc \in {"expire", "callback", "called"} -> adjust.delta - adjust.sub
    [] OTHER -> 0

\* The queue of differences as the timers' own counts.
Promise == INSTANCE Deadlines WITH
  Timer  <- Process,
  None   <- K_NULL,
  left   <- [p \in Process |-> IF p \in Entries(k_timer_queue)
                               THEN Expires(k_timer_queue, Index(k_timer_queue, p))
                               ELSE K_NULL],
  due    <- Due,
  firing <- IF adjust.pc \in {"callback", "called"} THEN adjust.entry ELSE K_NULL

\* No timer is passed over, fires early or twice, or gains or loses a tick when
\* another timer is added or removed before it or the counter is set.
KeepsDeadlines == Promise!Spec

============================================================================
