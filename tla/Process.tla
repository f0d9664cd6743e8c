------------------------------ MODULE Process ------------------------------
(***************************************************************************)
(* Processes and signals (process/process.c, process/signal.c): fork, exit *)
(* and wait, the generation and delivery of signals, and the threads that  *)
(* one process leaves behind for the next.                                 *)
(*                                                                         *)
(* Everything here runs under process_lock, so a section of that lock is   *)
(* one step.  A process number is not used twice, so a process stands for  *)
(* its number.                                                             *)
(***************************************************************************)
EXTENDS Integers, Sequences, FiniteSets, SequencesExt, FiniteSetsExt

CONSTANTS
  Slot,          \* the memory of processes
  init_process,
  Signal,        \* a set of "KILL", "USR", "CHLD", "STOP" and "CONT"
  Masks,         \* the masks that programs ask for
  Handlers,      \* of each signal: the actions that programs ask for
  sa_mask,       \* the mask of a caught signal
  Options,       \* the options of wait(): sets of "NOHANG" and "UNTRACED"
  MaxLeft,       \* bound: signals left in a thread that is used again
  MaxBusy,       \* bound: processes among which signals are used
  None

ASSUME ProcessAssumption ==
  /\ init_process \in Slot
  /\ Signal \subseteq {"KILL", "USR", "CHLD", "STOP", "CONT"} /\ "CHLD" \in Signal
  /\ Masks \subseteq SUBSET Signal /\ sa_mask \subseteq Signal
  /\ Handlers \in [Signal -> SUBSET {"DFL", "IGN", "CATCH", "RESETHAND", "NOCLDSTOP"}]
  /\ Options \subseteq SUBSET {"NOHANG", "UNTRACED"}
  /\ MaxLeft \in Nat /\ MaxBusy \in Nat

VARIABLES
  proc,         \* struct Process, with the struct Thread of a living one
  thread_cache, \* the signal queue of the next thread in the pool
  panic

vars == <<proc, thread_cache, panic>>

NoProcess ==
  [state |-> "NONE", available |-> FALSE, parent |-> None, children |-> <<>>,
   at |-> "none", pid |-> None, options |-> {}, mask |-> {}, saved |-> {},
   pending |-> {}, queue |-> <<>>, action |-> [s \in Signal |-> "DFL"]]

Init ==
  /\ proc = [p \in Slot |-> IF p # init_process THEN NoProcess
                            ELSE [NoProcess EXCEPT !.state = "ACTIVE", !.at = "user"]]
  /\ thread_cache = <<>>
  /\ panic = "none"

\* The processes that have a thread.
Living == {p \in Slot : proc[p].state \in {"ACTIVE", "STOPPED"}}

\* For the bound MaxBusy: a larger family is made only when no signal is
\* blocked or queued, and then uses none.
Family == {p \in Slot : proc[p].state # "NONE"}

Calm ==
  \A p \in Slot : /\ proc[p].queue = <<>> /\ proc[p].mask = {}
                  /\ proc[p].at \notin {"pause", "pause.sleep"}

\* What a section of process_lock changes: it is handed from one function of
\* the section to the next.
Now == [proc |-> proc, panic |-> panic]

Become(S) == proc' = S.proc /\ panic' = S.panic

----------------------------------------------------------------------------
(* Signals. *)

signal_is_stop(s) == s = "STOP"

signal_is_ignored(S, p, s) ==
  \/ S.proc[p].action[s] = "IGN"
  \/ S.proc[p].action[s] = "DFL" /\ s = "CHLD"

signal_can_be_ignored(s) == s \notin {"KILL", "STOP"}

signal_is_blocked(S, p, s) == signal_can_be_ignored(s) /\ s \in S.proc[p].mask

\* Mutant: the signal stays in the queue.
signal_discard_forgets(S, p, s) == [S EXCEPT !.proc[p].pending = @ \ {s}]

\* The signal leaves the queue.  A thread may have found others of the same
\* number there; the one that signal_pending points to is the last.
signal_discard(S, p, s) ==
  LET queue == S.proc[p].queue
      last == Max({i \in DOMAIN queue : queue[i] = s})
  IN IF s \notin S.proc[p].pending THEN S
     ELSE [S EXCEPT !.proc[p].pending = @ \ {s},
                    !.proc[p].queue = RemoveAt(queue, last)]

\* Only a task that sleeps is woken.
k_task_wake(S, p) ==
  [S EXCEPT !.proc[p].at = CASE @ = "wait.sleep"  -> "wait"
                             [] @ = "pause.sleep" -> "pause"
                             [] OTHER -> @]

\* signal_generate_one from signal_is_ignored on.
Enqueue(S, p, s) ==
  IF s \in S.proc[p].pending \/ signal_is_ignored(S, p, s) THEN S
  ELSE LET queued == [S EXCEPT !.proc[p].pending = @ \cup {s},
                               !.proc[p].queue = Append(@, s)]
       IN IF signal_is_blocked(S, p, s) THEN queued ELSE k_task_wake(queued, p)

k_waitqueue_wakeup_all(S, p) ==
  [S EXCEPT !.proc[p].at = IF @ = "wait.sleep" THEN "wait" ELSE @]

_signal_state_change_to_parent(S, p) ==
  LET parent == S.proc[p].parent
  IN IF \/ parent = None
        \/ S.proc[p].state # "ZOMBIE" /\ S.proc[parent].action["CHLD"] = "NOCLDSTOP"
     THEN S
     ELSE k_waitqueue_wakeup_all(Enqueue(S, parent, "CHLD"), parent)

_process_stop(S, p) ==
  IF S.proc[p].state = "STOPPED" THEN S
  ELSE _signal_state_change_to_parent([S EXCEPT !.proc[p].state = "STOPPED"], p)

_process_continue(S, p) ==
  IF S.proc[p].state # "STOPPED" THEN S
  ELSE IF ~S.proc[p].available THEN [S EXCEPT !.panic = "process->flags != 0"]
  ELSE _signal_state_change_to_parent(
         k_task_wake([S EXCEPT !.proc[p].state = "ACTIVE"], p), p)

signal_generate_one(S, p, s) ==
  CASE s \in S.proc[p].pending -> S
    [] signal_is_stop(s) -> Enqueue(signal_discard(S, p, "CONT"), p, s)
    [] s = "CONT" -> Enqueue(_process_continue(signal_discard(S, p, "STOP"), p), p, s)
    [] OTHER -> Enqueue(S, p, s)

\* The first signal in the queue that can be delivered.
signal_dequeue(S, p) ==
  LET q == S.proc[p].queue
      ready == {i \in DOMAIN q :
                  /\ ~signal_is_blocked(S, p, q[i])
                  /\ S.proc[p].state = "STOPPED" => q[i] \in {"KILL", "CONT"}}
  IN IF ready = {} THEN 0 ELSE Min(ready)

\* signal_action_default, and k_task_suspend at the end of the trap.
signal_action_default(S, p, s) ==
  CASE s \in {"KILL", "USR"} -> [S EXCEPT !.proc[p].at = "exit"]
    [] s = "CHLD" -> [S EXCEPT !.panic = "ignored signals should not be delivered"]
    [] s = "STOP" -> [_process_stop(S, p) EXCEPT !.proc[p].at = "suspended"]
    [] OTHER -> S

\* The handler runs in user mode with the mask of the action added, or the
\* process is killed when there is no room for its frame; init has room.
signal_action_custom(S, p, s) ==
  {[S EXCEPT !.proc[p].mask = @ \cup sa_mask,
             !.proc[p].action[s] = IF @ = "RESETHAND" THEN "DFL" ELSE @]}
    \cup {[S EXCEPT !.proc[p].at = "exit"] : x \in {p} \ {init_process}}

\* The way back to user mode from a system call or an interrupt.
signal_deliver_pending(p) ==
  /\ proc[p].at \in {"user", "trap"}
  /\ LET i == signal_dequeue(Now, p)
         s == proc[p].queue[i]
         S == [Now EXCEPT !.proc[p].at = "user", !.proc[p].pending = @ \ {s},
                          !.proc[p].queue = RemoveAt(@, i)]
     IN /\ i # 0
        /\ CASE proc[p].action[s] = "DFL" -> Become(signal_action_default(S, p, s))
             [] proc[p].action[s] = "IGN" ->
                  Become([S EXCEPT !.panic = "ignored signals should not be delivered"])
             [] OTHER -> \E next \in signal_action_custom(S, p, s) : Become(next)
  /\ UNCHANGED thread_cache

----------------------------------------------------------------------------
(* System calls. *)

Call(p) == proc[p].at = "user"

\* A call ends with signal_deliver_pending; that is a step of its own when it
\* has a signal to deliver.
Return(S, p) ==
  [S EXCEPT !.proc[p].at = IF signal_dequeue(S, p) = 0 THEN "user" ELSE "trap"]

\* kill, to one process.  An exiting one has a thread until the end.
signal_generate(p, q, s) ==
  /\ Call(p)
  /\ q \in Living \ {init_process}
  /\ Become(Return(signal_generate_one(Now, q, s), p))
  /\ UNCHANGED thread_cache

\* Mutant: a pending signal survives that it is ignored from now on.
signal_action_change_keeps(p, s, handler) ==
  /\ Call(p)
  /\ handler # "DFL" => signal_can_be_ignored(s)
  /\ Become(Return([Now EXCEPT !.proc[p].action[s] = handler], p))
  /\ UNCHANGED thread_cache

signal_action_change(p, s, handler) ==
  /\ Call(p)
  /\ handler # "DFL" => signal_can_be_ignored(s)
  /\ LET S == [Now EXCEPT !.proc[p].action[s] = handler]
     IN Become(Return(IF signal_is_ignored(S, p, s) THEN signal_discard(S, p, s) ELSE S, p))
  /\ UNCHANGED thread_cache

\* sigprocmask, and sigreturn with the mask the handler was called with.
signal_mask_change(p, mask) ==
  /\ Call(p)
  /\ Become(Return([Now EXCEPT !.proc[p].mask = mask \ {"KILL"}], p))
  /\ UNCHANGED thread_cache

signal_suspend(p, mask) ==
  /\ Call(p)
  /\ Become([Now EXCEPT !.proc[p].saved = proc[p].mask,
                        !.proc[p].mask = mask \ {"KILL"},
                        !.proc[p].at = "pause.sleep"])
  /\ UNCHANGED thread_cache

signal_suspended(p) ==
  /\ proc[p].at = "pause"
  /\ Become(Return([Now EXCEPT !.proc[p].mask = proc[p].saved, !.proc[p].saved = {}], p))
  /\ UNCHANGED thread_cache

\* signal_reset, in process_exec.
signal_reset(p) ==
  /\ Call(p)
  /\ Become([Now EXCEPT !.proc[p].mask = {}, !.proc[p].pending = {},
                        !.proc[p].action = NoProcess.action, !.proc[p].queue = <<>>])
  /\ UNCHANGED thread_cache

\* fork, with signal_clone.  The thread is new, or comes from the pool as it
\* was put there.
process_copy(p, child) ==
  /\ Call(p)
  /\ child \notin Family
  /\ Cardinality(Family) < MaxBusy \/ Calm
  /\ \E queue \in {<<>>, thread_cache} :
       LET S == [Now EXCEPT
                   !.proc[p].children = Append(@, child),
                   !.proc[child] = [NoProcess EXCEPT !.state = "ACTIVE", !.at = "user",
                                                     !.parent = p, !.queue = queue,
                                                     !.mask = proc[p].mask,
                                                     !.action = proc[p].action]]
       IN /\ Become(Return(S, p))
          /\ thread_cache' = IF queue = <<>> THEN thread_cache ELSE <<>>

\* The children that wait() is about, and those of them it can report.
Match(p, pid) == SelectSeq(proc[p].children, LAMBDA c : pid \in {None, c})

Report(p, pid, options) ==
  SelectSeq(Match(p, pid), LAMBDA c :
    /\ proc[c].available
    /\ \/ proc[c].state = "ZOMBIE"
       \/ proc[c].state = "STOPPED" /\ "UNTRACED" \in options)


Reported(report) == Head(report)

\* One round of process_wait: it reports a child, returns without, or sleeps.
Scan(p, pid, options) ==
  LET match == Match(p, pid)
      report == Report(p, pid, options)
      c == Reported(report)
      S == Return([Now EXCEPT !.proc[p].pid = None, !.proc[p].options = {}], p)
  IN /\ \/ /\ report # <<>>
           /\ Become(IF proc[c].state = "ZOMBIE"
                     THEN [S EXCEPT !.proc[p].children = Remove(@, c), !.proc[c] = NoProcess]
                     ELSE [S EXCEPT !.proc[c].available = FALSE])
        \/ /\ report = <<>> /\ (match = <<>> \/ "NOHANG" \in options)
           /\ Become(S)
        \/ /\ report = <<>> /\ match # <<>> /\ "NOHANG" \notin options
           /\ Become([Now EXCEPT !.proc[p].pid = pid, !.proc[p].options = options,
                                 !.proc[p].at = "wait.sleep"])
     /\ UNCHANGED thread_cache

process_wait(p, pid, options) ==
  /\ Call(p)
  /\ Scan(p, pid, options)

\* Woken, by a child or by a signal, it looks again.
process_waited(p) ==
  /\ proc[p].at = "wait"
  /\ Scan(p, proc[p].pid, proc[p].options)

exit(p) ==
  /\ Call(p)
  /\ Become([Now EXCEPT !.proc[p].at = "exit"])
  /\ UNCHANGED thread_cache

\* The children of the process become children of init.
Reparent(S, p) ==
  [S EXCEPT !.proc = [q \in Slot |->
     CASE q \in ToSet(S.proc[p].children) -> [@[q] EXCEPT !.parent = init_process]
       [] q = p -> [@[q] EXCEPT !.children = <<>>]
       [] q = init_process -> [@[q] EXCEPT !.children = @ \o S.proc[p].children]
       [] OTHER -> @[q]]]

\* Mutant: the children keep the parent they had.
Adopt_keeps(S, p) ==
  [S EXCEPT !.proc[init_process].children = @ \o S.proc[p].children,
            !.proc[p].children = <<>>]

\* Mutant: init is not told of the zombies it inherits.
Adopt_silent(S, p) == Reparent(S, p)

Adopt(S, p) ==
  LET has_zombies == \E c \in ToSet(S.proc[p].children) : S.proc[c].state = "ZOMBIE"
  IN IF has_zombies THEN k_waitqueue_wakeup_all(Reparent(S, p), init_process)
     ELSE Reparent(S, p)

\* The end of process_destroy, with k_task_exit and, on another processor or
\* later, thread_free, which leaves in the queue of the thread what it holds.
\* Of the process only the parent and the status are looked at again.
process_destroy(p) ==
  /\ proc[p].at = "exit"
  /\ LET zombie == [NoProcess EXCEPT !.state = "ZOMBIE", !.available = TRUE,
                                     !.parent = proc[p].parent]
     IN Become(_signal_state_change_to_parent([Adopt(Now, p) EXCEPT !.proc[p] = zombie], p))
  /\ \/ UNCHANGED thread_cache
     \/ Len(proc[p].queue) <= MaxLeft /\ thread_cache' = proc[p].queue

----------------------------------------------------------------------------

\* The steps of a process inside the kernel, and the interrupts that take a
\* running process into it.
Kernel(p) ==
  signal_deliver_pending(p) \/ signal_suspended(p) \/ process_waited(p) \/ process_destroy(p)

Families(p) ==
  \/ \E child \in Slot : process_copy(p, child)
  \/ \E pid \in ToSet(proc[p].children) \cup {None}, options \in Options :
       process_wait(p, pid, options)
  \/ exit(p)

Signals(p) ==
  \/ \E q \in Slot, s \in Signal : signal_generate(p, q, s)
  \/ \E s \in Signal : \E h \in Handlers[s] : signal_action_change(p, s, h)
  \/ \E mask \in Masks : signal_mask_change(p, mask) \/ signal_suspend(p, mask)
  \/ signal_reset(p)

\* The init program makes its children and waits for any (user/init.c).
InitProgram ==
  \/ \E child \in Slot : process_copy(init_process, child)
  \/ process_wait(init_process, None, {})

Next ==
  /\ panic = "none"
  /\ \/ \E p \in Slot : Kernel(p)
     \/ \E p \in Slot \ {init_process} : Families(p)
     \/ \E p \in Slot \ {init_process} : Cardinality(Family) <= MaxBusy /\ Signals(p)
     \/ InitProgram

Spec == Init /\ [][Next]_vars

\* The init program ends in a loop around wait(), and the scheduler runs it.
FairSpec ==
  /\ Spec
  /\ WF_vars(/\ panic = "none"
             /\ \/ Kernel(init_process)
                \/ process_wait(init_process, None, {}))

----------------------------------------------------------------------------
(* Properties. *)

\* Parents and children agree, through exits of either in any order: a process
\* is the child of its parent and of nobody else, and a parent lives, so that
\* the signal to it has a thread to go to (process.c:352, signal.c:325).
FamilyIsSound ==
  \A c \in Slot :
    /\ {p \in Slot : c \in ToSet(proc[p].children)} = {proc[c].parent} \ {None}
    /\ proc[c].state = "NONE" => proc[c].parent = None
    /\ proc[c].state # "NONE" /\ c # init_process => proc[c].parent \in Living

\* No child is missed: a parent that sleeps in wait() has no zombie to report,
\* also one it inherited while asleep (process.c:524, 366).
NoMissedChild ==
  \A p \in Slot :
    proc[p].at = "wait.sleep" =>
      \A c \in ToSet(proc[p].children) :
        proc[p].pid \in {None, c} => proc[c].state # "ZOMBIE"

\* With threads that start empty, the queue holds each pending signal once and
\* no other, so that discarding a signal leaves nothing of it (signal.c:146, 495).
QueueIsPending ==
  MaxLeft = 0 =>
    \A p \in Slot : /\ IsInjective(proc[p].queue)
                    /\ ToSet(proc[p].queue) = proc[p].pending

\* A signal that is ignored is not delivered: the kernel panics when one is
\* (signal.c:461, 539).
IgnoredIsNotDelivered == panic # "ignored signals should not be delivered"


============================================================================
