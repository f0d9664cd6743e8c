------------------------------ MODULE Mailbox ------------------------------
(***************************************************************************)
(* Mailboxes (kernel/core/mailbox.c): a ring of messages of one size in a  *)
(* buffer of the caller's, with queues of sleeping senders and receivers.  *)
(* mailbox->lock makes one step of each pass of a call, as for semaphores. *)
(* Pointers are offsets into the buffer; a message is kept at the offset   *)
(* it is copied to.                                                        *)
(***************************************************************************)
EXTENDS SleepQueue

CONSTANTS receivers, senders,  \* the two queues
          Message,
          MsgSize, BufSize     \* bytes; BufSize need not be a multiple

ASSUME MailboxAssumption ==
  /\ WaitQueue = {receivers, senders} /\ receivers # senders
  /\ MsgSize \in Nat \ {0} /\ BufSize \in Nat /\ BufSize >= MsgSize
  /\ Null \notin Message

VARIABLES buf, read_ptr, write_ptr, size,
          valid,  \* mailbox->type
          call,   \* the arguments of the call a task is in
          got     \* the message it received last

boxVars == <<buf, read_ptr, write_ptr, size>>
vars == <<sleepVars, boxVars, valid, call, got>>

buf_end == BufSize - (BufSize % MsgSize)

capacity == BufSize \div MsgSize

NoCall == [msg |-> Null, how |-> "none", timed |-> FALSE]

\* The types; the pointers of the ring stay where a whole message fits and its
\* size stays within the capacity (mailbox.c).
TypeOK ==
  /\ status \in [Task -> How \cup {"awake", "woken"}]
  /\ on \in [Task -> WaitQueue \cup {Null}]
  /\ sleep_result \in [Task -> {0, -EINTR, -EINVAL, -ETIMEDOUT}]
  /\ timers \subseteq Task
  /\ buf \in [0 .. BufSize - MsgSize -> Message \cup {Null}]
  /\ read_ptr \in 0 .. BufSize - MsgSize
  /\ write_ptr \in 0 .. BufSize - MsgSize
  /\ size \in 0 .. capacity
  /\ valid \in BOOLEAN
  /\ call \in [Task -> [msg : Message \cup {Null}, how : How \cup {"none"},
                        timed : BOOLEAN]]
  /\ got \in [Task -> Message \cup {Null}]

Init ==
  /\ SleepInit
  /\ buf = [i \in 0 .. BufSize - MsgSize |-> Null]
  /\ read_ptr = 0
  /\ write_ptr = 0
  /\ size = 0
  /\ valid = TRUE
  /\ call = [t \in Task |-> NoCall]
  /\ got = [t \in Task |-> Null]

----------------------------------------------------------------------------

\* Mutant: the last place of the ring is skipped.
Advance_early(ptr) == IF ptr + 2 * MsgSize >= buf_end THEN 0 ELSE ptr + MsgSize

Advance(ptr) == IF ptr + MsgSize >= buf_end THEN 0 ELSE ptr + MsgSize

\* Mutant: no sender is told of the place that became free.
k_mailbox_try_receive_locked_silent(t) ==
  /\ size > 0
  /\ got' = [got EXCEPT ![t] = buf[read_ptr]]
  /\ read_ptr' = Advance(read_ptr)
  /\ size' = size - 1
  /\ Awake(t)
  /\ UNCHANGED <<buf, write_ptr>>

k_mailbox_try_receive_locked(t) ==
  /\ size > 0
  /\ got' = [got EXCEPT ![t] = buf[read_ptr]]
  /\ read_ptr' = Advance(read_ptr)
  /\ size' = size - 1
  /\ AwakeAndWakeupOne(t, senders, 0)
  /\ UNCHANGED <<buf, write_ptr>>

k_mailbox_try_send_locked(t, m) ==
  /\ size # capacity
  /\ buf' = [buf EXCEPT ![write_ptr] = m]
  /\ write_ptr' = Advance(write_ptr)
  /\ size' = size + 1
  /\ AwakeAndWakeupOne(t, receivers, 0)
  /\ UNCHANGED <<read_ptr, got>>

Free(t) == status[t] = "awake" /\ valid

k_mailbox_try_receive(t) ==
  Free(t) /\ k_mailbox_try_receive_locked(t) /\ UNCHANGED <<valid, call>>

k_mailbox_try_send(t, m) ==
  Free(t) /\ k_mailbox_try_send_locked(t, m) /\ UNCHANGED <<valid, call>>

EndCall(t) == call' = [call EXCEPT ![t] = NoCall]

Block(t, q, args) ==
  /\ Sleep(t, q, args.how, args.timed)
  /\ call' = [call EXCEPT ![t] = args]
  /\ UNCHANGED <<boxVars, got>>

\* One pass of the loop of k_mailbox_timed_receive, and of timed_send.
TimedReceive(t, args) ==
  \/ k_mailbox_try_receive_locked(t) /\ EndCall(t)
  \/ size = 0 /\ Block(t, receivers, args)

TimedSend(t, args) ==
  \/ k_mailbox_try_send_locked(t, args.msg) /\ EndCall(t)
  \/ size = capacity /\ Block(t, senders, args)

k_mailbox_timed_receive(t, how, timed) ==
  /\ Free(t)
  /\ TimedReceive(t, [msg |-> Null, how |-> how, timed |-> timed])
  /\ UNCHANGED valid

k_mailbox_timed_send(t, m, how, timed) ==
  /\ Free(t)
  /\ TimedSend(t, [msg |-> m, how |-> how, timed |-> timed])
  /\ UNCHANGED valid

\* _k_sched_sleep returns: an error ends the call, otherwise the loop goes on.
k_mailbox_awake(t) ==
  /\ status[t] = "woken"
  /\ IF sleep_result[t] < 0
     THEN Awake(t) /\ EndCall(t) /\ UNCHANGED <<boxVars, got>>
     ELSE IF on[t] = receivers THEN TimedReceive(t, call[t])
                               ELSE TimedSend(t, call[t])
  /\ UNCHANGED valid

\* The caller makes sure that no task is inside a call other than asleep.
k_mailbox_destroy ==
  /\ valid
  /\ \A t \in Task : status[t] # "woken"
  /\ Resume(Sleepers(receivers) \cup Sleepers(senders), -EINVAL)
  /\ valid' = FALSE
  /\ UNCHANGED <<boxVars, call, got>>

k_mailbox_create ==
  /\ ~valid
  /\ \A t \in Task : status[t] = "awake"
  /\ read_ptr' = 0
  /\ write_ptr' = 0
  /\ size' = 0
  /\ valid' = TRUE
  /\ UNCHANGED <<sleepVars, buf, call, got>>

Next ==
  \/ k_mailbox_destroy
  \/ k_mailbox_create
  \/ \E t \in Task :
       \/ k_mailbox_try_receive(t)
       \/ \E m \in Message : k_mailbox_try_send(t, m)
       \/ \E how \in How, timed \in BOOLEAN :
            \/ k_mailbox_timed_receive(t, how, timed)
            \/ \E m \in Message : k_mailbox_timed_send(t, m, how, timed)
       \/ k_mailbox_awake(t)
       \/ (Timeout(t) \/ Interrupt(t)) /\ UNCHANGED <<boxVars, valid, call, got>>

Spec == Init /\ [][Next]_vars

----------------------------------------------------------------------------
(* Properties. *)

\* The messages in the ring, the oldest first.
fifo ==
  [i \in 1 .. size |-> buf[(read_ptr + (i - 1) * MsgSize) % (capacity * MsgSize)]]

Ring == INSTANCE Fifo WITH Bound <- capacity, None <- Null

\* The ring delivers each message once and in order, at most capacity of them
\* waiting, also where the pointers wrap in a buffer with a rest at its end.
DeliversInOrder == Ring!Spec

\* No wake-up is lost: while receivers sleep every message, and while senders
\* sleep every free place, has a task on its way to it.
NoLostWakeup ==
  /\ Sleepers(receivers) # {} => size <= Cardinality(Woken(receivers, 0))
  /\ Sleepers(senders) # {} => capacity - size <= Cardinality(Woken(senders, 0))

============================================================================
