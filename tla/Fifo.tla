-------------------------------- MODULE Fifo -------------------------------
(***************************************************************************)
(* What a mailbox promises: a bounded queue of messages, each delivered to *)
(* one receiver in the order they were sent.                               *)
(***************************************************************************)
EXTENDS Integers, Sequences

CONSTANTS Task, Message, Bound, None

VARIABLES fifo,  \* messages sent and not received
          got    \* the message each task received last, or None

vars == <<fifo, got>>

Init == fifo = <<>> /\ got = [t \in Task |-> None]

Send(m) ==
  /\ Len(fifo) < Bound
  /\ fifo' = Append(fifo, m)
  /\ UNCHANGED got

Receive(t) ==
  /\ fifo # <<>>
  /\ fifo' = Tail(fifo)
  /\ got' = [got EXCEPT ![t] = Head(fifo)]

\* The mailbox is created again.
Reset == fifo' = <<>> /\ UNCHANGED got

Next == Reset \/ (\E m \in Message : Send(m)) \/ (\E t \in Task : Receive(t))

Spec == Init /\ [][Next]_vars

============================================================================
