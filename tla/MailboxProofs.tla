--------------------------- MODULE MailboxProofs ---------------------------
(***************************************************************************)
(* A mailbox is a bounded first-in first-out queue that strands neither    *)
(* senders nor receivers, for any sizes of the buffer and of the messages. *)
(***************************************************************************)
EXTENDS Mailbox, FiniteSetTheorems, SequenceTheorems, TLAPS

\* The time that the provers may take.
USE ZenonT(20), SMTT(20)

\* Where a task stands agrees with its call: it sleeps on one of the queues with
\* the arguments it needs for the next pass, its result is set by the wake-up, and
\* on a destroyed mailbox nobody sleeps and every woken task fails.
CallOK ==
  \A t \in Task :
    /\ status[t] # "awake" => on[t] \in WaitQueue /\ call[t].how \in How
    /\ status[t] # "awake" /\ on[t] = senders => call[t].msg \in Message
    /\ status[t] = "awake" => on[t] = Null
    /\ status[t] \in How => sleep_result[t] = 0
    /\ ~ valid => status[t] \notin How
    /\ ~ valid /\ status[t] = "woken" => sleep_result[t] < 0

\* The place in the ring that is k places after its start, less than two rounds.
Wrap(k) == IF k < capacity THEN k ELSE k - capacity

\* The pointers are at places of the ring, size places apart.
RingAt(r) ==
  /\ read_ptr = r * MsgSize
  /\ write_ptr = Wrap(r + size) * MsgSize

RingOK == \E r \in 0 .. capacity - 1 : RingAt(r)

\* The inductive invariant.
IInv == TypeOK /\ CallOK /\ RingOK /\ NoLostWakeup

----------------------------------------------------------------------------
(* Arithmetic of the ring. *)

\* What division and remainder are.
LEMMA DivMod ==
  ASSUME NEW a \in Nat, NEW b \in Nat \ {0}
  PROVE  a \div b \in Nat /\ a % b \in 0 .. b - 1 /\ a = b * (a \div b) + (a % b)
OBVIOUS

\* The remainder of a number that is less than the divisor.
LEMMA ModInFirst ==
  ASSUME NEW a \in Nat, NEW b \in Nat \ {0}, a < b
  PROVE  a % b = a
OBVIOUS

\* The remainder of a number that exceeds the divisor by less than it.
LEMMA ModInSecond ==
  ASSUME NEW a \in Nat, NEW b \in Nat \ {0}, b <= a, a < b + b
  PROVE  a % b = a - b
OBVIOUS

\* Multiplication distributes.
LEMMA Times ==
  ASSUME NEW j \in Int, NEW k \in Int, NEW m \in Int
  PROVE  j * m \in Int /\ (j + k) * m = j * m + k * m /\ (j - k) * m = j * m - k * m
OBVIOUS

\* Different multiples are a whole factor apart.
LEMMA TimesLess ==
  ASSUME NEW j \in Nat, NEW k \in Nat, NEW m \in Nat \ {0}, j < k
  PROVE  j * m \in Nat /\ k * m \in Nat /\ j * m + m <= k * m
OBVIOUS

\* The buffer holds a whole number of messages before its rest.
LEMMA Capacity ==
  capacity \in Nat \ {0} /\ buf_end = capacity * MsgSize /\ buf_end <= BufSize
<1>1. /\ BufSize \div MsgSize \in Nat /\ BufSize % MsgSize \in 0 .. MsgSize - 1
      /\ BufSize = MsgSize * (BufSize \div MsgSize) + (BufSize % MsgSize)
  BY DivMod, MailboxAssumption
<1>2. BufSize \div MsgSize # 0
  BY <1>1, MailboxAssumption
<1>3. MsgSize * (BufSize \div MsgSize) = (BufSize \div MsgSize) * MsgSize
  BY <1>1, MailboxAssumption
<1> QED
  BY <1>1, <1>2, <1>3, MailboxAssumption DEF capacity, buf_end

\* A whole message fits at every place of the ring, and the places differ.
LEMMA Places ==
  ASSUME NEW j \in 0 .. capacity - 1
  PROVE  /\ j * MsgSize \in 0 .. BufSize - MsgSize
         /\ \A k \in 0 .. capacity - 1 : j * MsgSize = k * MsgSize => j = k
<1>1. j * MsgSize \in Nat /\ j * MsgSize + MsgSize <= capacity * MsgSize
  BY Capacity, MailboxAssumption, TimesLess, SMTT(20)
<1>2. j * MsgSize \in 0 .. BufSize - MsgSize
  BY <1>1, Capacity, MailboxAssumption
<1>3. ASSUME NEW k \in 0 .. capacity - 1, j * MsgSize = k * MsgSize
      PROVE  j = k
  <2>1. j < k => j * MsgSize + MsgSize <= k * MsgSize
    BY Capacity, MailboxAssumption, TimesLess, SMTT(20)
  <2>2. k < j => k * MsgSize + MsgSize <= j * MsgSize
    BY Capacity, MailboxAssumption, TimesLess, SMTT(20)
  <2> QED
    BY <1>1, <1>3, <2>1, <2>2, Capacity, MailboxAssumption
<1> QED
  BY <1>2, <1>3

\* Wrap gives a place of the ring.
LEMMA WrapType ==
  ASSUME NEW k \in 0 .. capacity + capacity - 1
  PROVE  Wrap(k) \in 0 .. capacity - 1
BY Capacity DEF Wrap

\* Advance takes a pointer to the next place and from the last to the first.
LEMMA AdvancePlace ==
  ASSUME NEW r \in 0 .. capacity - 1
  PROVE  Advance(r * MsgSize) = Wrap(r + 1) * MsgSize
<1>0. capacity \in Nat \ {0} /\ MsgSize \in Nat \ {0} /\ r \in Nat
  BY Capacity, MailboxAssumption
<1>1. (r + 1) * MsgSize = r * MsgSize + MsgSize /\ r * MsgSize \in Nat
  BY <1>0
<1>2. CASE r + 1 < capacity
  <2>1. (r + 1) * MsgSize + MsgSize <= capacity * MsgSize
    BY <1>0, <1>2, TimesLess, SMTT(20)
  <2> QED
    BY <1>0, <1>1, <1>2, <2>1, Capacity DEF Advance, Wrap
<1>3. CASE r + 1 = capacity
  BY <1>0, <1>1, <1>3, Capacity DEF Advance, Wrap
<1> QED
  BY <1>0, <1>2, <1>3

\* The refinement mapping takes offsets modulo the ring.
LEMMA PlaceMod ==
  ASSUME NEW k \in 0 .. capacity + capacity - 1
  PROVE  (k * MsgSize) % (capacity * MsgSize) = Wrap(k) * MsgSize
<1>0. capacity \in Nat \ {0} /\ MsgSize \in Nat \ {0} /\ k \in Nat
  BY Capacity, MailboxAssumption
<1>1. /\ k * MsgSize \in Nat /\ capacity * MsgSize \in Nat \ {0}
      /\ (k - capacity) * MsgSize = k * MsgSize - capacity * MsgSize
  <2>1. 0 * MsgSize + MsgSize <= capacity * MsgSize
    BY <1>0, TimesLess, SMTT(20)
  <2> QED
    BY <1>0, <2>1
<1>2. CASE k < capacity
  <2>1. k * MsgSize < capacity * MsgSize
    BY <1>0, <1>1, <1>2, TimesLess, SMTT(20)
  <2> QED
    BY <1>1, <1>2, <2>1, ModInFirst DEF Wrap
<1>3. CASE ~ (k < capacity)
  <2>1. k - capacity \in Nat /\ k - capacity < capacity
    BY <1>0, <1>3
  <2>2. (k - capacity) * MsgSize \in Nat /\ (k - capacity) * MsgSize < capacity * MsgSize
    BY <1>0, <1>1, <2>1, TimesLess, SMTT(20)
  <2>3. (k * MsgSize) % (capacity * MsgSize) = k * MsgSize - capacity * MsgSize
    BY <1>1, <2>2, ModInSecond, SMTT(20)
  <2> QED
    BY <1>1, <1>3, <2>3 DEF Wrap
<1> QED
  BY <1>2, <1>3

----------------------------------------------------------------------------
(* What a step does to the ring. *)

ReceiveStep(t) ==
  /\ size > 0
  /\ got' = [got EXCEPT ![t] = buf[read_ptr]]
  /\ read_ptr' = Advance(read_ptr)
  /\ size' = size - 1
  /\ UNCHANGED <<buf, write_ptr>>

SendStep(m) ==
  /\ size # capacity
  /\ buf' = [buf EXCEPT ![write_ptr] = m]
  /\ write_ptr' = Advance(write_ptr)
  /\ size' = size + 1
  /\ UNCHANGED <<read_ptr, got>>

CreateStep ==
  /\ read_ptr' = 0 /\ write_ptr' = 0 /\ size' = 0
  /\ UNCHANGED <<buf, got>>

\* Every step receives one message, sends one, empties the ring or leaves it.
LEMMA RingSteps ==
  ASSUME CallOK, TypeOK, [Next]_vars
  PROVE  \/ \E t \in Task : ReceiveStep(t)
         \/ \E m \in Message : SendStep(m)
         \/ CreateStep
         \/ UNCHANGED <<boxVars, got>>
<1>1. ASSUME NEW t \in Task, k_mailbox_try_receive_locked(t)
      PROVE  ReceiveStep(t)
  BY <1>1 DEF k_mailbox_try_receive_locked, ReceiveStep
<1>2. ASSUME NEW t \in Task, NEW m, k_mailbox_try_send_locked(t, m)
      PROVE  SendStep(m)
  BY <1>2 DEF k_mailbox_try_send_locked, SendStep
<1>3. CASE k_mailbox_destroy \/ UNCHANGED vars
  BY <1>3 DEF k_mailbox_destroy, vars
<1>4. CASE k_mailbox_create
  BY <1>4 DEF k_mailbox_create, CreateStep
<1>5. ASSUME NEW t \in Task, k_mailbox_try_receive(t)
      PROVE  \E u \in Task : ReceiveStep(u)
  BY <1>1, <1>5 DEF k_mailbox_try_receive
<1>6. ASSUME NEW t \in Task, NEW m \in Message, k_mailbox_try_send(t, m)
      PROVE  \E n \in Message : SendStep(n)
  BY <1>2, <1>6 DEF k_mailbox_try_send
<1>7. ASSUME NEW t \in Task, NEW args, TimedReceive(t, args)
      PROVE  ReceiveStep(t) \/ UNCHANGED <<boxVars, got>>
  BY <1>1, <1>7 DEF TimedReceive, Block
<1>8. ASSUME NEW t \in Task, NEW args, TimedSend(t, args)
      PROVE  SendStep(args.msg) \/ UNCHANGED <<boxVars, got>>
  BY <1>2, <1>8 DEF TimedSend, Block
<1>9. ASSUME NEW t \in Task, NEW how, NEW timed, k_mailbox_timed_receive(t, how, timed)
      PROVE  ReceiveStep(t) \/ UNCHANGED <<boxVars, got>>
  BY <1>7, <1>9 DEF k_mailbox_timed_receive
<1>10. ASSUME NEW t \in Task, NEW how, NEW timed, NEW m \in Message,
              k_mailbox_timed_send(t, m, how, timed)
       PROVE  SendStep(m) \/ UNCHANGED <<boxVars, got>>
  <2>1. TimedSend(t, [msg |-> m, how |-> how, timed |-> timed])
    BY <1>10 DEF k_mailbox_timed_send
  <2> QED
    BY <1>8, <2>1
<1>11. ASSUME NEW t \in Task, k_mailbox_awake(t)
       PROVE  \/ ReceiveStep(t) \/ UNCHANGED <<boxVars, got>>
              \/ \E m \in Message : SendStep(m)
  <2>1. CASE sleep_result[t] < 0
    BY <1>11, <2>1 DEF k_mailbox_awake
  <2>2. CASE ~ (sleep_result[t] < 0) /\ on[t] = receivers
    BY <1>7, <1>11, <2>2 DEF k_mailbox_awake
  <2>3. CASE ~ (sleep_result[t] < 0) /\ on[t] # receivers
    <3>1. TimedSend(t, call[t]) /\ status[t] = "woken"
      BY <1>11, <2>3 DEF k_mailbox_awake
    <3>2. call[t].msg \in Message
      BY <2>3, <3>1, MailboxAssumption DEF CallOK
    <3> QED
      BY <1>8, <3>1, <3>2
  <2> QED
    BY <2>1, <2>2, <2>3
<1> QED
  BY <1>3, <1>4, <1>5, <1>6, <1>9, <1>10, <1>11 DEF Next

\* The pointers and the size stay right, and got and buf keep their types.
BoxType ==
  /\ buf \in [0 .. BufSize - MsgSize -> Message \cup {Null}]
  /\ read_ptr \in 0 .. BufSize - MsgSize
  /\ write_ptr \in 0 .. BufSize - MsgSize
  /\ size \in 0 .. capacity
  /\ got \in [Task -> Message \cup {Null}]

\* The pointers are where a whole message fits.
LEMMA RingPlace ==
  ASSUME NEW r \in 0 .. capacity - 1, size \in 0 .. capacity, RingAt(r)
  PROVE  read_ptr \in 0 .. BufSize - MsgSize /\ write_ptr \in 0 .. BufSize - MsgSize
<1>1. Wrap(r + size) \in 0 .. capacity - 1
  BY Capacity DEF Wrap
<1> QED
  BY <1>1, Places DEF RingAt

\* Receiving moves the first message on by a place.
LEMMA ReceiveRing ==
  ASSUME NEW r \in 0 .. capacity - 1, size \in 0 .. capacity, RingAt(r),
         NEW t \in Task, ReceiveStep(t)
  PROVE  Wrap(r + 1) \in 0 .. capacity - 1 /\ RingAt(Wrap(r + 1))' /\ size' \in 0 .. capacity
<1>0. capacity \in Nat \ {0}
  BY Capacity
<1>1. Wrap(r + 1) \in 0 .. capacity - 1 /\ size' \in 0 .. capacity
  BY <1>0 DEF Wrap, ReceiveStep
<1>2. read_ptr' = Wrap(r + 1) * MsgSize
  BY AdvancePlace DEF RingAt, ReceiveStep
<1>3. Wrap(Wrap(r + 1) + (size - 1)) = Wrap(r + size)
  BY <1>0 DEF Wrap, ReceiveStep
<1> QED
  BY <1>1, <1>2, <1>3 DEF RingAt, ReceiveStep, Wrap

\* Sending keeps the place of the first message.
LEMMA SendRing ==
  ASSUME NEW r \in 0 .. capacity - 1, size \in 0 .. capacity, RingAt(r),
         NEW m, SendStep(m)
  PROVE  RingAt(r)' /\ size' \in 0 .. capacity
<1>0. capacity \in Nat \ {0}
  BY Capacity
<1>1. Wrap(r + size) \in 0 .. capacity - 1 /\ size' \in 0 .. capacity
  BY <1>0 DEF Wrap, SendStep
<1>2. write_ptr' = Wrap(Wrap(r + size) + 1) * MsgSize
  BY <1>1, AdvancePlace DEF RingAt, SendStep
<1>3. Wrap(Wrap(r + size) + 1) = Wrap(r + (size + 1))
  BY <1>0 DEF Wrap, SendStep
<1> QED
  BY <1>1, <1>2, <1>3 DEF RingAt, SendStep, Wrap

\* Every step keeps the pointers as far apart as the size says.
LEMMA RingStays ==
  ASSUME TypeOK, CallOK, RingOK, [Next]_vars
  PROVE  RingOK' /\ BoxType'
<1>1. PICK r \in 0 .. capacity - 1 : RingAt(r)
  BY DEF RingOK
<1>2. ASSUME NEW t \in Task, ReceiveStep(t)
      PROVE  RingOK' /\ BoxType'
  <2>1. /\ Wrap(r + 1) \in 0 .. capacity - 1 /\ RingAt(Wrap(r + 1))'
        /\ size' \in 0 .. capacity
    BY <1>1, <1>2, ReceiveRing DEF TypeOK
  <2>2. Wrap(r + 1)' = Wrap(r + 1) /\ RingOK'
    BY <2>1 DEF Wrap, RingOK, RingAt
  <2>3. read_ptr' \in 0 .. BufSize - MsgSize
    BY <2>1, Places DEF RingAt
  <2>4. write_ptr' \in 0 .. BufSize - MsgSize
    BY <1>2 DEF TypeOK, ReceiveStep
  <2>5. got' \in [Task -> Message \cup {Null}]
    BY <1>2 DEF TypeOK, ReceiveStep
  <2> QED
    BY <1>2, <2>1, <2>2, <2>3, <2>4, <2>5 DEF TypeOK, BoxType, ReceiveStep
<1>3. ASSUME NEW m \in Message, SendStep(m)
      PROVE  RingOK' /\ BoxType'
  <2>1. RingAt(r)' /\ size' \in 0 .. capacity
    BY <1>1, <1>3, SendRing DEF TypeOK
  <2>2. RingOK'
    BY <2>1 DEF RingOK
  <2>3. Wrap(r + size') \in 0 .. capacity - 1
    <3>1. \A n \in 0 .. capacity : r + n \in 0 .. capacity + capacity - 1
      BY Capacity
    <3> QED
      BY <2>1, <3>1, WrapType
  <2>4. write_ptr' \in 0 .. BufSize - MsgSize
    BY <2>1, <2>3, Places DEF RingAt, Wrap
  <2>5. buf' \in [0 .. BufSize - MsgSize -> Message \cup {Null}]
    BY <1>3 DEF TypeOK, SendStep
  <2> QED
    BY <1>3, <2>1, <2>2, <2>4, <2>5 DEF TypeOK, BoxType, SendStep
<1>4. CASE CreateStep
  <2>1. 0 \in 0 .. capacity - 1 /\ 0 * MsgSize = 0 /\ Wrap(0 + 0) = 0
    BY Capacity, MailboxAssumption DEF Wrap
  <2>2. RingAt(0)' /\ RingOK'
    BY <1>4, <2>1 DEF RingOK, RingAt, CreateStep, Wrap
  <2>3. 0 \in 0 .. BufSize - MsgSize /\ 0 \in 0 .. capacity
    BY Capacity, MailboxAssumption
  <2> QED
    BY <1>4, <2>2, <2>3 DEF TypeOK, BoxType, CreateStep
<1>5. CASE UNCHANGED <<boxVars, got>>
  BY <1>1, <1>5 DEF TypeOK, BoxType, RingOK, RingAt, boxVars, Wrap
<1> QED
  BY <1>2, <1>3, <1>4, <1>5, RingSteps

----------------------------------------------------------------------------
(* The ring implements the queue. *)

\* The mapping, for any contents of the buffer, place of the first message and size.
Messages(b, ptr, n) ==
  [i \in 1 .. n |-> b[(ptr + (i - 1) * MsgSize) % (capacity * MsgSize)]]

Content == Message \cup {Null}

\* The messages of a ring that starts at place r.
LEMMA MessagesAt ==
  ASSUME NEW b \in [0 .. BufSize - MsgSize -> Content],
         NEW r \in 0 .. capacity - 1, NEW n \in 0 .. capacity
  PROVE  /\ Messages(b, r * MsgSize, n) \in Seq(Content)
         /\ Len(Messages(b, r * MsgSize, n)) = n
         /\ \A i \in 1 .. n :
              Messages(b, r * MsgSize, n)[i] = b[Wrap(r + (i - 1)) * MsgSize]
<1> DEFINE f == Messages(b, r * MsgSize, n)
<1>0. capacity \in Nat \ {0} /\ MsgSize \in Nat \ {0} /\ n \in Nat /\ r \in Nat
  BY Capacity, MailboxAssumption, SMTT(20)
<1>1. ASSUME NEW i \in 1 .. n
      PROVE  f[i] = b[Wrap(r + (i - 1)) * MsgSize] /\ f[i] \in Content
  <2>1. r * MsgSize + (i - 1) * MsgSize = (r + (i - 1)) * MsgSize
    BY <1>0, Times, SMTT(20)
  <2>2. r + (i - 1) \in 0 .. capacity + capacity - 1
    BY <1>0, SMTT(20)
  <2>3. f[i] = b[((r + (i - 1)) * MsgSize) % (capacity * MsgSize)]
    BY <2>1 DEF Messages
  <2>4. f[i] = b[Wrap(r + (i - 1)) * MsgSize]
    BY <2>2, <2>3, PlaceMod
  <2>5. Wrap(r + (i - 1)) * MsgSize \in 0 .. BufSize - MsgSize
    BY <2>2, WrapType, Places
  <2> QED
    BY <2>4, <2>5
<1>2. f \in [1 .. n -> Content]
  BY <1>1 DEF Messages
<1>3. f \in Seq(Content) /\ Len(f) = n
  BY <1>0, <1>2, SMTT(20)
<1> QED
  BY <1>1, <1>3

\* Receiving takes the first message of the queue.
LEMMA ReceiveRefines ==
  ASSUME TypeOK, NEW r \in 0 .. capacity - 1, RingAt(r), NEW t \in Task, ReceiveStep(t)
  PROVE  Ring!Receive(t)
<1>0. /\ capacity \in Nat \ {0} /\ size \in 1 .. capacity /\ size \in 0 .. capacity
      /\ buf \in [0 .. BufSize - MsgSize -> Content]
      /\ size - 1 \in 0 .. capacity
  BY Capacity, SMTT(20) DEF TypeOK, ReceiveStep, Content
<1>1. /\ fifo = Messages(buf, r * MsgSize, size)
      /\ fifo' = Messages(buf, Wrap(r + 1) * MsgSize, size - 1)
  <2>1. read_ptr' = Wrap(r + 1) * MsgSize
    BY AdvancePlace DEF RingAt, ReceiveStep
  <2> QED
    BY <2>1 DEF fifo, Messages, RingAt, ReceiveStep
<1>2. /\ fifo \in Seq(Content) /\ Len(fifo) = size
      /\ \A i \in 1 .. size : fifo[i] = buf[Wrap(r + (i - 1)) * MsgSize]
  BY <1>0, <1>1, MessagesAt
<1>3. Wrap(r + 1) \in 0 .. capacity - 1
  BY <1>0, SMTT(20) DEF Wrap
<1>4. /\ fifo' \in Seq(Content) /\ Len(fifo') = size - 1
      /\ \A i \in 1 .. size - 1 : fifo'[i] = buf[Wrap(Wrap(r + 1) + (i - 1)) * MsgSize]
  BY <1>0, <1>1, <1>3, MessagesAt
<1>5. fifo # <<>>
  BY <1>0, <1>2, EmptySeq, SMTT(20)
<1>6. /\ Tail(fifo) \in Seq(Content) /\ Len(Tail(fifo)) = size - 1
      /\ \A i \in 1 .. size - 1 : Tail(fifo)[i] = fifo[i + 1]
  BY <1>2, <1>5, HeadTailProperties
<1>7. ASSUME NEW i \in 1 .. size - 1
      PROVE  fifo'[i] = Tail(fifo)[i]
  <2>1. Wrap(Wrap(r + 1) + (i - 1)) = Wrap(r + ((i + 1) - 1))
    BY <1>0, SMTT(20) DEF Wrap
  <2>2. i + 1 \in 1 .. size
    BY <1>0, SMTT(20)
  <2> QED
    BY <1>2, <1>4, <1>6, <2>1, <2>2
<1>8. fifo' = Tail(fifo)
  BY <1>4, <1>6, <1>7, SeqEqual
<1>9. Head(fifo) = buf[read_ptr]
  <2>1. Head(fifo) = fifo[1] /\ 1 \in 1 .. size
    BY <1>0, <1>2, <1>5, SMTT(20)
  <2>2. Wrap(r + (1 - 1)) = r
    BY <1>0, SMTT(20) DEF Wrap
  <2> QED
    BY <1>2, <2>1, <2>2 DEF RingAt
<1> QED
  BY <1>5, <1>8, <1>9 DEF Ring!Receive, ReceiveStep

\* Sending adds the message to the end of the queue.
LEMMA SendRefines ==
  ASSUME TypeOK, NEW r \in 0 .. capacity - 1, RingAt(r), NEW m \in Message, SendStep(m)
  PROVE  Ring!Send(m)
<1>0. /\ capacity \in Nat \ {0} /\ size \in 0 .. capacity - 1
      /\ buf \in [0 .. BufSize - MsgSize -> Content] /\ m \in Content
      /\ size + 1 \in 0 .. capacity /\ size \in 0 .. capacity
  BY Capacity, SMTT(20) DEF TypeOK, SendStep, Content
<1>1. /\ fifo = Messages(buf, r * MsgSize, size)
      /\ fifo' = Messages(buf', r * MsgSize, size + 1)
  BY DEF fifo, Messages, RingAt, SendStep
<1>2. /\ fifo \in Seq(Content) /\ Len(fifo) = size
      /\ \A i \in 1 .. size : fifo[i] = buf[Wrap(r + (i - 1)) * MsgSize]
  BY <1>0, <1>1, MessagesAt
<1>3. buf' \in [0 .. BufSize - MsgSize -> Content]
  BY <1>0 DEF SendStep
<1>4. /\ fifo' \in Seq(Content) /\ Len(fifo') = size + 1
      /\ \A i \in 1 .. size + 1 : fifo'[i] = buf'[Wrap(r + (i - 1)) * MsgSize]
  BY <1>0, <1>1, <1>3, MessagesAt
<1>5. /\ Append(fifo, m) \in Seq(Content) /\ Len(Append(fifo, m)) = size + 1
      /\ \A i \in 1 .. size : Append(fifo, m)[i] = fifo[i]
      /\ Append(fifo, m)[size + 1] = m
  BY <1>0, <1>2, AppendProperties, SMTT(20)
<1>6. Wrap(r + size) \in 0 .. capacity - 1 /\ write_ptr = Wrap(r + size) * MsgSize
  BY <1>0, SMTT(20) DEF Wrap, RingAt
<1>7. ASSUME NEW i \in 1 .. size + 1
      PROVE  fifo'[i] = Append(fifo, m)[i]
  <2>1. CASE i = size + 1
    <3>1. r + (i - 1) = r + size
      BY <1>0, <2>1, SMTT(20)
    <3>2. fifo'[i] = buf'[Wrap(r + size) * MsgSize]
      BY <1>4, <3>1
    <3>3. Wrap(r + size) * MsgSize \in 0 .. BufSize - MsgSize
      BY <1>6, Places
    <3> QED
      BY <1>0, <1>5, <1>6, <2>1, <3>2, <3>3 DEF SendStep
  <2>2. CASE i # size + 1
    <3>1. i \in 1 .. size
      BY <1>0, <2>2, SMTT(20)
    <3>2. Wrap(r + (i - 1)) # Wrap(r + size) /\ Wrap(r + (i - 1)) \in 0 .. capacity - 1
      BY <1>0, <3>1, SMTT(20) DEF Wrap
    <3>3. /\ Wrap(r + (i - 1)) * MsgSize # write_ptr
          /\ Wrap(r + (i - 1)) * MsgSize \in 0 .. BufSize - MsgSize
      BY <1>6, <3>2, Places
    <3>4. buf'[Wrap(r + (i - 1)) * MsgSize] = buf[Wrap(r + (i - 1)) * MsgSize]
      BY <1>0, <3>3 DEF SendStep
    <3> QED
      BY <1>2, <1>4, <1>5, <3>1, <3>4
  <2> QED
    BY <2>1, <2>2
<1>8. fifo' = Append(fifo, m)
  BY <1>4, <1>5, <1>7, SeqEqual
<1> QED
  BY <1>0, <1>2, <1>8, SMTT(20) DEF Ring!Send, SendStep

\* Every step of the mailbox is one of the queue or is not seen.
LEMMA NextRefines ==
  ASSUME TypeOK, CallOK, RingOK, [Next]_vars
  PROVE  [Ring!Next]_(Ring!vars)
<1>1. PICK r \in 0 .. capacity - 1 : RingAt(r)
  BY DEF RingOK
<1>2. ASSUME NEW t \in Task, ReceiveStep(t)
      PROVE  Ring!Next
  BY <1>1, <1>2, ReceiveRefines DEF Ring!Next
<1>3. ASSUME NEW m \in Message, SendStep(m)
      PROVE  Ring!Next
  BY <1>1, <1>3, SendRefines DEF Ring!Next
<1>4. CASE CreateStep
  <2>1. fifo' = <<>>
    BY <1>4 DEF fifo, CreateStep
  <2> QED
    BY <1>4, <2>1 DEF CreateStep, Ring!Next, Ring!Reset
<1>5. CASE UNCHANGED <<boxVars, got>>
  BY <1>5 DEF boxVars, fifo, Ring!vars
<1> QED
  BY <1>2, <1>3, <1>4, <1>5, RingSteps

----------------------------------------------------------------------------
(* No wake-up is lost. *)

\* The variables of the sleep keep their types.
SleepType ==
  /\ status \in [Task -> How \cup {"awake", "woken"}]
  /\ on \in [Task -> WaitQueue \cup {Null}]
  /\ sleep_result \in [Task -> {0, -EINTR, -EINVAL, -ETIMEDOUT}]
  /\ timers \subseteq Task
  /\ valid \in BOOLEAN
  /\ call \in [Task -> [msg : Message \cup {Null}, how : How \cup {"none"},
                        timed : BOOLEAN]]

\* The types of the tasks and of the mailbox.
LEMMA TypeParts == TypeOK <=> SleepType /\ BoxType
BY DEF TypeOK, SleepType, BoxType

\* The tasks that are on their way to what the queue q waits for.
Coming(q) == Cardinality(Woken(q, 0))

\* The woken tasks are finitely many.
LEMMA ComingType ==
  ASSUME NEW q
  PROVE  /\ IsFiniteSet(Woken(q, 0)) /\ Coming(q) \in Nat
         /\ IsFiniteSet(Woken(q, 0)') /\ Coming(q)' \in Nat
<1>1. Woken(q, 0) \subseteq Task /\ Woken(q, 0)' \subseteq Task
  BY DEF Woken
<1> QED
  BY <1>1, SleepAssumption, FS_Subset, FS_CardinalityType DEF Coming

\* The two wait queues differ.
LEMMA Queues ==
  receivers \in WaitQueue /\ senders \in WaitQueue /\ receivers # senders
  /\ receivers # Null /\ senders # Null
BY SleepAssumption, MailboxAssumption

\* A task has got what it came for, and tells one of the other queue of it.
LEMMA PassOn ==
  ASSUME SleepType, CallOK, NEW t \in Task, NEW p \in WaitQueue, NEW q \in WaitQueue, p # q,
         status[t] \notin How, status[t] = "woken" => on[t] = p /\ sleep_result[t] = 0,
         AwakeAndWakeupOne(t, q, 0)
  PROVE  /\ Sleepers(p)' = Sleepers(p)
         /\ Coming(p)' \in {Coming(p), Coming(p) - 1}
         /\ Sleepers(q)' # {} => Sleepers(q) # {} /\ Coming(q)' = Coming(q) + 1
<1>1. PICK ts \in IF Sleepers(q) = {} THEN {{}} ELSE {{u} : u \in Sleepers(q)} :
        /\ status' = [u \in Task |-> IF u \in ts THEN "woken"
                                     ELSE IF u = t THEN "awake" ELSE status[u]]
        /\ sleep_result' = [u \in Task |-> IF u \in ts THEN 0
                                           ELSE IF u = t THEN 0 ELSE sleep_result[u]]
        /\ on' = [on EXCEPT ![t] = Null]
  BY DEF AwakeAndWakeupOne
<1>2. ts \subseteq Sleepers(q) /\ t \notin ts /\ ts \cap Sleepers(p) = {}
  BY <1>1 DEF Sleepers
<1>3. Null \notin WaitQueue
  BY SleepAssumption
<1>4. Sleepers(p)' = Sleepers(p)
  BY <1>1, <1>2, <1>3 DEF Sleepers, SleepType, How
<1>5. Woken(p, 0)' = Woken(p, 0) \ {t}
  BY <1>1, <1>2, <1>3 DEF Woken, Sleepers, SleepType, How
<1>6. Coming(p)' \in {Coming(p), Coming(p) - 1}
  <2>1. CASE t \in Woken(p, 0)
    BY <1>5, <2>1, ComingType, FS_RemoveElement DEF Coming
  <2>2. CASE t \notin Woken(p, 0)
    <3>1. Woken(p, 0)' = Woken(p, 0)
      BY <1>5, <2>2
    <3> QED
      BY <3>1 DEF Coming
  <2> QED
    BY <2>1, <2>2
<1>7. CASE Sleepers(q) = {}
  <2>1. Sleepers(q)' = {}
    BY <1>1, <1>3, <1>7 DEF Sleepers, SleepType, How
  <2> QED
    BY <1>4, <1>6, <2>1
<1>8. CASE Sleepers(q) # {}
  <2>1. PICK u \in Sleepers(q) : ts = {u}
    BY <1>1, <1>8
  <2>2. Woken(q, 0)' = Woken(q, 0) \cup {u}
    BY <1>1, <1>2, <1>3, <2>1 DEF Woken, Sleepers, SleepType, How
  <2>3. u \notin Woken(q, 0)
    BY DEF Woken, Sleepers, How
  <2>4. Coming(q)' = Coming(q) + 1
    BY <2>2, <2>3, ComingType, FS_AddElement DEF Coming
  <2> QED
    BY <1>4, <1>6, <1>8, <2>4
<1> QED
  BY <1>7, <1>8

\* Such a step keeps where tasks stand in line with their calls.
LEMMA PassOnOK ==
  ASSUME SleepType, CallOK, valid, NEW t \in Task, NEW q \in WaitQueue,
         status[t] \notin How, AwakeAndWakeupOne(t, q, 0),
         call' = [call EXCEPT ![t] = NoCall] \/ UNCHANGED call, UNCHANGED valid
  PROVE  SleepType' /\ CallOK'
<1>1. PICK ts \in IF Sleepers(q) = {} THEN {{}} ELSE {{u} : u \in Sleepers(q)} :
        /\ status' = [u \in Task |-> IF u \in ts THEN "woken"
                                     ELSE IF u = t THEN "awake" ELSE status[u]]
        /\ sleep_result' = [u \in Task |-> IF u \in ts THEN 0
                                           ELSE IF u = t THEN 0 ELSE sleep_result[u]]
        /\ on' = [on EXCEPT ![t] = Null]
        /\ timers' = timers \ {t}
  BY DEF AwakeAndWakeupOne
<1>2. ts \subseteq Sleepers(q) /\ t \notin ts
  BY <1>1, SMTT(20) DEF Sleepers
<1>3. call' \in [Task -> [msg : Message \cup {Null}, how : How \cup {"none"},
                          timed : BOOLEAN]]
  <2>1. NoCall \in [msg : Message \cup {Null}, how : How \cup {"none"}, timed : BOOLEAN]
    BY DEF NoCall
  <2> QED
    BY <2>1 DEF SleepType
<1>4. SleepType'
  BY <1>1, <1>3 DEF SleepType
<1>5. \A u \in Task : u # t => call'[u] = call[u]
  BY DEF SleepType
<1>6. ASSUME NEW u \in Task
      PROVE  /\ status'[u] # "awake" => on'[u] \in WaitQueue /\ call'[u].how \in How
             /\ status'[u] # "awake" /\ on'[u] = senders => call'[u].msg \in Message
             /\ status'[u] = "awake" => on'[u] = Null
             /\ status'[u] \in How => sleep_result'[u] = 0
  <2>1. CASE u = t
    BY <1>1, <1>2, <2>1 DEF SleepType, How
  <2>2. CASE u # t
    BY <1>1, <1>2, <1>5, <2>2 DEF SleepType, CallOK, Sleepers, How
  <2> QED
    BY <2>1, <2>2
<1>7. CallOK'
  BY <1>6 DEF CallOK
<1> QED
  BY <1>4, <1>7

\* What a pass of a call leaves of the invariant's parts about sleep.
WaitOK == SleepType /\ CallOK /\ NoLostWakeup

\* A task that may look at the mailbox: it starts a call, or its sleep on p ended well.
MayPass(t, p) ==
  status[t] \notin How /\ (status[t] = "woken" => on[t] = p /\ sleep_result[t] = 0)

\* Receiving makes room, and wakes a sender for it.
LEMMA ReceiveWaitOK ==
  ASSUME TypeOK, CallOK, NoLostWakeup, valid, UNCHANGED valid,
         NEW t \in Task, MayPass(t, receivers), k_mailbox_try_receive_locked(t),
         EndCall(t) \/ UNCHANGED call
  PROVE  WaitOK'
<1>0. SleepType /\ size \in 0 .. capacity /\ capacity \in Nat
  BY TypeParts, Capacity DEF BoxType
<1>1. AwakeAndWakeupOne(t, senders, 0) /\ size' = size - 1 /\ size > 0
  BY DEF k_mailbox_try_receive_locked
<1>2. SleepType' /\ CallOK'
  BY <1>0, <1>1, Queues, PassOnOK DEF MayPass, EndCall
<1>3. /\ Sleepers(receivers)' = Sleepers(receivers)
      /\ Coming(receivers)' \in {Coming(receivers), Coming(receivers) - 1}
      /\ Sleepers(senders)' # {} =>
           Sleepers(senders) # {} /\ Coming(senders)' = Coming(senders) + 1
  BY <1>0, <1>1, Queues, PassOn DEF MayPass
<1>4. /\ Sleepers(receivers) # {} => size <= Coming(receivers)
      /\ Sleepers(senders) # {} => capacity - size <= Coming(senders)
  BY DEF NoLostWakeup, Coming
<1>5. /\ Sleepers(receivers)' # {} => size' <= Coming(receivers)'
      /\ Sleepers(senders)' # {} => capacity - size' <= Coming(senders)'
  BY <1>0, <1>1, <1>3, <1>4, ComingType
<1>6. NoLostWakeup'
  BY <1>5 DEF NoLostWakeup, Coming, capacity
<1> QED
  BY <1>2, <1>6 DEF WaitOK

\* Sending adds a message, and wakes a receiver for it.
LEMMA SendWaitOK ==
  ASSUME TypeOK, CallOK, NoLostWakeup, valid, UNCHANGED valid,
         NEW t \in Task, NEW m, MayPass(t, senders), k_mailbox_try_send_locked(t, m),
         EndCall(t) \/ UNCHANGED call
  PROVE  WaitOK'
<1>0. SleepType /\ size \in 0 .. capacity /\ capacity \in Nat
  BY TypeParts, Capacity DEF BoxType
<1>1. AwakeAndWakeupOne(t, receivers, 0) /\ size' = size + 1 /\ size # capacity
  BY DEF k_mailbox_try_send_locked
<1>2. SleepType' /\ CallOK'
  BY <1>0, <1>1, Queues, PassOnOK DEF MayPass, EndCall
<1>3. /\ Sleepers(senders)' = Sleepers(senders)
      /\ Coming(senders)' \in {Coming(senders), Coming(senders) - 1}
      /\ Sleepers(receivers)' # {} =>
           Sleepers(receivers) # {} /\ Coming(receivers)' = Coming(receivers) + 1
  BY <1>0, <1>1, Queues, PassOn DEF MayPass
<1>4. /\ Sleepers(receivers) # {} => size <= Coming(receivers)
      /\ Sleepers(senders) # {} => capacity - size <= Coming(senders)
  BY DEF NoLostWakeup, Coming
<1>5. /\ Sleepers(receivers)' # {} => size' <= Coming(receivers)'
      /\ Sleepers(senders)' # {} => capacity - size' <= Coming(senders)'
  BY <1>0, <1>1, <1>3, <1>4, ComingType
<1>6. NoLostWakeup'
  BY <1>5 DEF NoLostWakeup, Coming, capacity
<1> QED
  BY <1>2, <1>6 DEF WaitOK

\* A task goes to sleep on p, where there is nothing to get; those of the other
\* queue are as they were.
LEMMA BlockWaitOK ==
  ASSUME TypeOK, CallOK, NoLostWakeup, valid, UNCHANGED valid,
         NEW t \in Task, NEW p \in WaitQueue, MayPass(t, p),
         NEW args \in [msg : Message \cup {Null}, how : How, timed : BOOLEAN],
         p = senders => args.msg \in Message,
         p = receivers => size = 0, p = senders => size = capacity,
         Block(t, p, args)
  PROVE  WaitOK'
<1>0. SleepType /\ capacity \in Nat /\ size \in Nat
  BY TypeParts, Capacity, SMTT(20) DEF BoxType
<1>1. /\ Sleep(t, p, args.how, args.timed)
      /\ call' = [call EXCEPT ![t] = args] /\ size' = size
  BY DEF Block, boxVars
<1>2. SleepType'
  BY <1>0, <1>1 DEF SleepType, Sleep
<1>3. CallOK'
  BY <1>0, <1>1 DEF SleepType, CallOK, Sleep, How
<1>4. ASSUME NEW q \in WaitQueue, q # p
      PROVE  Sleepers(q)' = Sleepers(q) /\ Coming(q)' = Coming(q)
  <2>1. t \notin Sleepers(q) /\ t \notin Woken(q, 0)
    BY <1>4 DEF MayPass, Sleepers, Woken
  <2>2. Sleepers(q)' = Sleepers(q)
    BY <1>0, <1>1, <1>4, <2>1 DEF Sleepers, SleepType, Sleep
  <2>3. Woken(q, 0)' = Woken(q, 0)
    BY <1>0, <1>1, <1>4, <2>1 DEF Woken, SleepType, Sleep
  <2> QED
    BY <2>2, <2>3 DEF Coming
<1>5. CASE p = receivers
  <2>1. size' <= Coming(receivers)'
    BY <1>0, <1>1, <1>5, ComingType
  <2>2. Sleepers(senders)' = Sleepers(senders) /\ Coming(senders)' = Coming(senders)
    BY <1>4, <1>5, Queues
  <2>3. NoLostWakeup'
    BY <1>1, <2>1, <2>2 DEF NoLostWakeup, Coming, capacity
  <2> QED
    BY <1>2, <1>3, <2>3 DEF WaitOK
<1>6. CASE p = senders
  <2>1. capacity - size' <= Coming(senders)'
    BY <1>0, <1>1, <1>6, ComingType
  <2>2. Sleepers(receivers)' = Sleepers(receivers) /\ Coming(receivers)' = Coming(receivers)
    BY <1>4, <1>6, Queues
  <2>3. NoLostWakeup'
    BY <1>1, <2>1, <2>2 DEF NoLostWakeup, Coming, capacity
  <2> QED
    BY <1>2, <1>3, <2>3 DEF WaitOK
<1> QED
  BY <1>5, <1>6, MailboxAssumption

\* A pass of the loop in k_mailbox_timed_receive.
LEMMA TimedReceiveWaitOK ==
  ASSUME TypeOK, CallOK, NoLostWakeup, valid, UNCHANGED valid,
         NEW t \in Task, MayPass(t, receivers),
         NEW args \in [msg : Message \cup {Null}, how : How, timed : BOOLEAN],
         TimedReceive(t, args)
  PROVE  WaitOK'
<1>1. CASE k_mailbox_try_receive_locked(t) /\ EndCall(t)
  BY <1>1, ReceiveWaitOK
<1>2. CASE size = 0 /\ Block(t, receivers, args)
  BY <1>2, Queues, BlockWaitOK
<1> QED
  BY <1>1, <1>2 DEF TimedReceive

\* A pass of the loop in k_mailbox_timed_send.
LEMMA TimedSendWaitOK ==
  ASSUME TypeOK, CallOK, NoLostWakeup, valid, UNCHANGED valid,
         NEW t \in Task, MayPass(t, senders),
         NEW args \in [msg : Message, how : How, timed : BOOLEAN],
         TimedSend(t, args)
  PROVE  WaitOK'
<1>1. CASE k_mailbox_try_send_locked(t, args.msg) /\ EndCall(t)
  BY <1>1, SendWaitOK
<1>2. CASE size = capacity /\ Block(t, senders, args)
  <2>1. args \in [msg : Message \cup {Null}, how : How, timed : BOOLEAN] /\ args.msg \in Message
    OBVIOUS
  <2> QED
    BY <1>2, <2>1, Queues, BlockWaitOK
<1> QED
  BY <1>1, <1>2 DEF TimedSend

\* A sleep ends with an error, or the task that it ended for returns.
LEMMA ErrorWaitOK ==
  ASSUME TypeOK, CallOK, NoLostWakeup, NEW t \in Task, UNCHANGED <<valid, size>>,
         \/ (Timeout(t) \/ Interrupt(t)) /\ UNCHANGED call
         \/ status[t] = "woken" /\ sleep_result[t] < 0 /\ Awake(t) /\ EndCall(t)
  PROVE  WaitOK'
<1>0. SleepType
  BY TypeParts
<1>1. SleepType'
  <2>1. CASE (Timeout(t) \/ Interrupt(t)) /\ UNCHANGED call
    BY <1>0, <2>1, SMTT(20) DEF SleepType, Timeout, Interrupt, Resume
  <2>2. CASE Awake(t) /\ EndCall(t)
    <3>1. NoCall \in [msg : Message \cup {Null}, how : How \cup {"none"}, timed : BOOLEAN]
      BY DEF NoCall
    <3> QED
      BY <1>0, <2>2, <3>1 DEF SleepType, Awake, EndCall
  <2> QED
    BY <2>1, <2>2
<1>2. CallOK'
  BY <1>0, SMTT(20) DEF SleepType, CallOK, Timeout, Interrupt, Resume, Awake, EndCall, NoCall, How,
              EINTR, ETIMEDOUT
<1>3. ASSUME NEW q \in WaitQueue
      PROVE  Sleepers(q)' \subseteq Sleepers(q) /\ Woken(q, 0)' = Woken(q, 0)
  <2>1. CASE Timeout(t) \/ Interrupt(t)
    BY <1>0, <2>1, SMTT(20) DEF SleepType, Sleepers, Woken, Timeout, Interrupt, Resume, How,
                      EINTR, ETIMEDOUT
  <2>2. CASE status[t] = "woken" /\ sleep_result[t] < 0 /\ Awake(t)
    BY <1>0, <2>2, SMTT(20) DEF SleepType, Sleepers, Woken, Awake, How
  <2> QED
    BY <2>1, <2>2
<1>4. NoLostWakeup'
  BY <1>3, Queues DEF NoLostWakeup, capacity
<1> QED
  BY <1>1, <1>2, <1>4 DEF WaitOK

\* Destroying leaves nobody asleep.
LEMMA DestroyWaitOK ==
  ASSUME TypeOK, CallOK, k_mailbox_destroy
  PROVE  WaitOK'
<1>0. /\ \A t \in Task : status[t] # "woken"
      /\ Resume(Sleepers(receivers) \cup Sleepers(senders), -EINVAL)
      /\ valid' = FALSE /\ UNCHANGED call
  BY DEF k_mailbox_destroy
<1>1. SleepType /\ WaitQueue = {receivers, senders}
  BY TypeParts, MailboxAssumption
<1>2. SleepType'
  BY <1>0, <1>1 DEF SleepType, Resume
<1>3. CallOK'
  BY <1>0, <1>1, SMTT(20) DEF SleepType, CallOK, Resume, Sleepers, How, EINVAL
<1>4. Sleepers(receivers)' = {} /\ Sleepers(senders)' = {}
  BY <1>0, <1>1 DEF SleepType, Resume, Sleepers, How
<1> QED
  BY <1>2, <1>3, <1>4 DEF WaitOK, NoLostWakeup

\* A mailbox that is created has no sleepers.
LEMMA CreateWaitOK ==
  ASSUME TypeOK, CallOK, k_mailbox_create
  PROVE  WaitOK'
<1> USE DEF k_mailbox_create, sleepVars
<1>1. SleepType'
  BY TypeParts DEF SleepType
<1>2. CallOK'
  BY DEF CallOK, How
<1>3. Sleepers(receivers)' = {} /\ Sleepers(senders)' = {}
  BY DEF Sleepers, How
<1> QED
  BY <1>1, <1>2, <1>3 DEF WaitOK, NoLostWakeup

\* A woken task fails with its result or makes another pass of its loop.
LEMMA AwakeWaitOK ==
  ASSUME TypeOK, CallOK, NoLostWakeup, NEW t \in Task, k_mailbox_awake(t)
  PROVE  WaitOK'
<1>0. status[t] = "woken" /\ UNCHANGED valid /\ SleepType
  BY TypeParts DEF k_mailbox_awake
<1>1. CASE sleep_result[t] < 0
  <2>1. Awake(t) /\ EndCall(t) /\ UNCHANGED size
    BY <1>1 DEF k_mailbox_awake, boxVars
  <2> QED
    BY <1>0, <1>1, <2>1, ErrorWaitOK
<1>2. CASE ~ (sleep_result[t] < 0)
  <2>1. sleep_result[t] = 0 /\ valid /\ on[t] \in WaitQueue
    BY <1>0, <1>2, SMTT(20) DEF SleepType, CallOK, EINTR, EINVAL, ETIMEDOUT
  <2>2. /\ call[t] \in [msg : Message \cup {Null}, how : How, timed : BOOLEAN]
        /\ on[t] = senders => call[t] \in [msg : Message, how : How, timed : BOOLEAN]
    BY <1>0 DEF SleepType, CallOK
  <2>3. MayPass(t, on[t])
    BY <1>0, <2>1 DEF MayPass, How
  <2>4. CASE on[t] = receivers
    <3>1. TimedReceive(t, call[t])
      BY <1>2, <2>4 DEF k_mailbox_awake
    <3> QED
      BY <1>0, <2>1, <2>2, <2>3, <2>4, <3>1, TimedReceiveWaitOK
  <2>5. CASE on[t] = senders
    <3>1. TimedSend(t, call[t])
      BY <1>2, <2>5, Queues DEF k_mailbox_awake
    <3> QED
      BY <1>0, <2>1, <2>2, <2>3, <2>5, <3>1, TimedSendWaitOK
  <2> QED
    BY <2>1, <2>4, <2>5, MailboxAssumption
<1> QED
  BY <1>1, <1>2

\* Every step keeps sleeping tasks and tasks on the way in balance.
LEMMA NextWaitOK ==
  ASSUME TypeOK, CallOK, NoLostWakeup, [Next]_vars
  PROVE  WaitOK'
<1>1. CASE k_mailbox_destroy
  BY <1>1, DestroyWaitOK
<1>2. CASE k_mailbox_create
  BY <1>2, CreateWaitOK
<1>3. ASSUME NEW t \in Task, k_mailbox_try_receive(t)
      PROVE  WaitOK'
  BY <1>3, ReceiveWaitOK DEF k_mailbox_try_receive, Free, MayPass, How
<1>4. ASSUME NEW t \in Task, NEW m \in Message, k_mailbox_try_send(t, m)
      PROVE  WaitOK'
  BY <1>4, SendWaitOK DEF k_mailbox_try_send, Free, MayPass, How
<1>5. ASSUME NEW t \in Task, NEW how \in How, NEW timed \in BOOLEAN,
             k_mailbox_timed_receive(t, how, timed)
      PROVE  WaitOK'
  <2>1. /\ valid /\ MayPass(t, receivers) /\ UNCHANGED valid
        /\ TimedReceive(t, [msg |-> Null, how |-> how, timed |-> timed])
    BY <1>5 DEF k_mailbox_timed_receive, Free, MayPass, How
  <2>2. [msg |-> Null, how |-> how, timed |-> timed]
          \in [msg : Message \cup {Null}, how : How, timed : BOOLEAN]
    OBVIOUS
  <2> QED
    BY <2>1, <2>2, TimedReceiveWaitOK
<1>6. ASSUME NEW t \in Task, NEW how \in How, NEW timed \in BOOLEAN, NEW m \in Message,
             k_mailbox_timed_send(t, m, how, timed)
      PROVE  WaitOK'
  <2>1. /\ valid /\ MayPass(t, senders) /\ UNCHANGED valid
        /\ TimedSend(t, [msg |-> m, how |-> how, timed |-> timed])
    BY <1>6 DEF k_mailbox_timed_send, Free, MayPass, How
  <2>2. [msg |-> m, how |-> how, timed |-> timed]
          \in [msg : Message, how : How, timed : BOOLEAN]
    OBVIOUS
  <2> QED
    BY <2>1, <2>2, TimedSendWaitOK
<1>7. ASSUME NEW t \in Task, k_mailbox_awake(t)
      PROVE  WaitOK'
  BY <1>7, AwakeWaitOK
<1>8. ASSUME NEW t \in Task, Timeout(t) \/ Interrupt(t), UNCHANGED <<boxVars, valid, call, got>>
      PROVE  WaitOK'
  BY <1>8, ErrorWaitOK DEF boxVars
<1>9. CASE UNCHANGED vars
  <2>1. SleepType' /\ CallOK'
    BY <1>9, TypeParts DEF SleepType, CallOK, vars, sleepVars
  <2>2. NoLostWakeup'
    BY <1>9 DEF NoLostWakeup, Sleepers, Woken, capacity, vars, sleepVars, boxVars
  <2> QED
    BY <2>1, <2>2 DEF WaitOK
<1> QED
  BY <1>1, <1>2, <1>3, <1>4, <1>5, <1>6, <1>7, <1>8, <1>9 DEF Next

----------------------------------------------------------------------------

\* The invariant holds at first.
LEMMA InitIInv == Init => IInv
<1> SUFFICES ASSUME Init PROVE IInv
  OBVIOUS
<1> USE DEF Init, SleepInit
<1>1. 0 \in 0 .. BufSize - MsgSize /\ 0 \in 0 .. capacity /\ 0 \in 0 .. capacity - 1
  BY Capacity, MailboxAssumption
<1>2. TypeOK
  BY <1>1 DEF TypeOK, NoCall
<1>3. CallOK
  BY DEF CallOK, How
<1>4. RingAt(0)
  BY Capacity, MailboxAssumption DEF RingAt, Wrap
<1>5. Sleepers(receivers) = {} /\ Sleepers(senders) = {}
  BY DEF Sleepers, How
<1> QED
  BY <1>1, <1>2, <1>3, <1>4, <1>5 DEF IInv, RingOK, NoLostWakeup

\* Every step keeps the invariant.
LEMMA NextIInv ==
  ASSUME IInv, [Next]_vars
  PROVE  IInv'
<1>1. SleepType' /\ CallOK' /\ NoLostWakeup'
  BY NextWaitOK DEF IInv, WaitOK
<1>2. RingOK' /\ BoxType'
  BY RingStays DEF IInv
<1>3. TypeOK'
  BY <1>1, <1>2 DEF TypeOK, SleepType, BoxType
<1> QED
  BY <1>1, <1>2, <1>3 DEF IInv

\* The inductive invariant of the mailbox: the pointers of its ring stay at
\* places where a message fits, as far apart as its size says.
THEOREM Invariant == Spec => []IInv
<1>1. Init => IInv
  BY InitIInv
<1>2. IInv /\ [Next]_vars => IInv'
  BY NextIInv
<1> QED
  BY <1>1, <1>2, PTL DEF Spec

\* No task sleeps on a mailbox for a message, or a free place, that nobody is on
\* the way to (mailbox.c:165, 263).
THEOREM WakeupIsNotLost == Spec => []NoLostWakeup
<1>1. IInv => NoLostWakeup
  BY DEF IInv
<1> QED
  BY <1>1, Invariant, PTL

\* The ring implements the bounded queue: every message is received once, in the
\* order in which they were sent, wherever the pointers wrap (mailbox.c:171, 269).
THEOREM MailboxIsFifo == Spec => DeliversInOrder
<1>1. Init => Ring!Init
  BY SMTT(20) DEF Init, Ring!Init, fifo
<1>2. IInv /\ [Next]_vars => [Ring!Next]_(Ring!vars)
  BY NextRefines DEF IInv
<1> QED
  BY <1>1, <1>2, Invariant, PTL DEF Spec, DeliversInOrder, Ring!Spec

============================================================================
