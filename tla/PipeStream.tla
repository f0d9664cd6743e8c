----------------------------- MODULE PipeStream ----------------------------
(***************************************************************************)
(* What a pipe promises the processes that share it: a bounded stream of   *)
(* bytes.  What is written is read once and in order, a call returns the   *)
(* number of bytes it moved, and a read finds the end of the stream only   *)
(* when it is empty and nobody can write to it any more.                   *)
(***************************************************************************)
EXTENDS Integers, Sequences, FiniteSetsExt

CONSTANTS Process, Bound, None

VARIABLES
  stream,   \* the bytes written and not read
  readers,  \* the processes that hold the read end
  writers,  \* the processes that hold the write end
  io        \* the read or write each process waits for

vars == <<stream, readers, writers, io>>

Idle == [op |-> "idle"]

Init ==
  /\ stream = <<>>
  /\ readers = {} /\ writers = {}
  /\ io = [p \in Process |-> Idle]

Open(p) ==
  /\ readers = {} /\ writers = {} /\ stream = <<>>
  /\ readers' = {p} /\ writers' = {p}
  /\ UNCHANGED <<stream, io>>

\* A new process has the ends its parent has.
Share(p, child) ==
  /\ readers' = readers \cup (IF p \in readers THEN {child} ELSE {})
  /\ writers' = writers \cup (IF p \in writers THEN {child} ELSE {})
  /\ UNCHANGED <<stream, io>>

Leave(p) ==
  /\ io[p] = Idle
  /\ \/ readers' = readers \ {p} /\ UNCHANGED writers
     \/ writers' = writers \ {p} /\ UNCHANGED readers
  /\ UNCHANGED <<stream, io>>

\* The bytes nobody can read any more are dropped.
Discard ==
  /\ readers = {} /\ writers = {}
  /\ stream' = <<>>
  /\ UNCHANGED <<readers, writers, io>>

Begin(p) ==
  /\ io[p] = Idle
  /\ \/ p \in readers /\ io'[p].op = "read" /\ io'[p].data = <<>>
     \/ p \in writers /\ io'[p].op = "write" /\ io'[p].left = io'[p].data
  /\ io'[p].r = None
  /\ io' = [io EXCEPT ![p] = io'[p]]
  /\ UNCHANGED <<stream, readers, writers>>

Accept(p) ==
  /\ io[p].op = "write" /\ io[p].r = None
  /\ \E k \in 0 .. Len(io[p].left) :
       LET rest == SubSeq(io[p].left, k + 1, Len(io[p].left))
       IN /\ Len(stream) + k <= Bound
          /\ stream' = stream \o SubSeq(io[p].left, 1, k)
          /\ io' = [io EXCEPT ![p].left = rest,
                              ![p].r = IF rest = <<>> THEN Len(io[p].data) ELSE None]
  /\ UNCHANGED <<readers, writers>>

Deliver(p) ==
  /\ io[p].op = "read" /\ io[p].r = None
  /\ stream # <<>> \/ writers = {}
  /\ LET k == Min({Len(stream), io[p].n})
     IN /\ io' = [io EXCEPT ![p].data = SubSeq(stream, 1, k), ![p].r = k]
        /\ stream' = SubSeq(stream, k + 1, Len(stream))
  /\ UNCHANGED <<readers, writers>>

Return(p) ==
  /\ io[p] # Idle /\ io[p].r # None
  /\ io' = [io EXCEPT ![p] = Idle]
  /\ UNCHANGED <<stream, readers, writers>>

Next ==
  \/ Discard
  \/ \E p \in Process :
       \/ Open(p) \/ Leave(p) \/ Begin(p) \/ Accept(p) \/ Deliver(p) \/ Return(p)
       \/ \E child \in Process : Share(p, child)

Spec == Init /\ [][Next]_vars

============================================================================
