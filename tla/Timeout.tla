------------------------------ MODULE Timeout ------------------------------
(***************************************************************************)
(* Timeout queues (kernel/core/timeout.c): lists of entries ordered by the *)
(* time at which they expire, each with the number of ticks it expires     *)
(* after the one before it.                                                *)
(***************************************************************************)
EXTENDS Integers, SequencesExt

Entries(queue) == {queue[i].entry : i \in 1 .. Len(queue)}

Index(queue, entry) == CHOOSE i \in 1 .. Len(queue) : queue[i].entry = entry

\* The loop of _k_timeout_queue_add: entries that expire no later are passed,
\* and their ticks need not be waited for again.
Pass(at, other) ==
  IF at.found \/ other.remain > at.remain
  THEN [at EXCEPT !.found = TRUE]
  ELSE [index |-> at.index + 1, remain |-> at.remain - other.remain,
        found |-> FALSE]

Place(queue, delay) ==
  FoldLeft(Pass, [index |-> 1, remain |-> delay, found |-> FALSE], queue)

k_timeout_queue_add(queue, entry, delay) ==
  LET at   == Place(queue, delay)
      rest == IF at.found
              THEN [queue EXCEPT ![at.index].remain = @ - at.remain]
              ELSE queue
  IN InsertAt(rest, at.index, [entry |-> entry, remain |-> at.remain])

\* Mutant: the ticks of the entry removed are lost for those behind it.
k_timeout_queue_remove_lossy(queue, entry) ==
  RemoveAt(queue, Index(queue, entry))

\* The next entry takes over the ticks of the one removed.
k_timeout_queue_remove(queue, entry) ==
  LET i    == Index(queue, entry)
      rest == IF i < Len(queue)
              THEN [queue EXCEPT ![i + 1].remain = @ + queue[i].remain]
              ELSE queue
  IN RemoveAt(rest, i)

\* The number of ticks until the entry at position i expires.
Expires(queue, i) ==
  FoldLeft(LAMBDA sum, e : sum + e.remain, 0, SubSeq(queue, 1, i))

============================================================================
