------------------------------ MODULE BufCache ------------------------------
(***************************************************************************)
(* The buffer cache (fs/buf.c) over the request queue of the SD card       *)
(* driver (drivers/sd/sd.c) and its interrupt task.                        *)
(*                                                                         *)
(* A section under buf_cache.lock, and one under the mutex of the driver,  *)
(* is a step.  A request is on the stack of the task that waits for it, so *)
(* the task stands for it.  A block is a number with its size and device;  *)
(* the blocks that ext2 asks for do not overlap.                           *)
(***************************************************************************)
EXTENDS Lists, FiniteSets

CONSTANTS
  Task,      \* the service tasks
  Block,
  Inside,    \* the pairs of a block and another that is read while it is held
  Buf,       \* as many as BUF_CACHE_MAX_SIZE
  Data,      \* what a block may hold
  Image,     \* what the blocks hold at first
  Written,   \* the blocks that tasks change
  Junk,      \* what new memory holds
  Null

\* The numberings of the blocks that grow from a block to those that are read
\* while it is held.
Orders == {o \in [Block -> 0 .. Cardinality(Block)] : \A p \in Inside : o[p[1]] < o[p[2]]}

ASSUME BufAssumption ==
  /\ IsFiniteSet(Task) /\ IsFiniteSet(Block)
  /\ Inside \subseteq Block \X Block /\ Orders # {}
  /\ Image \in [Block -> Data] /\ Written \subseteq Block
  /\ Junk \notin Data /\ Null \notin Task /\ Null \notin Block

VARIABLES
  list,      \* buf_cache.head
  buf,       \* struct Buf of those in the list
  held,      \* of each task: the buffers it has, the innermost last
  at,        \* of each task: where it is with the last of them
  queue,     \* sd->queue
  transfer,  \* what the card was last told to do
  disk

vars == <<list, buf, held, at, queue, transfer, disk>>

NoTransfer == [type |-> "none", block |-> Null]

NewBuf == [block |-> Null, ref |-> 0, valid |-> FALSE, dirty |-> FALSE,
           data |-> Junk, mutex |-> Null]

Init ==
  /\ list = <<>>
  /\ buf = [b \in Buf |-> NewBuf]
  /\ held = [t \in Task |-> <<>>]
  /\ at = [t \in Task |-> "run"]
  /\ queue = <<>>
  /\ transfer = NoTransfer
  /\ disk = Image

Mine(t) == held[t][Len(held[t])]

Others(t) == SubSeq(held[t], 1, Len(held[t]) - 1)

----------------------------------------------------------------------------
(* The driver. *)

\* The first request of the queue goes to the card.
sd_start_transfer(t, type) == [type |-> type, block |-> buf'[Mine(t)].block]

\* Mutant: every request goes to the card at once.
Start_always(t, type) == sd_start_transfer(t, type)

Start(t, type) == IF queue = <<>> THEN sd_start_transfer(t, type) ELSE transfer

\* buf_request and the part of sd_request up to the wait.
sd_request(t, type) ==
  /\ queue' = Append(queue, t)
  /\ transfer' = Start(t, type)
  /\ at' = [at EXCEPT ![t] = type]

buf_request_wakeup(t) == [at EXCEPT ![t] = IF @ = "write" THEN "written" ELSE "filled"]

\* Mutant: the first request stays the first and is started again.
sd_irq_task_again ==
  /\ transfer # NoTransfer
  /\ UNCHANGED vars

\* The card moves the data of the block it was told; the memory is that of the
\* first request.
sd_irq_task ==
  /\ transfer # NoTransfer
  /\ LET t == Head(queue)
         b == Mine(t)
     IN /\ queue' = Tail(queue)
        /\ IF at[t] = "write"
           THEN disk' = [disk EXCEPT ![transfer.block] = buf[b].data] /\ UNCHANGED buf
           ELSE buf' = [buf EXCEPT ![b].data = disk[transfer.block]] /\ UNCHANGED disk
        /\ transfer' = IF Tail(queue) = <<>> THEN NoTransfer
                       ELSE LET next == Head(Tail(queue))
                            IN [type |-> at[next], block |-> buf[Mine(next)].block]
        /\ at' = buf_request_wakeup(t)
  /\ UNCHANGED <<list, held>>

----------------------------------------------------------------------------
(* The cache. *)

\* A buffer that is in the list moves to its front.
buf_cache_insert(b) ==
  <<b>> \o RemoveAt(list, CHOOSE i \in DOMAIN list : list[i] = b)

\* Mutant: a buffer that is being filled is not found.
Found_valid(block) == {b \in Range(list) : buf[b].block = block /\ buf[b].valid}

Found(block) == {b \in Range(list) : buf[b].block = block}

\* The last buffer of the list that nobody has.
Unused(b) ==
  \E i \in DOMAIN list :
    /\ b = list[i] /\ buf[b].ref = 0
    /\ \A j \in DOMAIN list : j > i => buf[list[j]].ref # 0

buf_reuse(b, block) == [buf[b] EXCEPT !.block = block, !.valid = FALSE, !.dirty = FALSE]

Take(t, b, got) ==
  /\ buf' = [buf EXCEPT ![b] = [got EXCEPT !.ref = @ + 1]]
  /\ held' = [held EXCEPT ![t] = Append(@, b)]
  /\ at' = [at EXCEPT ![t] = "lock"]

\* With the cache full and no buffer unused the code goes on with a pointer
\* that was never set; the instances have a buffer for all that tasks hold.
buf_cache_get(t, block) ==
  /\ at[t] = "run"
  /\ held[t] # <<>> => <<buf[Mine(t)].block, block>> \in Inside
  /\ \/ \E b \in Found(block) :
          Take(t, b, buf[b]) /\ UNCHANGED list
     \/ /\ Found(block) = {}
        /\ Range(list) # Buf
        /\ LET b == CHOOSE b \in Buf : b \notin Range(list)
           IN Take(t, b, [NewBuf EXCEPT !.block = block]) /\ list' = <<b>> \o list
     \/ /\ Found(block) = {} /\ Range(list) = Buf
        /\ \E b \in Buf : Unused(b) /\ Take(t, b, buf_reuse(b, block)) /\ UNCHANGED list
  /\ UNCHANGED <<queue, transfer, disk>>

\* Mutant: the buffer counts as valid from when it is locked.
Locked_valid(t) == [buf EXCEPT ![Mine(t)].mutex = t, ![Mine(t)].valid = TRUE]

Locked(t) == [buf EXCEPT ![Mine(t)].mutex = t]

\* buf_read once it has the mutex, up to the wait if it needs the block.
buf_read(t) ==
  /\ at[t] = "lock"
  /\ buf[Mine(t)].mutex = Null
  /\ buf' = Locked(t)
  /\ IF buf[Mine(t)].valid
     THEN at' = [at EXCEPT ![t] = "run"] /\ UNCHANGED <<queue, transfer>>
     ELSE sd_request(t, "read")
  /\ UNCHANGED <<list, held, disk>>

buf_read_done(t) ==
  /\ at[t] = "filled"
  /\ buf' = [buf EXCEPT ![Mine(t)].valid = TRUE]
  /\ at' = [at EXCEPT ![t] = "run"]
  /\ UNCHANGED <<list, held, queue, transfer, disk>>

\* The task has changed the data.
buf_write(t, d) ==
  /\ at[t] = "run" /\ held[t] # <<>>
  /\ buf[Mine(t)].block \in Written
  /\ buf' = [buf EXCEPT ![Mine(t)].data = d, ![Mine(t)].dirty = TRUE]
  /\ sd_request(t, "write")
  /\ UNCHANGED <<list, held, disk>>

\* k_mutex_unlock in buf_release; the reference is given back later.
Unlocked(t) ==
  /\ buf' = [buf EXCEPT ![Mine(t)].dirty = FALSE, ![Mine(t)].mutex = Null]
  /\ at' = [at EXCEPT ![t] = "put"]
  /\ UNCHANGED <<list, held, queue, transfer, disk>>

buf_written(t) == at[t] = "written" /\ Unlocked(t)

buf_release(t) == at[t] = "run" /\ held[t] # <<>> /\ Unlocked(t)

\* Mutant: the reference is not given back.
Unref_leak(b) == buf[b].ref

Unref(b) == buf[b].ref - 1

buf_cache_put(t) ==
  /\ at[t] = "put"
  /\ LET b == Mine(t)
     IN /\ buf' = [buf EXCEPT ![b].ref = Unref(b)]
        /\ list' = IF Unref(b) = 0 THEN buf_cache_insert(b) ELSE list
  /\ held' = [held EXCEPT ![t] = Others(t)]
  /\ at' = [at EXCEPT ![t] = "run"]
  /\ UNCHANGED <<queue, transfer, disk>>

----------------------------------------------------------------------------

Cache(t) ==
  buf_read(t) \/ buf_read_done(t) \/ buf_written(t) \/ buf_cache_put(t)

FileSystem(t) ==
  \/ \E block \in Block : buf_cache_get(t, block)
  \/ \E d \in Data : buf_write(t, d)
  \/ buf_release(t)

Next == sd_irq_task \/ \E t \in Task : Cache(t) \/ FileSystem(t)

Spec == Init /\ [][Next]_vars

\* The card answers, and tasks that can run do.
FairSpec == Spec /\ WF_vars(sd_irq_task) /\ \A t \in Task : WF_vars(Cache(t))

----------------------------------------------------------------------------
(* Properties. *)

Buffer == [block : Block \cup {Null}, ref : Nat, valid : BOOLEAN, dirty : BOOLEAN,
           data : Data \cup {Junk}, mutex : Task \cup {Null}]

Place == {"run", "lock", "read", "filled", "write", "written", "put"}

\* The variables hold values of the types the code declares for them.
TypeOK ==
  /\ list \in Seq(Buf) /\ IsInjective(list)
  /\ buf \in [Buf -> Buffer]
  /\ held \in [Task -> Seq(Buf)]
  /\ at \in [Task -> Place]
  /\ queue \in Seq(Task) /\ IsInjective(queue)
  /\ disk \in [Block -> Data]

\* The count of references of a buffer is the number of tasks that have it, so
\* that a buffer is unused exactly when nobody has it (buf.c:168, 225, 285).
ReferencesAreCounted ==
  \A b \in Range(list) : buf[b].ref = Cardinality({t \in Task : b \in Range(held[t])})

\* A block is in one buffer at most, though tasks ask for it while others fill
\* or write its buffer (buf.c:163, 205).
OneBufferPerBlock ==
  \A b, c \in Range(list) : buf[b].block = buf[c].block => b = c

\* The card does what the first request in the queue is about, also when
\* requests arrive while it works (sd.c:100, 117, 152).
CardIsInStep ==
  transfer = IF queue = <<>> THEN NoTransfer
             ELSE [type |-> at[Head(queue)], block |-> buf[Mine(Head(queue))].block]

\* What a task has written is on the disk when it lets go of the buffer, so a
\* valid buffer that is not locked can be thrown away (buf.c:195, 301).
WrittenThrough ==
  \A b \in Range(list) :
    buf[b].valid /\ buf[b].mutex = Null => buf[b].data = disk[buf[b].block]

\* The contents of a block: what its buffer holds, once that is valid.
Contents(block) ==
  LET cached == {b \in Found(block) : buf[b].valid}
  IN IF cached = {} THEN disk[block] ELSE buf[CHOOSE b \in cached : TRUE].data

\* The task that may look at the block and change it.
Holder(block) ==
  LET in == {b \in Found(block) : buf[b].valid /\ buf[b].mutex # Null}
  IN IF in = {} THEN Null ELSE buf[CHOOSE b \in in : TRUE].mutex

Store == INSTANCE BlockStore
  WITH content <- [b \in Block |-> Contents(b)], holder <- [b \in Block |-> Holder(b)]

\* The cache is a disk whose blocks are held by one task at a time and change
\* only by what that task writes: it implements BlockStore.
IsBlockStore == Store!StoreSpec

\* Every request is answered, in a queue that others keep adding to.
RequestsComplete ==
  \A t \in Task : at[t] \in {"read", "write"} ~> at[t] \notin {"read", "write"}

============================================================================
