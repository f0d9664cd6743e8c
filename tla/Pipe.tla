-------------------------------- MODULE Pipe -------------------------------
(***************************************************************************)
(* Pipes (kernel/pipe.c) together with the file descriptors through which  *)
(* processes reach them (process/fd.c, syscall.c) and the IPC that carries *)
(* the calls to the service tasks.                                         *)
(*                                                                         *)
(* There is one pipe, which can be opened again once both ends are closed. *)
(* A handler runs under the mutex of the pipe from the lock to the next    *)
(* wait or to the unlock and the reply: that section is one step. Programs  *)
(* read from the read end and write to the write end, into buffers that    *)
(* are mapped.                                                             *)
(***************************************************************************)
EXTENDS Ipc

CONSTANTS
  ReadEnd, WriteEnd,  \* the two connections of the pipe
  MaxSize,            \* PIPE_BUF_SIZE
  Byte,
  Reads,              \* sizes of read calls
  Writes,             \* the data of write calls
  init_process

ASSUME PipeAssumption ==
  /\ Connection = {ReadEnd, WriteEnd} /\ ReadEnd # WriteEnd
  /\ MaxSize \in Nat \ {0}
  /\ Reads \subseteq Nat /\ Writes \subseteq Seq(Byte)
  /\ init_process \in Process

VARIABLES
  pipe,   \* the fields of struct Pipe; buf is a function on positions
  hash,   \* the connections that pipe_hash has an endpoint for
  cond,   \* who sleeps on read_cond (cond[ReadEnd]) and on write_cond
  fd,     \* of each process: the connections it has a descriptor for
  call    \* of each process: the place in its system call, the connections it
          \* has still to let go, whether it exits then

pipeVars == <<pipe, hash, cond>>
vars == <<ipcVars, pipeVars, fd, call>>

NoPipe ==
  [used |-> FALSE, buf |-> [i \in 0 .. MaxSize - 1 |-> None], size |-> 0,
   read_open |-> FALSE, write_open |-> FALSE, read_pos |-> 0, write_pos |-> 0,
   mutex |-> None]

NoCall == [at |-> "user", unref |-> <<>>, exits |-> FALSE]

Init ==
  /\ IpcInit
  /\ pipe = NoPipe
  /\ hash = {}
  /\ cond = [c \in Connection |-> {}]
  /\ fd = [p \in Process |-> {}]
  /\ call = [p \in Process |-> IF p = init_process THEN NoCall
                               ELSE [NoCall EXCEPT !.at = "none"]]

----------------------------------------------------------------------------
(* The handlers. *)

Asleep(t) == \E c \in Connection : t \in cond[c]

\* The positions of the n bytes from a position on, round the end of the ring.
Ring(from, n) == [i \in 1 .. n |-> (from + i - 1) % MaxSize]

\* Mutant: the writers are not told that there is place again.
Drained_silent == cond

\* k_condvar_notify_all at the end of a read.
Drained == [cond EXCEPT ![WriteEnd] = {}]

\* The bytes that were read are forgotten: nobody reads them again.
pipe_read(w, q) ==
  IF pipe.write_open /\ pipe.size = 0
  THEN /\ cond' = [cond EXCEPT ![ReadEnd] = @ \cup {w}]
       /\ UNCHANGED <<req, worker, pipe, hash>>
  ELSE LET nread == Min({pipe.size, req[q].msg.n})
           ring == Ring(pipe.read_pos, nread)
           data == [i \in 1 .. nread |-> pipe.buf[ring[i]]]
       IN /\ req' = request_reply([req EXCEPT ![q].data = data], q, nread)
          /\ pipe' = [pipe EXCEPT !.buf = [i \in DOMAIN @ |-> IF Contains(ring, i) THEN None
                                                                 ELSE @[i]],
                                  !.size = @ - nread,
                                  !.read_pos = (@ + nread) % MaxSize]
          /\ cond' = Drained
          /\ worker' = [worker EXCEPT ![w].at = "replied"]
          /\ UNCHANGED hash

Room == MaxSize - pipe.size

\* Mutant: what is written goes to the front of the buffer.
Filled_front(q, nwrite) ==
  [i \in DOMAIN pipe.buf |->
     IF i < nwrite THEN req[q].msg.data[req[q].pos + i + 1] ELSE pipe.buf[i]]

\* The buffer with the next nwrite bytes of the request in it.
Filled(q, nwrite) ==
  LET ring == Ring(pipe.write_pos, nwrite)
  IN [i \in DOMAIN pipe.buf |->
        IF Contains(ring, i)
        THEN req[q].msg.data[req[q].pos + CHOOSE k \in 1 .. nwrite : ring[k] = i]
        ELSE pipe.buf[i]]

\* One section of pipe_write copies all there is place for and then replies,
\* sleeps or, when the reader is gone and the buffer full, goes round its loop
\* for ever with the mutex held.
pipe_write(w, q) ==
  LET nwrite == Min({Room, Len(req[q].msg.data) - req[q].pos})
      done   == req[q].pos + nwrite = Len(req[q].msg.data)
      sleeps == ~done /\ pipe.read_open
      spins  == ~done /\ ~pipe.read_open
      copied == [req EXCEPT ![q].pos = @ + nwrite]
  IN /\ req' = IF done THEN request_reply(copied, q, req[q].pos + nwrite) ELSE copied
     /\ pipe' = [pipe EXCEPT !.buf = Filled(q, nwrite),
                             !.size = @ + nwrite,
                             !.write_pos = (@ + nwrite) % MaxSize,
                             !.mutex = IF spins THEN w ELSE @]
     /\ cond' = [cond EXCEPT ![ReadEnd] = IF nwrite > 0 /\ pipe.size = 0 THEN {} ELSE @,
                             ![WriteEnd] = IF sleeps THEN @ \cup {w} ELSE @]
     /\ worker' = IF done THEN [worker EXCEPT ![w].at = "replied"] ELSE worker
     /\ UNCHANGED hash


Unhash(c) == hash \ {c}

\* The side that is still open is woken; the last to close goes on to free the
\* pipe.
pipe_close(w, q) ==
  LET c == req[q].connection
      other == IF c = WriteEnd THEN ReadEnd ELSE WriteEnd
      open == IF c = WriteEnd THEN pipe.read_open ELSE pipe.write_open
  IN /\ pipe' = [pipe EXCEPT !.write_open = @ /\ c # WriteEnd,
                             !.read_open = @ /\ c # ReadEnd]
     /\ hash' = Unhash(c)
     /\ cond' = IF open THEN [cond EXCEPT ![other] = {}] ELSE cond
     /\ worker' = [worker EXCEPT ![w].at = IF open THEN "replied" ELSE "free"]
     /\ req' = IF open THEN request_reply(req, q, 0) ELSE req

\* pipe_destroy and pipe_free, after the unlock.
pipe_free(w) ==
  /\ worker[w].at = "free"
  /\ pipe' = NoPipe
  /\ req' = request_reply(req, worker[w].req, 0)
  /\ worker' = [worker EXCEPT ![w].at = "replied"]
  /\ UNCHANGED <<ref_count, mbox, sender, panic, hash, cond, fd, call>>

pipe_get_connection_endpoint(c) == c \in hash

\* k_mutex_lock and the handler, or the return of k_condvar_wait and the loop
\* around it.
pipe_service_task(w) ==
  LET q == worker[w].req
  IN /\ worker[w].at = "lock" /\ ~Asleep(w)
     /\ pipe.mutex = None
     /\ IF ~pipe_get_connection_endpoint(req[q].connection)
        THEN panic' = "no endpoint" /\ UNCHANGED <<req, worker, pipeVars>>
        ELSE /\ \/ req[q].msg.type = "READ"  /\ pipe_read(w, q)
                \/ req[q].msg.type = "WRITE" /\ pipe_write(w, q)
                \/ req[q].msg.type = "CLOSE" /\ pipe_close(w, q)
             /\ UNCHANGED panic
     /\ UNCHANGED <<ref_count, mbox, sender, fd, call>>

----------------------------------------------------------------------------
(* System calls. *)

May(p) == call[p].at = "user"

\* The call goes on to let go of connections, and returns after the last.
Unref(p, connections, exits) ==
  call' = [call EXCEPT ![p] =
    IF connections # <<>>
    THEN [at |-> "unref", unref |-> connections, exits |-> exits]
    ELSE [NoCall EXCEPT !.at = IF exits THEN "none" ELSE "user"]]

pipe_set_connection_endpoint(table, c) == table \cup {c}

\* Both ends are made with one reference, which the caller holds.
pipe_open ==
  /\ ~pipe.used /\ \A c \in Connection : ref_count[c] = 0
  /\ pipe' = [NoPipe EXCEPT !.used = TRUE, !.read_open = TRUE, !.write_open = TRUE]
  /\ hash' = FoldLeft(pipe_set_connection_endpoint, hash, <<ReadEnd, WriteEnd>>)

\* fd_alloc takes another where it finds a free descriptor.
fd_alloc(p, ends) ==
  /\ fd' = [fd EXCEPT ![p] = ends]
  /\ ref_count' = [c \in Connection |-> IF c \in ends THEN 2 ELSE 1]

\* A process may have two free descriptors, one or none.
sys_pipe(p) ==
  /\ May(p)
  /\ pipe_open
  /\ \E ends \in {{}, {ReadEnd}, {ReadEnd, WriteEnd}} : fd_alloc(p, ends)
  /\ Unref(p, <<ReadEnd, WriteEnd>>, FALSE)
  /\ UNCHANGED <<req, mbox, sender, worker, panic, cond>>

\* Mutant: fd_lookup takes no reference for the time of the call.
fd_lookup_borrowed(p, c, at) ==
  /\ c \in fd[p]
  /\ call' = [call EXCEPT ![p] = [NoCall EXCEPT !.at = at, !.unref = <<c>>]]
  /\ UNCHANGED ref_count

\* fd_lookup: the call holds a reference of its own.
fd_lookup(p, c, at) ==
  /\ c \in fd[p]
  /\ call' = [call EXCEPT ![p] = [NoCall EXCEPT !.at = at, !.unref = <<c>>]]
  /\ ref_count' = [ref_count EXCEPT ![c] = @ + 1]

\* sys_ipc_send and sys_ipc_sendv, with the messages of the C library.
sys_ipc_send(p, c, msg) ==
  /\ May(p)
  /\ fd_lookup(p, c, "ipc")
  /\ connection_send(p, c, msg)
  /\ UNCHANGED <<worker, panic, pipeVars, fd>>

\* A reference is dropped; the connection returns to the pool with the last.
Drop(p) ==
  /\ ref_count' = [ref_count EXCEPT ![Head(call[p].unref)] = @ - 1]
  /\ Unref(p, Tail(call[p].unref), call[p].exits)

\* The request was answered.  The call goes on to let the connection go; when
\* the request was the CLOSE of connection_unref, this drops the count.
Answered(p) ==
  /\ k_semaphore_timed_get(p)
  /\ IF call[p].at = "close" THEN Drop(p)
     ELSE call' = [call EXCEPT ![p].at = "unref"] /\ UNCHANGED ref_count
  /\ UNCHANGED <<panic, pipeVars, fd>>


\* connection_unref, up to the CLOSE it sends or to its end.
connection_unref(p) ==
  /\ call[p].at = "unref"
  /\ LET c == Head(call[p].unref)
     IN IF ref_count[c] < 1
        THEN panic' = "bad ref_count" /\ UNCHANGED <<ref_count, req, mbox, sender, call>>
        ELSE /\ \/ /\ ref_count[c] = 1
                   /\ connection_send(p, c, [type |-> "CLOSE"])
                   /\ call' = [call EXCEPT ![p].at = "close"]
                   /\ UNCHANGED ref_count
                \/ /\ ref_count[c] > 1
                   /\ Drop(p)
                   /\ UNCHANGED <<req, mbox, sender>>
             /\ UNCHANGED panic
  /\ UNCHANGED <<worker, pipeVars, fd>>

fd_close(p, c) ==
  /\ May(p)
  /\ c \in fd[p]
  /\ fd' = [fd EXCEPT ![p] = @ \ {c}]
  /\ Unref(p, <<c>>, FALSE)
  /\ UNCHANGED <<ipcVars, pipeVars>>

\* process_copy: the child has the descriptors of its parent.
fd_clone(p, child) ==
  /\ May(p)
  /\ call[child].at = "none"
  /\ fd' = [fd EXCEPT ![child] = fd[p]]
  /\ ref_count' = [c \in Connection |-> ref_count[c] + (IF c \in fd[p] THEN 1 ELSE 0)]
  /\ call' = [call EXCEPT ![child].at = "user"]
  /\ UNCHANGED <<req, mbox, sender, worker, panic, pipeVars>>

\* process_destroy lets the descriptors go in the order of the table, where the
\* read end is before the write end.
fd_close_all(p) ==
  /\ May(p)
  /\ p # init_process
  /\ fd' = [fd EXCEPT ![p] = {}]
  /\ Unref(p, SelectSeq(<<ReadEnd, WriteEnd>>, LAMBDA c : c \in fd[p]), TRUE)
  /\ UNCHANGED <<ipcVars, pipeVars>>

\* sys_select with one descriptor and no timeout.
sys_select(p, c) ==
  /\ May(p)
  /\ fd_lookup(p, c, "select")
  /\ UNCHANGED <<req, mbox, sender, worker, panic, pipeVars, fd>>

\* It waits for data to read, whichever end the descriptor names.
pipe_select(p) ==
  /\ call[p].at = "select" /\ ~Asleep(p)
  /\ pipe.mutex = None
  /\ IF pipe.size = 0
     THEN cond' = [cond EXCEPT ![ReadEnd] = @ \cup {p}] /\ UNCHANGED call
     ELSE call' = [call EXCEPT ![p].at = "unref"] /\ UNCHANGED cond
  /\ UNCHANGED <<ipcVars, pipe, hash, fd>>

\* Mutant: pipe_select returns with the mutex locked.
Interrupt_held(p) ==
  /\ p \in cond[ReadEnd]
  /\ pipe.mutex = None
  /\ pipe' = [pipe EXCEPT !.mutex = p]
  /\ cond' = [cond EXCEPT ![ReadEnd] = @ \ {p}]
  /\ call' = [call EXCEPT ![p].at = "unref"]
  /\ UNCHANGED <<ipcVars, hash, fd>>

\* A signal ends the wait of pipe_select.
Interrupt(p) ==
  /\ p \in cond[ReadEnd]
  /\ pipe.mutex = None
  /\ cond' = [cond EXCEPT ![ReadEnd] = @ \ {p}]
  /\ call' = [call EXCEPT ![p].at = "unref"]
  /\ UNCHANGED <<ipcVars, pipe, hash, fd>>

Message(c) ==
  CASE c = ReadEnd  -> {[type |-> "READ", n |-> n] : n \in Reads}
    [] c = WriteEnd -> {[type |-> "WRITE", data |-> d] : d \in Writes}

----------------------------------------------------------------------------

Service(w) ==
  \/ endpoint_receive(w) /\ UNCHANGED <<pipeVars, fd, call>>
  \/ pipe_service_task(w)
  \/ pipe_free(w)
  \/ request_replied(w) /\ UNCHANGED <<pipeVars, fd, call>>

\* What a process does inside the kernel before it sleeps or returns.
Kernel(p) ==
  \/ Answered(p)
  \/ connection_unref(p)
  \/ pipe_select(p)

User(p) ==
  \/ sys_pipe(p)
  \/ \E c \in Connection :
       \/ \E msg \in Message(c) : sys_ipc_send(p, c, msg)
       \/ fd_close(p, c) \/ sys_select(p, c)
  \/ \E child \in Process : fd_clone(p, child)
  \/ fd_close_all(p)
  \/ Interrupt(p)

Next ==
  /\ panic = "none"
  /\ \/ \E w \in Worker : Service(w)
     \/ \E p \in Process : Kernel(p) \/ User(p)

Spec == Init /\ [][Next]_vars

\* A service task that is not asleep goes on, and so does a process inside a
\* system call.
FairSpec ==
  /\ Spec
  /\ \A w \in Worker : WF_vars(panic = "none" /\ Service(w))
  /\ \A p \in Process : WF_vars(panic = "none" /\ Kernel(p))

----------------------------------------------------------------------------
(* Properties. *)


\* A connection is counted once for every descriptor and once for every call
\* that uses it, through fork, exit and failed calls, so that it is freed with
\* the last of them and not before (connection.c, fd.c).
ReferencesAreCounted ==
  \A c \in Connection :
    ref_count[c] = Cardinality({p \in Process : c \in fd[p]})
                     + Cardinality({p \in Process : Contains(call[p].unref, c)})


\* No wake-up is lost: who sleeps on the pipe has a reason to, and the pipe is
\* there until the last of them has left it (pipe.c: notify_all).
SleepersHaveReason ==
  /\ \A t \in cond[ReadEnd] :
       pipe.used /\ pipe.size = 0 /\ (pipe.write_open \/ t \in Process)
  /\ cond[WriteEnd] # {} => pipe.used /\ pipe.size = MaxSize /\ pipe.read_open

Reading(p) == sender[p] # 0 /\ req[sender[p]].msg.type = "READ"
Writing(p) == sender[p] # 0 /\ req[sender[p]].msg.type = "WRITE"

\* The processes that hold an end, until they have sent its CLOSE.
Holders(c) ==
  {p \in Process :
     \/ c \in fd[p]
     \/ Contains(call[p].unref, c) /\ ~(call[p].at = "close" /\ Head(call[p].unref) = c)}

\* The result of a request once its handler is done.
Result(q) == IF req[q].sem > 0 THEN req[q].r ELSE None

Stream == INSTANCE PipeStream WITH
  Bound   <- MaxSize,
  stream  <- [i \in 1 .. pipe.size |-> pipe.buf[(pipe.read_pos + i - 1) % MaxSize]],
  readers <- Holders(ReadEnd),
  writers <- Holders(WriteEnd),
  io      <- [p \in Process |->
    LET q == sender[p]
    IN IF Reading(p)
       THEN [op |-> "read", n |-> req[q].msg.n, data |-> req[q].data, r |-> Result(q)]
       ELSE IF Writing(p)
       THEN [op |-> "write", data |-> req[q].msg.data, r |-> Result(q),
             left |-> SubSeq(req[q].msg.data, req[q].pos + 1, Len(req[q].msg.data))]
       ELSE [op |-> "idle"]]

\* The pipe is a stream: no byte is lost, repeated or moved, also where the ring
\* wraps, where a write is taken in parts and where the pipe is opened again; a
\* read ends with nothing only after the last writer.
StreamIsKept == Stream!Spec

\* What a blocked call waits for: data or the end of the stream, and room while
\* there is a reader.
CanProceed(p) ==
  \/ Reading(p) /\ (pipe.size > 0 \/ Holders(WriteEnd) = {})
  \/ Writing(p) /\ pipe.size < MaxSize /\ pipe.read_open

\* No call is stuck: one that can proceed is answered, or somebody else takes
\* the data or the room first, or the reader leaves.  There must be a service
\* task for every call that can be blocked at once; the code has 20.
CallsAreServed ==
  \A p \in Process : CanProceed(p) ~> ~CanProceed(p)

============================================================================
