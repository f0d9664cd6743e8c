-------------------------------- MODULE Ipc --------------------------------
(***************************************************************************)
(* Connections, requests and endpoints (kernel/ipc): a process sends a     *)
(* request over a connection and sleeps until a service task has replied.  *)
(*                                                                         *)
(* The mailbox of the endpoint is the bounded queue that Mailbox.tla is    *)
(* shown to implement.  Its senders and the semaphore of a request are     *)
(* waited for with K_SLEEP_UNWAKEABLE: such a sleep ends neither by its    *)
(* timer nor by a signal (sched.c:336), so the fifteen seconds of          *)
(* connection_send and its panics do not appear.                           *)
(***************************************************************************)
EXTENDS Integers, Sequences, FiniteSets, FiniteSetsExt, SequencesExt

CONSTANTS
  Process,      \* process slots; each runs one thread
  Workers,      \* how many service tasks the endpoint has
  Connection,
  MboxCapacity, \* ENDPOINT_MBOX_CAPACITY
  None

ASSUME IpcAssumption ==
  /\ IsFiniteSet(Process) /\ Workers \in Nat \ {0}
  /\ MboxCapacity \in Nat \ {0}
  /\ None \notin Connection

VARIABLES
  ref_count,  \* of each connection; 0 when it is in the pool
  req,        \* the requests in the heap; ref_count 0 when free
  mbox,       \* the requests in the mailbox of the endpoint
  sender,     \* the request each process waits for; 0 for none
  worker,     \* of each service task: its place and its request
  panic

ipcVars == <<ref_count, req, mbox, sender, worker, panic>>

Worker == 1 .. Workers

\* As many requests as can be alive at once: one of each process, and one that
\* each service task has answered and not yet let go.
Request == 1 .. (Cardinality(Process) + Workers)

NoRequest ==
  [ref_count |-> 0, msg |-> [type |-> "none"], connection |-> None, sem |-> 0,
   pos |-> 0, data |-> <<>>, r |-> 0]

IpcInit ==
  /\ ref_count = [c \in Connection |-> 0]
  /\ req = [q \in Request |-> NoRequest]
  /\ mbox = <<>>
  /\ sender = [p \in Process |-> 0]
  /\ worker = [w \in Worker |-> [at |-> "receive", req |-> 0]]
  /\ panic = "none"

----------------------------------------------------------------------------
(* The sender. *)

\* request_create, request_dup and k_mailbox_timed_send.  A sender that finds
\* the mailbox full sleeps; its request is new to everybody else, so that the
\* step is taken when there is room.
connection_send(p, c, msg) ==
  LET q == Min({i \in Request : req[i].ref_count = 0})
  IN /\ Len(mbox) < MboxCapacity
     /\ req' = [req EXCEPT ![q] = [NoRequest EXCEPT !.ref_count = 2, !.msg = msg,
                                                    !.connection = c]]
     /\ mbox' = Append(mbox, q)
     /\ sender' = [sender EXCEPT ![p] = q]

\* Mutant: the request is freed by the first of its two owners to let go.
request_destroy_first(requests, q) == [requests EXCEPT ![q] = NoRequest]

request_destroy(requests, q) ==
  [requests EXCEPT ![q] = IF @.ref_count = 1 THEN NoRequest
                          ELSE [@ EXCEPT !.ref_count = @ - 1, !.connection = None]]

\* The semaphore was put: connection_send takes r and returns.  What else the
\* request holds is of no use to anybody from here on.
k_semaphore_timed_get(p) ==
  /\ sender[p] # 0
  /\ req[sender[p]].sem > 0
  /\ req' = request_destroy([req EXCEPT ![sender[p]] =
                               [NoRequest EXCEPT !.ref_count = req[sender[p]].ref_count]],
                            sender[p])
  /\ sender' = [sender EXCEPT ![p] = 0]
  /\ UNCHANGED <<mbox, worker>>

----------------------------------------------------------------------------
(* The service task. *)

\* The idle service tasks are alike: the first of them takes the message.
endpoint_receive(w) ==
  /\ worker[w].at = "receive"
  /\ \A i \in 1 .. w - 1 : worker[i].at # "receive"
  /\ mbox # <<>>
  /\ worker' = [worker EXCEPT ![w] = [at |-> "lock", req |-> Head(mbox)]]
  /\ mbox' = Tail(mbox)
  /\ UNCHANGED <<ref_count, req, sender, panic>>

\* The result is stored and the sender woken.
request_reply(requests, q, r) == [requests EXCEPT ![q].r = r, ![q].sem = @ + 1]

\* Only then the service task lets the request go.
request_replied(w) ==
  /\ worker[w].at = "replied"
  /\ req' = request_destroy(req, worker[w].req)
  /\ worker' = [worker EXCEPT ![w] = [at |-> "receive", req |-> 0]]
  /\ UNCHANGED <<ref_count, mbox, sender, panic>>

----------------------------------------------------------------------------
(* Properties. *)

\* Who may still use a request: its sender, the service task and, until one
\* takes it, the message that names it.
Users(q) ==
  {p \in Process : sender[p] = q}
    \cup {w \in Worker : worker[w].req = q}
    \cup {i \in DOMAIN mbox : mbox[i] = q}

\* A request lives as long as its sender or the service task uses it and no
\* longer, whichever of the two lets go first (request.c: dup, destroy).
RequestsAreOwned ==
  \A q \in Request : req[q].ref_count = Cardinality(Users(q))

============================================================================
