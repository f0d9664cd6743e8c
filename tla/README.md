# Argentum: a TLA+ model of the kernel

Argentum is a small UNIX-like kernel for ARMv7 and x86 multiprocessors. This
directory holds TLA+ modules translated from its C source, the TLC models that
check them on small instances, and TLAPS proofs about them. Paths below are
relative to `src/kernel/`.

## 1. The system

### The core (`core/`)

| part | state | operations | what makes it hard |
|---|---|---|---|
| scheduler, tasks: `sched.c`, `task.c` | state and priority of each task, one run queue per priority, the task of each CPU, the list of sleep timeouts, one spinlock over all of it | resume, yield, suspend, exit, sleep, wake one, wake all, timeout, preemption at the end of an interrupt | a task that gives up its CPU leaves the lock held; the task switched to goes on in the middle of its own call |
| mutexes: `mutex.c` | owner, queue of waiters, priority of the highest waiter | lock, timed lock, try, unlock, fini | priority inheritance through a chain of owners; unlock wakes one waiter but hands over nothing |
| condition variables: `condvar.c` | queue of waiters | wait with timeout, notify one, notify all, destroy | the mutex is released and locked again inside the call, whatever ends the sleep |
| semaphores, mailboxes, wait queues: `semaphore.c`, `mailbox.c`, `waitqueue.c` | count or ring of messages, queues of waiters, one spinlock each | get, put; send, receive; try and timed forms | a wake-up is only a hint, since another task may take what the woken task came for |
| timeout queue: `timeout.c` | list of entries, each with its distance from the one before | add, remove, adjust by a number of ticks | the distances must keep adding up to the deadlines while entries leave and callbacks add new ones |
| timers, ticks: `timer.c`, `tick.c` | timers in a timeout queue, the timer whose callback runs | create, start, stop, destroy, tick | the callback runs with the lock released, next to start, stop and destroy |
| interrupts, spinlocks: `irq.c`, `spinlock.c`, `interrupt.c` | nesting counters per CPU, interrupt tasks | mask, unmask, handler begin and end | a reschedule asked for inside a handler is granted at its end |

### Services

| part | state | operations | what makes it hard |
|---|---|---|---|
| IPC: `ipc/` | connections and requests with reference counts, a mailbox per endpoint | send, reply, read and write of the sender's memory, unref | the sender may time out or be killed while the server holds the request |
| pipes: `pipe.c` | ring of bytes, open flags, two wait conditions | open, read, write, close, select | partial writes interleave; the other end may close while a task sleeps |
| buffer cache: `fs/buf.c` | blocks with reference count and flags, an LRU list | get, read, write, release, put | two tasks ask for the same block; a block is reused while another is filled |
| inode cache: `fs/inode.c` | inodes with reference count, lock and flags | get, dup, put, lock, unlock | the last put of an unlinked inode truncates it with the cache unlocked |
| path names, mounts: `fs/path.c`, `fs/fs.c` | tree of nodes with reference counts and parents | look up, mount, create, unlink, rename | a node is removed while a look-up stands on it |
| file services: `fs/service.c`, `fs/devfs.c`, `fs/ext2*.c` | bitmaps, directory entries, block maps | open, read, write, link, truncate | an error between two writes to the same structure |
| descriptors: `process/fd.c` | table of references to connections | alloc, lookup, close, clone, close on exec | a descriptor closed while another thread uses it |
| processes: `process/process.c` | process tree, states, exit codes | create, clone, wait, exit, stop, continue | wait, exit and re-parenting interleave; a stopped child is reported once |
| signals: `process/signal.c` | pending and masked sets, handlers | generate, deliver, mask, suspend, pause | a signal arrives between the check and the sleep |
| memory: `mm/page.c`, `mm/object_pool.c`, `mm/vm.c`, `process/vmspace.c` | free lists by order, slabs, page references, areas | allocate, free, map, copy on write | reference counts shared by forked address spaces |
| terminals: `tty.c` | input ring, line flags, foreground group | read, write, input interrupt, stop | the interrupt changes the ring while a reader sleeps |

### How the parts interact

System calls run in the task of the process. Files, pipes, sockets and
terminals are reached through IPC: a request is put in the mailbox of an
endpoint and a service task answers it. All blocking ends in
`_k_sched_sleep`, all waking in `_k_sched_resume`. The tick interrupt drives
the sleep timeouts, the timers and the preemption. The core is therefore
modelled first, and the services on top of what the core promises.

## 2. How the modules are built

The modules follow the kernel from the core outwards. A module of a service
takes the blocking primitives as the core modules show them to be: `Semaphore`
and `Mailbox` are over the sleep queue that `Condvar` implements, the endpoints
of `Ipc` are the bounded queue that `Mailbox` implements, and a section under a
mutex is a step of the services because `Mutex` makes it one.

A model keeps all the control of the code and abstracts its data. A block, a
name or a signal is a member of a small set, and a message is its type with the
fields that decide what happens.

## 3. Modules

| module | models | kind |
|---|---|---|
| `Lists` | `include/kernel/core/list.h` | operators on sequences |
| `Sched` | `core/sched.c`, `core/task.c`, end of an interrupt in `core/irq.c` | actions |
| `Mutex` | `core/mutex.c` and the priority functions of `core/sched.c` | actions, extends `Sched` |
| `Condvar` | `core/condvar.c` | specification of the composition, properties |
| `SleepQueue` | what sleeping and waking promise to their callers | abstract specification |
| `CondvarSleep` | - | `Condvar` implements `SleepQueue` |
| `CondvarInvariant` | - | the inductive invariant of `Condvar` |
| `StepProofs`, `SwitchProofs`, `LockProofs`, `CondvarProofs` | - | theorems about `Sched` and `Condvar` |
| `Semaphore` | `core/semaphore.c` | specification over `SleepQueue` |
| `Mailbox` | `core/mailbox.c` | specification over `SleepQueue`, implements `Fifo` |
| `Fifo` | what a mailbox promises | abstract specification |
| `SemaphoreProofs`, `MailboxProofs` | - | theorems about `Semaphore` and `Mailbox` |
| `Timeout` | `core/timeout.c` | operators on a queue |
| `Timer` | `core/timer.c`, `core/tick.c`, interval timers of `process/process.c` | specification, implements `Deadlines` |
| `Deadlines` | what a timer promises | abstract specification |
| `Ipc` | `ipc/connection.c`, `ipc/endpoint.c`, `ipc/request.c` | actions |
| `Pipe` | `pipe.c`, descriptors of `process/fd.c`, their system calls | specification, extends `Ipc`, implements `PipeStream` |
| `PipeStream` | what a pipe promises | abstract specification |
| `Process` | `process/process.c`, `process/signal.c` | specification |
| `BufCache` | `fs/buf.c`, the queue and interrupt task of `drivers/sd/sd.c` | specification, implements `BlockStore` |
| `BlockStore` | what the buffer cache promises | abstract specification |
| `BufCacheSteps`, `BufCacheProofs` | - | theorems about `BufCache` |
| `InodeCache` | `fs/inode.c`, handlers of `fs/service.c`, inodes and one directory of `fs/ext2*.c` | specification |
| `PageAlloc` | `mm/page.c` | operators on the free lists |
| `AddressSpace` | `mm/vm.c`, `process/vmspace.c`, the page tables of `arch/arm/mm/arch_vm.c`, and what fork, exec, exit and mmap do to them | specification, extends `PageAlloc`, implements `PrivateMemory` |
| `PrivateMemory` | what address spaces promise to programs | abstract specification |
| `MCCondvar`, `MCTimer`, `MCMailbox`, `MCPipe`, `MCProcess`, `MCBufCache`, `MCInodeCache`, `MCAddressSpace` | - | instances for TLC |

An operator has the name of the C function it translates, without a leading
underscore. Definitions next to it whose comment begins with "Mutant" are
deliberately wrong forms of it. They occur in no specification. Putting one in
place of the original must break a property, which shows that the property
depends on that line of code. `PROJECT.json` lists them, and the source lines of
every definition.

### Scheduler, mutexes and condition variables

One spinlock guards the state of the scheduler and all the mutexes. A section
of code under it is one step unless it switches tasks. A task that gives up its
CPU leaves the lock held, and the CPU passes through the loop of
`k_sched_start` to another task, which releases the lock or goes on with its own
section. Three variables describe this:

- `sched_lock` is the CPU that holds the lock between two steps;
- `kont[t]` is where task `t` goes on when it is switched to: it returns, or is
  before or after the sleep in a mutex lock or in a wait;
- `loop` is the loop that the holder is in, one iteration per step: waking a
  whole queue, or following a chain of mutex owners to raise their priorities.

The other variables are the fields of the C structures. `queue` holds the lists
of sleeping tasks of mutexes and condition variables. `timeouts` holds the tasks
with a queued sleep timeout, which may expire in any later step; the distances
between the entries are the subject of `Timeout`. `panic` records a failed
assertion and stops the system.

`Next` has three parts. `LockedStep(c)` goes on with a section under the lock.
`Call(c, t)` is a call by a running task. `Elsewhere` is what arrives from
outside: timeouts, signals (`k_task_wake`), creation of objects.

Assumed of callers: a task that unlocks or waits owns the mutex, nobody uses an
object after finalising it, and a task exits or suspends itself only with no
mutex owned. These are preconditions of the model's actions.

### Sleep queues, semaphores and mailboxes

`SleepQueue` has no CPUs and no priorities. A task is awake, asleep on a queue,
or woken with a result and not yet running. Waking one takes any sleeper, so
what is shown over it does not depend on the order of the queue. `CondvarSleep`
maps the scheduler to it, and the run `CondvarWait` checks the mapping.

A semaphore or a mailbox holds its own spinlock from the test until the task is
in the queue. Each pass through the loop of a timed call is therefore one step,
and a woken task makes another pass. Between its waking and that pass another
task may take what it was woken for. Assumed of callers, as the comments at
`semaphore.c:41` and `mailbox.c:62` say, is that an object is destroyed only when
every task inside a call is asleep in it. The mailbox keeps offsets into the buffer
as the code does, with a buffer that is no multiple of the message size.

### Timers

A timeout queue is a sequence of entries, each with the ticks that remain after
the entry before it. The tick handler holds `k_timer_lock` except around
callbacks; `adjust` has its place in the code and the locals of
`_k_timeout_queue_adjust`. Processes on other CPUs set, cancel and destroy their
interval timers meanwhile, one step per acquisition of the lock. The callback of
an interval timer needs `process_lock`, which processes hold over these calls.
`drift` is the difference of the two tick counters. `k_tick_set` changes it, so
the handler may see no tick, a negative number, or several.

The tick handler of the model is one at a time, because only the master CPU runs
it. Freeing the slot of a process is part of destroying it; the wait by the
parent in between changes none of this state.

### IPC and pipes

A process sends a request over a connection: the request goes to the mailbox of
the endpoint, and the process sleeps on the semaphore of the request. A service
task takes it, runs the handler of the message and replies. A request has two
references, the sender's and the service task's, and is freed with the second.
A connection counts descriptors and calls; the last unref sends a CLOSE first.

In `Pipe` a handler is one step from the lock of the pipe to the next wait, or to
the unlock and the reply. `call` is the place of a process in its system call.
Processes fork, share descriptors, close them, select, read and write; there is
one pipe, which can be opened again after both ends are closed. A sender that
finds the mailbox full takes its step when there is room: its request is known to
nobody else before. Buffers of programs are mapped (`request_write` and
`request_read` panic otherwise), and memory for objects is found.

### Processes and signals

All of it runs under `process_lock`, so a section of that lock is a step. `proc`
has the fields of a process and those of its thread; `at` is the place of the
process in a call. `thread_cache` is the signal queue of the thread that the pool
hands out next: the pool does not initialise objects again, so a thread starts
with the queue that its last owner left. The list of children is a sequence,
because `wait()` takes the first zombie and a fair choice among them is not in
the code. Left out are process groups, identities, and failures of allocation.
Interval timers are in `Timer`, memory is in `AddressSpace`.

### The buffer cache

Sections under `buf_cache.lock` and under the mutex of the driver are steps.
`held` is the stack of buffers that a task has: ext2 reads one block with another
in hand. A request lies on the stack of the task that waits for it, so the task
stands for it. `transfer` is what the card was last told to do; the interrupt
task completes the first request of the queue with it. `BlockStore` is a disk
whose blocks are locked, changed and unlocked by one task at a time.

When the cache is full and no buffer is unused the code uses a pointer that was
never set (`buf.c:157`). The instance has enough buffers for all that tasks hold,
as the code has with 1024. Allocation failures, which end there too, are left
out. The blocks ext2 asks for do not overlap. Waits are not interrupted: service
tasks get no signals. The IDE driver has the same shape and is not modelled.

### The inode cache

A handler is the sequence of calls it has still to make (`task[t].todo`), each on
the directory, the inode, or an inode found by name. One call is one section
under an inode mutex or the cache lock; `fs_inode_put` has one of each, and what
lies between them is the point. Clients send the numbers of inodes they were told
in answers, `known`, whatever has become of those since: the handlers do not
check. Link counts, modes, the inode bitmap and the names of one directory are
modelled; data, other directories and permissions are not.

### Memory

The page allocator is a buddy system. Its operations are sections of a spinlock
inside sections of their callers, so they are operators on the record `mem`: the
free list of each order, the count, debug tag and contents of each page, and the
reason of a panic. `page_alloc_block` does not return without memory, it panics;
the error paths of its callers are dead code and not in the model.

`vm_lock` is held for one page at a time. A fork, an exec, an mmap or the end of a
space is therefore a list of steps still to make, `proc[p].todo`, one per page,
between which other processes make theirs. `proc[p].vm` is the space of the
process and `other` the one it makes or destroys beside it. Addresses are counted
in pages and a page holds one value. A write to a page shared by copy-on-write
faults; a store follows once the page is writable. `vm_user_check_buf` and the
answer of the service are two steps, and so are the look-up of a page of a new
program and the reading of the file into it, which happens without the lock.

A process has one thread, so nobody else changes its areas. What a page table says
holds at once: the table is loaded, and cached translations dropped, at each
switch to its process. The form of `vm_user_clone` that shares pages has no caller.

## 4. What the runs check

| run | instance | shows |
|---|---|---|
| `MutexChain` | 2 CPUs, 3 tasks of different priorities, 2 mutexes | lists are sound, inherited priorities are exact, queues are ordered, no waiter is stranded on a free mutex, no timer outlives its sleep, the scheduler lock is always released again |
| `CondvarWait` | 2 CPUs, 3 tasks, 1 mutex, 1 condition variable | every wait returns with the mutex, the scheduler implements `SleepQueue` |
| `TimerQueue` | 2 processes, counter set back by 2 and forward by 1 | a stopped timer stays stopped, the handler's assertions hold, the queue implements `Deadlines`, every timer expires or is stopped |
| `SemaphoreCount` | 4 tasks | no put is lost on a sleeping task; a count with sleepers is taken in the end |
| `MailboxRing` | 3 tasks, 2 messages, capacity 2 | implements a bounded queue; no sender or receiver is stranded |
| `PipeCalls` | 2 processes, 2 service tasks, a mailbox of 1, a pipe of 2 bytes | connections and requests are freed by their last user, CLOSE is the last message, no panic, nobody sleeps without a reason, the pipe implements `PipeStream`, calls that can proceed end |
| `ProcessFamily` | init and 3 processes | parents and children agree, no `wait()` sleeps on a zombie, pending signals are those queued, ignored ones are not delivered, init reaps every zombie of its own |
| `BufferCache` | 2 tasks, 4 blocks, 3 buffers | a block has one buffer, a buffer in use keeps its block, the card does what the queue says, the cache implements `BlockStore`, every request is answered |
| `AddressSpace` | 3 processes, 17 pages, 5 addresses, 3 calls | every page has one use and the right count, free blocks are joined, areas agree with page tables, memory changes only on request, no assertion fails, spaces implement `PrivateMemory` |

Bounds. Three tasks are the smallest number with a chain: one that runs, one
that owns what it wants, one that owns what that one wants. They also give a
woken task, a task that overtakes it, and one that still sleeps. Two mutexes
allow chains, cycles of waiting tasks, and a task that owns one mutex while it
waits for the other. Two CPUs are needed for anything to happen during a call.
Four tasks at a semaphore allow two woken and two asleep. A mailbox of capacity
two can be empty, partly full and full, and its ring wraps. Two timers allow an
entry to be added or removed before and after the other, by the other's callback
too. A pipe of two bytes and a write of three give a partial write that wraps;
the two processes can both read, both write, or sleep at either end. Three
processes beside init give a parent that dies with a child alive and a zombie.
Three buffers for four blocks make the tasks reuse each other's buffers, while a
nested read holds two. Three calls, by as many processes, make a page that three
share, a fork during a fork, and an exec or exit beside it; 17 pages run out in
some of these. Two of the mmap requests join the program's area, before, behind
and between; the third takes two pages where there is room.

`MaxCount` (semaphore) and `MaxLeft` (timer) bound counters. They cut off more
puts in a row, and more setting back of the counter, than there are waiters.
`MaxBusy` (process) bounds the families in which signals are used: the fourth
process is made, and lives, without them. `MaxLeft` (process) bounds the signals
that a dead process leaves in its thread: `ProcessFamily` allows none, since one
is enough for the panic that `StaleSignals` shows. `Workers` in `PipeCalls` is the number of calls
that can block, see `pipe.c:86` below. `MaxCalls` (memory) bounds the calls of a
behaviour, and `Written` the addresses programs write to; faults and stores are
not bounded. The constraint `NoJoinWithNextOnly` leaves out what `vmspace.c:169`
does wrong, see below. The view drops what free pages hold, which is cleared when
they are allocated.

Symmetry is used in `MailboxRing`, `InodeDeletedTwice` and `AddressSpace`, there of
the processes other than init. It is not used in the
instances of `Condvar`, whose tasks differ in priority, nor in runs that check
liveness. Deadlock is not checked where the system may stop: all processes may
exit, or wait for bytes that nobody will write, or memory runs out, a panic.

### Fairness

- `MutexChain`: weak fairness of the step of the CPU that holds the scheduler
  lock. Interrupts are off on it and it waits for nothing.
- `TimerQueue`: weak fairness of the tick handler and of a process inside a
  call, strong fairness of the acquisition of `process_lock` by the callback.
  Ticks keep coming. The handler cannot be preempted by tasks on its CPU. Strong
  fairness is an assumption about the lock: the code does not queue its
  contenders, and a process that sets its timer in a tight loop could in
  principle always win.
- `SemaphoreCount`: weak fairness of a woken task. It is in the run queue, and
  it runs unless tasks of higher priority never leave it a CPU. That they do is
  an assumption about the load.
- `PipeCalls`: weak fairness of each service task that is not asleep and of each
  process inside a call, on the same assumption.
- `ProcessFamily`: weak fairness of init, which waits for children in a loop.
- `BufferCache`: weak fairness of the interrupt task of the card, which means that
  the card answers, and of each task inside the cache. What a task does with a
  buffer in hand is part of it: ext2 releases every buffer it gets.

### Disagreements between the code and its comments

Each of these runs checks one statement of the repository and ends with a
counterexample. `PROJECT.json` quotes the lines.

| run | statement | what happens |
|---|---|---|
| `RaiseWithoutOwner` | assertion, `core/mutex.c:43` | a chain of raises meets a mutex that was unlocked and not yet taken |
| `StaleSignals` | panic, `process/signal.c:461` | a process is delivered the signal that the last owner of its thread did not take, and ignores it |
| `InodeDeletedTwice` | panic, `fs/ext2_bitmap.c:106` | an inode is asked for by number while its last name is removed; it is read back without links and deleted again |

The passing runs and the theorems hold of the code as it is, these panics
included: a state after a panic satisfies the invariants as well.

Others were met while translating. The models have the behaviour of the code, or
leave the case out as said here; no run states the opposite.

- `core/mutex.c:67`: a task of lower priority may take the mutex between its
  unlock and the turn of the woken waiter, which the assertion excludes.
- `core/sched.c:337`: the timeout of an unwakeable sleep is consumed and does not
  wake the task. `core/condvar.c:70` promises that it does, and
  `ipc/connection.c:229` and `:240` count on it for their fifteen seconds.
- `core/sched.c:298`: a task whose priority is raised while it sleeps on a
  condition variable or semaphore keeps its place; `sched.c:285` says that the
  highest is woken.
- `core/condvar.c:48`: waiters of a destroyed condition variable get `+EINVAL`.
- `core/mailbox.c:151`: a timeout is `-ETIMEDOUT`, where the comments say
  `K_ERR_AGAIN`.
- `core/timer.c:79`: a timer is destroyed while its callback waits for
  `process_lock`, which `process_destroy` holds; the callback completes later. The
  comment at `:71` excludes it. `Timer` has this behaviour, and `StopIsFinal` says
  what such a callback cannot do any more.
- `process/process.c:688`: an interval below one tick gives a delay of zero, which
  `core/timeout.c:23` asserts against. `Timer` has intervals of a tick or more.
- `pipe.c:455`: when the reader goes while the buffer is full, the writer goes
  round its loop for ever with the mutex held. `CallsAreServed` leaves out
  writers without a reader.
- `pipe.c:344`: `pipe_select` looks at the number of bytes only, and sleeps on an
  empty pipe that has no writers. `SleepersHaveReason` allows it.
- `pipe.c:86`: a blocked read or write keeps one of the twenty service tasks.
  When all are blocked, the write or close that would end it is not received.
- `pipe.c`, failing `pipe_open`: `connection_unref` is called with a reference
  count of zero, a panic. Failing allocations are not modelled.
- `process/process.c:647`: the assertion on the flags fails after a stop, since the
  assignment at `:665` is commented out. The instances have no `SIGCONT`.
- `process/process.c:649`: a stopped process is suspended, and `k_task_wake` wakes
  sleeping tasks only. Neither `SIGCONT` nor `SIGKILL` gets it going, contrary to
  `signal.c:488`; nor does a wait with `WUNTRACED` report it.
- `process/process.c`, `process_wait`: the result of its sleep is ignored, so a
  signal does not end it.
- `process/process.c:742`: the idle loop may free the kernel stack of a thread that
  is still running on it on another CPU.
- `process/process.c`, failing `process_copy`: `process_free` asserts that the
  thread is gone, which it is not.
- `process/signal.c:298`: `sigsuspend` sleeps with an unblocked signal pending, and
  restores the mask before the signal is delivered.
- `process/signal.c`: `signal_discard` does not free the signal object, an exec
  discards a pending `SIGKILL`, and `signal_init` is never called.
- `process/signal.c:341`, `mm/vm.c:590`: return with a lock held on a failure. The
  second is not reached (`NoAssertionFails`).
- `process/vmspace.c:169`: a mapping joined with the area behind it alone moves the
  start of that area and not its length, so the area loses its last pages. A fork
  does not copy them, and the exit ends in the panic of `arch_vm_destroy`.
- `mm/page.c:182`: the comment says that NULL is returned without memory; the code
  panics.
- `fs/fs.c:258`: the rename of a missing file keeps its reference to the directory.
- `fs/buf.c:173`: an uninitialised pointer when every buffer is in use.
- `fs/inode.c:136`: of two tasks with the last two references, each reads a count
  of two and then drops its own, so an inode without links stays. `inode.c:119`
  excludes it. `InodeCache` has this behaviour, and the next four.
- `fs/inode.c:203`: a deadlock. A look-up has the directory and puts the file, for
  which it needs its mutex; an unlink has the file, which has the lower address,
  and waits for the directory.
- `fs/inode.c:113`: linking a file to a name it already has puts an inode that the
  task has locked; the lock returns `-EDEADLK` and the code panics.
- `fs/ext2.c`, `ext2_create`: a number is free again when it is put by a task that
  knew it before and the new file has no name yet. The name then leads to a free
  inode.
- `fs/inode.c:81`: the cache has 32 inodes, and no more is a panic.
- `fs/service.c:201`: `do_chown_locked` does not mark the inode dirty. A failing
  `do_symlink` leaks the new inode.

## 5. What is proved

The theorems hold for every value of the constants that the named `ASSUME`s allow.
Each comes from an inductive invariant `IInv`, which holds at first and is kept
by every step. TLC checked each `IInv` on the instance of the run first.

### Scheduler, mutexes and condition variables

`CondvarProofs` proves for every number of CPUs, tasks, priorities, mutexes and
condition variables, and for any priorities of the tasks:

| theorem | property |
|---|---|
| `TypeCorrect` | `TypeOK`: every priority has a run queue |
| `ListsAreSound` | `OneList`: a task is in the run queue of its priority, in the queue it sleeps on, or in no list |
| `Inheritance` | `PriorityInheritance`: an owner runs at least at the priority of its waiters |
| `BoostsAreExact` | `BoostIsExact`: a priority is the highest of the task's own and those of its mutexes |
| `WakesHighest` | `MutexQueueOrdered` |
| `NoLostWakeup` | `NoStrandedWaiter` |
| `TimersAreFresh` | `NoStaleTimer` |
| `WaitReturnsWithMutex` | the action property `ReturnsWithMutex` |

The assumptions are those of `Sched`, `Mutex` and `Condvar`: there
is at least one priority, the priorities of tasks are in range, mutexes and
condition variables are different wait queues, and `Null` is none of these.

To the properties above `IInv` adds
what a step needs to know about the middle of other calls:

- `KontOK` ties `kont` to the state of the task: a sleeping task is inside a lock
  or a wait, and only the task of the CPU with the lock can be before its sleep.
- `LoopOK` says that a loop belongs to the task of the CPU with the lock, and
  that a chain of raises carries exactly that task's priority.
- `MutexCovers` replaces `PriorityInheritance`, which does not hold in the middle
  of a chain. The priority of a mutex covers each of its waiters, except for the
  one mutex the chain has come to. With `BoostIsExact` it gives
  `PriorityInheritance` as soon as the chain ends.
- `FinalisedOK` and `RelockOK` say which results a task inside a lock can be
  woken with. The second is the reason why a wait returns with the mutex:
  nothing but an unlock ends the sleep in which it locks the mutex again.

The proof is split by operation. `LockProofs` and `SwitchProofs` rest on
`StepProofs`, and `CondvarProofs` on all:

| module | lemmas |
|---|---|
| `StepProofs` | lists: what inserting by priority and removing do to membership, repetition and order; facts that several operations use, and going to sleep |
| `SwitchProofs` | switching, yielding, suspending, exiting, resuming, preemption; waking one task and all; creation and finalisation of mutexes and condition variables |
| `LockProofs` | lock, try, timed lock, what a task does when it returns from a sleep; one link of a chain of raises |
| `CondvarProofs` | unlocking, and the lowering of the owner's priority; the initial states, `NextIInv`, the theorems |

A priority is the least element of a set of numbers. That such a set has one is
`LeastElements`, which the lemmas assume and `CondvarProofs` proves from the
library's theorem on well-founded orders.

### Semaphores and mailboxes

`SemaphoreProofs` is for any number of tasks, initial count and bound,
`MailboxProofs` for any number of tasks and any sizes of buffer and message with
room for one message. The tasks are finitely many, since wake-ups are counted.

| theorem | property |
|---|---|
| `PutIsNotLost` | `NoLostPut`: while tasks sleep, every unit of the count has a task on its way |
| `WakeupIsNotLost` | `NoLostWakeup`: the same for messages and for free places |
| `MailboxIsFifo` | `DeliversInOrder`: the ring implements `Fifo` |

`NoLostPut` counts the woken tasks with the result 0. It is kept because such a
task tests the count again before it sleeps, which needs that it still knows the
arguments of its call, and because a destroyed semaphore leaves no sleepers:
`CallOK` says both. `NoLostWakeup` goes the same way for the two queues of a
mailbox.

`RingOK` says that the pointers of the ring are at multiples of the message
size, as many places apart as there are messages, modulo the capacity. The code
compares a pointer with the end of the last whole message and starts again at 0.
That this is the remainder, for a buffer with a rest at its end too, is the
arithmetic at the beginning of `MailboxProofs`. With it, a receive takes the head
of the abstract queue, a send adds to its end, and every other step leaves the
queue as it is (`NextRefines`).

### The buffer cache

For any number of tasks, blocks and buffers, and blocks read inside any others:

| theorem | property |
|---|---|
| `CountIsExact` | `ReferencesAreCounted` |
| `BlocksHaveOneBuffer` | `OneBufferPerBlock` |
| `CardFollowsQueue` | `CardIsInStep` |
| `CacheIsWrittenThrough` | `WrittenThrough`: a valid buffer that is not locked has the data of its block, so reuse loses nothing |
| `CacheIsBlockStore` | `IsBlockStore`: cache and driver implement `BlockStore` |

Assumed is that tasks and blocks are finitely many and that the blocks have an
order in which a task gets them (`Orders # {}`). In the code it is that of ext2,
from an indirect block to a group descriptor to a bitmap. Without it a task could
ask for a block that it has, and would wait for itself.

`IInv` says who has what. `HeldOK` puts the buffers of a task in the order of
their blocks, so none is there twice. `MutexOK` says that a mutex is owned by the
task that has the buffer and has read it or is reading it, `QueueOK` that the
queue holds the tasks that wait for the card. `ValidOK` says which buffers of a
task are valid by its place in a call, and `DataOK` where memory and disk may
differ: while a write is under way, in the buffer of its task. `BufCacheSteps`
shows that what a task does at its own buffer concerns nobody else, since the
buffers of others have other owners. `BufCacheProofs` has the steps that change
who has a buffer, and the steps of the refinement.

### Only model-checked

- All liveness, which is out of reach of the prover.
- That `Condvar` implements `SleepQueue`. It is the one link between the theorems
  about the scheduler and those about semaphores and mailboxes that is not proved.
- Timers, pipes and processes.
- Memory: `AddressSpace` searches areas and joins blocks by recursion, which the
  prover does not take.

## 6. What is not modelled

The implementation has 172,228 lines. 131,000 of them are lwIP, a third-party
protocol stack kept in the tree; most of the rest is user programs, the C library
and a general-purpose `malloc`. The kernel's own code is about 22,000 lines, of
which a half is hardware access, formats and tables. What follows says of each
part of it why it is not here.

- Interrupt nesting and spinlocks themselves: sections under a spinlock are atomic
  steps, which is right as long as every access is under the lock. The exception
  met, `k_task_exit` removing its timer before it takes the lock, is harmless
  since the timer of a running task is never queued (`NoStaleTimer`). The counter
  `ticks_to_sync` (`time.c:38`) is another: CPUs decrement it without a lock. It
  decides when the tick counter is synchronised, which `Timer` lets happen at any
  time or never.
- Context switching is the step from one task of a CPU to the next; registers and
  stacks are left out.
- Path names and mount points (`fs/path.c`, `fs/fs.c`): a cache in front of the
  services. What the services see of it is that clients keep the numbers they
  were told, which `InodeCache` has.
- Data of files, directories other than the root, block maps, symbolic links,
  devfs: sequential code under the lock of one inode. The block bitmap: a block is
  freed under the lock of the only inode that has it.
- Object pools (`mm/object_pool.c`): each operation is one section of a spinlock on
  the counters of one slab. What pools mean for others, objects that keep the
  state of their last owner, is in `Process`.
- Of memory: reading from a space (`vm_copy_in` and the checks of strings and
  vectors), clearing, which writes as copying does, and the page tables of x86,
  which have the operations of those of ARM.
- Terminals (`tty.c`): line editing on a ring under a spinlock; a reader waits as
  in `SleepQueue`.
- Sockets (`net.c`): calls into lwIP, which would have to be modelled with them.
- System calls: they check arguments and call the parts above, whose actions are
  the calls. The reading of program images, interpreter lines and argument
  vectors is sequential; what an exec does to spaces is in `AddressSpace`.
- Device drivers, architecture code, monitor, start-up: hardware access and code
  without state of its own. The card driver's queue is in `BufCache`.
