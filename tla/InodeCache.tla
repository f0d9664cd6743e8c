----------------------------- MODULE InodeCache -----------------------------
(***************************************************************************)
(* The inode cache (fs/inode.c) under the handlers of the file system      *)
(* service (fs/service.c) and the inodes, the inode bitmap and one         *)
(* directory of ext2 (fs/ext2*.c).                                         *)
(*                                                                         *)
(* A handler is the sequence of the calls it has still to make; each call  *)
(* works on one of the inodes that the handler has in its variables `dir', *)
(* `inode' and, while a name is looked up, `found'.  A call is a step, for *)
(* it has one section under the mutex of an inode or under the cache lock; *)
(* fs_inode_put has one of each.  Clients send the numbers of inodes: those*)
(* they were told, whatever has become of them since.  They are permitted  *)
(* what they ask of the directory.                                         *)
(***************************************************************************)
EXTENDS Integers, Sequences, FiniteSets, SequencesExt

CONSTANTS
  Task,       \* the service tasks
  Entry,      \* the cache, by address: INODE_CACHE_SIZE inodes
  Number,     \* the inodes of the disk
  root,       \* the number of the directory
  Name,       \* the names used in it
  Connection, \* on which files are opened
  LINK_MAX,
  Null

VARIABLES
  list,    \* inode_cache.head
  inode,   \* struct Inode
  disk,    \* of each inode: its bit in the bitmap, its mode and link count
  entries, \* of the directory: the number that a name stands for
  file,    \* the inode of the file that is open on a connection
  task,    \* of each service task: the calls to make and the variables
  known,   \* the numbers that clients have been told
  panic

vars == <<list, inode, disk, entries, file, task, known, panic>>

File == Number \ {root}

Idle == [todo |-> <<>>, dir |-> Null, inode |-> Null, found |-> Null,
         ino |-> Null, name |-> Null, conn |-> Null, answer |-> Null]

\* The cache is empty, and so is the directory.
Init ==
  /\ list = SetToSortSeq(Entry, <)
  /\ inode = [e \in Entry |-> [ino |-> Null, ref |-> 0, valid |-> FALSE, dirty |-> FALSE,
                               mode |-> Null, nlink |-> 0, mutex |-> Null]]
  /\ disk = [n \in Number |-> IF n = root THEN [used |-> TRUE, mode |-> "DIR", nlink |-> 2]
                                          ELSE [used |-> FALSE, mode |-> Null, nlink |-> 0]]
  /\ entries = [name \in Name |-> Null]
  /\ file = [c \in Connection |-> Null]
  /\ task = [t \in Task |-> Idle]
  /\ known = {}
  /\ panic = FALSE

----------------------------------------------------------------------------
(* Calls. *)

Calls(t, call, v) == task[t].todo # <<>> /\ Head(task[t].todo) = <<call, v>>

Rest(t) == Tail(task[t].todo)

Continue(t, todo) == task' = [task EXCEPT ![t].todo = todo]

Stop == panic' = TRUE /\ UNCHANGED <<list, inode, disk, entries, file, task, known>>

On(calls, v) == [i \in 1..Len(calls) |-> <<calls[i], v>>]

Put(v) == On(<<"put", "drop">>, v)

----------------------------------------------------------------------------
(* The cache. *)

Cached(n) == {e \in Entry : inode[e].ino = n}

Reused(e, n) == [inode[e] EXCEPT !.ref = 1, !.ino = n, !.valid = FALSE, !.dirty = FALSE]

Got(t, v, e, got, todo) ==
  /\ inode' = [inode EXCEPT ![e] = got]
  /\ task' = [task EXCEPT ![t].todo = todo, ![t][v] = e]
  /\ UNCHANGED <<list, disk, entries, file, known, panic>>

\* The inode with number n; the last unused inode of the list if it is not in
\* the cache.
Get(t, v, n, todo) ==
  LET unused == SelectSeq(list, LAMBDA e : inode[e].ref = 0)
  IN \/ \E e \in Cached(n) : Got(t, v, e, [inode[e] EXCEPT !.ref = @ + 1], todo)
     \/ /\ Cached(n) = {} /\ unused # <<>>
        /\ Got(t, v, Last(unused), Reused(Last(unused), n), todo)
     \/ Cached(n) = {} /\ unused = <<>> /\ Stop

fs_inode_get(t) ==
  \/ Calls(t, "get", "dir") /\ Get(t, "dir", root, Rest(t))
  \/ Calls(t, "get", "inode") /\ Get(t, "inode", task[t].ino, Rest(t))

LastOf(e) == inode[e].valid /\ inode[e].nlink = 0 /\ inode[e].ref = 1

\* With ext2_inode_free, which asserts that the bit is set.
ext2_inode_delete(n) == [disk EXCEPT ![n] = [used |-> FALSE, mode |-> Null, nlink |-> 0]]

\* fs_inode_put up to the release of the mutex.
fs_inode_put(t, v) ==
  LET e == task[t][v]
      n == inode[e].ino
  IN /\ Calls(t, "put", v)
     /\ \/ inode[e].mutex = t /\ Stop
        \/ /\ inode[e].mutex = Null
           /\ inode[e].dirty \/ (LastOf(e) /\ ~disk[n].used)
           /\ Stop
        \/ /\ inode[e].mutex = Null /\ ~inode[e].dirty
           /\ LastOf(e) => disk[n].used
           /\ IF LastOf(e)
              THEN /\ disk' = ext2_inode_delete(n)
                   /\ inode' = [inode EXCEPT ![e].mode = Null, ![e].valid = FALSE]
              ELSE UNCHANGED <<disk, inode>>
           /\ Continue(t, Rest(t))
           /\ UNCHANGED <<list, entries, file, known, panic>>

ToFront(e) == <<e>> \o SelectSeq(list, LAMBDA d : d # e)

\* The rest of fs_inode_put; after its last one a handler replies.
fs_inode_drop(t, v) ==
  LET e == task[t][v]
  IN /\ Calls(t, "drop", v)
     /\ inode' = [inode EXCEPT ![e].ref = @ - 1]
     /\ list' = IF inode[e].ref = 1 THEN ToFront(e) ELSE list
     /\ IF Rest(t) = <<>>
        THEN /\ task' = [task EXCEPT ![t] = Idle]
             /\ known' = known \cup ({task[t].answer} \ {Null})
        ELSE /\ task' = [task EXCEPT ![t].todo = Rest(t), ![t][v] = Null]
             /\ UNCHANGED known
     /\ UNCHANGED <<disk, entries, file, panic>>

ext2_inode_read(e) ==
  [inode[e] EXCEPT !.mode = disk[inode[e].ino].mode, !.nlink = disk[inode[e].ino].nlink]

\* fs_inode_lock.
Lock(t, v, todo) ==
  LET e == task[t][v]
      copy == IF inode[e].valid THEN inode[e] ELSE ext2_inode_read(e)
  IN \/ inode[e].mutex = t /\ Stop
     \/ /\ inode[e].mutex = Null
        /\ inode' = [inode EXCEPT ![e] = [copy EXCEPT !.mutex = t, !.valid = TRUE]]
        /\ Continue(t, todo)
        /\ UNCHANGED <<list, disk, entries, file, known, panic>>

fs_inode_lock(t, v) == Calls(t, "lock", v) /\ Lock(t, v, Rest(t))

\* ext2_inode_write.
Written(e) ==
  IF inode[e].dirty
  THEN [disk EXCEPT ![inode[e].ino].mode = inode[e].mode,
                    ![inode[e].ino].nlink = inode[e].nlink]
  ELSE disk

Unlock(t, v, todo) ==
  LET e == task[t][v]
  IN IF ~inode[e].valid THEN Stop
     ELSE /\ disk' = Written(e)
          /\ inode' = [inode EXCEPT ![e].dirty = FALSE, ![e].mutex = Null]
          /\ Continue(t, todo)
          /\ UNCHANGED <<list, entries, file, known, panic>>

fs_inode_unlock(t, v) == Calls(t, "unlock", v) /\ Unlock(t, v, Rest(t))

\* `dir' and `inode', the one with the lower address first.
Lower(t) == IF task[t].dir < task[t].inode THEN "dir" ELSE "inode"

Higher(t) == IF task[t].dir < task[t].inode THEN "inode" ELSE "dir"

fs_inode_lock_two(t) ==
  /\ Calls(t, "lock", "two")
  /\ Lock(t, Lower(t), << <<"lock", Higher(t)>> >> \o Rest(t))

fs_inode_unlock_two(t) ==
  /\ Calls(t, "unlock", "two")
  /\ Unlock(t, Higher(t), << <<"unlock", Lower(t)>> >> \o Rest(t))

----------------------------------------------------------------------------
(* What the handlers do with the inodes they have locked. *)

\* A name is looked up: if there is one, its inode is got and put back before
\* the handler goes on.
Found(t, todo) ==
  /\ entries[task[t].name] # Null
  /\ Get(t, "found", entries[task[t].name], Put("found") \o todo)

\* In do_lookup; the number is the answer.
ext2_lookup(t) ==
  LET n == entries[task[t].name]
  IN /\ Calls(t, "lookup", "dir")
     /\ \/ Found(t, << <<"answer", n>> >> \o Rest(t))
        \/ n = Null /\ Continue(t, Rest(t))
           /\ UNCHANGED <<list, inode, disk, entries, file, known, panic>>

Answer(t, n) ==
  /\ Calls(t, "answer", n)
  /\ task' = [task EXCEPT ![t].answer = n, ![t].todo = Rest(t)]
  /\ UNCHANGED <<list, inode, disk, entries, file, known, panic>>

\* The first free bit is taken, and ext2_create goes on with it.
ext2_inode_alloc(t, free) ==
  LET n == CHOOSE n \in free : \A m \in free : n <= m
  IN /\ disk' = [disk EXCEPT ![n].used = TRUE]
     /\ task' = [task EXCEPT ![t].ino = n, ![t].answer = n,
          ![t].todo = On(<<"init", "get", "lock", "enter", "unlock">>, "inode")
                      \o On(<<"unlock">>, "dir") \o Put("inode") \o Put("dir")]
     /\ UNCHANGED <<list, inode, entries, file, known, panic>>

do_create_locked(t) ==
  LET free == {n \in Number : ~disk[n].used}
  IN /\ Calls(t, "create", "dir")
     /\ \/ Found(t, Rest(t))
        \/ entries[task[t].name] = Null /\ free # {} /\ ext2_inode_alloc(t, free)
        \/ /\ entries[task[t].name] = Null /\ free = {}
           /\ Continue(t, Rest(t))
           /\ UNCHANGED <<list, inode, disk, entries, file, known, panic>>

ext2_inode_init(t) ==
  /\ Calls(t, "init", "inode")
  /\ disk' = [disk EXCEPT ![task[t].ino] = [@ EXCEPT !.mode = "REG", !.nlink = 0]]
  /\ Continue(t, Rest(t))
  /\ UNCHANGED <<list, inode, entries, file, known, panic>>

\* ext2_link knows the type of the inode: it has a mode.
Linkable(e) == inode[e].mode = "REG"

\* A new entry for an inode.
Enter(t, nlink) ==
  LET e == task[t].inode
  IN /\ entries' = [entries EXCEPT ![task[t].name] = inode[e].ino]
     /\ inode' = [inode EXCEPT ![e].nlink = nlink, ![e].dirty = TRUE]
     /\ Continue(t, Rest(t))
     /\ UNCHANGED <<list, disk, file, known, panic>>

\* ext2_create from ext2_link on: the name was looked up with the directory
\* locked, and the new inode has one link.
ext2_create(t) ==
  /\ Calls(t, "enter", "inode")
  /\ IF Linkable(task[t].inode) THEN Enter(t, 1) ELSE Stop

\* do_link_locked.
ext2_link(t) ==
  LET e == task[t].inode
      free == entries[task[t].name] = Null
  IN /\ Calls(t, "link", "inode")
     /\ \/ inode[e].nlink < LINK_MAX /\ Found(t, Rest(t))
        \/ inode[e].nlink < LINK_MAX /\ free /\ Linkable(e) /\ Enter(t, inode[e].nlink + 1)
        \/ /\ inode[e].nlink >= LINK_MAX \/ (free /\ ~Linkable(e))
           /\ Continue(t, Rest(t))
           /\ UNCHANGED <<list, inode, disk, entries, file, known, panic>>

\* The entry with the name is one of this inode.
Names(t) == entries[task[t].name] = inode[task[t].inode].ino

ext2_unlink(t) ==
  LET e == task[t].inode
  IN /\ Calls(t, "unlink", "inode")
     /\ IF Names(t)
        THEN /\ entries' = [entries EXCEPT ![task[t].name] = Null]
             /\ inode' = [inode EXCEPT ![e].nlink = @ - 1, ![e].dirty = TRUE]
        ELSE UNCHANGED <<entries, inode>>
     /\ Continue(t, Rest(t))
     /\ UNCHANGED <<list, disk, file, known, panic>>

\* fs_inode_duplicate.
Duplicated(e) == [inode EXCEPT ![e].ref = @ + 1]

\* The file is not opened if its mode forbids what is asked.
do_open_locked(t) ==
  /\ Calls(t, "open", "inode")
  /\ \/ UNCHANGED <<file, inode>>
     \/ /\ file' = [file EXCEPT ![task[t].conn] = task[t].inode]
        /\ inode' = Duplicated(task[t].inode)
  /\ Continue(t, Rest(t))
  /\ UNCHANGED <<list, disk, entries, known, panic>>

----------------------------------------------------------------------------
(* The handlers. *)

Handle(t, request, todo) ==
  /\ task[t] = Idle
  /\ task' = [task EXCEPT ![t] = [request EXCEPT !.todo = todo]]
  /\ UNCHANGED <<list, inode, disk, entries, known, panic>>

do_lookup(t, name) ==
  /\ Handle(t, [Idle EXCEPT !.name = name],
            On(<<"get", "lock", "lookup", "unlock">>, "dir") \o Put("dir"))
  /\ UNCHANGED file

do_create(t, name) ==
  /\ Handle(t, [Idle EXCEPT !.name = name],
            On(<<"get", "lock", "create", "unlock">>, "dir") \o Put("dir"))
  /\ UNCHANGED file

Both(call) ==
  << <<"get", "dir">>, <<"get", "inode">>, <<"lock", "two">>, <<call, "inode">>,
     <<"unlock", "two">> >> \o Put("dir") \o Put("inode")

do_link(t, n, name) ==
  /\ Handle(t, [Idle EXCEPT !.ino = n, !.name = name], Both("link"))
  /\ UNCHANGED file

do_unlink(t, n, name) ==
  /\ Handle(t, [Idle EXCEPT !.ino = n, !.name = name], Both("unlink"))
  /\ UNCHANGED file

\* do_stat, do_chmod and the others that lock an inode for what the model
\* leaves out.
do_stat(t, n) ==
  /\ Handle(t, [Idle EXCEPT !.ino = n],
            On(<<"get", "lock", "unlock">>, "inode") \o Put("inode"))
  /\ UNCHANGED file

\* Whether there is an inode is answered without locking it.
do_access(t, n) ==
  /\ Handle(t, [Idle EXCEPT !.ino = n], On(<<"get">>, "inode") \o Put("inode"))
  /\ UNCHANGED file

do_open(t, n, c) ==
  /\ file[c] = Null /\ \A u \in Task : task[u].conn # c
  /\ Handle(t, [Idle EXCEPT !.ino = n, !.conn = c],
            On(<<"get", "lock", "open", "unlock">>, "inode") \o Put("inode"))
  /\ UNCHANGED file

do_close(t, c) ==
  /\ file[c] # Null /\ \A u \in Task : task[u].conn # c
  /\ Handle(t, [Idle EXCEPT !.inode = file[c]], Put("inode"))
  /\ file' = [file EXCEPT ![c] = Null]

----------------------------------------------------------------------------

Cache(t) ==
  \/ fs_inode_get(t)
  \/ \E v \in {"dir", "inode", "found"} : fs_inode_put(t, v) \/ fs_inode_drop(t, v)
  \/ \E v \in {"dir", "inode"} : fs_inode_lock(t, v) \/ fs_inode_unlock(t, v)
  \/ fs_inode_lock_two(t) \/ fs_inode_unlock_two(t)

Ext2(t) ==
  \/ ext2_lookup(t) \/ \E n \in File : Answer(t, n)
  \/ do_create_locked(t) \/ ext2_inode_init(t) \/ ext2_create(t)
  \/ ext2_link(t) \/ ext2_unlink(t) \/ do_open_locked(t)

fs_service_task(t) ==
  \/ \E name \in Name : do_lookup(t, name) \/ do_create(t, name)
  \/ \E n \in known :
       \/ do_stat(t, n) \/ do_access(t, n)
       \/ \E name \in Name : do_link(t, n, name) \/ do_unlink(t, n, name)
       \/ \E c \in Connection : do_open(t, n, c)
  \/ \E c \in Connection : do_close(t, c)

Next == ~panic /\ \E t \in Task : Cache(t) \/ Ext2(t) \/ fs_service_task(t)

Spec == Init /\ [][Next]_vars

----------------------------------------------------------------------------

\* An inode that fs_inode_put deletes is allocated: ext2_bitmap_free, which it
\* ends in, asserts that the bit it clears is set.
FreedIsAllocated ==
  \A t \in Task, v \in {"dir", "inode", "found"} :
    LET e == task[t][v]
    IN Calls(t, "put", v) /\ inode[e].mutex = Null /\ LastOf(e) => disk[inode[e].ino].used
=============================================================================
