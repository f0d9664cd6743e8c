---------------------------- MODULE AddressSpace ---------------------------
(***************************************************************************)
(* Address spaces (kernel/mm/vm.c, kernel/process/vmspace.c, the page      *)
(* tables of arch/arm/mm/arch_vm.c) and the calls that change them: fork,  *)
(* exec, exit and mmap (kernel/process/process.c, exec.c, syscall.c).      *)
(*                                                                         *)
(* vm_lock is taken for one page at a time, so a call is a list of steps   *)
(* still to make, todo, and other processes run between them.  A space is  *)
(*   pgtab  the first page of its page table;                              *)
(*   l2     the page of its second-level table, made when first needed;    *)
(*   pte    page and flags of each address;                                *)
(*   areas  the list of mapped areas, in order.                            *)
(* Addresses are counted in pages; one second-level table covers them.     *)
(* A space is loaded, and the translations cached by the processor are     *)
(* dropped, at each switch to its process: what a page table says holds.   *)
(***************************************************************************)
EXTENDS PageAlloc

CONSTANTS Process,
          init_process,    \* the first process, which does not exit
          Address,
          VIRT_KERNEL_BASE,
          Segments, Stack, \* what a program maps; each has addr, n, flags
          Requests,        \* what programs ask of mmap; addr 0 is no wish
          Text,            \* what a program and its arguments are in memory
          Written,         \* where programs write, and have buffers
          MaxCalls         \* a bound on the calls that are made

ASSUME AddressAssumption ==
  /\ init_process \in Process
  /\ VIRT_KERNEL_BASE \in Nat /\ Address = 1 .. VIRT_KERNEL_BASE - 1
  /\ Written \subseteq Address /\ Text \in Value /\ MaxCalls \in Nat

VARIABLES mem,   \* the physical memory
          proc,  \* of each process: vm, the space that is made or destroyed
                 \* beside it, the child of a fork, and the steps to make
          calls  \* how many calls were made

vars == <<mem, proc, calls>>

PGTAB_ORDER == 1

NoSpace == [pgtab |-> Null, l2 |-> Null, areas |-> <<>>,
            pte |-> [a \in Address |-> [page |-> Null, flags |-> {}]]]

NoProcess == [vm |-> NoSpace, other |-> NoSpace, child |-> Null, todo |-> <<>>]

----------------------------------------------------------------------------
(* Pages of a space.  S has the memory m and the space v. *)

\* arch_vm_lookup with alloc: the second-level table exists after it.
arch_vm_lookup(S) ==
  IF S.v.l2 # Null THEN S
  ELSE LET M == page_alloc_block(S.m, 0, "PGTAB")
       IN  IF M.panic # "none" THEN [S EXCEPT !.m = M]
           ELSE LET page == Allocated(S.m, 0)
                IN  [m |-> [M EXCEPT !.ref[page] = @ + 1], v |-> [S.v EXCEPT !.l2 = page]]

vm_page_remove(S, va) ==
  LET page == S.v.pte[va].page
  IN  IF page = Null THEN S
      ELSE [m |-> page_dec_ref(page_assert(S.m, page, "ANON"), page, 0),
            v |-> [S.v EXCEPT !.pte[va] = NoSpace.pte[va]]]

\* Mutant: the reference is counted after the old mapping is removed.
vm_page_insert_late(S, page, va, flags) ==
  LET Old == vm_page_remove(arch_vm_lookup(S), va)
  IN  [m |-> [Old.m EXCEPT !.ref[page] = @ + 1],
       v |-> [Old.v EXCEPT !.pte[va] = [page |-> page, flags |-> flags]]]

vm_page_insert(S, page, va, flags) ==
  LET Table == arch_vm_lookup(S)
      Old   == vm_page_remove([Table EXCEPT !.m.ref[page] = @ + 1], va)
  IN  IF Table.m.panic # "none" THEN Table
      ELSE [Old EXCEPT !.v.pte[va] = [page |-> page, flags |-> flags]]

\* Mutant: the copy does not get what the page holds.
vm_page_cow_blank(S, va) ==
  LET pte   == S.v.pte[va]
      flags == (pte.flags \ {"COW"}) \cup {"WRITE"}
      M     == page_alloc_block(S.m, 0, "ANON")
  IN  IF S.m.ref[pte.page] = 1 THEN vm_page_insert(S, pte.page, va, flags)
      ELSE IF M.panic # "none" THEN [S EXCEPT !.m = M]
      ELSE vm_page_insert([S EXCEPT !.m = M], Allocated(S.m, 0), va, flags)

vm_page_cow(S, va) ==
  LET pte   == S.v.pte[va]
      flags == (pte.flags \ {"COW"}) \cup {"WRITE"}
      M     == page_alloc_block(S.m, 0, "ANON")
      copy  == Allocated(S.m, 0)
  IN  IF S.m.ref[pte.page] = 1 THEN vm_page_insert(S, pte.page, va, flags)
      ELSE IF M.panic # "none" THEN [S EXCEPT !.m = M]
      ELSE vm_page_insert([S EXCEPT !.m = [M EXCEPT !.data[copy] = M.data[pte.page]]],
                          copy, va, flags)

vm_page_lookup_cow(S, va) ==
  LET Found == [S EXCEPT !.m = page_assert(S.m, S.v.pte[va].page, "ANON")]
  IN  IF S.v.pte[va].page = Null THEN S
      ELSE IF "COW" \in S.v.pte[va].flags THEN vm_page_cow(Found, va) ELSE Found

vm_flags_check(flags, wanted) ==
  wanted \subseteq IF "COW" \in flags THEN flags \cup {"WRITE"} ELSE flags

----------------------------------------------------------------------------
(* Areas. *)

End(area) == area.start + area.length

\* Where vmspace_map puts n pages, from va on: the address, and the place in the
\* list of areas to insert before.
RECURSIVE Place(_, _, _, _)
Place(areas, va, n, i) ==
  IF i > Len(areas) \/ va + n <= areas[i].start THEN [va |-> va, at |-> i]
  ELSE Place(areas, IF va < End(areas[i]) THEN End(areas[i]) ELSE va, n, i + 1)

FindPlace(areas, r) == Place(areas, IF r.addr = 0 THEN 1 ELSE r.addr, r.n, 1)

JoinsPrev(areas, r, place) ==
  /\ place.at > 1
  /\ End(areas[place.at - 1]) = place.va /\ areas[place.at - 1].flags = r.flags

JoinsNext(areas, r, place) ==
  /\ place.at <= Len(areas)
  /\ areas[place.at].start = place.va + r.n /\ areas[place.at].flags = r.flags


\* The pages join the area before, the one behind, both or none.  Joined with
\* the one behind only, that one's length stays as it was.
AddArea(areas, r, place) ==
  LET i == place.at
  IN  IF JoinsPrev(areas, r, place) /\ JoinsNext(areas, r, place)
      THEN RemoveAt([areas EXCEPT ![i - 1].length = @ + areas[i].length + r.n], i)
      ELSE IF JoinsPrev(areas, r, place) THEN [areas EXCEPT ![i - 1].length = @ + r.n]
      ELSE IF JoinsNext(areas, r, place) THEN [areas EXCEPT ![i].start = place.va]
      ELSE InsertAt(areas, i, [start |-> place.va, length |-> r.n, flags |-> r.flags])

----------------------------------------------------------------------------
(* The steps of calls. *)

\* The steps of vmspace_map(s, r): one for each page.
Map(s, r) == [k \in 1 .. r.n |-> [op |-> "alloc", s |-> s, r |-> r, k |-> k - 1]]

Load(r) == <<[op |-> "load", va |-> r.addr]>>

Put(va) == <<[op |-> "put", va |-> va]>>

\* Strings, and later vectors, go to the top of the stack.
PutArgs == Put(Stack.addr + Stack.n - 1)

load_elf ==
  FlattenSeq([i \in DOMAIN Segments |-> Map("other", Segments[i]) \o Load(Segments[i])])

process_load_binary ==
  FlattenSeq([i \in DOMAIN Segments |-> Map("other", Segments[i]) \o Put(Segments[i].addr)])
    \o Map("other", Stack)

MayFail == <<[op |-> "may_fail"]>>

Destroy == <<[op |-> "free", k |-> 0]>>

Create == <<[op |-> "create"]>>

\* process_create, for the first process.
Init ==
  /\ mem = page_init /\ calls = 0
  /\ proc = [p \in Process |->
              IF p # init_process THEN NoProcess
              ELSE [NoProcess EXCEPT !.todo =
                      Create \o process_load_binary \o <<[op |-> "begin"]>>]]

\* Process p makes its next step, which is an op.
Next1(p, op) == proc[p].todo # <<>> /\ Head(proc[p].todo).op = op

Op(p) == Head(proc[p].todo)

\* The step leaves the memory and the space s of p as S says, and steps to make.
Does(p, s, S, todo) ==
  /\ mem' = S.m
  /\ proc' = [proc EXCEPT ![p] = [(IF s = "vm" THEN [@ EXCEPT !.vm = S.v]
                                              ELSE [@ EXCEPT !.other = S.v])
                                  EXCEPT !.todo = todo]]

Space(p, s) == [m |-> mem, v |-> IF s = "vm" THEN proc[p].vm ELSE proc[p].other]

vm_space_create(p) ==
  /\ Next1(p, "create")
  /\ LET M    == page_alloc_block(mem, PGTAB_ORDER, "VM")
         page == Allocated(mem, PGTAB_ORDER)
     IN  IF M.panic # "none" THEN mem' = M /\ UNCHANGED proc
         ELSE Does(p, "other", [m |-> [M EXCEPT !.ref[page] = @ + 1],
                                v |-> [NoSpace EXCEPT !.pgtab = page]], Tail(proc[p].todo))

\* A page of vm_user_alloc; with the last, vmspace_map adds the area.
vm_user_alloc(p) ==
  /\ Next1(p, "alloc")
  /\ LET op    == Op(p)
         S     == Space(p, op.s)
         place == FindPlace(S.v.areas, op.r)
         M     == page_alloc_block(mem, 0, "ANON")
         New   == vm_page_insert([S EXCEPT !.m = M], Allocated(mem, 0), place.va + op.k,
                                 op.r.flags)
     IN  IF M.panic # "none" THEN mem' = M /\ UNCHANGED proc
         ELSE Does(p, op.s,
                   IF op.k + 1 < op.r.n THEN New
                   ELSE [New EXCEPT !.v.areas = AddArea(@, op.r, place)], Tail(proc[p].todo))

Write(M, page, v) == [M EXCEPT !.data[page] = v]

\* Mutant: the file is read into the space the process has, not the one it makes.
vm_space_load_file_current(p) ==
  /\ Next1(p, "load")
  /\ Does(p, "other", Space(p, "other"),
          <<[op |-> "fill", page |-> proc[p].vm.pte[Op(p).va].page]>> \o Tail(proc[p].todo))

\* vm_space_load_file looks a page up and releases the lock; the file service
\* writes into the page later.
vm_space_load_file(p) ==
  /\ Next1(p, "load")
  /\ LET page == proc[p].other.pte[Op(p).va].page
     IN  IF page = Null THEN mem' = Panic(mem, "vm_lock is kept") /\ UNCHANGED proc
         ELSE Does(p, "other", Space(p, "other"),
                   <<[op |-> "fill", page |-> page]>> \o Tail(proc[p].todo))

FileIsRead(p) ==
  /\ Next1(p, "fill")
  /\ \/ Does(p, "other", [m |-> Write(mem, Op(p).page, Text), v |-> proc[p].other],
             Tail(proc[p].todo))
     \/ Does(p, "other", Space(p, "other"), Destroy)

\* vm_copy_out of one page.
CopyOut(S, va, v) ==
  LET Found == vm_page_lookup_cow(S, va)
  IN  IF S.v.pte[va].page = Null \/ Found.m.panic # "none" THEN Found
      ELSE [Found EXCEPT !.m = Write(Found.m, Found.v.pte[va].page, v)]

user_stack_put(p) ==
  /\ Next1(p, "put")
  /\ Does(p, "other", CopyOut(Space(p, "other"), Op(p).va, Text), Tail(proc[p].todo))

\* A service answers a call with data.
vm_copy_out(p) ==
  /\ Next1(p, "copy")
  /\ Does(p, "vm", CopyOut(Space(p, "vm"), Op(p).va, Op(p).v), Tail(proc[p].todo))

\* A page of vm_user_clone that is not shared by intent: no caller does.  The
\* memory, and the spaces of parent and child after it.
ClonedPage(p, va) ==
  LET pte   == proc[p].vm.pte[va]
      flags == IF "WRITE" \in pte.flags THEN (pte.flags \ {"WRITE"}) \cup {"COW"}
                                        ELSE pte.flags
      Found == [m |-> page_assert(mem, pte.page, "ANON"), v |-> proc[p].vm]
      Src   == IF "WRITE" \in pte.flags THEN vm_page_insert(Found, pte.page, va, flags)
                                        ELSE Found
      New   == vm_page_insert([m |-> Src.m, v |-> proc[p].other], pte.page, va, flags)
  IN  [m |-> New.m, vm |-> Src.v, other |-> New.v]

\* vm_space_clone: area i, page k of it.  A page that is not there ends the fork.
vm_user_clone(p) ==
  /\ Next1(p, "clone")
  /\ LET i     == Op(p).i
         k     == Op(p).k
         area  == proc[p].vm.areas[i]
         C     == ClonedPage(p, area.start + k)
         other == IF k = 0 THEN [C.other EXCEPT !.areas = Append(@, area)] ELSE C.other
         rest  == IF k + 1 < area.length
                  THEN <<[op |-> "clone", i |-> i, k |-> k + 1]>>
                  ELSE IF i < Len(proc[p].vm.areas)
                  THEN <<[op |-> "clone", i |-> i + 1, k |-> 0]>> ELSE <<>>
     IN  IF proc[p].vm.pte[area.start + k].page = Null
         THEN Does(p, "other", Space(p, "other"), Destroy)
         ELSE /\ mem' = C.m
              /\ proc' = [proc EXCEPT ![p].vm = C.vm, ![p].other = other,
                                      ![p].todo = rest \o Tail(proc[p].todo)]

\* A page of vm_space_destroy.
vm_user_free(p) ==
  /\ Next1(p, "free")
  /\ LET areas == proc[p].other.areas
         k     == Op(p).k
         New   == vm_page_remove(Space(p, "other"), areas[1].start + k)
     IN  IF areas = <<>>
         THEN Does(p, "other", Space(p, "other"), <<[op |-> "tables"]>>)
         ELSE IF k + 1 < areas[1].length
         THEN Does(p, "other", New, <<[op |-> "free", k |-> k + 1]>>)
         ELSE Does(p, "other", [New EXCEPT !.v.areas = Tail(@)], Destroy)

\* The second-level tables, then the table itself.
arch_vm_destroy(p) ==
  /\ Next1(p, "tables")
  /\ LET v == proc[p].other
     IN  IF \E a \in Address : v.pte[a].page # Null
         THEN mem' = Panic(mem, "pte still in use") /\ UNCHANGED proc
         ELSE IF v.l2 # Null
         THEN Does(p, "other", [m |-> page_dec_ref(mem, v.l2, 0), v |-> [v EXCEPT !.l2 = Null]],
                   proc[p].todo)
         ELSE /\ mem' = page_dec_ref(mem, v.pgtab, PGTAB_ORDER)
              /\ proc' = [proc EXCEPT ![p].other = NoSpace, ![p].child = Null, ![p].todo = <<>>]

----------------------------------------------------------------------------
(* Calls. *)

\* p runs its program.
InUserMode(p) == proc[p].vm.pgtab # Null /\ proc[p].todo = <<>>

\* p enters the kernel.
Calls(p) == InUserMode(p) /\ calls < MaxCalls /\ calls' = calls + 1

\* The arguments, the path or the program of an exec may turn out bad: goto out2.
Fails(p) ==
  /\ Next1(p, "may_fail")
  /\ Does(p, "other", Space(p, "other"), Destroy)

GoesOn(p) ==
  /\ Next1(p, "may_fail")
  /\ Does(p, "other", Space(p, "other"), Tail(proc[p].todo))

\* process_create resumes the first process.
process_create(p) ==
  /\ Next1(p, "begin")
  /\ proc' = [proc EXCEPT ![p] = [NoProcess EXCEPT !.vm = proc[p].other]]
  /\ UNCHANGED mem

\* copy_in_args, user_stack_init, resolve, user_stack_finalize, load_elf.
process_exec(p) ==
  /\ Calls(p)
  /\ Does(p, "vm", Space(p, "vm"),
          Create \o MayFail \o Map("other", Stack) \o PutArgs \o MayFail \o PutArgs
            \o load_elf \o <<[op |-> "swap"]>>)

\* The new space is loaded, the old one destroyed.
ExecIsDone(p) ==
  /\ Next1(p, "swap")
  /\ proc' = [proc EXCEPT ![p].vm = proc[p].other, ![p].other = proc[p].vm, ![p].todo = Destroy]
  /\ UNCHANGED mem

\* process_alloc finds room for a child.
process_copy(p, child) ==
  /\ Calls(p) /\ proc[child] = NoProcess /\ \A q \in Process : proc[q].child # child
  /\ proc' = [proc EXCEPT ![p].child = child,
                          ![p].todo = Create \o <<[op |-> "clone", i |-> 1, k |-> 0],
                                                   [op |-> "start"]>>]
  /\ UNCHANGED mem

ForkIsDone(p) ==
  /\ Next1(p, "start")
  /\ proc' = [proc EXCEPT ![proc[p].child].vm = proc[p].other,
                          ![p] = [NoProcess EXCEPT !.vm = proc[p].vm]]
  /\ UNCHANGED mem

process_destroy(p) ==
  /\ Calls(p) /\ p # init_process
  /\ proc' = [proc EXCEPT ![p] = [NoProcess EXCEPT !.other = proc[p].vm, !.todo = Destroy]]
  /\ UNCHANGED mem

\* The program is told an error when there is no room.
sys_mmap(p, r) ==
  /\ Calls(p) /\ FindPlace(proc[p].vm.areas, r).va + r.n <= VIRT_KERNEL_BASE
  /\ Does(p, "vm", Space(p, "vm"), Map("vm", r))

\* A call with a buffer at va; data for it comes later.
vm_user_check_buf(p, va, wanted, v) ==
  LET pte == proc[p].vm.pte[va]
  IN  /\ Calls(p) /\ pte.page # Null
      /\ Does(p, "vm", vm_page_lookup_cow(Space(p, "vm"), va),
              IF vm_flags_check(pte.flags, wanted) /\ wanted = {"WRITE"}
              THEN <<[op |-> "copy", va |-> va, v |-> v]>> ELSE <<>>)

\* A write the page table does not allow.
vm_handle_fault(p, va) ==
  /\ InUserMode(p) /\ "COW" \in proc[p].vm.pte[va].flags
  /\ Does(p, "vm", vm_page_cow(Space(p, "vm"), va), <<>>) /\ UNCHANGED calls

\* The program writes to memory.
Store(p, va, v) ==
  /\ InUserMode(p) /\ "WRITE" \in proc[p].vm.pte[va].flags
  /\ mem' = Write(mem, proc[p].vm.pte[va].page, v)
  /\ UNCHANGED <<proc, calls>>

Step(p) ==
  \/ vm_space_create(p) \/ vm_user_alloc(p) \/ vm_space_load_file(p) \/ FileIsRead(p)
  \/ user_stack_put(p) \/ vm_copy_out(p) \/ vm_user_clone(p) \/ vm_user_free(p)
  \/ arch_vm_destroy(p) \/ Fails(p) \/ GoesOn(p)
  \/ process_create(p) \/ ExecIsDone(p) \/ ForkIsDone(p)

Program(p) ==
  \/ process_exec(p) \/ process_destroy(p)
  \/ \E child \in Process : process_copy(p, child)
  \/ \E r \in Requests : sys_mmap(p, r)
  \/ \E va \in Written :
       \/ vm_handle_fault(p, va)
       \/ vm_user_check_buf(p, va, {"READ"}, Zero)
       \/ \E v \in Value : Store(p, va, v) \/ vm_user_check_buf(p, va, {"WRITE"}, v)

\* After a panic nothing happens.
Next ==
  /\ mem.panic = "none"
  /\ \E p \in Process : \/ Step(p) /\ UNCHANGED calls
                        \/ Program(p)

Spec == Init /\ [][Next]_vars

----------------------------------------------------------------------------
(* Properties. *)

SpaceOf(x) == IF x[2] = "vm" THEN proc[x[1]].vm ELSE proc[x[1]].other

Spaces == {x \in Process \X {"vm", "other"} : SpaceOf(x).pgtab # Null}

\* The entries of all page tables that map a page.
Entries == {e \in Spaces \X Address : SpaceOf(e[1]).pte[e[2]].page # Null}

Entry(e) == SpaceOf(e[1]).pte[e[2]]

\* The blocks that are page tables, each with its space.
TableBlocks == {<<SpaceOf(x).pgtab, PGTAB_ORDER, x>> : x \in Spaces}
                 \cup {<<SpaceOf(x).l2, 0, x>> : x \in {y \in Spaces : SpaceOf(y).l2 # Null}}

FreeBlocks == UNION {{<<page, o>> : page \in Range(mem.free[o])} : o \in Order}

\* The kernel stops for want of memory only: page_assert, the assertions of the
\* allocator and the check of arch_vm_destroy for entries still in use never fail,
\* however forks, execs, exits and faults of several processes mix.
NoAssertionFails == mem.panic \in {"none", "out of memory"}

PagesOf(blocks) == UNION {Block(b[1], b[2]) : b \in blocks}

TableSize == MapThenSumSet(LAMBDA b : 2^b[2], TableBlocks)

FreeSize == MapThenSumSet(LAMBDA o : 2^o * Len(mem.free[o]), Order)

\* Each page behind the kernel has one use, since the parts have all the pages and no
\* more: it is free, in one block, or a table of one space, or mapped.  ref_count is
\* the number of entries that map it, also in the middle of a fork or of the end of a
\* space: nothing leaks, nothing is freed while it is used.
PagesAreCounted ==
  mem.panic = "none" =>
    LET mapped == {Entry(e).page : e \in Entries}
    IN  /\ mapped \cup PagesOf(TableBlocks) \cup PagesOf(FreeBlocks) = FirstFree .. page_count - 1
        /\ Cardinality(mapped) + TableSize + FreeSize = page_count - FirstFree
        /\ \A page \in mapped :
             mem.ref[page] = Cardinality({e \in Entries : Entry(e).page = page})
        /\ \A page \in PagesOf(FreeBlocks) : mem.ref[page] = 0

\* Two free halves of a block are one block: page_free_block joins them whatever the
\* order in which pages come back, so that a page table, which takes two pages in a
\* row, can be had whenever two buddies are free.
BuddiesAreJoined ==
  \A <<page, o>> \in FreeBlocks :
    /\ page % 2^o = 0
    /\ o < PAGE_ORDER_MAX => <<page_buddy(page, o), o>> \notin FreeBlocks


Unmapped == Null

\* What a program finds in memory after process_create and after process_exec.
InitImage(put) ==
  [a \in Address |->
     IF \E i \in DOMAIN Segments : a = Segments[i].addr THEN Text
     ELSE IF \E i \in DOMAIN Segments : a \in Segments[i].addr .. Segments[i].addr + Segments[i].n - 1
     THEN Zero
     ELSE IF a \notin Stack.addr .. Stack.addr + Stack.n - 1 THEN Unmapped
     ELSE IF put /\ a = Stack.addr + Stack.n - 1 THEN Text ELSE Zero]

\* What programs find in their memories.
Memory ==
  [p \in Process |-> [a \in Address |->
     LET page == proc[p].vm.pte[a].page IN IF page = Null THEN Unmapped ELSE mem.data[page]]]

\* What a program has written stays: a page it has mapped changes by its own store,
\* which leaves the page tables alone, by the answer to its call, at the buffer it
\* named, or by its exec or exit.  No fault, fork or check of a buffer alters it.
ChangesOnRequest ==
  [][LET old == Memory
         new == Memory'
     IN  \A p \in Process, a \in Address :
           new[p][a] # old[p][a] /\ old[p][a] # Unmapped =>
             \/ InUserMode(p) /\ proc' = proc
             \/ Next1(p, "copy") /\ Op(p).va = a /\ new[p][a] = Op(p).v
             \/ Next1(p, "swap")
             \/ new[p] = [b \in Address |-> Unmapped] /\ proc'[p].todo = Destroy]_vars

Private ==
  INSTANCE PrivateMemory WITH
    FirstImage <- InitImage(FALSE), Image <- InitImage(TRUE), memory <- Memory

\* Copy-on-write cannot be told from copying: to programs, the pages that processes
\* share are a private memory for each, which a fork copies at one moment and only
\* its owner changes, though the kernel gets there page by page.
MemoryIsPrivate == Private!Spec

============================================================================
