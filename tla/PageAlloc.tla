----------------------------- MODULE PageAlloc -----------------------------
(***************************************************************************)
(* The allocator of physical pages (kernel/mm/page.c): a binary buddy      *)
(* system.  An operation is one section of page_lock inside a section of   *)
(* its caller, so it is an operator on the memory M:                       *)
(*   free   the list of free blocks of each order, named by first page;    *)
(*          the bitmap of an order always has the same blocks;             *)
(*   ref    ref_count of each page;                                        *)
(*   tag    debug_tag, or Null;                                            *)
(*   data   what a page holds, one value for all its bytes;                *)
(*   panic  why the kernel stopped, or "none".                             *)
(***************************************************************************)
EXTENDS Integers, FiniteSetsExt, SequencesExt

CONSTANTS page_count, PAGE_ORDER_MAX,
          FirstFree,  \* the first page behind the kernel and the boot allocations
          Value,      \* what a page can hold
          Zero, Null

ASSUME PageAssumption ==
  /\ page_count \in Nat /\ PAGE_ORDER_MAX \in Nat /\ FirstFree \in 0 .. page_count
  /\ page_count % 2^PAGE_ORDER_MAX = 0
  /\ Zero \in Value

Page  == 0 .. page_count - 1
Order == 0 .. PAGE_ORDER_MAX

\* The pages of a block.
Block(page, order) == page .. page + 2^order - 1

Panic(M, why) == [M EXCEPT !.panic = IF @ = "none" THEN why ELSE @]

----------------------------------------------------------------------------

page_buddy(page, order) ==
  IF (page \div 2^order) % 2 = 0 THEN page + 2^order ELSE page - 2^order

\* The order of the block that is taken for an allocation.
FoundOrder(M, order) == Min({o \in order .. PAGE_ORDER_MAX : M.free[o] # <<>>})

\* The first page of the block that page_alloc_block returns: of a larger block,
\* the last part.
Allocated(M, order) ==
  LET o == FoundOrder(M, order) IN Head(M.free[o]) + 2^o - 2^order

\* Mutant: the halves left over by a split keep the order of the whole.
page_alloc_block_unsplit(M, order, tag) ==
  IF \A o \in order .. PAGE_ORDER_MAX : M.free[o] = <<>> THEN Panic(M, "out of memory")
  ELSE LET o    == FoundOrder(M, order)
           page == Allocated(M, order)
       IN  [M EXCEPT !.free[o] = Tail(@),
                     !.tag  = [p \in Page |-> IF p \in Block(page, order) THEN tag ELSE @[p]],
                     !.data = [p \in Page |-> IF p \in Block(page, order) THEN Zero ELSE @[p]]]

\* With PAGE_ALLOC_ZERO, as all callers of this model have it.  When nothing is
\* left the code panics, it does not return NULL.
page_alloc_block(M, order, tag) ==
  IF \A o \in order .. PAGE_ORDER_MAX : M.free[o] = <<>> THEN Panic(M, "out of memory")
  ELSE LET o     == FoundOrder(M, order)
           block == Head(M.free[o])
           page  == Allocated(M, order)
           New   == [M EXCEPT
             !.free = [i \in Order |-> IF i = o THEN Tail(@[i])
                                       ELSE IF order <= i /\ i < o
                                       THEN <<block + 2^o - 2^(i + 1)>> \o @[i]
                                       ELSE @[i]],
             !.tag  = [p \in Page |-> IF p \in Block(page, order) THEN tag ELSE @[p]],
             !.data = [p \in Page |-> IF p \in Block(page, order) THEN Zero ELSE @[p]]]
       IN  IF M.ref[page] # 0 \/ \E p \in Block(page, order) : M.tag[p] # Null
           THEN Panic(M, "assertion") ELSE New

\* A block that is freed joins its buddy as long as that is free too.
RECURSIVE Join(_, _, _)
Join(free, page, o) ==
  LET buddy == page_buddy(page, o)
  IN  IF o < PAGE_ORDER_MAX /\ Contains(free[o], buddy)
      THEN Join([free EXCEPT ![o] = Remove(@, buddy)],
                IF buddy < page THEN buddy ELSE page, o + 1)
      ELSE [free EXCEPT ![o] = <<page>> \o @]

\* Mutant: blocks are never joined again.
page_free_block_apart(M, page, order) ==
  IF M.ref[page] # 0 THEN Panic(M, "page->ref_count != 0")
  ELSE [M EXCEPT !.free[order] = <<page>> \o @,
                 !.tag = [p \in Page |-> IF p \in Block(page, order) THEN Null ELSE @[p]]]

page_free_block(M, page, order) ==
  IF M.ref[page] # 0 THEN Panic(M, "page->ref_count != 0")
  ELSE [M EXCEPT !.free = Join(@, page, order),
                 !.tag = [p \in Page |-> IF p \in Block(page, order) THEN Null ELSE @[p]]]

\* --ref_count, and the block is freed with its last reference.
page_dec_ref(M, page, order) ==
  LET Less == [M EXCEPT !.ref[page] = @ - 1]
  IN  IF Less.ref[page] = 0 THEN page_free_block(Less, page, order) ELSE Less

page_assert(M, page, tag) ==
  IF M.tag[page] # tag \/ M.ref[page] = 0 THEN Panic(M, "page_assert") ELSE M

\* The largest blocks that fit are freed from page on.
RECURSIVE page_free_region(_, _)
page_free_region(M, page) ==
  IF page = page_count THEN M
  ELSE LET order == Max({o \in Order : page % 2^o = 0 /\ page + 2^o <= page_count})
       IN  page_free_region(page_free_block(M, page, order), page + 2^order)

page_init ==
  page_free_region([free |-> [o \in Order |-> <<>>], ref |-> [p \in Page |-> 0],
                    tag |-> [p \in Page |-> Null], data |-> [p \in Page |-> Zero],
                    panic |-> "none"], FirstFree)

============================================================================
