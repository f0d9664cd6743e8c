--------------------------- MODULE MCAddressSpace --------------------------
(***************************************************************************)
(* Small address spaces: one page of program, one of stack, and room for   *)
(* mappings below, between and above.                                      *)
(***************************************************************************)
EXTENDS AddressSpace, TLC

MCAddress == 1 .. VIRT_KERNEL_BASE - 1

MCSegments == <<[addr |-> 2, n |-> 1, flags |-> {"READ", "WRITE", "EXEC"}]>>

MCStack == [addr |-> VIRT_KERNEL_BASE - 1, n |-> 1, flags |-> {"READ", "WRITE"}]

\* Two that join the program when both are made, and one the kernel finds room for.
MCRequests ==
  {[addr |-> 3, n |-> 1, flags |-> {"READ", "WRITE", "EXEC"}],
   [addr |-> 4, n |-> 1, flags |-> {"READ", "WRITE", "EXEC"}],
   [addr |-> 0, n |-> 2, flags |-> {"READ"}]}

Children == Permutations(Process \ {init_process})

\* Requests that would join the area behind only are left out: vmspace_map loses
\* the last pages of that area then.
NoJoinWithNextOnly ==
  \A p \in Process : Next1(p, "alloc") =>
    LET areas == Space(p, Op(p).s).v.areas
        place == FindPlace(areas, Op(p).r)
    IN  JoinsNext(areas, Op(p).r, place) => JoinsPrev(areas, Op(p).r, place)

\* What pages hold while they are free is lost: they are cleared when allocated.
View == <<[mem EXCEPT !.data = [p \in Page |-> IF mem.tag[p] = Null THEN Zero ELSE @[p]]],
          proc, calls>>

============================================================================
