--------------------------- MODULE PrivateMemory ---------------------------
(***************************************************************************)
(* What address spaces promise to programs (kernel/mm/vm.c,                *)
(* process/vmspace.c): a process has a memory of its own.  A fork copies   *)
(* it whole and at once, and from then on nothing one of the two does is   *)
(* seen by the other.  AddressSpace.tla implements it with shared pages.   *)
(***************************************************************************)
CONSTANTS Process, Address, Value, Zero, Unmapped,
          FirstImage,  \* the memory of the first program when it begins
          Image        \* the memory of a program after an exec

VARIABLE memory

Nothing == [a \in Address |-> Unmapped]

Init == memory = [p \in Process |-> Nothing]

Begin(p) ==
  /\ memory = [q \in Process |-> Nothing]
  /\ memory' = [memory EXCEPT ![p] = FirstImage]

Exec(p) == memory' = [memory EXCEPT ![p] = Image]

Map(p, a) ==
  /\ memory[p][a] = Unmapped
  /\ memory' = [memory EXCEPT ![p][a] = Zero]

Store(p, a, v) ==
  /\ memory[p][a] # Unmapped
  /\ memory' = [memory EXCEPT ![p][a] = v]

Fork(p, child) ==
  /\ memory[child] = Nothing
  /\ memory' = [memory EXCEPT ![child] = memory[p]]

Exit(p) == memory' = [memory EXCEPT ![p] = Nothing]

\* A step that some program can see.
Next ==
  /\ memory' # memory
  /\ \E p \in Process :
    \/ Begin(p) \/ Exec(p) \/ Exit(p)
    \/ \E a \in Address : Map(p, a) \/ \E v \in Value : Store(p, a, v)
    \/ \E child \in Process : Fork(p, child)

Spec == Init /\ [][Next]_memory

============================================================================
