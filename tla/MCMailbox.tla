----------------------------- MODULE MCMailbox -----------------------------
(* Instances of Mailbox for TLC: two messages of two bytes fit in a buffer  *)
(* of five.                                                                 *)
EXTENDS Mailbox, TLC

Symmetry == Permutations(Task) \cup Permutations(Message)

============================================================================
