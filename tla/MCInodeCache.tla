---------------------------- MODULE MCInodeCache ----------------------------
(* The inode cache with two service tasks. *)
EXTENDS InodeCache, TLC

MCEntry == 1..3
MCNumber == 1..3
MCSymmetry == Permutations(Task) \cup Permutations(Name)
=============================================================================
