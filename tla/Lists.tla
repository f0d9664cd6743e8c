------------------------------- MODULE Lists -------------------------------
(***************************************************************************)
(* The doubly linked lists of kernel/core/list.h as sequences.             *)
(*                                                                         *)
(* These two operators are those of SequencesExt.  That module is not used *)
(* here because it extends Bags, which makes tlapm ten times as slow.      *)
(***************************************************************************)
EXTENDS Integers, Sequences, FiniteSetsExt

\* k_list_add_back(l, link), where l is the link at position i of the list, or
\* the list itself when i is one more than its length.
InsertAt(list, i, link) ==
  SubSeq(list, 1, i - 1) \o <<link>> \o SubSeq(list, i, Len(list))

\* k_list_remove(link), where link is at position i of the list.
RemoveAt(list, i) == SubSeq(list, 1, i - 1) \o SubSeq(list, i + 1, Len(list))

============================================================================
