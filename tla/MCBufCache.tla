----------------------------- MODULE MCBufCache ----------------------------
(* An instance of BufCache for TLC. *)
EXTENDS BufCache

CONSTANTS group, bitmap, file1, file2, d1, d2

\* The block allocator reads the bitmap while it holds the group descriptor.
MCInside == {<<group, bitmap>>}

MCImage == [b \in Block |-> IF b \in {group, file2} THEN d1 ELSE d2]

============================================================================
