------------------------------- MODULE MCPipe ------------------------------
(* An instance of Pipe for TLC: a buffer of two bytes, and writes that are  *)
(* longer than it.                                                         *)
EXTENDS Pipe

CONSTANTS b1, b2

MCWrites == {<<b1, b2, b2>>}

============================================================================
