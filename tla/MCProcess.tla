----------------------------- MODULE MCProcess ----------------------------
(* Instances of Process for TLC. *)
EXTENDS Process

\* Signals that end a process, and those that tell of children.
MCHandlers ==
  [s \in Signal |-> CASE s = "USR"  -> {"IGN", "CATCH"}
                      [] s = "CHLD" -> {"RESETHAND", "DFL"}
                      [] OTHER -> {}]

============================================================================
