--------------------------- MODULE MCThreadService ---------------------------
(* ThreadService with two tasks that may share a thread or not. *)
EXTENDS ThreadService

CONSTANTS t1, t2

MCTask == {t1, t2}

==============================================================================
