---------------------------- MODULE MCThreadTask ----------------------------
(* ThreadTask on two tasks. *)
EXTENDS ThreadTask

CONSTANTS t1, t2

MCTask == {t1, t2}

==============================================================================
