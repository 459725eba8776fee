----------------------------- MODULE MCThreadJob -----------------------------
(* ThreadJob with fewer slots than workers, so that addWorker() can fail. *)
EXTENDS ThreadJob

CONSTANTS w1, w2, w3

MCWorker == {w1, w2, w3}

==============================================================================
