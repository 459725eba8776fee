--------------------------- MODULE MCHttpService ---------------------------
(* HttpService with three requests and a queue of two slots. *)
EXTENDS HttpService

CONSTANTS r1, r2, r3

MCRequest == {r1, r2, r3}

==============================================================================
