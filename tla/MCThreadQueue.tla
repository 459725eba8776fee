---------------------------- MODULE MCThreadQueue ----------------------------
(* ThreadQueue: more tasks than fit the packets in flight at once. *)
EXTENDS ThreadQueue

==============================================================================
