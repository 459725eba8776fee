--------------------------- MODULE MCSoundService ---------------------------
(* SoundService with a job that two streams may exhaust. *)
EXTENDS SoundService
CONSTANTS a, b
MCSound == {a, b}
==============================================================================
