----------------------------- MODULE MCScheduler -----------------------------
(* Scheduler with two schedules. *)
EXTENDS Scheduler

CONSTANTS s1, s2

MCSchedule == {s1, s2}

==============================================================================
