---------------------------- MODULE TaskLifecycle ----------------------------
(***************************************************************************)
(* What a thread task promises to the code that posted it, whatever thread *)
(* it runs on: the work of a task is done at most once, the task is told   *)
(* the end (ThreadTask::_onComplete) at most once and never while its work *)
(* is in progress, work never starts after the end was told, and a         *)
(* successful end is only told of work that ended successfully.            *)
(*                                                                         *)
(* ThreadTask implements this specification.                               *)
(***************************************************************************)
EXTENDS Naturals

CONSTANT Task

VARIABLES phase,    \* where the work of the task is
          outcome,  \* what the work returned
          calls,    \* how often the end was told
          told      \* what was told

tvars == <<phase, outcome, calls, told>>

Outcomes == {"none", "ok", "failed"}

Init == /\ phase = [t \in Task |-> "new"]
        /\ outcome = [t \in Task |-> "none"]
        /\ calls = [t \in Task |-> 0]
        /\ told = [t \in Task |-> "none"]

\* The task is given to a thread.
Start(t) == /\ phase[t] = "new"
            /\ phase' = [phase EXCEPT ![t] = "started"]
            /\ UNCHANGED <<outcome, calls, told>>

\* The thread begins the work, which the end of the task forbids.
Work(t) == /\ phase[t] = "started"
           /\ calls[t] = 0
           /\ phase' = [phase EXCEPT ![t] = "working"]
           /\ UNCHANGED <<outcome, calls, told>>

Worked(t) == /\ phase[t] = "working"
             /\ phase' = [phase EXCEPT ![t] = "worked"]
             /\ \E r \in {"ok", "failed"} : outcome' = [outcome EXCEPT ![t] = r]
             /\ UNCHANGED <<calls, told>>

Tell(t) == /\ calls[t] = 0
           /\ phase[t] # "working"
           /\ calls' = [calls EXCEPT ![t] = 1]
           /\ \E r \in {"failed", outcome[t]} \ {"none"} : told' = [told EXCEPT ![t] = r]
           /\ UNCHANGED <<phase, outcome>>

Next == \E t \in Task : Start(t) \/ Work(t) \/ Worked(t) \/ Tell(t)

Spec == Init /\ [][Next]_tvars

==============================================================================
