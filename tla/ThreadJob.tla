------------------------------ MODULE ThreadJob ------------------------------
(***************************************************************************)
(* Kernel/ThreadJob: one long-running task that serves a fixed number of   *)
(* worker slots.  The main thread adds, removes, pauses and resumes the    *)
(* workers and, once per frame, collects those that are done; the thread   *)
(* of the job calls onWork() of every working slot in turn.  A slot has a  *)
(* mutex; its status and id are also read without it.                      *)
(*                                                                         *)
(* addWorker() gives every worker a fresh identity and a worker is added   *)
(* once (SoundService makes a new one for every stream), so a worker       *)
(* stands for its identity and NoWorker for the identity 0.  Only the main *)
(* thread writes ids and moves a slot from or to ETS_FREE, so its unlocked *)
(* tests are read together with the locked section that follows.           *)
(***************************************************************************)
EXTENDS Integers

CONSTANTS
  N,         \* MENGINE_THREAD_JOB_WORK_COUNT
  JobWorker, NoWorker

ASSUME JobAssumption == N \in Nat /\ NoWorker \notin JobWorker

Slot == 1..N

VARIABLES
  id,        \* the worker of each slot
  status,    \* its EThreadStatus
  lock,      \* who holds its mutex: "free" or "job"; the main thread never pauses inside
  jobCancel,    \* m_cancel of the job
  jpc, at,   \* where the thread of the job is, and at which slot
  mpc, next, \* where the main thread is, and the next slot _onUpdate() looks at
  \* what has been observed so far
  added,     \* the workers ever added
  done,      \* how often onDone() of each worker was called
  ended,     \* the workers whose onWork() returned false
  revived,   \* those of them resumed since
  again      \* those of them whose onWork() was called again

slots == <<id, status, lock>>
jobVars == <<jpc, at>>
jobMain == <<mpc, next>>
jobObserved == <<added, done, ended, revived, again>>
jobState == <<slots, jobCancel, jobVars, jobMain, jobObserved>>

JobTypeOK ==
  /\ id \in [Slot -> JobWorker \cup {NoWorker}]
  /\ status \in [Slot -> {"work", "pause", "done", "free"}]
  /\ lock \in [Slot -> {"free", "job"}]
  /\ jobCancel \in BOOLEAN
  /\ jpc \in {"loop", "test", "lock", "work", "stopped"}
  /\ at \in 1..(N + 1)
  /\ mpc \in {"idle", "update", "join", "over"}
  /\ next \in 1..(N + 1)
  /\ added \subseteq JobWorker
  /\ done \in [JobWorker -> Nat]
  /\ ended \subseteq JobWorker /\ revived \subseteq JobWorker /\ again \subseteq JobWorker

JobInit ==
  /\ id = [i \in Slot |-> NoWorker]
  /\ status = [i \in Slot |-> "free"]
  /\ lock = [i \in Slot |-> "free"]
  /\ jobCancel = FALSE
  /\ jpc = "loop" /\ at = 1
  /\ mpc = "idle" /\ next = 1
  /\ added = {}
  /\ done = [w \in JobWorker |-> 0]
  /\ ended = {} /\ revived = {} /\ again = {}

------------------------------------------------------------------------------
(* The main thread *)

\* The slot becomes free and, once its mutex is unlocked, its worker is told.
Free(i) ==
  /\ id' = [id EXCEPT ![i] = NoWorker]
  /\ status' = [status EXCEPT ![i] = "free"]
  /\ done' = [done EXCEPT ![id[i]] = @ + 1]

\* addWorker() takes the first free slot; with none it returns 0 and changes nothing.
AddWorker(w) ==
  /\ mpc = "idle"
  /\ ~jobCancel
  /\ w \notin added
  /\ \E i \in Slot :
       /\ status[i] = "free"
       /\ \A k \in 1..(i - 1) : status[k] # "free"
       /\ lock[i] = "free"
       /\ id' = [id EXCEPT ![i] = w]
       /\ status' = [status EXCEPT ![i] = "work"]
  /\ added' = added \cup {w}
  /\ UNCHANGED <<lock, jobCancel, jobVars, jobMain, done, ended, revived, again>>

\* Mutants: the id of the slot is not reset, or its mutex is not taken.
RemoveWorker_Id(w) ==
  /\ mpc = "idle"
  /\ \E i \in Slot :
       /\ id[i] = w
       /\ lock[i] = "free"
       /\ status' = [status EXCEPT ![i] = "free"]
       /\ done' = [done EXCEPT ![w] = @ + 1]
  /\ UNCHANGED <<id, lock, jobCancel, jobVars, jobMain, added, ended, revived, again>>

RemoveWorker_Unlocked(w) ==
  /\ mpc = "idle"
  /\ \E i \in Slot : id[i] = w /\ Free(i)
  /\ UNCHANGED <<lock, jobCancel, jobVars, jobMain, added, ended, revived, again>>

\* removeWorker() of a worker in a slot; any other returns false.
RemoveWorker(w) ==
  /\ mpc = "idle"
  /\ \E i \in Slot :
       /\ id[i] = w
       /\ lock[i] = "free"
       /\ Free(i)
  /\ UNCHANGED <<lock, jobCancel, jobVars, jobMain, added, ended, revived, again>>

\* pauseWorker() and resumeWorker() store the status whatever it was.
PauseWorker(w) ==
  /\ mpc = "idle"
  /\ \E i \in Slot :
       /\ id[i] = w
       /\ lock[i] = "free"
       /\ status' = [status EXCEPT ![i] = "pause"]
  /\ UNCHANGED <<id, lock, jobCancel, jobVars, jobMain, jobObserved>>

ResumeWorker(w) ==
  /\ mpc = "idle"
  /\ \E i \in Slot :
       /\ id[i] = w
       /\ lock[i] = "free"
       /\ status' = [status EXCEPT ![i] = "work"]
  /\ revived' = revived \cup ({w} \cap ended)
  /\ UNCHANGED <<id, lock, jobCancel, jobVars, jobMain, added, done, ended, again>>

\* _onUpdate(), called by the frame loop while the job is not cancelled.
BeginUpdate ==
  /\ mpc = "idle"
  /\ ~jobCancel
  /\ mpc' = "update" /\ next' = 1
  /\ UNCHANGED <<slots, jobCancel, jobVars, jobObserved>>

\* Mutant: _onUpdate() may pass a slot that is done.
UpdatePass_Done ==
  /\ mpc = "update"
  /\ next \in Slot
  /\ next' = next + 1
  /\ UNCHANGED <<slots, jobCancel, jobVars, mpc, jobObserved>>

\* A slot that is not done is passed, ...
UpdatePass ==
  /\ mpc = "update"
  /\ next \in Slot
  /\ status[next] # "done"
  /\ next' = next + 1
  /\ UNCHANGED <<slots, jobCancel, jobVars, mpc, jobObserved>>

\* ... one that is done becomes free.
UpdateCollect ==
  /\ mpc = "update"
  /\ next \in Slot
  /\ status[next] = "done"
  /\ lock[next] = "free"
  /\ Free(next)
  /\ next' = next + 1
  /\ UNCHANGED <<lock, jobCancel, jobVars, mpc, added, ended, revived, again>>

UpdateEnd ==
  /\ mpc = "update"
  /\ next = N + 1
  /\ mpc' = "idle" /\ next' = 1
  /\ UNCHANGED <<slots, jobCancel, jobVars, jobObserved>>

\* ThreadService::joinTask() or stopTasks(): the job is cancelled, its thread is
\* waited for, and _onFinally() drops every worker and every mutex, after which
\* the clients of the job may not use its slots.
CancelJob ==
  /\ mpc = "idle"
  /\ ~jobCancel
  /\ jobCancel' = TRUE
  /\ mpc' = "join"
  /\ UNCHANGED <<slots, jobVars, next, jobObserved>>

Finally ==
  /\ mpc = "join"
  /\ jpc = "stopped"
  /\ mpc' = "over"
  /\ UNCHANGED <<slots, jobCancel, jobVars, next, jobObserved>>

------------------------------------------------------------------------------
(* The thread of the job *)

JobLoop ==
  /\ jpc = "loop"
  /\ IF jobCancel
     THEN jpc' = "stopped" /\ UNCHANGED at
     ELSE jpc' = "test" /\ at' = 1
  /\ UNCHANGED <<slots, jobCancel, jobMain, jobObserved>>

\* The unlocked test of the status.
JobTest ==
  /\ jpc = "test"
  /\ \/ /\ at = N + 1
        /\ jpc' = "loop" /\ UNCHANGED at
     \/ /\ at \in Slot /\ status[at] = "work"
        /\ jpc' = "lock" /\ UNCHANGED at
     \/ /\ at \in Slot /\ status[at] # "work"
        /\ at' = at + 1 /\ UNCHANGED jpc
  /\ UNCHANGED <<slots, jobCancel, jobMain, jobObserved>>

\* The status is tested again under the mutex.
JobLock ==
  /\ jpc = "lock"
  /\ IF status[at] = "work"
     THEN /\ lock' = [lock EXCEPT ![at] = "job"]
          /\ jpc' = "work"
          /\ again' = again \cup ({id[at]} \cap ended)
          /\ UNCHANGED at
     ELSE /\ jpc' = "test"
          /\ at' = at + 1
          /\ UNCHANGED <<lock, again>>
  /\ UNCHANGED <<id, status, jobCancel, jobMain, added, done, ended, revived>>

\* onWork() returns; false ends the worker.
JobWorked ==
  /\ jpc = "work"
  /\ \/ UNCHANGED <<status, ended>>
     \/ /\ status' = [status EXCEPT ![at] = "done"]
        /\ ended' = ended \cup {id[at]}
  /\ lock' = [lock EXCEPT ![at] = "free"]
  /\ jpc' = "test" /\ at' = at + 1
  /\ UNCHANGED <<id, jobCancel, jobMain, added, done, revived, again>>

------------------------------------------------------------------------------

Client(w) == AddWorker(w) \/ RemoveWorker(w) \/ PauseWorker(w) \/ ResumeWorker(w)
JobUpdate == UpdatePass \/ UpdateCollect \/ UpdateEnd
Job == JobLoop \/ JobTest \/ JobLock \/ JobWorked

JobNext == (\E w \in JobWorker : Client(w)) \/ BeginUpdate \/ JobUpdate \/ CancelJob \/ Finally \/ Job

JobSpec == JobInit /\ [][JobNext]_jobState

\* A frame follows another, a call on the main thread ends once its mutex is
\* free, the thread of the job is scheduled and every onWork() returns.
JobFairSpec == JobSpec /\ SF_jobState(BeginUpdate) /\ WF_jobState(JobUpdate) /\ WF_jobState(Finally) /\ WF_jobState(Job)

------------------------------------------------------------------------------
(* Properties *)

\* A worker sits in one slot, from addWorker() until it is told its end, and is
\* told so exactly once: by removeWorker() or by _onUpdate(), never by both
\* although its onWork() may end it while removeWorker() waits for the mutex.
DoneOnce ==
  /\ \A w \in JobWorker : done[w] <= 1
  /\ \A i \in Slot : id[i] # NoWorker => id[i] \in added /\ done[id[i]] = 0
  /\ \A i, k \in Slot : id[i] = id[k] /\ id[i] # NoWorker => i = k

\* onWork() only runs for the worker of a slot, and never while or after its
\* onDone() does: the owner of a stream frees its buffer once it is removed.
NoWorkAfterDone == jpc = "work" => id[at] # NoWorker /\ done[id[at]] = 0

\* A slot without a worker is free and a free slot has no worker, with or
\* without the mutex: addWorker() decides by the status, the others by the id.
SlotConsistent == \A i \in Slot : status[i] = "free" <=> id[i] = NoWorker

\* The worker is not replaced, paused or freed under its own onWork().
WorkIsLocked == jpc = "work" => lock[at] = "job" /\ status[at] = "work"

\* A worker whose onWork() returned false works again only if it was resumed.
EndedStaysEnded == again \subseteq revived

\* A worker whose work ended is told, unless a pause hides its end, a resume
\* revives it, or the job is cancelled first.
EndIsTold == \A w \in JobWorker :
  w \in ended ~> done[w] = 1 \/ jobCancel \/ \E i \in Slot : id[i] = w /\ status[i] \in {"pause", "work"}

==============================================================================
