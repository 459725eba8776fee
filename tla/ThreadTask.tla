------------------------------ MODULE ThreadTask ------------------------------
(***************************************************************************)
(* Kernel/ThreadTask: the life of a task shared by the main thread and one *)
(* worker thread, one action per access to an atomic flag the other thread *)
(* may write.  Flags only the main thread writes are read together with    *)
(* the step that uses them.                                                *)
(*                                                                         *)
(* The main thread calls run(), update() (once per frame, until it returns *)
(* true), cancel() and, as PrefetcherService does, join() right after a    *)
(* cancel() that returned true.  The worker calls main() once, holding the *)
(* mutex the task was given by run() (SDLThreadIdentity::main, and         *)
(* ThreadTaskPacket::_onMain for the tasks of a packet).                   *)
(***************************************************************************)
EXTENDS Naturals

CONSTANTS Task, NoTask

ASSUME TaskAssumption == NoTask \notin Task

VARIABLES
  run, finish, complete, successful, cancel,  \* the five atomic flags
  mutex,      \* who holds the mutex of the task
  pc, cur,    \* where the main thread is, and in which task
  wpc,        \* where the worker of each task is, inside main()
  armed,      \* the worker was given the task
  \* what has been observed so far
  result,     \* what _onMain() returned
  calls,      \* how often _onComplete() was called
  told,       \* with which argument
  cancelled,  \* what the first cancel() returned, and whether join() followed
  twice,      \* a later cancel() was called, which returns false
  released,   \* update() returned true: the service drops the task
  late        \* the worker finished the task between two reads by the main thread

flags == <<run, finish, complete, successful, cancel>>
mainVars == <<pc, cur>>
workerVars == <<wpc, armed, result>>
observed == <<calls, told, cancelled, twice, released, late>>
vars == <<flags, mutex, mainVars, workerVars, observed>>

MainAt == {"idle", "cancel", "update", "join", "joinLock", "joinUnlock", "joinComplete"}
InMain == {"enter", "check", "work", "worked", "storeResult", "storeFalse", "finish", "leave"}
Outcomes == {"none", "ok", "failed"}

TypeOK ==
  /\ run \in [Task -> BOOLEAN]
  /\ finish \in [Task -> BOOLEAN]
  /\ complete \in [Task -> BOOLEAN]
  /\ successful \in [Task -> BOOLEAN]
  /\ cancel \in [Task -> BOOLEAN]
  /\ mutex \in [Task -> {"free", "main", "worker"}]
  /\ pc \in MainAt
  /\ cur \in Task \cup {NoTask}
  /\ (cur = NoTask) <=> (pc = "idle")
  /\ wpc \in [Task -> InMain \cup {"out", "done"}]
  /\ armed \in [Task -> BOOLEAN]
  /\ result \in [Task -> Outcomes]
  /\ calls \in [Task -> Nat]
  /\ told \in [Task -> Outcomes]
  /\ cancelled \in [Task -> {"never", "false", "true", "joined"}]
  /\ twice \in [Task -> BOOLEAN]
  /\ released \in [Task -> BOOLEAN]
  /\ late \in [Task -> BOOLEAN]

Init ==
  /\ run = [t \in Task |-> FALSE]
  /\ finish = [t \in Task |-> FALSE]
  /\ complete = [t \in Task |-> FALSE]
  /\ successful = [t \in Task |-> FALSE]
  /\ cancel = [t \in Task |-> FALSE]
  /\ mutex = [t \in Task |-> "free"]
  /\ pc = "idle"
  /\ cur = NoTask
  /\ wpc = [t \in Task |-> "out"]
  /\ armed = [t \in Task |-> FALSE]
  /\ result = [t \in Task |-> "none"]
  /\ calls = [t \in Task |-> 0]
  /\ told = [t \in Task |-> "none"]
  /\ cancelled = [t \in Task |-> "never"]
  /\ twice = [t \in Task |-> FALSE]
  /\ released = [t \in Task |-> FALSE]
  /\ late = [t \in Task |-> FALSE]

------------------------------------------------------------------------------
(* The main thread *)

\* _onComplete( r ): the end is told to the owner of the task.
OnComplete(t, r) ==
  /\ calls' = [calls EXCEPT ![t] = @ + 1]
  /\ told' = [told EXCEPT ![t] = r]

\* The main thread goes on inside task t, or returns to its caller.
Goto(at, t) == pc' = at /\ cur' = t
Return == pc' = "idle" /\ cur' = NoTask

\* run(): a run that is not rejected arms the worker even when _onRun() fails.
Run(t) ==
  /\ pc = "idle"
  /\ ~(run[t] \/ cancel[t] \/ finish[t] \/ complete[t])
  /\ \E ok \in BOOLEAN :
       /\ run' = [run EXCEPT ![t] = ok]
       /\ finish' = [finish EXCEPT ![t] = ~ok]
       /\ successful' = [successful EXCEPT ![t] = @ /\ ok]
  /\ armed' = [armed EXCEPT ![t] = TRUE]
  /\ UNCHANGED <<complete, cancel, mutex, mainVars, wpc, result, observed>>

\* cancel() of a task that was cancelled before returns false, told or not.
CancelAgain(t) ==
  /\ pc = "idle"
  /\ cancel[t]
  /\ twice' = [twice EXCEPT ![t] = TRUE]
  /\ UNCHANGED <<flags, mutex, mainVars, workerVars, calls, told, cancelled, released, late>>

\* The first cancel(), up to its test of m_complete.
CancelStore(t) ==
  /\ pc = "idle"
  /\ ~cancel[t]
  /\ cancel' = [cancel EXCEPT ![t] = TRUE]
  /\ IF complete[t]
     THEN /\ cancelled' = [cancelled EXCEPT ![t] = "false"]
          /\ UNCHANGED mainVars
     ELSE /\ Goto("cancel", t)
          /\ UNCHANGED cancelled
  /\ UNCHANGED <<run, finish, complete, successful, mutex, workerVars, calls, told, released, late, twice>>

\* The rest of cancel(): a task that does not run, or whose work has ended, ends here.
CancelSettle(t) ==
  /\ pc = "cancel" /\ cur = t
  /\ ~run[t] \/ finish[t]
  /\ successful' = [successful EXCEPT ![t] = FALSE]
  /\ finish' = [finish EXCEPT ![t] = TRUE]
  /\ OnComplete(t, "failed")
  /\ cancelled' = [cancelled EXCEPT ![t] = "false"]
  /\ Return
  /\ UNCHANGED <<run, complete, cancel, mutex, workerVars, released, late, twice>>

\* The rest of cancel() while the work is in progress; the caller may join().
CancelRunning(t) ==
  /\ pc = "cancel" /\ cur = t
  /\ run[t] /\ ~finish[t]
  /\ \/ /\ Return
        /\ cancelled' = [cancelled EXCEPT ![t] = "true"]
     \/ /\ Goto("join", t)
        /\ cancelled' = [cancelled EXCEPT ![t] = "joined"]
  /\ UNCHANGED <<flags, mutex, workerVars, calls, told, released, late, twice>>

\* Mutants: update() also returns early for a task that has finished, or not
\* for one that was cancelled.
UpdateEnded_Finished(t) ==
  /\ pc = "idle"
  /\ ~released[t]
  /\ run[t]
  /\ complete[t] \/ cancel[t] \/ finish[t]
  /\ released' = [released EXCEPT ![t] = TRUE]
  /\ UNCHANGED <<flags, mutex, mainVars, workerVars, calls, told, cancelled, late, twice>>

UpdateEnded_Complete(t) ==
  /\ pc = "idle"
  /\ ~released[t]
  /\ run[t]
  /\ complete[t]
  /\ released' = [released EXCEPT ![t] = TRUE]
  /\ UNCHANGED <<flags, mutex, mainVars, workerVars, calls, told, cancelled, late, twice>>

\* update() of a task that was completed or cancelled elsewhere.
UpdateEnded(t) ==
  /\ pc = "idle"
  /\ ~released[t]
  /\ run[t]
  /\ complete[t] \/ cancel[t]
  /\ released' = [released EXCEPT ![t] = TRUE]
  /\ UNCHANGED <<flags, mutex, mainVars, workerVars, calls, told, cancelled, late, twice>>

\* update(), when its first read of m_finish is true.
UpdateComplete(t) ==
  /\ pc = "idle"
  /\ ~released[t]
  /\ run[t] /\ ~complete[t] /\ ~cancel[t]
  /\ finish[t]
  /\ complete' = [complete EXCEPT ![t] = TRUE]
  /\ OnComplete(t, IF successful[t] THEN "ok" ELSE "failed")
  /\ released' = [released EXCEPT ![t] = TRUE]
  /\ UNCHANGED <<run, finish, successful, cancel, mutex, mainVars, workerVars, cancelled, late, twice>>

\* update(), when its first read of m_finish is false.
UpdateTest(t) ==
  /\ pc = "idle"
  /\ ~released[t]
  /\ run[t] /\ ~complete[t] /\ ~cancel[t]
  /\ ~finish[t]
  /\ Goto("update", t)
  /\ UNCHANGED <<flags, mutex, workerVars, observed>>

\* return m_finish: the second read.
UpdateReturn(t) ==
  /\ pc = "update" /\ cur = t
  /\ released' = [released EXCEPT ![t] = finish[t]]
  /\ late' = [late EXCEPT ![t] = @ \/ finish[t]]
  /\ Return
  /\ UNCHANGED <<flags, mutex, workerVars, calls, told, cancelled, twice>>

\* join(): its early return, ...
JoinTest(t) ==
  /\ pc = "join" /\ cur = t
  /\ IF ~run[t] \/ finish[t] \/ complete[t]
     THEN /\ late' = [late EXCEPT ![t] = @ \/ finish[t]]
          /\ Return
     ELSE /\ Goto("joinLock", t)
          /\ UNCHANGED late
  /\ UNCHANGED <<flags, mutex, workerVars, calls, told, cancelled, released, twice>>

\* ... m_mutex->lock(), ...
JoinLock(t) ==
  /\ pc = "joinLock" /\ cur = t
  /\ mutex[t] = "free"
  /\ mutex' = [mutex EXCEPT ![t] = "main"]
  /\ Goto("joinUnlock", t)
  /\ UNCHANGED <<flags, workerVars, observed>>

\* ... m_mutex->unlock(), ...
JoinUnlock(t) ==
  /\ pc = "joinUnlock" /\ cur = t
  /\ mutex' = [mutex EXCEPT ![t] = "free"]
  /\ Goto("joinComplete", t)
  /\ UNCHANGED <<flags, workerVars, observed>>

\* ... and the completion.
JoinComplete(t) ==
  /\ pc = "joinComplete" /\ cur = t
  /\ IF complete[t]
     THEN UNCHANGED <<complete, calls, told>>
     ELSE /\ complete' = [complete EXCEPT ![t] = TRUE]
          /\ OnComplete(t, "failed")
  /\ Return
  /\ UNCHANGED <<run, finish, successful, cancel, mutex, workerVars, cancelled, released, late, twice>>

------------------------------------------------------------------------------
(* The worker *)

\* Only the program counter of worker t moves.
Move(t, from, to) ==
  /\ wpc[t] = from
  /\ wpc' = [wpc EXCEPT ![t] = to]

\* The thread takes the mutex and calls main().
MainLock(t) ==
  /\ armed[t]
  /\ mutex[t] = "free"
  /\ mutex' = [mutex EXCEPT ![t] = "worker"]
  /\ Move(t, "out", "enter")
  /\ UNCHANGED <<flags, mainVars, armed, result, observed>>

MainEnter(t) ==
  /\ Move(t, "enter", IF ~run[t] \/ finish[t] \/ complete[t] THEN "leave" ELSE "check")
  /\ UNCHANGED <<flags, mutex, mainVars, armed, result, observed>>

\* The first test of m_cancel.
MainCancelled(t) ==
  /\ cancel[t]
  /\ Move(t, "check", "storeFalse")
  /\ UNCHANGED <<flags, mutex, mainVars, armed, result, observed>>

\* Mutant: main() does not test m_cancel before the work.
MainWork_Always(t) ==
  /\ Move(t, "check", "work")
  /\ UNCHANGED <<flags, mutex, mainVars, armed, result, observed>>

MainWork(t) ==
  /\ ~cancel[t]
  /\ Move(t, "check", "work")
  /\ UNCHANGED <<flags, mutex, mainVars, armed, result, observed>>

\* _onMain() returns.
MainWorked(t) ==
  /\ Move(t, "work", "worked")
  /\ \E r \in {"ok", "failed"} : result' = [result EXCEPT ![t] = r]
  /\ UNCHANGED <<flags, mutex, mainVars, armed, observed>>

\* The second test of m_cancel.
MainResult(t) ==
  /\ Move(t, "worked", IF cancel[t] THEN "storeFalse" ELSE "storeResult")
  /\ UNCHANGED <<flags, mutex, mainVars, armed, result, observed>>

\* Mutant: main() stores m_finish before its result.
MainStore_Late(t) ==
  /\ \/ /\ Move(t, "storeFalse", "finish")
        /\ successful' = [successful EXCEPT ![t] = FALSE]
        /\ UNCHANGED finish
     \/ /\ wpc[t] = "storeResult" /\ ~finish[t]
        /\ finish' = [finish EXCEPT ![t] = TRUE]
        /\ UNCHANGED <<wpc, successful>>
     \/ /\ finish[t] /\ Move(t, "storeResult", "finish")
        /\ successful' = [successful EXCEPT ![t] = (result[t] = "ok")]
        /\ UNCHANGED finish
  /\ UNCHANGED <<run, complete, cancel, mutex, mainVars, armed, result, observed>>

MainStore(t) ==
  /\ \/ /\ Move(t, "storeFalse", "finish")
        /\ successful' = [successful EXCEPT ![t] = FALSE]
     \/ /\ Move(t, "storeResult", "finish")
        /\ successful' = [successful EXCEPT ![t] = (result[t] = "ok")]
  /\ UNCHANGED <<run, finish, complete, cancel, mutex, mainVars, armed, result, observed>>

MainFinish(t) ==
  /\ Move(t, "finish", "leave")
  /\ finish' = [finish EXCEPT ![t] = TRUE]
  /\ UNCHANGED <<run, complete, successful, cancel, mutex, mainVars, armed, result, observed>>

MainUnlock(t) ==
  /\ Move(t, "leave", "done")
  /\ mutex' = [mutex EXCEPT ![t] = "free"]
  /\ armed' = [armed EXCEPT ![t] = FALSE]
  /\ UNCHANGED <<flags, mainVars, result, observed>>

------------------------------------------------------------------------------

MainStep(t) == \/ CancelSettle(t) \/ CancelRunning(t) \/ UpdateReturn(t)
               \/ JoinTest(t) \/ JoinLock(t) \/ JoinUnlock(t) \/ JoinComplete(t)

Update(t) == UpdateEnded(t) \/ UpdateComplete(t) \/ UpdateTest(t)

Worker(t) == \/ MainLock(t) \/ MainEnter(t) \/ MainCancelled(t) \/ MainWork(t)
             \/ MainWorked(t) \/ MainResult(t) \/ MainStore(t) \/ MainFinish(t)
             \/ MainUnlock(t)

Cancel(t) == CancelStore(t) \/ CancelAgain(t)

Next == \E t \in Task : Run(t) \/ Cancel(t) \/ MainStep(t) \/ Update(t) \/ Worker(t)

Spec == Init /\ [][Next]_vars

(* The main thread never stays inside a call and updates the tasks of the  *)
(* service every frame; the operating system schedules every thread; the   *)
(* work of a task ends.                                                    *)
Fairness == \A t \in Task : /\ WF_vars(MainStep(t))
                            /\ SF_vars(Update(t))
                            /\ WF_vars(Worker(t))

FairSpec == Spec /\ Fairness

------------------------------------------------------------------------------
(* Properties *)

\* The end of a task is told at most once, whichever of update(), cancel() and
\* join() settles it: ThreadTaskPrefetch::_onComplete drops its observer and
\* would call through a null pointer the second time.
CompleteOnce == \A t \in Task : calls[t] <= 1

\* _onComplete() releases what the work uses (ThreadTaskPrefetch drops the
\* stream it reads), so it never runs, nor has it run, while _onMain() does,
\* although cancel() and join() settle a task whose worker is alive.
NoCompleteDuringWork == \A t \in Task : wpc[t] = "work" => calls[t] = 0

\* A completion that was not cancelled reports what the work returned, though
\* the result and the end of the work are two separate stores.
FaithfulResult ==
  \A t \in Task : complete[t] /\ ~cancel[t] => told[t] # "none" /\ told[t] = result[t]

\* After a cancel() that returned false the owner has been told, which is what
\* unfetch() goes by when it forgets its receiver without a join(): always by the
\* first cancel(), and by a later one unless the first caught the work under way
\* and either nobody joined it or the join() came after the end of the work.
CancelFalseSettles ==
  \A t \in Task : calls[t] = 0 =>
    /\ cancelled[t] # "false"
    /\ twice[t] => cancelled[t] = "true" \/ (cancelled[t] = "joined" /\ late[t])

\* A task leaves the service untold only when the worker finished it between
\* two reads of m_finish by the main thread, or when a cancel() caught it at
\* work and nobody joined it: no other order of the two threads loses the
\* completion.
ReleasedAccounted ==
  \A t \in Task : released[t] /\ calls[t] = 0 => late[t] \/ cancelled[t] = "true"

\* ThreadTask implements the promise of TaskLifecycle.
Lifecycle == INSTANCE TaskLifecycle
  WITH phase <- [t \in Task |-> IF wpc[t] = "work" THEN "working"
                                ELSE IF result[t] # "none" THEN "worked"
                                ELSE IF run[t] THEN "started" ELSE "new"],
       outcome <- result
LifecycleSpec == Lifecycle!Spec

\* A task that runs is released by update() in the end, whatever its worker
\* and a cancel() do to each other.
RunIsReleased == \A t \in Task : run[t] ~> released[t]

==============================================================================
