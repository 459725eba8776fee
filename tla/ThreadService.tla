---------------------------- MODULE ThreadService ----------------------------
(***************************************************************************)
(* Services/ThreadService with the thread identities of                    *)
(* Systems/SDLThreadSystem (Win32ThreadSystem is the same): the main       *)
(* thread posts tasks to named threads, polls them once per frame in       *)
(* update(), joins and stops them; every thread runs the one task it was   *)
(* handed.  The service owns a reference to a task only while the task is  *)
(* in m_tasks, the thread keeps a bare pointer to it.                      *)
(*                                                                         *)
(* A task is the one of ThreadTask with its flags read and written in      *)
(* coarser steps, except the two reads of m_finish in update().            *)
(***************************************************************************)
EXTENDS Naturals, Sequences, SequencesExt

CONSTANTS Task, Thread, None

ASSUME ServiceAssumption == None \notin Task \cup Thread

VARIABLES
  task,       \* the flags of each task
  tasks,      \* m_tasks
  threads,    \* m_threads: the names known to the service
  held,       \* m_task of each identity
  lock,       \* m_processLock of each identity
  exit,       \* m_exit of each identity
  wpc,        \* where the loop of each thread is
  pc,         \* where the main thread is in the service
  idx, lim,   \* its loop counters
  arg,        \* the task or the thread it works on
  \* what has been observed so far
  owner,      \* who owns the task: nobody yet, the service, or who released it
  calls,      \* how often _onComplete() was called
  works,      \* how often _onMain() was called
  finals,     \* how often finally() was called
  evicted,    \* a removeTask() meant for another task took it from its thread
  direct      \* its client cancelled it without joinTask()

mainVars == <<pc, idx, lim, arg>>
identityVars == <<held, lock, exit, wpc>>
history == <<owner, calls, works, finals, evicted, direct>>
vars == <<task, tasks, threads, identityVars, mainVars, history>>

Flags == [run : BOOLEAN, finish : BOOLEAN, complete : BOOLEAN, cancel : BOOLEAN]
TaskDesc == [task : Task, thread : Thread, progress : BOOLEAN, complete : BOOLEAN]
MainAt == {"idle", "assign", "update", "updateReturn", "callback", "joinRemove", "clientJoin",
           "stop", "stopRemove", "destroy", "joinThread"}

TypeOK ==
  /\ task \in [Task -> Flags]
  /\ tasks \in Seq(TaskDesc)
  /\ threads \subseteq Thread
  /\ held \in [Thread -> Task \cup {None}]
  /\ lock \in [Thread -> {"free", "worker"}]
  /\ exit \in [Thread -> BOOLEAN]
  /\ wpc \in [Thread -> {"none", "wait", "work", "leave", "stopped"}]
  /\ pc \in MainAt /\ idx \in Nat /\ lim \in Nat /\ arg \in Task \cup Thread \cup {None}
  /\ owner \in [Task -> {"client", "service", "update", "join", "stop"}]
  /\ calls \in [Task -> Nat] /\ works \in [Task -> Nat] /\ finals \in [Task -> Nat]
  /\ evicted \subseteq Task /\ direct \subseteq Task

Init ==
  /\ task = [t \in Task |-> [run |-> FALSE, finish |-> FALSE, complete |-> FALSE, cancel |-> FALSE]]
  /\ tasks = <<>>
  /\ threads = {}
  /\ held = [h \in Thread |-> None]
  /\ lock = [h \in Thread |-> "free"]
  /\ exit = [h \in Thread |-> FALSE]
  /\ wpc = [h \in Thread |-> "none"]
  /\ pc = "idle" /\ idx = 0 /\ lim = 0 /\ arg = None
  /\ owner = [t \in Task |-> "client"]
  /\ calls = [t \in Task |-> 0]
  /\ works = [t \in Task |-> 0]
  /\ finals = [t \in Task |-> 0]
  /\ evicted = {} /\ direct = {}

------------------------------------------------------------------------------
(* Calls on tasks and identities the service is built from *)

\* A cancel() that tells the end itself: the task does not run or its work has ended.
Settles(s) == ~s.cancel /\ ~s.complete /\ (~s.run \/ s.finish)

Cancel(t) ==
  /\ task' = [task EXCEPT ![t].cancel = TRUE, ![t].finish = @ \/ Settles(task[t])]
  /\ calls' = [calls EXCEPT ![t] = @ + IF Settles(task[t]) THEN 1 ELSE 0]

\* Mutant: processTask() does not look whether the identity has a task.
Accepts_Busy(h) == ~exit[h] /\ lock[h] = "free"

\* processTask() of identity h takes the call: it lives, its lock is free, it has no task.
Accepts(h) == ~exit[h] /\ lock[h] = "free" /\ held[h] = None

\* run() of task t, which _onRun() may refuse; a task that cannot run is not
\* handed to the thread, yet the call succeeds.
RunOn(h, t) ==
  IF task[t].run \/ task[t].cancel \/ task[t].finish \/ task[t].complete
  THEN UNCHANGED <<task, held>>
  ELSE /\ \E ok \in BOOLEAN : task' = [task EXCEPT ![t].run = ok, ![t].finish = ~ok]
       /\ held' = [held EXCEPT ![h] = t]

\* finally() of task t and the end of the service's reference to it.
Release(t, who) ==
  /\ finals' = [finals EXCEPT ![t] = @ + 1]
  /\ owner' = [owner EXCEPT ![t] = who]

\* Mutant: the last one stays in its old place too.
SwapRemove_NoPop(s, i) == [s EXCEPT ![i] = Last(s)]

\* m_tasks[i] = m_tasks.back(); m_tasks.pop_back().
SwapRemove(s, i) == Front([s EXCEPT ![i] = Last(s)])

RemoveTask_Keeps(h, t) == UNCHANGED <<held, evicted>>

\* removeTask() of identity h, called for task t, waits for the lock.
RemoveTask(h, t) ==
  IF exit[h]
  THEN UNCHANGED <<held, evicted>>
  ELSE /\ lock[h] = "free"
       /\ held' = [held EXCEPT ![h] = None]
       /\ evicted' = evicted \cup ({held[h]} \ {t, None})

Index(t) == CHOOSE i \in 1..Len(tasks) : tasks[i].task = t
InService(t) == \E i \in 1..Len(tasks) : tasks[i].task = t

Goto(at, i, n, a) == pc' = at /\ idx' = i /\ lim' = n /\ arg' = a
Return == Goto("idle", 0, 0, None)

------------------------------------------------------------------------------
(* Operations of the service *)

CreateThread(h) ==
  /\ pc = "idle"
  /\ h \notin threads /\ wpc[h] = "none"
  /\ threads' = threads \cup {h}
  /\ wpc' = [wpc EXCEPT ![h] = "wait"]
  /\ UNCHANGED <<task, tasks, held, lock, exit, mainVars, history>>

\* destroyThread(): removeTask(), then join() of the identity.
DestroyThread(h) ==
  /\ pc = "idle"
  /\ h \in threads
  /\ Goto("destroy", 0, 0, h)
  /\ UNCHANGED <<task, tasks, threads, identityVars, history>>

DestroyRemove ==
  /\ pc = "destroy"
  /\ RemoveTask(arg, None)
  /\ exit' = [exit EXCEPT ![arg] = TRUE]
  /\ Goto("joinThread", 0, 0, arg)
  /\ UNCHANGED <<task, tasks, threads, lock, wpc, owner, calls, works, finals, direct>>

DestroyJoin ==
  /\ pc = "joinThread"
  /\ wpc[arg] = "stopped"
  /\ threads' = threads \ {arg}
  /\ Return
  /\ UNCHANGED <<task, tasks, identityVars, history>>

\* addTask() and tryFastProcessTask_(), by a client or by code _onComplete() runs in update().
AddTask(t, h) ==
  /\ pc \in {"idle", "callback"}
  /\ owner[t] = "client"
  /\ h \in threads
  /\ owner' = [owner EXCEPT ![t] = "service"]
  /\ tasks' = Append(tasks, [task |-> t, thread |-> h, progress |-> Accepts(h), complete |-> FALSE])
  /\ IF Accepts(h) THEN RunOn(h, t) ELSE UNCHANGED <<task, held>>
  /\ UNCHANGED <<threads, lock, exit, wpc, mainVars, calls, works, finals, evicted, direct>>

\* cancel() by a client that keeps its own reference to the task.
ClientCancel(t) ==
  /\ pc = "idle"
  /\ ~task[t].cancel
  /\ Cancel(t)
  /\ direct' = direct \cup {t}
  /\ \/ UNCHANGED mainVars
     \/ /\ task[t].run /\ ~task[t].finish /\ ~task[t].complete
        /\ InService(t)
        /\ Goto("clientJoin", 0, 0, t)
  /\ UNCHANGED <<tasks, threads, identityVars, owner, works, finals, evicted>>

\* ThreadTask::join() after a cancel() that returned true: it waits for the
\* mutex of the thread, which main() holds.
ClientJoin ==
  /\ pc = "clientJoin"
  /\ task[arg].finish \/ wpc[tasks[Index(arg)].thread] # "work"
  /\ IF task[arg].finish \/ task[arg].complete
     THEN UNCHANGED <<task, calls>>
     ELSE /\ task' = [task EXCEPT ![arg].complete = TRUE]
          /\ calls' = [calls EXCEPT ![arg] = @ + 1]
  /\ Return
  /\ UNCHANGED <<tasks, threads, identityVars, owner, works, finals, evicted, direct>>

\* joinTask() of a task in m_tasks, up to removeTask().
JoinTask(t) ==
  /\ pc = "idle"
  /\ InService(t)
  /\ Cancel(t)
  /\ Goto("joinRemove", 0, 0, t)
  /\ UNCHANGED <<tasks, threads, identityVars, owner, works, finals, evicted, direct>>

JoinRemove ==
  /\ pc = "joinRemove"
  /\ LET i == Index(arg)
     IN  /\ IF tasks[i].progress
            THEN RemoveTask(tasks[i].thread, arg)
            ELSE UNCHANGED <<held, evicted>>
         /\ tasks' = SwapRemove(tasks, i)
  /\ Release(arg, "join")
  /\ Return
  /\ UNCHANGED <<task, threads, lock, exit, wpc, calls, works, direct>>

\* stopTasks(): every task in turn is cancelled, ...
StopTasks ==
  /\ pc = "idle"
  /\ tasks # <<>>
  /\ Goto("stop", 1, 0, None)
  /\ UNCHANGED <<task, tasks, threads, identityVars, history>>

StopCancel ==
  /\ pc = "stop"
  /\ idx <= Len(tasks)
  /\ Cancel(tasks[idx].task)
  /\ Goto("stopRemove", idx, 0, None)
  /\ UNCHANGED <<tasks, threads, identityVars, owner, works, finals, evicted, direct>>

\* ... removed from its thread and finished, ...
StopRemove ==
  /\ pc = "stopRemove"
  /\ LET d == tasks[idx]
     IN  /\ IF d.progress
            THEN RemoveTask(d.thread, d.task)
            ELSE UNCHANGED <<held, evicted>>
         /\ Release(d.task, "stop")
  /\ Goto("stop", idx + 1, 0, None)
  /\ UNCHANGED <<task, tasks, threads, lock, exit, wpc, calls, works, direct>>

\* Mutant: the list is not cleared.
StopClear_Keeps ==
  /\ pc = "stop"
  /\ idx > Len(tasks)
  /\ Return
  /\ UNCHANGED <<task, tasks, threads, identityVars, history>>

\* ... and the list is cleared.
StopClear ==
  /\ pc = "stop"
  /\ idx > Len(tasks)
  /\ tasks' = <<>>
  /\ Return
  /\ UNCHANGED <<task, threads, identityVars, history>>

------------------------------------------------------------------------------
(* update() *)

\* The first loop: a task that waits is offered to its thread.
BeginUpdate ==
  /\ pc = "idle"
  /\ tasks # <<>>
  /\ Goto("assign", 1, Len(tasks), None)
  /\ UNCHANGED <<task, tasks, threads, identityVars, history>>

Assign ==
  /\ pc = "assign"
  /\ idx <= lim
  /\ LET d == tasks[idx]
         free == ~d.complete /\ ~d.progress /\ d.thread \in threads /\ Accepts(d.thread)
         done == d.progress /\ task[d.task].complete
     IN  /\ tasks' = [tasks EXCEPT ![idx].progress = (@ \/ free) /\ ~done,
                                   ![idx].complete = @ \/ done]
         /\ IF free THEN RunOn(d.thread, d.task) ELSE UNCHANGED <<task, held>>
  /\ Goto("assign", idx + 1, lim, None)
  /\ UNCHANGED <<threads, lock, exit, wpc, history>>

AssignEnd ==
  /\ pc = "assign"
  /\ idx > lim
  /\ Goto("update", 1, Len(tasks), None)
  /\ UNCHANGED <<task, tasks, threads, identityVars, history>>

\* The second loop: update() of each task, by what its first reads find.
Updating(t) == pc = "update" /\ idx <= lim /\ t = tasks[idx].task

\* The task does not run: it stays.
UpdateWaiting(t) ==
  /\ Updating(t)
  /\ ~task[t].run
  /\ Goto("update", idx + 1, lim, None)
  /\ UNCHANGED <<task, tasks, threads, identityVars, history>>

\* The task was completed or cancelled elsewhere: it is dropped.
UpdateEnded(t) ==
  /\ Updating(t)
  /\ task[t].run /\ (task[t].complete \/ task[t].cancel)
  /\ tasks' = SwapRemove(tasks, idx)
  /\ Release(t, "update")
  /\ Goto("update", idx, lim - 1, None)
  /\ UNCHANGED <<task, threads, identityVars, calls, works, evicted, direct>>

\* Its work has ended: _onComplete() runs client code before the task is dropped.
UpdateComplete(t) ==
  /\ Updating(t)
  /\ task[t].run /\ ~task[t].complete /\ ~task[t].cancel
  /\ task[t].finish
  /\ task' = [task EXCEPT ![t].complete = TRUE]
  /\ calls' = [calls EXCEPT ![t] = @ + 1]
  /\ Goto("callback", idx, lim, t)
  /\ UNCHANGED <<tasks, threads, identityVars, owner, works, finals, evicted, direct>>

CallbackReturn ==
  /\ pc = "callback"
  /\ tasks' = SwapRemove(tasks, idx)
  /\ Release(arg, "update")
  /\ Goto("update", idx, lim - 1, None)
  /\ UNCHANGED <<task, threads, identityVars, calls, works, evicted, direct>>

\* Its work has not ended; m_finish is read again for the result of update().
UpdateTest(t) ==
  /\ Updating(t)
  /\ task[t].run /\ ~task[t].complete /\ ~task[t].cancel
  /\ ~task[t].finish
  /\ Goto("updateReturn", idx, lim, t)
  /\ UNCHANGED <<task, tasks, threads, identityVars, history>>

UpdateReturn ==
  /\ pc = "updateReturn"
  /\ IF task[arg].finish
     THEN /\ tasks' = SwapRemove(tasks, idx)
          /\ Release(arg, "update")
          /\ Goto("update", idx, lim - 1, None)
     ELSE /\ Goto("update", idx + 1, lim, None)
          /\ UNCHANGED <<tasks, owner, finals>>
  /\ UNCHANGED <<task, threads, identityVars, calls, works, evicted, direct>>

UpdateEnd ==
  /\ pc = "update"
  /\ idx > lim
  /\ Return
  /\ UNCHANGED <<task, tasks, threads, identityVars, history>>

------------------------------------------------------------------------------
(* The loop of a thread *)

\* It wakes (signalled, or after 1000 ms), takes the lock and finds a task:
\* main() of the task begins its work or, by its flags, returns early.
LoopTask(h) ==
  /\ wpc[h] = "wait"
  /\ lock[h] = "free"
  /\ held[h] # None
  /\ ~exit[h]
  /\ lock' = [lock EXCEPT ![h] = "worker"]
  /\ LET t == held[h]
         early == ~task[t].run \/ task[t].finish \/ task[t].complete
     IN  IF early \/ task[t].cancel
         THEN /\ wpc' = [wpc EXCEPT ![h] = "leave"]
              /\ task' = [task EXCEPT ![t].finish = @ \/ ~early]
              /\ UNCHANGED works
         ELSE /\ wpc' = [wpc EXCEPT ![h] = "work"]
              /\ works' = [works EXCEPT ![t] = @ + 1]
              /\ UNCHANGED task
  /\ UNCHANGED <<tasks, threads, held, exit, mainVars, owner, calls, finals, evicted, direct>>

\* _onMain() returns and main() stores m_finish.
LoopWorked(h) ==
  /\ wpc[h] = "work"
  /\ task' = [task EXCEPT ![held[h]].finish = TRUE]
  /\ wpc' = [wpc EXCEPT ![h] = "leave"]
  /\ UNCHANGED <<tasks, threads, held, lock, exit, mainVars, history>>

\* Mutants: the lock is not released, or m_task is not reset.
LoopLeave_Locked(h) ==
  /\ wpc[h] = "leave"
  /\ held' = [held EXCEPT ![h] = None]
  /\ wpc' = [wpc EXCEPT ![h] = "wait"]
  /\ UNCHANGED <<task, tasks, threads, lock, exit, mainVars, history>>

LoopLeave_Held(h) ==
  /\ wpc[h] = "leave"
  /\ lock' = [lock EXCEPT ![h] = "free"]
  /\ wpc' = [wpc EXCEPT ![h] = "wait"]
  /\ UNCHANGED <<task, tasks, threads, held, exit, mainVars, history>>

\* m_task = nullptr; the lock is released.
LoopLeave(h) ==
  /\ wpc[h] = "leave"
  /\ held' = [held EXCEPT ![h] = None]
  /\ lock' = [lock EXCEPT ![h] = "free"]
  /\ wpc' = [wpc EXCEPT ![h] = "wait"]
  /\ UNCHANGED <<task, tasks, threads, exit, mainVars, history>>

LoopExit(h) ==
  /\ wpc[h] = "wait"
  /\ exit[h]
  /\ wpc' = [wpc EXCEPT ![h] = "stopped"]
  /\ UNCHANGED <<task, tasks, threads, held, lock, exit, mainVars, history>>

------------------------------------------------------------------------------

Client == \/ \E h \in Thread : CreateThread(h) \/ DestroyThread(h)
          \/ \E t \in Task, h \in Thread : AddTask(t, h)
          \/ \E t \in Task : ClientCancel(t) \/ JoinTask(t)
          \/ StopTasks

Main == \/ DestroyRemove \/ DestroyJoin \/ ClientJoin \/ JoinRemove
        \/ StopCancel \/ StopRemove \/ StopClear
        \/ BeginUpdate \/ Assign \/ AssignEnd
        \/ \E t \in Task : UpdateWaiting(t) \/ UpdateEnded(t) \/ UpdateComplete(t) \/ UpdateTest(t)
        \/ CallbackReturn \/ UpdateReturn \/ UpdateEnd

Loop(h) == LoopTask(h) \/ LoopWorked(h) \/ LoopLeave(h) \/ LoopExit(h)

Next == Client \/ Main \/ \E h \in Thread : Loop(h)

Spec == Init /\ [][Next]_vars

\* Frames follow each other, every thread is scheduled, every work ends.
FairSpec == Spec /\ WF_vars(Main) /\ \A h \in Thread : WF_vars(Loop(h))

------------------------------------------------------------------------------
(* Properties *)

\* Work and completion of a task happen at most once in its life, however the
\* frame loop, joinTask(), stopTasks() and a client's own cancel() follow each
\* other: run() and the flags reject the second time.
AtMostOnce == \A t \in Task : works[t] <= 1 /\ calls[t] <= 1 /\ finals[t] <= 1

\* m_tasks lists every task the service owns, once, and none that it has finished: the
\* loop of update() removes by the place it stands at and finishes by the task, although
\* _onComplete() may add tasks before the place is used. Only stopTasks() finishes tasks
\* first and clears the list after them.
OwnedAreListed ==
  pc \notin {"stop", "stopRemove"} =>
    /\ \A t \in Task : owner[t] = "service" <=> InService(t)
    /\ \A i, j \in 1..Len(tasks) : tasks[i].task = tasks[j].task => i = j

\* The bare pointer of a thread (m_task) is only dereferenced while the service
\* owns the task: after joinTask(), stopTasks() or the frame that drops it, no
\* thread works on it or will.  The exception is a task its client cancelled
\* directly: update() drops it while its thread may still work, and once the
\* client has joined it itself joinTask() takes it for one that left its thread.
\* Such a client must keep a reference of its own.
HeldIsOwned ==
  \A h \in Thread, t \in Task :
    held[h] = t /\ wpc[h] # "leave" =>
      \/ owner[t] = "service"
      \/ t \in direct /\ (owner[t] = "update" \/ task[t].complete)

\* A task that is in progress is in the hands of its thread until its work ends:
\* nothing but a removeTask() meant for another task can lose it.
ProgressIsHeld ==
  \A i \in 1..Len(tasks) :
    LET d == tasks[i] s == task[d.task]
    IN  d.progress /\ s.run /\ ~s.finish /\ ~s.cancel => held[d.thread] = d.task \/ d.task \in evicted

\* No call of the service hangs: joining and destroying end when the work does.
MainReturns == pc # "idle" ~> pc = "idle"

\* What cannot leave m_tasks any more: its run was refused or failed, a
\* removeTask() took it from its thread, or its thread was destroyed.
Stuck(t) == \/ ~task[t].run /\ (task[t].finish \/ task[t].cancel)
            \/ t \in evicted
            \/ \E i \in 1..Len(tasks) : tasks[i].task = t /\ tasks[i].thread \notin threads

\* Every task posted to a thread is worked on and leaves the service, unless it is stuck.
Served == \A t \in Task : owner[t] = "service" ~> owner[t] # "service" \/ Stuck(t)

==============================================================================
