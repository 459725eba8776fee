------------------------- MODULE ThreadService_proofs -------------------------
(***************************************************************************)
(* Proofs about ThreadService, for any sets of tasks and threads.          *)
(***************************************************************************)
EXTENDS ThreadService, TLAPS

\* Where the main thread may be in the list, and what it works on there.
PlaceInv ==
  /\ pc \in {"destroy", "joinThread"} => arg \in Thread
  /\ pc \in {"clientJoin", "joinRemove"} => arg \in Task /\ InService(arg) /\ task[arg].cancel
  /\ pc = "clientJoin" => arg \in direct
  /\ pc = "assign" => idx >= 1 /\ lim = Len(tasks)
  /\ pc \in {"update", "callback", "updateReturn"} => idx >= 1 /\ lim <= Len(tasks) /\ idx <= lim + 1
  /\ pc \in {"callback", "updateReturn"} => idx <= lim /\ arg = tasks[idx].task /\ task[arg].run
  /\ pc = "callback" => task[arg].finish
  /\ pc = "stop" => idx \in 1..Len(tasks) + 1
  /\ pc = "stopRemove" => idx \in 1..Len(tasks) /\ task[tasks[idx].task].cancel

\* Whom stopTasks() has already finished while the list still holds them.
StoppedAt(i) == pc \in {"stop", "stopRemove"} /\ i < idx

\* The list holds each task the service owns, once, and no other.
ListInv ==
  /\ \A i, j \in 1..Len(tasks) : tasks[i].task = tasks[j].task => i = j
  /\ \A i \in 1..Len(tasks) : owner[tasks[i].task] = IF StoppedAt(i) THEN "stop" ELSE "service"
  /\ \A t \in Task : owner[t] = "service" => InService(t)

\* What the flags say of the calls so far.
CountInv ==
  \A t \in Task :
    /\ calls[t] \in {0, 1}
    /\ calls[t] = 1 => task[t].complete \/ (task[t].cancel /\ task[t].finish)
    /\ works[t] \in {0, 1}
    /\ works[t] = 1 => task[t].finish \/ \E h \in Thread : held[h] = t /\ wpc[h] = "work"
    /\ finals[t] = IF owner[t] \in {"client", "service"} THEN 0 ELSE 1

\* A completed task has ended, and only the service runs one.
FlagInv ==
  \A t \in Task : /\ task[t].complete => task[t].cancel \/ task[t].finish
                  /\ owner[t] = "client" => /\ ~task[t].run /\ ~task[t].complete
                                            /\ task[t].cancel => t \in direct

\* A task that waits in the service was cancelled or completed only by its client, and
\* is in progress once it was run.
EntryInv ==
  \A i \in 1..Len(tasks), t \in Task :
    tasks[i].task = t =>
      /\ task[t].run => tasks[i].progress \/ task[t].complete
      /\ task[t].complete => t \in direct \/ (pc = "callback" /\ arg = t)
      /\ task[t].cancel => \/ t \in direct \/ StoppedAt(i)
                           \/ pc = "stopRemove" /\ i = idx
                           \/ pc = "joinRemove" /\ arg = t

\* The lock of a thread is taken exactly while it is inside main() of a task, and no
\* thread that is to exit has one.
LockInv ==
  \A h \in Thread :
    /\ lock[h] = "worker" <=> wpc[h] \in {"work", "leave"}
    /\ wpc[h] \in {"work", "leave"} => held[h] # None
    /\ exit[h] => held[h] = None

\* No two threads hold the same task.
OnceInv == \A h, k \in Thread : held[h] # None /\ held[h] = held[k] => h = k

\* A thread holds a task that was run: one it has not begun has no end yet, one it
\* leaves has.
HoldInv ==
  \A h \in Thread, t \in Task :
    held[h] = t =>
      /\ task[t].run \/ task[t].finish
      /\ wpc[h] # "leave" /\ task[t].run => ~task[t].finish
      /\ wpc[h] = "leave" => task[t].finish \/ task[t].cancel
      /\ wpc[h] = "work" => task[t].run

\* The task a thread holds is in progress there, unless its client cancelled it directly.
LinkInv ==
  \A h \in Thread, t \in Task :
    held[h] = t /\ wpc[h] # "leave" =>
      \/ \E i \in 1..Len(tasks) : /\ tasks[i].task = t /\ tasks[i].thread = h
                                  /\ tasks[i].progress /\ owner[t] = "service"
      \/ t \in direct /\ (owner[t] = "update" \/ task[t].complete)

IInv == PlaceInv /\ ListInv /\ CountInv /\ FlagInv /\ EntryInv /\ LockInv /\ OnceInv /\ HoldInv /\ LinkInv /\ ProgressIsHeld

------------------------------------------------------------------------------
(* What the calls do that the steps are built from *)

\* Moving the last entry into the gap keeps every other one and adds none.
LEMMA RemovedEntries ==
  ASSUME NEW S, NEW s \in Seq(S), NEW n \in 1..Len(s)
  PROVE  /\ SwapRemove(s, n) \in Seq(S)
         /\ Len(SwapRemove(s, n)) = Len(s) - 1
         /\ \A i \in 1..Len(s) - 1 : SwapRemove(s, n)[i] = IF i = n THEN s[Len(s)] ELSE s[i]
<1> DEFINE p == [s EXCEPT ![n] = s[Len(s)]]
<1>1. Len(s) \in Nat /\ Len(s) >= 1 /\ s[Len(s)] \in S
  OBVIOUS
<1>2. p \in Seq(S) /\ Len(p) = Len(s)
  BY <1>1
<1>3. \A i \in 1..Len(s) : p[i] = IF i = n THEN s[Len(s)] ELSE s[i]
  BY <1>1
<1> HIDE DEF p
<1>4. /\ SubSeq(p, 1, Len(s) - 1) \in Seq(S)
      /\ Len(SubSeq(p, 1, Len(s) - 1)) = Len(s) - 1
      /\ \A i \in 1..Len(s) - 1 : SubSeq(p, 1, Len(s) - 1)[i] = p[i]
  BY <1>1, <1>2
<1>5. SwapRemove(s, n) = SubSeq(p, 1, Len(s) - 1)
  BY <1>2 DEF SwapRemove, Front, Last, p
<1> QED
  BY <1>1, <1>3, <1>4, <1>5

\* cancel() sets its flag and ends a task that does not run; what is said of the rest stays.
LEMMA CancelStep ==
  ASSUME TypeOK, NEW t \in Task, Cancel(t)
  PROVE  /\ task' \in [Task -> Flags] /\ calls' \in [Task -> Nat]
         /\ \A u \in Task \ {t} : task'[u] = task[u] /\ calls'[u] = calls[u]
         /\ task'[t].run <=> task[t].run
         /\ task'[t].complete <=> task[t].complete
         /\ task'[t].cancel
         /\ task'[t].finish <=> task[t].finish \/ Settles(task[t])
         /\ calls'[t] = calls[t] + IF Settles(task[t]) THEN 1 ELSE 0
<1> DEFINE s == Settles(task[t])
           f == [task[t] EXCEPT !.cancel = TRUE]
           g == [f EXCEPT !.finish = f.finish \/ s]
<1>1. task \in [Task -> Flags] /\ calls \in [Task -> Nat] /\ task[t] \in Flags
  BY DEF TypeOK
<1>2. s \in BOOLEAN
  BY <1>1 DEF Settles, Flags
<1>3. task' = [task EXCEPT ![t] = g] /\ calls' = [calls EXCEPT ![t] = @ + IF s THEN 1 ELSE 0]
  BY <1>1 DEF Cancel
<1> HIDE DEF s
<1>4. /\ f \in Flags /\ f.cancel
      /\ f.run <=> task[t].run
      /\ f.finish <=> task[t].finish
      /\ f.complete <=> task[t].complete
  BY <1>1 DEF Flags
<1> HIDE DEF f
<1>5. /\ g \in Flags /\ g.cancel
      /\ g.run <=> f.run
      /\ g.finish <=> f.finish \/ s
      /\ g.complete <=> f.complete
  BY <1>2, <1>4 DEF Flags
<1> HIDE DEF g
<1>6. /\ task'[t] = g /\ \A u \in Task \ {t} : task'[u] = task[u]
      /\ calls'[t] = calls[t] + (IF s THEN 1 ELSE 0) /\ \A u \in Task \ {t} : calls'[u] = calls[u]
      /\ task' \in [Task -> Flags] /\ calls' \in [Task -> Nat]
  BY <1>1, <1>3, <1>5
<1> QED
  BY <1>4, <1>5, <1>6 DEF s

\* A task that cannot run is left alone; any other runs, or has ended, and is held.
Runnable(t) == ~task[t].run /\ ~task[t].cancel /\ ~task[t].finish /\ ~task[t].complete

\* run() by a thread changes its task only, and only once.
LEMMA RunOnStep ==
  ASSUME TypeOK, NEW t \in Task, NEW h \in Thread, RunOn(h, t)
  PROVE  /\ task' \in [Task -> Flags] /\ held' \in [Thread -> Task \cup {None}]
         /\ \A u \in Task \ {t} : task'[u] = task[u]
         /\ \A k \in Thread \ {h} : held'[k] = held[k]
         /\ task'[t].complete <=> task[t].complete
         /\ task'[t].cancel <=> task[t].cancel
         /\ \/ ~Runnable(t) /\ task' = task /\ held' = held
            \/ Runnable(t) /\ held'[h] = t /\ (task'[t].run <=> ~task'[t].finish)
<1>1. /\ task \in [Task -> Flags] /\ held \in [Thread -> Task \cup {None}] /\ task[t] \in Flags
  BY DEF TypeOK
<1>2. CASE ~Runnable(t)
  BY <1>1, <1>2 DEF RunOn, Runnable
<1>3. CASE Runnable(t)
  <2>1. PICK ok \in BOOLEAN : task' = [task EXCEPT ![t].run = ok, ![t].finish = ~ok]
    BY <1>3 DEF RunOn, Runnable
  <2>2. held' = [held EXCEPT ![h] = t]
    BY <1>3 DEF RunOn, Runnable
  <2> DEFINE no == ~ok
             f == [task[t] EXCEPT !.run = ok]
             g == [f EXCEPT !.finish = no]
  <2>3. task' = [task EXCEPT ![t] = g] /\ no \in BOOLEAN /\ (no <=> ~ok)
    BY <1>1, <2>1
  <2> HIDE DEF no
  <2>4. f \in Flags /\ (f.run <=> ok) /\ (f.complete <=> task[t].complete) /\ (f.cancel <=> task[t].cancel)
    BY <1>1 DEF Flags
  <2> HIDE DEF f
  <2>5. /\ g \in Flags /\ (g.run <=> f.run) /\ (g.finish <=> no)
        /\ (g.complete <=> f.complete) /\ (g.cancel <=> f.cancel)
    BY <2>3, <2>4 DEF Flags
  <2> HIDE DEF g
  <2>6. /\ task'[t] = g /\ task' \in [Task -> Flags] /\ \A u \in Task \ {t} : task'[u] = task[u]
    BY <1>1, <2>3, <2>5
  <2> QED
    BY <1>1, <1>3, <2>2, <2>3, <2>4, <2>5, <2>6
<1> QED
  BY <1>2, <1>3

\* removeTask() empties a thread that is not to exit, and tells whom it took by mistake.
LEMMA RemoveTaskStep ==
  ASSUME TypeOK, NEW h \in Thread, NEW t, RemoveTask(h, t)
  PROVE  /\ held' \in [Thread -> Task \cup {None}] /\ evicted' \subseteq Task
         /\ evicted \subseteq evicted'
         /\ \A k \in Thread \ {h} : held'[k] = held[k]
         /\ exit[h] => held'[h] = held[h]
         /\ ~exit[h] => /\ lock[h] = "free" /\ held'[h] = None
                        /\ held[h] \in {t, None} \cup evicted'
<1>1. held \in [Thread -> Task \cup {None}] /\ evicted \subseteq Task
  BY DEF TypeOK
<1>2. CASE exit[h]
  BY <1>1, <1>2 DEF RemoveTask
<1>3. CASE ~exit[h]
  <2>1. /\ lock[h] = "free" /\ held' = [held EXCEPT ![h] = None]
        /\ evicted' = evicted \cup ({held[h]} \ {t, None})
    BY <1>3 DEF RemoveTask
  <2> QED
    BY <1>1, <1>3, <2>1
<1> QED
  BY <1>2, <1>3

\* A list without repetitions finds its tasks by name.
LEMMA IndexOf ==
  ASSUME NEW t, InService(t)
  PROVE  Index(t) \in 1..Len(tasks) /\ tasks[Index(t)].task = t
BY DEF Index, InService

------------------------------------------------------------------------------
(* The steps *)

Inv == TypeOK /\ IInv

\* The types of the list and its entries.
LEMMA ListType ==
  ASSUME TypeOK
  PROVE  /\ tasks \in Seq(TaskDesc) /\ Len(tasks) \in Nat
         /\ \A i \in 1..Len(tasks) : /\ tasks[i] \in TaskDesc
                                     /\ tasks[i].task \in Task /\ tasks[i].thread \in Thread
                                     /\ tasks[i].progress \in BOOLEAN /\ tasks[i].complete \in BOOLEAN
<1>1. tasks \in Seq(TaskDesc)
  BY DEF TypeOK
<1>2. \A i \in 1..Len(tasks) : tasks[i] \in TaskDesc
  BY <1>1
<1> QED
  BY <1>1, <1>2 DEF TaskDesc

\* Steps that move the main thread only.
LEMMA MovesStep ==
  ASSUME Inv, StopTasks \/ BeginUpdate \/ AssignEnd \/ UpdateEnd \/ (\E h \in Thread : DestroyThread(h))
                \/ (\E t \in Task : UpdateWaiting(t) \/ UpdateTest(t))
  PROVE  Inv'
<1>1. TypeOK /\ PlaceInv /\ ListInv /\ CountInv /\ FlagInv /\ EntryInv /\ LockInv /\ OnceInv /\ HoldInv /\ LinkInv /\ ProgressIsHeld
  BY DEF Inv, IInv
<1>2. UNCHANGED <<task, tasks, threads, identityVars, history>>
  BY DEF StopTasks, BeginUpdate, AssignEnd, UpdateEnd, DestroyThread, UpdateWaiting, UpdateTest
<1>3. Len(tasks) \in Nat /\ \A i \in 1..Len(tasks) : tasks[i].task \in Task
  BY <1>1, ListType
<1>4. TypeOK'
  BY <1>1, <1>2, <1>3 DEF TypeOK, StopTasks, BeginUpdate, AssignEnd, UpdateEnd, DestroyThread, UpdateWaiting, UpdateTest,
      Goto, Return, identityVars, history, MainAt, Updating
<1>5. PlaceInv'
  BY <1>1, <1>2, <1>3 DEF TypeOK, PlaceInv, StopTasks, BeginUpdate, AssignEnd, UpdateEnd, DestroyThread, UpdateWaiting, UpdateTest,
      Goto, Return, identityVars, history, MainAt, Updating
<1>6. ListInv'
  BY <1>1, <1>2, <1>3 DEF TypeOK, ListInv, StoppedAt, InService, StopTasks, BeginUpdate, AssignEnd, UpdateEnd, DestroyThread, UpdateWaiting, UpdateTest,
      Goto, Return, identityVars, history, MainAt, Updating
<1>7. EntryInv'
  BY <1>1, <1>2, <1>3 DEF TypeOK, EntryInv, StoppedAt, InService, StopTasks, BeginUpdate, AssignEnd, UpdateEnd, DestroyThread, UpdateWaiting, UpdateTest,
      Goto, Return, identityVars, history, MainAt, Updating
<1>8. CountInv' /\ FlagInv' /\ OnceInv' /\ LockInv' /\ HoldInv' /\ LinkInv' /\ ProgressIsHeld'
  BY <1>1, <1>2 DEF CountInv, FlagInv, OnceInv, LockInv, HoldInv, LinkInv, ProgressIsHeld, identityVars, history
<1> QED
  BY <1>4, <1>5, <1>6, <1>7, <1>8 DEF Inv, IInv

\* createThread(), and the end of destroyThread().
LEMMA ThreadsStep ==
  ASSUME Inv, (\E h \in Thread : CreateThread(h)) \/ DestroyJoin
  PROVE  Inv'
<1>1. TypeOK /\ PlaceInv /\ ListInv /\ CountInv /\ FlagInv /\ EntryInv /\ LockInv /\ OnceInv /\ HoldInv /\ LinkInv /\ ProgressIsHeld
  BY DEF Inv, IInv
<1>2. /\ UNCHANGED <<task, tasks, held, lock, exit, history>>
      /\ threads' \subseteq Thread
      /\ \/ UNCHANGED mainVars /\ \E h \in Thread : wpc[h] = "none" /\ wpc' = [wpc EXCEPT ![h] = "wait"]
         \/ Return /\ pc = "joinThread" /\ wpc' = wpc
  BY <1>1 DEF CreateThread, DestroyJoin, TypeOK, mainVars, identityVars
<1>3. /\ wpc' \in [Thread -> {"none", "wait", "work", "leave", "stopped"}]
      /\ \A h \in Thread : wpc'[h] = wpc[h] \/ (wpc[h] = "none" /\ wpc'[h] = "wait")
  BY <1>1, <1>2 DEF TypeOK
<1>4. TypeOK'
  BY <1>1, <1>2, <1>3 DEF TypeOK, Return, Goto, mainVars, history, MainAt
<1>5. PlaceInv' /\ ListInv' /\ FlagInv' /\ EntryInv'
  BY <1>1, <1>2 DEF PlaceInv, ListInv, FlagInv, EntryInv, StoppedAt, InService, Return, Goto, mainVars, history
<1>6. CountInv' /\ OnceInv' /\ LockInv' /\ HoldInv' /\ LinkInv' /\ ProgressIsHeld'
  BY <1>1, <1>2, <1>3 DEF CountInv, FlagInv, OnceInv, LockInv, HoldInv, LinkInv, ProgressIsHeld, history
<1> QED
  BY <1>4, <1>5, <1>6 DEF Inv, IInv

\* destroyThread() takes the task of a thread away and tells the thread to exit.
LEMMA DestroyRemoveStep == ASSUME Inv, DestroyRemove PROVE Inv'
<1>1. TypeOK /\ PlaceInv /\ ListInv /\ CountInv /\ FlagInv /\ EntryInv /\ LockInv /\ OnceInv /\ HoldInv /\ LinkInv /\ ProgressIsHeld
  BY DEF Inv, IInv
<1>2. /\ pc = "destroy" /\ arg \in Thread /\ RemoveTask(arg, None)
      /\ exit' = [exit EXCEPT ![arg] = TRUE]
      /\ Goto("joinThread", 0, 0, arg)
      /\ UNCHANGED <<task, tasks, threads, lock, wpc, owner, calls, works, finals, direct>>
  BY <1>1 DEF DestroyRemove, PlaceInv
<1>3. /\ held' \in [Thread -> Task \cup {None}] /\ evicted' \subseteq Task
      /\ evicted \subseteq evicted'
      /\ \A h \in Thread \ {arg} : held'[h] = held[h]
      /\ held'[arg] = None /\ held[arg] \in {None} \cup evicted'
      /\ held'[arg] # held[arg] => lock[arg] = "free"
  BY <1>1, <1>2, RemoveTaskStep DEF LockInv
<1>4. TypeOK'
  BY <1>1, <1>2, <1>3 DEF TypeOK, Goto, MainAt
<1>5. PlaceInv' /\ ListInv' /\ FlagInv' /\ EntryInv'
  BY <1>1, <1>2 DEF PlaceInv, ListInv, FlagInv, EntryInv, StoppedAt, InService, Goto
<1>6. LockInv'
  BY <1>1, <1>2, <1>3 DEF LockInv, TypeOK
<1>7. \A h \in Thread : held'[h] # None => h # arg /\ held'[h] = held[h]
  BY <1>3
<1>10. OnceInv' /\ HoldInv'
  BY <1>1, <1>2, <1>7, ServiceAssumption DEF OnceInv, HoldInv
<1>11. LinkInv'
  BY <1>1, <1>2, <1>7, ServiceAssumption DEF LinkInv
<1>8. CountInv'
  BY <1>1, <1>2, <1>3 DEF CountInv, LockInv
<1>9. ProgressIsHeld'
  BY <1>1, <1>2, <1>3, ListType DEF ProgressIsHeld
<1> QED
  BY <1>4, <1>5, <1>6, <1>8, <1>9, <1>10, <1>11 DEF Inv, IInv

\* addTask() lists a task that was in no list, and may hand it to its thread.
LEMMA AddTaskStep == ASSUME Inv, NEW t \in Task, NEW h \in Thread, AddTask(t, h) PROVE Inv'
<1>1. TypeOK /\ PlaceInv /\ ListInv /\ CountInv /\ FlagInv /\ EntryInv /\ LockInv /\ OnceInv /\ HoldInv /\ LinkInv /\ ProgressIsHeld
  BY DEF Inv, IInv
<1> DEFINE d == [task |-> t, thread |-> h, progress |-> Accepts(h), complete |-> FALSE]
<1>2. /\ pc \in {"idle", "callback"} /\ owner[t] = "client"
      /\ owner' = [owner EXCEPT ![t] = "service"]
      /\ tasks' = Append(tasks, d)
      /\ UNCHANGED <<threads, lock, exit, wpc, mainVars, calls, works, finals, evicted, direct>>
      /\ IF Accepts(h) THEN RunOn(h, t) ELSE UNCHANGED <<task, held>>
  BY DEF AddTask
<1>3. /\ tasks \in Seq(TaskDesc) /\ Len(tasks) \in Nat
      /\ \A i \in 1..Len(tasks) : tasks[i].task \in Task /\ tasks[i].thread \in Thread
      /\ \A i \in 1..Len(tasks) : tasks[i].progress \in BOOLEAN
  BY <1>1, ListType
<1>4. d \in TaskDesc /\ d.task = t /\ d.thread = h /\ (d.progress <=> Accepts(h))
  BY DEF TaskDesc, Accepts
<1> HIDE DEF d
<1>5. /\ tasks' \in Seq(TaskDesc) /\ Len(tasks') = Len(tasks) + 1
      /\ \A i \in 1..Len(tasks) : tasks'[i] = tasks[i]
      /\ tasks'[Len(tasks) + 1] = d
  BY <1>2, <1>3, <1>4
<1>6. /\ task' \in [Task -> Flags] /\ held' \in [Thread -> Task \cup {None}]
      /\ \A u \in Task \ {t} : task'[u] = task[u]
      /\ \A k \in Thread \ {h} : held'[k] = held[k]
      /\ task'[t].complete <=> task[t].complete
      /\ task'[t].cancel <=> task[t].cancel
      /\ \/ ~Runnable(t) /\ task' = task /\ held' = held
         \/ ~Accepts(h) /\ task' = task /\ held' = held
         \/ Accepts(h) /\ Runnable(t) /\ held'[h] = t /\ (task'[t].run <=> ~task'[t].finish)
  BY <1>1, <1>2, RunOnStep DEF TypeOK
<1>7. \A i \in 1..Len(tasks) : tasks[i].task # t
  BY <1>1, <1>2, <1>3 DEF ListInv
<1>8. ~task[t].run /\ \A k \in Thread : held[k] = t => task[t].finish
  BY <1>1, <1>2, ServiceAssumption DEF FlagInv, HoldInv, TypeOK
<1>9. \A k \in Thread : \/ held'[k] = held[k]
                          \/ /\ k = h /\ held[k] = None /\ held'[k] = t /\ Accepts(h)
                             /\ wpc[k] \notin {"work", "leave"} /\ ~exit[k]
                             /\ \A l \in Thread : held[l] # t
                             /\ task'[t].run <=> ~task'[t].finish
  BY <1>1, <1>6, <1>8 DEF LockInv, Accepts, Runnable, TypeOK
<1>10. \A u \in Task : /\ task[u].finish => task'[u].finish
                       /\ task'[u].complete <=> task[u].complete
                       /\ task'[u].cancel <=> task[u].cancel
                       /\ u # t => task'[u] = task[u]
  BY <1>6 DEF Runnable
<1>11. TypeOK'
  BY <1>1, <1>2, <1>5, <1>6 DEF TypeOK, mainVars
<1>12. PlaceInv'
  <2>1. pc' = pc /\ idx' = idx /\ lim' = lim /\ arg' = arg
    BY <1>2 DEF mainVars
  <2>2. CASE pc = "idle"
    BY <2>1, <2>2 DEF PlaceInv
  <2>3. CASE pc = "callback"
    <3>1. idx \in 1..Len(tasks) /\ lim <= Len(tasks) /\ idx <= lim /\ arg = tasks[idx].task /\ task[arg].run
      BY <1>1, <1>3, <2>3 DEF PlaceInv, TypeOK
    <3>2. tasks'[idx] = tasks[idx] /\ task'[arg] = task[arg]
      BY <1>3, <1>5, <1>6, <1>7, <3>1
    <3> QED
      BY <1>1, <1>3, <1>5, <2>1, <2>3, <3>1, <3>2 DEF PlaceInv, TypeOK
  <2> QED
    BY <1>2, <2>2, <2>3
<1>13. ListInv'
  <2>1. \A i \in 1..Len(tasks') : i \in 1..Len(tasks) \/ (i = Len(tasks) + 1 /\ tasks'[i].task = t)
    BY <1>3, <1>4, <1>5
  <2>2. /\ \A i \in Nat : ~StoppedAt(i) /\ ~StoppedAt(i)'
        /\ owner'[t] = "service" /\ \A u \in Task \ {t} : owner'[u] = owner[u]
    BY <1>1, <1>2 DEF StoppedAt, mainVars, TypeOK
  <2>3. \A i, j \in 1..Len(tasks') : tasks'[i].task = tasks'[j].task => i = j
    BY <1>1, <1>5, <1>7, <2>1 DEF ListInv
  <2>4. ASSUME NEW i \in 1..Len(tasks')
        PROVE  owner'[tasks'[i].task] = IF StoppedAt(i)' THEN "stop" ELSE "service"
    <3>1. CASE i \in 1..Len(tasks)
      <4>1. owner[tasks[i].task] = "service" /\ tasks[i].task \in Task \ {t} /\ tasks'[i] = tasks[i]
        BY <1>1, <1>3, <1>5, <1>7, <2>2, <3>1 DEF ListInv
      <4> QED
        BY <2>2, <4>1
    <3>2. CASE tasks'[i].task = t
      BY <2>2, <3>2
    <3> QED
      BY <2>1, <3>1, <3>2
  <2>5. ASSUME NEW u \in Task, owner'[u] = "service" PROVE InService(u)'
    <3>1. CASE u = t
      <4>1. Len(tasks) + 1 \in 1..Len(tasks') /\ tasks'[Len(tasks) + 1].task = t
        BY <1>3, <1>4, <1>5
      <4> QED
        BY <3>1, <4>1 DEF InService
    <3>2. CASE u # t
      <4>1. PICK i \in 1..Len(tasks) : tasks[i].task = u
        BY <1>1, <2>2, <2>5, <3>2 DEF ListInv, InService
      <4>2. i \in 1..Len(tasks') /\ tasks'[i].task = u
        BY <1>3, <1>5, <4>1
      <4> QED
        BY <4>2 DEF InService
    <3> QED
      BY <3>1, <3>2
  <2> QED
    BY <2>3, <2>4, <2>5 DEF ListInv
<1>14. CountInv'
  <2> SUFFICES ASSUME NEW u \in Task PROVE CountInv!(u)'
    BY DEF CountInv
  <2>1. finals'[u] = IF owner'[u] \in {"client", "service"} THEN 0 ELSE 1
    BY <1>1, <1>2 DEF CountInv, TypeOK
  <2>2. works[u] = 1 => task'[u].finish \/ \E k \in Thread : held'[k] = u /\ wpc'[k] = "work"
    BY <1>1, <1>2, <1>9, <1>10 DEF CountInv
  <2> QED
    BY <1>1, <1>2, <1>10, <2>1, <2>2 DEF CountInv
<1>15. FlagInv' /\ EntryInv'
  <2>1. FlagInv'
    BY <1>1, <1>2, <1>6, <1>10 DEF FlagInv, TypeOK
  <2> SUFFICES ASSUME NEW i \in 1..Len(tasks'), NEW u \in Task, tasks'[i].task = u
               PROVE  EntryInv!(i, u)'
    BY <2>1 DEF EntryInv
  <2>2. CASE i \in 1..Len(tasks)
    BY <1>1, <1>2, <1>5, <1>6, <1>7, <1>10, <2>2 DEF EntryInv, StoppedAt, mainVars
  <2>3. CASE i = Len(tasks) + 1
    BY <1>1, <1>2, <1>3, <1>4, <1>5, <1>6, <1>8, <1>10, <2>3 DEF FlagInv, StoppedAt, mainVars
  <2> QED
    BY <1>3, <1>5, <2>2, <2>3
<1>16. LockInv'
  BY <1>1, <1>2, <1>9, ServiceAssumption DEF LockInv
<1>17. OnceInv' /\ HoldInv'
  <2>1. OnceInv'
    BY <1>1, <1>9, ServiceAssumption DEF OnceInv
  <2> SUFFICES ASSUME NEW k \in Thread, NEW u \in Task, held'[k] = u PROVE HoldInv!(k, u)'
    BY <2>1 DEF HoldInv
  <2>2. CASE held[k] = u
    <3>1. task'[u] = task[u]
      BY <1>6, <1>8, <2>2 DEF Runnable
    <3> QED
      BY <1>1, <1>2, <2>2, <3>1 DEF HoldInv
  <2>3. CASE held[k] # u
    BY <1>2, <1>6, <1>9, <2>3
  <2> QED
    BY <2>2, <2>3
<1>18. LinkInv'
  <2> SUFFICES ASSUME NEW k \in Thread, NEW u \in Task, held'[k] = u, wpc'[k] # "leave"
               PROVE  \/ \E i \in 1..Len(tasks') : /\ tasks'[i].task = u /\ tasks'[i].thread = k
                                                   /\ tasks'[i].progress /\ owner'[u] = "service"
                      \/ u \in direct' /\ (owner'[u] = "update" \/ task'[u].complete)
    BY DEF LinkInv
  <2>1. CASE held[k] = u
    <3>1. CASE \E i \in 1..Len(tasks) : /\ tasks[i].task = u /\ tasks[i].thread = k
                                        /\ tasks[i].progress /\ owner[u] = "service"
      BY <1>1, <1>2, <1>3, <1>5, <3>1 DEF TypeOK
    <3>2. CASE u \in direct /\ (owner[u] = "update" \/ task[u].complete)
      BY <1>1, <1>2, <1>10, <3>2 DEF TypeOK
    <3> QED
      BY <1>1, <1>2, <2>1, <3>1, <3>2 DEF LinkInv
  <2>2. CASE held[k] # u
    <3>1. k = h /\ u = t /\ Accepts(h)
      BY <1>9, <2>2
    <3> QED
      BY <1>1, <1>2, <1>3, <1>4, <1>5, <3>1 DEF TypeOK
  <2> QED
    BY <2>1, <2>2
<1>19. ProgressIsHeld'
  <2> SUFFICES ASSUME NEW i \in 1..Len(tasks'), tasks'[i].progress, task'[tasks'[i].task].run,
                      ~task'[tasks'[i].task].finish, ~task'[tasks'[i].task].cancel
               PROVE  held'[tasks'[i].thread] = tasks'[i].task \/ tasks'[i].task \in evicted'
    BY DEF ProgressIsHeld
  <2>1. CASE i \in 1..Len(tasks)
    <3>1. /\ tasks'[i] = tasks[i] /\ tasks[i].task \in Task /\ tasks[i].thread \in Thread
          /\ task'[tasks[i].task] = task[tasks[i].task]
      BY <1>3, <1>5, <1>6, <1>7, <2>1
    <3>2. held[tasks[i].thread] = tasks[i].task \/ tasks[i].task \in evicted
      BY <1>1, <2>1, <3>1 DEF ProgressIsHeld
    <3> QED
      BY <1>2, <1>9, <3>1, <3>2, ServiceAssumption
  <2>2. CASE i = Len(tasks) + 1
    BY <1>2, <1>4, <1>5, <1>6, <1>8, <2>2
  <2> QED
    BY <1>3, <1>5, <2>1, <2>2
<1> QED
  BY <1>11, <1>12, <1>13, <1>14, <1>15, <1>16, <1>17, <1>18, <1>19 DEF Inv, IInv

\* What a cancel() leaves as it was, whoever calls it.
LEMMA CancelKeeps ==
  ASSUME Inv, NEW t \in Task, Cancel(t), owner[t] = "client" => t \in direct',
         direct \subseteq direct',
         UNCHANGED <<tasks, threads, identityVars, owner, works, finals, evicted>>
  PROVE  CountInv' /\ FlagInv' /\ LockInv' /\ OnceInv' /\ HoldInv' /\ LinkInv' /\ ProgressIsHeld'
<1>1. TypeOK /\ CountInv /\ FlagInv /\ LockInv /\ OnceInv /\ HoldInv /\ LinkInv /\ ProgressIsHeld
  BY DEF Inv, IInv
<1>2. /\ \A u \in Task \ {t} : task'[u] = task[u] /\ calls'[u] = calls[u]
      /\ task'[t].run <=> task[t].run
      /\ task'[t].complete <=> task[t].complete
      /\ task'[t].cancel
      /\ task'[t].finish <=> task[t].finish \/ Settles(task[t])
      /\ calls'[t] = calls[t] + IF Settles(task[t]) THEN 1 ELSE 0
  BY <1>1, CancelStep
<1>3. \A u \in Task : /\ task'[u].run <=> task[u].run
                      /\ task'[u].complete <=> task[u].complete
                      /\ task[u].cancel => task'[u].cancel
                      /\ task[u].finish => task'[u].finish
  BY <1>2
<1>4. CountInv'
  <2> SUFFICES ASSUME NEW u \in Task PROVE CountInv!(u)'
    BY DEF CountInv
  <2>1. works[u] = 1 => task'[u].finish \/ \E h \in Thread : held'[h] = u /\ wpc'[h] = "work"
    BY <1>1, <1>3 DEF CountInv, identityVars
  <2>2. calls'[u] \in {0, 1} /\ (calls'[u] = 1 => task'[u].complete \/ (task'[u].cancel /\ task'[u].finish))
    BY <1>1, <1>2 DEF CountInv, Settles
  <2> QED
    BY <1>1, <2>1, <2>2 DEF CountInv
<1>5. FlagInv'
  BY <1>1, <1>2, <1>3 DEF FlagInv
<1>6. LockInv' /\ OnceInv'
  BY <1>1 DEF LockInv, OnceInv, identityVars
<1>7. HoldInv'
  BY <1>1, <1>2 DEF HoldInv, Settles, identityVars
<1>8. LinkInv'
  BY <1>1, <1>3 DEF LinkInv, identityVars
<1>9. ProgressIsHeld'
  BY <1>1, <1>3, ListType DEF ProgressIsHeld, identityVars
<1> QED
  BY <1>4, <1>5, <1>6, <1>7, <1>8, <1>9

\* A client cancels a task, or joinTask() or stopTasks() do first.
LEMMA CancelsStep ==
  ASSUME Inv, NEW t \in Task, ClientCancel(t) \/ JoinTask(t) \/ (StopCancel /\ t = tasks[idx].task)
  PROVE  Inv'
<1>1. TypeOK /\ PlaceInv /\ ListInv /\ EntryInv
  BY DEF Inv, IInv
<1>2. /\ Cancel(t) /\ UNCHANGED <<tasks, threads, identityVars, owner, works, finals, evicted>>
      /\ \/ /\ pc = "idle" /\ direct' = direct \cup {t}
            /\ UNCHANGED mainVars \/ (InService(t) /\ Goto("clientJoin", 0, 0, t))
         \/ /\ pc = "idle" /\ UNCHANGED direct
            /\ InService(t) /\ Goto("joinRemove", 0, 0, t)
         \/ /\ pc = "stop" /\ idx <= Len(tasks) /\ t = tasks[idx].task /\ UNCHANGED direct
            /\ Goto("stopRemove", idx, 0, None)
  BY DEF ClientCancel, JoinTask, StopCancel
<1>3. /\ task' \in [Task -> Flags] /\ calls' \in [Task -> Nat]
      /\ \A u \in Task \ {t} : task'[u] = task[u]
      /\ task'[t].run <=> task[t].run
      /\ task'[t].complete <=> task[t].complete
      /\ task'[t].cancel
  BY <1>1, <1>2, CancelStep
<1>4. Len(tasks) \in Nat /\ \A i \in 1..Len(tasks) : tasks[i].task \in Task
  BY <1>1, ListType
<1>5. owner[t] = "client" => t \in direct'
  BY <1>1, <1>2, <1>4 DEF ListInv, InService, PlaceInv, StoppedAt, TypeOK
<1>6. CountInv' /\ FlagInv' /\ LockInv' /\ OnceInv' /\ HoldInv' /\ LinkInv' /\ ProgressIsHeld'
  BY <1>2, <1>5, CancelKeeps
<1>7. TypeOK'
  <2>1. /\ tasks' = tasks /\ threads' = threads /\ held' = held /\ lock' = lock /\ exit' = exit
        /\ wpc' = wpc /\ owner' = owner /\ works' = works /\ finals' = finals /\ evicted' = evicted
        /\ direct' \subseteq Task
    BY <1>1, <1>2 DEF TypeOK, identityVars
  <2>2. pc' \in MainAt /\ idx' \in Nat /\ lim' \in Nat /\ arg' \in Task \cup Thread \cup {None}
    <3>1. CASE UNCHANGED mainVars
      BY <1>1, <3>1 DEF TypeOK, mainVars
    <3>2. CASE Goto("clientJoin", 0, 0, t) \/ Goto("joinRemove", 0, 0, t) \/ Goto("stopRemove", idx, 0, None)
      BY <1>1, <3>2 DEF TypeOK, Goto, MainAt
    <3> QED
      BY <1>2, <3>1, <3>2
  <2> QED
    BY <1>1, <1>3, <2>1, <2>2 DEF TypeOK
<1>8. PlaceInv'
  <2>1. CASE pc = "idle"
    BY <1>2, <1>3, <2>1 DEF PlaceInv, InService, Goto, mainVars
  <2>2. CASE pc = "stop"
    BY <1>1, <1>2, <1>3, <2>2 DEF PlaceInv, TypeOK, Goto
  <2> QED
    BY <1>2, <2>1, <2>2
<1>9. ListInv'
  BY <1>1, <1>2 DEF ListInv, StoppedAt, InService, Goto, mainVars
<1>10. EntryInv'
  <2> SUFFICES ASSUME NEW i \in 1..Len(tasks), NEW u \in Task, tasks[i].task = u
               PROVE  EntryInv!(i, u)'
    BY <1>2 DEF EntryInv
  <2>1. /\ task'[u].run => tasks'[i].progress \/ task'[u].complete
        /\ task'[u].complete => u \in direct'
    BY <1>1, <1>2, <1>3 DEF EntryInv
  <2>2. CASE u = t /\ pc = "idle"
    BY <1>2, <2>1, <2>2 DEF EntryInv, StoppedAt, Goto, mainVars
  <2>3. CASE u = t /\ pc = "stop"
    <3>1. i = idx
      BY <1>1, <1>2, <2>3 DEF ListInv, PlaceInv, TypeOK
    <3> QED
      BY <1>2, <2>1, <2>3, <3>1 DEF Goto
  <2>4. CASE u # t
    BY <1>1, <1>2, <1>3, <2>1, <2>4 DEF EntryInv, StoppedAt, Goto, mainVars
  <2> QED
    BY <1>2, <2>2, <2>3, <2>4
<1> QED
  BY <1>6, <1>7, <1>8, <1>9, <1>10 DEF Inv, IInv

\* A client joins the task it cancelled: its end is told now, unless the thread did it.
LEMMA ClientJoinStep == ASSUME Inv, ClientJoin PROVE Inv'
<1>1. TypeOK /\ PlaceInv /\ ListInv /\ CountInv /\ FlagInv /\ EntryInv /\ LockInv /\ OnceInv /\ HoldInv /\ LinkInv /\ ProgressIsHeld
  BY DEF Inv, IInv
<1>2. /\ pc = "clientJoin" /\ arg \in Task /\ InService(arg) /\ arg \in direct /\ task[arg].cancel
      /\ Return /\ UNCHANGED <<tasks, threads, identityVars, owner, works, finals, evicted, direct>>
  BY <1>1 DEF ClientJoin, PlaceInv
<1>3. /\ task' \in [Task -> Flags] /\ calls' \in [Task -> Nat]
      /\ \A u \in Task \ {arg} : task'[u] = task[u] /\ calls'[u] = calls[u]
      /\ task'[arg].run <=> task[arg].run
      /\ task'[arg].finish <=> task[arg].finish
      /\ task'[arg].cancel <=> task[arg].cancel
      /\ task[arg].complete => task'[arg].complete
      /\ calls'[arg] = calls[arg] \/ (calls[arg] = 0 /\ calls'[arg] = 1 /\ task'[arg].complete)
  <2>1. CASE task[arg].finish \/ task[arg].complete
    BY <1>1, <1>2, <2>1 DEF ClientJoin, TypeOK
  <2>2. CASE ~task[arg].finish /\ ~task[arg].complete
    <3>1. task' = [task EXCEPT ![arg].complete = TRUE] /\ calls' = [calls EXCEPT ![arg] = @ + 1]
      BY <2>2 DEF ClientJoin
    <3> QED
      <4>1. task[arg] \in Flags /\ task \in [Task -> Flags] /\ calls \in [Task -> Nat]
        BY <1>1, <1>2 DEF TypeOK
      <4> DEFINE f == [task[arg] EXCEPT !.complete = TRUE]
      <4>2. /\ f \in Flags /\ f.complete
            /\ f.run <=> task[arg].run
            /\ f.finish <=> task[arg].finish
            /\ f.cancel <=> task[arg].cancel
        BY <4>1 DEF Flags
      <4>3. task' = [task EXCEPT ![arg] = f]
        BY <3>1
      <4> HIDE DEF f
      <4>4. task'[arg] = f /\ task' \in [Task -> Flags] /\ \A u \in Task \ {arg} : task'[u] = task[u]
        BY <1>2, <4>1, <4>2, <4>3
      <4>5. calls[arg] = 0
        BY <1>1, <1>2, <2>2 DEF CountInv
      <4> QED
        BY <1>2, <3>1, <4>1, <4>2, <4>4, <4>5
  <2> QED
    BY <2>1, <2>2
<1>4. Len(tasks) \in Nat /\ \A i \in 1..Len(tasks) : tasks[i].task \in Task
  BY <1>1, ListType
<1>5. \A u \in Task : /\ task'[u].run <=> task[u].run
                      /\ task'[u].finish <=> task[u].finish
                      /\ task'[u].cancel <=> task[u].cancel
                      /\ task[u].complete => task'[u].complete
                      /\ task'[u].complete => task[u].complete \/ u = arg
  BY <1>3
<1>6. owner[arg] # "client"
  BY <1>1, <1>2, <1>4 DEF ListInv, InService, StoppedAt
<1>7. TypeOK' /\ PlaceInv' /\ ListInv'
  BY <1>1, <1>2, <1>3 DEF TypeOK, PlaceInv, ListInv, StoppedAt, InService, Return, Goto, MainAt, identityVars
<1>8. CountInv'
  <2> SUFFICES ASSUME NEW u \in Task PROVE CountInv!(u)'
    BY DEF CountInv
  <2>1. works[u] = 1 => task'[u].finish \/ \E h \in Thread : held'[h] = u /\ wpc'[h] = "work"
    BY <1>1, <1>2, <1>5 DEF CountInv, identityVars
  <2>2. calls'[u] \in {0, 1} /\ (calls'[u] = 1 => task'[u].complete \/ (task'[u].cancel /\ task'[u].finish))
    BY <1>1, <1>2, <1>3 DEF CountInv
  <2> QED
    BY <1>1, <1>2, <2>1, <2>2 DEF CountInv
<1>9. FlagInv'
  BY <1>1, <1>2, <1>5, <1>6 DEF FlagInv
<1>10. EntryInv'
  BY <1>1, <1>2, <1>4, <1>5 DEF EntryInv, StoppedAt, Return, Goto
<1>11. LockInv' /\ OnceInv' /\ HoldInv'
  BY <1>1, <1>2, <1>5 DEF LockInv, OnceInv, HoldInv, identityVars
<1>12. LinkInv' /\ ProgressIsHeld'
  BY <1>1, <1>2, <1>4, <1>5 DEF LinkInv, ProgressIsHeld, identityVars
<1> QED
  BY <1>7, <1>8, <1>9, <1>10, <1>11, <1>12 DEF Inv, IInv


\* finally() is counted, and the reference of the service is gone.
LEMMA ReleaseType ==
  ASSUME TypeOK, NEW t \in Task, NEW who \in {"update", "join", "stop"}, Release(t, who)
  PROVE  /\ owner' \in [Task -> {"client", "service", "update", "join", "stop"}]
         /\ finals' \in [Task -> Nat]
<1>1. /\ owner \in [Task -> {"client", "service", "update", "join", "stop"}]
      /\ finals \in [Task -> Nat]
  BY DEF TypeOK
<1> QED
  BY <1>1 DEF Release

\* The list after one of its entries was removed.
LEMMA DroppedEntries ==
  ASSUME TypeOK, ListInv, NEW n \in 1..Len(tasks), tasks' = SwapRemove(tasks, n)
  PROVE  /\ tasks' \in Seq(TaskDesc) /\ Len(tasks') \in Nat /\ Len(tasks') = Len(tasks) - 1
         /\ \A j \in 1..Len(tasks') : \E k \in 1..Len(tasks) \ {n} : tasks'[j] = tasks[k]
         /\ \A k \in 1..Len(tasks) \ {n} : \E j \in 1..Len(tasks') : tasks'[j] = tasks[k]
         /\ \A i, j \in 1..Len(tasks') : tasks'[i].task = tasks'[j].task => i = j
<1>1. tasks \in Seq(TaskDesc) /\ Len(tasks) \in Nat
  BY ListType
<1>2. /\ tasks' \in Seq(TaskDesc) /\ Len(tasks') = Len(tasks) - 1
      /\ \A i \in 1..Len(tasks) - 1 : tasks'[i] = IF i = n THEN tasks[Len(tasks)] ELSE tasks[i]
  BY <1>1, RemovedEntries
<1>3. \A j \in 1..Len(tasks') : \E k \in 1..Len(tasks) \ {n} : tasks'[j] = tasks[k]
  <2> TAKE j \in 1..Len(tasks')
  <2>1. CASE j = n
    BY <1>1, <1>2, <2>1
  <2>2. CASE j # n
    BY <1>1, <1>2, <2>2
  <2> QED
    BY <2>1, <2>2
<1>4. \A k \in 1..Len(tasks) \ {n} : \E j \in 1..Len(tasks') : tasks'[j] = tasks[k]
  <2> TAKE k \in 1..Len(tasks) \ {n}
  <2>1. CASE k = Len(tasks)
    BY <1>1, <1>2, <2>1
  <2>2. CASE k # Len(tasks)
    BY <1>1, <1>2, <2>2
  <2> QED
    BY <2>1, <2>2
<1>5. \A i, j \in 1..Len(tasks') : tasks'[i].task = tasks'[j].task => i = j
  <2> SUFFICES ASSUME NEW i \in 1..Len(tasks'), NEW j \in 1..Len(tasks'), tasks'[i].task = tasks'[j].task
               PROVE  i = j
    OBVIOUS
  <2> DEFINE from(l) == IF l = n THEN Len(tasks) ELSE l
  <2>1. /\ from(i) \in 1..Len(tasks) /\ tasks'[i] = tasks[from(i)]
        /\ from(j) \in 1..Len(tasks) /\ tasks'[j] = tasks[from(j)]
    BY <1>1, <1>2
  <2>2. from(i) = from(j)
    <3> HIDE DEF from
    <3> QED
      BY <2>1 DEF ListInv
  <2> QED
    BY <1>1, <1>2, <2>2
<1>6. Len(tasks') \in Nat
  BY <1>1, <1>2
<1> QED
  BY <1>2, <1>3, <1>4, <1>5, <1>6

\* A task leaves the list and the service: what is said of the others stays.
LEMMA DropKeeps ==
  ASSUME Inv, NEW n \in 1..Len(tasks), NEW t \in Task, t = tasks[n].task,
         NEW who \in {"update", "join"},
         tasks' = SwapRemove(tasks, n), Release(t, who),
         UNCHANGED <<task, threads, lock, exit, wpc, calls, works, direct>>,
         pc \notin {"stop", "stopRemove"}, pc' \notin {"stop", "stopRemove"},
         pc \in {"callback", "joinRemove"} => arg = t,
         evicted \subseteq evicted',
         \A h \in Thread : \/ held'[h] = held[h]
                           \/ /\ held'[h] = None /\ lock[h] = "free"
                              /\ held[h] \in {t, None} \cup evicted',
         \A h \in Thread : held'[h] = t /\ wpc[h] # "leave"
                             => t \in direct /\ (who = "update" \/ task[t].complete)
  PROVE  /\ ListInv' /\ CountInv' /\ FlagInv' /\ EntryInv' /\ LockInv' /\ OnceInv' /\ HoldInv'
         /\ LinkInv' /\ ProgressIsHeld'
<1>1. TypeOK /\ PlaceInv /\ ListInv /\ CountInv /\ FlagInv /\ EntryInv /\ LockInv /\ OnceInv /\ HoldInv /\ LinkInv /\ ProgressIsHeld
  BY DEF Inv, IInv
<1>2. /\ Len(tasks') \in Nat
      /\ \A j \in 1..Len(tasks') : \E k \in 1..Len(tasks) \ {n} : tasks'[j] = tasks[k]
      /\ \A k \in 1..Len(tasks) \ {n} : \E j \in 1..Len(tasks') : tasks'[j] = tasks[k]
      /\ \A i, j \in 1..Len(tasks') : tasks'[i].task = tasks'[j].task => i = j
  BY <1>1, DroppedEntries
<1>3. Len(tasks) \in Nat /\ \A i \in 1..Len(tasks) : tasks[i].task \in Task /\ tasks[i].thread \in Thread
  BY <1>1, ListType
<1>4. owner' = [owner EXCEPT ![t] = who] /\ finals' = [finals EXCEPT ![t] = @ + 1]
  BY DEF Release
<1>5. owner[t] = "service" /\ finals[t] = 0
  BY <1>1 DEF ListInv, StoppedAt, CountInv
<1>6. \A k \in 1..Len(tasks) \ {n} : tasks[k].task # t
  BY <1>1 DEF ListInv
<1>7. \A i \in 1..Len(tasks) : owner[tasks[i].task] = "service"
  BY <1>1 DEF ListInv, StoppedAt
<1>8. ListInv'
  <2>1. \A j \in 1..Len(tasks') : owner'[tasks'[j].task] = "service"
    <3> TAKE j \in 1..Len(tasks')
    <3>1. PICK k \in 1..Len(tasks) \ {n} : tasks'[j] = tasks[k]
      BY <1>2
    <3>2. tasks[k].task \in Task \ {t} /\ owner[tasks[k].task] = "service"
      BY <1>3, <1>6, <1>7
    <3> QED
      BY <1>1, <1>4, <3>1, <3>2 DEF TypeOK
  <2>2. \A u \in Task : owner'[u] = "service" => \E j \in 1..Len(tasks') : tasks'[j].task = u
    <3> SUFFICES ASSUME NEW u \in Task, owner'[u] = "service"
                 PROVE  \E j \in 1..Len(tasks') : tasks'[j].task = u
      OBVIOUS
    <3>1. u # t /\ owner[u] = "service"
      BY <1>1, <1>4 DEF TypeOK
    <3>2. PICK k \in 1..Len(tasks) : tasks[k].task = u
      BY <1>1, <3>1 DEF ListInv, InService
    <3>3. k # n
      BY <3>1, <3>2
    <3>4. PICK j \in 1..Len(tasks') : tasks'[j] = tasks[k]
      BY <1>2, <3>3
    <3> QED
      BY <3>2, <3>4
  <2> QED
    BY <1>2, <2>1, <2>2 DEF ListInv, StoppedAt, InService
<1>9. \A h \in Thread : held'[h] # None => held'[h] = held[h]
  OBVIOUS
<1>10. \A h \in Thread : wpc[h] \in {"work", "leave"} => held'[h] = held[h]
  BY <1>1 DEF LockInv
<1>11. CountInv'
  <2> SUFFICES ASSUME NEW u \in Task PROVE CountInv!(u)'
    BY DEF CountInv
  <2>1. finals'[u] = IF owner'[u] \in {"client", "service"} THEN 0 ELSE 1
    BY <1>1, <1>4, <1>5 DEF CountInv, TypeOK
  <2>2. works[u] = 1 => task'[u].finish \/ \E h \in Thread : held'[h] = u /\ wpc'[h] = "work"
    BY <1>1, <1>10 DEF CountInv
  <2> QED
    BY <1>1, <2>1, <2>2 DEF CountInv
<1>12. FlagInv'
  BY <1>1, <1>4 DEF FlagInv, TypeOK
<1>13. EntryInv'
  <2> SUFFICES ASSUME NEW j \in 1..Len(tasks'), NEW u \in Task, tasks'[j].task = u
               PROVE  EntryInv!(j, u)'
    BY DEF EntryInv
  <2>1. PICK k \in 1..Len(tasks) \ {n} : tasks'[j] = tasks[k]
    BY <1>2
  <2>2. u # t /\ tasks[k].task = u
    BY <1>6, <2>1
  <2>3. EntryInv!(k, u)
    BY <1>1, <2>1 DEF EntryInv
  <2> QED
    BY <2>1, <2>2, <2>3 DEF StoppedAt
<1>14. LockInv'
  BY <1>1, <1>9, <1>10 DEF LockInv
<1>15. OnceInv' /\ HoldInv'
  BY <1>1, <1>9, ServiceAssumption DEF OnceInv, HoldInv
<1>16. LinkInv'
  <2> SUFFICES ASSUME NEW h \in Thread, NEW u \in Task, held'[h] = u, wpc'[h] # "leave"
               PROVE  LinkInv!(h, u)!2'
    BY DEF LinkInv
  <2>1. CASE u = t
    BY <1>1, <1>4, <2>1 DEF TypeOK
  <2>2. CASE u # t
    <3>1. held[h] = u
      BY <1>9, ServiceAssumption
    <3>2. CASE u \in direct /\ (owner[u] = "update" \/ task[u].complete)
      BY <1>1, <1>4, <2>2, <3>2 DEF TypeOK
    <3>3. CASE \E i \in 1..Len(tasks) : /\ tasks[i].task = u /\ tasks[i].thread = h
                                        /\ tasks[i].progress /\ owner[u] = "service"
      <4>1. PICK i \in 1..Len(tasks) : /\ tasks[i].task = u /\ tasks[i].thread = h
                                       /\ tasks[i].progress /\ owner[u] = "service"
        BY <3>3
      <4>2. PICK j \in 1..Len(tasks') : tasks'[j] = tasks[i]
        BY <1>2, <2>2, <4>1
      <4>3. owner'[u] = "service"
        BY <1>1, <1>4, <2>2, <4>1 DEF TypeOK
      <4> QED
        BY <4>1, <4>2, <4>3
    <3> QED
      BY <1>1, <3>1, <3>2, <3>3 DEF LinkInv
  <2> QED
    BY <2>1, <2>2
<1>17. ProgressIsHeld'
  <2> SUFFICES ASSUME NEW j \in 1..Len(tasks'), tasks'[j].progress, task[tasks'[j].task].run,
                      ~task[tasks'[j].task].finish, ~task[tasks'[j].task].cancel
               PROVE  held'[tasks'[j].thread] = tasks'[j].task \/ tasks'[j].task \in evicted'
    BY DEF ProgressIsHeld
  <2>1. PICK k \in 1..Len(tasks) \ {n} : tasks'[j] = tasks[k]
    BY <1>2
  <2>2. held[tasks[k].thread] = tasks[k].task \/ tasks[k].task \in evicted
    BY <1>1, <2>1 DEF ProgressIsHeld
  <2>3. tasks[k].task # t /\ tasks[k].task # None /\ tasks[k].thread \in Thread
    BY <1>3, <1>6, ServiceAssumption
  <2> QED
    BY <2>1, <2>2, <2>3
<1> QED
  BY <1>8, <1>11, <1>12, <1>13, <1>14, <1>15, <1>16, <1>17

\* joinTask() takes the task from its thread, unless it is not in progress there.
LEMMA JoinRemoveStep == ASSUME Inv, JoinRemove PROVE Inv'
<1>1. TypeOK /\ PlaceInv /\ ListInv /\ LockInv /\ LinkInv
  BY DEF Inv, IInv
<1> DEFINE n == Index(arg)
<1>2. pc = "joinRemove" /\ arg \in Task /\ n \in 1..Len(tasks) /\ tasks[n].task = arg
  BY <1>1, IndexOf DEF JoinRemove, PlaceInv
<1>3. /\ IF tasks[n].progress THEN RemoveTask(tasks[n].thread, arg) ELSE UNCHANGED <<held, evicted>>
      /\ tasks' = SwapRemove(tasks, n)
      /\ Release(arg, "join") /\ Return
      /\ UNCHANGED <<task, threads, lock, exit, wpc, calls, works, direct>>
  BY DEF JoinRemove
<1> HIDE DEF n
<1>4. /\ tasks[n].thread \in Thread /\ tasks[n].progress \in BOOLEAN /\ Len(tasks) \in Nat
  BY <1>1, <1>2, ListType
<1>5. /\ held' \in [Thread -> Task \cup {None}] /\ evicted' \subseteq Task /\ evicted \subseteq evicted'
      /\ \A h \in Thread : \/ held'[h] = held[h]
                           \/ /\ held'[h] = None /\ lock[h] = "free"
                              /\ held[h] \in {arg, None} \cup evicted'
      /\ tasks[n].progress /\ ~exit[tasks[n].thread] => held'[tasks[n].thread] = None
  <2>1. CASE tasks[n].progress
    BY <1>1, <1>3, <1>4, <2>1, RemoveTaskStep
  <2>2. CASE ~tasks[n].progress
    BY <1>1, <1>3, <2>2 DEF TypeOK
  <2> QED
    BY <1>4, <2>1, <2>2
<1>6. owner[arg] = "service"
  BY <1>1, <1>2 DEF ListInv, StoppedAt
<1>7. \A h \in Thread : held'[h] = arg /\ wpc[h] # "leave" => arg \in direct /\ task[arg].complete
  <2> SUFFICES ASSUME NEW h \in Thread, held'[h] = arg, wpc[h] # "leave"
               PROVE  arg \in direct /\ task[arg].complete
    OBVIOUS
  <2>1. held[h] = arg /\ arg # None /\ ~exit[h]
    BY <1>1, <1>2, <1>5, ServiceAssumption DEF LockInv
  <2>2. ~(tasks[n].thread = h /\ tasks[n].progress)
    BY <1>5, <2>1
  <2>3. \A i \in 1..Len(tasks) : tasks[i].task = arg => i = n
    BY <1>1, <1>2 DEF ListInv
  <2> QED
    BY <1>1, <1>2, <1>6, <2>1, <2>2, <2>3 DEF LinkInv
<1>8. /\ ListInv' /\ CountInv' /\ FlagInv' /\ EntryInv' /\ LockInv' /\ OnceInv' /\ HoldInv'
      /\ LinkInv' /\ ProgressIsHeld'
  <2>1. pc' = "idle"
    BY <1>3 DEF Return, Goto
  <2> QED
    BY <1>2, <1>3, <1>5, <1>7, <2>1, DropKeeps
<1>9. tasks' \in Seq(TaskDesc)
  BY <1>1, <1>2, <1>3, DroppedEntries
<1>10. TypeOK' /\ PlaceInv'
  BY <1>1, <1>2, <1>3, <1>5, <1>9 DEF TypeOK, PlaceInv, Release, Return, Goto, MainAt
<1> QED
  BY <1>8, <1>10 DEF Inv, IInv

\* What a step of update() that drops a task needs of its place in the list.
LEMMA UpdateDrops ==
  ASSUME Inv, NEW t \in Task, idx \in 1..Len(tasks), idx <= lim, t = tasks[idx].task, lim <= Len(tasks),
         pc \in {"update", "callback", "updateReturn"}, pc = "callback" => arg = t,
         tasks' = SwapRemove(tasks, idx), Release(t, "update"), Goto("update", idx, lim - 1, None),
         UNCHANGED <<task, threads, identityVars, calls, works, evicted, direct>>,
         \A h \in Thread : held[h] = t /\ wpc[h] # "leave" => t \in direct
  PROVE  Inv'
<1>1. TypeOK /\ PlaceInv /\ ListInv
  BY DEF Inv, IInv
<1>2. Len(tasks) \in Nat /\ idx \in Nat /\ lim \in Nat /\ UNCHANGED <<held, lock, exit, wpc>>
  BY <1>1 DEF TypeOK, identityVars
<1>3. tasks' \in Seq(TaskDesc) /\ Len(tasks') = Len(tasks) - 1
  BY <1>1, DroppedEntries
<1>4. /\ ListInv' /\ CountInv' /\ FlagInv' /\ EntryInv' /\ LockInv' /\ OnceInv' /\ HoldInv'
      /\ LinkInv' /\ ProgressIsHeld'
  <2>1. pc' = "update"
    BY DEF Goto
  <2> QED
    BY <1>2, <2>1, DropKeeps
<1>5. TypeOK'
  <2>1. owner' \in [Task -> {"client", "service", "update", "join", "stop"}] /\ finals' \in [Task -> Nat]
    BY <1>1, ReleaseType
  <2>2. pc' \in MainAt /\ idx' \in Nat /\ lim' \in Nat /\ arg' = None
    BY <1>2 DEF Goto, MainAt
  <2> QED
    BY <1>1, <1>2, <1>3, <2>1, <2>2 DEF TypeOK
<1>6. PlaceInv'
  BY <1>1, <1>2, <1>3 DEF PlaceInv, Goto
<1> QED
  BY <1>4, <1>5, <1>6 DEF Inv, IInv

\* update() drops a task that ended: only one its client cancelled may still be held.
LEMMA UpdateDropsStep ==
  ASSUME Inv, (\E t \in Task : UpdateEnded(t)) \/ CallbackReturn \/ (UpdateReturn /\ task[arg].finish)
  PROVE  Inv'
<1>1. TypeOK /\ PlaceInv /\ ListInv /\ FlagInv /\ EntryInv /\ HoldInv /\ LinkInv
  BY DEF Inv, IInv
<1>2. Len(tasks) \in Nat /\ idx \in Nat /\ lim \in Nat
      /\ \A i \in 1..Len(tasks) : tasks[i].task \in Task
  BY <1>1, ListType DEF TypeOK
<1>3. ASSUME NEW t \in Task, UpdateEnded(t) PROVE Inv'
  <2>1. /\ pc = "update" /\ idx \in 1..Len(tasks) /\ idx <= lim /\ lim <= Len(tasks) /\ t = tasks[idx].task
        /\ task[t].run /\ (task[t].complete \/ task[t].cancel)
    BY <1>1, <1>2, <1>3 DEF UpdateEnded, Updating, PlaceInv
  <2>2. t \in direct
    BY <1>1, <2>1 DEF EntryInv, StoppedAt
  <2> QED
    BY <1>3, <2>1, <2>2, UpdateDrops DEF UpdateEnded
<1>4. ASSUME CallbackReturn PROVE Inv'
  <2>1. /\ pc = "callback" /\ idx \in 1..Len(tasks) /\ idx <= lim /\ lim <= Len(tasks) /\ arg = tasks[idx].task
        /\ task[arg].run /\ task[arg].finish /\ arg \in Task
    BY <1>1, <1>2, <1>4 DEF CallbackReturn, PlaceInv
  <2>2. \A h \in Thread : held[h] = arg /\ wpc[h] # "leave" => arg \in direct
    BY <1>1, <2>1 DEF HoldInv
  <2> QED
    BY <1>4, <2>1, <2>2, UpdateDrops DEF CallbackReturn
<1>5. ASSUME UpdateReturn, task[arg].finish PROVE Inv'
  <2>1. /\ pc = "updateReturn" /\ idx \in 1..Len(tasks) /\ idx <= lim /\ lim <= Len(tasks) /\ arg = tasks[idx].task
        /\ task[arg].run /\ arg \in Task
    BY <1>1, <1>2, <1>5 DEF UpdateReturn, PlaceInv
  <2>2. \A h \in Thread : ~(held[h] = arg /\ wpc[h] # "leave")
    BY <1>1, <1>5, <2>1 DEF HoldInv
  <2> QED
    BY <1>5, <2>1, <2>2, UpdateDrops DEF UpdateReturn
<1> QED
  BY <1>3, <1>4, <1>5

\* update() completes a task whose work has ended: its end is told now, for the first time.
LEMMA UpdateCompleteStep == ASSUME Inv, NEW t \in Task, UpdateComplete(t) PROVE Inv'
<1>1. TypeOK /\ PlaceInv /\ ListInv /\ CountInv /\ FlagInv /\ EntryInv /\ LockInv /\ OnceInv /\ HoldInv /\ LinkInv /\ ProgressIsHeld
  BY DEF Inv, IInv
<1>2. /\ pc = "update" /\ idx <= lim /\ t = tasks[idx].task
      /\ task[t].run /\ ~task[t].complete /\ ~task[t].cancel /\ task[t].finish
      /\ task' = [task EXCEPT ![t].complete = TRUE]
      /\ calls' = [calls EXCEPT ![t] = @ + 1]
      /\ Goto("callback", idx, lim, t)
      /\ UNCHANGED <<tasks, threads, identityVars, owner, works, finals, evicted, direct>>
  BY DEF UpdateComplete, Updating
<1>3. Len(tasks) \in Nat /\ \A i \in 1..Len(tasks) : tasks[i].task \in Task
  BY <1>1, ListType
<1>4. idx \in 1..Len(tasks)
  BY <1>1, <1>2, <1>3 DEF PlaceInv, TypeOK
<1>5. /\ task' \in [Task -> Flags] /\ calls' \in [Task -> Nat]
      /\ \A u \in Task \ {t} : task'[u] = task[u] /\ calls'[u] = calls[u]
      /\ task'[t].run /\ task'[t].finish /\ ~task'[t].cancel /\ task'[t].complete
      /\ calls'[t] = 1
  <2>1. task[t] \in Flags /\ task \in [Task -> Flags] /\ calls \in [Task -> Nat] /\ calls[t] = 0
    BY <1>1, <1>2 DEF TypeOK, CountInv
  <2> DEFINE f == [task[t] EXCEPT !.complete = TRUE]
  <2>2. /\ f \in Flags /\ f.complete
        /\ f.run <=> task[t].run
        /\ f.finish <=> task[t].finish
        /\ f.cancel <=> task[t].cancel
    BY <2>1 DEF Flags
  <2>3. task' = [task EXCEPT ![t] = f]
    BY <1>2
  <2> HIDE DEF f
  <2>4. task'[t] = f /\ task' \in [Task -> Flags] /\ \A u \in Task \ {t} : task'[u] = task[u]
    BY <2>1, <2>2, <2>3
  <2> QED
    BY <1>2, <2>1, <2>2, <2>4
<1>6. \A u \in Task : /\ task'[u].run <=> task[u].run
                      /\ task'[u].finish <=> task[u].finish
                      /\ task'[u].cancel <=> task[u].cancel
                      /\ task[u].complete => task'[u].complete
                      /\ task'[u].complete => task[u].complete \/ u = t
  BY <1>2, <1>5
<1>7. owner[t] = "service"
  BY <1>1, <1>2, <1>4 DEF ListInv, StoppedAt
<1>8. TypeOK'
  BY <1>1, <1>2, <1>5 DEF TypeOK, Goto, MainAt, identityVars
<1>9. PlaceInv'
  BY <1>1, <1>2, <1>4, <1>5 DEF PlaceInv, TypeOK, Goto
<1>10. ListInv'
  BY <1>1, <1>2 DEF ListInv, StoppedAt, InService, Goto
<1>11. CountInv'
  <2> SUFFICES ASSUME NEW u \in Task PROVE CountInv!(u)'
    BY DEF CountInv
  <2>1. works[u] = 1 => task'[u].finish \/ \E h \in Thread : held'[h] = u /\ wpc'[h] = "work"
    BY <1>1, <1>2, <1>6 DEF CountInv, identityVars
  <2>2. calls'[u] \in {0, 1} /\ (calls'[u] = 1 => task'[u].complete \/ (task'[u].cancel /\ task'[u].finish))
    BY <1>1, <1>5 DEF CountInv
  <2> QED
    BY <1>1, <1>2, <2>1, <2>2 DEF CountInv
<1>12. FlagInv'
  BY <1>1, <1>2, <1>6, <1>7 DEF FlagInv
<1>13. EntryInv'
  <2> SUFFICES ASSUME NEW i \in 1..Len(tasks), NEW u \in Task, tasks[i].task = u PROVE EntryInv!(i, u)'
    BY <1>2 DEF EntryInv
  <2>1. EntryInv!(i, u)
    BY <1>1 DEF EntryInv
  <2> QED
    BY <1>2, <1>6, <2>1 DEF StoppedAt, Goto
<1>14. LockInv' /\ OnceInv' /\ HoldInv'
  BY <1>1, <1>2, <1>6 DEF LockInv, OnceInv, HoldInv, identityVars
<1>15. LinkInv' /\ ProgressIsHeld'
  BY <1>1, <1>2, <1>3, <1>6 DEF LinkInv, ProgressIsHeld, identityVars
<1> QED
  BY <1>8, <1>9, <1>10, <1>11, <1>12, <1>13, <1>14, <1>15 DEF Inv, IInv

\* update() keeps a task whose work has not ended.
LEMMA UpdateStaysStep == ASSUME Inv, UpdateReturn, ~task[arg].finish PROVE Inv'
<1>1. TypeOK /\ PlaceInv /\ ListInv /\ CountInv /\ FlagInv /\ EntryInv /\ LockInv /\ OnceInv /\ HoldInv /\ LinkInv /\ ProgressIsHeld
  BY DEF Inv, IInv
<1>2. /\ pc = "updateReturn" /\ Goto("update", idx + 1, lim, None)
      /\ UNCHANGED <<task, tasks, threads, identityVars, history>>
  BY DEF UpdateReturn, history
<1>3. Len(tasks) \in Nat /\ idx \in Nat /\ lim \in Nat
  BY <1>1, ListType DEF TypeOK
<1>4. TypeOK' /\ PlaceInv'
  BY <1>1, <1>2, <1>3 DEF TypeOK, PlaceInv, Goto, MainAt, identityVars, history
<1>5. ListInv' /\ EntryInv'
  BY <1>1, <1>2 DEF ListInv, EntryInv, StoppedAt, InService, Goto, identityVars, history
<1>6. CountInv' /\ FlagInv' /\ OnceInv' /\ LockInv' /\ HoldInv' /\ LinkInv' /\ ProgressIsHeld'
  BY <1>1, <1>2 DEF CountInv, FlagInv, OnceInv, LockInv, HoldInv, LinkInv, ProgressIsHeld, identityVars, history
<1> QED
  BY <1>4, <1>5, <1>6 DEF Inv, IInv

\* stopTasks() takes the cancelled task from its thread and finishes it.
LEMMA StopRemoveStep == ASSUME Inv, StopRemove PROVE Inv'
<1>1. TypeOK /\ PlaceInv /\ ListInv /\ CountInv /\ FlagInv /\ EntryInv /\ LockInv /\ OnceInv /\ HoldInv /\ LinkInv /\ ProgressIsHeld
  BY DEF Inv, IInv
<1> DEFINE d == tasks[idx]
           t == tasks[idx].task
<1>2. /\ pc = "stopRemove"
      /\ IF d.progress THEN RemoveTask(d.thread, t) ELSE UNCHANGED <<held, evicted>>
      /\ Release(t, "stop") /\ Goto("stop", idx + 1, 0, None)
      /\ UNCHANGED <<task, tasks, threads, lock, exit, wpc, calls, works, direct>>
  BY DEF StopRemove
<1>3. Len(tasks) \in Nat /\ \A i \in 1..Len(tasks) : tasks[i].task \in Task /\ tasks[i].thread \in Thread
  BY <1>1, ListType
<1>4. /\ idx \in 1..Len(tasks) /\ t \in Task /\ d.thread \in Thread /\ d.progress \in BOOLEAN
      /\ task[t].cancel /\ owner[t] = "service"
      /\ \A i \in 1..Len(tasks) : tasks[i].task = t => i = idx
  BY <1>1, <1>2, <1>3, ListType DEF PlaceInv, ListInv, StoppedAt
<1>5. /\ held' \in [Thread -> Task \cup {None}] /\ evicted' \subseteq Task /\ evicted \subseteq evicted'
      /\ \A h \in Thread : \/ held'[h] = held[h]
                           \/ /\ held'[h] = None /\ lock[h] = "free"
                              /\ held[h] \in {t, None} \cup evicted'
      /\ d.progress /\ ~exit[d.thread] => held'[d.thread] = None
  <2>1. CASE d.progress
    BY <1>1, <1>2, <1>4, <2>1, RemoveTaskStep
  <2>2. CASE ~d.progress
    BY <1>1, <1>2, <2>2 DEF TypeOK
  <2> QED
    BY <1>4, <2>1, <2>2
<1>6. /\ owner' \in [Task -> {"client", "service", "update", "join", "stop"}] /\ finals' \in [Task -> Nat]
      /\ owner'[t] = "stop" /\ finals'[t] = finals[t] + 1
      /\ \A u \in Task \ {t} : owner'[u] = owner[u] /\ finals'[u] = finals[u]
  BY <1>1, <1>2, <1>4, ReleaseType DEF TypeOK, Release
<1> HIDE DEF t, d
<1>7. TypeOK'
  <2>1. pc' \in MainAt /\ idx' \in Nat /\ lim' \in Nat /\ arg' = None
    BY <1>2, <1>4 DEF Goto, MainAt
  <2> QED
    BY <1>1, <1>2, <1>5, <1>6, <2>1 DEF TypeOK
<1>8. PlaceInv'
  BY <1>2, <1>3, <1>4 DEF PlaceInv, Goto
<1>9. ListInv'
  <2>1. \A i \in 1..Len(tasks) : owner'[tasks[i].task] = IF i < idx + 1 THEN "stop" ELSE "service"
    <3> TAKE i \in 1..Len(tasks)
    <3>1. CASE i = idx
      BY <1>4, <1>6, <3>1 DEF t
    <3>2. CASE i # idx
      BY <1>1, <1>2, <1>3, <1>4, <1>6, <3>2 DEF ListInv, StoppedAt
    <3> QED
      BY <3>1, <3>2
  <2>2. pc' = "stop" /\ idx' = idx + 1
    BY <1>2 DEF Goto
  <2> QED
    BY <1>1, <1>2, <1>6, <2>1, <2>2 DEF ListInv, StoppedAt, InService
<1>10. \A h \in Thread : held'[h] # None => held'[h] = held[h]
  BY <1>5
<1>11. \A h \in Thread : wpc[h] \in {"work", "leave"} => held'[h] = held[h]
  BY <1>1, <1>5 DEF LockInv
<1>12. CountInv'
  <2> SUFFICES ASSUME NEW u \in Task PROVE CountInv!(u)'
    BY DEF CountInv
  <2>1. finals'[u] = IF owner'[u] \in {"client", "service"} THEN 0 ELSE 1
    BY <1>1, <1>4, <1>6 DEF CountInv
  <2>2. works[u] = 1 => task'[u].finish \/ \E h \in Thread : held'[h] = u /\ wpc'[h] = "work"
    BY <1>1, <1>2, <1>11 DEF CountInv
  <2> QED
    BY <1>1, <1>2, <2>1, <2>2 DEF CountInv
<1>13. FlagInv'
  BY <1>1, <1>2, <1>6 DEF FlagInv
<1>14. EntryInv'
  <2> SUFFICES ASSUME NEW i \in 1..Len(tasks), NEW u \in Task, tasks[i].task = u PROVE EntryInv!(i, u)'
    BY <1>2 DEF EntryInv
  <2>1. EntryInv!(i, u)
    BY <1>1 DEF EntryInv
  <2>2. task'[u] = task[u] /\ tasks' = tasks /\ direct' = direct /\ pc' = "stop" /\ idx' = idx + 1
    BY <1>2 DEF Goto
  <2>3. idx \in Nat /\ i \in Nat
    BY <1>3, <1>4
  <2> QED
    BY <1>2, <2>1, <2>2, <2>3 DEF StoppedAt
<1>15. LockInv'
  BY <1>1, <1>2, <1>10, <1>11 DEF LockInv
<1>16. OnceInv' /\ HoldInv'
  BY <1>1, <1>2, <1>10, ServiceAssumption DEF OnceInv, HoldInv
<1>17. LinkInv'
  <2> SUFFICES ASSUME NEW h \in Thread, NEW u \in Task, held'[h] = u, wpc'[h] # "leave"
               PROVE  LinkInv!(h, u)!2'
    BY DEF LinkInv
  <2>1. held[h] = u /\ wpc[h] # "leave" /\ ~exit[h]
    BY <1>1, <1>2, <1>10, ServiceAssumption DEF LockInv
  <2>2. LinkInv!(h, u)!2
    BY <1>1, <2>1 DEF LinkInv
  <2>3. CASE u = t
    <3>1. ~(d.thread = h /\ d.progress)
      BY <1>5, <2>1, <2>3, ServiceAssumption
    <3> QED
      BY <1>2, <1>4, <2>2, <2>3, <3>1 DEF d
  <2>4. CASE u # t
    BY <1>2, <1>6, <2>2, <2>4
  <2> QED
    BY <2>3, <2>4
<1>18. ProgressIsHeld'
  <2> SUFFICES ASSUME NEW i \in 1..Len(tasks), tasks[i].progress, task[tasks[i].task].run,
                      ~task[tasks[i].task].finish, ~task[tasks[i].task].cancel
               PROVE  held'[tasks[i].thread] = tasks[i].task \/ tasks[i].task \in evicted'
    BY <1>2 DEF ProgressIsHeld
  <2>1. held[tasks[i].thread] = tasks[i].task \/ tasks[i].task \in evicted
    BY <1>1 DEF ProgressIsHeld
  <2>2. tasks[i].task # t /\ tasks[i].task # None /\ tasks[i].thread \in Thread
    BY <1>3, <1>4, ServiceAssumption
  <2> QED
    BY <1>5, <2>1, <2>2
<1> QED
  BY <1>7, <1>8, <1>9, <1>12, <1>13, <1>14, <1>15, <1>16, <1>17, <1>18 DEF Inv, IInv

\* stopTasks() clears a list of tasks it has all finished.
LEMMA StopClearStep == ASSUME Inv, StopClear PROVE Inv'
<1>1. TypeOK /\ PlaceInv /\ ListInv /\ CountInv /\ FlagInv /\ EntryInv /\ LockInv /\ OnceInv /\ HoldInv /\ LinkInv /\ ProgressIsHeld
  BY DEF Inv, IInv
<1>2. /\ pc = "stop" /\ idx > Len(tasks) /\ tasks' = <<>> /\ Return
      /\ UNCHANGED <<task, threads, identityVars, history>>
  BY DEF StopClear
<1>3. Len(tasks) \in Nat /\ idx \in Nat /\ tasks' \in Seq(TaskDesc) /\ Len(tasks') = 0
  BY <1>1, <1>2, ListType DEF TypeOK
<1>4. \A t \in Task : owner[t] # "service"
  BY <1>1, <1>2, <1>3 DEF ListInv, StoppedAt, InService
<1>5. TypeOK'
  BY <1>1, <1>2, <1>3 DEF TypeOK, Return, Goto, MainAt, identityVars, history
<1>6. PlaceInv' /\ ListInv' /\ EntryInv'
  BY <1>2, <1>3, <1>4 DEF PlaceInv, ListInv, EntryInv, Return, Goto, history
<1>7. CountInv' /\ FlagInv' /\ LockInv' /\ OnceInv' /\ HoldInv'
  BY <1>1, <1>2 DEF CountInv, FlagInv, OnceInv, LockInv, HoldInv, identityVars, history
<1>8. LinkInv' /\ ProgressIsHeld'
  BY <1>1, <1>2, <1>3, <1>4 DEF LinkInv, ProgressIsHeld, identityVars, history
<1> QED
  BY <1>5, <1>6, <1>7, <1>8 DEF Inv, IInv

\* update() notes the end of a task that left its thread, and offers one that waits to its thread.
LEMMA AssignStep == ASSUME Inv, Assign PROVE Inv'
<1>1. TypeOK /\ PlaceInv /\ ListInv /\ CountInv /\ FlagInv /\ EntryInv /\ LockInv /\ OnceInv /\ HoldInv /\ LinkInv /\ ProgressIsHeld
  BY DEF Inv, IInv
<1> DEFINE d == tasks[idx]
           t == d.task
           h == d.thread
           free == ~d.complete /\ ~d.progress /\ d.thread \in threads /\ Accepts(d.thread)
           done == d.progress /\ task[d.task].complete
<1>2. /\ pc = "assign" /\ idx <= lim
      /\ tasks' = [tasks EXCEPT ![idx].progress = (@ \/ free) /\ ~done, ![idx].complete = @ \/ done]
      /\ IF free THEN RunOn(h, t) ELSE UNCHANGED <<task, held>>
      /\ Goto("assign", idx + 1, lim, None)
      /\ UNCHANGED <<threads, lock, exit, wpc, history>>
  BY DEF Assign
<1>3. /\ tasks \in Seq(TaskDesc) /\ Len(tasks) \in Nat
      /\ \A i \in 1..Len(tasks) : tasks[i] \in TaskDesc /\ tasks[i].task \in Task /\ tasks[i].thread \in Thread
      /\ \A i \in 1..Len(tasks) : tasks[i].progress \in BOOLEAN
  BY <1>1, ListType
<1>4. /\ idx \in 1..Len(tasks) /\ d \in TaskDesc /\ t \in Task /\ h \in Thread /\ owner[t] = "service"
      /\ \A i \in 1..Len(tasks) : tasks[i].task = t => i = idx
  BY <1>1, <1>2, <1>3 DEF PlaceInv, ListInv, StoppedAt, TypeOK
<1>5. /\ tasks' \in Seq(TaskDesc) /\ Len(tasks') = Len(tasks)
      /\ \A i \in 1..Len(tasks) \ {idx} : tasks'[i] = tasks[i]
      /\ tasks'[idx].task = t /\ tasks'[idx].thread = h
      /\ tasks'[idx].progress <=> (d.progress \/ free) /\ ~done
  <2> DEFINE p == (d.progress \/ free) /\ ~done
             c == d.complete \/ done
             f == [d EXCEPT !.progress = p]
             g == [f EXCEPT !.complete = c]
  <2>1. d.progress \in BOOLEAN /\ d.complete \in BOOLEAN /\ task[t].complete \in BOOLEAN
    BY <1>1, <1>4 DEF TaskDesc, TypeOK, Flags
  <2>2. p \in BOOLEAN /\ c \in BOOLEAN
    BY <2>1
  <2>3. tasks' = [tasks EXCEPT ![idx] = g]
    BY <1>2, <1>3, <1>4
  <2>4. p <=> (d.progress \/ free) /\ ~done
    OBVIOUS
  <2> HIDE DEF p, c, free, done
  <2>5. f \in TaskDesc /\ f.task = t /\ f.thread = h /\ f.progress = p
    BY <1>4, <2>2 DEF TaskDesc
  <2> HIDE DEF f
  <2>6. g \in TaskDesc /\ g.task = f.task /\ g.thread = f.thread /\ g.progress = f.progress
    BY <2>2, <2>5 DEF TaskDesc
  <2> HIDE DEF g
  <2>7. tasks' \in Seq(TaskDesc) /\ Len(tasks') = Len(tasks) /\ tasks'[idx] = g
        /\ \A i \in 1..Len(tasks) \ {idx} : tasks'[i] = tasks[i]
    BY <1>3, <1>4, <2>3, <2>6
  <2> QED
    BY <2>4, <2>5, <2>6, <2>7
<1>6. free => ~d.progress /\ Accepts(h)
  OBVIOUS
<1>7. done <=> d.progress /\ task[t].complete
  OBVIOUS
<1>8. /\ task' \in [Task -> Flags] /\ held' \in [Thread -> Task \cup {None}]
      /\ \A u \in Task \ {t} : task'[u] = task[u]
      /\ \A k \in Thread \ {h} : held'[k] = held[k]
      /\ task'[t].complete <=> task[t].complete
      /\ task'[t].cancel <=> task[t].cancel
      /\ \/ ~Runnable(t) /\ task' = task /\ held' = held
         \/ ~free /\ task' = task /\ held' = held
         \/ free /\ Runnable(t) /\ held'[h] = t /\ (task'[t].run <=> ~task'[t].finish)
  <2>1. CASE free
    BY <1>1, <1>2, <1>4, <2>1, RunOnStep
  <2>2. CASE ~free
    BY <1>1, <1>2, <2>2 DEF TypeOK
  <2> QED
    BY <2>1, <2>2
<1> HIDE DEF d, t, h, free, done
<1>9. \A k \in Thread : \/ held'[k] = held[k]
                          \/ /\ k = h /\ held[k] = None /\ held'[k] = t /\ free /\ Accepts(h)
                             /\ wpc[k] \notin {"work", "leave"} /\ ~exit[k]
                             /\ \A l \in Thread : held[l] # t
                             /\ task'[t].run <=> ~task'[t].finish
                             /\ ~task[t].complete
  BY <1>1, <1>4, <1>6, <1>8 DEF LockInv, Accepts, Runnable, HoldInv
<1>10. \A u \in Task : /\ task[u].finish => task'[u].finish
                       /\ task'[u].complete <=> task[u].complete
                       /\ task'[u].cancel <=> task[u].cancel
                       /\ u # t => task'[u] = task[u]
  BY <1>8 DEF Runnable
<1>11. /\ owner' = owner /\ calls' = calls /\ works' = works /\ finals' = finals /\ evicted' = evicted /\ direct' = direct
       /\ pc' = "assign" /\ idx' = idx + 1 /\ lim' = lim /\ arg' = None
  BY <1>2 DEF history, Goto
<1>12. \A i \in 1..Len(tasks) : tasks'[i].task = tasks[i].task /\ tasks'[i].thread = tasks[i].thread
  BY <1>5 DEF d, t, h
<1>13. TypeOK'
  BY <1>1, <1>2, <1>5, <1>8, <1>11 DEF TypeOK, MainAt
<1>14. PlaceInv' /\ ListInv'
  BY <1>1, <1>2, <1>4, <1>5, <1>11, <1>12 DEF PlaceInv, ListInv, StoppedAt, InService
<1>15. CountInv'
  <2> SUFFICES ASSUME NEW u \in Task PROVE CountInv!(u)'
    BY DEF CountInv
  <2>1. works[u] = 1 => task'[u].finish \/ \E k \in Thread : held'[k] = u /\ wpc'[k] = "work"
    BY <1>1, <1>2, <1>9, <1>10 DEF CountInv
  <2> QED
    BY <1>1, <1>10, <1>11, <2>1 DEF CountInv
<1>16. FlagInv'
  BY <1>1, <1>4, <1>10, <1>11 DEF FlagInv
<1>17. EntryInv'
  <2> SUFFICES ASSUME NEW i \in 1..Len(tasks), NEW u \in Task, tasks[i].task = u PROVE EntryInv!(i, u)'
    BY <1>5, <1>12 DEF EntryInv
  <2>1. EntryInv!(i, u)
    BY <1>1 DEF EntryInv
  <2>2. /\ task'[u].complete => u \in direct'
        /\ task'[u].cancel => u \in direct'
    BY <1>2, <1>10, <1>11, <2>1 DEF StoppedAt
  <2>3. task'[u].run => tasks'[i].progress \/ task'[u].complete
    <3>1. CASE i = idx
      BY <1>4, <1>5, <1>6, <1>7, <1>8, <2>1, <3>1 DEF d, t
    <3>2. CASE i # idx
      BY <1>4, <1>5, <1>10, <2>1, <3>2
    <3> QED
      BY <3>1, <3>2
  <2> QED
    BY <2>2, <2>3
<1>18. LockInv'
  BY <1>1, <1>2, <1>4, <1>9, ServiceAssumption DEF LockInv
<1>19. OnceInv' /\ HoldInv'
  <2>1. OnceInv'
    BY <1>1, <1>9, ServiceAssumption DEF OnceInv
  <2> SUFFICES ASSUME NEW k \in Thread, NEW u \in Task, held'[k] = u PROVE HoldInv!(k, u)'
    BY <2>1 DEF HoldInv
  <2>2. CASE held[k] = u
    <3>1. task'[u] = task[u]
      BY <1>1, <1>8, <1>10, <2>2 DEF Runnable, HoldInv
    <3> QED
      BY <1>1, <1>2, <2>2, <3>1 DEF HoldInv
  <2>3. CASE held[k] # u
    BY <1>2, <1>9, <2>3
  <2> QED
    BY <2>2, <2>3
<1>20. LinkInv'
  <2> SUFFICES ASSUME NEW k \in Thread, NEW u \in Task, held'[k] = u, wpc'[k] # "leave"
               PROVE  \/ \E i \in 1..Len(tasks') : /\ tasks'[i].task = u /\ tasks'[i].thread = k
                                                   /\ tasks'[i].progress /\ owner'[u] = "service"
                      \/ u \in direct' /\ (owner'[u] = "update" \/ task'[u].complete)
    BY DEF LinkInv
  <2>1. CASE held[k] = u
    <3>1. CASE \E i \in 1..Len(tasks) : /\ tasks[i].task = u /\ tasks[i].thread = k
                                        /\ tasks[i].progress /\ owner[u] = "service"
      <4>1. PICK i \in 1..Len(tasks) : /\ tasks[i].task = u /\ tasks[i].thread = k
                                       /\ tasks[i].progress /\ owner[u] = "service"
        BY <3>1
      <4>2. CASE tasks'[i].progress
        BY <1>5, <1>11, <1>12, <4>1, <4>2
      <4>3. CASE ~tasks'[i].progress
        <5>1. i = idx /\ done /\ u = t
          BY <1>5, <4>1, <4>3 DEF d, t
        <5> QED
          BY <1>1, <1>2, <1>7, <1>10, <1>11, <4>1, <5>1 DEF EntryInv
      <4> QED
        BY <4>2, <4>3
    <3>2. CASE u \in direct /\ (owner[u] = "update" \/ task[u].complete)
      BY <1>10, <1>11, <3>2
    <3> QED
      BY <1>1, <1>2, <2>1, <3>1, <3>2 DEF LinkInv
  <2>2. CASE held[k] # u
    <3>1. k = h /\ u = t /\ free /\ ~task[t].complete
      BY <1>9, <2>2
    <3> QED
      BY <1>4, <1>5, <1>7, <1>11, <3>1
  <2> QED
    BY <2>1, <2>2
<1>21. ProgressIsHeld'
  <2> SUFFICES ASSUME NEW i \in 1..Len(tasks), tasks'[i].progress, task'[tasks[i].task].run,
                      ~task'[tasks[i].task].finish, ~task'[tasks[i].task].cancel
               PROVE  held'[tasks[i].thread] = tasks[i].task \/ tasks[i].task \in evicted
    BY <1>5, <1>11, <1>12 DEF ProgressIsHeld
  <2>1. CASE task' = task /\ held' = held
    <3>1. tasks[i].progress
      <4>1. CASE i = idx
        <5>1. task[t].run => d.progress \/ task[t].cancel \/ task[t].finish
          BY <1>1, <1>4, <4>1 DEF EntryInv, FlagInv, d, t
        <5> QED
          BY <2>1, <4>1, <5>1 DEF d, t
      <4>2. CASE i # idx
        BY <1>5, <4>2
      <4> QED
        BY <4>1, <4>2
    <3> QED
      BY <1>1, <2>1, <3>1 DEF ProgressIsHeld
  <2>2. CASE free /\ Runnable(t) /\ held'[h] = t
    <3>1. CASE i = idx
      BY <2>2, <3>1 DEF d, t, h
    <3>2. CASE i # idx
      <4>1. /\ task'[tasks[i].task] = task[tasks[i].task] /\ tasks[i].progress
            /\ tasks[i].task \in Task /\ tasks[i].thread \in Thread
        BY <1>3, <1>4, <1>5, <1>10, <3>2
      <4>2. held[tasks[i].thread] = tasks[i].task \/ tasks[i].task \in evicted
        BY <1>1, <4>1 DEF ProgressIsHeld
      <4> QED
        BY <1>9, <4>1, <4>2, ServiceAssumption
    <3> QED
      BY <3>1, <3>2
  <2> QED
    BY <1>8, <2>1, <2>2
<1> QED
  BY <1>13, <1>14, <1>15, <1>16, <1>17, <1>18, <1>19, <1>20, <1>21 DEF Inv, IInv

\* A thread leaves the list as it is, and of the flags it sets the end only.
LEMMA LoopKeeps ==
  ASSUME Inv, UNCHANGED <<tasks, threads, exit, mainVars, owner, calls, finals, evicted, direct>>,
         \A t \in Task : /\ task'[t].run <=> task[t].run
                         /\ task'[t].complete <=> task[t].complete
                         /\ task'[t].cancel <=> task[t].cancel
                         /\ task[t].finish => task'[t].finish
  PROVE  PlaceInv' /\ ListInv' /\ FlagInv' /\ EntryInv'
<1>1. TypeOK /\ PlaceInv /\ ListInv /\ FlagInv /\ EntryInv
  BY DEF Inv, IInv
<1>2. pc \in {"callback", "updateReturn"} => arg \in Task
  BY <1>1, ListType DEF PlaceInv, TypeOK
<1>3. PlaceInv'
  <2>1. pc \in {"stopRemove"} => tasks[idx].task \in Task
    BY <1>1, ListType DEF PlaceInv
  <2> QED
    BY <1>1, <1>2, <2>1 DEF PlaceInv, InService, mainVars
<1>4. ListInv'
  BY <1>1 DEF ListInv, StoppedAt, InService, mainVars
<1>5. FlagInv'
  BY <1>1 DEF FlagInv
<1>6. EntryInv'
  BY <1>1 DEF EntryInv, StoppedAt, mainVars
<1> QED
  BY <1>3, <1>4, <1>5, <1>6

\* main() stores the end of a task: what that changes.
LEMMA FinishStep ==
  ASSUME TypeOK, NEW t \in Task, NEW b \in BOOLEAN, task' = [task EXCEPT ![t].finish = b]
  PROVE  /\ task' \in [Task -> Flags]
         /\ \A u \in Task \ {t} : task'[u] = task[u]
         /\ task'[t].run <=> task[t].run
         /\ task'[t].complete <=> task[t].complete
         /\ task'[t].cancel <=> task[t].cancel
         /\ task'[t].finish <=> b
<1>1. task[t] \in Flags /\ task \in [Task -> Flags]
  BY DEF TypeOK
<1> DEFINE f == [task[t] EXCEPT !.finish = b]
<1>2. /\ f \in Flags
      /\ f.finish <=> b
      /\ f.run <=> task[t].run
      /\ f.complete <=> task[t].complete
      /\ f.cancel <=> task[t].cancel
  BY <1>1 DEF Flags
<1>3. task' = [task EXCEPT ![t] = f]
  OBVIOUS
<1> HIDE DEF f
<1>4. task'[t] = f /\ task' \in [Task -> Flags] /\ \A u \in Task \ {t} : task'[u] = task[u]
  BY <1>1, <1>2, <1>3
<1> QED
  BY <1>2, <1>4

\* A thread enters main() of its task: the work begins, once, or there is none to do.
LEMMA LoopTaskStep == ASSUME Inv, NEW h \in Thread, LoopTask(h) PROVE Inv'
<1>1. TypeOK /\ PlaceInv /\ ListInv /\ CountInv /\ FlagInv /\ EntryInv /\ LockInv /\ OnceInv /\ HoldInv /\ LinkInv /\ ProgressIsHeld
  BY DEF Inv, IInv
<1> DEFINE t == held[h]
           early == ~task[t].run \/ task[t].finish \/ task[t].complete
<1>2. /\ wpc[h] = "wait" /\ lock[h] = "free" /\ held[h] # None /\ ~exit[h]
      /\ lock' = [lock EXCEPT ![h] = "worker"]
      /\ UNCHANGED <<tasks, threads, held, exit, mainVars, owner, calls, finals, evicted, direct>>
      /\ \/ /\ early \/ task[t].cancel
            /\ wpc' = [wpc EXCEPT ![h] = "leave"]
            /\ task' = [task EXCEPT ![t].finish = @ \/ ~early]
            /\ UNCHANGED works
         \/ /\ ~early /\ ~task[t].cancel
            /\ wpc' = [wpc EXCEPT ![h] = "work"]
            /\ works' = [works EXCEPT ![t] = @ + 1]
            /\ UNCHANGED task
  BY DEF LoopTask
<1>3. t \in Task
  BY <1>1, <1>2 DEF TypeOK
<1>4. /\ task' \in [Task -> Flags]
      /\ \A u \in Task \ {t} : task'[u] = task[u]
      /\ \A u \in Task : /\ task'[u].run <=> task[u].run
                         /\ task'[u].complete <=> task[u].complete
                         /\ task'[u].cancel <=> task[u].cancel
                         /\ task[u].finish => task'[u].finish
      /\ wpc'[h] = "leave" => task'[t].finish \/ task'[t].cancel
      /\ wpc'[h] = "work" => task' = task /\ task[t].run /\ ~task[t].finish
  <2>1. CASE early \/ task[t].cancel
    <3> DEFINE b == task[t].finish \/ ~early
    <3>1. task' = [task EXCEPT ![t].finish = b] /\ wpc' = [wpc EXCEPT ![h] = "leave"]
      BY <1>1, <1>2, <1>3, <2>1 DEF TypeOK
    <3>2. b \in BOOLEAN
      BY <1>1, <1>3 DEF TypeOK, Flags
    <3>3. b \/ task[t].cancel
      BY <1>1, <1>3, <2>1 DEF HoldInv, FlagInv
    <3>4. task[t].finish => b
      OBVIOUS
    <3> HIDE DEF b, early, t
    <3>5. /\ task' \in [Task -> Flags]
          /\ \A u \in Task \ {t} : task'[u] = task[u]
          /\ task'[t].run <=> task[t].run
          /\ task'[t].complete <=> task[t].complete
          /\ task'[t].cancel <=> task[t].cancel
          /\ task'[t].finish <=> b
      BY <1>1, <1>3, <3>1, <3>2, FinishStep
    <3>6. wpc'[h] = "leave"
      BY <1>1, <3>1 DEF TypeOK
    <3> QED
      BY <3>3, <3>4, <3>5, <3>6
  <2>2. CASE ~early /\ ~task[t].cancel
    <3>1. wpc'[h] = "work" /\ task' = task
      BY <1>1, <1>2, <2>2 DEF TypeOK
    <3> QED
      BY <1>1, <2>2, <3>1 DEF TypeOK
  <2> QED
    BY <2>1, <2>2
<1>5. /\ wpc' \in [Thread -> {"none", "wait", "work", "leave", "stopped"}]
      /\ lock' \in [Thread -> {"free", "worker"}]
      /\ \A k \in Thread \ {h} : wpc'[k] = wpc[k] /\ lock'[k] = lock[k]
      /\ wpc'[h] \in {"work", "leave"} /\ lock'[h] = "worker"
  BY <1>1, <1>2 DEF TypeOK
<1>6. \A k \in Thread : held[k] = t => k = h
  BY <1>1, <1>2 DEF OnceInv
<1>7. /\ works' \in [Task -> Nat]
      /\ \A u \in Task \ {t} : works'[u] = works[u]
      /\ works'[t] \in {0, 1}
      /\ works'[t] = 1 => task'[t].finish \/ wpc'[h] = "work"
  <2>1. works[t] = 1 => task[t].finish
    BY <1>1, <1>2, <1>3, <1>6 DEF CountInv
  <2>2. works[t] \in {0, 1} /\ works \in [Task -> Nat]
    BY <1>1, <1>3 DEF CountInv, TypeOK
  <2>3. CASE early \/ task[t].cancel
    BY <1>2, <1>3, <1>4, <2>1, <2>2, <2>3
  <2>4. CASE ~early /\ ~task[t].cancel
    <3>1. works' = [works EXCEPT ![t] = @ + 1] /\ works[t] = 0 /\ wpc'[h] = "work"
      BY <1>1, <1>2, <2>1, <2>2, <2>4 DEF TypeOK
    <3> QED
      BY <1>3, <2>2, <3>1
  <2> QED
    BY <2>3, <2>4
<1>8. /\ UNCHANGED <<tasks, threads, held, exit, mainVars, owner, calls, finals, evicted, direct>>
      /\ held[h] = t /\ held[h] # None /\ ~exit[h] /\ wpc[h] = "wait"
  BY <1>2
<1> HIDE DEF t, early
<1>9. TypeOK'
  BY <1>1, <1>4, <1>5, <1>7, <1>8 DEF TypeOK, mainVars
<1>10. PlaceInv' /\ ListInv' /\ FlagInv' /\ EntryInv'
  BY <1>4, <1>8, LoopKeeps
<1>11. CountInv'
  <2> SUFFICES ASSUME NEW u \in Task PROVE CountInv!(u)'
    BY DEF CountInv
  <2>1. works'[u] \in {0, 1} /\ (works'[u] = 1 => task'[u].finish \/ \E k \in Thread : held'[k] = u /\ wpc'[k] = "work")
    <3>1. CASE u = t
      BY <1>7, <1>8, <3>1
    <3>2. CASE u # t
      BY <1>1, <1>4, <1>5, <1>7, <1>8, <3>2 DEF CountInv
    <3> QED
      BY <3>1, <3>2
  <2> QED
    BY <1>1, <1>4, <1>8, <2>1 DEF CountInv
<1>12. LockInv' /\ OnceInv'
  BY <1>1, <1>5, <1>8 DEF LockInv, OnceInv
<1>13. HoldInv'
  <2> SUFFICES ASSUME NEW k \in Thread, NEW u \in Task, held[k] = u PROVE HoldInv!(k, u)'
    BY <1>8 DEF HoldInv
  <2>1. HoldInv!(k, u)
    BY <1>1 DEF HoldInv
  <2>2. CASE u = t
    <3>1. k = h
      BY <1>6, <2>2
    <3> QED
      BY <1>4, <1>5, <2>1, <2>2, <3>1
  <2>3. CASE u # t
    <3>1. k # h /\ task'[u] = task[u] /\ wpc'[k] = wpc[k]
      BY <1>4, <1>5, <1>8, <2>3
    <3> QED
      BY <2>1, <3>1
  <2> QED
    BY <2>2, <2>3
<1>14. LinkInv'
  <2> SUFFICES ASSUME NEW k \in Thread, NEW u \in Task, held[k] = u, wpc'[k] # "leave"
               PROVE  LinkInv!(k, u)!2'
    BY <1>8 DEF LinkInv
  <2>1. wpc[k] # "leave"
    BY <1>5, <1>8
  <2>2. LinkInv!(k, u)!2
    BY <1>1, <2>1 DEF LinkInv
  <2> QED
    BY <1>4, <1>8, <2>2
<1>15. ProgressIsHeld'
  BY <1>1, <1>4, <1>8, ListType DEF ProgressIsHeld
<1> QED
  BY <1>9, <1>10, <1>11, <1>12, <1>13, <1>14, <1>15 DEF Inv, IInv

\* The work of a task ends.
LEMMA LoopWorkedStep == ASSUME Inv, NEW h \in Thread, LoopWorked(h) PROVE Inv'
<1>1. TypeOK /\ PlaceInv /\ ListInv /\ CountInv /\ FlagInv /\ EntryInv /\ LockInv /\ OnceInv /\ HoldInv /\ LinkInv /\ ProgressIsHeld
  BY DEF Inv, IInv
<1> DEFINE t == held[h]
<1>2. /\ wpc[h] = "work" /\ wpc' = [wpc EXCEPT ![h] = "leave"]
      /\ task' = [task EXCEPT ![t].finish = TRUE]
      /\ UNCHANGED <<tasks, threads, held, lock, exit, mainVars, history>>
      /\ t \in Task /\ t # None
  BY <1>1 DEF LoopWorked, LockInv, TypeOK
<1>3. \A k \in Thread : held[k] = t => k = h
  BY <1>1, <1>2 DEF OnceInv
<1>4. held[h] = t
  OBVIOUS
<1> HIDE DEF t
<1>5. /\ task' \in [Task -> Flags]
      /\ \A u \in Task \ {t} : task'[u] = task[u]
      /\ task'[t].finish
      /\ \A u \in Task : /\ task'[u].run <=> task[u].run
                         /\ task'[u].complete <=> task[u].complete
                         /\ task'[u].cancel <=> task[u].cancel
                         /\ task[u].finish => task'[u].finish
  BY <1>1, <1>2, FinishStep
<1>6. /\ wpc' \in [Thread -> {"none", "wait", "work", "leave", "stopped"}]
      /\ \A k \in Thread \ {h} : wpc'[k] = wpc[k]
      /\ wpc'[h] = "leave"
  BY <1>1, <1>2 DEF TypeOK
<1>7. TypeOK'
  BY <1>1, <1>2, <1>5, <1>6 DEF TypeOK, mainVars, history
<1>8. PlaceInv' /\ ListInv' /\ FlagInv' /\ EntryInv'
  <2>1. UNCHANGED <<tasks, threads, exit, mainVars, owner, calls, finals, evicted, direct>>
    BY <1>2 DEF history
  <2> QED
    BY <1>5, <2>1, LoopKeeps
<1>9. CountInv'
  <2> SUFFICES ASSUME NEW u \in Task PROVE CountInv!(u)'
    BY DEF CountInv
  <2>1. works[u] = 1 => task'[u].finish \/ \E k \in Thread : held'[k] = u /\ wpc'[k] = "work"
    BY <1>1, <1>2, <1>4, <1>5, <1>6 DEF CountInv
  <2> QED
    BY <1>1, <1>2, <1>5, <2>1 DEF CountInv, history
<1>10. LockInv' /\ OnceInv'
  BY <1>1, <1>2, <1>6 DEF LockInv, OnceInv
<1>11. HoldInv'
  <2> SUFFICES ASSUME NEW k \in Thread, NEW u \in Task, held[k] = u PROVE HoldInv!(k, u)'
    BY <1>2 DEF HoldInv
  <2>1. HoldInv!(k, u)
    BY <1>1 DEF HoldInv
  <2>2. CASE u = t
    BY <1>3, <1>5, <1>6, <2>1, <2>2
  <2>3. CASE u # t
    BY <1>4, <1>5, <1>6, <2>1, <2>3
  <2> QED
    BY <2>2, <2>3
<1>12. LinkInv' /\ ProgressIsHeld'
  <2>1. LinkInv'
    <3> SUFFICES ASSUME NEW k \in Thread, NEW u \in Task, held[k] = u, wpc'[k] # "leave"
                 PROVE  LinkInv!(k, u)!2'
      BY <1>2 DEF LinkInv
    <3>1. LinkInv!(k, u)!2
      BY <1>1, <1>6 DEF LinkInv
    <3> QED
      BY <1>2, <1>5, <3>1 DEF history
  <2>2. ProgressIsHeld'
    BY <1>1, <1>2, <1>5, ListType DEF ProgressIsHeld, history
  <2> QED
    BY <2>1, <2>2
<1> QED
  BY <1>7, <1>8, <1>9, <1>10, <1>11, <1>12 DEF Inv, IInv

\* A thread puts its ended task down, or exits.
LEMMA LoopLeavesStep == ASSUME Inv, NEW h \in Thread, LoopLeave(h) \/ LoopExit(h) PROVE Inv'
<1>1. TypeOK /\ PlaceInv /\ ListInv /\ CountInv /\ FlagInv /\ EntryInv /\ LockInv /\ OnceInv /\ HoldInv /\ LinkInv /\ ProgressIsHeld
  BY DEF Inv, IInv
<1>2. /\ UNCHANGED <<task, tasks, threads, exit, mainVars, history>>
      /\ \/ /\ wpc[h] = "leave" /\ wpc' = [wpc EXCEPT ![h] = "wait"]
            /\ held' = [held EXCEPT ![h] = None] /\ lock' = [lock EXCEPT ![h] = "free"]
         \/ /\ wpc[h] = "wait" /\ wpc' = [wpc EXCEPT ![h] = "stopped"] /\ UNCHANGED <<held, lock>>
  BY DEF LoopLeave, LoopExit
<1>3. /\ wpc' \in [Thread -> {"none", "wait", "work", "leave", "stopped"}]
      /\ lock' \in [Thread -> {"free", "worker"}] /\ held' \in [Thread -> Task \cup {None}]
      /\ \A k \in Thread \ {h} : wpc'[k] = wpc[k] /\ lock'[k] = lock[k] /\ held'[k] = held[k]
      /\ wpc'[h] \in {"wait", "stopped"}
      /\ \/ wpc[h] = "leave" /\ held'[h] = None /\ lock'[h] = "free"
         \/ wpc[h] = "wait" /\ held'[h] = held[h] /\ lock'[h] = lock[h]
  BY <1>1, <1>2 DEF TypeOK
<1>4. TypeOK'
  BY <1>1, <1>2, <1>3 DEF TypeOK, mainVars, history
<1>5. PlaceInv' /\ ListInv' /\ FlagInv' /\ EntryInv'
  <2>1. UNCHANGED <<task, tasks, threads, exit, mainVars, owner, calls, finals, evicted, direct>>
    BY <1>2 DEF history
  <2> QED
    BY <2>1, LoopKeeps
<1>6. CountInv'
  <2> SUFFICES ASSUME NEW u \in Task PROVE CountInv!(u)'
    BY DEF CountInv
  <2>1. works[u] = 1 => task'[u].finish \/ \E k \in Thread : held'[k] = u /\ wpc'[k] = "work"
    BY <1>1, <1>2, <1>3 DEF CountInv
  <2> QED
    BY <1>1, <1>2, <2>1 DEF CountInv, history
<1>7. LockInv'
  BY <1>1, <1>2, <1>3 DEF LockInv
<1>8. \A k \in Thread :
        held'[k] # None => /\ held'[k] = held[k]
                           /\ \/ wpc'[k] = wpc[k]
                              \/ wpc[k] = "wait" /\ wpc'[k] \in {"wait", "stopped"}
  <2> TAKE k \in Thread
  <2>1. CASE k = h
    BY <1>3, <2>1
  <2>2. CASE k # h
    BY <1>3, <2>2
  <2> QED
    BY <2>1, <2>2
<1>9. OnceInv' /\ HoldInv'
  BY <1>1, <1>2, <1>3, <1>8, ServiceAssumption DEF OnceInv, HoldInv
<1>10. LinkInv'
  <2> SUFFICES ASSUME NEW k \in Thread, NEW u \in Task, held'[k] = u, wpc'[k] # "leave"
               PROVE  LinkInv!(k, u)!2'
    BY DEF LinkInv
  <2>1. held[k] = u /\ wpc[k] # "leave"
    BY <1>3, ServiceAssumption
  <2>2. LinkInv!(k, u)!2
    BY <1>1, <2>1 DEF LinkInv
  <2> QED
    BY <1>2, <2>2 DEF history
<1>11. ProgressIsHeld'
  <2> SUFFICES ASSUME NEW i \in 1..Len(tasks), tasks[i].progress, task[tasks[i].task].run,
                      ~task[tasks[i].task].finish, ~task[tasks[i].task].cancel
               PROVE  held'[tasks[i].thread] = tasks[i].task \/ tasks[i].task \in evicted
    BY <1>2 DEF ProgressIsHeld, history
  <2>1. tasks[i].task \in Task /\ tasks[i].thread \in Thread
    BY <1>1, ListType
  <2>2. held[tasks[i].thread] = tasks[i].task \/ tasks[i].task \in evicted
    BY <1>1 DEF ProgressIsHeld
  <2> QED
    BY <1>1, <1>3, <2>1, <2>2 DEF HoldInv
<1> QED
  BY <1>4, <1>5, <1>6, <1>7, <1>9, <1>10, <1>11 DEF Inv, IInv

------------------------------------------------------------------------------
(* The theorems *)

\* The invariant holds from the start and every step of the service, of its clients and of
\* its threads keeps it.
THEOREM Inductive == Spec => []Inv
<1>1. Init => Inv
  <2> SUFFICES ASSUME Init PROVE Inv
    OBVIOUS
  <2>1. TypeOK
    BY DEF Init, TypeOK, Flags, MainAt
  <2>2. Len(tasks) = 0 /\ pc = "idle"
    BY DEF Init
  <2>3. PlaceInv /\ ListInv /\ EntryInv /\ LinkInv /\ ProgressIsHeld
    BY <2>2, ServiceAssumption DEF Init, PlaceInv, ListInv, EntryInv, LinkInv, ProgressIsHeld
  <2>4. CountInv /\ FlagInv /\ LockInv /\ OnceInv /\ HoldInv
    BY ServiceAssumption DEF Init, CountInv, FlagInv, LockInv, OnceInv, HoldInv
  <2> QED
    BY <2>1, <2>3, <2>4 DEF Inv, IInv
<1>2. Inv /\ [Next]_vars => Inv'
  <2> SUFFICES ASSUME Inv, [Next]_vars PROVE Inv'
    OBVIOUS
  <2>1. CASE Client
    <3>1. CASE \E t \in Task, h \in Thread : AddTask(t, h)
      BY <3>1, AddTaskStep
    <3>2. CASE \E t \in Task : ClientCancel(t) \/ JoinTask(t)
      BY <3>2, CancelsStep
    <3> QED
      BY <2>1, <3>1, <3>2, MovesStep, ThreadsStep DEF Client
  <2>2. CASE Main
    <3>1. CASE StopCancel
      <4>1. tasks[idx].task \in Task
        BY <3>1, ListType DEF StopCancel, Inv, IInv, PlaceInv
      <4> QED
        BY <3>1, <4>1, CancelsStep
    <3>2. CASE \E t \in Task : UpdateComplete(t)
      BY <3>2, UpdateCompleteStep
    <3>3. CASE \E t \in Task : UpdateWaiting(t) \/ UpdateTest(t)
      BY <3>3, MovesStep
    <3>4. CASE (\E t \in Task : UpdateEnded(t)) \/ CallbackReturn \/ UpdateReturn
      BY <3>4, UpdateDropsStep, UpdateStaysStep
    <3>5. CASE DestroyRemove \/ DestroyJoin \/ ClientJoin \/ JoinRemove
      BY <3>5, DestroyRemoveStep, ThreadsStep, ClientJoinStep, JoinRemoveStep
    <3>6. CASE StopRemove \/ StopClear \/ BeginUpdate \/ Assign \/ AssignEnd \/ UpdateEnd
      BY <3>6, StopRemoveStep, StopClearStep, MovesStep, AssignStep
    <3> QED
      BY <2>2, <3>1, <3>2, <3>3, <3>4, <3>5, <3>6 DEF Main
  <2>3. CASE \E h \in Thread : Loop(h)
    BY <2>3, LoopTaskStep, LoopWorkedStep, LoopLeavesStep DEF Loop
  <2>4. CASE UNCHANGED vars
    BY <2>4 DEF vars, mainVars, identityVars, history, Inv, IInv, TypeOK, PlaceInv, ListInv, CountInv, FlagInv,
                EntryInv, LockInv, OnceInv, HoldInv, LinkInv, ProgressIsHeld, StoppedAt, InService
  <2> QED
    BY <2>1, <2>2, <2>3, <2>4 DEF Next
<1> QED
  BY <1>1, <1>2, PTL DEF Spec

\* Every variable keeps its type: of any number of tasks and threads.
THEOREM TypeCorrect == Spec => []TypeOK
BY Inductive, PTL DEF Inv

\* However the frame loop, joinTask(), stopTasks() and a client's cancel() follow each other,
\* a task is worked on, completed and finished at most once.
THEOREM OnceEach == Spec => []AtMostOnce
<1>1. Inv => AtMostOnce
  BY DEF Inv, IInv, CountInv, AtMostOnce
<1> QED
  BY <1>1, Inductive, PTL

\* Outside stopTasks(), the list holds the tasks the service owns, each once, and no other.
THEOREM OwnedListed == Spec => []OwnedAreListed
<1>1. Inv => OwnedAreListed
  <2> SUFFICES ASSUME Inv, pc \notin {"stop", "stopRemove"}
               PROVE  /\ \A t \in Task : owner[t] = "service" <=> InService(t)
                      /\ \A i, j \in 1..Len(tasks) : tasks[i].task = tasks[j].task => i = j
    BY DEF OwnedAreListed
  <2>1. ListInv
    BY DEF Inv, IInv
  <2>2. \A i \in 1..Len(tasks) : owner[tasks[i].task] = "service"
    BY <2>1 DEF ListInv, StoppedAt
  <2> QED
    BY <2>1, <2>2 DEF ListInv, InService
<1> QED
  BY <1>1, Inductive, PTL

\* A thread never holds the bare pointer of a task the service no longer owns, but for one
\* its client cancelled itself.
THEOREM HeldAreOwned == Spec => []HeldIsOwned
<1>1. Inv => HeldIsOwned
  BY DEF Inv, IInv, LinkInv, HeldIsOwned
<1> QED
  BY <1>1, Inductive, PTL

\* Only a removeTask() meant for another task takes one in progress from its thread.
THEOREM ProgressStays == Spec => []ProgressIsHeld
BY Inductive, PTL DEF Inv, IInv
==============================================================================
