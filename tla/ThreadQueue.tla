----------------------------- MODULE ThreadQueue -----------------------------
(***************************************************************************)
(* Services/ThreadService/ThreadQueue with Kernel/ThreadTaskPacket: the    *)
(* tasks given to a queue wait in order, are packed and posted to the      *)
(* thread service as one task per packet, and end when the packet that     *)
(* carries them is updated.  The clients are PrefetcherService and         *)
(* cURLService: they add tasks, cancel a task and may join it              *)
(* (unfetch()), and cancel the whole queue.                                *)
(*                                                                         *)
(* The tasks are numbered in the order they are added; a packet is named   *)
(* by its first task.  The service and the threads are those of            *)
(* ThreadService, with the steps packets do not tell apart put together.   *)
(***************************************************************************)
EXTENDS Naturals, Sequences, FiniteSets, SequencesExt

CONSTANTS
  T,           \* how many tasks are ever added
  PacketSize,  \* m_packetSize
  K,           \* how many threads, and so slots, the queue has
  Refusals     \* a bound: how many tasks refuse to run

ASSUME QueueAssumption ==
  T \in Nat /\ PacketSize \in Nat \ {0} /\ K \in Nat \ {0} /\ Refusals \in Nat

Task == 1..T
Thread == 1..K
None == 0

VARIABLES
  refuses,   \* the tasks whose _onRun() returns false
  leaf,      \* the flags of each task
  packet,    \* the packets: what they carry, their flags, their place
  pending,   \* m_threadTasks
  current,   \* m_currentThreadTasks
  sampler,   \* m_threadSampler
  closed,    \* m_cancel of the queue
  tasks,     \* m_tasks of the service
  held,      \* m_task of each thread
  wpc, kid,  \* where each thread is, and at which task of its packet
  pc, idx, lim, sub, arg,  \* where the main thread is, its loop counters, its task or packet
  \* what has been observed so far
  added,     \* the tasks added so far are 1..added
  calls,     \* how often _onComplete() of each task was called
  works,     \* how often _onMain() of each task was called
  missed     \* the tasks their packet dropped without looking at their end

queueVars == <<pending, current, sampler, closed>>
workerVars == <<wpc, kid>>
mainVars == <<pc, idx, lim, sub, arg>>
history == <<added, calls, works, missed>>
vars == <<refuses, leaf, packet, queueVars, tasks, held, workerVars, mainVars, history>>

Flags == [run : BOOLEAN, finish : BOOLEAN, complete : BOOLEAN, cancel : BOOLEAN]
NoFlags == [run |-> FALSE, finish |-> FALSE, complete |-> FALSE, cancel |-> FALSE]
Packet == [kids : Seq(Task), thread : Thread, flags : Flags, progress : BOOLEAN]
NoPacket == [kids |-> <<>>, thread |-> 1, flags |-> NoFlags, progress |-> FALSE]

TypeOK ==
  /\ refuses \subseteq Task
  /\ leaf \in [Task -> Flags]
  /\ packet \in [Task -> Packet]
  /\ pending \in Seq(Task)
  /\ current \in [Thread -> Task \cup {None}]
  /\ sampler \in 0..(K - 1)
  /\ closed \in BOOLEAN
  /\ tasks \in Seq(Task)
  /\ held \in [Thread -> Task \cup {None}]
  /\ wpc \in [Thread -> {"wait", "loop", "work", "leave"}] /\ kid \in [Thread -> 0..(T + 1)]
  /\ pc \in {"idle", "callback", "join", "update", "kids", "finish", "return", "queue", "close", "remove"}
  /\ idx \in Nat /\ lim \in Nat /\ sub \in Nat /\ arg \in Task \cup {None}
  /\ added \in 0..T
  /\ calls \in [Task -> Nat] /\ works \in [Task -> Nat]
  /\ missed \subseteq Task

Init ==
  /\ refuses \in {r \in SUBSET Task : Cardinality(r) <= Refusals}
  /\ leaf = [t \in Task |-> NoFlags]
  /\ packet = [p \in Task |-> NoPacket]
  /\ pending = <<>>
  /\ current = [i \in Thread |-> None]
  /\ sampler = 0
  /\ closed = FALSE
  /\ tasks = <<>>
  /\ held = [h \in Thread |-> None]
  /\ wpc = [h \in Thread |-> "wait"] /\ kid = [h \in Thread |-> 0]
  /\ pc = "idle" /\ idx = 0 /\ lim = 0 /\ sub = 0 /\ arg = None
  /\ added = 0
  /\ calls = [t \in Task |-> 0] /\ works = [t \in Task |-> 0]
  /\ missed = {}

------------------------------------------------------------------------------
(* The queue and the service as functions of what they change *)

State == [leaf |-> leaf, packet |-> packet, pending |-> pending, current |-> current,
          sampler |-> sampler, tasks |-> tasks, held |-> held]

Become(s) ==
  /\ leaf' = s.leaf /\ packet' = s.packet /\ pending' = s.pending /\ current' = s.current
  /\ sampler' = s.sampler /\ tasks' = s.tasks /\ held' = s.held

Fresh(f) == ~f.run /\ ~f.cancel /\ ~f.finish /\ ~f.complete
Ended(f) == f.complete \/ f.cancel

\* run() of a packet runs its tasks, whatever each of them answers.
RunPacket(s, p) ==
  LET runs(t) == t \in ToSet(s.packet[p].kids) /\ Fresh(s.leaf[t])
  IN  [s EXCEPT !.packet[p].flags.run = TRUE,
                !.leaf = [t \in Task |-> IF ~runs(t) THEN s.leaf[t]
                                         ELSE [s.leaf[t] EXCEPT !.run = t \notin refuses,
                                                                !.finish = t \in refuses]]]

\* processTask(): a thread that has a task does not take another.
Process(s, p) ==
  LET h == s.packet[p].thread
  IN  IF s.held[h] # None THEN s
      ELSE IF Fresh(s.packet[p].flags)
           THEN [RunPacket(s, p) EXCEPT !.held[h] = p, !.packet[p].progress = TRUE]
           ELSE [s EXCEPT !.packet[p].progress = TRUE]

\* Mutant: a slot forgets its packet when it has finished and not when it has ended.
UpdateSlot_Finished(s, i) ==
  IF s.pending = <<>> \/ (s.current[i] # None /\ ~s.packet[s.current[i]].flags.finish)
  THEN s
  ELSE LET p == Head(s.pending)
           turn == (s.sampler + 1) % K
       IN  Process([s EXCEPT !.current[i] = p, !.pending = Tail(s.pending), !.sampler = turn,
                             !.packet[p] = [NoPacket EXCEPT !.kids = <<p>>, !.thread = turn + 1],
                             !.tasks = Append(@, p)], p)

\* The tasks that have not ended among the first n of those that wait, and how
\* many are taken from the front: until a packet is full or nothing waits.
Live(s) ==
  LET live[n \in 0..Len(s.pending)] ==
        IF n = 0 THEN <<>>
        ELSE IF Ended(s.leaf[s.pending[n]]) THEN live[n - 1] ELSE Append(live[n - 1], s.pending[n])
  IN  live
Taken(s) ==
  CHOOSE n \in 0..Len(s.pending) :
    /\ n = Len(s.pending) \/ Len(Live(s)[n]) = PacketSize
    /\ \A m \in 0..(n - 1) : Len(Live(s)[m]) # PacketSize

\* updateCurrentTask_(): a slot whose packet has ended takes the next tasks
\* that have not ended, up to a packet, and posts them to the next thread.
UpdateSlot(s, i) ==
  IF s.current[i] # None /\ ~Ended(s.packet[s.current[i]].flags)
  THEN s
  ELSE LET kids == Live(s)[Taken(s)]
           rest == SubSeq(s.pending, Taken(s) + 1, Len(s.pending))
       IN  IF kids = <<>>
           THEN [s EXCEPT !.current[i] = None, !.pending = rest]
           ELSE LET p == Head(kids)
                    turn == (s.sampler + 1) % K
                IN  Process([s EXCEPT !.current[i] = p, !.pending = rest, !.sampler = turn,
                                      !.packet[p] = [NoPacket EXCEPT !.kids = kids, !.thread = turn + 1],
                                      !.tasks = Append(@, p)], p)

UpdateSlots(s) ==
  LET after[i \in 0..K] == IF i = 0 THEN s ELSE UpdateSlot(after[i - 1], i)
  IN  after[K]

\* Mutant: cancel() tells the end of a task that is at work.
Settles_Running(f) == ~f.cancel /\ ~f.complete

\* cancel() of a task, and whether it tells the end itself.
Settles(f) == ~f.cancel /\ ~f.complete /\ (~f.run \/ f.finish)
CancelFlags(f) == [f EXCEPT !.cancel = TRUE, !.finish = @ \/ Settles(f)]

CancelTasks(set) ==
  /\ leaf' = [t \in Task |-> IF t \in set THEN CancelFlags(leaf[t]) ELSE leaf[t]]
  /\ calls' = [t \in Task |-> IF t \in set /\ Settles(leaf[t]) THEN calls[t] + 1 ELSE calls[t]]

SwapRemove(s, i) == Front([s EXCEPT ![i] = Last(s)])

Goto(at, i, n, j, t) == pc' = at /\ idx' = i /\ lim' = n /\ sub' = j /\ arg' = t
Return == Goto("idle", 0, 0, 0, None)

------------------------------------------------------------------------------
(* The clients of the queue *)

\* addTask(), also by the code a completion runs.
AddTask ==
  /\ pc \in {"idle", "callback"}
  /\ ~closed
  /\ added < T
  /\ added' = added + 1
  /\ Become(UpdateSlots([State EXCEPT !.pending = Append(pending, added + 1)]))
  /\ UNCHANGED <<refuses, closed, workerVars, mainVars, calls, works, missed>>

\* cancel() of a task; unfetch() joins a task that cancel() caught at work.
CancelTask(t) ==
  /\ pc = "idle"
  /\ t <= added
  /\ ~leaf[t].cancel
  /\ CancelTasks({t})
  /\ \/ UNCHANGED mainVars
     \/ /\ leaf[t].run /\ ~leaf[t].finish /\ ~leaf[t].complete
        /\ Goto("join", 0, 0, 0, t)
  /\ UNCHANGED <<refuses, packet, queueVars, tasks, held, workerVars, added, works, missed>>

\* join() finds the task finished since, and returns.
JoinFinished ==
  /\ pc = "join"
  /\ leaf[arg].finish
  /\ Return
  /\ UNCHANGED <<refuses, leaf, packet, queueVars, tasks, held, workerVars, history>>

\* join() waits for the mutex of the packet, which main() of its tasks holds.
JoinComplete ==
  /\ pc = "join"
  /\ \A h \in Thread : held[h] # None /\ arg \in ToSet(packet[held[h]].kids) => wpc[h] # "work"
  /\ leaf' = [leaf EXCEPT ![arg].complete = TRUE]
  /\ calls' = [calls EXCEPT ![arg] = @ + 1]
  /\ Return
  /\ UNCHANGED <<refuses, packet, queueVars, tasks, held, workerVars, added, works, missed>>

\* cancelTaskQueue(): the packet of each slot is joined: it and its tasks are cancelled, ...
CloseQueue ==
  /\ pc = "idle"
  /\ ~closed
  /\ Goto("close", 1, 0, 0, None)
  /\ UNCHANGED <<refuses, leaf, packet, queueVars, tasks, held, workerVars, history>>

CloseCancel ==
  /\ pc = "close"
  /\ idx \in Thread
  /\ LET p == current[idx]
     IN  IF p = None
         THEN /\ Goto("close", idx + 1, 0, 0, None)
              /\ UNCHANGED <<leaf, calls, packet>>
         ELSE /\ Goto("remove", idx, 0, 0, p)
              /\ packet' = [packet EXCEPT ![p].flags = CancelFlags(@),
                                          ![p].kids = IF Settles(packet[p].flags) THEN <<>> ELSE @]
              /\ IF Ended(packet[p].flags)
                 THEN UNCHANGED <<leaf, calls>>
                 ELSE CancelTasks(ToSet(packet[p].kids))
  /\ UNCHANGED <<refuses, queueVars, tasks, held, workerVars, added, works, missed>>

\* ... and removeTask() waits until its thread has left it.
CloseRemove ==
  /\ pc = "remove"
  /\ LET h == packet[arg].thread
         posted == arg \in ToSet(tasks)
     IN  /\ posted /\ packet[arg].progress => wpc[h] = "wait"
         /\ held' = IF posted /\ packet[arg].progress THEN [held EXCEPT ![h] = None] ELSE held
         /\ tasks' = IF posted
                     THEN SwapRemove(tasks, CHOOSE i \in 1..Len(tasks) : tasks[i] = arg)
                     ELSE tasks
  /\ current' = [current EXCEPT ![idx] = None]
  /\ Goto("close", idx + 1, 0, 0, None)
  /\ UNCHANGED <<refuses, leaf, packet, pending, sampler, closed, workerVars, history>>

\* Mutant: the tasks that wait are dropped without being cancelled.
CloseEnd_Drops ==
  /\ pc = "close"
  /\ idx = K + 1
  /\ pending' = <<>>
  /\ closed' = TRUE
  /\ Return
  /\ UNCHANGED <<refuses, leaf, calls, packet, current, sampler, tasks, held, workerVars, added, works, missed>>

\* Then the tasks that wait are cancelled.
CloseEnd ==
  /\ pc = "close"
  /\ idx = K + 1
  /\ CancelTasks(ToSet(pending))
  /\ pending' = <<>>
  /\ closed' = TRUE
  /\ Return
  /\ UNCHANGED <<refuses, packet, current, sampler, tasks, held, workerVars, added, works, missed>>

------------------------------------------------------------------------------
(* ThreadService::update() *)

\* The packets that wait are offered to their threads.
Offer(s, p) == IF s.packet[p].progress THEN s ELSE Process(s, p)
Offers ==
  LET after[n \in 0..Len(tasks)] == IF n = 0 THEN State ELSE Offer(after[n - 1], tasks[n])
  IN  after[Len(tasks)]

BeginUpdate ==
  /\ pc = "idle"
  /\ tasks # <<>> \/ pending # <<>>
  /\ Become(Offers)
  /\ Goto("update", 1, Len(tasks), 0, None)
  /\ UNCHANGED <<refuses, closed, workerVars, history>>

\* update() of a packet: nothing before it runs, else its tasks first.  No packet
\* of the service has ended: joinTask() takes the one it cancels out.
UpdatePacket ==
  /\ pc = "update"
  /\ idx <= lim
  /\ IF ~packet[tasks[idx]].flags.run
     THEN Goto("update", idx + 1, lim, 0, None)
     ELSE Goto("kids", idx, lim, 1, tasks[idx])
  /\ UNCHANGED <<refuses, leaf, packet, queueVars, tasks, held, workerVars, history>>

\* update() of the next task of the packet; its completion may run client code.
UpdateKid ==
  /\ pc = "kids"
  /\ sub <= Len(packet[arg].kids)
  /\ LET t == packet[arg].kids[sub]
     IN  IF leaf[t].run /\ ~Ended(leaf[t]) /\ leaf[t].finish
         THEN /\ leaf' = [leaf EXCEPT ![t].complete = TRUE]
              /\ calls' = [calls EXCEPT ![t] = @ + 1]
              /\ Goto("callback", idx, lim, sub, arg)
         ELSE /\ Goto("kids", idx, lim, sub + 1, arg)
              /\ UNCHANGED <<leaf, calls>>
  /\ UNCHANGED <<refuses, packet, queueVars, tasks, held, workerVars, added, works, missed>>

CallbackReturn ==
  /\ pc = "callback"
  /\ Goto("kids", idx, lim, sub + 1, arg)
  /\ UNCHANGED <<refuses, leaf, packet, queueVars, tasks, held, workerVars, history>>

\* The tasks a packet carries whose end nobody has told.
Untold(p) == {t \in ToSet(packet[p].kids) : leaf[t].run /\ ~Ended(leaf[t])}

\* The first read of m_finish: a finished packet forgets its tasks and leaves the service.
UpdateFinish ==
  /\ pc = "kids"
  /\ sub > Len(packet[arg].kids)
  /\ IF packet[arg].flags.finish
     THEN /\ packet' = [packet EXCEPT ![arg].flags.complete = TRUE, ![arg].kids = <<>>]
          /\ missed' = missed \cup Untold(arg)
          /\ tasks' = SwapRemove(tasks, idx)
          /\ Goto("update", idx, lim - 1, 0, None)
     ELSE /\ Goto("return", idx, lim, 0, arg)
          /\ UNCHANGED <<packet, missed, tasks>>
  /\ UNCHANGED <<refuses, leaf, queueVars, held, workerVars, added, calls, works>>

\* Mutant: the loop counts a packet that leaves twice.
UpdateReturn_Twice ==
  /\ pc = "return"
  /\ IF packet[arg].flags.finish
     THEN /\ missed' = missed \cup Untold(arg)
          /\ tasks' = SwapRemove(tasks, idx)
          /\ Goto("update", idx, lim - 2, 0, None)
     ELSE /\ Goto("update", idx + 1, lim, 0, None)
          /\ UNCHANGED <<missed, tasks>>
  /\ UNCHANGED <<refuses, leaf, packet, queueVars, held, workerVars, added, calls, works>>

\* The second read: a packet that finished in between leaves the service as it is.
UpdateReturn ==
  /\ pc = "return"
  /\ IF packet[arg].flags.finish
     THEN /\ missed' = missed \cup Untold(arg)
          /\ tasks' = SwapRemove(tasks, idx)
          /\ Goto("update", idx, lim - 1, 0, None)
     ELSE /\ Goto("update", idx + 1, lim, 0, None)
          /\ UNCHANGED <<missed, tasks>>
  /\ UNCHANGED <<refuses, leaf, packet, queueVars, held, workerVars, added, calls, works>>

\* Mutant: the queue is not updated.
UpdateQueue_Never ==
  /\ pc = "update"
  /\ idx > lim
  /\ Return
  /\ UNCHANGED <<refuses, leaf, packet, queueVars, tasks, held, workerVars, history>>

\* Then the queue fills the slots that are free.
UpdateQueue ==
  /\ pc = "update"
  /\ idx > lim
  /\ IF closed THEN UNCHANGED <<leaf, packet, pending, current, sampler, tasks, held>>
               ELSE Become(UpdateSlots(State))
  /\ Return
  /\ UNCHANGED <<refuses, closed, workerVars, history>>

------------------------------------------------------------------------------
(* The thread of a packet *)

\* It wakes with a packet: main() enters the loop over the tasks or returns early.
WorkerTake(h) ==
  /\ wpc[h] = "wait"
  /\ held[h] # None
  /\ LET f == packet[held[h]].flags
     IN  IF ~f.run \/ f.finish \/ f.complete \/ f.cancel
         THEN /\ wpc' = [wpc EXCEPT ![h] = "leave"]
              /\ packet' = [packet EXCEPT ![held[h]].flags.finish = @ \/ (f.run /\ f.cancel /\ ~f.complete)]
              /\ UNCHANGED kid
         ELSE /\ wpc' = [wpc EXCEPT ![h] = "loop"]
              /\ kid' = [kid EXCEPT ![h] = 1]
              /\ UNCHANGED packet
  /\ UNCHANGED <<refuses, leaf, queueVars, tasks, held, mainVars, history>>

\* main() of the next task works, or returns by the flags of the task.
WorkerKid(h) ==
  /\ wpc[h] = "loop"
  /\ kid[h] <= Len(packet[held[h]].kids)
  /\ LET t == packet[held[h]].kids[kid[h]]
         early == ~leaf[t].run \/ leaf[t].finish \/ leaf[t].complete
     IN  IF early \/ leaf[t].cancel
         THEN /\ leaf' = [leaf EXCEPT ![t].finish = @ \/ ~early]
              /\ kid' = [kid EXCEPT ![h] = @ + 1]
              /\ UNCHANGED <<wpc, works>>
         ELSE /\ wpc' = [wpc EXCEPT ![h] = "work"]
              /\ works' = [works EXCEPT ![t] = @ + 1]
              /\ UNCHANGED <<leaf, kid>>
  /\ UNCHANGED <<refuses, packet, queueVars, tasks, held, mainVars, added, calls, missed>>

WorkerWorked(h) ==
  /\ wpc[h] = "work"
  /\ leaf' = [leaf EXCEPT ![packet[held[h]].kids[kid[h]]].finish = TRUE]
  /\ wpc' = [wpc EXCEPT ![h] = "loop"]
  /\ kid' = [kid EXCEPT ![h] = @ + 1]
  /\ UNCHANGED <<refuses, packet, queueVars, tasks, held, mainVars, history>>

WorkerFinish(h) ==
  /\ wpc[h] = "loop"
  /\ kid[h] > Len(packet[held[h]].kids)
  /\ packet' = [packet EXCEPT ![held[h]].flags.finish = TRUE]
  /\ wpc' = [wpc EXCEPT ![h] = "leave"]
  /\ UNCHANGED <<refuses, leaf, queueVars, tasks, held, kid, mainVars, history>>

WorkerLeave(h) ==
  /\ wpc[h] = "leave"
  /\ held' = [held EXCEPT ![h] = None]
  /\ wpc' = [wpc EXCEPT ![h] = "wait"]
  /\ kid' = [kid EXCEPT ![h] = 0]
  /\ UNCHANGED <<refuses, leaf, packet, queueVars, tasks, mainVars, history>>

------------------------------------------------------------------------------

Client == AddTask \/ (\E t \in Task : CancelTask(t)) \/ CloseQueue

Main == \/ JoinFinished \/ JoinComplete
        \/ CloseCancel \/ CloseRemove \/ CloseEnd
        \/ BeginUpdate \/ UpdatePacket \/ UpdateKid \/ CallbackReturn
        \/ UpdateFinish \/ UpdateReturn \/ UpdateQueue

Worker(h) == WorkerTake(h) \/ WorkerKid(h) \/ WorkerWorked(h) \/ WorkerFinish(h) \/ WorkerLeave(h)

Next == Client \/ Main \/ \E h \in Thread : Worker(h)

Spec == Init /\ [][Next]_vars

\* Frames follow each other, every thread is scheduled, every work ends.
FairSpec == Spec /\ WF_vars(Main) /\ \A h \in Thread : WF_vars(Worker(h))

------------------------------------------------------------------------------
(* Properties *)

\* The thread of a packet iterates m_tasks of the packet without a lock: the
\* main thread clears that list only when the loop is over.
KidsAreStable ==
  \A h \in Thread :
    wpc[h] \in {"loop", "work"} =>
      /\ packet[held[h]].kids # <<>>
      /\ ~packet[held[h]].flags.finish /\ ~packet[held[h]].flags.complete
      /\ kid[h] <= Len(packet[held[h]].kids) + 1

\* No task is done or told twice, and none gets lost on its way: one that was added and
\* neither told its end nor cancelled waits in the queue, or is carried by a packet of
\* the service, in one place only; else its run was refused, or its packet finished in
\* the middle of its update() and dropped it unseen.
Places(t) == {i \in 1..Len(pending) : pending[i] = t}
Carriers(t) == {i \in 1..Len(tasks) : t \in ToSet(packet[tasks[i]].kids)}
NoTaskIsLost ==
  \A t \in 1..added :
    /\ works[t] <= 1 /\ calls[t] <= 1
    /\ calls[t] = 0 /\ ~leaf[t].cancel =>
         \/ t \in refuses \/ t \in missed
         \/ \E i \in Places(t) : Places(t) = {i} /\ Carriers(t) = {}
         \/ \E i \in Carriers(t) : Carriers(t) = {i} /\ Places(t) = {}

\* Every packet of the service is held by one slot, so that cancelTaskQueue()
\* reaches it and finalize() finds the pool of packets empty.
PacketsHaveSlots ==
  \A p \in ToSet(tasks) : \E i \in Thread : current[i] = p /\ \A k \in Thread \ {i} : current[k] # p

\* A slot whose packet was dropped without being completed never takes another.
Blocked == \E i \in 1..Len(current) : current[i] # None /\ current[i] \notin ToSet(tasks)
                                     /\ ~Ended(packet[current[i]].flags)

\* A task that is added ends, unless a packet dropped it unseen or, when it
\* finished in the middle of its update(), blocks its slot for ever.
Served == \A t \in Task :
  t <= added ~> calls[t] = 1 \/ leaf[t].cancel \/ t \in refuses \/ t \in missed \/ Blocked

==============================================================================
