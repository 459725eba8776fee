-------------------------- MODULE PrefetcherService --------------------------
(***************************************************************************)
(* Services/PrefetcherService as prefetchResources() and                   *)
(* unfetchResources() of Plugins/ResourcePrefetcherPlugin use it: a batch  *)
(* asks for the files of a group with one observer, each file is loaded by *)
(* one task however many batches want it, the file is counted by the       *)
(* batches that hold it, and the observer counts the tasks made for it and *)
(* calls the script when none is left.                                     *)
(*                                                                         *)
(* The tasks go through ThreadQueue, whose slots are left out here.  What  *)
(* the script does in its callback is done after the operation that called *)
(* it.  A group names a file once.                                         *)
(***************************************************************************)
EXTENDS Integers, FiniteSets, FiniteSetsExt

CONSTANTS Key, Batch

ASSUME PrefetcherAssumption == IsFiniteSet(Batch) /\ IsFiniteSet(Key)

VARIABLES
  wants,   \* the files of the group of each batch
  entry,   \* m_prefetchReceiver: how often a file is counted, and the batch its task was made for
  task,    \* the task of each batch for each file
  count,   \* m_count of each observer, where below zero stands for what it wraps to
  told,    \* what the callback of each batch was called with
  closed,  \* _finalizeService() was called
  \* what the clients know
  holds,   \* the files each batch has asked for and not given back
  popped   \* the files popData() took or dropped

service == <<entry, task, closed>>
observers == <<count, told>>
clients == <<holds, popped>>
vars == <<wants, service, observers, clients>>

None == [ref |-> 0]
Loaded == {"loaded", "silent"}
Complete == {"loaded", "silent", "broken"}
Statuses == {"none", "queued", "running", "refused", "finished", "failed", "cancelled"} \cup Complete

TypeOK ==
  /\ wants \in [Batch -> SUBSET Key \ {{}}]
  /\ entry \in [Key -> {None} \cup [ref : 1..Cardinality(Batch), of : Batch]]
  /\ task \in [Batch -> [Key -> Statuses]]
  /\ count \in [Batch -> (-Cardinality(Key))..Cardinality(Key)]
  /\ told \in [Batch -> {"none", "ok", "failed"}]
  /\ closed \in BOOLEAN
  /\ holds \in [Batch -> SUBSET Key] /\ popped \subseteq Key

Init ==
  /\ wants \in [Batch -> SUBSET Key \ {{}}]
  /\ entry = [k \in Key |-> None]
  /\ task = [b \in Batch |-> [k \in Key |-> "none"]]
  /\ count = [b \in Batch |-> 0] /\ told = [b \in Batch |-> "none"]
  /\ closed = FALSE
  /\ holds = [b \in Batch |-> {}] /\ popped = {}

Asked(b) == holds[b] # {} \/ \E k \in Key : task[b][k] # "none"

------------------------------------------------------------------------------
(* Asking for a batch and giving it back *)

\* Mutant: a file that is known already is not counted for the batch.
PrefetchResources_Uncounted(b) ==
  /\ ~Asked(b) /\ ~closed
  /\ LET new == {k \in wants[b] : entry[k] = None}
     IN  /\ entry' = [k \in Key |-> IF k \in new THEN [ref |-> 1, of |-> b] ELSE entry[k]]
         /\ task' = [task EXCEPT ![b] = [k \in Key |-> IF k \in new THEN "queued" ELSE "none"]]
         /\ count' = [count EXCEPT ![b] = Cardinality(new)]
  /\ holds' = [holds EXCEPT ![b] = wants[b]]
  /\ UNCHANGED <<wants, told, closed, popped>>

\* A file that is known is counted once more, however its task ended; a task is made for
\* another one, and counted by the observer.
PrefetchResources(b) ==
  /\ ~Asked(b) /\ ~closed
  /\ LET new == {k \in wants[b] : entry[k] = None}
     IN  /\ entry' = [k \in Key |-> IF k \in new THEN [ref |-> 1, of |-> b]
                                    ELSE IF k \in wants[b] THEN [entry[k] EXCEPT !.ref = @ + 1]
                                    ELSE entry[k]]
         /\ task' = [task EXCEPT ![b] = [k \in Key |-> IF k \in new THEN "queued" ELSE "none"]]
         /\ count' = [count EXCEPT ![b] = Cardinality(new)]
  /\ holds' = [holds EXCEPT ![b] = wants[b]]
  /\ UNCHANGED <<wants, told, closed, popped>>

\* cancel() of the tasks of cs, pairs of a batch and a file, and join() of those at work.
\* The observer counts a task in onPrefetchCancel() and again in onPrefetchComplete(),
\* which join() leaves out for those that end between the two, in late.
CancelAll(cs, late) ==
  LET live == {c \in cs : task[c[1]][c[2]] \notin Complete \cup {"cancelled"}}
      calls(b) == Cardinality({c \in live : c[1] = b}) + Cardinality({c \in live \ late : c[1] = b})
  IN  /\ task' = [b \in Batch |-> [k \in Key |-> IF <<b, k>> \in live THEN "cancelled" ELSE task[b][k]]]
      /\ count' = [b \in Batch |-> count[b] - calls(b)]
      /\ told' = [b \in Batch |-> IF count[b] > 0 /\ count'[b] <= 0 THEN "failed" ELSE told[b]]

AtWork(cs) == {c \in cs : task[c[1]][c[2]] = "running"}

\* Mutant: a file is forgotten when it was given back once too often.
IsLast_Late(k) == entry[k].ref = 0

IsLast(k) == entry[k].ref = 1

\* unfetch() of each file of the group: one that nothing counts any more is cancelled and forgotten.
UnfetchResources(b) ==
  /\ holds[b] # {}
  /\ LET known == {k \in wants[b] : entry[k] # None}
         last == {k \in known : IsLast(k)}
         cs == {<<entry[k].of, k>> : k \in last}
     IN  /\ entry' = [k \in Key |-> IF k \in last THEN None
                                    ELSE IF k \in known THEN [entry[k] EXCEPT !.ref = @ - 1]
                                    ELSE entry[k]]
         /\ \E late \in SUBSET AtWork(cs) : CancelAll(cs, late)
  /\ holds' = [holds EXCEPT ![b] = {}]
  /\ UNCHANGED <<wants, closed, popped>>

\* popData(): the file is forgotten, whoever counts it, and cancelled if it is not loaded.
PopData(k) ==
  /\ entry[k] # None
  /\ LET c == <<entry[k].of, k>>
         cs == IF task[entry[k].of][k] \in Loaded THEN {} ELSE {c}
     IN  \E late \in SUBSET AtWork(cs) : CancelAll(cs, late)
  /\ entry' = [entry EXCEPT ![k] = None]
  /\ popped' = popped \cup {k}
  /\ UNCHANGED <<wants, closed, holds>>

\* _finalizeService(): the threads end their work, the queue is cancelled; a task that
\* refused to run may be gone with its packet.
FinalizeService ==
  /\ ~closed
  /\ \A b \in Batch, k \in Key : task[b][k] # "running"
  /\ \E gone \in SUBSET {c \in Batch \X Key : task[c[1]][c[2]] = "refused"} :
       CancelAll({c \in Batch \X Key : task[c[1]][c[2]] # "none"} \ gone, {})
  /\ entry' = [k \in Key |-> None]
  /\ closed' = TRUE
  /\ UNCHANGED <<wants, clients>>

------------------------------------------------------------------------------
(* The tasks, on their threads and in the frames *)

Become(b, k, from, to) ==
  /\ ~closed /\ task[b][k] = from
  /\ task' = [task EXCEPT ![b][k] = to]
  /\ UNCHANGED <<wants, entry, closed, clients>>

\* run(), which fails if the file cannot be opened, and main().
Run(b, k) == (\E to \in {"running", "refused"} : Become(b, k, "queued", to)) /\ UNCHANGED observers
Main(b, k) == (\E to \in {"finished", "failed"} : Become(b, k, "running", to)) /\ UNCHANGED observers

\* Mutant: the callback is called with what the last task ended with.
OnPrefetchComplete_Last(b, to) ==
  /\ count' = [count EXCEPT ![b] = @ - 1]
  /\ told' = [told EXCEPT ![b] = IF count[b] # 1 THEN @ ELSE IF to = "loaded" THEN "ok" ELSE "failed"]

\* m_successful of the observer has been true of all tasks so far, and the last one calls the script.
OnPrefetchComplete(b, to) ==
  /\ count' = [count EXCEPT ![b] = @ - 1]
  /\ told' = [told EXCEPT ![b] =
       IF count[b] # 1 THEN @
       ELSE IF to = "loaded" /\ \A k \in Key : task[b][k] \notin {"broken", "cancelled"} THEN "ok" ELSE "failed"]

\* update(): the end is told to the observer, unless the data cannot be made on the main thread.
Update(b, k) ==
  \/ Become(b, k, "finished", "loaded") /\ OnPrefetchComplete(b, "loaded")
  \/ Become(b, k, "failed", "broken") /\ OnPrefetchComplete(b, "broken")
  \/ Become(b, k, "finished", "silent") /\ UNCHANGED observers

Next ==
  \/ \E b \in Batch : PrefetchResources(b) \/ UnfetchResources(b)
  \/ \E b \in Batch, k \in Key : Run(b, k) \/ Main(b, k) \/ Update(b, k)
  \/ \E k \in Key : PopData(k)
  \/ FinalizeService
  \/ closed /\ UNCHANGED vars

Spec == Init /\ [][Next]_vars

------------------------------------------------------------------------------
(* What the service promises *)

\* A file is kept as long as a batch holds it and no longer, whatever became of its task
\* and whichever batch asked first, unless popData() took it from its holders.
HeldIsKept ==
  ~closed => \A k \in Key \ popped :
    Cardinality({b \in Batch : k \in holds[b]}) = entry[k].ref

Own(b) == {k \in Key : task[b][k] # "none"}

\* A script is told that its batch succeeded only when every file it loaded itself is
\* there; and unless a task of its own was cancelled or ended without a word, it is told
\* exactly when the last of them has ended, which is what the count stands for.
ToldWhenAllEnded ==
  \A b \in Batch :
    LET open == {k \in Own(b) : task[b][k] \notin Complete}
    IN  /\ told[b] = "ok" => \A k \in Own(b) : task[b][k] = "loaded"
        /\ (\A k \in Own(b) : task[b][k] \notin {"silent", "cancelled"})
             => /\ count[b] = Cardinality(open)
                /\ told[b] # "none" <=> Own(b) # {} /\ open = {}
==============================================================================
