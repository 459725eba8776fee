----------------------------- MODULE HttpService -----------------------------
(***************************************************************************)
(* Plugins/cURLPlugin: a script asks for a request and is told its end by  *)
(* a callback.  The service lists the receivers of the requests that are   *)
(* not told yet, gives each request to a task queue and removes the        *)
(* receiver, by moving the last one into its place, when the task ends.    *)
(*                                                                         *)
(* The queue is that of ThreadQueue, with packets of one task: of it this  *)
(* module keeps the slots and the two ways a packet ends untold; the order *)
(* of the tasks that wait and the threads are left out.                    *)
(*                                                                         *)
(* Main thread: the operations, the frames (UpdateQueue, Start, Answer and *)
(* PacketEnds) and the stop.  Other threads: Finish.                       *)
(***************************************************************************)
EXTENDS Naturals, Sequences, FiniteSets, SequencesExt

CONSTANTS
  Request,   \* the requests that are ever made
  Slots      \* the threads of the queue, each of which has one slot

ASSUME HttpAssumption == Slots \in Nat \ {0}

VARIABLES
  kind,      \* what each request is: a message, or a download, which opens a file
  receivers, \* m_receiverDescs, as the requests that are listed
  past,      \* what the memory behind m_receiverDescs still holds
  status,    \* where the task of each request is
  packet,    \* where its packet is: it holds a slot while it is posted, and for ever if it blocks
  cancelled, \* the tasks whose m_cancel is set
  told,      \* what each receiver was told
  pc, at, end \* the stop of the service, and its loop over m_receiverDescs

vars == <<kind, receivers, past, status, packet, cancelled, told, pc, at, end>>
stop == <<pc, at, end>>

Kinds == {"message", "download"}
Statuses == {"none", "queued", "running", "finished", "refused", "complete"}
Packets == {"none", "posted", "left", "blocks"}

TypeOK ==
  /\ kind \in [Request -> Kinds]
  /\ receivers \in Seq(Request) /\ past \in Seq(Request)
  /\ status \in [Request -> Statuses]
  /\ packet \in [Request -> Packets]
  /\ cancelled \subseteq Request
  /\ told \in [Request -> {"none", "ok", "failed"}]
  /\ pc \in {"run", "joins", "closes", "stopped", "crashed"}
  /\ at \in Nat /\ end \in Nat

Init ==
  /\ kind \in [Request -> Kinds]
  /\ receivers = <<>> /\ past = <<>>
  /\ status = [r \in Request |-> "none"]
  /\ packet = [r \in Request |-> "none"]
  /\ cancelled = {}
  /\ told = [r \in Request |-> "none"]
  /\ pc = "run" /\ at = 0 /\ end = 0

------------------------------------------------------------------------------
(* The end of a request *)

\* Mutant: the last receiver is taken away without moving it into the gap.
Unlist_Last(r) ==
  /\ receivers' = Front(receivers)
  /\ past' = IF pc = "run" THEN past ELSE <<Last(receivers)>> \o past

\* *it = m_receiverDescs.back(); m_receiverDescs.pop_back();
Unlist(r) ==
  LET n == CHOOSE k \in DOMAIN receivers : receivers[k] = r
  IN  /\ receivers' = Front([receivers EXCEPT ![n] = Last(receivers)])
      /\ past' = IF pc = "run" THEN past ELSE <<Last(receivers)>> \o past

\* _onComplete() of the task: the receiver is looked for and told, unless it is not listed any more.
Tell(r, answer) ==
  IF r \in ToSet(receivers)
  THEN Unlist(r) /\ told' = [told EXCEPT ![r] = answer]
  ELSE UNCHANGED <<receivers, past, told>>

\* A download flushes the file its run() opened: through a null pointer if it opened none.
NoFile(r) == kind[r] = "download" /\ status[r] \in {"queued", "refused"}

\* Mutant: the end is left to the packet when the work has ended.
Cancel_Finished(r) ==
  /\ cancelled' = cancelled \cup {r}
  /\ IF r \in cancelled \/ status[r] # "queued"
     THEN UNCHANGED <<receivers, past, told, pc>>
     ELSE IF NoFile(r) THEN UNCHANGED <<receivers, past, told>> /\ pc' = "crashed"
          ELSE Tell(r, "failed") /\ UNCHANGED pc

\* cancel() of the task: the end is told at once unless the work is under way.
Cancel(r) ==
  /\ cancelled' = cancelled \cup {r}
  /\ IF r \in cancelled \/ status[r] \in {"running", "complete"}
     THEN UNCHANGED <<receivers, past, told, pc>>
     ELSE IF NoFile(r) THEN UNCHANGED <<receivers, past, told>> /\ pc' = "crashed"
          ELSE Tell(r, "failed") /\ UNCHANGED pc

------------------------------------------------------------------------------
(* The slots of the queue *)

InSlots == {r \in Request : packet[r] \in {"posted", "blocks"}}
InQueue == {r \in Request : status[r] = "queued" /\ packet[r] = "none" /\ r \notin cancelled}

\* updateCurrentTask_() of every slot: those of the given tasks that find a free one are posted.
UpdateSlots(waiting) ==
  \E more \in SUBSET waiting :
    /\ Cardinality(InSlots \cup more) <= Slots
    /\ more = waiting \/ Cardinality(InSlots \cup more) = Slots
    /\ packet' = [r \in Request |-> IF r \in more THEN "posted" ELSE packet[r]]

------------------------------------------------------------------------------
(* The operations of the main thread *)

\* getMessage(), postMessage(), headerData(), downloadAsset(), with addTask() of the queue.
NewRequest(r) ==
  /\ pc = "run" /\ status[r] = "none"
  /\ receivers' = Append(receivers, r)
  /\ status' = [status EXCEPT ![r] = "queued"]
  /\ UpdateSlots(InQueue \cup {r})
  /\ UNCHANGED <<kind, past, cancelled, told, stop>>

\* cancelRequest() of a request that is still listed; another one is only logged.
CancelRequest(r) ==
  /\ pc = "run" /\ r \in ToSet(receivers)
  /\ Cancel(r)
  /\ UNCHANGED <<kind, status, packet, at, end>>

\* update() of the queue, once a frame.
UpdateQueue ==
  /\ pc = "run" /\ InQueue # {} /\ Cardinality(InSlots) < Slots
  /\ UpdateSlots(InQueue)
  /\ UNCHANGED <<kind, receivers, past, status, cancelled, told, stop>>

\* A thread takes the packet, whose run() runs a task that was not cancelled; a
\* download fails to run if it cannot open its file.
Start(r) ==
  /\ pc = "run" /\ packet[r] = "posted"
  /\ status[r] = "queued" /\ r \notin cancelled
  /\ \/ status' = [status EXCEPT ![r] = "running"]
     \/ kind[r] = "download" /\ status' = [status EXCEPT ![r] = "refused"]
  /\ UNCHANGED <<kind, receivers, past, packet, cancelled, told, stop>>

\* The thread has performed the request, whatever came of it.
Finish(r) ==
  /\ pc \in {"run", "joins", "closes"} /\ status[r] = "running"
  /\ status' = [status EXCEPT ![r] = "finished"]
  /\ UNCHANGED <<kind, receivers, past, packet, cancelled, told, stop>>

\* Mutant: the packet forgets the task without looking at its end.
Answer_Drops(r) ==
  /\ pc = "run" /\ packet[r] = "posted"
  /\ status[r] = "finished" /\ r \notin cancelled
  /\ status' = [status EXCEPT ![r] = "complete"]
  /\ UNCHANGED <<kind, receivers, past, packet, told, cancelled, stop>>

\* update() of the packet finds the work of its task ended; it passes over one that was cancelled.
Answer(r) ==
  /\ pc = "run" /\ packet[r] = "posted"
  /\ status[r] = "finished" /\ r \notin cancelled
  /\ status' = [status EXCEPT ![r] = "complete"]
  /\ Tell(r, "ok")
  /\ UNCHANGED <<kind, packet, cancelled, stop>>

\* The thread has left the packet and update() of it finds its own m_finish set, maybe
\* right after it looked at the task and found nothing: by the first read the packet
\* forgets its task and frees its slot, by the second it leaves the service without
\* being complete, and its slot takes no other.
PacketEnds(r) ==
  /\ pc = "run" /\ packet[r] = "posted"
  /\ \/ status[r] \in {"finished", "refused", "complete"}
     \/ status[r] = "queued" /\ r \in cancelled
  /\ \E gone \in {"left", "blocks"} : packet' = [packet EXCEPT ![r] = gone]
  /\ UNCHANGED <<kind, receivers, past, status, cancelled, told, stop>>

------------------------------------------------------------------------------
(* _stopService() *)

Stop ==
  /\ pc = "run"
  /\ pc' = "joins" /\ at' = 1 /\ end' = Len(receivers)
  /\ UNCHANGED <<kind, receivers, past, status, packet, cancelled, told>>

\* joinTask(), which only cancels: the service knows the packet and not the task.
\* The end of the loop was read before the receivers moved, so that it passes over
\* those that moved back and reads behind the last one, where what the destroyed
\* pointer holds is the task it held, or nothing.
StopJoin ==
  /\ pc = "joins" /\ at <= end
  /\ at' = at + 1
  /\ \/ Cancel((receivers \o past)[at])
     \/ /\ at > Len(receivers)
        /\ pc' = "crashed"
        /\ UNCHANGED <<receivers, past, cancelled, told>>
  /\ UNCHANGED <<kind, status, packet, end>>

StopClear ==
  /\ pc = "joins" /\ at > end
  /\ receivers' = <<>> /\ past' = <<>>
  /\ pc' = "closes" /\ at' = 0 /\ end' = 0
  /\ UNCHANGED <<kind, status, packet, cancelled, told>>

\* destroyThread() waits for the work under way; cancelTaskQueue() cancels the tasks
\* that wait and those of the packets in the slots.
StopQueue ==
  /\ pc = "closes" /\ \A r \in Request : status[r] # "running"
  /\ LET left == {r \in Request \ cancelled : status[r] \notin {"none", "complete"} /\ packet[r] # "left"}
     IN  /\ cancelled' = cancelled \cup left
         /\ pc' = IF \E r \in left : NoFile(r) THEN "crashed" ELSE "stopped"
  /\ UNCHANGED <<kind, receivers, past, status, packet, told, at, end>>

Ended == pc \in {"stopped", "crashed"} /\ UNCHANGED vars

Perform(r) == Start(r) \/ Finish(r) \/ Answer(r) \/ PacketEnds(r)

Next ==
  \/ \E r \in Request : NewRequest(r) \/ CancelRequest(r) \/ Perform(r)
  \/ UpdateQueue \/ Stop \/ StopJoin \/ StopClear \/ StopQueue \/ Ended

Spec == Init /\ [][Next]_vars

\* Frames follow each other, every packet in a slot gets its thread and every work ends.
\* Only Perform as a whole is fair, never Answer: the packet may end before it tells.
FairSpec == Spec /\ WF_vars(UpdateQueue) /\ \A r \in Request : WF_vars(Perform(r))

------------------------------------------------------------------------------
(* What the service promises *)

\* While the service runs, the receivers listed are those of the requests not told yet,
\* each once: moving the last one into the gap loses none, whichever request ends, and
\* no end is told that has no receiver.
ListedAreOwed ==
  pc = "run" =>
    /\ IsInjective(receivers)
    /\ ToSet(receivers) = {r \in Request : status[r] # "none" /\ told[r] = "none"}

\* However the thread and the frames race with cancelRequest(): a request that was
\* cancelled is never told that it succeeded, and it was told that it failed unless its
\* work was under way then; one that succeeded had ended its work.
CancelledIsSettled ==
  \A r \in Request :
    /\ told[r] = "ok" => status[r] = "complete" /\ r \notin cancelled
    /\ pc = "run" /\ r \in cancelled /\ told[r] = "none" => status[r] \in {"running", "finished"}

\* The work of the request ended and its packet left without looking at it.
Missed(r) == status[r] = "finished" /\ packet[r] \in {"left", "blocks"}

\* Every slot holds a packet that was dropped without being completed.
Blocked == Cardinality({r \in Request : packet[r] = "blocks"}) = Slots

\* Every request is told its end, unless it was cancelled while its work was under way,
\* could not open its file, or the service stopped; or its packet dropped it unseen, or
\* every slot of the queue is blocked, the two losses that ThreadQueue's Served names.
Answered ==
  \A r \in Request : status[r] = "queued" ~>
    \/ told[r] # "none" \/ r \in cancelled \/ status[r] = "refused" \/ pc # "run"
    \/ Missed(r) \/ Blocked
==============================================================================
