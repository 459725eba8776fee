------------------------------- MODULE Scheduler -------------------------------
(***************************************************************************)
(* Kernel/Scheduler: one-shot events and repeated timings, advanced once   *)
(* per frame.  Every call out of the scheduler (onScheduleComplete,        *)
(* onScheduleStop, onScheduleTiming, onSchedulePipe) runs client code,     *)
(* which may call the scheduler again; what a client does inside           *)
(* onScheduleStop is done after the step that calls it.                    *)
(*                                                                         *)
(* A schedule stands for its identity, which is never used again.  Times   *)
(* are multiples of a unit; a schedule's time and delay are compared and   *)
(* subtracted only.  The iteration passed to pipes and timers is left out. *)
(***************************************************************************)
EXTENDS Integers, Sequences, SequencesExt

CONSTANTS
  Schedule,  \* the identities ever used
  Delays,    \* what an event waits, or a pipe returns unless it ends the timing
  Frames     \* how long a frame may be

ASSUME SchedulerAssumption == Delays \subseteq Nat \ {0} /\ Frames \subseteq Nat

VARIABLES
  desc,      \* the ScheduleEventDesc of each schedule
  list,      \* m_schedules
  adds,      \* m_schedulesAdd
  freezeAll, \* m_freezeAll
  pc, pos,   \* where update() is: its callback or its place in list
  total, old, acc,   \* the locals total_time, old_timing and acc_delay of update()
  wipe,      \* where removeAll() is
  \* what has been observed so far
  told,      \* onScheduleStop and onScheduleComplete: none, one or more calls
  stopped,   \* the schedules told onScheduleStop
  undead,    \* those of them called again afterwards
  survivors, \* those told so by removeAll() while they were in m_schedulesAdd
  piped,     \* those removed inside their own onSchedulePipe
  offset     \* the offset of the timeline, as told by the scheduler

updateVars == <<pc, pos, total, old, acc, offset>>
observed == <<told, stopped, undead, survivors, piped>>
vars == <<desc, list, adds, freezeAll, updateVars, wipe, observed>>

Desc == [timing : BOOLEAN, delay : Nat, time : Int, dead : BOOLEAN,
         freeze : BOOLEAN, invalid : BOOLEAN]
Fresh == [timing |-> FALSE, delay |-> 0, time |-> 0, dead |-> FALSE, freeze |-> FALSE, invalid |-> TRUE]
NoWipe == [at |-> "none", pos |-> 0, copy |-> <<>>]

TypeOK ==
  /\ desc \in [Schedule -> Desc]
  /\ list \in Seq(Schedule) /\ adds \in Seq(Schedule)
  /\ IsInjective(list \o adds)
  /\ freezeAll \in BOOLEAN
  /\ pc \in {"idle", "next", "complete", "timing", "pipe", "timer", "crash"} /\ pos \in Nat
  /\ total \in Frames \cup {0} /\ old \in Nat /\ acc \in Nat /\ offset \in Int
  /\ wipe.at \in {"none", "list", "copy"} /\ wipe.pos \in Nat /\ wipe.copy \in Seq(Schedule)
  /\ told \in [Schedule -> 0..2]
  /\ stopped \subseteq Schedule /\ undead \subseteq stopped /\ survivors \subseteq Schedule
  /\ piped \subseteq Schedule

Init ==
  /\ desc = [e \in Schedule |-> Fresh]
  /\ list = <<>> /\ adds = <<>>
  /\ freezeAll = FALSE
  /\ pc = "idle" /\ pos = 0 /\ total = 0 /\ old = 0 /\ acc = 0 /\ offset = 0
  /\ wipe = NoWipe
  /\ told = [e \in Schedule |-> 0]
  /\ stopped = {} /\ undead = {} /\ survivors = {} /\ piped = {}

------------------------------------------------------------------------------
(* Calls out of the scheduler *)

Tell(e) == told' = [told EXCEPT ![e] = IF @ = 0 THEN 1 ELSE 2]

\* onScheduleStop.
Stop(e) == Tell(e) /\ stopped' = stopped \cup {e}

\* A call of anything else: it should not come after the stop.
Call(e) == undead' = undead \cup ({e} \cap stopped)

------------------------------------------------------------------------------
(* The clients, between frames or inside a callback *)

Client == pc \in {"idle", "complete", "pipe", "timer"}

\* The schedules of q that are not dead, in their order.
Alive(q) ==
  LET upTo[k \in 0..Len(q)] ==
        IF k = 0 THEN <<>>
        ELSE IF desc[q[k]].dead THEN upTo[k - 1] ELSE Append(upTo[k - 1], q[k])
  IN  upTo[Len(q)]

Known == ToSet(list) \cup ToSet(adds)

\* event() and timing(): an identity is used once.
Add(e, timing, d) ==
  /\ Client
  /\ e \notin Known /\ ~desc[e].dead
  /\ desc' = [desc EXCEPT ![e].timing = timing, ![e].delay = IF timing THEN 0 ELSE d]
  /\ adds' = Append(adds, e)
  /\ UNCHANGED <<list, freezeAll, updateVars, wipe, observed>>

\* Mutant: the schedule is told its removal and stays alive.
RemoveSchedule_Alive(e) ==
  /\ Client
  /\ e \in Known /\ ~desc[e].dead
  /\ Stop(e)
  /\ UNCHANGED <<desc, list, adds, freezeAll, updateVars, wipe, undead, survivors, piped>>

\* remove() of a schedule that is found and not dead; any other returns false.
RemoveSchedule(e) ==
  /\ Client
  /\ e \in Known /\ ~desc[e].dead
  /\ desc' = [desc EXCEPT ![e].dead = TRUE]
  /\ Stop(e)
  /\ piped' = piped \cup (IF pc = "pipe" /\ list[pos] = e THEN {e} ELSE {})
  /\ UNCHANGED <<list, adds, freezeAll, updateVars, wipe, undead, survivors>>

Refresh(e) ==
  /\ Client
  /\ e \in Known
  /\ desc' = [desc EXCEPT ![e].time = 0, ![e].invalid = TRUE]
  /\ UNCHANGED <<list, adds, freezeAll, updateVars, wipe, observed>>

Freeze(e) ==
  /\ Client
  /\ e \in Known
  /\ desc' = [desc EXCEPT ![e].freeze = ~@]
  /\ UNCHANGED <<list, adds, freezeAll, updateVars, wipe, observed>>

FreezeAll ==
  /\ Client
  /\ freezeAll' = ~freezeAll
  /\ UNCHANGED <<desc, list, adds, updateVars, wipe, observed>>

\* removeAll(): the schedules of m_schedules are removed one by one, ...
RemoveAll ==
  /\ Client
  /\ wipe.at = "none"
  /\ wipe' = [at |-> "list", pos |-> 1, copy |-> <<>>]
  /\ UNCHANGED <<desc, list, adds, freezeAll, updateVars, observed>>

WipeList ==
  /\ wipe.at = "list"
  /\ wipe.pos <= Len(list)
  /\ LET e == list[wipe.pos]
     IN  IF desc[e].dead
         THEN UNCHANGED <<desc, told, stopped, piped>>
         ELSE /\ desc' = [desc EXCEPT ![e].dead = TRUE]
              /\ Stop(e)
              /\ piped' = piped \cup (IF pc = "pipe" /\ list[pos] = e THEN {e} ELSE {})
  /\ wipe' = [wipe EXCEPT !.pos = @ + 1]
  /\ UNCHANGED <<list, adds, freezeAll, updateVars, undead, survivors>>

\* ... then those of a copy of m_schedulesAdd, which leaves the originals alive.
WipeCopy ==
  /\ wipe.at = "list"
  /\ wipe.pos > Len(list)
  /\ wipe' = [at |-> "copy", pos |-> 1, copy |-> Alive(adds)]
  /\ UNCHANGED <<desc, list, adds, freezeAll, updateVars, observed>>

WipeAdds ==
  /\ wipe.at = "copy"
  /\ IF wipe.pos <= Len(wipe.copy)
     THEN /\ Stop(wipe.copy[wipe.pos])
          /\ survivors' = survivors \cup {wipe.copy[wipe.pos]}
          /\ wipe' = [wipe EXCEPT !.pos = @ + 1]
     ELSE /\ wipe' = NoWipe
          /\ UNCHANGED <<told, stopped, survivors>>
  /\ UNCHANGED <<desc, list, adds, freezeAll, updateVars, undead, piped>>

------------------------------------------------------------------------------
(* update() *)

\* Mutants: what was added stays in m_schedulesAdd, or is dropped.
BeginUpdate_Keeps ==
  /\ pc = "idle" /\ wipe.at = "none"
  /\ ~freezeAll
  /\ total' \in Frames
  /\ list' = Alive(list \o adds)
  /\ pc' = "next" /\ pos' = 1
  /\ UNCHANGED <<desc, adds, freezeAll, old, acc, offset, wipe, observed>>

BeginUpdate_Drops ==
  /\ pc = "idle" /\ wipe.at = "none"
  /\ ~freezeAll
  /\ total' \in Frames
  /\ list' = Alive(list)
  /\ adds' = <<>>
  /\ pc' = "next" /\ pos' = 1
  /\ UNCHANGED <<desc, freezeAll, old, acc, offset, wipe, observed>>

\* A frame: what was added joins the list, what is dead leaves it and is erased.
BeginUpdate ==
  /\ pc = "idle" /\ wipe.at = "none"
  /\ ~freezeAll
  /\ total' \in Frames
  /\ list' = Alive(list \o adds)
  /\ adds' = <<>>
  /\ desc' = [e \in Schedule |-> IF desc[e].dead THEN [Fresh EXCEPT !.dead = TRUE] ELSE desc[e]]
  /\ pc' = "next" /\ pos' = 1
  /\ UNCHANGED <<freezeAll, old, acc, offset, wipe, observed>>

At(e) == pc = "next" /\ pos <= Len(list) /\ e = list[pos]
Current == list[pos]
GoOn == pc' = "next" /\ pos' = pos + 1 /\ old' = 0 /\ acc' = 0 /\ offset' = 0 /\ UNCHANGED total

UpdatePass(e) ==
  /\ At(e)
  /\ desc[e].dead \/ desc[e].freeze
  /\ GoOn
  /\ UNCHANGED <<desc, list, adds, freezeAll, wipe, observed>>

EventWaits(e) ==
  /\ At(e)
  /\ ~desc[e].dead /\ ~desc[e].freeze /\ ~desc[e].timing
  /\ desc[e].time + total < desc[e].delay
  /\ desc' = [desc EXCEPT ![e].time = @ + total]
  /\ GoOn
  /\ UNCHANGED <<list, adds, freezeAll, wipe, observed>>

\* Mutant: the event is not dead when it has completed.
EventCompletes_Alive(e) ==
  /\ At(e)
  /\ ~desc[e].dead /\ ~desc[e].freeze /\ ~desc[e].timing
  /\ desc[e].time + total >= desc[e].delay
  /\ desc' = [desc EXCEPT ![e].time = @ + total]
  /\ Tell(e) /\ Call(e)
  /\ offset' = desc[e].delay - desc[e].time
  /\ pc' = "complete"
  /\ UNCHANGED <<list, adds, freezeAll, pos, total, old, acc, wipe, stopped, survivors, piped>>

EventCompletes(e) ==
  /\ At(e)
  /\ ~desc[e].dead /\ ~desc[e].freeze /\ ~desc[e].timing
  /\ desc[e].time + total >= desc[e].delay
  /\ desc' = [desc EXCEPT ![e].time = @ + total, ![e].dead = TRUE]
  /\ Tell(e) /\ Call(e)
  /\ offset' = desc[e].delay - desc[e].time
  /\ pc' = "complete"
  /\ UNCHANGED <<list, adds, freezeAll, pos, total, old, acc, wipe, stopped, survivors, piped>>

TimingBegins(e) ==
  /\ At(e)
  /\ ~desc[e].dead /\ ~desc[e].freeze /\ desc[e].timing
  /\ desc' = [desc EXCEPT ![e].time = @ + total]
  /\ pc' = "timing" /\ old' = desc[e].time /\ acc' = 0
  /\ UNCHANGED <<list, adds, freezeAll, pos, total, offset, wipe, observed>>

\* The loop of a timing asks its pipe for the next delay, ...
TimingAsks ==
  /\ pc = "timing"
  /\ desc[Current].invalid
  /\ Call(Current)
  /\ pc' = "pipe"
  /\ UNCHANGED <<desc, list, adds, freezeAll, pos, total, old, acc, offset, wipe,
                 told, stopped, survivors, piped>>

PipeReturns ==
  /\ pc = "pipe" /\ wipe.at = "none"
  /\ \E d \in Delays : desc' = [desc EXCEPT ![Current].delay = d, ![Current].invalid = FALSE]
  /\ pc' = "timing"
  /\ UNCHANGED <<list, adds, freezeAll, pos, total, old, acc, offset, wipe, observed>>

\* ... which ends it by a negative one, ...
PipeEnds ==
  /\ pc = "pipe" /\ wipe.at = "none"
  /\ desc' = [desc EXCEPT ![Current].dead = TRUE]
  /\ IF desc[Current].dead
     THEN /\ GoOn
          /\ UNCHANGED <<told, undead>>
     ELSE /\ Tell(Current) /\ Call(Current)
          /\ pc' = "complete"
          /\ UNCHANGED <<pos, total, old, acc, offset>>
  /\ UNCHANGED <<list, adds, freezeAll, wipe, stopped, survivors, piped>>

\* ... passes on when the delay has not passed yet, ...
TimingWaits ==
  /\ pc = "timing"
  /\ ~desc[Current].invalid
  /\ desc[Current].time < desc[Current].delay
  /\ GoOn
  /\ UNCHANGED <<desc, list, adds, freezeAll, wipe, observed>>

\* ... and calls its timer else, through a null pointer when the pipe removed the schedule.
TimingFires ==
  /\ pc = "timing"
  /\ ~desc[Current].invalid
  /\ desc[Current].time >= desc[Current].delay
  /\ acc' = acc + desc[Current].delay
  /\ offset' = acc' - old
  /\ desc' = [desc EXCEPT ![Current].time = @ - desc[Current].delay, ![Current].invalid = TRUE]
  /\ IF desc[Current].dead
     THEN pc' = "crash" /\ UNCHANGED undead
     ELSE pc' = "timer" /\ Call(Current)
  /\ UNCHANGED <<list, adds, freezeAll, pos, total, old, wipe, told, stopped, survivors, piped>>

TimerReturns ==
  /\ pc = "timer" /\ wipe.at = "none"
  /\ IF desc[Current].dead
     THEN GoOn
     ELSE pc' = "timing" /\ offset' = 0 /\ UNCHANGED <<pos, total, old, acc>>
  /\ UNCHANGED <<desc, list, adds, freezeAll, wipe, observed>>

CompleteReturns ==
  /\ pc = "complete" /\ wipe.at = "none"
  /\ GoOn
  /\ UNCHANGED <<desc, list, adds, freezeAll, wipe, observed>>

EndUpdate ==
  /\ pc = "next"
  /\ pos > Len(list)
  /\ pc' = "idle" /\ pos' = 0 /\ total' = 0
  /\ UNCHANGED <<desc, list, adds, freezeAll, old, acc, offset, wipe, observed>>

------------------------------------------------------------------------------

Clients == \/ \E e \in Schedule : \/ \E timing \in BOOLEAN, d \in Delays : Add(e, timing, d)
                                  \/ RemoveSchedule(e) \/ Refresh(e) \/ Freeze(e)
           \/ FreezeAll \/ RemoveAll

Wipe == WipeList \/ WipeCopy \/ WipeAdds

Update == \/ \E e \in Schedule : \/ UpdatePass(e) \/ EventWaits(e) \/ EventCompletes(e)
                                 \/ TimingBegins(e)
          \/ TimingAsks \/ PipeReturns \/ PipeEnds \/ TimingWaits \/ TimingFires
          \/ TimerReturns \/ CompleteReturns \/ EndUpdate

Next == Clients \/ Wipe \/ BeginUpdate \/ Update

Spec == Init /\ [][Next]_vars

\* The frame loop always reaches the next frame and every callback returns,
\* whatever it calls before.
FairSpec == Spec /\ WF_vars(Wipe) /\ SF_vars(BeginUpdate) /\ SF_vars(Update)

------------------------------------------------------------------------------
(* Properties *)

\* A schedule is told its end once, by its completion or by its removal.  The
\* exception are those removeAll() finds in m_schedulesAdd: it marks copies of
\* them, so that they are told again when they fire or are removed once more.
ToldOnce == \A e \in Schedule : told[e] > 1 => e \in survivors

\* No callback of a schedule comes after its removal, with the same exception:
\* scene changes call removeAll() and destroy what the callbacks use.  Nor is a timer
\* called through the pointer its removal reset, unless the schedule was removed
\* inside its own onSchedulePipe.
StoppedIsQuiet ==
  /\ undead \subseteq survivors
  /\ pc = "crash" => list[pos] \in piped

\* An event that was added is told its end, unless it is frozen or somebody keeps
\* refreshing it.
EventEnds ==
  \A e \in Schedule :
    \/ e \in ToSet(adds) /\ ~desc[e].timing ~>
         told[e] > 0 \/ desc[e].freeze \/ freezeAll \/ pc = "crash"
    \/ []<><<Refresh(e)>>_vars

==============================================================================
