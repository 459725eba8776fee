---------------------------- MODULE Scheduler_proofs ----------------------------
(***************************************************************************)
(* Proofs about Scheduler, for any set of schedules, any delays and any    *)
(* frames: a schedule is told its end once and is quiet afterwards, but    *)
(* for those removeAll() finds in m_schedulesAdd.                          *)
(***************************************************************************)
EXTENDS Scheduler, WellFoundedInduction, TLAPS

\* The types the rest depends on.
DescType ==
  /\ desc \in [Schedule -> Desc]
  /\ told \in [Schedule -> 0..2]
  /\ total \in Nat
  /\ wipe = [at |-> wipe.at, pos |-> wipe.pos, copy |-> wipe.copy]

\* A schedule that was told its end is dead, so that nothing tells it again.
EndInv ==
  \A e \in Schedule \ survivors :
    /\ told[e] = 0 \/ (told[e] = 1 /\ desc[e].dead)
    /\ e \in stopped => desc[e].dead

\* While update() is inside a schedule, that one dies only in its own pipe, and then
\* its pipe is not asked again; and removeAll() is over whenever update() goes on.
PlaceInv ==
  /\ pc \in {"complete", "timing", "pipe", "timer", "crash"} => Current \in Schedule
  /\ pc \in {"next", "timing", "crash"} => wipe.at = "none"
  /\ pc = "pipe" /\ desc[Current].dead => Current \in piped
  /\ pc = "timing" /\ desc[Current].dead => Current \in piped /\ ~desc[Current].invalid
  /\ pc = "crash" => Current \in piped

QuietInv == undead \subseteq survivors

IInv == DescType /\ EndInv /\ PlaceInv /\ QuietInv

------------------------------------------------------------------------------

\* Nothing was told at first.
LEMMA InitInv == Init => IInv
BY DEF Init, IInv, DescType, EndInv, PlaceInv, QuietInv, Desc, Fresh, NoWipe

\* A call of a schedule that is not dead is no call after its stop.
LEMMA CallQuiet ==
  ASSUME IInv, NEW e \in Schedule, ~desc[e].dead, Call(e)
  PROVE  undead' \subseteq survivors
BY DEF IInv, EndInv, QuietInv, Call

\* Telling a schedule its end changes what it was told, and a first time counts one.
LEMMA TellStep ==
  ASSUME IInv, NEW s, Tell(s)
  PROVE  /\ told' \in [Schedule -> 0..2]
         /\ \A e \in Schedule : e # s => told'[e] = told[e]
         /\ s \in Schedule /\ told[s] = 0 => told'[s] = 1
<1>1. told \in [Schedule -> 0..2] /\ told' = [told EXCEPT ![s] = IF told[s] = 0 THEN 1 ELSE 2]
  BY DEF IInv, DescType, Tell
<1>2. (IF told[s] = 0 THEN 1 ELSE 2) \in 0..2
  OBVIOUS
<1> QED
  BY <1>1, <1>2

\* What clients call between frames and inside the callbacks keeps it.
LEMMA ClientsStep == IInv /\ Clients => IInv'
<1> SUFFICES ASSUME IInv, Clients PROVE IInv'
  OBVIOUS
<1>1. DescType /\ EndInv /\ PlaceInv /\ QuietInv
  BY DEF IInv
<1>2. ASSUME NEW e \in Schedule, NEW timing \in BOOLEAN, NEW d \in Delays, Add(e, timing, d)
      PROVE  IInv'
  <2>1. desc' = [desc EXCEPT ![e].timing = timing, ![e].delay = IF timing THEN 0 ELSE d]
    BY <1>2 DEF Add
  <2>2. (IF timing THEN 0 ELSE d) \in Nat
    BY SchedulerAssumption
  <2>3. /\ desc' \in [Schedule -> Desc]
        /\ \A f \in Schedule : desc'[f].dead = desc[f].dead /\ desc'[f].invalid = desc[f].invalid
    BY <1>1, <2>1, <2>2 DEF DescType, Desc
  <2> QED
    BY <1>1, <1>2, <2>3
    DEF Add, IInv, DescType, EndInv, PlaceInv, QuietInv, Current, updateVars, observed
<1>3. ASSUME NEW e \in Schedule, RemoveSchedule(e) PROVE IInv'
  <2>1. /\ ~desc[e].dead /\ pc \in {"idle", "complete", "pipe", "timer"}
        /\ desc' = [desc EXCEPT ![e].dead = TRUE]
        /\ Tell(e) /\ stopped' = stopped \cup {e}
        /\ piped' = piped \cup (IF pc = "pipe" /\ list[pos] = e THEN {e} ELSE {})
        /\ UNCHANGED <<list, updateVars, wipe, undead, survivors>>
    BY <1>3 DEF RemoveSchedule, Stop, Client
  <2>2. /\ desc' \in [Schedule -> Desc] /\ desc'[e].dead
        /\ \A f \in Schedule : f # e => desc'[f] = desc[f]
    BY <1>1, <2>1 DEF DescType, Desc
  <2>3. /\ told' \in [Schedule -> 0..2]
        /\ \A f \in Schedule : f # e => told'[f] = told[f]
        /\ told[e] = 0 => told'[e] = 1
    BY <2>1, TellStep
  <2>4. EndInv'
    BY <1>1, <2>1, <2>2, <2>3 DEF EndInv
  <2>5. PlaceInv'
    BY <1>1, <2>1, <2>2 DEF PlaceInv, Current, updateVars
  <2> QED
    BY <1>1, <2>1, <2>2, <2>3, <2>4, <2>5 DEF IInv, DescType, QuietInv, updateVars
<1>4. ASSUME NEW e \in Schedule, Refresh(e) \/ Freeze(e) PROVE IInv'
  <2>1. pc \in {"idle", "complete", "pipe", "timer"}
    BY <1>4 DEF Refresh, Freeze, Client
  <2>2. /\ desc' \in [Schedule -> Desc]
        /\ \A f \in Schedule : desc'[f].dead = desc[f].dead
    <3>1. CASE desc' = [desc EXCEPT ![e].time = 0, ![e].invalid = TRUE]
      <4> DEFINE early == [desc[e] EXCEPT !.time = 0]
                 again == [early EXCEPT !.invalid = TRUE]
      <4>1. desc' = [desc EXCEPT ![e] = again] /\ desc[e] \in Desc
        BY <1>1, <3>1 DEF DescType
      <4>2. early \in Desc /\ early.dead = desc[e].dead
        BY <4>1 DEF Desc
      <4> HIDE DEF early
      <4>3. again \in Desc
        BY <4>2 DEF Desc
      <4>4. again.dead = early.dead
        BY <4>2 DEF Desc
      <4> HIDE DEF again
      <4> QED
        BY <1>1, <4>1, <4>2, <4>3, <4>4 DEF DescType
    <3>2. CASE desc' = [desc EXCEPT ![e].freeze = ~@]
      <4> DEFINE frozen == ~desc[e].freeze
      <4>1. frozen \in BOOLEAN /\ desc' = [desc EXCEPT ![e] = [desc[e] EXCEPT !.freeze = frozen]]
        BY <3>2
      <4>2. desc[e] \in Desc
        BY <1>1 DEF DescType
      <4> HIDE DEF frozen
      <4>3. /\ [desc[e] EXCEPT !.freeze = frozen] \in Desc
            /\ [desc[e] EXCEPT !.freeze = frozen].dead = desc[e].dead
        BY <4>1, <4>2 DEF Desc
      <4> QED
        BY <1>1, <4>1, <4>3 DEF DescType
    <3> QED
      BY <1>4, <3>1, <3>2 DEF Refresh, Freeze
  <2> QED
    BY <1>1, <1>4, <2>1, <2>2
    DEF Refresh, Freeze, IInv, DescType, EndInv, PlaceInv, QuietInv, Current, updateVars, observed
<1>5. CASE FreezeAll
  BY <1>1, <1>5
  DEF FreezeAll, IInv, DescType, EndInv, PlaceInv, QuietInv, Current, updateVars, observed
<1>6. CASE RemoveAll
  BY <1>1, <1>6
  DEF RemoveAll, Client, IInv, DescType, EndInv, PlaceInv, QuietInv, Current, updateVars, observed
<1> QED
  BY <1>2, <1>3, <1>4, <1>5, <1>6 DEF Clients

\* removeAll() keeps it.
LEMMA WipeStep == IInv /\ Wipe => IInv'
<1> SUFFICES ASSUME IInv, Wipe PROVE IInv'
  OBVIOUS
<1>1. DescType /\ EndInv /\ PlaceInv /\ QuietInv
  BY DEF IInv
<1>2. CASE WipeList
  <2> DEFINE e == list[wipe.pos]
  <2>1. /\ wipe.at = "list" /\ wipe' = [wipe EXCEPT !.pos = @ + 1]
        /\ UNCHANGED <<list, updateVars, undead, survivors>>
    BY <1>2 DEF WipeList
  <2>2. wipe'.at = "list" /\ wipe' = [at |-> wipe'.at, pos |-> wipe'.pos, copy |-> wipe'.copy]
    BY <1>1, <2>1 DEF DescType
  <2>3. CASE desc[e].dead
    BY <1>1, <1>2, <2>1, <2>2, <2>3
    DEF WipeList, IInv, DescType, EndInv, PlaceInv, QuietInv, Current, updateVars
  <2>4. CASE ~desc[e].dead
    <3>1. /\ desc' = [desc EXCEPT ![e].dead = TRUE]
          /\ Tell(e) /\ stopped' = stopped \cup {e}
          /\ piped' = piped \cup (IF pc = "pipe" /\ list[pos] = e THEN {e} ELSE {})
      BY <1>2, <2>4 DEF WipeList, Stop
    <3>2. /\ desc' \in [Schedule -> Desc]
          /\ e \in Schedule => desc'[e].dead
          /\ \A f \in Schedule : f # e => desc'[f] = desc[f]
      BY <1>1, <3>1 DEF DescType, Desc
    <3>3. /\ told' \in [Schedule -> 0..2]
          /\ \A f \in Schedule : f # e => told'[f] = told[f]
          /\ e \in Schedule /\ told[e] = 0 => told'[e] = 1
      BY <3>1, TellStep
    <3> HIDE DEF e
    <3>4. EndInv'
      BY <1>1, <2>1, <2>4, <3>1, <3>2, <3>3 DEF EndInv
    <3>5. PlaceInv'
      BY <1>1, <2>1, <2>2, <3>1, <3>2 DEF PlaceInv, Current, updateVars
    <3> QED
      BY <1>1, <2>1, <2>2, <3>2, <3>3, <3>4, <3>5 DEF IInv, DescType, QuietInv, updateVars
  <2> QED
    BY <2>3, <2>4
<1>3. CASE WipeCopy
  BY <1>1, <1>3
  DEF WipeCopy, IInv, DescType, EndInv, PlaceInv, QuietInv, Current, updateVars, observed
<1>4. CASE WipeAdds
  <2> DEFINE e == wipe.copy[wipe.pos]
  <2>1. wipe.at = "copy" /\ UNCHANGED <<desc, list, updateVars, undead, piped>>
    BY <1>4 DEF WipeAdds
  <2>2. CASE Stop(e) /\ survivors' = survivors \cup {e} /\ wipe' = [wipe EXCEPT !.pos = @ + 1]
    <3>1. wipe'.at = "copy" /\ wipe' = [at |-> wipe'.at, pos |-> wipe'.pos, copy |-> wipe'.copy]
      BY <1>1, <2>1, <2>2 DEF DescType
    <3>2. /\ told' \in [Schedule -> 0..2]
          /\ \A f \in Schedule : f # e => told'[f] = told[f]
          /\ stopped' = stopped \cup {e}
      BY <2>2, TellStep DEF Stop
    <3> HIDE DEF e
    <3> QED
      BY <1>1, <2>1, <2>2, <3>1, <3>2
      DEF IInv, DescType, EndInv, PlaceInv, QuietInv, Current, updateVars
  <2>3. CASE wipe' = NoWipe /\ UNCHANGED <<told, stopped, survivors>>
    BY <1>1, <2>1, <2>3
    DEF NoWipe, IInv, DescType, EndInv, PlaceInv, QuietInv, Current, updateVars
  <2> QED
    BY <1>4, <2>2, <2>3 DEF WipeAdds
<1> QED
  BY <1>2, <1>3, <1>4 DEF Wipe

\* A frame that begins keeps it: what is erased stays dead.
LEMMA BeginStep == IInv /\ BeginUpdate => IInv'
<1> SUFFICES ASSUME IInv, BeginUpdate PROVE IInv'
  OBVIOUS
<1>1. DescType /\ EndInv /\ PlaceInv /\ QuietInv
  BY DEF IInv
<1>2. /\ total' \in Nat /\ pc' = "next" /\ wipe.at = "none"
      /\ desc' = [e \in Schedule |-> IF desc[e].dead THEN [Fresh EXCEPT !.dead = TRUE] ELSE desc[e]]
      /\ UNCHANGED <<wipe, observed>>
  BY SchedulerAssumption DEF BeginUpdate
<1>3. desc' \in [Schedule -> Desc] /\ \A e \in Schedule : desc'[e].dead = desc[e].dead
  <2>1. [Fresh EXCEPT !.dead = TRUE] \in Desc /\ [Fresh EXCEPT !.dead = TRUE].dead = TRUE
    <3>1. Fresh \in Desc
      BY DEF Desc, Fresh
    <3>2. ASSUME NEW d \in Desc PROVE [d EXCEPT !.dead = TRUE] \in Desc
      BY DEF Desc
    <3>3. ASSUME NEW d \in Desc PROVE [d EXCEPT !.dead = TRUE].dead = TRUE
      BY DEF Desc
    <3> QED
      BY <3>1, <3>2, <3>3
  <2>2. \A e \in Schedule : desc[e] \in Desc /\ desc[e].dead \in BOOLEAN
    BY <1>1 DEF DescType, Desc
  <2> QED
    BY <1>2, <2>1, <2>2
<1> QED
  BY <1>1, <1>2, <1>3 DEF IInv, DescType, EndInv, PlaceInv, QuietInv, observed

\* So does every step of a frame.
LEMMA UpdateStep == IInv /\ Update => IInv'
<1> SUFFICES ASSUME IInv, Update PROVE IInv'
  OBVIOUS
<1>1. DescType /\ EndInv /\ PlaceInv /\ QuietInv
  BY DEF IInv
<1>2. ASSUME NEW e \in Schedule, UpdatePass(e) PROVE IInv'
  BY <1>1, <1>2 DEF UpdatePass, At, GoOn, IInv, DescType, EndInv, PlaceInv, QuietInv, observed
<1>3. ASSUME NEW e \in Schedule, EventWaits(e) PROVE IInv'
  <2>1. desc' = [desc EXCEPT ![e].time = @ + total] /\ GoOn /\ UNCHANGED <<wipe, observed>> /\ pc = "next"
    BY <1>3 DEF EventWaits, At
  <2>2. desc' \in [Schedule -> Desc] /\ \A f \in Schedule : desc'[f].dead = desc[f].dead
    BY <1>1, <2>1 DEF DescType, Desc
  <2> QED
    BY <1>1, <2>1, <2>2 DEF GoOn, IInv, DescType, EndInv, PlaceInv, QuietInv, observed
<1>4. ASSUME NEW e \in Schedule, EventCompletes(e) PROVE IInv'
  <2>1. /\ At(e) /\ ~desc[e].dead /\ Tell(e) /\ Call(e) /\ pc' = "complete"
        /\ desc' = [desc EXCEPT ![e].time = @ + total, ![e].dead = TRUE]
        /\ UNCHANGED <<list, pos, total, wipe, stopped, survivors, piped>>
    BY <1>4 DEF EventCompletes
  <2>2. /\ desc' \in [Schedule -> Desc] /\ desc'[e].dead
        /\ \A f \in Schedule : f # e => desc'[f] = desc[f]
    BY <1>1, <2>1 DEF DescType, Desc
  <2>3. /\ told' \in [Schedule -> 0..2]
        /\ \A f \in Schedule : f # e => told'[f] = told[f]
        /\ told[e] = 0 => told'[e] = 1
    BY <2>1, TellStep
  <2>4. QuietInv'
    BY <2>1, CallQuiet DEF QuietInv
  <2>5. EndInv'
    BY <1>1, <2>1, <2>2, <2>3 DEF EndInv
  <2> QED
    BY <1>1, <2>1, <2>2, <2>3, <2>4, <2>5 DEF At, IInv, DescType, PlaceInv, Current
<1>5. ASSUME NEW e \in Schedule, TimingBegins(e) PROVE IInv'
  <2>1. /\ At(e) /\ ~desc[e].dead /\ pc' = "timing"
        /\ desc' = [desc EXCEPT ![e].time = @ + total]
        /\ UNCHANGED <<list, pos, total, wipe, observed>>
    BY <1>5 DEF TimingBegins
  <2>2. desc' \in [Schedule -> Desc] /\ \A f \in Schedule : desc'[f].dead = desc[f].dead
    BY <1>1, <2>1 DEF DescType, Desc
  <2> QED
    BY <1>1, <2>1, <2>2 DEF At, IInv, DescType, EndInv, PlaceInv, QuietInv, Current, observed
<1>6. CASE TimingAsks
  <2>1. /\ pc = "timing" /\ desc[Current].invalid /\ Call(Current) /\ pc' = "pipe"
        /\ UNCHANGED <<desc, list, pos, total, wipe, told, stopped, survivors, piped>>
    BY <1>6 DEF TimingAsks
  <2>2. Current \in Schedule /\ ~desc[Current].dead
    BY <1>1, <2>1 DEF PlaceInv
  <2>3. QuietInv'
    BY <2>1, <2>2, CallQuiet DEF QuietInv
  <2> QED
    BY <1>1, <2>1, <2>2, <2>3 DEF IInv, DescType, EndInv, PlaceInv, Current
<1>7. CASE PipeReturns
  <2>1. PICK d \in Delays : desc' = [desc EXCEPT ![Current].delay = d, ![Current].invalid = FALSE]
    BY <1>7 DEF PipeReturns
  <2>2. /\ pc = "pipe" /\ wipe.at = "none" /\ pc' = "timing"
        /\ UNCHANGED <<list, pos, total, wipe, observed>>
    BY <1>7 DEF PipeReturns
  <2>3. d \in Nat /\ Current \in Schedule
    BY <1>1, <2>2, SchedulerAssumption DEF PlaceInv
  <2>4. /\ desc' \in [Schedule -> Desc] /\ ~desc'[Current].invalid
        /\ \A f \in Schedule : desc'[f].dead = desc[f].dead
    BY <1>1, <2>1, <2>3 DEF DescType, Desc
  <2> QED
    BY <1>1, <2>2, <2>3, <2>4 DEF IInv, DescType, EndInv, PlaceInv, QuietInv, Current, observed
<1>8. CASE PipeEnds
  <2>1. /\ pc = "pipe" /\ wipe.at = "none" /\ Current \in Schedule
        /\ desc' = [desc EXCEPT ![Current].dead = TRUE]
        /\ UNCHANGED <<list, wipe, stopped, survivors, piped>>
    BY <1>1, <1>8 DEF PipeEnds, PlaceInv
  <2>2. /\ desc' \in [Schedule -> Desc] /\ desc'[Current].dead
        /\ \A f \in Schedule : f # Current => desc'[f] = desc[f]
    BY <1>1, <2>1 DEF DescType, Desc
  <2>3. CASE desc[Current].dead
    <3>1. GoOn /\ UNCHANGED <<told, undead>>
      BY <1>8, <2>3 DEF PipeEnds
    <3>2. EndInv'
      BY <1>1, <2>1, <2>2, <2>3, <3>1 DEF EndInv
    <3> QED
      BY <1>1, <2>1, <2>2, <3>1, <3>2 DEF GoOn, IInv, DescType, PlaceInv, QuietInv
  <2>4. CASE ~desc[Current].dead
    <3>1. Tell(Current) /\ Call(Current) /\ pc' = "complete" /\ UNCHANGED <<pos, total>>
      BY <1>8, <2>4 DEF PipeEnds
    <3>2. /\ told' \in [Schedule -> 0..2]
          /\ \A f \in Schedule : f # Current => told'[f] = told[f]
          /\ told[Current] = 0 => told'[Current] = 1
      BY <2>1, <3>1, TellStep
    <3>3. QuietInv'
      BY <2>1, <2>4, <3>1, CallQuiet DEF QuietInv
    <3>4. EndInv'
      BY <1>1, <2>1, <2>2, <2>4, <3>2 DEF EndInv
    <3> QED
      BY <1>1, <2>1, <2>2, <3>1, <3>2, <3>3, <3>4 DEF IInv, DescType, PlaceInv, Current
  <2> QED
    BY <2>3, <2>4
<1>9. CASE TimingWaits
  BY <1>1, <1>9 DEF TimingWaits, GoOn, IInv, DescType, EndInv, PlaceInv, QuietInv, observed
<1>10. CASE TimingFires
  <2>1. /\ pc = "timing" /\ Current \in Schedule
        /\ desc' = [desc EXCEPT ![Current].time = @ - desc[Current].delay, ![Current].invalid = TRUE]
        /\ UNCHANGED <<list, pos, total, wipe, told, stopped, survivors, piped>>
    BY <1>1, <1>10 DEF TimingFires, PlaceInv
  <2>2. desc' \in [Schedule -> Desc] /\ \A f \in Schedule : desc'[f].dead = desc[f].dead
    <3> DEFINE c == Current
    <3>1. c \in Schedule /\ desc \in [Schedule -> Desc]
      BY <1>1, <2>1 DEF DescType
    <3>2. desc' = [desc EXCEPT ![c] = [desc[c] EXCEPT !.time = desc[c].time - desc[c].delay, !.invalid = TRUE]]
      BY <2>1
    <3> HIDE DEF c
    <3>3. desc[c].time - desc[c].delay \in Int /\ desc[c] \in Desc
      BY <3>1 DEF Desc
    <3>4. /\ [desc[c] EXCEPT !.time = desc[c].time - desc[c].delay, !.invalid = TRUE] \in Desc
          /\ [desc[c] EXCEPT !.time = desc[c].time - desc[c].delay, !.invalid = TRUE].dead = desc[c].dead
      BY <3>3 DEF Desc
    <3> QED
      BY <3>1, <3>2, <3>4
  <2>3. CASE desc[Current].dead
    BY <1>1, <1>10, <2>1, <2>2, <2>3
    DEF TimingFires, IInv, DescType, EndInv, PlaceInv, QuietInv, Current
  <2>4. CASE ~desc[Current].dead
    <3>1. pc' = "timer" /\ Call(Current)
      BY <1>10, <2>4 DEF TimingFires
    <3>2. QuietInv'
      BY <2>1, <2>4, <3>1, CallQuiet DEF QuietInv
    <3> QED
      BY <1>1, <2>1, <2>2, <3>1, <3>2 DEF IInv, DescType, EndInv, PlaceInv, Current
  <2> QED
    BY <2>3, <2>4
<1>11. CASE TimerReturns
  BY <1>1, <1>11
  DEF TimerReturns, GoOn, IInv, DescType, EndInv, PlaceInv, QuietInv, Current, observed
<1>12. CASE CompleteReturns
  BY <1>1, <1>12 DEF CompleteReturns, GoOn, IInv, DescType, EndInv, PlaceInv, QuietInv, observed
<1>13. CASE EndUpdate
  BY <1>1, <1>13 DEF EndUpdate, IInv, DescType, EndInv, PlaceInv, QuietInv, observed
<1> QED
  BY <1>2, <1>3, <1>4, <1>5, <1>6, <1>7, <1>8, <1>9, <1>10, <1>11, <1>12, <1>13 DEF Update

------------------------------------------------------------------------------
(* The schedules that are not dead *)

\* Every set of numbers that is not empty has a smallest one.
LEMMA Smallest ==
  ASSUME NEW T \in SUBSET Nat, T # {}
  PROVE  \E x \in T : \A y \in T : x <= y
<1> DEFINE R == {ss \in Nat \X Nat : ss[1] < ss[2]}
<1>1. IsWellFoundedOn(R, Nat)
  BY NatLessThanWellFounded DEF OpToRel
<1>2. \E x \in T : \A y \in T : <<y, x>> \notin R
  <2> HIDE DEF R
  <2> QED
    BY <1>1, WFMin
<1>3. PICK x \in T : \A y \in T : <<y, x>> \notin R
  BY <1>2
<1>4. ASSUME NEW y \in T PROVE x <= y
  <2>1. x \in Nat /\ y \in Nat /\ <<y, x>> \in Nat \X Nat
    OBVIOUS
  <2>2. ~(<<y, x>>[1] < <<y, x>>[2])
    BY <1>3, <2>1
  <2> QED
    BY <2>1, <2>2
<1> QED
  BY <1>4

\* An element that is not in a sequence is once in it when it is appended.
LEMMA AppendedOnce ==
  ASSUME NEW q \in Seq(Schedule), IsInjective(q), NEW e \in Schedule, e \notin ToSet(q)
  PROVE  IsInjective(Append(q, e))
<1> DEFINE r == Append(q, e)
<1>1. /\ r \in Seq(Schedule) /\ Len(r) = Len(q) + 1 /\ Len(q) \in Nat
      /\ r[Len(q) + 1] = e /\ \A i \in 1..Len(q) : r[i] = q[i]
  OBVIOUS
<1> HIDE DEF r
<1>2. \A i, j \in 1..Len(q) : q[i] = q[j] => i = j
  <2>1. DOMAIN q = 1..Len(q)
    OBVIOUS
  <2> QED
    BY <2>1 DEF IsInjective
<1>3. \A i \in 1..Len(q) : q[i] # e
  BY DEF ToSet
<1>4. ASSUME NEW i \in 1..(Len(q) + 1), NEW j \in 1..(Len(q) + 1), r[i] = r[j]
      PROVE  i = j
  BY <1>1, <1>2, <1>3, <1>4
<1>5. DOMAIN r = 1..(Len(q) + 1)
  BY <1>1
<1>6. IsInjective(r)
  BY <1>4, <1>5 DEF IsInjective
<1> QED
  BY <1>6 DEF r

\* What has been kept of q when the first k of it were looked at.
Kept(q, upTo, k) ==
  IF k = 0 THEN <<>>
  ELSE IF desc[q[k]].dead THEN upTo[k - 1] ELSE Append(upTo[k - 1], q[k])

\* A function that says what has been kept at every moment up to n.
Keeps(q, upTo, n) == upTo = [k \in 0..n |-> Kept(q, upTo, k)]

\* There is one: the definition of Alive is a good one.
LEMMA KeepsExists ==
  ASSUME NEW q, NEW n \in Nat
  PROVE  \E upTo : Keeps(q, upTo, n)
<1> DEFINE T == {m \in Nat : ~\E upTo : Keeps(q, upTo, m)}
<1> SUFFICES ASSUME T # {} PROVE FALSE
  OBVIOUS
<1>1. PICK m \in T : \A y \in T : m <= y
  BY Smallest
<1>2. CASE m = 0
  <2> DEFINE f == [k \in 0..0 |-> <<>>]
  <2>1. f = [k \in 0..0 |-> Kept(q, f, k)]
    BY DEF Kept
  <2> QED
    BY <1>1, <1>2, <2>1 DEF Keeps
<1>3. CASE m # 0
  <2>1. m - 1 \in Nat /\ m - 1 \notin T
    BY <1>1, <1>3
  <2>2. PICK f : Keeps(q, f, m - 1)
    BY <2>1
  <2> DEFINE g == [k \in 0..m |-> IF k < m THEN f[k] ELSE Kept(q, f, m)]
  <2>3. ASSUME NEW k \in 0..m PROVE g[k] = Kept(q, g, k)
    <3>1. k # 0 => g[k - 1] = f[k - 1]
      BY <1>1
    <3>2. Kept(q, g, k) = Kept(q, f, k)
      BY <3>1 DEF Kept
    <3>3. CASE k = m
      <4>1. g[k] = Kept(q, f, k)
        BY <3>3
      <4> QED
        BY <3>2, <4>1
    <3>4. CASE k # m
      <4>1. k < m /\ k \in 0..(m - 1)
        BY <1>1, <3>4
      <4>2. g[k] = f[k]
        BY <4>1
      <4>3. f = [i \in 0..(m - 1) |-> Kept(q, f, i)]
        BY <2>2 DEF Keeps
      <4>4. f[k] = Kept(q, f, k)
        BY <4>1, <4>3
      <4> QED
        BY <3>2, <4>2, <4>4
    <3> QED
      BY <3>3, <3>4
  <2>4. Keeps(q, g, m)
    BY <2>3 DEF Keeps
  <2> QED
    BY <1>1, <2>4
<1> QED
  BY <1>2, <1>3

\* Those that are kept of a sequence are its elements that are not dead, in a
\* sequence that has each of them once if the first one has.
LEMMA AliveProperties ==
  ASSUME NEW q \in Seq(Schedule)
  PROVE  /\ Alive(q) \in Seq(Schedule)
         /\ ToSet(Alive(q)) = {e \in ToSet(q) : ~desc[e].dead}
         /\ IsInjective(q) => IsInjective(Alive(q))
<1> DEFINE upTo == CHOOSE f : Keeps(q, f, Len(q))
           Good(k) == /\ upTo[k] \in Seq(Schedule)
                      /\ ToSet(upTo[k]) = {e \in Schedule : (\E i \in 1..k : q[i] = e) /\ ~desc[e].dead}
                      /\ IsInjective(q) => IsInjective(upTo[k])
           T == {k \in 0..Len(q) : ~Good(k)}
<1>1. Keeps(q, upTo, Len(q))
  BY KeepsExists
<1>2. Alive(q) = upTo[Len(q)]
  BY DEF Alive, Keeps, Kept
<1> HIDE DEF upTo
<1>3. \A k \in 0..Len(q) : upTo[k] = Kept(q, upTo, k)
  BY <1>1 DEF Keeps
<1>4. T = {}
  <2> SUFFICES ASSUME T # {} PROVE FALSE
    OBVIOUS
  <2>1. PICK k \in T : \A y \in T : k <= y
    <3>1. T \in SUBSET Nat
      OBVIOUS
    <3> HIDE DEF T
    <3> QED
      BY <3>1, Smallest
  <2>2. k \in 0..Len(q) /\ ~Good(k)
    OBVIOUS
  <2>3. CASE k = 0
    <3>1. upTo[0] = <<>>
      BY <1>3, <2>2, <2>3 DEF Kept
    <3>2. ToSet(<<>>) = {} /\ IsInjective(<<>>)
      BY DEF ToSet, IsInjective
    <3> QED
      BY <2>2, <2>3, <3>1, <3>2
  <2>4. CASE k # 0
    <3>0. Len(q) \in Nat /\ k \in Nat /\ k <= Len(q)
      BY <2>2
    <3>1. k - 1 \in 0..Len(q) /\ k - 1 \notin T /\ k \in 1..Len(q)
      <4>1. k - 1 \in 0..Len(q) /\ k \in 1..Len(q) /\ ~(k <= k - 1)
        BY <3>0, <2>4
      <4> HIDE DEF T
      <4> QED
        BY <2>1, <4>1
    <3>2. Good(k - 1)
      BY <3>1
    <3> DEFINE u == upTo[k - 1]
    <3>3. q[k] \in Schedule
      BY <3>1
    <3>4. {e \in Schedule : (\E i \in 1..k : q[i] = e) /\ ~desc[e].dead}
            = {e \in Schedule : (\E i \in 1..(k - 1) : q[i] = e) /\ ~desc[e].dead}
                \cup {e \in {q[k]} : ~desc[e].dead}
      BY <3>1, <3>3
    <3>5. CASE desc[q[k]].dead
      <4>1. upTo[k] = u
        BY <1>3, <2>2, <2>4, <3>5 DEF Kept
      <4> QED
        BY <2>2, <3>2, <3>4, <3>5, <4>1
    <3>6. CASE ~desc[q[k]].dead
      <4>1. upTo[k] = Append(u, q[k])
        BY <1>3, <2>2, <2>4, <3>6 DEF Kept
      <4>2. u \in Seq(Schedule)
        BY <3>2
      <4> HIDE DEF u
      <4>3. /\ upTo[k] \in Seq(Schedule) /\ Len(upTo[k]) = Len(u) + 1
            /\ upTo[k][Len(u) + 1] = q[k] /\ \A i \in 1..Len(u) : upTo[k][i] = u[i]
        BY <3>3, <4>1, <4>2
      <4>4. ToSet(upTo[k]) = ToSet(u) \cup {q[k]}
        <5>1. DOMAIN u = 1..Len(u) /\ DOMAIN upTo[k] = 1..(Len(u) + 1) /\ Len(u) \in Nat
          BY <4>2, <4>3
        <5>2. ASSUME NEW x \in ToSet(upTo[k]) PROVE x \in ToSet(u) \cup {q[k]}
          BY <4>3, <5>1, <5>2 DEF ToSet
        <5>3. ASSUME NEW x \in ToSet(u) PROVE x \in ToSet(upTo[k])
          BY <4>3, <5>1, <5>3 DEF ToSet
        <5>4. q[k] \in ToSet(upTo[k])
          <6>1. Len(u) + 1 \in DOMAIN upTo[k]
            BY <5>1
          <6> QED
            BY <4>3, <6>1 DEF ToSet
        <5> QED
          BY <5>2, <5>3, <5>4
      <4>5. IsInjective(q) => q[k] \notin ToSet(u)
        <5> SUFFICES ASSUME IsInjective(q), q[k] \in ToSet(u) PROVE FALSE
          OBVIOUS
        <5>1. PICK i \in 1..(k - 1) : q[i] = q[k]
          BY <3>2 DEF u
        <5> QED
          BY <3>1, <5>1 DEF IsInjective
      <4>6. IsInjective(q) => IsInjective(upTo[k])
        <5> SUFFICES ASSUME IsInjective(q) PROVE IsInjective(upTo[k])
          OBVIOUS
        <5>1. IsInjective(u)
          BY <3>2 DEF u
        <5> QED
          BY <3>3, <4>1, <4>2, <4>5, <5>1, AppendedOnce
      <4>7. ToSet(u) = {e \in Schedule : (\E i \in 1..(k - 1) : q[i] = e) /\ ~desc[e].dead}
        BY <3>2 DEF u
      <4> QED
        BY <2>2, <3>4, <3>6, <4>3, <4>4, <4>6, <4>7
    <3> QED
      BY <3>5, <3>6
  <2> QED
    BY <2>3, <2>4
<1>5. Good(Len(q))
  BY <1>4
<1>6. {e \in Schedule : (\E i \in 1..Len(q) : q[i] = e) /\ ~desc[e].dead} = {e \in ToSet(q) : ~desc[e].dead}
  BY DEF ToSet
<1> QED
  BY <1>2, <1>5, <1>6

------------------------------------------------------------------------------
(* The types *)

\* What keeps them: no time is negative, and update() and removeAll() are at a place
\* of their lists.
RangeInv ==
  /\ \A e \in Schedule : desc[e].time >= 0
  /\ pc # "idle" => pos >= 1
  /\ wipe.at # "none" => wipe.pos >= 1

TypeInv == TypeOK /\ RangeInv

\* The parts of the types, by what the actions change.
DescOK == desc \in [Schedule -> Desc] /\ \A e \in Schedule : desc[e].time >= 0
ListOK == list \in Seq(Schedule) /\ adds \in Seq(Schedule) /\ IsInjective(list \o adds)
PlaceOK ==
  /\ freezeAll \in BOOLEAN
  /\ pc \in {"idle", "next", "complete", "timing", "pipe", "timer", "crash"} /\ pos \in Nat
  /\ total \in Frames \cup {0} /\ old \in Nat /\ acc \in Nat /\ offset \in Int
  /\ pc # "idle" => pos >= 1
WipeOK ==
  /\ wipe.at \in {"none", "list", "copy"} /\ wipe.pos \in Nat /\ wipe.copy \in Seq(Schedule)
  /\ wipe.at # "none" => wipe.pos >= 1
SeenOK ==
  /\ told \in [Schedule -> 0..2]
  /\ stopped \subseteq Schedule /\ undead \subseteq stopped /\ survivors \subseteq Schedule
  /\ piped \subseteq Schedule

\* The types are those parts, before and after a step.
LEMMA TypeParts ==
  /\ TypeInv <=> DescOK /\ ListOK /\ PlaceOK /\ WipeOK /\ SeenOK
  /\ TypeInv' <=> DescOK' /\ ListOK' /\ PlaceOK' /\ WipeOK' /\ SeenOK'
BY DEF TypeInv, TypeOK, RangeInv, DescOK, ListOK, PlaceOK, WipeOK, SeenOK

\* A part stays when a step leaves its variables alone.
LEMMA Untouched ==
  ASSUME TypeInv
  PROVE  /\ UNCHANGED desc => DescOK'
         /\ UNCHANGED <<list, adds>> => ListOK'
         /\ UNCHANGED <<freezeAll, updateVars>> => PlaceOK'
         /\ UNCHANGED wipe => WipeOK'
         /\ UNCHANGED observed => SeenOK'
<1>1. DescOK /\ ListOK /\ PlaceOK /\ WipeOK /\ SeenOK
  BY TypeParts
<1> QED
  BY <1>1 DEF DescOK, ListOK, PlaceOK, WipeOK, SeenOK, updateVars, observed

\* A schedule that is changed in two fields stays a schedule.
LEMMA DelayChanges ==
  ASSUME NEW x \in Desc, NEW d \in Nat, NEW b \in BOOLEAN
  PROVE  [x EXCEPT !.timing = b, !.delay = d] \in Desc /\ [x EXCEPT !.timing = b, !.delay = d].time = x.time
<1>1. [x EXCEPT !.timing = b] \in Desc /\ [x EXCEPT !.timing = b].time = x.time
  BY DEF Desc
<1>2. ASSUME NEW y \in Desc PROVE [y EXCEPT !.delay = d] \in Desc /\ [y EXCEPT !.delay = d].time = y.time
  BY DEF Desc
<1> QED
  BY <1>1, <1>2

\* Then all of them are.
LEMMA DescStep ==
  ASSUME DescOK, NEW e, NEW r, desc' = [desc EXCEPT ![e] = r],
         e \in Schedule => r \in Desc /\ r.time >= 0
  PROVE  DescOK'
<1>1. ASSUME NEW f \in Schedule PROVE desc'[f] \in Desc /\ desc'[f].time >= 0
  BY DEF DescOK
<1>2. desc' = [f \in Schedule |-> desc'[f]]
  BY DEF DescOK
<1> QED
  BY <1>1, <1>2 DEF DescOK

\* Times that pass, and a delay that is set, change one of them.
LEMMA TimePasses ==
  ASSUME DescOK, NEW e \in Schedule, NEW t \in Nat,
         \/ desc' = [desc EXCEPT ![e] = [desc[e] EXCEPT !.time = t]]
         \/ desc' = [desc EXCEPT ![e] = [desc[e] EXCEPT !.time = t, !.dead = TRUE]]
         \/ desc' = [desc EXCEPT ![e] = [desc[e] EXCEPT !.time = t, !.invalid = TRUE]]
  PROVE  DescOK'
<1>1. \A x \in Desc : [x EXCEPT !.time = t] \in Desc /\ [x EXCEPT !.time = t].time >= 0
  BY DEF Desc
<1>2. \A x \in Desc : [x EXCEPT !.dead = TRUE] \in Desc /\ [x EXCEPT !.dead = TRUE].time = x.time
  BY DEF Desc
<1>3. \A x \in Desc : [x EXCEPT !.invalid = TRUE] \in Desc /\ [x EXCEPT !.invalid = TRUE].time = x.time
  BY DEF Desc
<1>4. PICK r : desc' = [desc EXCEPT ![e] = r] /\ r \in Desc /\ r.time >= 0
  <2> DEFINE x == [desc[e] EXCEPT !.time = t]
  <2>1. x \in Desc /\ x.time >= 0
    BY <1>1 DEF DescOK
  <2>2. \/ desc' = [desc EXCEPT ![e] = x]
        \/ desc' = [desc EXCEPT ![e] = [x EXCEPT !.dead = TRUE]]
        \/ desc' = [desc EXCEPT ![e] = [x EXCEPT !.invalid = TRUE]]
    OBVIOUS
  <2> HIDE DEF x
  <2>3. /\ [x EXCEPT !.dead = TRUE] \in Desc /\ [x EXCEPT !.dead = TRUE].time >= 0
        /\ [x EXCEPT !.invalid = TRUE] \in Desc /\ [x EXCEPT !.invalid = TRUE].time >= 0
    <3>1. [x EXCEPT !.dead = TRUE].time = x.time /\ [x EXCEPT !.invalid = TRUE].time = x.time
      BY <1>2, <1>3, <2>1
    <3> QED
      BY <1>2, <1>3, <2>1, <3>1
  <2> QED
    BY <2>1, <2>2, <2>3
<1> QED
  BY <1>4, DescStep

LEMMA DelaySet ==
  ASSUME DescOK, NEW e \in Schedule, NEW d \in Nat,
         desc' = [desc EXCEPT ![e] = [desc[e] EXCEPT !.delay = d, !.invalid = FALSE]]
  PROVE  DescOK'
<1> DEFINE x == [desc[e] EXCEPT !.delay = d]
           r == [desc[e] EXCEPT !.delay = d, !.invalid = FALSE]
<1>1. desc[e] \in Desc /\ desc[e].time >= 0
  BY DEF DescOK
<1>2. x \in Desc /\ x.time = desc[e].time
  BY <1>1 DEF Desc
<1>3. \A y \in Desc : [y EXCEPT !.invalid = FALSE] \in Desc /\ [y EXCEPT !.invalid = FALSE].time = y.time
  BY DEF Desc
<1>4. r = [x EXCEPT !.invalid = FALSE]
  OBVIOUS
<1> HIDE DEF x, r
<1>5. r \in Desc /\ r.time >= 0
  BY <1>1, <1>2, <1>3, <1>4
<1>6. desc' = [desc EXCEPT ![e] = r]
  BY DEF r
<1> QED
  BY <1>5, <1>6, DescStep

LEMMA Dies ==
  ASSUME DescOK, NEW e \in Schedule,
         desc' = [desc EXCEPT ![e] = [desc[e] EXCEPT !.dead = TRUE]]
  PROVE  DescOK'
<1>1. desc[e] \in Desc /\ desc[e].time >= 0
  BY DEF DescOK
<1>2. [desc[e] EXCEPT !.dead = TRUE] \in Desc /\ [desc[e] EXCEPT !.dead = TRUE].time = desc[e].time
  BY <1>1 DEF Desc
<1> QED
  BY <1>1, <1>2, DescStep

\* The clients keep the types: only a schedule that is known nowhere is added.
LEMMA ClientsTypes == IInv /\ TypeInv /\ Clients => TypeInv'
<1> SUFFICES ASSUME IInv, TypeInv, Clients PROVE TypeInv'
  OBVIOUS
<1>1. DescOK /\ ListOK /\ PlaceOK /\ WipeOK /\ SeenOK
  BY TypeParts
<1>2. ASSUME NEW e \in Schedule, NEW timing \in BOOLEAN, NEW d \in Delays, Add(e, timing, d)
      PROVE  TypeInv'
  <2>1. /\ desc' = [desc EXCEPT ![e].timing = timing, ![e].delay = IF timing THEN 0 ELSE d]
        /\ e \notin Known /\ adds' = Append(adds, e)
        /\ UNCHANGED <<list, freezeAll, updateVars, wipe, observed>>
    BY <1>2 DEF Add
  <2>2. DescOK'
    <3> DEFINE delay == IF timing THEN 0 ELSE d
    <3>1. delay \in Nat
      BY SchedulerAssumption
    <3>2. desc' = [desc EXCEPT ![e] = [desc[e] EXCEPT !.timing = timing, !.delay = delay]]
      BY <1>1, <2>1 DEF DescOK
    <3> HIDE DEF delay
    <3>3. /\ [desc[e] EXCEPT !.timing = timing, !.delay = delay] \in Desc
          /\ [desc[e] EXCEPT !.timing = timing, !.delay = delay].time = desc[e].time
      <4>1. desc[e] \in Desc
        BY <1>1 DEF DescOK
      <4> QED
        BY <3>1, <4>1, DelayChanges
    <3>4. desc[e].time >= 0
      BY <1>1 DEF DescOK
    <3> QED
      BY <1>1, <3>2, <3>3, <3>4, DescStep
  <2>3. ListOK'
    <3>1. list \in Seq(Schedule) /\ adds \in Seq(Schedule) /\ list \o adds \in Seq(Schedule)
      BY <1>1 DEF ListOK
    <3>2. list \o Append(adds, e) = Append(list \o adds, e) /\ Append(adds, e) \in Seq(Schedule)
      BY <3>1
    <3>3. e \notin ToSet(list \o adds)
      <4>1. \A k \in 1..Len(list) : list[k] # e
        BY <2>1, <3>1 DEF Known, ToSet
      <4>2. \A k \in 1..Len(adds) : adds[k] # e
        BY <2>1, <3>1 DEF Known, ToSet
      <4> QED
        BY <3>1, <4>1, <4>2 DEF ToSet
    <3>4. IsInjective(list \o adds)
      BY <1>1 DEF ListOK
    <3>5. IsInjective(Append(list \o adds, e))
      BY <3>1, <3>3, <3>4, AppendedOnce
    <3> QED
      BY <2>1, <3>1, <3>2, <3>5 DEF ListOK
  <2> QED
    BY <2>1, <2>2, <2>3, TypeParts, Untouched
<1>3. ASSUME NEW e \in Schedule, RemoveSchedule(e) PROVE TypeInv'
  <2>1. /\ desc' = [desc EXCEPT ![e].dead = TRUE]
        /\ Tell(e) /\ stopped' = stopped \cup {e}
        /\ piped' = piped \cup (IF pc = "pipe" /\ list[pos] = e THEN {e} ELSE {})
        /\ UNCHANGED <<list, adds, freezeAll, updateVars, wipe, undead, survivors>>
    BY <1>3 DEF RemoveSchedule, Stop
  <2>2. DescOK'
    BY <1>1, <2>1, Dies DEF DescOK
  <2>3. SeenOK'
    BY <1>1, <2>1, TellStep DEF SeenOK
  <2> QED
    BY <2>1, <2>2, <2>3, TypeParts, Untouched
<1>4. ASSUME NEW e \in Schedule, Refresh(e) \/ Freeze(e) PROVE TypeInv'
  <2>1. UNCHANGED <<list, adds, freezeAll, updateVars, wipe, observed>>
    BY <1>4 DEF Refresh, Freeze
  <2>2. DescOK'
    <3>1. CASE Refresh(e)
      <4>1. desc' = [desc EXCEPT ![e] = [desc[e] EXCEPT !.time = 0, !.invalid = TRUE]]
        BY <1>1, <3>1 DEF Refresh, DescOK
      <4> QED
        BY <1>1, <4>1, TimePasses
    <3>2. CASE Freeze(e)
      <4>1. PICK b \in BOOLEAN : desc' = [desc EXCEPT ![e] = [desc[e] EXCEPT !.freeze = b]]
        BY <3>2 DEF Freeze
      <4> QED
        <5>1. desc[e] \in Desc /\ desc[e].time >= 0
          BY <1>1 DEF DescOK
        <5>2. [desc[e] EXCEPT !.freeze = b] \in Desc /\ [desc[e] EXCEPT !.freeze = b].time = desc[e].time
          BY <5>1 DEF Desc
        <5> QED
          BY <1>1, <4>1, <5>1, <5>2, DescStep
    <3> QED
      BY <1>4, <3>1, <3>2
  <2> QED
    BY <2>1, <2>2, TypeParts, Untouched
<1>5. CASE FreezeAll
  <2>1. freezeAll' = ~freezeAll /\ UNCHANGED <<desc, list, adds, updateVars, wipe, observed>>
    BY <1>5 DEF FreezeAll
  <2>2. PlaceOK'
    BY <1>1, <2>1 DEF PlaceOK, updateVars
  <2> QED
    BY <2>1, <2>2, TypeParts, Untouched
<1>6. CASE RemoveAll
  <2>1. WipeOK'
    BY <1>6 DEF RemoveAll, WipeOK
  <2> QED
    BY <1>6, <2>1, TypeParts, Untouched DEF RemoveAll
<1> QED
  BY <1>2, <1>3, <1>4, <1>5, <1>6 DEF Clients

\* removeAll() keeps them: it stops schedules of the list, then of its copy.
LEMMA WipeTypes == IInv /\ TypeInv /\ Wipe => TypeInv'
<1> SUFFICES ASSUME IInv, TypeInv, Wipe PROVE TypeInv'
  OBVIOUS
<1>1. DescOK /\ ListOK /\ PlaceOK /\ WipeOK /\ SeenOK
  BY TypeParts
<1>2. wipe = [at |-> wipe.at, pos |-> wipe.pos, copy |-> wipe.copy]
  BY DEF IInv, DescType
<1>3. CASE WipeList
  <2> DEFINE e == list[wipe.pos]
  <2>1. /\ wipe.at = "list" /\ wipe.pos <= Len(list) /\ wipe' = [wipe EXCEPT !.pos = @ + 1]
        /\ UNCHANGED <<list, adds, freezeAll, updateVars, undead, survivors>>
    BY <1>3 DEF WipeList
  <2>2. WipeOK'
    BY <1>1, <1>2, <2>1 DEF WipeOK
  <2>3. e \in Schedule
    BY <1>1, <2>1 DEF WipeOK, ListOK
  <2>4. CASE desc[e].dead
    <3>1. UNCHANGED <<desc, observed>>
      BY <1>3, <2>1, <2>4 DEF WipeList, observed
    <3> QED
      BY <2>1, <2>2, <3>1, TypeParts, Untouched
  <2>5. CASE ~desc[e].dead
    <3>1. /\ desc' = [desc EXCEPT ![e].dead = TRUE]
          /\ Tell(e) /\ stopped' = stopped \cup {e}
          /\ piped' = piped \cup (IF pc = "pipe" /\ list[pos] = e THEN {e} ELSE {})
      BY <1>3, <2>5 DEF WipeList, Stop
    <3> HIDE DEF e
    <3>2. DescOK'
      BY <1>1, <2>3, <3>1, Dies DEF DescOK
    <3>3. SeenOK'
      BY <1>1, <2>1, <2>3, <3>1, TellStep DEF SeenOK
    <3> QED
      BY <2>1, <2>2, <3>2, <3>3, TypeParts, Untouched
  <2> QED
    BY <2>4, <2>5
<1>4. CASE WipeCopy
  <2>1. /\ wipe' = [at |-> "copy", pos |-> 1, copy |-> Alive(adds)]
        /\ UNCHANGED <<desc, list, adds, freezeAll, updateVars, observed>>
    BY <1>4 DEF WipeCopy
  <2>2. Alive(adds) \in Seq(Schedule)
    BY <1>1, AliveProperties DEF ListOK
  <2>3. WipeOK'
    BY <2>1, <2>2 DEF WipeOK
  <2> QED
    BY <2>1, <2>3, TypeParts, Untouched
<1>5. CASE WipeAdds
  <2> DEFINE e == wipe.copy[wipe.pos]
  <2>1. wipe.at = "copy" /\ UNCHANGED <<desc, list, adds, freezeAll, updateVars, undead, piped>>
    BY <1>5 DEF WipeAdds
  <2>2. CASE wipe.pos <= Len(wipe.copy)
    <3>1. /\ Tell(e) /\ stopped' = stopped \cup {e} /\ survivors' = survivors \cup {e}
          /\ wipe' = [wipe EXCEPT !.pos = @ + 1]
      BY <1>5, <2>2 DEF WipeAdds, Stop
    <3>2. e \in Schedule
      BY <1>1, <2>1, <2>2 DEF WipeOK
    <3>3. WipeOK'
      BY <1>1, <1>2, <2>1, <3>1 DEF WipeOK
    <3> HIDE DEF e
    <3>4. SeenOK'
      BY <1>1, <2>1, <3>1, <3>2, TellStep DEF SeenOK
    <3> QED
      BY <2>1, <3>3, <3>4, TypeParts, Untouched
  <2>3. CASE ~(wipe.pos <= Len(wipe.copy))
    <3>1. wipe' = NoWipe /\ UNCHANGED <<told, stopped, survivors>>
      BY <1>5, <2>3 DEF WipeAdds
    <3>2. WipeOK'
      BY <3>1 DEF WipeOK, NoWipe
    <3>3. UNCHANGED observed
      BY <2>1, <3>1 DEF observed
    <3> QED
      BY <2>1, <3>2, <3>3, TypeParts, Untouched
  <2> QED
    BY <2>2, <2>3
<1> QED
  BY <1>3, <1>4, <1>5 DEF Wipe

\* A frame that begins keeps them: what is left of two lists that share no schedule is
\* a list that has each once.
LEMMA BeginTypes == IInv /\ TypeInv /\ BeginUpdate => TypeInv'
<1> SUFFICES ASSUME IInv, TypeInv, BeginUpdate PROVE TypeInv'
  OBVIOUS
<1>1. DescOK /\ ListOK /\ PlaceOK /\ WipeOK /\ SeenOK
  BY TypeParts
<1>2. /\ total' \in Frames /\ pc' = "next" /\ pos' = 1
      /\ list' = Alive(list \o adds) /\ adds' = <<>>
      /\ desc' = [e \in Schedule |-> IF desc[e].dead THEN [Fresh EXCEPT !.dead = TRUE] ELSE desc[e]]
      /\ UNCHANGED <<freezeAll, old, acc, offset, wipe, observed>>
  BY DEF BeginUpdate
<1>3. DescOK'
  <2>1. [Fresh EXCEPT !.dead = TRUE] \in Desc /\ [Fresh EXCEPT !.dead = TRUE].time = 0
    <3> DEFINE fresh == Fresh
    <3>1. fresh \in Desc /\ fresh.time = 0
      BY DEF Fresh, Desc
    <3> HIDE DEF fresh
    <3>2. [fresh EXCEPT !.dead = TRUE] \in Desc /\ [fresh EXCEPT !.dead = TRUE].time = fresh.time
      BY <3>1 DEF Desc
    <3> QED
      BY <3>1, <3>2 DEF fresh
  <2>2. \A e \in Schedule : desc'[e] = [Fresh EXCEPT !.dead = TRUE] \/ desc'[e] = desc[e]
    BY <1>2
  <2>3. desc' = [e \in Schedule |-> desc'[e]]
    BY <1>2
  <2> QED
    <3>1. ASSUME NEW e \in Schedule PROVE desc'[e] \in Desc /\ desc'[e].time >= 0
      <4> DEFINE fresh == [Fresh EXCEPT !.dead = TRUE]
      <4>1. fresh \in Desc /\ fresh.time >= 0
        BY <2>1
      <4>2. desc[e] \in Desc /\ desc[e].time >= 0
        BY <1>1 DEF DescOK
      <4>3. desc'[e] = fresh \/ desc'[e] = desc[e]
        BY <2>2
      <4> HIDE DEF fresh
      <4> QED
        BY <4>1, <4>2, <4>3
    <3> QED
      BY <2>3, <3>1 DEF DescOK
<1>4. ListOK'
  <2>1. list \o adds \in Seq(Schedule) /\ IsInjective(list \o adds)
    BY <1>1 DEF ListOK
  <2>2. Alive(list \o adds) \in Seq(Schedule) /\ IsInjective(Alive(list \o adds))
    BY <2>1, AliveProperties
  <2>3. Alive(list \o adds) \o <<>> = Alive(list \o adds)
    BY <2>2
  <2> QED
    BY <1>2, <2>2, <2>3 DEF ListOK
<1>5. PlaceOK'
  BY <1>1, <1>2 DEF PlaceOK
<1> QED
  BY <1>2, <1>3, <1>4, <1>5, TypeParts, Untouched

\* update() goes on to the next place of its list.
LEMMA GoOnTypes ==
  ASSUME TypeInv, GoOn, UNCHANGED freezeAll
  PROVE  PlaceOK'
<1>1. PlaceOK
  BY TypeParts
<1> QED
  BY <1>1 DEF PlaceOK, GoOn

\* So does every step of a frame: the times are subtracted only from greater ones.
LEMMA UpdateTypes == IInv /\ TypeInv /\ Update => TypeInv'
<1> SUFFICES ASSUME IInv, TypeInv, Update PROVE TypeInv'
  OBVIOUS
<1>1. DescOK /\ ListOK /\ PlaceOK /\ WipeOK /\ SeenOK
  BY TypeParts
<1>2. /\ total \in Nat
      /\ pc \in {"complete", "timing", "pipe", "timer", "crash"} => Current \in Schedule
  BY DEF IInv, DescType, PlaceInv
<1>3. \A e \in Schedule : desc[e].time \in Nat /\ desc[e].delay \in Nat
  BY <1>1 DEF DescOK, Desc
<1>4. ASSUME NEW e \in Schedule, UpdatePass(e) PROVE TypeInv'
  BY <1>4, TypeParts, Untouched, GoOnTypes DEF UpdatePass
<1>5. ASSUME NEW e \in Schedule, EventWaits(e) PROVE TypeInv'
  <2>1. /\ desc' = [desc EXCEPT ![e] = [desc[e] EXCEPT !.time = desc[e].time + total]]
        /\ GoOn /\ UNCHANGED <<list, adds, freezeAll, wipe, observed>>
    BY <1>1, <1>5 DEF EventWaits, DescOK
  <2>2. DescOK'
    <3>1. desc[e].time + total \in Nat
      BY <1>2, <1>3
    <3> QED
      BY <1>1, <2>1, <3>1, TimePasses
  <2> QED
    BY <2>1, <2>2, TypeParts, Untouched, GoOnTypes
<1>6. ASSUME NEW e \in Schedule, EventCompletes(e) PROVE TypeInv'
  <2>1. /\ At(e) /\ Tell(e) /\ Call(e) /\ pc' = "complete"
        /\ desc' = [desc EXCEPT ![e] = [desc[e] EXCEPT !.time = desc[e].time + total, !.dead = TRUE]]
        /\ offset' = desc[e].delay - desc[e].time
        /\ UNCHANGED <<list, adds, freezeAll, pos, total, old, acc, wipe, stopped, survivors, piped>>
    BY <1>1, <1>6 DEF EventCompletes, DescOK
  <2>2. DescOK'
    <3>1. desc[e].time + total \in Nat
      BY <1>2, <1>3
    <3> QED
      BY <1>1, <2>1, <3>1, TimePasses
  <2>3. PlaceOK'
    BY <1>1, <1>3, <2>1 DEF PlaceOK, At
  <2>4. SeenOK'
    BY <1>1, <2>1, TellStep DEF SeenOK, Call
  <2> QED
    BY <2>1, <2>2, <2>3, <2>4, TypeParts, Untouched
<1>7. ASSUME NEW e \in Schedule, TimingBegins(e) PROVE TypeInv'
  <2>1. /\ At(e) /\ pc' = "timing" /\ old' = desc[e].time /\ acc' = 0
        /\ desc' = [desc EXCEPT ![e] = [desc[e] EXCEPT !.time = desc[e].time + total]]
        /\ UNCHANGED <<list, adds, freezeAll, pos, total, offset, wipe, observed>>
    BY <1>1, <1>7 DEF TimingBegins, DescOK
  <2>2. DescOK'
    <3>1. desc[e].time + total \in Nat
      BY <1>2, <1>3
    <3> QED
      BY <1>1, <2>1, <3>1, TimePasses
  <2>3. PlaceOK'
    BY <1>1, <1>3, <2>1 DEF PlaceOK, At
  <2> QED
    BY <2>1, <2>2, <2>3, TypeParts, Untouched
<1>8. CASE TimingAsks
  <2>1. /\ pc = "timing" /\ Call(Current) /\ pc' = "pipe"
        /\ UNCHANGED <<desc, list, adds, freezeAll, pos, total, old, acc, offset, wipe,
                       told, stopped, survivors, piped>>
    BY <1>8 DEF TimingAsks
  <2>2. SeenOK'
    BY <1>1, <2>1 DEF SeenOK, Call
  <2>3. PlaceOK'
    BY <1>1, <2>1 DEF PlaceOK
  <2> QED
    BY <2>1, <2>2, <2>3, TypeParts, Untouched
<1>9. CASE PipeReturns
  <2>1. PICK d \in Delays : desc' = [desc EXCEPT ![Current].delay = d, ![Current].invalid = FALSE]
    BY <1>9 DEF PipeReturns
  <2>2. /\ pc = "pipe" /\ pc' = "timing"
        /\ UNCHANGED <<list, adds, freezeAll, pos, total, old, acc, offset, wipe, observed>>
    BY <1>9 DEF PipeReturns
  <2>3. DescOK'
    <3>1. desc' = [desc EXCEPT ![Current] = [desc[Current] EXCEPT !.delay = d, !.invalid = FALSE]]
      BY <1>1, <2>1 DEF DescOK
    <3>2. d \in Nat /\ Current \in Schedule
      BY <1>2, <2>2, SchedulerAssumption
    <3> QED
      BY <1>1, <3>1, <3>2, DelaySet
  <2>4. PlaceOK'
    BY <1>1, <2>2 DEF PlaceOK
  <2> QED
    BY <2>2, <2>3, <2>4, TypeParts, Untouched
<1>10. CASE PipeEnds
  <2>1. /\ pc = "pipe" /\ Current \in Schedule
        /\ desc' = [desc EXCEPT ![Current] = [desc[Current] EXCEPT !.dead = TRUE]]
        /\ UNCHANGED <<list, adds, freezeAll, wipe, stopped, survivors, piped>>
    BY <1>1, <1>2, <1>10 DEF PipeEnds, DescOK
  <2>2. DescOK'
    BY <1>1, <2>1, Dies
  <2>3. CASE desc[Current].dead
    <3>1. GoOn /\ UNCHANGED <<told, undead>>
      BY <1>10, <2>3 DEF PipeEnds
    <3>2. UNCHANGED observed
      BY <2>1, <3>1 DEF observed
    <3> QED
      BY <2>1, <2>2, <3>1, <3>2, TypeParts, Untouched, GoOnTypes
  <2>4. CASE ~desc[Current].dead
    <3>1. Tell(Current) /\ Call(Current) /\ pc' = "complete" /\ UNCHANGED <<pos, total, old, acc, offset>>
      BY <1>10, <2>4 DEF PipeEnds
    <3>2. SeenOK'
      BY <1>1, <2>1, <3>1, TellStep DEF SeenOK, Call
    <3>3. PlaceOK'
      BY <1>1, <2>1, <3>1 DEF PlaceOK
    <3> QED
      BY <2>1, <2>2, <3>2, <3>3, TypeParts, Untouched
  <2> QED
    BY <2>3, <2>4
<1>11. CASE TimingWaits
  BY <1>11, TypeParts, Untouched, GoOnTypes DEF TimingWaits
<1>12. CASE TimingFires
  <2> DEFINE c == Current
  <2>1. /\ pc = "timing" /\ c \in Schedule /\ desc[c].time >= desc[c].delay
        /\ acc' = acc + desc[c].delay /\ offset' = acc' - old
        /\ desc' = [desc EXCEPT ![c] = [desc[c] EXCEPT !.time = desc[c].time - desc[c].delay, !.invalid = TRUE]]
        /\ IF desc[c].dead THEN pc' = "crash" /\ UNCHANGED undead ELSE pc' = "timer" /\ Call(c)
        /\ UNCHANGED <<list, adds, freezeAll, pos, total, old, wipe, told, stopped, survivors, piped>>
    BY <1>1, <1>2, <1>12 DEF TimingFires, DescOK
  <2> HIDE DEF c
  <2>2. desc[c].time - desc[c].delay \in Nat
    BY <1>3, <2>1
  <2>3. DescOK'
    BY <1>1, <2>1, <2>2, TimePasses
  <2>4. PlaceOK'
    BY <1>1, <1>3, <2>1 DEF PlaceOK
  <2>5. SeenOK'
    BY <1>1, <2>1 DEF SeenOK, Call
  <2> QED
    BY <2>1, <2>3, <2>4, <2>5, TypeParts, Untouched
<1>13. CASE TimerReturns
  <2>1. UNCHANGED <<desc, list, adds, freezeAll, wipe, observed>>
    BY <1>13 DEF TimerReturns
  <2>2. PlaceOK'
    <3>1. CASE GoOn
      BY <2>1, <3>1, GoOnTypes
    <3>2. CASE pc = "timer" /\ pc' = "timing" /\ offset' = 0 /\ UNCHANGED <<pos, total, old, acc>>
      BY <1>1, <2>1, <3>2 DEF PlaceOK
    <3> QED
      BY <1>13, <3>1, <3>2 DEF TimerReturns
  <2> QED
    BY <2>1, <2>2, TypeParts, Untouched
<1>14. CASE CompleteReturns
  BY <1>14, TypeParts, Untouched, GoOnTypes DEF CompleteReturns
<1>15. CASE EndUpdate
  <2>1. PlaceOK'
    BY <1>1, <1>15 DEF EndUpdate, PlaceOK
  <2> QED
    BY <1>15, <2>1, TypeParts, Untouched DEF EndUpdate
<1> QED
  BY <1>4, <1>5, <1>6, <1>7, <1>8, <1>9, <1>10, <1>11, <1>12, <1>13, <1>14, <1>15 DEF Update

------------------------------------------------------------------------------
(* The theorems *)

\* Whatever the callbacks of a frame do to the scheduler, a schedule that was told its
\* end is dead, and update() meets a dead one only where its own pipe removed it.
THEOREM Inductive == Spec => []IInv
<1>1. IInv /\ [Next]_vars => IInv'
  <2> SUFFICES ASSUME IInv, [Next]_vars PROVE IInv'
    OBVIOUS
  <2>1. CASE UNCHANGED vars
    BY <2>1 DEF vars, updateVars, observed, IInv, DescType, EndInv, PlaceInv, QuietInv, Current
  <2> QED
    BY <2>1, ClientsStep, WipeStep, BeginStep, UpdateStep DEF Next
<1> QED
  BY <1>1, InitInv, PTL DEF Spec

\* A schedule is told its end once, by its completion or by its removal, unless
\* removeAll() found it in m_schedulesAdd.
THEOREM EndIsToldOnce == Spec => []ToldOnce
<1>1. IInv => ToldOnce
  BY DEF IInv, EndInv, ToldOnce
<1> QED
  BY <1>1, Inductive, PTL

\* No callback of a schedule comes after its removal, with the same exception, and no
\* timer is called through a null pointer but in a schedule its own pipe removed.
THEOREM RemovedIsQuiet == Spec => []StoppedIsQuiet
<1>1. IInv => StoppedIsQuiet
  BY DEF IInv, QuietInv, PlaceInv, StoppedIsQuiet, Current
<1> QED
  BY <1>1, Inductive, PTL

\* Every variable stays in its type, and a schedule is in the two lists once, however
\* the callbacks of a frame add to them and remove from them.
THEOREM TypeCorrect == Spec => []TypeOK
<1>1. Init => TypeInv
  <2> SUFFICES ASSUME Init PROVE TypeInv
    OBVIOUS
  <2>1. Fresh \in Desc /\ Fresh.time = 0
    BY DEF Fresh, Desc
  <2>2. DescOK
    BY <2>1 DEF Init, DescOK
  <2>3. ListOK
    <3>1. IsInjective(<<>> \o <<>>)
      BY DEF IsInjective
    <3> QED
      BY <3>1 DEF Init, ListOK
  <2>4. PlaceOK /\ WipeOK /\ SeenOK
    <3>1. /\ wipe.at = "none" /\ wipe.pos = 0 /\ wipe.copy = <<>>
          /\ told = [e \in Schedule |-> 0]
      BY DEF Init, NoWipe
    <3>2. PlaceOK
      <4>1. freezeAll \in BOOLEAN
        <5>1. freezeAll = FALSE
          BY DEF Init
        <5> QED
          BY <5>1, Zenon
      <4>2. pc = "idle" /\ pos = 0 /\ total = 0 /\ old = 0 /\ acc = 0 /\ offset = 0
        BY DEF Init
      <4> QED
        BY <4>1, <4>2 DEF PlaceOK
    <3>3. WipeOK
      BY <3>1 DEF WipeOK
    <3>4. SeenOK
      BY <3>1 DEF Init, SeenOK
    <3> QED
      BY <3>2, <3>3, <3>4
  <2> QED
    BY <2>2, <2>3, <2>4, TypeParts
<1>2. IInv /\ TypeInv /\ [Next]_vars => TypeInv'
  <2> SUFFICES ASSUME IInv, TypeInv, [Next]_vars PROVE TypeInv'
    OBVIOUS
  <2>1. CASE UNCHANGED vars
    BY <2>1, TypeParts, Untouched DEF vars
  <2> QED
    BY <2>1, ClientsTypes, WipeTypes, BeginTypes, UpdateTypes DEF Next
<1>3. TypeInv => TypeOK
  BY DEF TypeInv
<1> QED
  BY <1>1, <1>2, <1>3, Inductive, PTL DEF Spec

================================================================================
