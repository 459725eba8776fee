------------------------------ MODULE SoundService ------------------------------
(* Services/SoundService: sounds that clients play, pause, resume and stop, the  *)
(* worker that feeds the buffer of a streamed one in the thread job of the        *)
(* service (Kernel/ThreadJob, in coarse steps), and the tick that finds what      *)
(* has ended and tells the listeners, which call the service again.               *)
EXTENDS Naturals, FiniteSets, SequencesExt

CONSTANTS
  Sound,         \* the identities
  Stream,        \* those of a streamed resource
  Slot,          \* the slots of the job, MENGINE_THREAD_JOB_WORK_COUNT of them
  MaxSoundPlay,  \* the option Limit.MaxSoundPlay
  Length,        \* how many ticks a sound lasts
  Orphan         \* the owner of a worker whose identity was released

ASSUME SoundAssumption ==
  /\ IsFiniteSet(Sound) /\ Stream \subseteq Sound /\ IsFiniteSet(Slot) /\ Slot \subseteq Nat
  /\ MaxSoundPlay \in Nat /\ Length \in Nat \ {0} /\ Orphan \notin Sound

VARIABLES
  sound,       \* the identities; what they slipped into and how often told is observed
  list,        \* m_soundIdentities
  slot,        \* the slots of m_threadJobSoundBufferUpdate
  turnStream,  \* m_turnStream
  loop, todo,    \* the loop the service is in and what is left of it
  life         \* "run", "stop" after stopService(), "final" after finalizeService()

soundVars == <<sound, list, slot, turnStream, loop, todo, life>>

FreeSlot == [owner |-> Orphan, status |-> "free"]
NewSound == [source |-> "none", state |-> "stop", turn |-> FALSE,
             looped |-> FALSE, worker |-> FALSE, done |-> FALSE, left |-> 0,
             told |-> 0, slip |-> {}]
Slip == {"kept", "refused", "failed", "unstarted", "asked", "position", "replayed"}

SoundTypeOK ==
  /\ sound \in [Sound -> [source : {"none", "stop", "play", "pause"},
                          state : {"stop", "play", "pause"},
                          turn : BOOLEAN, looped : BOOLEAN,
                          worker : BOOLEAN, done : BOOLEAN, left : 0..Length,
                          told : 0..3, slip : SUBSET Slip]]
  /\ \A q \in {list, todo} : q \in Seq(Sound) /\ IsInjective(q)
  /\ slot \in [Slot -> [owner : Sound \cup {Orphan},
                        status : {"free", "work", "pause", "done"}]]
  /\ turnStream \in BOOLEAN /\ life \in {"run", "stop", "final"}
  /\ loop \in {"idle", "resume", "end", "ended", "quit", "quitted", "crash"}

SoundInit ==
  /\ sound = [s \in Sound |-> NewSound] /\ list = <<>>
  /\ slot = [i \in Slot |-> FreeSlot] /\ turnStream = TRUE
  /\ loop = "idle" /\ todo = <<>> /\ life = "run"

Listed(s) == s \in ToSet(list)
\* The identities of the list that are in S, in their order.
ListOf(S) ==
  LET kept[n \in 0..Len(list)] ==
        IF n = 0 THEN <<>>
        ELSE IF list[n] \in S THEN Append(kept[n - 1], list[n]) ELSE kept[n - 1]
  IN  kept[Len(list)]
\* Client code runs between the calls of the service and inside the listeners.
Client == loop \in {"idle", "ended", "quitted"} /\ life # "final"
Slipped(r, why) == [r EXCEPT !.slip = @ \cup {why}]
Stopped(r) == [r EXCEPT !.state = "stop", !.left = 0, !.source = IF @ = "none" THEN @ ELSE "stop"]
Told(r) == [r EXCEPT !.told = IF @ = 3 THEN 3 ELSE @ + 1]
\* A listener is set before the first play and cleared where the source is, but by the
\* stop of the service, which clears it after it has told it.
HasListener(s) == sound[s].source # "none" \/ (loop = "quitted" /\ s = Head(todo))

-----------------------------------------------------------------------------
\* The thread job: the worker of s by its id, as pauseWorker() and resumeWorker()
\* write its status, whatever it was, and as removeWorker() frees the slot.
SetStatus(s, st) ==
  [i \in Slot |-> IF slot[i].owner = s THEN [slot[i] EXCEPT !.status = st] ELSE slot[i]]
Removed(s) == [i \in Slot |-> IF slot[i].owner = s THEN FreeSlot ELSE slot[i]]
Vacant == {i \in Slot : slot[i].status = "free"}
Added(s) == IF Vacant = {} THEN slot
            ELSE [slot EXCEPT ![CHOOSE i \in Vacant : \A j \in Vacant : i <= j] =
                    [owner |-> s, status |-> "work"]]

\* onWork() finds the end of the stream.
WorkEnds(i) ==
  /\ slot[i].status = "work"
  /\ slot' = [slot EXCEPT ![i].status = "done"]
  /\ sound' = IF slot[i].owner = Orphan THEN sound
              ELSE [sound EXCEPT ![slot[i].owner].done = TRUE]
  /\ UNCHANGED <<list, turnStream, loop, todo, life>>

\* The update of the job in the thread service, between the calls of this one.
JobUpdate ==
  /\ loop = "idle"
  /\ \E i \in Slot : slot[i].status = "done"
  /\ slot' = [i \in Slot |-> IF slot[i].status = "done" THEN FreeSlot ELSE slot[i]]
  /\ UNCHANGED <<sound, list, turnStream, loop, todo, life>>

\* playSoundBufferUpdate_() and stopSoundBufferUpdate_() on the identity r of s.
Played(s, r) ==
  CASE s \notin Stream -> r
    [] s \in Stream /\ r.worker -> Slipped(r, "kept")
    [] OTHER -> LET w == [r EXCEPT !.worker = TRUE, !.done = FALSE]
                IN  IF Vacant = {} THEN Slipped(w, "refused") ELSE w
PlayBuffer(s, r) ==
  /\ sound' = [sound EXCEPT ![s] = Played(s, r)]
  /\ slot' = IF s \in Stream /\ ~r.worker THEN Added(s) ELSE slot
Unfed(r) == [r EXCEPT !.worker = FALSE, !.done = FALSE, !.slip = @ \cap {"replayed"}]
StopBuffer(s, r) ==
  /\ sound' = [sound EXCEPT ![s] = Unfed(r)]
  /\ slot' = Removed(s)

-----------------------------------------------------------------------------
\* createSoundIdentity(), for an object no loop of the service still holds.
\* m_turnSound, which decides `turn` of a sound in memory, is left open.
CreateSoundIdentity(s, looped, turnSound) ==
  /\ Client /\ life = "run" /\ ~Listed(s) /\ s \notin ToSet(todo)
  /\ list' = Append(list, s)
  /\ sound' = [sound EXCEPT ![s] =
       [NewSound EXCEPT !.source = "stop", !.looped = looped,
                        !.turn = IF s \in Stream THEN turnStream ELSE turnSound]]
  /\ slot' = [i \in Slot |-> IF slot[i].owner = s THEN [slot[i] EXCEPT !.owner = Orphan]
                             ELSE slot[i]]
  /\ UNCHANGED <<turnStream, loop, todo, life>>

\* releaseSoundSource(): the worker stays.
ReleaseSoundSource(s) ==
  /\ Client /\ Listed(s)
  /\ list' = ListOf(Sound \ {s})
  /\ sound' = [sound EXCEPT ![s] = NewSound]
  /\ UNCHANGED <<slot, turnStream, loop, todo, life>>

\* checkMaxSoundPlay_()
MayPlay == Cardinality({s \in ToSet(list) : sound[s].state = "play"}) <= MaxSoundPlay

\* playEmitter() of a stopped sound. The source may have no device to play on.
PlayEmitter(s) ==
  /\ Client /\ Listed(s) /\ MayPlay
  /\ sound[s].state = "stop" /\ sound[s].source # "none"
  /\ LET slip == (IF sound[s].worker THEN sound[s].slip ELSE {})
                   \cup (IF loop = "ended" /\ s \in ToSet(Tail(todo)) THEN {"replayed"} ELSE {})
         r == [sound[s] EXCEPT !.state = "play", !.left = Length, !.told = 0, !.slip = slip]
     IN  \/ r.turn /\ PlayBuffer(s, [r EXCEPT !.source = "play"])
         \/ r.turn /\ sound' = [sound EXCEPT ![s] = Slipped(r, "failed")] /\ UNCHANGED slot
         \/ ~r.turn /\ sound' = [sound EXCEPT ![s] = r] /\ UNCHANGED slot
  /\ UNCHANGED <<list, turnStream, loop, todo, life>>

\* resumeEmitter(), and playEmitter() of a paused sound: source->resume() fails
\* unless the source itself was paused.
ResumeEmitter(s) ==
  /\ Client /\ Listed(s) /\ MayPlay /\ sound[s].state = "pause"
  /\ LET r == [sound[s] EXCEPT !.state = "play"]
     IN  CASE r.source = "none" -> loop' = "crash" /\ UNCHANGED <<sound, slot>>
           [] r.source # "none" /\ ~r.turn ->
                sound' = [sound EXCEPT ![s] = r] /\ UNCHANGED <<slot, loop>>
           [] r.source = "stop" /\ r.turn ->
                sound' = [sound EXCEPT ![s] = Slipped(r, "unstarted")] /\ UNCHANGED <<slot, loop>>
           [] OTHER -> /\ sound' = [sound EXCEPT ![s] = [r EXCEPT !.source = "play"]]
                       /\ slot' = SetStatus(s, "work") /\ UNCHANGED loop
  /\ UNCHANGED <<list, turnStream, todo, life>>

PauseEmitter(s) ==
  /\ Client /\ Listed(s) /\ sound[s].state = "play"
  /\ slot' = IF sound[s].turn THEN SetStatus(s, "pause") ELSE slot
  /\ sound' = [sound EXCEPT ![s].state = "pause",
                            ![s].source = IF @ = "play" THEN "pause" ELSE @]
  /\ loop' = IF sound[s].source = "none" THEN "crash" ELSE loop
  /\ UNCHANGED <<list, turnStream, todo, life>>

\* Mutant: stopSoundBufferUpdate_() is missing.
StopEmitter_KeepsWorker(s) ==
  /\ Client /\ Listed(s) /\ sound[s].state # "stop"
  /\ sound' = [sound EXCEPT ![s] = Told(Stopped(@))]
  /\ UNCHANGED <<slot, list, turnStream, loop, todo, life>>

\* stopEmitter(): the worker of a sound that is turned off is not stopped.
StopEmitter(s) ==
  /\ Client /\ Listed(s) /\ sound[s].state # "stop"
  /\ LET r == IF HasListener(s) THEN Told(Stopped(sound[s])) ELSE Stopped(sound[s])
     IN  IF r.turn THEN StopBuffer(s, r)
         ELSE /\ sound' = [sound EXCEPT ![s] = IF r.worker THEN Slipped(r, "kept") ELSE r]
              /\ UNCHANGED slot
  /\ UNCHANGED <<list, turnStream, loop, todo, life>>

\* getPosMs() and setPosMs() pause the worker and resume it, also that of a paused
\* sound; setPosMs() forgets to when the source refuses the position.
Position(s) ==
  /\ Client /\ Listed(s) /\ sound[s].worker /\ sound[s].source # "none"
  /\ \/ slot' = SetStatus(s, "work")
        /\ sound' = [sound EXCEPT ![s] = IF @.state = "play" /\ @.turn THEN @ ELSE Slipped(@, "asked")]
     \/ slot' = SetStatus(s, "pause") /\ sound' = [sound EXCEPT ![s] = Slipped(@, "position")]
  /\ UNCHANGED <<list, turnStream, loop, todo, life>>

-----------------------------------------------------------------------------
\* The loops over the identities. One that calls nobody and takes no slot is one
\* action: what the job does meanwhile to one identity commutes with the others.
Playing(s) == Listed(s) /\ sound[s].state = "play"

\* onTurnStream(): pauseSounds_(), or the loop of resumeSounds_().
TurnStreamOff ==
  /\ loop = "idle" /\ life # "final" /\ turnStream /\ turnStream' = FALSE
  /\ slot' = [i \in Slot |-> IF \E s \in Sound : Playing(s) /\ slot[i].owner = s
                            THEN [slot[i] EXCEPT !.status = "pause"] ELSE slot[i]]
  /\ sound' = [s \in Sound |-> IF ~Listed(s) THEN sound[s] ELSE
       [sound[s] EXCEPT !.turn = FALSE,
                        !.source = IF Playing(s) /\ @ = "play" THEN "pause" ELSE @]]
  /\ loop' = IF \E s \in Sound : Playing(s) /\ sound[s].source = "none" THEN "crash" ELSE loop
  /\ UNCHANGED <<list, todo, life>>

TurnStreamOn ==
  /\ loop = "idle" /\ life # "final" /\ ~turnStream /\ turnStream' = TRUE
  /\ loop' = "resume" /\ todo' = list
  /\ UNCHANGED <<sound, list, slot, life>>
ResumeSound(s) ==
  /\ loop = "resume" /\ todo # <<>> /\ s = Head(todo) /\ todo' = Tail(todo)
  /\ LET r == [sound[s] EXCEPT !.turn = TRUE]
         Keep == sound' = [sound EXCEPT ![s] = r] /\ UNCHANGED <<slot, loop>>
     IN  CASE r.state # "play" \/ r.source = "play" -> Keep
           [] r.state = "play" /\ r.source = "none" -> loop' = "crash" /\ UNCHANGED <<sound, slot>>
           [] r.state = "play" /\ r.source = "pause" ->
                /\ sound' = [sound EXCEPT ![s] = [r EXCEPT !.source = "play"]]
                /\ slot' = SetStatus(s, "work") /\ UNCHANGED loop
           [] OTHER -> /\ \/ PlayBuffer(s, [r EXCEPT !.source = "play"])
                          \/ sound' = [sound EXCEPT ![s] = Slipped(r, "failed")] /\ UNCHANGED slot
                       /\ UNCHANGED loop
  /\ UNCHANGED <<list, turnStream, life>>

-----------------------------------------------------------------------------
\* tick(): a sound ends when its worker is done or its time is over. It loses its
\* worker and its listener is to be told.
Over(s) ==
  LET r == sound[s]
  IN  /\ Playing(s) /\ ~r.looped /\ r.turn
      /\ IF r.worker THEN r.done ELSE r.left <= 1

\* Mutant: the state of a sound that ended is not reset.
Tick_StillPlays ==
  /\ loop = "idle" /\ life # "final" /\ loop' = "end" /\ todo' = ListOf({s \in Sound : Over(s)})
  /\ sound' = [s \in Sound |-> IF Over(s) THEN Unfed(sound[s]) ELSE sound[s]]
  /\ slot' = [i \in Slot |-> IF \E s \in Sound : Over(s) /\ slot[i].owner = s THEN FreeSlot ELSE slot[i]]
  /\ UNCHANGED <<list, turnStream, life>>

Tick ==
  /\ loop = "idle" /\ life # "final" /\ loop' = "end" /\ todo' = ListOf({s \in Sound : Over(s)})
  /\ sound' = [s \in Sound |->
       CASE Over(s) -> Unfed(Stopped(sound[s]))
         [] Playing(s) /\ ~Over(s) /\ sound[s].turn /\ ~sound[s].worker /\ ~sound[s].looped ->
              [sound[s] EXCEPT !.left = @ - 1]
         [] OTHER -> sound[s]]
  /\ slot' = [i \in Slot |-> IF \E s \in Sound : Over(s) /\ slot[i].owner = s THEN FreeSlot ELSE slot[i]]
  /\ UNCHANGED <<list, turnStream, life>>

\* onSoundEnd() of the next listener, which a listener before it may have removed.
TellEnd(s) ==
  /\ loop = "end" /\ todo # <<>> /\ s = Head(todo)
  /\ IF Listed(s) THEN loop' = "ended" /\ sound' = [sound EXCEPT ![s] = Told(@)]
     ELSE loop' = "crash" /\ UNCHANGED sound
  /\ UNCHANGED <<list, slot, turnStream, todo, life>>
EndReturns == loop = "ended" /\ loop' = "end" /\ todo' = Tail(todo)
              /\ UNCHANGED <<sound, list, slot, turnStream, life>>
-----------------------------------------------------------------------------
\* _stopService(): stopSounds_(), then every identity loses its source and listener.
StopService ==
  /\ loop = "idle" /\ life = "run" /\ life' = "stop" /\ loop' = "quit" /\ todo' = list
  /\ sound' = [s \in Sound |-> IF ~Listed(s) THEN sound[s] ELSE
       LET r == [sound[s] EXCEPT !.turn = FALSE]
       IN  IF Playing(s) THEN [Unfed(r) EXCEPT !.source = "stop"] ELSE r]
  /\ slot' = [i \in Slot |-> IF \E s \in Sound : Playing(s) /\ slot[i].owner = s THEN FreeSlot ELSE slot[i]]
  /\ UNCHANGED <<list, turnStream>>

\* onSoundStop() tells every listener that is left, whatever the state of its sound; one
\* released since has none.
QuitSound(s) ==
  /\ loop = "quit" /\ todo # <<>> /\ s = Head(todo)
  /\ LET r == [sound[s] EXCEPT !.source = "none"]
     IN  IF HasListener(s) THEN StopBuffer(s, Told(r)) /\ loop' = "quitted" /\ UNCHANGED todo
         ELSE StopBuffer(s, r) /\ todo' = Tail(todo) /\ UNCHANGED loop
  /\ UNCHANGED <<list, turnStream, life>>
QuitReturns == loop = "quitted" /\ loop' = "quit" /\ todo' = Tail(todo)
               /\ UNCHANGED <<sound, list, slot, turnStream, life>>

\* The loop is over.
LoopEnds == loop \in {"resume", "end", "quit"} /\ todo = <<>> /\ loop' = "idle"
            /\ UNCHANGED <<sound, list, slot, turnStream, todo, life>>

\* _finalizeService(): what is left of the workers goes with the job.
FinalizeService ==
  /\ loop = "idle" /\ life = "stop" /\ life' = "final"
  /\ sound' = [s \in Sound |-> NewSound] /\ list' = <<>>
  /\ slot' = [i \in Slot |-> FreeSlot]
  /\ UNCHANGED <<turnStream, loop, todo>>

Main == (\E s \in Sound : ResumeSound(s) \/ TellEnd(s) \/ QuitSound(s))
        \/ LoopEnds \/ EndReturns \/ QuitReturns
Calls == \E s \in Sound :
  \/ \E looped, turnSound \in BOOLEAN : CreateSoundIdentity(s, looped, turnSound)
  \/ ReleaseSoundSource(s) \/ PlayEmitter(s) \/ ResumeEmitter(s) \/ PauseEmitter(s)
  \/ StopEmitter(s) \/ Position(s)
Works == \E i \in Slot : WorkEnds(i)
SoundNext == Main \/ Calls \/ Works \/ TurnStreamOff \/ TurnStreamOn \/ Tick \/ JobUpdate \/ StopService \/ FinalizeService

SoundSpec == SoundInit /\ [][SoundNext]_soundVars

-----------------------------------------------------------------------------
\* Between calls, a sound that plays and is turned on is heard: its source plays,
\* and a streamed one is fed by a worker in the job until the stream is done. Not so
\* one whose play failed, found no slot, met the worker of an earlier play, was
\* resumed before it had started, or lost its worker to a refused position.
PlayingIsFed ==
  \A s \in ToSet(list) : LET r == sound[s] IN
    (loop = "idle" /\ life = "run" /\ r.state = "play" /\ r.turn /\ r.slip \subseteq {"asked", "replayed"})
      => /\ r.source = "play"
         /\ s \in Stream => r.worker /\ (r.done \/ \E i \in Slot : slot[i].owner = s /\ slot[i].status = "work")

\* The job works for no sound that is stopped, paused or turned off, unless its
\* position was asked; and a stopped sound holds a slot only when it was stopped
\* while turned off.
WorkIsForPlaying ==
  loop = "idle" => \A s \in ToSet(list), i \in Slot : LET r == sound[s] IN
    slot[i].owner = s =>
      /\ (r.state # "play" \/ ~r.turn) /\ slot[i].status = "work" => "asked" \in r.slip
      /\ r.state = "stop" => "kept" \in r.slip

\* A sound that plays is fed, and nothing else is.
FedWhilePlaying == PlayingIsFed /\ WorkIsForPlaying

\* _stopService() has come to s.
Quit(s) == life # "run" /\ sound[s].source = "none"

\* A listener hears of the end or the stop of a play at most once, and while the service
\* runs it hears that a sound ended only when it has. Not so when another listener of the
\* same tick played it again; and the stop of the service tells every listener a stop, also
\* one that was told already or that stops its sound inside that call, which hears it twice.
ToldOnce ==
  /\ \A s \in ToSet(list) : "replayed" \notin sound[s].slip =>
       sound[s].told <= IF Quit(s) THEN 2 ELSE 1
  /\ life = "run" /\ loop = "ended" /\ Listed(Head(todo)) /\ sound[Head(todo)].told > 0 =>
       sound[Head(todo)].state = "stop" \/ "replayed" \in sound[Head(todo)].slip

=============================================================================
