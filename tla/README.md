# Mengine in TLA+

Models, model checks and proofs of the concurrent and re-entrant core of Mengine,
a C++ game engine. Paths below are those of the repository: the engine is under `src/`
(`src/Kernel`, `src/Services`, `src/Systems`, ...), so `ThreadTask.cpp` is
`src/src/Kernel/ThreadTask.cpp` in `PROJECT.json`.

## The system

A Mengine program is one *main thread* that runs a frame loop (input, update,
render) over a set of services created by a service provider, and a handful of
*worker threads* owned by the thread service. Almost all code is sequential but
re-entrant: services keep lists they iterate once per frame while the objects
they visit call back into them. The concurrent part is small and everything that
decodes, streams or downloads relies on it.

| component | state | operations | interacts with |
|---|---|---|---|
| Thread task (`Kernel/ThreadTask`) | five atomic flags `run`, `finish`, `complete`, `successful`, `cancel`; the mutex of its thread | `run`, `main`, `cancel`, `update`, `join`, `finally` | main thread and one worker share the flags |
| Thread job (`Kernel/ThreadJob`) | a fixed array of slots: mutex, status, id, worker | `addWorker`, `removeWorker`, `pauseWorker`, `resumeWorker`, `_onMain`, `_onUpdate`, `_onFinally` | is a thread task; served to the sound service |
| Thread service (`Services/ThreadService`) and thread identities (`Systems/*ThreadSystem`) | `m_tasks`, `m_threads`; per thread `m_task`, `m_exit`, two mutexes and a condition variable | `createThread`, `destroyThread`, `addTask`, `joinTask`, `stopTasks`, `update`; `processTask`, `removeTask`, `join`, the loop | calls the tasks, is called by every client |
| Thread queue (`Services/ThreadService/ThreadQueue`) and packets (`Kernel/ThreadTaskPacket`) | pending tasks, one slot per thread, the sampler of threads | `addTask`, `update`, `cancel` | posts packets to the thread service, updated by it |
| Prefetcher (`Services/PrefetcherService`) with its script (`Plugins/ResourcePrefetcherPlugin`) | `m_prefetchReceiver` with a count per file; per batch an observer with its own count | `prefetch*`, `popData`, `unfetch`, end of a task, `_finalizeService` | a thread queue |
| HTTP service (`Plugins/cURLPlugin`) | `m_receiverDescs`; a task per request with the flags of a thread task | requests, `cancelRequest`, end of a task, `_stopService` | thread service, thread queue, scripts |
| Sound service (`Services/SoundService`) | identities with state, source, `turn`, worker, listener; `m_turnStream` | create, release, play, pause, resume, stop, position, `tick`, streams off and on, stop and end of the service | a thread job, the sound system, its listeners |
| Update service | leaves of ids, proxies, free ids | create, replace, remove, update | every node, affector and scheduler |
| Notification service | observers by id, deferred additions and removals | add, remove, visit | most services |
| Scheduler | events and timings, the additions of the frame | event, timing, remove, refresh, freeze, update | update service, scripts |
| Nodes of the scene graph (`Kernel/Node`) | parent and children; `m_enable`, `m_active`, `m_afterActive`, `m_deactivating`, `m_compile` | `enable`, `disable`, `addChild`, `removeFromParent`, `release` | hooks that run scripts, the update service |
| Scene service | current scene, the command that waits | set, restart, remove, update | scripts, nodes |
| Service provider | services, dependencies, waiters | initialise, finalise, wait, leave | every service |
| Graveyard, timeline, chronometer; animations, affectors, resources; containers | state machines of single objects | | |
| Rendering, files, codecs, input geometry, scripting, metacode, tools | adapters | | |

### What is hard, and what makes each part correct

* *Thread task.* Main thread and worker read and write the flags without a lock.
  `update()` reads `m_finish` twice, `main()` stores result and end separately,
  `join()` tests before it waits. Correct: the work is done at most once; the end
  is told at most once, never while the work runs, with the result of the work.
* *Thread job.* Status and id of a slot are tested without the mutex, and a
  worker can be ended from both sides. Correct: a worker is told its end once
  and never works afterwards; slots are neither lost nor shared.
* *Thread service.* The thread keeps a bare pointer to a task the service owns;
  the list of tasks changes under its own loop; joins wait for work. Correct: no
  thread keeps a task that was released, no task in progress is taken from its
  thread, nothing happens twice, every task leaves, every call returns.
* *Thread queue.* A packet is a task made of tasks, which clients cancel and join
  one by one while a thread iterates the packet. Correct: no task is lost or
  carried twice, order is kept, cancelling leaves nothing behind.
* *Update service, notification service, scheduler.* Re-entrancy: what a callback
  adds, removes or replaces while the list is visited.
* *Nodes and scenes.* A walk over the tree calls a hook before and after each
  node; the hooks of entities run scripts that enable, disable, move and release
  nodes of that very walk, or ask for another scene. Correct: between calls a node
  is active exactly when it is enabled, compiled and under an active parent, hooks
  alternate, one scene is active, a destroyed one is not.
* *Prefetcher, HTTP, sound.* Completions, workers and listeners that meet a
  receiver, a count or a sound that moved on. Correct: each receiver is listed as
  long as it is owed an answer, a cancelled request is never a success, files are
  kept as long as they are held, a sound that plays is fed and nothing else is.
* *Service provider.* Order of initialisation and finalisation.

The list of hazards with their lines is in `PROJECT.json` (`hazards`).

## The modules

| module | models |
|---|---|
| `TaskLifecycle` | the abstract promise of a task: new, started, working, worked, told once |
| `ThreadTask` | `Kernel/ThreadTask`, one action per access to a shared flag |
| `ThreadService`, `ThreadService_proofs` | `Services/ThreadService` with the identities of `Systems/SDLThreadSystem` (`Win32ThreadSystem` has the same logic), and its theorems |
| `ThreadJob` | `Kernel/ThreadJob`; what would have the name of a definition of `ThreadTask` has the prefix `Job` or `job` |
| `Kernel_proofs` | the theorems about `ThreadTask` and `ThreadJob` |
| `ThreadQueue`, `ThreadQueue_proofs` | `Services/ThreadService/ThreadQueue` with `Kernel/ThreadTaskPacket`, on a coarse thread service, and its theorems |
| `Scheduler`, `Scheduler_proofs` | `Kernel/Scheduler` with the client code its callbacks run, and its theorems |
| `UpdateService`, `UpdateService_proofs` | `Services/UpdateService` with `Kernel/BaseUpdation`, and its theorems |
| `NotificationService` | `Services/NotificationService` |
| `SoundService` | `Services/SoundService` on a coarse thread job |
| `Node` | `Kernel/Node` with `Kernel/Compilable`, `Kernel/Entity` and the iterator of the lists of children |
| `SceneService`, `SceneService_proofs` | `Services/SceneService`, which EXTENDS `Node`: its commands are steps on the same stack of calls; and the theorems about both |
| `PrefetcherService`, `PrefetcherService_proofs` | `Services/PrefetcherService` with the observers of `Plugins/ResourcePrefetcherPlugin`, and its theorems |
| `HttpService` | `Plugins/cURLPlugin` |
| `Services_proofs` | the theorems about `HttpService`, `NotificationService` and `SoundService`; the last two have names with a prefix (`NotificationInit`, `SoundSpec`) because one module speaks of all three |
| `MC*` | the finite sets and symmetry the runs use |

An operator named `Operation_Something` next to `Operation` is a *mutant*: the
operation with a plausible mistake. It is not part of the model; replacing
`Operation` by it makes a property of that module fail, which shows that the
property depends on the code it is about (`mutants` in `PROJECT.json`).

### ThreadTask

A task has the five flags of the code, its mutex, and the program counter of the
worker inside `main()`. The main thread is at one place in one task (`pc`,
`cur`). Every read or write of a flag the other side may write is a step of its
own: `UpdateTest`/`UpdateReturn` are the two reads of `m_finish` in `update()`,
`JoinTest`..`JoinComplete` the steps of `join()`, `MainEnter`..`MainUnlock`
those of `main()` and of the thread that locks the mutex around it. Flags that
only the main thread writes (`run`, `complete`, `cancel`) are read by the main
thread together with the step that uses them. `run()` is one action: nobody else
knows the task yet. Clients may cancel a task at any time, also twice
(`CancelAgain`), and join it only directly after a `cancel()` that returned true, as
`PrefetcherService::unfetch` does.

Observed are how often and with what `_onComplete()` was called, what `_onMain()`
returned, what the first `cancel()` returned (`cancelled`) and whether there was
another (`twice`), whether `update()` released the task, and `late`: the worker stored
`m_finish` between two reads of the main thread.

What the checks show, beyond that nothing happens twice and the result is never
torn (`FaithfulResult`): **a completion can be lost**. When the worker ends between the read of
`m_finish` in the test and the read in `return m_finish`, `update()` returns true
without calling `_onComplete()`, and the service drops the task
(`ReleasedAccounted` names this case, `late`, and shows that, apart from a
`cancel()` that nobody joined, it is the only one). `join()` has the same window.

A `cancel()` that returns false does not always mean that the owner was told, though
`unfetch()` goes by it: the first one does, a later one returns false whatever happened
(`ThreadTask.cpp:115-118`), also when the first caught the work under way and nobody
joined it, or the `join()` came too late. `CancelFalseSettles`, which is proved
(`FalseSettles`), says that these are the only cases.

`ThreadTask` implements `TaskLifecycle` (`LifecycleSpec`): the phase of a task is
read off `run`, the place of the worker and the result.

### ThreadService

`task` holds the flags, `tasks` is `m_tasks`, `held`, `lock` and `exit` are
`m_task`, `m_processLock` and `m_exit` of each identity. `owner` follows who has
the service's reference: it is given up by `update()`, `joinTask()` or
`stopTasks()`. The loops of `update()` and `stopTasks()` go task by task, so that
workers run in between; `update()` runs client code in the middle
(`pc = "callback"`) which may call `addTask()`. The swap with the last element on
removal is kept, and so is the count `lim` taken before the loop; that the list stays
that of the tasks the service owns, each once, is `OwnedAreListed`. A task is that
of `ThreadTask` with flags changed in coarser steps (a flag the worker writes and
the two reads of `update()` stay apart), which the finer model covers.

What the code allows and the properties name as exceptions:

* a client that cancels a task directly (not by `joinTask()`) must hold its own
  reference: `update()` drops it at the next frame while the thread may still
  work on it (`HeldIsOwned`, `direct`);
* `joinTask()` of a task that has already left its thread resets `m_task` of that
  thread, which may be the next task: that one is in progress for ever
  (`ProgressIsHeld`, `evicted`);
* a task whose `_onRun()` fails, or that is cancelled before it runs, never
  satisfies `m_run` and stays in `m_tasks` until `stopTasks()`; so does one whose
  thread was destroyed (`Stuck` in `Served`).

### ThreadJob

Per slot its worker, status and mutex; the program counters of the job thread and
of the main thread in `_onUpdate()`. The unlocked test of the status by the job
thread is a step of its own (`JobTest`, then `JobLock`). The unlocked tests by
the main thread are joined with the locked section behind them: only the main
thread writes ids and moves a slot from or to `ETS_FREE`, and a `done` that
arrives in between is read again or irrelevant to the branch taken. Code outside
the loop that asks for the end of the job (`joinTask()`, `stopTasks()`) is
`CancelJob`; `Finally` is `_onFinally()`, called after the thread was waited for.

`pauseWorker()` and `resumeWorker()` write the status whatever it was. A worker
whose `onWork()` returned false and that is resumed before the next frame works
again (`EndIsFinal` proves that only this revives it), and a pause hides its end
until it is resumed or removed (`EndIsTold`).

### ThreadQueue

Tasks are numbered in the order they are added, a packet is named by its first
task. `UpdateSlot` is `updateCurrentTask_()`: from the front of what waits it fills a
packet with the tasks that have not ended (`Live`) until it is full or nothing waits
(`Taken`), takes the next thread and posts the packet, which the thread may accept at
once (`Process`). `Offers` is the loop of `ThreadService::update()` that offers what
is not in progress to the threads. The loops over slots and packets are recursive
functions, so that they can be reasoned about. `update()` of a packet goes task by
task (`UpdateKid`) and then reads the packet's own `m_finish` twice (`UpdateFinish`,
`UpdateReturn`). The worker goes through the tasks of its packet without a lock on
the list (`WorkerKid`), and takes the packet's mutex around each. `cancelTaskQueue()`
joins the packet of each slot, then cancels what waits. That every packet of the
service has one slot (`PacketsHaveSlots`) holds in the middle of that loop too. The
tasks in `refuses` fail in `_onRun()`.

Exceptions found and named: a packet that finishes in the middle of its own
update forgets the tasks it has already passed (`missed`), and a packet released
by the second read of `m_finish` is neither complete nor cancelled, so its slot
is never given another packet until the queue is cancelled (`Blocked`).

Two error paths of `updateCurrentTask_()` are left out. `initialize()` of a packet
fails only without a mutex (`ThreadQueue.cpp:125-128`), and nothing was taken from the
queue yet. `addTask()` of the thread service (154-167) refuses when that service has
stopped or the thread was destroyed; its clients destroy their threads just before they
cancel the queue (`cURLService.cpp:101-122`), so that only a completion in the middle of
that `cancel()` could meet it, which is not modelled either. The tasks of the packet
then go back behind those that wait.

### Scheduler

`update()` is at one place of the list (`pc`, `pos`); every call out of it
(`onSchedulePipe`, `onScheduleTiming`, `onScheduleComplete`) is a state in which
clients may add, remove, refresh and freeze schedules or remove all. What they add
goes to `adds` and joins the list at the next frame. `removeAll()` goes through
the list, then through a copy of `adds` (`WipeList`, `WipeCopy`, `WipeAdds`), and
the clients it tells may call the scheduler in between. Times are multiples of a
unit. A pipe returns a member of `Delays` or ends its timing.

Exceptions found and named:

* `removeAll()` marks *copies* of the schedules that are still pending: they are
  told `onScheduleStop()`, stay in `m_schedulesAdd`, and fire later; a schedule
  may also be told twice that it stopped (`survivors` in `ToldOnce` and
  `StoppedIsQuiet`);
* a timing removed inside its own `onSchedulePipe()` fires through a null timer,
  or asks a null pipe, which `StoppedIsQuiet` shows is the only way `update()` meets a
  null pointer (`piped`);
* a pipe that returns a delay of 0 keeps `update()` in its loop for ever:
  `SchedulerAssumption` excludes it, the code does not.

### UpdateService

Ids name proxies and are listed in leaves, as in the code; the leaves are visited
in the order before, normal, after, each by depth. `LeafMoved`, `LeafRemoved` and
`LeafVisit` are the three ways of the loop, the first two with the swap; an
update is a state in which clients create, replace and remove. Only nodes are
replaced, and nodes have mode 0.

Exception found and named: `replaceUpdatater()` passes the depth of the *proxy*,
which is already doubled, to `getLeafUpdatable()`, which doubles it again. The id
is listed in the leaf of another depth; that leaf drops it when it comes across
it, so an updatable replaced to another depth is not updated any more (`moved` in
`EveryFrame`). If that other leaf is the one its next owner is in, the id is freed
while it is still listed and two updatables share it (`shared`, which
`IdsAreOwned` traces back to `replaceUpdatater()`). An id may also be freed twice: then
`m_proxyFrees` still lists it when it is given out. That takes seven replacements
and three depths, beyond the run; it was found when the invariant turned out not to be
inductive.

### NotificationService

`visits` is the stack of open visits (`m_visiting` is its length), each with its
id and place. A callable may add, remove and notify. `EndVisit` of the outermost
applies `m_add`, then `m_remove`. The callables are numbered, so that a property
can tell the one an observer was last added with. An observer adds itself only
when it is not registered and removes itself only when it is.

Exception found and named: `removeObserver_()` takes the first entry of an
observer, and each removal swaps the last entry into the gap. An observer removed
and added again while a visit is open therefore may keep its *old* callable, if
another observer of the id was removed too or if it happened twice (`readded` in
`LastAddedStays`).

### SoundService

`sound[s]` is an identity with its source (`stop`, `play`, `pause`, or none after
the stop of the service), `list` is `m_soundIdentities`, `slot` the job whose
slots its workers take. The steps of the job that matter here are `WorkEnds` (a
stream reached its end) and `JobUpdate` (the job frees the slot); `ThreadJob` has
the others. `tick()` first collects what has ended (`Tick`) and then tells the
listeners one by one (`TellEnd`, `EndReturns`), each of which may call the service;
`_stopService()` and turning streams on are loops of the same shape. A loop that
calls nobody is one action. `_stopService()` tells `onSoundStop()` to every listener that
is left, whatever the state of its sound (`QuitSound`, `SoundService.cpp:1579-1584`); a
sound released meanwhile has none (`HasListener`). A source may refuse to play or to take
a position, the job may be full.

Found, and named as the slips of a sound (`Slip`, `FedWhilePlaying`, `ToldOnce`):

* `stopEmitter()` while streams are off leaves the worker where it is; the next
  play meets it and starts none (`kept`);
* a play that finds no free slot is refused without a word (`refused`), one whose
  source fails stays in the state `play` (`failed`), and so does a sound that was
  paused before its source had started (`unstarted`);
* `releaseSoundSource()` erases an identity without stopping its worker: the slot
  belongs to nobody until the stream ends (`Orphan`);
* a refused position leaves the worker paused (`position`); a position asked of a
  paused sound sets its worker to work (`asked`);
* a listener told in `tick()` that releases another one due in the same tick makes
  the loop read a null listener (`crash`); one that plays it again is told its end
  while it plays (`replayed`);
* the stop of the service tells a listener that its sound stopped although it has heard
  the end or the stop of that play already, or hears it again because it stops its sound
  inside that very call (`Quit` in `ToldOnce`, which allows two there and one elsewhere).

### Node

A call is a stack of what is still to be done (`stack`): `activate()` of a node
pushes `_activate`, then `activated`, then the visit of its children, and so on. A
hook is an entry of the stack; while it is on top, `Script` lets client code push
another call, up to `MaxNested` per outermost call. That is how a script in
`_activate()` of one node can disable, move or release a node in the middle of the
walk that called it. The loops over several children keep what is left of them in
`rest`, where a child that is added or leaves is put in or taken out (`Joins`,
`Leaves`), as the slug iterator of the list of children does; an only child is
visited without a loop, as in the code. `compile()` may fail (`ActivateFails`).

`told` is what the hooks saw: nodes whose last hook was `_afterActivate()`.
`interrupted` are the nodes whose own walk a hook called into: there the walk
resumes with what it had decided before, and a node may end up active under an
inactive parent. This is the exception `ActiveIffReached` and `HooksAlternate` name
(`Settled`); what hooks do to any *other* node of the walk is covered without
exception.

### SceneService

A request is refused while another one waits; it is carried out inside the call
(`immediately`) or by `update()` at the end of the frame. `Steps` lists what each
kind of command does, in the order of `setCurrentScene_()`, `restartCurrentScene_()`
and `removeCurrentScene_()`: callbacks of scripts, `disable()`, `onDestroy()`, the
assignment of `m_scene`, `enableForce()`. The steps run on the stack of `Node`, so
that hooks and callbacks can request and walk in between. `Done` clears
`m_commands`.

Exception found and named: an immediate request from a hook of the scene that is
being changed runs inside its walk, which resumes afterwards (`interrupted` in
`OneScene` and `DestroyedIsInactive`). For the nodes below a scene the exception goes
up to the scene: when the hook of the last child of an inactive walk adds a subtree to
the scene, neither the child that was added nor what is under it is visited, and only
the child is one the hook called about.

### PrefetcherService

A batch is one call of `prefetchResources()`: a group of files and one observer.
`entry` is `m_prefetchReceiver`, which counts a file once per batch however its
task ended and knows whose observer its task was made for; `count` is the observer's
own counter. `CancelAll` is `cancel()` and `join()` of the tasks that
`unfetch()`, `popData()` or `_finalizeService()` drop. `holds` and `popped` are what
clients know.

Exceptions found and named in `ToldWhenAllEnded`:

* the observer counts a cancelled task twice, in `onPrefetchCancel()` and again in
  `onPrefetchComplete()`: the callback comes early, or the count passes zero and it
  never comes;
* a completion that cannot make its data on the main thread tells the observer
  nothing (`silent`): the callback never comes.

`popData()` erases a file whatever it is counted for, which is the exception of
`HeldIsKept` (`popped`).

### HttpService

`receivers` is `m_receiverDescs`, `status` and `cancelled` the task of each request,
`packet` where the queue has it: the service's queue has packets of one task, and a
packet holds a slot while it is `posted`, and for ever if it `blocks`. `UpdateSlots` gives
the free slots to tasks that wait, in any order. `Start` and `Finish` are the thread,
`Answer` is the frame, in which the packet finds the end of its task, and `_onComplete()`
looks for the receiver, moves the last one into its place and tells it. `PacketEnds` is
the end of the packet itself, which may come before it has looked (`ThreadTask.cpp:165-179`,
`ThreadTaskPacket.cpp:81-112`): it leaves with the task untold (`Missed`), by the second
read of `m_finish` also with its slot (`Blocked`). `cancel()`
of the task tells the failure at once unless the work is under way. `_stopService()`
goes through `m_receiverDescs` and joins each, whose completion removes from that
same vector: `end` is what the loop read at first, and `past` what the memory behind
the vector still holds.

Exceptions found and named:

* a request cancelled while its thread performs it is never told
  (`CancelledIsSettled`, `Answered`);
* one whose packet ends before it has seen the end of the request is never told, and one
  that waits when every slot is blocked is never performed (`Missed` and `Blocked` in
  `Answered`): the two losses `Served` of `ThreadQueue` names;
* a download cancelled before it ran, or that could not open its file, flushes a null
  file (`NoFile`, a crash);
* the loop of the stop passes over receivers that moved back and reads behind the
  end of the vector, where the destroyed pointer holds its old task or nothing;
* what is still listed at the stop, and was not reached, is never told: the
  properties speak of a service that runs.

## The runs

There is one run for each module; its configuration has the module's name.

| run | instance | question |
|---|---|---|
| `task` | 2 tasks, fair | every order of main thread and worker implements `TaskLifecycle`; the result told is that of the work; no lost completion but the two named; a running task is released |
| `job` | 2 slots, 3 workers, fair | end told, once, no work afterwards |
| `service` | 2 tasks, 2 threads, fair | what is listed, ownership, progress, at most once; calls return, tasks leave |
| `queue` | 3 tasks in packets of 2, 1 slot, any may refuse, fair | nothing lost or twice, packets stable and reachable, tasks end |
| `scheduler` | 2 schedules, delay 2, frames of 1 and 2, fair | told once, quiet when stopped, events end |
| `update` | 2 updatables, 2 ids, modes 0 and 3, 2 depths, 2 replacements | ids unshared, nobody skipped or updated twice |
| `notification` | 2 ids, 2 observers, 5 additions, visits 2 deep | deferred changes equal immediate ones |
| `sound` | a stream and a sound in memory, 1 slot, 1 may play at a time and one more | a sound that plays is fed, nothing else is; told once, and once more by the stop |
| `node` | a scene and 2 nodes, one call from a hook | active exactly when reached; hooks alternate |
| `scene` | 2 scenes and a node, one call from a hook | one scene active, a destroyed one inactive |
| `prefetch` | 3 batches, 2 files, every choice of groups | files kept while held; a batch told when its tasks ended |
| `http` | 3 requests, each a message or a download, 2 slots, fair | listed exactly while owed an answer; cancelled ones settled; all others answered but the two losses named |

**Bounds.** Each property about one task needs that task and a second one for the
main thread to be inside, or that is removed by the swap meanwhile. Two threads let
a task of one be confused with that of the other; the two tasks also compete for one
of them. Workers outnumber slots by one so that `addWorker()` can fail and a slot is
reused. Three tasks in packets of two give a packet that is full, one that is not,
and tasks that wait while one runs. Frames of 1 and 2 with a delay of 2 let an
event wait or fire at once, and a timing fire with a remainder, ask its pipe again and
wait; one of two schedules can be removed, added or frozen by the
other, before and after it in the list. Depths 1 and 2 make the wrong leaf of one
updatable the right one of another (4 = 2 * 2 * 1), and the second replacement is
what brings an id back. Five additions let both observers leave and return inside one
visit and one of them do so twice. One slot for two sounds is a full job as soon as a
worker of a released sound goes on; a sound lasts one tick, so that every pause falls
before or after its end. With a scene and two nodes a child has a sibling that a hook
can disturb, or a grandparent; one call from a hook is enough to interrupt a walk,
and a second outermost call to meet what it left behind. Two scenes are the old and
the new one. Three batches let a file outlive the batch that asked first while a
third one comes to it, and two files let a group have one that is known and one that
is not. Three requests are needed for the swap: one leaves, another moves, one stays.
With two slots one request waits while two are performed, and one slot may block while the
other goes on.

The bounds in guards are `T` and `Refusals` of the queue, `Schedule` (identities are
not used again), `MaxProxies` and `MaxReplaces`, `MaxDepth` and `MaxCallables`,
`MaxNested`, and in `PrefetcherService` and `HttpService` the sets of batches and
requests, each used once; the counters of observations are finite because the
properties hold, and two in `SoundService` saturate (`told`) or stay in `0..Length`.

`notification`, `node`, `scene`, `prefetch` and `http` check for deadlock: the first
three can always go on, the others have an explicit end (the service is closed or
stopped). The others set `CHECK_DEADLOCK FALSE` because these systems stop: all tasks done, the job
or the queue closed, the scheduler or the sound service at a null pointer, the sound
service finalised, or every id of the update service lost, which
happens when the leaf that lists a replaced id drops it before it is removed (the
code then makes new ones, the model stops at `MaxProxies`).

**Symmetry** is used where only safety or an action property is checked and the
module treats the values alike.

**Fairness.** Weak fairness of the main thread inside a call and of each worker:
the code has no unbounded loop but those modelled, and every `_onMain()`,
`onWork()` and callback is assumed to return. A worker that waits is woken by a
condition variable with a timeout of 1000 ms (`SDLThreadIdentity.cpp:137`), so a
lost signal delays but does not disable it. Frames follow each other:
`BeginUpdate` is part of the main thread's fairness; in `ThreadTask` and
`ThreadJob`, where other calls of the main thread may come in between, the frame
is strongly fair, since the loop reaches it however often clients are called
first. In `Scheduler` every callback is assumed to return, however often it calls
the scheduler before (`SF(Update)`), and frames to come (`SF(BeginUpdate)`). In
`HttpService` the queue looks for free slots every frame (`WF(UpdateQueue)`), and what
becomes of a request that has one goes on: a thread takes its packet, libcurl returns (its
timeouts are set by the code), and the frame finds one or the other end. This is
fairness of the four steps together (`WF(Perform)`) and of none alone: that the frame
sees the end of the request before the packet has ended is not guaranteed, and
`Answered` does not rest on it. No client call is fair.

## The proofs

For every set of tasks, threads, slots, workers, requests, batches, files, schedules,
updatables, ids, observers, sounds, nodes and scenes, and all packet sizes, delays, frames,
lengths, modes, depths and bounds of the guards, TLAPS checks every invariant and every
action property of the runs, and the refinement:

* `Kernel_proofs`: of the task, type correctness (`TypeCorrect`), the inductive invariant
  (`Inductive`), the safety invariants (`ToldOnce`,
  `WorkIsUndisturbed`, `ResultIsFaithful`, `FalseSettles`, `DropsAreAccounted`)
  and the refinement of `TaskLifecycle` (`Refinement`); of the job, type correctness
  (`JobTypeCorrect`), the inductive invariant (`JobInductive`) and the safety invariants
  (`JobToldOnce`, `DoneIsLast`, `SlotsAgree`, `WorkIsExclusive`, `EndIsFinal`).
* `ThreadQueue_proofs`: type correctness, the inductive invariant, that the tasks of a
  packet do not change while it is in the service (`KidsStable`), that each packet of the
  service has a slot of its own (`SlotsHold`) and that no task is lost, told twice or at
  work twice (`NotLost`).
* `ThreadService_proofs`: type correctness, the inductive invariant and the four safety
  invariants of the run (`OnceEach`, `OwnedListed`, `HeldAreOwned`, `ProgressStays`).
* `Services_proofs`: type correctness and the inductive invariant of each of the three
  services (`TypeCorrect`, `Inductive`; `NotificationTypeCorrect`, `NotificationInductive`;
  `SoundTypeCorrect`, `SoundInductive`); that the list of requests is exact
  (`ListIsExact`) and a cancelled request settled (`CancelSettles`); that the callable an
  observer was last added with stays (`LastAdded`); that what plays is fed and nothing
  else (`SoundFed`), and that a listener is told once (`SoundToldOnce`).
* `PrefetcherService_proofs`: type correctness, that files are kept while they are held
  (`HeldAreKept`) and that a batch is told at its end (`ToldAtTheEnd`), from two
  inductive invariants (`Inductive`, `EndInductive`).
* `Scheduler_proofs`: type correctness, the inductive invariant, that an end is told once
  (`EndIsToldOnce`) and that what was removed is quiet (`RemovedIsQuiet`).
* `UpdateService_proofs`: type correctness, the inductive invariant, that ids are owned
  (`IdsOwned`) and that a frame visits everybody once (`AllVisited`).
* `SceneService_proofs`: of the scenes, type correctness, the inductive invariant and that
  only the current scene is active (`OnlyCurrent`); of the nodes, that a node is active
  exactly when it is reached (`Reached`), that its updates start and end in turn
  (`Alternate`) and the inductive invariant (`NodeInductive`), which holds under the
  commands of the service too (`ServiceInductive`); and of both, that a destroyed scene is
  inactive with all that is in it (`Destroyed`).

Some invariants are proved and in no run: the types of `ThreadTask`, `ThreadJob`,
`ThreadService`, `HttpService`, `SoundService` and `Node`, `SlotConsistent` (a slot is
free exactly when it has no worker), `WorkIsLocked` and `EndedStaysEnded` of the job,
`CancelFalseSettles` of the task, and those of the task that `TaskLifecycle` implies.

The only assumptions are those on the constants (`NoTask` is not a task, `N` is a
natural number, `NoWorker` is not a worker, batches and files are finite in number, frames are
naturals and delays are positive, and the `QueueAssumption`, `HttpAssumption`,
`NotificationAssumption`, `SoundAssumption`, `ServiceAssumption`, `UpdateAssumption` and
`NodeAssumption` of their modules, which say as much: a packet has room for a task and a
queue has a thread (and so a slot), sounds and slots are finite in number and `Orphan` is none of them, a
sound has a length, `None` is no task, thread or node,
scenes are nodes, modes, depths and bounds are naturals).

*The argument for the task.* The safety properties are not inductive: from an
arbitrary state nothing forbids a completion of a task whose worker is about to
begin. `IInv` adds, per task, that the mutex is held exactly by who is in the
section it guards (`MutexInv`), which flags hold while the main thread is inside
a call (`BusyInv`), that what has been told is what the flags say (`CallsInv`,
`SettleInv`) and how far the worker has come when the flags have a value
(`ResultInv`). The proof that it is preserved has one step per action; steps that
touch another task are covered by a lemma (`UnseenStutters`). The refinement
needs only `IInv`: work begins only when nothing was told (`CallsInv`), and a
completion that reports success reports the stored result (`ResultInv`).

*The argument for the job.* A slot at work is locked and working (`WorkIsLocked`,
through `LockInv`), so neither side can free it; a worker in a slot was added and
not told (`AddedInv`); one that ended is either done, told, or was resumed
(`EndedInv`).

*The argument for the queue.* That no task is lost is about all the places a task can be
in. `QueueInv` says of each that it is the only one: tasks that wait, or were not added yet,
are touched by nothing (`Waits`); a packet of the service has a slot, is not complete, and
its tasks wait to be run or were run with it (`Carries`); no two packets carry one task and
no two slots hold one packet (`Apart`); a thread holds a packet of its own that was run, in
the service and unfinished until the thread leaves it, with its loop inside the tasks
(`Holds`); and a task that has not ended is in one of these places, unless it refused or a
packet missed it (`Found`). With it go who may cancel a packet, which is the close, and then
the packet leaves at once (`CancelInv`); that an end is told once and a task at work is so
on one thread (`CallInv`); and where the loops of the main thread are (`PlaceInv`).

One step of the queue makes many changes: a frame visits the slots in turn, and the service
offers each new packet to the threads in turn. `QueueInv` is therefore stated of a record
of the state (`QueueOf`), so that it can be followed through the functions that make the
step: each visit and each offer keeps it, and so does the whole loop (`StepByStep` and
`Steps`, which take a smallest number of rounds at which it would fail, where other provers
take an induction; that the recursive functions exist is shown in the same way). What is
left of each action is of one of four kinds, with a lemma each: the record becomes another
one that keeps it (`Becomes`), flags only age (`AgedKeeps`), packets leave (`ShrinksKeeps`),
a thread goes on (`ThreadKeeps`). When a packet finishes between the first and the last of
its tasks in one `update()`, it leaves with tasks it has not seen the end of; they are the
`missed` of `Found`.

*The argument for the thread service.* The list holds each task the service owns, once
(`ListInv`), but `stopTasks()` finishes tasks it has not removed yet. A thread holds a task
that was run and is in progress in the list at that thread, unless a client cancelled it
directly (`HoldInv`, `LinkInv`); no two hold the same one (`OnceInv`); and a thread is
inside `main()` exactly while its lock is taken (`LockInv`), so that a join or the end
of a thread never meets a task at work. With what the flags say of the calls so far
(`CountInv`, `FlagInv`, `EntryInv`) this gives the three properties.

*The argument for the HTTP service.* That the list is exact rests on the swap:
moving the last entry of a list without repetitions into the gap leaves the others,
each once (`MovedEntries`, `MovedLists`), whichever entry leaves. So an end takes its
own receiver and no other (`UnlistStep`), and `cancel()` settles nothing, crashes, or
tells exactly its receiver (`CancelCases`). The packets only decide whether a request is
told at all, and none of the promises rests on them. `IInv` joins the two properties with what
the stop needs: its loop meets only what was listed when it began, none of which was
told that it succeeded (`StopInv`); a request that was never made is in no list, one
that refused to run is a download (`MadeInv`); and a task is complete only when its
receiver was told (`CompleteInv`), without which the list could owe an answer nobody
will give.

*The argument for the notification service.* Between visits nothing waits (`QueueInv`).
While one is open, the additions and removals of an observer that wait take turns,
whatever the callables do, because an observer adds itself only when it is not registered
and removes itself only when it is. `CountInv` says so by numbers: the entries of an
observer and its additions that wait are as many as its removals that wait, and one more
when it is registered. So the end of the outermost visit, which does all additions and then
all removals, leaves one entry or none. Which one is `FreshInv`: the last callable is that of
the addition that waits last, or of the entry if none waits, unless the observer left
and came back in one visit (`readded`).

*The argument for the sound service.* Every listed sound is `Good`, in six parts: a slot
with its name is that of the worker it knows (`SlotOf`), and works only for one that plays,
but for a position asked of a paused sound and a stop while streams are off (`WorkOf`); the
source follows the identity (`SourceOf`); one that plays without a slip is fed by its source
and, if it is a stream, by a slot, which it has from its start to its stop (`FedOf`); its
listener has heard nothing of a play that goes on, and one stop more once the stop of the
service has come to it (`ToldOf`); and those `tick()` has still
to tell are stopped and not told (`DueOf`), unless played again by another listener. Each
operation changes one sound and at most one slot, which belongs to it or is free
(`FreeOf`), so the others stay good; the loops add what is left of them (`LoopInv`). The
steps of one sound are proved once, for the record of the sound, and used by the loops and by
the calls of clients.

*The argument for the prefetcher.* The count of an entry is never more than the number
of batches that hold its file, and equal to it unless `popData()` or the end of the
service dropped the entry meanwhile (`CountInv`). So
`unfetch()` counts an entry down to its end only when the batch that gives back was the
last one that held the file, which needs that a batch gives back all it asked for, and
not a part (`HoldsInv`).

For the end of a batch (`EndInv`), the observer counts a task off once when it is told,
and once or twice when it is cancelled. So what it still waits for lies between
the tasks not yet told less two for each cancelled one, and the same less one
(`BoundInv`), and it was told exactly when its count came to the end (`ToldInv`). A
batch without a cancelled and without a silent task has both bounds equal: it is told
with its last task.

*The argument for the scheduler.* Whatever the callbacks do, a schedule that was told
its end is dead (`EndInv`), and everything that tells or calls one tests that it is
alive. The only test that lies behind a callback is that of a timing after its pipe, so
`update()` is inside a dead schedule only where its own pipe removed it (`PlaceInv`),
which also needs that `removeAll()` is over whenever `update()` goes on. What
`removeAll()` tells copies of is the exception, `survivors`.

That a schedule is in the two lists once (`TypeCorrect`) rests on `Alive`, what
`std::remove_if()` leaves of a list. It is a recursive function, since the provers know
nothing of `SelectSeq`, and it has no induction over data either: that such a function
exists (`KeepsExists`), and that it keeps the elements that are alive, each as often as it
was there (`AliveProperties`), is proved by a smallest length at which it would fail
(`Smallest`). `RangeInv` adds that no time is negative, without which subtracting a
delay would leave the naturals.

*The argument for the update service.* An id that was never replaced is listed once, in a
leaf or among the free ones (`OnceInv`); one that is not shared belongs to the updatable
of its proxy (`OwnInv`). An updatable to which no exception applies has one home, a place
in the leaf of the depth its proxy names (`HomeInv`). `update()` visits a home when it
passes it, and the swap with the last entry moves a home from behind the place it is at
to that place, which it has not visited yet: an updatable due in this frame was updated
once if its home has been passed, and not at all before (`FrameInv`). At the end of the
loop all homes have been passed, which is `AllVisited`. Homes of ids that were replaced
are found by their depth, not by being the only entry.

*The argument for nodes and scenes.* `OneScene` is about two flags of a scene, but what
could break it are the steps on the stack of calls. `IInv` says of each of them what is
to come before it: a scene is activated only by the last steps of its own command, when it
is the current one (`ActivateInv`, `ForceInv`); another one becomes current only when
there is none (`CurrentInv`); the scene that is dropped is inactive by then, has a
deactivation before that on the stack, or was interrupted (`DropInv`, `LeaveInv`); and
the steps of two commands are never on the stack at once (`MarkInv`), since a request is
refused while `m_commands` has one. Walks and scripts put steps in the place of the
first one that are calm: none belongs to a command, and none activates a scene that was not
being activated. That a scene never has a parent (`RootInv`) is what keeps the walks of other
nodes away from scenes. One lemma (`CalmStep`) covers them all, and one each the end
of a step of a command (`CommandReturns`) and its beginning (`CommandStep`).

*The argument for the walks.* `ActiveIffReached` speaks of the states between calls, so
nothing of it holds while a walk is half done. `ReachInv` says what is true then, in three
parts. `OrderInv`: the tree has no cycle, and of two steps on the stack the upper one is
about a node that is not above the node of the lower one; steps of one node follow each
other as `activate()`, `deactivate()`, `disable()`, `release()` and the commands have them
(`Follows`); a loop has only children left, each once. `NodesOK`: the flags of a node
agree with the steps about it, so that one whose updates run has no start on the stack, and
one that is disabled and still active has its end there. `EdgesOK`: the flags of a node
agree with those of its parent, unless a step about the node or the loop of the parent will see
to it. When the stack is empty only the agreement is left, which is `Reached`.

No part holds of a node that a hook called about while it, or one below it, was being
walked; these are `interrupted` and left out. What is left to show for a call from a hook is
that the other steps on the stack are about nodes that are neither those it is about nor
below them, and that nothing above them is being deactivated (`CallUntouched`). A node that
moves changes the order itself: `DetachStep` and `AttachStep` show that it changes the lines only of the
nodes below it (`LineAttach`), which were not being walked. What is above a node is the
least set closed under parents, not a recursion, so that these facts need no induction
over the tree. Under the service the steps of a command are one such call
(`OrderlyCalls`).

`Destroyed` needs both invariants: `IInv` says that the scene was deactivated before, and
`ReachInv` that the nodes in it were.

Each inductive invariant was also checked by TLC, on the instance of its run or a smaller one.

*Only model-checked*: all liveness (`RunIsReleased`, `EndIsTold`, `MainReturns`,
`Served` of the service and of the queue, `Answered`, `EventEnds`), which needs fairness
and is out of the prover's reach.

## Not modelled

* Memory, destruction and reference counting, except where the service's
  reference is the last one (`owner`). Mutexes are ideal and atomics sequentially
  consistent, which is what `std::atomic` and the engine's atomics give.
* `ThreadService::waitMainThreadCode()`: nothing in the repository calls it.
  `_finalizeService()`; completions that add tasks while a queue or the service
  is being cancelled; a packet that cannot be initialised or is refused by the thread
  service (`ThreadQueue.cpp:125-128`, `154-167`, see above).
* `Scheduler`: the speed factor, the iteration counter, `removeAll()` inside
  `removeAll()`. `UpdateService`: that a creation moves the vector of proxies and
  a removal may destroy the object being updated. `NotificationService`: its
  finalisation, which asserts that no observer is left.
* `SoundService`: volumes and mixing, `setLoop()` after creation, mute, the content of
  buffers. `Node`: `freeze`, `addChildFront()` and `addChildAfter()`,
  `removeChildren()` and `destroyChildren()`, `recompile()`, an `_activate()` that
  fails, what scripts do in the hooks of compilation, and the trees of rendering and
  picking. `SceneService`: the global scene, which nothing activates,
  `destroyCurrentScene()` and `_finalizeService()`.
* `PrefetcherService`: a group that names a file twice, callbacks that call the service
  from inside it (what they do comes after the operation), the slots of the queue.
  `HttpService`: what libcurl does, cookies and parameters, the order of the tasks that
  wait, the threads of the queue; what receivers do in their callbacks comes after the operation.
* Service provider, graveyard, timeline and chronometers, affectors and animations,
  resources, kernel containers, input: planned or left, see below.
* Rendering, files, codecs, physics, platforms, Python bindings, metacode
  (generated), tools and examples. They are most of the repository's 228 000 lines:
  the map covers the parts that have a protocol, a small share of the whole, and what
  is left is adapters to devices and libraries, generated readers and writers,
  vendored code and byte-level decoding, whose state is elsewhere or whose
  correctness is a matter of data. Modelling it would add lines and no property.

## Plan

1. *Done*: `ThreadTask` and its abstraction, `ThreadService`, `ThreadJob`,
   `ThreadQueue`; proofs for task and job; the re-entrant services `Scheduler`,
   `UpdateService` and `NotificationService`.
2. *Done*: the clients of the threads, `PrefetcherService`, `HttpService` with its
   proofs, `SoundService`; the scene graph (`Node`) and `SceneService` composed with
   it; proofs for the scheduler and the prefetcher, then for the thread service, the
   update service, the end of a batch, the scenes and the walks of the nodes, and then for
   the queue, the notification service and the sound service.
3. Affectors on top of the update service, and the clients of the notification
   service against its assertion that no observer is left.
4. `ServiceProvider` (dependencies are initialised first and finalised last),
   closing of the thread service, and the re-entrant part of `ThreadQueue::cancel()`.
5. Kernel containers as algorithms against reference definitions: the open
   addressing hash table, the slugged intrusive list, the object pool.
6. Proofs: that `ThreadService` implements the coarse service `ThreadQueue` stands on, and
   `ThreadJob` the coarse job of `SoundService`, so that what is proved holds of the whole.
