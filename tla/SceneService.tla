----------------------------- MODULE SceneService -----------------------------
(***************************************************************************)
(* Services/SceneService on the scene graph: the current scene is set,     *)
(* restarted and removed by requests, one at a time, which are carried out *)
(* at the end of the frame or, immediately, inside the request.  Callbacks *)
(* and observers are told between the steps of a change, and the hooks of  *)
(* the scenes and of the nodes in them run under it.                       *)
(*                                                                         *)
(* The global scene is left out: nothing in the repository activates it.   *)
(***************************************************************************)
EXTENDS Node

VARIABLES
  scene,     \* m_scene
  commands   \* m_commands

sceneVars == <<scene, commands>>
vars == <<nodeVars, sceneVars>>

Command == [type : {"set", "restart", "remove"}, scene : Root \cup {None}]

TypeOK ==
  /\ NodeTypeOK
  /\ scene \in Root \cup {None}
  /\ commands \in Seq(Command) /\ Len(commands) <= 1

Init == NodeInit /\ scene = None /\ commands = <<>>

------------------------------------------------------------------------------
(* What a command does, in the order of setCurrentScene_(), ... *)

Tell == Do("callback", None)

\* Mutant: the scene is told that it is destroyed before it is disabled.
Ends_Destroys(s) == IF s = None THEN <<>>
           ELSE <<Do("onDestroy", s), Do("deactivate", s), Do("disabled", s), Do("dropped", s)>>

\* m_scene->disable(), onDestroy() and what follows, for a scene there is.
Ends(s) == IF s = None THEN <<>>
           ELSE <<Do("deactivate", s), Do("disabled", s), Do("onDestroy", s), Do("dropped", s)>>

\* Mutant: setCurrentScene_() that forgets the old scene without disabling it.
Steps_Forgets(c) ==
  CASE c.type = "set" ->
         <<Tell, Tell, Do("current", c.scene), Tell, Do("enableForce", c.scene), Tell>>
    [] c.type = "restart" ->
         <<Tell, Do("deactivate", scene), Do("disabled", scene), Tell, Do("enableForce", scene), Tell>>
    [] c.type = "remove" -> <<Tell>> \o Ends(scene) \o <<Tell>>

Steps(c) ==
  CASE c.type = "set" ->
         <<Tell>> \o Ends(scene) \o <<Tell, Do("current", c.scene), Tell, Do("enableForce", c.scene), Tell>>
    [] c.type = "restart" ->
         <<Tell, Do("deactivate", scene), Do("disabled", scene), Tell, Do("enableForce", scene), Tell>>
    [] c.type = "remove" -> <<Tell>> \o Ends(scene) \o <<Tell>>

OnDestroy ==
  /\ At("onDestroy")
  /\ Goto(<<Do("callback", Top.node)>>)
  /\ UNCHANGED <<tree, flags, told, sceneVars>>

Dropped ==
  /\ At("dropped")
  /\ scene' = None
  /\ Return
  /\ UNCHANGED <<tree, flags, told, commands>>

Current ==
  /\ At("current")
  /\ scene' = Top.node
  /\ Return
  /\ UNCHANGED <<tree, flags, told, commands>>

EnableForce ==
  /\ At("enableForce")
  /\ LET s == Top.node
     IN  /\ enabled' = [enabled EXCEPT ![s] = @ \/ ~active[s]]
         /\ Goto(IF active[s] THEN <<>> ELSE <<Do("activate", s)>>)
  /\ UNCHANGED <<tree, active, afterActive, deactivating, compiled, told, sceneVars>>

\* m_commands.clear()
Done ==
  /\ At("done")
  /\ commands' = <<>>
  /\ Return
  /\ UNCHANGED <<tree, flags, told, scene>>

------------------------------------------------------------------------------
(* The requests, and update() *)

\* Mutant: an immediate request that is not refused while another one waits.
Request_Immediate(c, immediately) ==
  /\ Script
  /\ commands = <<>> \/ immediately
  /\ c.type # "set" => scene # None
  /\ commands' = Append(commands, c)
  /\ IF immediately THEN Call({scene, c.scene} \ {None}, Steps(c) \o <<Do("done", None)>>, stack)
     ELSE Call({}, <<>>, stack)
  /\ UNCHANGED <<tree, flags, told, scene>>

\* setCurrentScene(), restartCurrentScene() and removeCurrentScene().
Request(c, immediately) ==
  /\ Script
  /\ commands = <<>>
  /\ c.type # "set" => scene # None
  /\ commands' = <<c>>
  /\ IF immediately THEN Call({scene, c.scene} \ {None}, Steps(c) \o <<Do("done", None)>>, stack)
     ELSE Call({}, <<>>, stack)
  /\ UNCHANGED <<tree, flags, told, scene>>

\* A scene that is current is restarted by the bindings instead of being set.
Requests ==
  \E immediately \in BOOLEAN :
    \/ \E s \in Root : s # scene /\ Request([type |-> "set", scene |-> s], immediately)
    \/ Request([type |-> "restart", scene |-> None], immediately)
    \/ Request([type |-> "remove", scene |-> None], immediately)

\* update(), which the application calls at the end of a frame.
Update ==
  /\ stack = <<>>
  /\ commands # <<>>
  /\ stack' = Steps(Head(commands)) \o <<Do("done", None)>>
  /\ nested' = 0
  /\ UNCHANGED <<tree, flags, told, interrupted, sceneVars>>

Next == \/ Walk /\ UNCHANGED sceneVars
        \/ Scripts /\ UNCHANGED sceneVars
        \/ OnDestroy \/ Dropped \/ Current \/ EnableForce \/ Done
        \/ Requests \/ Update

Spec == Init /\ [][Next]_vars

------------------------------------------------------------------------------
(* Properties *)

\* Two scenes are never active at once, and one that is active is the current one,
\* whichever requests the callbacks and hooks of a change make: unless one was
\* carried out immediately inside the walk of a scene, which resumes afterwards.
\* And nothing takes the scene away between the request of a restart and the end of
\* the frame, where restartCurrentScene_() uses m_scene without a test.
OneScene ==
  /\ \A s \in Root \ interrupted : active[s] => s = scene
  /\ \A c \in ToSet(commands) : c.type = "restart" => scene # None

\* When a scene is told onDestroy() it and the nodes in it are inactive, unless a
\* hook called about a node, or about one above it, in the middle of its walk: the
\* child that a hook brings into a walk it interrupts is not visited either.
DestroyedIsInactive ==
  [][OnDestroy =>
       \A n \in Nodes : Top.node \in Above(n) /\ Above(n) \cap interrupted = {}
                          => ~active[n]]_vars

===============================================================================
