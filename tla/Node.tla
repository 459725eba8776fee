--------------------------------- MODULE Node ---------------------------------
(***************************************************************************)
(* Kernel/Node with Kernel/Compilable: the nodes of the scene graph.  A    *)
(* node is active when it is enabled, compiled and its parent is active;   *)
(* activate() and deactivate() walk the tree and call a hook before and    *)
(* after.  The hooks of an entity run scripts, which call back into the    *)
(* tree: a call that is interrupted by such a hook goes on with what it    *)
(* left on the stack.                                                      *)
(*                                                                         *)
(* _activate() succeeds, as it does for nodes and entities.                *)
(***************************************************************************)
EXTENDS Integers, Sequences, FiniteSets, SequencesExt

CONSTANTS
  Nodes, None,
  Root,       \* nodes that scripts do not add to others: the scenes
  MaxNested   \* a bound: calls from hooks inside one outermost call

ASSUME NodeAssumption == None \notin Nodes /\ Root \subseteq Nodes /\ MaxNested \in Nat

VARIABLES
  parent, children,        \* m_parent and m_children
  enabled, active,         \* m_enable and m_active
  afterActive,             \* m_afterActive
  deactivating,            \* m_deactivating
  compiled,                \* m_compile
  stack,                   \* the open calls, what they still have to do first
  nested,                  \* calls made from hooks since the outermost call
  \* what the hooks observed
  told,         \* nodes whose last hook was _afterActivate() and not _deactivate()
  interrupted   \* nodes a hook called about in the middle of their own walk

tree == <<parent, children>>
flags == <<enabled, active, afterActive, deactivating, compiled>>
calls == <<stack, nested>>
nodeVars == <<tree, flags, calls, told, interrupted>>

\* The hooks of a node, and the callbacks of those who use nodes.
Hooks == {"_activate", "_afterActivate", "_deactivate", "_afterDeactivate", "callback"}
\* The loops of activate(), deactivate() and release() over several children.
Loops == {"activates", "deactivates", "releases"}
Do(op, n) == [op |-> op, node |-> n, rest |-> <<>>]

NodeTypeOK ==
  /\ parent \in [Nodes -> Nodes \cup {None}]
  /\ \A n \in Nodes : /\ parent[n] # n /\ IsInjective(children[n])
                      /\ ToSet(children[n]) = {c \in Nodes : parent[c] = n}
  /\ {enabled, active, afterActive, deactivating, compiled} \subseteq [Nodes -> BOOLEAN]
  /\ \A f \in ToSet(stack) : f.node \in Nodes \cup {None} /\ f.rest \in Seq(Nodes)
  /\ nested \in 0..MaxNested
  /\ told \subseteq Nodes /\ interrupted \subseteq Nodes

NodeInit ==
  /\ parent = [n \in Nodes |-> None]
  /\ children = [n \in Nodes |-> <<>>]
  /\ enabled = [n \in Nodes |-> TRUE]
  /\ active = [n \in Nodes |-> FALSE] /\ afterActive = active
  /\ deactivating = active /\ compiled = active
  /\ stack = <<>> /\ nested = 0
  /\ told = {} /\ interrupted = {}

------------------------------------------------------------------------------
(* The stack *)

Top == Head(stack)
At(op) == stack # <<>> /\ Top.op = op
Goto(frames) == stack' = frames \o Tail(stack) /\ UNCHANGED <<nested, interrupted>>
Return == Goto(<<>>)

\* A child that is added joins the loops over the children of its parent, one
\* that leaves is not visited any more: their position is an entry of the list.
\* An only child is visited without a loop.
Joins(frames, p, c) ==
  [k \in DOMAIN frames |-> IF frames[k].op \in Loops /\ frames[k].node = p
                           THEN [frames[k] EXCEPT !.rest = Append(@, c)] ELSE frames[k]]
Leaves(frames, c) ==
  [k \in DOMAIN frames |-> IF frames[k].op \in Loops
                           THEN [frames[k] EXCEPT !.rest = RemoveFirst(@, c)] ELSE frames[k]]

Visit(one, loop, then, n) ==
  CASE children[n] = <<>> -> <<Do(then, n)>>
    [] Len(children[n]) = 1 -> <<Do(one, children[n][1]), Do(then, n)>>
    [] OTHER -> <<[op |-> loop, node |-> n, rest |-> children[n]], Do(then, n)>>

\* One turn of a loop, which visits its children with one().
Loop(loop, one) ==
  /\ At(loop)
  /\ IF Top.rest = <<>> THEN Return
     ELSE Goto(<<Do(one, Head(Top.rest)), [Top EXCEPT !.rest = Tail(@)]>>)
  /\ UNCHANGED <<tree, flags, told>>
NextChild == \/ Loop("activates", "activate")
             \/ Loop("deactivates", "deactivate")
             \/ Loop("releases", "release")

------------------------------------------------------------------------------
(* activate() *)

\* A node that is not enabled is left alone; one that is compiled already only
\* when it is active.
ActivateSkips ==
  /\ At("activate")
  /\ LET n == Top.node
     IN  ~enabled[n] \/ (compiled[n] /\ active[n])
  /\ Return
  /\ UNCHANGED <<tree, flags, told>>

\* compile() fails.
ActivateFails ==
  /\ At("activate")
  /\ enabled[Top.node] /\ ~compiled[Top.node]
  /\ Return
  /\ UNCHANGED <<tree, flags, told>>

\* Mutant: activate() that does not test m_active.
Activate_Again ==
  /\ At("activate")
  /\ LET n == Top.node
     IN  /\ enabled[n]
         /\ compiled' = [compiled EXCEPT ![n] = TRUE]
         /\ Goto(<<Do("_activate", n), Do("activated", n)>>)
  /\ UNCHANGED <<tree, enabled, active, afterActive, deactivating, told>>

Activate ==
  /\ At("activate")
  /\ LET n == Top.node
     IN  /\ enabled[n]
         /\ compiled' = [compiled EXCEPT ![n] = TRUE]
         /\ ~(compiled[n] /\ active[n])
         /\ Goto(IF active[n] THEN <<>> ELSE <<Do("_activate", n), Do("activated", n)>>)
  /\ UNCHANGED <<tree, enabled, active, afterActive, deactivating, told>>

Activated ==
  /\ At("activated")
  /\ LET n == Top.node
     IN  /\ active' = [active EXCEPT ![n] = TRUE]
         /\ Goto(Visit("activate", "activates", "active", n))
  /\ UNCHANGED <<tree, enabled, afterActive, deactivating, compiled, told>>

\* _afterActivate() starts the updates of the node, unless one of its children
\* deactivated it.
AfterActivate ==
  /\ At("active")
  /\ LET n == Top.node
     IN  /\ afterActive' = [afterActive EXCEPT ![n] = @ \/ active[n]]
         /\ Goto(IF active[n] THEN <<Do("_afterActivate", n)>> ELSE <<>>)
         /\ told' = IF active[n] THEN told \cup {n} ELSE told
  /\ UNCHANGED <<tree, enabled, active, deactivating, compiled>>

------------------------------------------------------------------------------
(* deactivate() *)

DeactivateSkips ==
  /\ At("deactivate")
  /\ ~active[Top.node] \/ deactivating[Top.node]
  /\ Return
  /\ UNCHANGED <<tree, flags, told>>

\* _deactivate() ends the updates of the node.
Deactivate ==
  /\ At("deactivate")
  /\ LET n == Top.node
     IN  /\ active[n] /\ ~deactivating[n]
         /\ deactivating' = [deactivating EXCEPT ![n] = TRUE]
         /\ afterActive' = [afterActive EXCEPT ![n] = FALSE]
         /\ told' = told \ {n}
         /\ Goto(<<Do("_deactivate", n), Do("deactivated", n)>>)
  /\ UNCHANGED <<tree, enabled, active, compiled>>

Deactivated ==
  /\ At("deactivated")
  /\ Goto(Visit("deactivate", "deactivates", "inactive", Top.node))
  /\ UNCHANGED <<tree, flags, told>>

AfterDeactivate ==
  /\ At("inactive")
  /\ LET n == Top.node
     IN  /\ active' = [active EXCEPT ![n] = FALSE]
         /\ deactivating' = [deactivating EXCEPT ![n] = FALSE]
         /\ Goto(<<Do("_afterDeactivate", n)>>)
  /\ UNCHANGED <<tree, enabled, afterActive, compiled, told>>

------------------------------------------------------------------------------
(* The ends of disable(), removeChild() and release() *)

Disabled ==
  /\ At("disabled")
  /\ enabled' = [enabled EXCEPT ![Top.node] = FALSE]
  /\ Return
  /\ UNCHANGED <<tree, active, afterActive, deactivating, compiled, told>>

Detach(n) ==
  /\ parent' = [parent EXCEPT ![n] = None]
  /\ children' = [children EXCEPT ![parent[n]] = RemoveFirst(@, n)]

\* removeChild() of the parent in rest, unless the child has another one by now.
Removed ==
  /\ At("removed")
  /\ LET n == Top.node
     IN  IF parent[n] = Top.rest[1]
         THEN Detach(n) /\ stack' = Leaves(Tail(stack), n)
         ELSE UNCHANGED tree /\ stack' = Tail(stack)
  /\ UNCHANGED <<flags, nested, told, interrupted>>

Release ==
  /\ At("release")
  /\ Goto(<<Do("deactivate", Top.node), Do("releaseChildren", Top.node)>>)
  /\ UNCHANGED <<tree, flags, told>>

ReleaseChildren ==
  /\ At("releaseChildren")
  /\ Goto(Visit("release", "releases", "released", Top.node))
  /\ UNCHANGED <<tree, flags, told>>

Released ==
  /\ At("released")
  /\ compiled' = [compiled EXCEPT ![Top.node] = FALSE]
  /\ Return
  /\ UNCHANGED <<tree, enabled, active, afterActive, deactivating, told>>

HookReturns ==
  /\ stack # <<>> /\ Top.op \in Hooks
  /\ Return
  /\ UNCHANGED <<tree, flags, told>>

------------------------------------------------------------------------------
(* What scripts call, between calls and inside the hooks *)

\* A node and those above it, which scripts do not add to it.
Above(n) ==
  {m \in Nodes : \A above \in SUBSET Nodes :
     n \in above /\ (\A x \in above : parent[x] \in above \cup {None}) => m \in above}

Script == stack # <<>> => Top.op \in Hooks /\ nested < MaxNested

\* A call from a hook about nodes interrupts the walks that have begun at or below
\* them, and those of the nodes above them that are being deactivated.
Interrupts(about) ==
  {n \in Nodes : /\ \E f \in ToSet(stack) : f.node = n
                 /\ Above(n) \cap about # {}}
    \cup {n \in about : stack # <<>> /\ \E m \in Above(n) : deactivating[m]}

Call(about, frames, under) ==
  /\ stack' = frames \o under
  /\ nested' = IF stack = <<>> THEN 0 ELSE nested + 1
  /\ interrupted' = interrupted \cup Interrupts(about)

Under(p) == p # None => active[p]

\* enable() leaves a node without a parent alone, enableForce() does not.
Enable(n, force) ==
  /\ Script
  /\ enabled' = [enabled EXCEPT ![n] = @ \/ ~active[n]]
  /\ Call({n},
          IF ~active[n] /\ Under(parent[n]) /\ (force \/ parent[n] # None)
          THEN <<Do("activate", n)>> ELSE <<>>,
          stack)
  /\ UNCHANGED <<tree, active, afterActive, deactivating, compiled, told>>

Disable(n) ==
  /\ Script
  /\ Call({n}, <<Do("deactivate", n), Do("disabled", n)>>, stack)
  /\ UNCHANGED <<tree, flags, told>>

\* Mutant: addChild() that leaves the child as active as it was.
AddChild_NoSync(p, n) ==
  /\ Script
  /\ n \notin Root \cup Above(p)
  /\ parent' = [parent EXCEPT ![n] = p]
  /\ children' = [m \in Nodes |-> IF m = p THEN Append(RemoveFirst(children[m], n), n)
                                           ELSE RemoveFirst(children[m], n)]
  /\ Call({p, n}, <<>>, Joins(Leaves(stack, n), p, n))
  /\ UNCHANGED <<flags, told>>

\* addChild(): the child is moved to the end of the children of p and made as
\* active as p is.  Adding the last child again does nothing.
AddChild(p, n) ==
  /\ Script
  /\ n \notin Root \cup Above(p)
  /\ parent' = [parent EXCEPT ![n] = p]
  /\ children' = [m \in Nodes |-> IF m = p THEN Append(RemoveFirst(children[m], n), n)
                                           ELSE RemoveFirst(children[m], n)]
  /\ IF parent[n] = p /\ Last(children[p]) = n THEN Call({p, n}, <<>>, stack)
     ELSE Call({p, n},
               CASE active[p] = active[n] -> <<>>
                 [] active[n] /\ ~active[p] -> <<Do("deactivate", n)>>
                 [] active[p] /\ ~active[n] -> <<Do("activate", n)>>,
               Joins(Leaves(stack, n), p, n))
  /\ UNCHANGED <<flags, told>>

RemoveFromParent(n) ==
  /\ Script
  /\ parent[n] # None
  /\ Call({n}, <<Do("deactivate", n), [op |-> "removed", node |-> n, rest |-> <<parent[n]>>]>>, stack)
  /\ UNCHANGED <<tree, flags, told>>

CallRelease(n) ==
  /\ Script
  /\ Call({n}, <<Do("release", n)>>, stack)
  /\ UNCHANGED <<tree, flags, told>>

Scripts == \E n \in Nodes :
             \/ Enable(n, FALSE)
             \/ Disable(n)
             \/ \E p \in Nodes : AddChild(p, n)
             \/ RemoveFromParent(n)
             \/ CallRelease(n)

Walk == \/ ActivateSkips \/ ActivateFails \/ Activate \/ Activated \/ AfterActivate
        \/ DeactivateSkips \/ Deactivate \/ Deactivated \/ AfterDeactivate
        \/ Disabled \/ Removed \/ Release \/ ReleaseChildren \/ Released
        \/ NextChild \/ HookReturns

\* The scenes are enabled by enableForce().
NodeNext == Walk \/ Scripts \/ \E n \in Root : Enable(n, TRUE)

NodeSpec == NodeInit /\ [][NodeNext]_nodeVars

------------------------------------------------------------------------------
(* Properties *)

Settled(n) == n \notin interrupted /\ parent[n] \notin interrupted

\* Between calls a node is active exactly when it is enabled, compiled and under an
\* active parent, and its updates run exactly then: whatever hooks did to other
\* nodes during the walks, no child was missed, visited under a parent that is
\* inactive by now, or left behind by a move.  A scene may be enabled and inactive.
ActiveIffReached ==
  stack = <<>> =>
    \A n \in Nodes : Settled(n) =>
      /\ active[n] => enabled[n] /\ compiled[n] /\ Under(parent[n])
      /\ enabled[n] /\ compiled[n] /\ parent[n] # None /\ Under(parent[n]) => active[n]
      /\ n \in told <=> active[n]
      /\ afterActive[n] = active[n] /\ ~deactivating[n]

\* _afterActivate() and _deactivate() of a node alternate, so that its updatater is
\* never created twice or removed twice (BaseUpdation counts on it), unless a hook
\* called about a node in the middle of its own walk.
HooksAlternate ==
  [][\A n \in Nodes : Settled(n) =>
       /\ AfterActivate /\ n = Top.node /\ active[n] => n \notin told
       /\ Deactivate /\ n = Top.node => n \in told]_nodeVars

===============================================================================
