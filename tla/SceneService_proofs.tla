------------------------- MODULE SceneService_proofs -------------------------
(***************************************************************************)
(* Proofs about SceneService on Node, for any number of nodes and scenes   *)
(* and any depth of calls from hooks.  The steps of a walk and the calls   *)
(* of scripts put other steps in the place of the first one: what they do  *)
(* to a scene is calm, and keeps the invariant by one lemma, CalmStep.     *)
(* Those of a command of the service are its own.                          *)
(*                                                                         *)
(* The second half is about the walks: the tree has no cycle and the steps *)
(* go down in it (OrderInv), the flags of a node agree with the steps      *)
(* about it (NodeOK), and with those of its parent unless a step will see  *)
(* to it (EdgeOK).  A node that a call from a hook interrupted is left out *)
(* of both.                                                                *)
(***************************************************************************)
EXTENDS SceneService, SequenceTheorems, WellFoundedInduction, TLAPS

\* The steps only a command of the service leaves on the stack.
Marks == {"onDestroy", "dropped", "current", "enableForce", "done"}

\* The steps of a walk, all of which are about a node.
Walks == {"_activate", "_afterActivate", "_deactivate", "_afterDeactivate",
          "activate", "activated", "active", "deactivate", "deactivated", "inactive",
          "disabled", "removed", "release", "releaseChildren", "released"}
          \cup Loops \cup {"onDestroy", "dropped", "current", "enableForce"}

Frame == [op : Walks \cup {"callback", "done"}, node : Nodes \cup {None}, rest : Seq(Nodes)]

\* A frame is about a node, and no loop over children is about a scene.
Good(f) ==
  /\ f \in Frame
  /\ f.op \in Walks => f.node \in Nodes
  /\ f.op \in {"dropped", "current", "enableForce"} => f.node \in Root
  /\ f.op = "removed" => f.rest # <<>>
  /\ f.op \in Loops => \A k \in 1..Len(f.rest) : f.rest[k] \notin Root

AllGood(frames) == frames \in Seq(Frame) /\ \A k \in 1..Len(frames) : Good(frames[k])

FrameInv == AllGood(stack)

Op(k) == stack[k].op
Who(k) == stack[k].node
Places == 1..Len(stack)
Before(k) == 1..(k - 1)

\* Nobody is the parent of a scene.
RootInv == \A s \in Root : parent[s] = None

\* The steps of a command are those of the one that is carried out, and end with it.
MarkInv ==
  \A k \in Places : Op(k) \in Marks =>
    /\ commands # <<>>
    /\ Op(k) = "done" => \A j \in Places : j > k => Op(j) \notin Marks
    /\ Op(k) \in {"dropped", "current"} => Head(commands).type # "restart"

\* A scene is activated only by its own command, when it is the current one.
ActivateInv ==
  \A k \in Places : Op(k) \in {"activate", "activated"} /\ Who(k) \in Root =>
    /\ Who(k) = scene /\ commands # <<>>
    /\ \A j \in Before(k) : Op(j) \notin Marks

\* The scene a command enables is the current one by then.
ForceInv ==
  \A k \in Places : Op(k) = "enableForce" =>
    \/ Who(k) = scene /\ \A j \in Before(k) : Op(j) \notin {"dropped", "current"}
    \/ \E j \in Before(k) : Op(j) = "current" /\ Who(j) = Who(k)

\* There is no scene when another one becomes the current one.
CurrentInv ==
  \A k \in Places : Op(k) = "current" =>
    /\ \A j \in Places : j > k => Op(j) \notin {"dropped", "current"}
    /\ scene = None \/ \E j \in Before(k) : Op(j) = "dropped"

Leaving(j, s) == Who(j) = s /\ Op(j) \in {"deactivate", "deactivated", "inactive"}

\* The scene that is dropped is inactive by then, or was interrupted.
DropInv ==
  \A k \in Places : Op(k) = "dropped" =>
    /\ Who(k) = scene
    /\ \A j \in Before(k) : /\ Op(j) \notin {"enableForce", "current", "dropped"}
                            /\ ~(Op(j) \in {"activate", "activated"} /\ Who(j) \in Root)
    /\ scene \notin interrupted =>
         /\ active[scene] => \E j \in Before(k) : Leaving(j, scene)
         /\ \A j \in Places : j > k => Who(j) # scene \/ Op(j) \notin {"deactivated", "inactive"}

\* A scene that is being deactivated has a call on the stack that does it.
LeaveInv ==
  \A s \in Root : deactivating[s] =>
    \E k \in Places : Who(k) = s /\ Op(k) \in {"deactivated", "inactive"}

\* The tree: the lists of children agree with the parents, and a scene has no parent.
TreeInv ==
  /\ parent \in [Nodes -> Nodes \cup {None}] /\ children \in [Nodes -> Seq(Nodes)]
  /\ \A n \in Nodes : /\ parent[n] # n /\ IsInjective(children[n])
                      /\ ToSet(children[n]) = {c \in Nodes : parent[c] = n}
  /\ RootInv

\* The flags and what was observed, and the scene and the command that waits.
FlagInv ==
  /\ {enabled, active, afterActive, deactivating, compiled} \subseteq [Nodes -> BOOLEAN]
  /\ nested \in 0..MaxNested
  /\ told \subseteq Nodes /\ interrupted \subseteq Nodes
ServiceInv ==
  /\ scene \in Root \cup {None}
  /\ commands \in Seq(Command) /\ Len(commands) <= 1
  /\ commands # <<>> /\ Head(commands).type = "set" => Head(commands).scene # None

SceneInv ==
  MarkInv /\ ActivateInv /\ ForceInv /\ CurrentInv /\ DropInv /\ LeaveInv /\ OneScene
IInv == TreeInv /\ FlagInv /\ ServiceInv /\ FrameInv /\ SceneInv
------------------------------------------------------------------------------
(* Sequences *)

\* Every set of numbers that is not empty has a smallest one.
LEMMA Smallest ==
  ASSUME NEW T \in SUBSET Nat, T # {}
  PROVE  \E x \in T : \A y \in T : x <= y
<1> DEFINE R == {ss \in Nat \X Nat : ss[1] < ss[2]}
<1>1. IsWellFoundedOn(R, Nat)
  BY NatLessThanWellFounded DEF OpToRel
<1>2. \E x \in T : \A y \in T : <<y, x>> \notin R
  <2> HIDE DEF R
  <2> QED
    BY <1>1, WFMin
<1>3. PICK x \in T : \A y \in T : <<y, x>> \notin R
  BY <1>2
<1>4. ASSUME NEW y \in T PROVE x <= y
  <2>1. x \in Nat /\ y \in Nat /\ <<y, x>> \in Nat \X Nat
    OBVIOUS
  <2>2. ~(<<y, x>>[1] < <<y, x>>[2])
    BY <1>3, <2>1
  <2> QED
    BY <2>1, <2>2
<1> QED
  BY <1>4

\* A sequence without one of its elements.
LEMMA RemoveFirstProperties ==
  ASSUME NEW S, NEW q \in Seq(S), NEW e
  PROVE  /\ RemoveFirst(q, e) \in Seq(S)
         /\ ToSet(RemoveFirst(q, e)) \subseteq ToSet(q)
         /\ IsInjective(q) => /\ IsInjective(RemoveFirst(q, e))
                              /\ ToSet(RemoveFirst(q, e)) = ToSet(q) \ {e}
<1>1. CASE ~\E i \in 1..Len(q) : q[i] = e
  <2>1. RemoveFirst(q, e) = q
    BY <1>1 DEF RemoveFirst
  <2>2. ToSet(q) \ {e} = ToSet(q)
    BY <1>1 DEF ToSet
  <2> QED
    BY <2>1, <2>2
<1>2. CASE \E i \in 1..Len(q) : q[i] = e
  <2> DEFINE I == {i \in 1..Len(q) : q[i] = e}
             n == Min(I)
             r == RemoveFirst(q, e)
  <2>1. n \in 1..Len(q) /\ q[n] = e
    <3>1. PICK i \in I : TRUE
      BY <1>2
    <3>2. \E x \in I : \A y \in I : x <= y
      <4>1. I \in SUBSET Nat /\ I # {}
        BY <3>1
      <4> QED
        BY <4>1, Smallest
    <3>3. n \in I
      BY <3>2 DEF Min
    <3> QED
      BY <3>3
  <2>2. r = SubSeq(q, 1, n - 1) \o SubSeq(q, n + 1, Len(q))
    BY <1>2 DEF RemoveFirst, RemoveAt, SelectInSeq
  <2> HIDE DEF n, r, I
  <2> DEFINE a == SubSeq(q, 1, n - 1)
             b == SubSeq(q, n + 1, Len(q))
  <2>3. /\ a \in Seq(S) /\ Len(a) = n - 1 /\ \A i \in 1..(n - 1) : a[i] = q[i]
        /\ b \in Seq(S) /\ Len(b) = Len(q) - n /\ \A i \in 1..(Len(q) - n) : b[i] = q[i + n]
    BY <2>1
  <2> HIDE DEF a, b
  <2>4. r = a \o b
    BY <2>2 DEF a, b
  <2>5. r \in Seq(S) /\ Len(r) = Len(q) - 1 /\ Len(q) \in Nat
        /\ \A i \in 1..(Len(q) - 1) : r[i] = IF i < n THEN q[i] ELSE q[i + 1]
    <3>1. /\ r \in Seq(S) /\ Len(r) = Len(a) + Len(b)
          /\ \A i \in 1..(Len(a) + Len(b)) : r[i] = IF i <= Len(a) THEN a[i] ELSE b[i - Len(a)]
      BY <2>3, <2>4, ConcatProperties
    <3>2. Len(q) \in Nat
      OBVIOUS
    <3>3. ASSUME NEW i \in 1..(Len(q) - 1), i >= n PROVE r[i] = q[i + 1]
      <4> DEFINE k == i - (n - 1)
      <4>0. i \in 1..(Len(a) + Len(b)) /\ ~(i <= Len(a)) /\ i - Len(a) = k /\ k \in 1..(Len(q) - n)
        BY <2>1, <2>3, <3>2, <3>3
      <4>1. r[i] = b[k] /\ k \in 1..(Len(q) - n)
        BY <3>1, <4>0
      <4>2. k + n = i + 1
        BY <2>1
      <4> HIDE DEF k
      <4> QED
        BY <2>3, <4>1, <4>2
    <3>4. ASSUME NEW i \in 1..(Len(q) - 1), i < n PROVE r[i] = q[i]
      <4>1. i \in 1..(Len(a) + Len(b)) /\ i <= Len(a) /\ i \in 1..(n - 1)
        BY <2>1, <2>3, <3>2, <3>4
      <4> QED
        BY <2>3, <3>1, <4>1
    <3>5. Len(r) = Len(q) - 1
      BY <2>1, <2>3, <3>1, <3>2
    <3>6. ASSUME NEW i \in 1..(Len(q) - 1) PROVE r[i] = IF i < n THEN q[i] ELSE q[i + 1]
      BY <2>1, <3>3, <3>4
    <3> QED
      BY <3>1, <3>2, <3>5, <3>6
  <2>6. ToSet(r) \subseteq ToSet(q)
    BY <2>1, <2>5 DEF ToSet
  <2>7. ASSUME IsInjective(q)
        PROVE  IsInjective(r) /\ ToSet(r) = ToSet(q) \ {e}
    <3>1. \A i, j \in 1..Len(q) : q[i] = q[j] => i = j
      BY <2>7 DEF IsInjective
    <3>2. \A i, j \in 1..Len(r) : r[i] = r[j] => i = j
      BY <3>1, <2>1, <2>5
    <3>3. \A x \in ToSet(r) : x \in ToSet(q) /\ x # e
      BY <3>1, <2>1, <2>5 DEF ToSet
    <3>4. ASSUME NEW x \in ToSet(q), x # e PROVE x \in ToSet(r)
      <4>1. PICK i \in 1..Len(q) : q[i] = x
        BY DEF ToSet
      <4>2. i # n
        BY <4>1, <3>4, <2>1
      <4>3. CASE i < n
        BY <4>1, <4>3, <2>1, <2>5 DEF ToSet
      <4>4. CASE i > n
        <5>1. i - 1 \in 1..(Len(q) - 1) /\ r[i - 1] = q[i]
          BY <4>4, <2>1, <2>5
        <5> QED
          BY <4>1, <5>1, <2>5 DEF ToSet
      <4> QED
        BY <4>2, <4>3, <4>4, <2>1
    <3>5. DOMAIN r = 1..Len(r)
      BY <2>5
    <3> QED
      BY <3>2, <3>3, <3>4, <3>5 DEF IsInjective
  <2> QED
    BY <2>5, <2>6, <2>7 DEF r
<1> QED
  BY <1>1, <1>2

------------------------------------------------------------------------------
(* The stack *)

\* Two stacks that differ in what their loops still visit, if in anything.
Same(one, other) ==
  /\ Len(one) = Len(other)
  /\ \A k \in 1..Len(one) : one[k].op = other[k].op /\ one[k].node = other[k].node

\* The stack of the next state: new steps in place of the first cut ones.
Slides(new, cut) ==
  /\ Len(stack') = Len(new) + Len(stack) - cut
  /\ \A k \in 1..Len(new) : Op(k)' = new[k].op /\ Who(k)' = new[k].node
  /\ \A k \in Places : k > cut =>
       Op(k + Len(new) - cut)' = Op(k) /\ Who(k + Len(new) - cut)' = Who(k)

\* The steps of one list before those of another.
LEMMA GoodConcat ==
  ASSUME NEW new, NEW under, AllGood(new), AllGood(under)
  PROVE  /\ AllGood(new \o under)
         /\ Len(new \o under) = Len(new) + Len(under) /\ Len(new) \in Nat /\ Len(under) \in Nat
         /\ \A k \in 1..Len(new) : (new \o under)[k] = new[k]
         /\ \A k \in 1..Len(under) : (new \o under)[k + Len(new)] = under[k]
<1>1. new \in Seq(Frame) /\ under \in Seq(Frame) /\ Len(new) \in Nat /\ Len(under) \in Nat
  BY DEF AllGood
<1> DEFINE both == new \o under
<1>2. /\ both \in Seq(Frame) /\ Len(both) = Len(new) + Len(under)
      /\ \A k \in 1..(Len(new) + Len(under)) : both[k] = IF k <= Len(new) THEN new[k] ELSE under[k - Len(new)]
  BY <1>1, ConcatProperties
<1> HIDE DEF both
<1>3. \A k \in 1..Len(new) : both[k] = new[k]
  BY <1>1, <1>2
<1>4. ASSUME NEW k \in 1..Len(under) PROVE both[k + Len(new)] = under[k]
  <2> DEFINE j == k + Len(new)
  <2>1. j \in 1..(Len(new) + Len(under)) /\ ~(j <= Len(new)) /\ j - Len(new) = k
    BY <1>1
  <2> HIDE DEF j
  <2>2. both[j] = under[k]
    BY <2>1, <1>2
  <2> QED
    BY <2>2 DEF j
<1>5. ASSUME NEW k \in 1..Len(both) PROVE Good(both[k])
  <2>1. CASE k <= Len(new)
    BY <2>1, <1>1, <1>2, <1>3 DEF AllGood
  <2>2. CASE k > Len(new)
    <3> DEFINE j == k - Len(new)
    <3>1. j \in 1..Len(under) /\ both[k] = under[j]
      BY <2>2, <1>1, <1>2
    <3> QED
      BY <3>1 DEF AllGood
  <2> QED
    BY <2>1, <2>2, <1>1, <1>2
<1> QED
  BY <1>1, <1>2, <1>3, <1>4, <1>5 DEF AllGood, both

\* A list of steps that are about nodes.
LEMMA Good0 == AllGood(<<>>) /\ Len(<<>>) = 0
  BY DEF AllGood

\* Stacks of one and of two good frames.
LEMMA Good1 ==
  ASSUME NEW f, Good(f)
  PROVE  AllGood(<<f>>) /\ Len(<<f>>) = 1 /\ <<f>>[1] = f
<1>1. f \in Frame
  BY DEF Good
<1> QED
  BY <1>1 DEF AllGood

LEMMA Good2 ==
  ASSUME NEW f, NEW g, Good(f), Good(g)
  PROVE  AllGood(<<f, g>>) /\ Len(<<f, g>>) = 2 /\ <<f, g>>[1] = f /\ <<f, g>>[2] = g
<1>1. f \in Frame /\ g \in Frame
  BY DEF Good
<1>2. <<f, g>> \in Seq(Frame) /\ Len(<<f, g>>) = 2 /\ <<f, g>>[1] = f /\ <<f, g>>[2] = g
  BY <1>1
<1>3. \A k \in 1..2 : k = 1 \/ k = 2
  OBVIOUS
<1> QED
  BY <1>2, <1>3 DEF AllGood

\* Calls put their steps on the stack.
LEMMA CallSlides ==
  ASSUME FrameInv, NEW new, AllGood(new), NEW under, AllGood(under), Same(under, stack),
         stack' = new \o under
  PROVE  FrameInv' /\ Slides(new, 0)
<1>1. /\ AllGood(stack') /\ Len(stack') = Len(new) + Len(under) /\ Len(new) \in Nat
      /\ \A k \in 1..Len(new) : stack'[k] = new[k]
      /\ \A k \in 1..Len(under) : stack'[k + Len(new)] = under[k]
  BY GoodConcat
<1>2. Len(stack) \in Nat /\ Len(under) = Len(stack)
  BY DEF FrameInv, AllGood, Same
<1>3. ASSUME NEW k \in Places, k > 0
      PROVE  Op(k + Len(new) - 0)' = Op(k) /\ Who(k + Len(new) - 0)' = Who(k)
  <2>1. k \in 1..Len(under) /\ k + Len(new) - 0 = k + Len(new)
    BY <1>1, <1>2 DEF Places
  <2>2. stack'[k + Len(new)].op = stack[k].op /\ stack'[k + Len(new)].node = stack[k].node
    BY <2>1, <1>1 DEF Same
  <2> QED
    BY <2>1, <2>2 DEF Op, Who
<1>4. Len(stack') = Len(new) + Len(stack) - 0
  BY <1>1, <1>2
<1>5. \A k \in 1..Len(new) : Op(k)' = new[k].op /\ Who(k)' = new[k].node
  BY <1>1 DEF Op, Who
<1>6. Slides(new, 0)
  BY <1>3, <1>4, <1>5 DEF Slides
<1> QED
  BY <1>1, <1>6 DEF FrameInv

\* A step puts other ones in its place.
LEMMA GotoSlides ==
  ASSUME FrameInv, stack # <<>>, NEW new, AllGood(new),
         NEW under, AllGood(under), Same(under, Tail(stack)), stack' = new \o under
  PROVE  FrameInv' /\ Slides(new, 1)
<1>1. /\ AllGood(stack') /\ Len(stack') = Len(new) + Len(under) /\ Len(new) \in Nat
      /\ \A k \in 1..Len(new) : stack'[k] = new[k]
      /\ \A k \in 1..Len(under) : stack'[k + Len(new)] = under[k]
  BY GoodConcat
<1>2. /\ Len(stack) \in Nat /\ Len(under) = Len(stack) - 1
      /\ \A k \in 1..Len(under) : under[k].op = stack[k + 1].op /\ under[k].node = stack[k + 1].node
  <2>1. stack \in Seq(Frame) /\ stack # <<>>
    BY DEF FrameInv, AllGood
  <2>2. Len(Tail(stack)) = Len(stack) - 1 /\ \A k \in 1..(Len(stack) - 1) : Tail(stack)[k] = stack[k + 1]
    BY <2>1, HeadTailProperties
  <2> QED
    BY <2>1, <2>2 DEF Same
<1>3. ASSUME NEW k \in Places, k > 1
      PROVE  Op(k + Len(new) - 1)' = Op(k) /\ Who(k + Len(new) - 1)' = Who(k)
  <2> DEFINE j == k - 1
  <2>1. j \in 1..Len(under) /\ k + Len(new) - 1 = j + Len(new) /\ j + 1 = k
    BY <1>1, <1>2, <1>3 DEF Places
  <2> HIDE DEF j
  <2>2. stack'[j + Len(new)].op = stack[k].op /\ stack'[j + Len(new)].node = stack[k].node
    BY <2>1, <1>1, <1>2
  <2> QED
    BY <2>1, <2>2 DEF Op, Who
<1>4. Len(stack') = Len(new) + Len(stack) - 1
  BY <1>1, <1>2
<1>5. \A k \in 1..Len(new) : Op(k)' = new[k].op /\ Who(k)' = new[k].node
  BY <1>1 DEF Op, Who
<1>6. Slides(new, 1)
  BY <1>3, <1>4, <1>5 DEF Slides
<1> QED
  BY <1>1, <1>6 DEF FrameInv

\* What is below the first step.
LEMMA Below ==
  ASSUME FrameInv, stack # <<>>
  PROVE  AllGood(Tail(stack)) /\ Good(Top) /\ Top = stack[1] /\ Len(stack) \in Nat \ {0}
<1>1. stack \in Seq(Frame) /\ stack # <<>> /\ Len(stack) \in Nat \ {0}
  BY DEF FrameInv, AllGood
<1>2. /\ Tail(stack) \in Seq(Frame) /\ Len(Tail(stack)) = Len(stack) - 1
      /\ \A k \in 1..(Len(stack) - 1) : Tail(stack)[k] = stack[k + 1]
  BY <1>1, HeadTailProperties
<1>3. Top = stack[1]
  BY <1>1 DEF Top
<1>4. ASSUME NEW k \in 1..Len(Tail(stack)) PROVE Good(Tail(stack)[k])
  <2>1. k + 1 \in 1..Len(stack) /\ Tail(stack)[k] = stack[k + 1]
    BY <1>1, <1>2
  <2> QED
    BY <2>1 DEF FrameInv, AllGood
<1> QED
  BY <1>1, <1>2, <1>3, <1>4 DEF FrameInv, AllGood

\* A stack has the steps it has.
LEMMA SameRefl == \A frames : Same(frames, frames)
  BY DEF Same

\* A loop that visits other nodes.
LEMMA OtherRest ==
  ASSUME NEW f, Good(f), NEW rest \in Seq(Nodes), f.op \in Loops,
         \A k \in 1..Len(rest) : rest[k] \notin Root
  PROVE  LET g == [f EXCEPT !.rest = rest]
         IN  Good(g) /\ g.op = f.op /\ g.node = f.node /\ g.rest = rest
<1> DEFINE g == [f EXCEPT !.rest = rest]
<1>1. f \in Frame
  BY DEF Good
<1>2. g \in Frame /\ g.op = f.op /\ g.node = f.node /\ g.rest = rest
  BY <1>1 DEF Frame
<1>3. g.op # "removed"
  BY <1>2 DEF Loops
<1> HIDE DEF g
<1>4. Good(g)
  BY <1>2, <1>3 DEF Good
<1> QED
  BY <1>2, <1>4 DEF g

\* A node that is added to its parent, or leaves it, is visited by the loops or not.
LEMMA LeavesGood ==
  ASSUME NEW frames, AllGood(frames), NEW c
  PROVE  AllGood(Leaves(frames, c)) /\ Same(Leaves(frames, c), frames)
<1> DEFINE left == Leaves(frames, c)
<1>1. frames \in Seq(Frame) /\ DOMAIN frames = 1..Len(frames) /\ Len(frames) \in Nat
  BY DEF AllGood
<1>2. ASSUME NEW k \in 1..Len(frames)
      PROVE  Good(left[k]) /\ left[k].op = frames[k].op /\ left[k].node = frames[k].node
  <2>1. Good(frames[k])
    BY DEF AllGood
  <2>2. left[k] = IF frames[k].op \in Loops
                  THEN [frames[k] EXCEPT !.rest = RemoveFirst(frames[k].rest, c)] ELSE frames[k]
    BY <1>1 DEF Leaves
  <2>3. CASE frames[k].op \in Loops
    <3> DEFINE old == frames[k].rest
               rest == RemoveFirst(old, c)
    <3>1. old \in Seq(Nodes) /\ \A j \in 1..Len(old) : old[j] \notin Root
      BY <2>1, <2>3 DEF Good, Frame
    <3>2. rest \in Seq(Nodes) /\ ToSet(rest) \subseteq ToSet(old)
      BY <3>1, RemoveFirstProperties
    <3> HIDE DEF old, rest
    <3>3. ASSUME NEW j \in 1..Len(rest) PROVE rest[j] \notin Root
      <4>1. rest[j] \in ToSet(rest)
        BY <3>2 DEF ToSet
      <4>2. rest[j] \in ToSet(old)
        BY <3>2, <4>1
      <4>3. PICK i \in 1..Len(old) : old[i] = rest[j]
        BY <3>1, <4>2 DEF ToSet
      <4> QED
        BY <3>1, <4>3
    <3>4. left[k] = [frames[k] EXCEPT !.rest = rest]
      BY <2>2, <2>3 DEF rest, old
    <3> QED
      BY <2>1, <2>3, <3>2, <3>3, <3>4, OtherRest
  <2>4. CASE frames[k].op \notin Loops
    BY <2>1, <2>2, <2>4
  <2> QED
    BY <2>3, <2>4
<1>3. left = [k \in 1..Len(frames) |-> left[k]]
  BY <1>1 DEF Leaves
<1> HIDE DEF left
<1>4. \A k \in 1..Len(frames) : left[k] \in Frame
  BY <1>2 DEF Good
<1>5. left \in Seq(Frame) /\ Len(left) = Len(frames)
  BY <1>1, <1>3, <1>4, IsASeq
<1> QED
  BY <1>2, <1>5 DEF AllGood, Same, left

\* addChild() shows a new child to the loops over the children, and changes nothing else.
LEMMA JoinsGood ==
  ASSUME NEW frames, AllGood(frames), NEW p, NEW c \in Nodes \ Root
  PROVE  AllGood(Joins(frames, p, c)) /\ Same(Joins(frames, p, c), frames)
<1> DEFINE more == Joins(frames, p, c)
<1>1. frames \in Seq(Frame) /\ DOMAIN frames = 1..Len(frames) /\ Len(frames) \in Nat
  BY DEF AllGood
<1>2. ASSUME NEW k \in 1..Len(frames)
      PROVE  Good(more[k]) /\ more[k].op = frames[k].op /\ more[k].node = frames[k].node
  <2>1. Good(frames[k])
    BY DEF AllGood
  <2>2. more[k] = IF frames[k].op \in Loops /\ frames[k].node = p
                  THEN [frames[k] EXCEPT !.rest = Append(frames[k].rest, c)] ELSE frames[k]
    BY <1>1 DEF Joins
  <2>3. CASE frames[k].op \in Loops /\ frames[k].node = p
    <3> DEFINE old == frames[k].rest
               rest == Append(old, c)
    <3>1. old \in Seq(Nodes) /\ \A j \in 1..Len(old) : old[j] \notin Root
      BY <2>1, <2>3 DEF Good, Frame
    <3>2. /\ rest \in Seq(Nodes) /\ Len(rest) = Len(old) + 1 /\ Len(old) \in Nat
          /\ \A j \in 1..Len(old) : rest[j] = old[j]
          /\ rest[Len(old) + 1] = c
      BY <3>1, AppendProperties
    <3>3. more[k] = [frames[k] EXCEPT !.rest = rest]
      BY <2>2, <2>3
    <3> HIDE DEF old, rest
    <3>4. \A j \in 1..Len(rest) : rest[j] \notin Root
      BY <3>1, <3>2
    <3> QED
      BY <2>1, <2>3, <3>2, <3>3, <3>4, OtherRest
  <2>4. CASE ~(frames[k].op \in Loops /\ frames[k].node = p)
    BY <2>1, <2>2, <2>4
  <2> QED
    BY <2>3, <2>4
<1>3. more = [k \in 1..Len(frames) |-> more[k]]
  BY <1>1 DEF Joins
<1> HIDE DEF more
<1>4. \A k \in 1..Len(frames) : more[k] \in Frame
  BY <1>2 DEF Good
<1>5. more \in Seq(Frame) /\ Len(more) = Len(frames)
  BY <1>1, <1>3, <1>4, IsASeq
<1> QED
  BY <1>2, <1>5 DEF AllGood, Same, more

\* A step about a node.
LEMMA DoGood ==
  ASSUME NEW op \in Walks \ ({"removed"} \cup Loops \cup {"dropped", "current", "enableForce"}), NEW n \in Nodes
  PROVE  Good(Do(op, n)) /\ Do(op, n).op = op /\ Do(op, n).node = n
  BY DEF Do, Good, Frame

\* A visit goes to children, none of which is a scene, and then on with the node.
Visits(v, one, loop, then, n) ==
  /\ \A k \in 1..Len(v) : \/ v[k].op = then /\ v[k].node = n
                          \/ v[k].op = loop
                          \/ v[k].op = one /\ v[k].node \notin Root
  /\ \E k \in 1..Len(v) : v[k].op = then /\ v[k].node = n

\* A visit of the children is good: a loop over them, or the step of an only child.
LEMMA VisitGood ==
  ASSUME TreeInv, NEW n \in Nodes,
         NEW one \in {"activate", "deactivate", "release"}, NEW loop \in Loops,
         NEW then \in {"active", "inactive", "released"}
  PROVE  AllGood(Visit(one, loop, then, n)) /\ Visits(Visit(one, loop, then, n), one, loop, then, n)
<1> DEFINE q == children[n]
<1>1. q \in Seq(Nodes) /\ \A k \in 1..Len(q) : q[k] \in Nodes \ Root
  <2>1. q \in Seq(Nodes) /\ ToSet(q) = {c \in Nodes : parent[c] = n}
    BY DEF TreeInv
  <2>2. ASSUME NEW k \in 1..Len(q) PROVE q[k] \in Nodes \ Root
    <3>1. q[k] \in ToSet(q)
      BY <2>1 DEF ToSet
    <3>2. q[k] \in Nodes /\ parent[q[k]] = n
      BY <2>1, <3>1
    <3> QED
      BY <3>2, NodeAssumption DEF TreeInv, RootInv
  <2> QED
    BY <2>1, <2>2
<1> HIDE DEF q
<1>2. Good(Do(then, n)) /\ Do(then, n).op = then /\ Do(then, n).node = n
  BY DoGood DEF Walks, Loops
<1> DEFINE v == Visit(one, loop, then, n)
<1>3. CASE q = <<>>
  <2>1. Visit(one, loop, then, n) = <<Do(then, n)>>
    BY <1>3 DEF Visit, q
  <2>2. AllGood(v) /\ Len(v) = 1 /\ v[1] = Do(then, n)
    BY <1>2, <2>1, Good1
  <2> HIDE DEF v
  <2>3. AllGood(v) /\ Visits(v, one, loop, then, n)
    BY <1>2, <2>2 DEF Visits
  <2> QED
    BY <2>3 DEF v
<1>4. CASE Len(q) = 1
  <2>1. Visit(one, loop, then, n) = <<Do(one, q[1]), Do(then, n)>>
    BY <1>1, <1>4 DEF Visit, q
  <2>2. q[1] \in Nodes /\ q[1] \notin Root
    BY <1>1, <1>4
  <2>3. Good(Do(one, q[1])) /\ Do(one, q[1]).op = one /\ Do(one, q[1]).node = q[1]
    BY <2>2, DoGood DEF Walks, Loops
  <2>4. AllGood(v) /\ Len(v) = 2 /\ v[1] = Do(one, q[1]) /\ v[2] = Do(then, n)
    BY <1>2, <2>1, <2>3, Good2
  <2> HIDE DEF v
  <2>5. AllGood(v) /\ Visits(v, one, loop, then, n)
    BY <1>2, <2>2, <2>3, <2>4 DEF Visits
  <2> QED
    BY <2>5 DEF v
<1>5. CASE q # <<>> /\ Len(q) # 1
  <2> DEFINE f == [op |-> loop, node |-> n, rest |-> q]
  <2>1. Visit(one, loop, then, n) = <<f, Do(then, n)>>
    BY <1>5 DEF Visit, q
  <2>2. Good(f) /\ f.op = loop
    BY <1>1 DEF Good, Frame, Walks, Loops
  <2> HIDE DEF f
  <2>3. AllGood(v) /\ Len(v) = 2 /\ v[1] = f /\ v[2] = Do(then, n)
    BY <1>2, <2>1, <2>2, Good2
  <2> HIDE DEF v
  <2>4. AllGood(v) /\ Visits(v, one, loop, then, n)
    BY <1>2, <2>2, <2>3 DEF Visits
  <2> QED
    BY <2>4 DEF v
<1> QED
  BY <1>3, <1>4, <1>5

------------------------------------------------------------------------------
(* Steps that end no command *)

\* What a step of a walk or of a script does to the scenes: with new steps in place of
\* the first cut ones.
Calm(new, cut) ==
  /\ cut = 1 => Op(1) \notin {"dropped", "current", "done"}
  /\ \A k \in 1..Len(new) :
       /\ new[k].op \notin Marks
       /\ new[k].op \in {"activate", "activated"} /\ new[k].node \in Root =>
            cut = 1 /\ Op(1) \in {"activate", "enableForce"} /\ Who(1) = new[k].node
  /\ UNCHANGED sceneVars /\ interrupted \subseteq interrupted'
  /\ \A s \in Root :
       /\ active'[s] => active[s] \/ (cut = 1 /\ Op(1) = "activated" /\ Who(1) = s)
       /\ deactivating'[s] =>
            \/ \E k \in 1..Len(new) : new[k].node = s /\ new[k].op \in {"deactivated", "inactive"}
            \/ deactivating[s] /\ (cut = 1 => Who(1) # s \/ Op(1) \notin {"deactivated", "inactive"})
       /\ cut = 1 /\ Leaving(1, s) /\ active'[s] =>
            \/ \E k \in 1..Len(new) : new[k].node = s /\ new[k].op \in {"deactivate", "deactivated", "inactive"}
            \/ deactivating[s] /\ Op(1) = "deactivate"

\* Where the steps of the next state come from, and where those of this one go.
LEMMA Moves ==
  ASSUME NEW new, Len(new) \in Nat, Len(stack) \in Nat, NEW cut \in {0, 1}, cut <= Len(stack),
         Slides(new, cut)
  PROVE  LET d == Len(new) - cut
         IN  /\ d \in Int
             /\ \A k \in Places : k > cut =>
                  k + d \in Places' /\ Op(k + d)' = Op(k) /\ Who(k + d)' = Who(k) /\ k + d > Len(new)
             /\ \A k \in Places' :
                  \/ k \in 1..Len(new) /\ Op(k)' = new[k].op /\ Who(k)' = new[k].node
                  \/ /\ k > Len(new)
                     /\ \E j \in Places : j > cut /\ k = j + d /\ Op(k)' = Op(j) /\ Who(k)' = Who(j)
<1> DEFINE d == Len(new) - cut
<1>1. d \in Int /\ \A k \in Int : k + Len(new) - cut = k + d
  OBVIOUS
<1>2. Places' = 1..(Len(stack) + d)
  BY DEF Slides, Places
<1>3. ASSUME NEW k \in Places, k > cut
      PROVE  k + d \in Places' /\ Op(k + d)' = Op(k) /\ Who(k + d)' = Who(k) /\ k + d > Len(new)
  <2>1. k + Len(new) - cut = k + d /\ k + d \in Places' /\ k + d > Len(new)
    BY <1>1, <1>2, <1>3 DEF Places
  <2>2. Op(k + Len(new) - cut)' = Op(k) /\ Who(k + Len(new) - cut)' = Who(k)
    BY <1>3 DEF Slides
  <2> HIDE DEF d
  <2> QED
    BY <2>1, <2>2
<1>4. ASSUME NEW k \in Places', k > Len(new)
      PROVE  \E j \in Places : j > cut /\ k = j + d /\ Op(k)' = Op(j) /\ Who(k)' = Who(j)
  <2> DEFINE j == k - d
  <2>1. j \in Places /\ j > cut /\ k = j + d
    BY <1>1, <1>2, <1>4 DEF Places
  <2> HIDE DEF j, d
  <2>2. Op(j + d)' = Op(j) /\ Who(j + d)' = Who(j)
    BY <1>3, <2>1
  <2> QED
    BY <2>1, <2>2
<1>5. ASSUME NEW k \in Places', ~(k > Len(new))
      PROVE  k \in 1..Len(new) /\ Op(k)' = new[k].op /\ Who(k)' = new[k].node
  <2>1. k \in 1..Len(new)
    BY <1>1, <1>2, <1>5
  <2> QED
    BY <2>1 DEF Slides
<1> HIDE DEF d
<1>6. \A k \in Places' :
        \/ k \in 1..Len(new) /\ Op(k)' = new[k].op /\ Who(k)' = new[k].node
        \/ /\ k > Len(new)
           /\ \E j \in Places : j > cut /\ k = j + d /\ Op(k)' = Op(j) /\ Who(k)' = Who(j)
  BY <1>4, <1>5
<1> QED
  BY <1>1, <1>3, <1>6 DEF d

\* They keep the invariant of the scenes.
LEMMA CalmStep ==
  ASSUME SceneInv, NEW new, Len(new) \in Nat, Len(stack) \in Nat, NEW cut \in {0, 1}, cut <= Len(stack),
         \A k \in Places : Op(k) = "dropped" => Who(k) \in Root,
         Slides(new, cut), Calm(new, cut)
  PROVE  SceneInv'
<1> DEFINE d == Len(new) - cut
<1>1. /\ d \in Int
      /\ \A k \in Places : k > cut =>
           k + d \in Places' /\ Op(k + d)' = Op(k) /\ Who(k + d)' = Who(k) /\ k + d > Len(new)
      /\ \A k \in Places' :
           \/ k \in 1..Len(new) /\ Op(k)' = new[k].op /\ Who(k)' = new[k].node
           \/ /\ k > Len(new)
              /\ \E j \in Places : j > cut /\ k = j + d /\ Op(k)' = Op(j) /\ Who(k)' = Who(j)
  BY Moves
<1> HIDE DEF d
\* A step below the new ones, and all before it: they are new or were before it.
<1>2. ASSUME NEW k \in Places'
      PROVE  \/ k \in 1..Len(new) /\ Op(k)' \notin Marks
             \/ \E j \in Places :
                  /\ j > cut /\ k = j + d /\ k > Len(new) /\ Op(k)' = Op(j) /\ Who(k)' = Who(j)
                  /\ \A i \in Before(k) :
                       \/ i \in 1..Len(new) /\ Op(i)' = new[i].op /\ Who(i)' = new[i].node
                       \/ \E h \in Before(j) : h \in Places /\ h > cut /\ i = h + d /\ Op(i)' = Op(h) /\ Who(i)' = Who(h)
  <2>1. CASE k \in 1..Len(new) /\ Op(k)' = new[k].op
    BY <2>1 DEF Calm
  <2>2. CASE k > Len(new) /\ \E j \in Places : j > cut /\ k = j + d /\ Op(k)' = Op(j) /\ Who(k)' = Who(j)
    <3>1. PICK j \in Places : j > cut /\ k = j + d /\ Op(k)' = Op(j) /\ Who(k)' = Who(j)
      BY <2>2
    <3>2. ASSUME NEW i \in Before(k)
          PROVE  \/ i \in 1..Len(new) /\ Op(i)' = new[i].op /\ Who(i)' = new[i].node
                 \/ \E h \in Before(j) : h \in Places /\ h > cut /\ i = h + d /\ Op(i)' = Op(h) /\ Who(i)' = Who(h)
      <4>1. i \in Places' /\ i < k /\ i \in Int
        BY DEF Before, Places
      <4>2. CASE i \in 1..Len(new) /\ Op(i)' = new[i].op /\ Who(i)' = new[i].node
        BY <4>2
      <4>3. CASE \E h \in Places : h > cut /\ i = h + d /\ Op(i)' = Op(h) /\ Who(i)' = Who(h)
        <5>1. PICK h \in Places : h > cut /\ i = h + d /\ Op(i)' = Op(h) /\ Who(i)' = Who(h)
          BY <4>3
        <5>2. h \in Before(j)
          BY <5>1, <4>1, <3>1, <1>1 DEF Before, Places
        <5> QED
          BY <5>1, <5>2
      <4> QED
        BY <1>1, <4>1, <4>2, <4>3
    <3> QED
      BY <3>1, <3>2, <2>2
  <2> QED
    BY <1>1, <2>1, <2>2
<1>0. MarkInv /\ ActivateInv /\ ForceInv /\ CurrentInv /\ DropInv /\ LeaveInv /\ OneScene
  BY DEF SceneInv
<1>4. UNCHANGED <<scene, commands>> /\ interrupted \subseteq interrupted'
  BY DEF Calm, sceneVars
<1>5. MarkInv'
  <2> SUFFICES ASSUME NEW k \in Places', Op(k)' \in Marks
               PROVE  /\ commands' # <<>>
                      /\ Op(k)' = "done" => \A m \in Places' : m > k => Op(m)' \notin Marks
                      /\ Op(k)' \in {"dropped", "current"} => Head(commands').type # "restart"
    BY DEF MarkInv
  <2>1. PICK j \in Places : j > cut /\ k = j + d /\ k > Len(new) /\ Op(k)' = Op(j)
    BY <1>2
  <2>2. /\ commands # <<>>
        /\ Op(j) = "done" => \A h \in Places : h > j => Op(h) \notin Marks
        /\ Op(j) \in {"dropped", "current"} => Head(commands).type # "restart"
    BY <1>0, <2>1 DEF MarkInv
  <2>3. ASSUME Op(k)' = "done", NEW m \in Places', m > k PROVE Op(m)' \notin Marks
    <3>1. CASE m \in 1..Len(new) /\ Op(m)' = new[m].op
      BY <3>1 DEF Calm
    <3>2. CASE \E h \in Places : h > cut /\ m = h + d /\ Op(m)' = Op(h) /\ Who(m)' = Who(h)
      <4>1. PICK h \in Places : h > cut /\ m = h + d /\ Op(m)' = Op(h)
        BY <3>2
      <4>2. h > j
        BY <4>1, <2>1, <2>3, <1>1 DEF Places
      <4> QED
        BY <4>1, <4>2, <2>1, <2>2, <2>3
    <3> QED
      BY <1>1, <3>1, <3>2
  <2> QED
    BY <1>4, <2>1, <2>2, <2>3
<1>6. ActivateInv'
  <2> SUFFICES ASSUME NEW k \in Places', Op(k)' \in {"activate", "activated"}, Who(k)' \in Root
               PROVE  /\ Who(k)' = scene' /\ commands' # <<>>
                      /\ \A i \in Before(k) : Op(i)' \notin Marks
    BY DEF ActivateInv, Before
  <2>1. CASE k \in 1..Len(new) /\ Op(k)' = new[k].op /\ Who(k)' = new[k].node
    <3>1. cut = 1 /\ Op(1) \in {"activate", "enableForce"} /\ Who(1) = Who(k)'
      BY <2>1 DEF Calm
    <3>2. 1 \in Places /\ Before(1) = {}
      BY <3>1 DEF Places, Before
    <3>3. Who(1) = scene /\ commands # <<>>
      BY <1>0, <3>1, <3>2 DEF ActivateInv, ForceInv, MarkInv, Marks
    <3>4. ASSUME NEW i \in Before(k) PROVE Op(i)' \notin Marks
      <4>1. i \in 1..Len(new) /\ i \in Places' /\ ~(i > Len(new))
        BY <2>1 DEF Before, Places
      <4>2. Op(i)' = new[i].op
        BY <4>1, <1>1
      <4> QED
        BY <4>1, <4>2 DEF Calm
    <3> QED
      BY <1>4, <3>1, <3>3, <3>4
  <2>2. CASE k > Len(new)
    <3>1. PICK j \in Places :
            /\ j > cut /\ k = j + d /\ k > Len(new) /\ Op(k)' = Op(j) /\ Who(k)' = Who(j)
            /\ \A i \in Before(k) :
                 \/ i \in 1..Len(new) /\ Op(i)' = new[i].op /\ Who(i)' = new[i].node
                 \/ \E h \in Before(j) : h \in Places /\ h > cut /\ i = h + d /\ Op(i)' = Op(h) /\ Who(i)' = Who(h)
      BY <2>2, <1>2
    <3>2. Who(j) = scene /\ commands # <<>> /\ \A h \in Before(j) : Op(h) \notin Marks
      BY <1>0, <3>1 DEF ActivateInv
    <3>3. ASSUME NEW i \in Before(k) PROVE Op(i)' \notin Marks
      BY <3>1, <3>2 DEF Calm
    <3> QED
      BY <1>4, <3>1, <3>2, <3>3
  <2> QED
    BY <1>1, <2>1, <2>2
<1>7. ASSUME NEW j \in Places, NEW h \in Before(j), h > cut
      PROVE  /\ h \in Places /\ h + d \in Before(j + d)
             /\ Op(h + d)' = Op(h) /\ Who(h + d)' = Who(h)
  <2>1. h \in Places /\ h + d \in Places' /\ Op(h + d)' = Op(h) /\ Who(h + d)' = Who(h)
    <3>1. h \in Places
      BY DEF Before, Places
    <3> QED
      BY <3>1, <1>1, <1>7
  <2>2. h + d >= 1 /\ h < j /\ h \in Int /\ j \in Int
    BY <2>1 DEF Places, Before
  <2> QED
    BY <1>1, <2>1, <2>2 DEF Before
<1>8. ForceInv'
  <2> SUFFICES ASSUME NEW k \in Places', Op(k)' = "enableForce"
               PROVE  \/ Who(k)' = scene' /\ \A i \in Before(k) : Op(i)' \notin {"dropped", "current"}
                      \/ \E i \in Before(k) : Op(i)' = "current" /\ Who(i)' = Who(k)'
    BY DEF ForceInv, Before
  <2>1. PICK j \in Places :
          /\ j > cut /\ k = j + d /\ k > Len(new) /\ Op(k)' = Op(j) /\ Who(k)' = Who(j)
          /\ \A i \in Before(k) :
               \/ i \in 1..Len(new) /\ Op(i)' = new[i].op /\ Who(i)' = new[i].node
               \/ \E h \in Before(j) : h \in Places /\ h > cut /\ i = h + d /\ Op(i)' = Op(h) /\ Who(i)' = Who(h)
    BY <1>2 DEF Marks
  <2>2. \/ Who(j) = scene /\ \A h \in Before(j) : Op(h) \notin {"dropped", "current"}
        \/ \E h \in Before(j) : Op(h) = "current" /\ Who(h) = Who(j)
    BY <1>0, <2>1 DEF ForceInv
  <2>3. CASE Who(j) = scene /\ \A h \in Before(j) : Op(h) \notin {"dropped", "current"}
    <3>1. ASSUME NEW i \in Before(k) PROVE Op(i)' \notin {"dropped", "current"}
      BY <2>1, <2>3 DEF Calm, Marks
    <3> QED
      BY <1>4, <2>1, <2>3, <3>1
  <2>4. CASE \E h \in Before(j) : Op(h) = "current" /\ Who(h) = Who(j)
    <3>1. PICK h \in Before(j) : Op(h) = "current" /\ Who(h) = Who(j)
      BY <2>4
    <3>2. h > cut
      BY <3>1 DEF Calm, Before
    <3>3. h + d \in Before(k) /\ Op(h + d)' = Op(h) /\ Who(h + d)' = Who(h)
      BY <1>7, <2>1, <3>2
    <3> QED
      BY <2>1, <3>1, <3>3
  <2> QED
    BY <2>2, <2>3, <2>4
<1>9. CurrentInv'
  <2> SUFFICES ASSUME NEW k \in Places', Op(k)' = "current"
               PROVE  /\ \A m \in Places' : m > k => Op(m)' \notin {"dropped", "current"}
                      /\ scene' = None \/ \E i \in Before(k) : Op(i)' = "dropped"
    BY DEF CurrentInv, Before
  <2>1. PICK j \in Places : j > cut /\ k = j + d /\ k > Len(new) /\ Op(k)' = Op(j)
    BY <1>2 DEF Marks
  <2>2. /\ \A h \in Places : h > j => Op(h) \notin {"dropped", "current"}
        /\ scene = None \/ \E h \in Before(j) : Op(h) = "dropped"
    BY <1>0, <2>1 DEF CurrentInv
  <2>3. ASSUME NEW m \in Places', m > k PROVE Op(m)' \notin {"dropped", "current"}
    <3>1. CASE m \in 1..Len(new) /\ Op(m)' = new[m].op
      BY <3>1 DEF Calm, Marks
    <3>2. CASE \E h \in Places : h > cut /\ m = h + d /\ Op(m)' = Op(h) /\ Who(m)' = Who(h)
      <4>1. PICK h \in Places : h > cut /\ m = h + d /\ Op(m)' = Op(h)
        BY <3>2
      <4>2. h > j
        BY <4>1, <2>1, <2>3, <1>1 DEF Places
      <4> QED
        BY <4>1, <4>2, <2>2
    <3> QED
      BY <1>1, <3>1, <3>2
  <2>4. CASE \E h \in Before(j) : Op(h) = "dropped"
    <3>1. PICK h \in Before(j) : Op(h) = "dropped"
      BY <2>4
    <3>2. h > cut
      BY <3>1 DEF Calm, Before
    <3>3. h + d \in Before(k) /\ Op(h + d)' = Op(h)
      BY <1>7, <2>1, <3>2
    <3> QED
      BY <2>3, <3>1, <3>3
  <2> QED
    BY <1>4, <2>2, <2>3, <2>4
<1>10. LeaveInv'
  <2> SUFFICES ASSUME NEW s \in Root, deactivating'[s]
               PROVE  \E k \in Places' : Who(k)' = s /\ Op(k)' \in {"deactivated", "inactive"}
    BY DEF LeaveInv
  <2>1. CASE \E k \in 1..Len(new) : new[k].node = s /\ new[k].op \in {"deactivated", "inactive"}
    <3>1. PICK k \in 1..Len(new) : new[k].node = s /\ new[k].op \in {"deactivated", "inactive"}
      BY <2>1
    <3>2. k \in Places' /\ Op(k)' = new[k].op /\ Who(k)' = new[k].node
      BY DEF Slides, Places
    <3> QED
      BY <3>1, <3>2
  <2>2. CASE deactivating[s] /\ (cut = 1 => Who(1) # s \/ Op(1) \notin {"deactivated", "inactive"})
    <3>1. PICK j \in Places : Who(j) = s /\ Op(j) \in {"deactivated", "inactive"}
      BY <1>0, <2>2 DEF LeaveInv
    <3>2. j > cut
      BY <3>1, <2>2 DEF Places
    <3> QED
      BY <1>1, <3>1, <3>2
  <2> QED
    BY <2>1, <2>2 DEF Calm
<1>11. OneScene'
  <2>1. ASSUME NEW s \in Root, s \notin interrupted', active'[s] PROVE s = scene'
    <3>1. CASE active[s]
      BY <1>0, <1>4, <2>1, <3>1 DEF OneScene
    <3>2. CASE cut = 1 /\ Op(1) = "activated" /\ Who(1) = s
      <4>1. 1 \in Places
        BY <3>2 DEF Places
      <4> QED
        BY <1>0, <1>4, <3>2, <4>1 DEF ActivateInv
    <3> QED
      BY <2>1, <3>1, <3>2 DEF Calm
  <2>2. \A c \in ToSet(commands') : c.type = "restart" => scene' # None
    BY <1>0, <1>4 DEF OneScene
  <2> QED
    BY <2>1, <2>2 DEF OneScene
<1>12. DropInv'
  <2> SUFFICES ASSUME NEW k \in Places', Op(k)' = "dropped"
               PROVE  /\ Who(k)' = scene'
                      /\ \A i \in Before(k) : /\ Op(i)' \notin {"enableForce", "current", "dropped"}
                                              /\ ~(Op(i)' \in {"activate", "activated"} /\ Who(i)' \in Root)
                      /\ scene' \notin interrupted' =>
                           /\ active'[scene'] => \E i \in Before(k) : Leaving(i, scene)'
                           /\ \A m \in Places' : m > k => Who(m)' # scene' \/ Op(m)' \notin {"deactivated", "inactive"}
    BY DEF DropInv, Before
  <2>1. PICK j \in Places :
          /\ j > cut /\ k = j + d /\ k > Len(new) /\ Op(k)' = Op(j) /\ Who(k)' = Who(j)
          /\ \A i \in Before(k) :
               \/ i \in 1..Len(new) /\ Op(i)' = new[i].op /\ Who(i)' = new[i].node
               \/ \E h \in Before(j) : h \in Places /\ h > cut /\ i = h + d /\ Op(i)' = Op(h) /\ Who(i)' = Who(h)
    BY <1>2 DEF Marks
  <2>2. /\ Who(j) = scene /\ scene \in Root
        /\ \A h \in Before(j) : /\ Op(h) \notin {"enableForce", "current", "dropped"}
                                /\ ~(Op(h) \in {"activate", "activated"} /\ Who(h) \in Root)
        /\ scene \notin interrupted =>
             /\ active[scene] => \E h \in Before(j) : Leaving(h, scene)
             /\ \A h \in Places : h > j => Who(h) # scene \/ Op(h) \notin {"deactivated", "inactive"}
    BY <1>0, <2>1 DEF DropInv
  <2>3. cut = 1 => 1 \in Before(j)
    BY <2>1 DEF Before, Places
  <2>4. ASSUME NEW i \in Before(k)
        PROVE  /\ Op(i)' \notin {"enableForce", "current", "dropped"}
               /\ ~(Op(i)' \in {"activate", "activated"} /\ Who(i)' \in Root)
    <3>1. CASE i \in 1..Len(new) /\ Op(i)' = new[i].op /\ Who(i)' = new[i].node
      BY <2>2, <2>3, <3>1 DEF Calm, Marks
    <3>2. CASE \E h \in Before(j) : Op(i)' = Op(h) /\ Who(i)' = Who(h)
      BY <2>2, <3>2
    <3> QED
      BY <2>1, <3>1, <3>2
  <2>5. ASSUME scene' \notin interrupted', active'[scene']
        PROVE  \E i \in Before(k) : Leaving(i, scene)'
    <3>1. scene' = scene /\ scene \notin interrupted
      BY <1>4, <2>5
    <3>2. active[scene]
      BY <2>2, <2>3, <2>5, <3>1 DEF Calm
    <3>3. PICK h \in Before(j) : Leaving(h, scene)
      BY <2>2, <3>1, <3>2
    <3>4. CASE h > cut
      <4>1. h + d \in Before(k) /\ Op(h + d)' = Op(h) /\ Who(h + d)' = Who(h)
        BY <1>7, <2>1, <3>4
      <4> QED
        BY <3>1, <3>3, <4>1 DEF Leaving
    <3>5. CASE cut = 1 /\ h = 1
      <4>1. CASE \E i \in 1..Len(new) : new[i].node = scene /\ new[i].op \in {"deactivate", "deactivated", "inactive"}
        <5>1. PICK i \in 1..Len(new) : new[i].node = scene /\ new[i].op \in {"deactivate", "deactivated", "inactive"}
          BY <4>1
        <5>2. i \in Before(k) /\ Op(i)' = new[i].op /\ Who(i)' = new[i].node
          BY <2>1, <1>1 DEF Before, Slides, Places
        <5> QED
          BY <3>1, <5>1, <5>2 DEF Leaving
      <4>2. CASE deactivating[scene] /\ Op(1) = "deactivate"
        <5>1. PICK m \in Places : Who(m) = scene /\ Op(m) \in {"deactivated", "inactive"}
          BY <1>0, <2>2, <4>2 DEF LeaveInv
        <5>2. m # 1 /\ m # j /\ ~(m > j)
          BY <2>1, <2>2, <3>1, <4>2, <5>1
        <5>3. m \in Before(j) /\ m > cut
          BY <2>1, <5>2 DEF Before, Places
        <5>4. m + d \in Before(k) /\ Op(m + d)' = Op(m) /\ Who(m + d)' = Who(m)
          BY <1>7, <2>1, <5>3
        <5> QED
          BY <3>1, <5>1, <5>4 DEF Leaving
      <4> QED
        BY <2>2, <2>5, <3>1, <3>3, <3>5, <4>1, <4>2 DEF Calm
    <3> QED
      BY <3>3, <3>4, <3>5 DEF Before
  <2>6. ASSUME scene' \notin interrupted', NEW m \in Places', m > k
        PROVE  Who(m)' # scene' \/ Op(m)' \notin {"deactivated", "inactive"}
    <3>1. PICK h \in Places : h > cut /\ m = h + d /\ Op(m)' = Op(h) /\ Who(m)' = Who(h)
      <4>1. m > Len(new) /\ ~(m \in 1..Len(new))
        BY <2>1, <2>6 DEF Places
      <4> QED
        BY <1>1, <4>1
    <3>2. h > j
      BY <3>1, <2>1, <2>6, <1>1 DEF Places
    <3> QED
      BY <1>4, <2>2, <2>6, <3>1, <3>2
  <2>7. Who(k)' = scene'
    BY <1>4, <2>1, <2>2
  <2> QED
    BY <2>4, <2>5, <2>6, <2>7
<1> QED
  BY <1>5, <1>6, <1>8, <1>9, <1>10, <1>11, <1>12 DEF SceneInv

------------------------------------------------------------------------------
(* The walks *)

\* The step at the top of the stack.
LEMMA TopStep ==
  ASSUME FrameInv, stack # <<>>
  PROVE  /\ 1 \in Places /\ Op(1) = Top.op /\ Who(1) = Top.node
         /\ Top.op \in Walks => Top.node \in Nodes
         /\ Len(stack) \in Nat /\ 1 <= Len(stack)
  BY Below DEF Places, Op, Who, Good

\* A step of a walk keeps the invariant, when what it puts in its place is calm.
LEMMA WalkStep ==
  ASSUME IInv, stack # <<>>, NEW new, AllGood(new), Goto(new), UNCHANGED tree,
         FlagInv', Calm(new, 1)
  PROVE  IInv'
<1>1. TreeInv /\ ServiceInv /\ FrameInv /\ SceneInv
  BY DEF IInv
<1>2. stack' = new \o Tail(stack) /\ AllGood(Tail(stack)) /\ Same(Tail(stack), Tail(stack))
  BY <1>1, Below, SameRefl DEF Goto
<1>3. FrameInv' /\ Slides(new, 1)
  BY <1>1, <1>2, GotoSlides
<1>4. \A k \in Places : Op(k) = "dropped" => Who(k) \in Root
  BY <1>1 DEF FrameInv, AllGood, Good, Places, Op, Who
<1>5. Len(new) \in Nat /\ Len(stack) \in Nat /\ 1 <= Len(stack)
  BY <1>1, TopStep DEF AllGood
<1>6. SceneInv'
  BY <1>1, <1>3, <1>4, <1>5, CalmStep
<1>7. TreeInv' /\ ServiceInv'
  BY <1>1 DEF tree, TreeInv, RootInv, ServiceInv, Calm, sceneVars
<1> QED
  BY <1>3, <1>6, <1>7 DEF IInv

\* A step that only returns.
LEMMA ReturnStep ==
  ASSUME IInv, stack # <<>>, Return, UNCHANGED <<tree, active, deactivating, sceneVars>>, FlagInv',
         Op(1) \notin {"dropped", "current", "done", "deactivated", "inactive"},
         \A s \in Root : Leaving(1, s) /\ active[s] => deactivating[s]
  PROVE  IInv'
<1>1. Calm(<<>>, 1)
  BY Good0 DEF Calm, Return, Goto, tree, sceneVars, Leaving
<1> QED
  BY <1>1, Good0, WalkStep DEF Return

\* What an action of the walk says of the step it does.
LEMMA AtStep ==
  ASSUME IInv, NEW op \in Walks \cup {"callback", "done"}, At(op)
  PROVE  /\ stack # <<>> /\ 1 \in Places /\ Op(1) = op /\ Who(1) = Top.node /\ Good(Top)
         /\ op \in Walks => Top.node \in Nodes
  BY TopStep, Below DEF At, IInv

\* activate() and its parts keep the invariant of the scenes.
LEMMA ActivateSteps ==
  ASSUME IInv, UNCHANGED sceneVars,
         ActivateSkips \/ ActivateFails \/ Activate \/ Activated \/ AfterActivate
  PROVE  IInv'
<1>0. FlagInv /\ TreeInv
  BY DEF IInv
<1>1. CASE ActivateSkips \/ ActivateFails
  <2>1. At("activate") /\ Return /\ UNCHANGED <<tree, flags, told>>
    BY <1>1 DEF ActivateSkips, ActivateFails
  <2>2. stack # <<>> /\ Op(1) = "activate"
    BY <2>1, AtStep DEF Walks
  <2>3. FlagInv'
    BY <1>0, <2>1 DEF FlagInv, flags, Return, Goto
  <2> QED
    BY <2>1, <2>2, <2>3, ReturnStep DEF flags, Leaving
<1>2. CASE Activate
  <2> DEFINE n == Top.node
             new == IF active[n] THEN <<>> ELSE <<Do("_activate", n), Do("activated", n)>>
  <2>1. /\ At("activate") /\ compiled' = [compiled EXCEPT ![n] = TRUE] /\ Goto(new)
        /\ UNCHANGED <<tree, enabled, active, afterActive, deactivating, told>>
    BY <1>2 DEF Activate
  <2>2. stack # <<>> /\ Op(1) = "activate" /\ Who(1) = n /\ n \in Nodes
    BY <2>1, AtStep DEF Walks
  <2>3. FlagInv'
    BY <1>0, <2>1 DEF FlagInv, Goto
  <2>4. /\ AllGood(new)
        /\ \A k \in 1..Len(new) : new[k].op \in {"_activate", "activated"} /\ new[k].node = n
    <3>1. CASE active[n]
      BY <3>1, Good0
    <3>2. CASE ~active[n]
      <4> DEFINE f == Do("_activate", n)
                 g == Do("activated", n)
      <4>1. /\ Good(f) /\ f.op = "_activate" /\ f.node = n
            /\ Good(g) /\ g.op = "activated" /\ g.node = n
        BY <2>2, DoGood DEF Walks, Loops
      <4>2. new = <<f, g>>
        BY <3>2
      <4> HIDE DEF f, g, new
      <4> QED
        BY <4>1, <4>2, Good2
    <3> QED
      BY <3>1, <3>2
  <2> HIDE DEF new, n
  <2>5. Calm(new, 1)
    BY <2>1, <2>2, <2>4 DEF Calm, Marks, Leaving, Goto
  <2> QED
    BY <2>1, <2>2, <2>3, <2>4, <2>5, WalkStep
<1>3. CASE Activated
  <2> DEFINE n == Top.node
             new == Visit("activate", "activates", "active", n)
  <2>1. /\ At("activated") /\ active' = [active EXCEPT ![n] = TRUE] /\ Goto(new)
        /\ UNCHANGED <<tree, enabled, afterActive, deactivating, compiled, told>>
    BY <1>3 DEF Activated
  <2>2. stack # <<>> /\ Op(1) = "activated" /\ Who(1) = n /\ n \in Nodes
    BY <2>1, AtStep DEF Walks
  <2>3. FlagInv'
    BY <1>0, <2>1 DEF FlagInv, Goto
  <2>4. AllGood(new) /\ Visits(new, "activate", "activates", "active", n)
    BY <1>0, <2>2, VisitGood DEF Loops
  <2> HIDE DEF new, n
  <2>5. \A k \in 1..Len(new) : \/ new[k].op \in {"active", "activates"}
                               \/ new[k].op = "activate" /\ new[k].node \notin Root
    BY <2>4 DEF Visits
  <2>6. \A s \in Root : active'[s] => active[s] \/ s = n
    BY <2>1
  <2>7. Calm(new, 1)
    BY <2>1, <2>2, <2>5, <2>6 DEF Calm, Marks, Leaving, Goto
  <2> QED
    BY <2>1, <2>2, <2>3, <2>4, <2>7, WalkStep
<1>4. CASE AfterActivate
  <2> DEFINE n == Top.node
             new == IF active[n] THEN <<Do("_afterActivate", n)>> ELSE <<>>
  <2>1. /\ At("active") /\ afterActive' = [afterActive EXCEPT ![n] = @ \/ active[n]] /\ Goto(new)
        /\ told' = IF active[n] THEN told \cup {n} ELSE told
        /\ UNCHANGED <<tree, enabled, active, deactivating, compiled>>
    BY <1>4 DEF AfterActivate
  <2>2. stack # <<>> /\ Op(1) = "active" /\ Who(1) = n /\ n \in Nodes
    BY <2>1, AtStep DEF Walks
  <2>3. FlagInv'
    BY <1>0, <2>1, <2>2 DEF FlagInv, Goto
  <2>4. AllGood(new) /\ \A k \in 1..Len(new) : new[k].op = "_afterActivate"
    <3>1. Good(Do("_afterActivate", n)) /\ Do("_afterActivate", n).op = "_afterActivate"
      BY <2>2, DoGood DEF Walks, Loops
    <3> QED
      BY <3>1, Good0, Good1
  <2> HIDE DEF new, n
  <2>5. Calm(new, 1)
    BY <2>1, <2>2, <2>4 DEF Calm, Marks, Leaving, Goto
  <2> QED
    BY <2>1, <2>2, <2>3, <2>4, <2>5, WalkStep
<1> QED
  BY <1>1, <1>2, <1>3, <1>4

\* deactivate() and its parts keep it: a scene may only lose its activity.
LEMMA DeactivateSteps ==
  ASSUME IInv, UNCHANGED sceneVars,
         DeactivateSkips \/ Deactivate \/ Deactivated \/ AfterDeactivate
  PROVE  IInv'
<1>0. FlagInv /\ TreeInv
  BY DEF IInv
<1>1. CASE DeactivateSkips
  <2>1. /\ At("deactivate") /\ Return /\ UNCHANGED <<tree, flags, told>>
        /\ ~active[Top.node] \/ deactivating[Top.node]
    BY <1>1 DEF DeactivateSkips
  <2>2. stack # <<>> /\ Op(1) = "deactivate" /\ Who(1) = Top.node
    BY <2>1, AtStep DEF Walks
  <2>3. FlagInv'
    BY <1>0, <2>1 DEF FlagInv, flags, Return, Goto
  <2> QED
    BY <2>1, <2>2, <2>3, ReturnStep DEF flags, Leaving
<1>2. CASE Deactivate
  <2> DEFINE n == Top.node
             f == Do("_deactivate", n)
             g == Do("deactivated", n)
             new == <<f, g>>
  <2>1. /\ At("deactivate") /\ deactivating' = [deactivating EXCEPT ![n] = TRUE]
        /\ afterActive' = [afterActive EXCEPT ![n] = FALSE] /\ told' = told \ {n} /\ Goto(new)
        /\ UNCHANGED <<tree, enabled, active, compiled>>
    BY <1>2 DEF Deactivate
  <2>2. stack # <<>> /\ Op(1) = "deactivate" /\ Who(1) = n /\ n \in Nodes
    BY <2>1, AtStep DEF Walks
  <2>3. FlagInv'
    BY <1>0, <2>1 DEF FlagInv, Goto
  <2>4. /\ Good(f) /\ f.op = "_deactivate" /\ f.node = n
        /\ Good(g) /\ g.op = "deactivated" /\ g.node = n
    BY <2>2, DoGood DEF Walks, Loops
  <2> HIDE DEF f, g
  <2>5. AllGood(new) /\ Len(new) = 2 /\ new[1] = f /\ new[2] = g
    BY <2>4, Good2
  <2> HIDE DEF new
  <2>6. /\ \A k \in 1..Len(new) : new[k].op \in {"_deactivate", "deactivated"}
        /\ \E k \in 1..Len(new) : new[k].node = n /\ new[k].op = "deactivated"
    BY <2>4, <2>5
  <2>7. \A s \in Root : deactivating'[s] => s = n \/ deactivating[s]
    BY <2>1
  <2> HIDE DEF n
  <2>8. Calm(new, 1)
    BY <2>1, <2>2, <2>6, <2>7 DEF Calm, Marks, Leaving, Goto
  <2> QED
    BY <2>1, <2>2, <2>3, <2>5, <2>8, WalkStep
<1>3. CASE Deactivated
  <2> DEFINE n == Top.node
             new == Visit("deactivate", "deactivates", "inactive", n)
  <2>1. At("deactivated") /\ Goto(new) /\ UNCHANGED <<tree, flags, told>>
    BY <1>3 DEF Deactivated
  <2>2. stack # <<>> /\ Op(1) = "deactivated" /\ Who(1) = n /\ n \in Nodes
    BY <2>1, AtStep DEF Walks
  <2>3. FlagInv'
    BY <1>0, <2>1 DEF FlagInv, Goto, flags
  <2>4. AllGood(new) /\ Visits(new, "deactivate", "deactivates", "inactive", n)
    BY <1>0, <2>2, VisitGood DEF Loops
  <2> HIDE DEF new, n
  <2>5. /\ \A k \in 1..Len(new) : new[k].op \in {"inactive", "deactivates", "deactivate"}
        /\ \E k \in 1..Len(new) : new[k].node = n /\ new[k].op = "inactive"
    BY <2>4 DEF Visits
  <2>6. Calm(new, 1)
    BY <2>1, <2>2, <2>5 DEF Calm, Marks, Leaving, Goto, flags
  <2> QED
    BY <2>1, <2>2, <2>3, <2>4, <2>6, WalkStep
<1>4. CASE AfterDeactivate
  <2> DEFINE n == Top.node
             f == Do("_afterDeactivate", n)
             new == <<f>>
  <2>1. /\ At("inactive") /\ Goto(new) /\ active' = [active EXCEPT ![n] = FALSE]
        /\ deactivating' = [deactivating EXCEPT ![n] = FALSE]
        /\ UNCHANGED <<tree, enabled, afterActive, compiled, told>>
    BY <1>4 DEF AfterDeactivate
  <2>2. stack # <<>> /\ Op(1) = "inactive" /\ Who(1) = n /\ n \in Nodes
    BY <2>1, AtStep DEF Walks
  <2>3. FlagInv'
    BY <1>0, <2>1 DEF FlagInv, Goto
  <2>4. Good(f) /\ f.op = "_afterDeactivate"
    BY <2>2, DoGood DEF Walks, Loops
  <2> HIDE DEF f
  <2>5. AllGood(new) /\ \A k \in 1..Len(new) : new[k].op = "_afterDeactivate"
    BY <2>4, Good1
  <2> HIDE DEF new
  <2>6. \A s \in Nodes : /\ active'[s] => active[s] /\ s # n
                         /\ deactivating'[s] => deactivating[s] /\ s # n
    BY <1>0, <2>1 DEF FlagInv
  <2> HIDE DEF n
  <2>7. Calm(new, 1)
    BY <2>1, <2>2, <2>5, <2>6, NodeAssumption DEF Calm, Marks, Leaving, Goto
  <2> QED
    BY <2>1, <2>2, <2>3, <2>5, <2>7, WalkStep
<1> QED
  BY <1>1, <1>2, <1>3, <1>4

\* disable() and release(), and the hooks.
LEMMA OtherSteps ==
  ASSUME IInv, UNCHANGED sceneVars,
         Disabled \/ Release \/ ReleaseChildren \/ Released \/ HookReturns
  PROVE  IInv'
<1>0. FlagInv /\ TreeInv
  BY DEF IInv
<1>1. CASE Disabled
  <2>1. /\ At("disabled") /\ Return /\ enabled' = [enabled EXCEPT ![Top.node] = FALSE]
        /\ UNCHANGED <<tree, active, afterActive, deactivating, compiled, told>>
    BY <1>1 DEF Disabled
  <2>2. stack # <<>> /\ Op(1) = "disabled"
    BY <2>1, AtStep DEF Walks
  <2>3. FlagInv'
    BY <1>0, <2>1 DEF FlagInv, Return, Goto
  <2> QED
    BY <2>1, <2>2, <2>3, ReturnStep DEF Leaving
<1>2. CASE Released
  <2>1. /\ At("released") /\ Return /\ compiled' = [compiled EXCEPT ![Top.node] = FALSE]
        /\ UNCHANGED <<tree, enabled, active, afterActive, deactivating, told>>
    BY <1>2 DEF Released
  <2>2. stack # <<>> /\ Op(1) = "released"
    BY <2>1, AtStep DEF Walks
  <2>3. FlagInv'
    BY <1>0, <2>1 DEF FlagInv, Return, Goto
  <2> QED
    BY <2>1, <2>2, <2>3, ReturnStep DEF Leaving
<1>3. CASE HookReturns
  <2>1. stack # <<>> /\ Top.op \in Hooks /\ Return /\ UNCHANGED <<tree, flags, told>>
    BY <1>3 DEF HookReturns
  <2>2. Op(1) \in Hooks
    BY <2>1, TopStep DEF IInv
  <2>3. FlagInv'
    BY <1>0, <2>1 DEF FlagInv, flags, Return, Goto
  <2> QED
    BY <2>1, <2>2, <2>3, ReturnStep DEF Leaving, Hooks, flags
<1>4. CASE Release
  <2> DEFINE n == Top.node
             f == Do("deactivate", n)
             g == Do("releaseChildren", n)
             new == <<f, g>>
  <2>1. At("release") /\ Goto(new) /\ UNCHANGED <<tree, flags, told>>
    BY <1>4 DEF Release
  <2>2. stack # <<>> /\ Op(1) = "release" /\ Who(1) = n /\ n \in Nodes
    BY <2>1, AtStep DEF Walks
  <2>3. FlagInv'
    BY <1>0, <2>1 DEF FlagInv, Goto, flags
  <2>4. Good(f) /\ f.op = "deactivate" /\ Good(g) /\ g.op = "releaseChildren"
    BY <2>2, DoGood DEF Walks, Loops
  <2> HIDE DEF f, g
  <2>5. AllGood(new) /\ \A k \in 1..Len(new) : new[k].op \in {"deactivate", "releaseChildren"}
    BY <2>4, Good2
  <2> HIDE DEF new, n
  <2>6. Calm(new, 1)
    BY <2>1, <2>2, <2>5 DEF Calm, Marks, Leaving, Goto, flags
  <2> QED
    BY <2>1, <2>2, <2>3, <2>5, <2>6, WalkStep
<1>5. CASE ReleaseChildren
  <2> DEFINE n == Top.node
             new == Visit("release", "releases", "released", n)
  <2>1. At("releaseChildren") /\ Goto(new) /\ UNCHANGED <<tree, flags, told>>
    BY <1>5 DEF ReleaseChildren
  <2>2. stack # <<>> /\ Op(1) = "releaseChildren" /\ Who(1) = n /\ n \in Nodes
    BY <2>1, AtStep DEF Walks
  <2>3. FlagInv'
    BY <1>0, <2>1 DEF FlagInv, Goto, flags
  <2>4. AllGood(new) /\ Visits(new, "release", "releases", "released", n)
    BY <1>0, <2>2, VisitGood DEF Loops
  <2> HIDE DEF new, n
  <2>5. \A k \in 1..Len(new) : new[k].op \in {"release", "releases", "released"}
    BY <2>4 DEF Visits
  <2>6. Calm(new, 1)
    BY <2>1, <2>2, <2>5 DEF Calm, Marks, Leaving, Goto, flags
  <2> QED
    BY <2>1, <2>2, <2>3, <2>4, <2>6, WalkStep
<1> QED
  BY <1>1, <1>2, <1>3, <1>4, <1>5

\* One turn of a loop.
LEMMA LoopStep ==
  ASSUME IInv, UNCHANGED sceneVars, NEW loop \in Loops,
         NEW one \in {"activate", "deactivate", "release"}, Loop(loop, one)
  PROVE  IInv'
<1>1. /\ At(loop) /\ UNCHANGED <<tree, flags, told>>
      /\ IF Top.rest = <<>> THEN Return
         ELSE Goto(<<Do(one, Head(Top.rest)), [Top EXCEPT !.rest = Tail(@)]>>)
  BY DEF Loop
<1>2. /\ stack # <<>> /\ Op(1) = loop /\ Good(Top) /\ Top.op = loop
      /\ Top.rest \in Seq(Nodes) /\ \A k \in 1..Len(Top.rest) : Top.rest[k] \notin Root
  BY <1>1, AtStep DEF Walks, At, Good, Frame
<1>3. FlagInv'
  BY <1>1 DEF IInv, FlagInv, flags, Return, Goto
<1>4. CASE Top.rest = <<>>
  BY <1>1, <1>2, <1>3, <1>4, ReturnStep DEF flags, Leaving, Loops
<1>5. CASE Top.rest # <<>>
  <2> DEFINE rest == Top.rest
             c == Head(rest)
             f == Do(one, c)
             g == [Top EXCEPT !.rest = Tail(rest)]
             new == <<f, g>>
  <2>1. Goto(new)
    BY <1>1, <1>5
  <2>2. /\ c \in Nodes \ Root /\ Tail(rest) \in Seq(Nodes)
        /\ \A k \in 1..Len(Tail(rest)) : Tail(rest)[k] \notin Root
    <3> DEFINE q == Top.rest
    <3>1. q \in Seq(Nodes) /\ q # <<>> /\ \A k \in 1..Len(q) : q[k] \notin Root
      BY <1>2, <1>5
    <3> HIDE DEF q
    <3>2. /\ Head(q) \in Nodes /\ Head(q) = q[1] /\ Tail(q) \in Seq(Nodes) /\ Len(q) \in Nat \ {0}
          /\ Len(Tail(q)) = Len(q) - 1 /\ \A k \in 1..(Len(q) - 1) : Tail(q)[k] = q[k + 1]
      BY <3>1, HeadTailProperties
    <3>3. \A k \in 1..Len(Tail(q)) : k + 1 \in 1..Len(q)
      BY <3>2
    <3>4. Head(q) \notin Root
      BY <3>1, <3>2
    <3>5. \A k \in 1..Len(Tail(q)) : Tail(q)[k] \notin Root
      BY <3>1, <3>2, <3>3
    <3> QED
      BY <3>2, <3>4, <3>5 DEF q
  <2>3. Good(f) /\ f.op = one /\ f.node = c
    BY <2>2, DoGood DEF Walks, Loops
  <2>4. Good(g) /\ g.op = loop
    BY <1>2, <2>2, OtherRest
  <2> HIDE DEF f, g
  <2>5. /\ AllGood(new)
        /\ \A k \in 1..Len(new) : new[k].op = loop \/ (new[k].op = one /\ new[k].node \notin Root)
    BY <2>2, <2>3, <2>4, Good2
  <2> HIDE DEF new
  <2>6. Calm(new, 1)
    BY <1>1, <1>2, <2>1, <2>5 DEF Calm, Marks, Leaving, Goto, flags, Loops
  <2> QED
    BY <1>1, <1>2, <1>3, <2>1, <2>5, <2>6, WalkStep
<1> QED
  BY <1>4, <1>5

\* The tree after removeChild().
LEMMA DetachTree ==
  ASSUME TreeInv, NEW n \in Nodes, parent[n] # None, Detach(n)
  PROVE  TreeInv'
<1> DEFINE p == parent[n]
           q == RemoveFirst(children[p], n)
<1>1. p \in Nodes
  BY DEF TreeInv
<1>2. parent' = [parent EXCEPT ![n] = None] /\ children' = [children EXCEPT ![p] = q]
  BY DEF Detach
<1>3. q \in Seq(Nodes) /\ IsInjective(q) /\ ToSet(q) = ToSet(children[p]) \ {n}
  <2>1. children[p] \in Seq(Nodes) /\ IsInjective(children[p])
    BY <1>1 DEF TreeInv
  <2> QED
    BY <2>1, RemoveFirstProperties
<1>4. ToSet(children[p]) = {c \in Nodes : parent[c] = p}
  BY <1>1 DEF TreeInv
<1> HIDE DEF q
<1>5. parent' \in [Nodes -> Nodes \cup {None}] /\ children' \in [Nodes -> Seq(Nodes)]
  BY <1>2, <1>3 DEF TreeInv
<1>6. /\ \A c \in Nodes : parent'[c] = IF c = n THEN None ELSE parent[c]
      /\ \A m \in Nodes : children'[m] = IF m = p THEN q ELSE children[m]
  BY <1>2 DEF TreeInv
<1>7. ASSUME NEW m \in Nodes
      PROVE  /\ parent'[m] # m /\ IsInjective(children'[m])
             /\ ToSet(children'[m]) = {c \in Nodes : parent'[c] = m}
  <2>1. /\ parent[m] # m /\ IsInjective(children[m]) /\ m # None
        /\ ToSet(children[m]) = {c \in Nodes : parent[c] = m}
    BY NodeAssumption DEF TreeInv
  <2>2. {c \in Nodes : parent'[c] = m} = {c \in Nodes : parent[c] = m} \ {n}
    BY <2>1, <1>6
  <2>3. CASE m = p
    BY <2>1, <2>2, <2>3, <1>3, <1>4, <1>6
  <2>4. CASE m # p
    <3>1. n \notin {c \in Nodes : parent[c] = m}
      BY <2>4
    <3> QED
      BY <2>1, <2>2, <2>4, <3>1, <1>6
  <2> QED
    BY <2>3, <2>4
<1>8. RootInv'
  BY <1>6, NodeAssumption DEF TreeInv, RootInv
<1> QED
  BY <1>5, <1>7, <1>8 DEF TreeInv

\* A step that takes itself off the stack.
LEMMA DropStep ==
  ASSUME IInv, stack # <<>>, NEW under, AllGood(under), Same(under, Tail(stack)), stack' = under,
         TreeInv', FlagInv', Calm(<<>>, 1)
  PROVE  IInv'
<1>1. ServiceInv /\ FrameInv /\ SceneInv
  BY DEF IInv
<1>2. stack' = <<>> \o under
  <2>1. under \in Seq(Frame)
    BY DEF AllGood
  <2> QED
    BY <2>1, ConcatEmptySeq
<1>3. FrameInv' /\ Slides(<<>>, 1)
  BY <1>1, <1>2, Good0, GotoSlides
<1>4. \A k \in Places : Op(k) = "dropped" => Who(k) \in Root
  BY <1>1 DEF FrameInv, AllGood, Good, Places, Op, Who
<1>5. Len(<<>>) \in Nat /\ Len(stack) \in Nat /\ 1 <= Len(stack)
  BY <1>1, TopStep, Good0
<1>6. SceneInv'
  BY <1>1, <1>3, <1>4, <1>5, CalmStep
<1>7. ServiceInv'
  BY <1>1 DEF ServiceInv, Calm, sceneVars
<1> QED
  BY <1>3, <1>6, <1>7 DEF IInv

\* removeFromParent() keeps it: a scene has no parent.
LEMMA RemovedStep ==
  ASSUME IInv, UNCHANGED sceneVars, Removed
  PROVE  IInv'
<1> DEFINE n == Top.node
<1>1. /\ At("removed") /\ UNCHANGED <<flags, nested, told, interrupted>>
      /\ \/ parent[n] = Top.rest[1] /\ Detach(n) /\ stack' = Leaves(Tail(stack), n)
         \/ UNCHANGED tree /\ stack' = Tail(stack)
  BY DEF Removed
<1>2. stack # <<>> /\ Op(1) = "removed" /\ Good(Top) /\ Top.op = "removed" /\ n \in Nodes
  BY <1>1, AtStep DEF Walks, At
<1>3. FlagInv'
  BY <1>1 DEF IInv, FlagInv, flags
<1>4. Calm(<<>>, 1)
  BY <1>1, <1>2, Good0 DEF Calm, flags, Leaving
<1>5. AllGood(Tail(stack)) /\ TreeInv
  BY <1>2, Below DEF IInv
<1>6. CASE parent[n] = Top.rest[1] /\ Detach(n) /\ stack' = Leaves(Tail(stack), n)
  <2>1. parent[n] # None
    <3>1. Top.rest \in Seq(Nodes) /\ Top.rest # <<>>
      BY <1>2 DEF Good, Frame, Walks
    <3>2. Top.rest[1] \in Nodes
      BY <3>1
    <3> QED
      BY <3>2, <1>6, NodeAssumption
  <2>2. TreeInv'
    BY <1>2, <1>5, <1>6, <2>1, DetachTree
  <2>3. AllGood(Leaves(Tail(stack), n)) /\ Same(Leaves(Tail(stack), n), Tail(stack))
    BY <1>5, LeavesGood
  <2> QED
    BY <1>2, <1>3, <1>4, <1>6, <2>2, <2>3, DropStep
<1>7. CASE UNCHANGED tree /\ stack' = Tail(stack)
  <2>1. TreeInv'
    BY <1>5, <1>7 DEF tree, TreeInv, RootInv
  <2> QED
    BY <1>2, <1>3, <1>4, <1>5, <1>7, <2>1, SameRefl, DropStep
<1> QED
  BY <1>1, <1>6, <1>7

\* All the steps of the walks.
LEMMA WalkSteps ==
  ASSUME IInv, Walk, UNCHANGED sceneVars
  PROVE  IInv'
<1>1. CASE NextChild
  BY <1>1, LoopStep DEF NextChild, Loops
<1> QED
  BY <1>1, ActivateSteps, DeactivateSteps, OtherSteps, RemovedStep DEF Walk

------------------------------------------------------------------------------
(* The calls of scripts *)

\* A call keeps the invariant, when what it puts on the stack is calm.
LEMMA CallStep ==
  ASSUME IInv, Script, NEW about, about \subseteq Nodes, NEW new, AllGood(new),
         NEW under, AllGood(under), Same(under, stack), Call(about, new, under),
         UNCHANGED <<active, afterActive, deactivating, compiled, told, sceneVars>>,
         enabled' \in [Nodes -> BOOLEAN], TreeInv',
         \A k \in 1..Len(new) :
           /\ new[k].op \notin Marks
           /\ ~(new[k].op \in {"activate", "activated"} /\ new[k].node \in Root)
  PROVE  IInv'
<1>1. FlagInv /\ ServiceInv /\ FrameInv /\ SceneInv
  BY DEF IInv
<1>2. stack' = new \o under /\ interrupted' = interrupted \cup Interrupts(about)
      /\ nested' = IF stack = <<>> THEN 0 ELSE nested + 1
  BY DEF Call
<1>3. FrameInv' /\ Slides(new, 0)
  BY <1>1, <1>2, CallSlides
<1>4. \A k \in Places : Op(k) = "dropped" => Who(k) \in Root
  BY <1>1 DEF FrameInv, AllGood, Good, Places, Op, Who
<1>5. Len(new) \in Nat /\ Len(stack) \in Nat /\ 0 <= Len(stack)
  BY <1>1 DEF FrameInv, AllGood
<1>6. Calm(new, 0)
  BY <1>2 DEF Calm
<1>7. SceneInv'
  BY <1>1, <1>3, <1>4, <1>5, <1>6, CalmStep
<1>8. nested' \in 0..MaxNested
  BY <1>1, <1>2, NodeAssumption DEF Script, FlagInv
<1>9. Interrupts(about) \subseteq Nodes
  BY DEF Interrupts
<1>10. FlagInv'
  BY <1>1, <1>2, <1>8, <1>9 DEF FlagInv
<1>11. ServiceInv'
  BY <1>1 DEF ServiceInv, sceneVars
<1> QED
  BY <1>3, <1>7, <1>10, <1>11 DEF IInv

\* The tree after addChild().
LEMMA AttachTree ==
  ASSUME TreeInv, NEW p \in Nodes, NEW n \in Nodes \ Root, n # p,
         parent' = [parent EXCEPT ![n] = p],
         children' = [m \in Nodes |-> IF m = p THEN Append(RemoveFirst(children[m], n), n)
                                               ELSE RemoveFirst(children[m], n)]
  PROVE  TreeInv'
<1> DEFINE q(m) == RemoveFirst(children[m], n)
<1>1. \A m \in Nodes : q(m) \in Seq(Nodes) /\ IsInjective(q(m)) /\ ToSet(q(m)) = ToSet(children[m]) \ {n}
  <2> TAKE m \in Nodes
  <2>1. children[m] \in Seq(Nodes) /\ IsInjective(children[m])
    BY DEF TreeInv
  <2> QED
    BY <2>1, RemoveFirstProperties
<1>2. \A m \in Nodes : children'[m] = IF m = p THEN Append(q(m), n) ELSE q(m)
  OBVIOUS
<1>3. children' = [m \in Nodes |-> children'[m]]
  OBVIOUS
<1> HIDE DEF q
<1>4. /\ parent' \in [Nodes -> Nodes \cup {None}]
      /\ \A c \in Nodes : parent'[c] = IF c = n THEN p ELSE parent[c]
  BY DEF TreeInv
<1>5. ASSUME NEW m \in Nodes
      PROVE  /\ children'[m] \in Seq(Nodes) /\ parent'[m] # m /\ IsInjective(children'[m])
             /\ ToSet(children'[m]) = {c \in Nodes : parent'[c] = m}
  <2>1. parent[m] # m /\ ToSet(children[m]) = {c \in Nodes : parent[c] = m}
    BY DEF TreeInv
  <2>2. parent'[m] # m
    BY <2>1, <1>4
  <2>3. CASE m # p
    <3>1. {c \in Nodes : parent'[c] = m} = {c \in Nodes : parent[c] = m} \ {n}
      BY <1>4, <2>3
    <3> QED
      BY <1>1, <1>2, <2>1, <2>2, <2>3, <3>1
  <2>4. CASE m = p
    <3>1. {c \in Nodes : parent'[c] = m} = {c \in Nodes : parent[c] = m} \cup {n}
      BY <1>4, <2>4
    <3> DEFINE r == q(m)
               a == Append(r, n)
    <3>2. r \in Seq(Nodes) /\ IsInjective(r) /\ ToSet(r) = ToSet(children[m]) \ {n}
      BY <1>1
    <3>3. children'[m] = a
      BY <1>2, <2>4
    <3> HIDE DEF r
    <3>4. /\ a \in Seq(Nodes) /\ Len(a) = Len(r) + 1 /\ Len(r) \in Nat
          /\ \A j \in 1..Len(r) : a[j] = r[j]
          /\ a[Len(r) + 1] = n
      BY <3>2, AppendProperties
    <3> HIDE DEF a
    <3>5. ASSUME NEW j \in 1..Len(r) PROVE r[j] # n
      <4>1. r[j] \in ToSet(r)
        BY <3>2 DEF ToSet
      <4> QED
        BY <3>2, <4>1
    <3>6. \A i, j \in 1..Len(r) : r[i] = r[j] => i = j
      BY <3>2 DEF IsInjective
    <3>7. \A j \in 1..Len(a) : j \in 1..Len(r) \/ j = Len(r) + 1
      BY <3>4
    <3>8. \A i, j \in 1..Len(a) : a[i] = a[j] => i = j
      BY <3>4, <3>5, <3>6, <3>7
    <3>9. IsInjective(a)
      BY <3>4, <3>8 DEF IsInjective
    <3>10. ToSet(a) = ToSet(r) \cup {n}
      <4>1. \A x \in ToSet(a) : x \in ToSet(r) \cup {n}
        BY <3>4, <3>7 DEF ToSet
      <4>2. \A x \in ToSet(r) : x \in ToSet(a)
        BY <3>4 DEF ToSet
      <4>3. n \in ToSet(a)
        <5>1. Len(r) + 1 \in 1..Len(a) /\ DOMAIN a = 1..Len(a)
          BY <3>4
        <5> QED
          BY <3>4, <5>1 DEF ToSet
      <4> QED
        BY <4>1, <4>2, <4>3
    <3> QED
      BY <2>1, <2>2, <3>1, <3>2, <3>3, <3>4, <3>9, <3>10
  <2> QED
    BY <2>3, <2>4
<1>6. children' \in [Nodes -> Seq(Nodes)]
  BY <1>3, <1>5
<1>7. RootInv'
  BY <1>4, NodeAssumption DEF TreeInv, RootInv
<1> QED
  BY <1>4, <1>5, <1>6, <1>7 DEF TreeInv

\* enable() keeps it: a scene has no parent, so that it is not activated here.
LEMMA EnableStep ==
  ASSUME IInv, UNCHANGED sceneVars, NEW n \in Nodes, Enable(n, FALSE)
  PROVE  IInv'
<1> DEFINE new == IF ~active[n] /\ Under(parent[n]) /\ parent[n] # None THEN <<Do("activate", n)>> ELSE <<>>
<1>1. /\ Script /\ enabled' = [enabled EXCEPT ![n] = @ \/ ~active[n]] /\ Call({n}, new, stack)
      /\ UNCHANGED <<tree, active, afterActive, deactivating, compiled, told>>
  BY DEF Enable
<1>2. AllGood(new) /\ \A k \in 1..Len(new) : new[k].op = "activate" /\ new[k].node = n /\ parent[n] # None
  <2>1. Good(Do("activate", n)) /\ Do("activate", n).op = "activate" /\ Do("activate", n).node = n
    BY DoGood DEF Walks, Loops
  <2> QED
    BY <2>1, Good0, Good1
<1> HIDE DEF new
<1>3. TreeInv' /\ AllGood(stack) /\ Same(stack, stack)
  BY <1>1, SameRefl DEF IInv, tree, TreeInv, RootInv, FrameInv
<1>4. enabled' \in [Nodes -> BOOLEAN]
  BY <1>1 DEF IInv, FlagInv
<1>5. n \in Root => parent[n] = None
  BY DEF IInv, TreeInv, RootInv
<1>6. \A k \in 1..Len(new) : /\ new[k].op \notin Marks
                             /\ ~(new[k].op \in {"activate", "activated"} /\ new[k].node \in Root)
  BY <1>2, <1>5 DEF Marks
<1> QED
  BY <1>1, <1>2, <1>3, <1>4, <1>6, CallStep

\* disable(), removeFromParent() and release() do not change anything at once.
LEMMA PlainStep ==
  ASSUME IInv, UNCHANGED sceneVars, NEW n \in Nodes,
         Disable(n) \/ RemoveFromParent(n) \/ CallRelease(n)
  PROVE  IInv'
<1>1. TreeInv /\ FlagInv /\ AllGood(stack) /\ Same(stack, stack)
  BY SameRefl DEF IInv, FrameInv
<1>2. PICK new :
        /\ AllGood(new) /\ Call({n}, new, stack) /\ Script /\ UNCHANGED <<tree, flags, told>>
        /\ \A k \in 1..Len(new) : new[k].op \in {"deactivate", "disabled", "removed", "release"}
  <2> DEFINE d == Do("deactivate", n)
  <2>1. Good(d) /\ d.op = "deactivate"
    BY DoGood DEF Walks, Loops
  <2>2. CASE Disable(n)
    <3> DEFINE e == Do("disabled", n)
    <3>1. Good(e) /\ e.op = "disabled"
      BY DoGood DEF Walks, Loops
    <3>2. Call({n}, <<d, e>>, stack) /\ Script /\ UNCHANGED <<tree, flags, told>>
      BY <2>2 DEF Disable
    <3> HIDE DEF d, e
    <3>3. AllGood(<<d, e>>) /\ \A k \in 1..Len(<<d, e>>) : <<d, e>>[k].op \in {"deactivate", "disabled"}
      BY <2>1, <3>1, Good2
    <3> QED
      BY <3>2, <3>3
  <2>3. CASE RemoveFromParent(n)
    <3> DEFINE e == [op |-> "removed", node |-> n, rest |-> <<parent[n]>>]
    <3>1. parent[n] \in Nodes
      BY <1>1, <2>3 DEF TreeInv, RemoveFromParent
    <3>2. Good(e) /\ e.op = "removed"
      BY <3>1 DEF Good, Frame, Walks, Loops
    <3>3. Call({n}, <<d, e>>, stack) /\ Script /\ UNCHANGED <<tree, flags, told>>
      BY <2>3 DEF RemoveFromParent
    <3> HIDE DEF d, e
    <3>4. AllGood(<<d, e>>) /\ \A k \in 1..Len(<<d, e>>) : <<d, e>>[k].op \in {"deactivate", "removed"}
      BY <2>1, <3>2, Good2
    <3> QED
      BY <3>3, <3>4
  <2>4. CASE CallRelease(n)
    <3> DEFINE e == Do("release", n)
    <3>1. Good(e) /\ e.op = "release"
      BY DoGood DEF Walks, Loops
    <3>2. Call({n}, <<e>>, stack) /\ Script /\ UNCHANGED <<tree, flags, told>>
      BY <2>4 DEF CallRelease
    <3> HIDE DEF e
    <3>3. AllGood(<<e>>) /\ \A k \in 1..Len(<<e>>) : <<e>>[k].op = "release"
      BY <3>1, Good1
    <3> QED
      BY <3>2, <3>3
  <2> QED
    BY <2>2, <2>3, <2>4
<1>3. /\ TreeInv' /\ enabled' \in [Nodes -> BOOLEAN]
      /\ UNCHANGED <<active, afterActive, deactivating, compiled, told, sceneVars>>
  BY <1>1, <1>2 DEF tree, flags, TreeInv, RootInv, FlagInv
<1>4. \A k \in 1..Len(new) : /\ new[k].op \notin Marks
                             /\ ~(new[k].op \in {"activate", "activated"} /\ new[k].node \in Root)
  BY <1>2 DEF Marks
<1> QED
  BY <1>1, <1>2, <1>3, <1>4, CallStep

\* addChild() keeps it: what is moved is not a scene.
LEMMA AddStep ==
  ASSUME IInv, UNCHANGED sceneVars, NEW p \in Nodes, NEW n \in Nodes, AddChild(p, n)
  PROVE  IInv'
<1> DEFINE new == CASE active[p] = active[n] -> <<>>
                    [] active[n] /\ ~active[p] -> <<Do("deactivate", n)>>
                    [] active[p] /\ ~active[n] -> <<Do("activate", n)>>
           under == Joins(Leaves(stack, n), p, n)
<1>1. /\ Script /\ n \notin Root \cup Above(p) /\ parent' = [parent EXCEPT ![n] = p]
      /\ children' = [m \in Nodes |-> IF m = p THEN Append(RemoveFirst(children[m], n), n)
                                               ELSE RemoveFirst(children[m], n)]
      /\ Call({p, n}, <<>>, stack) \/ Call({p, n}, new, under)
      /\ UNCHANGED <<flags, told>>
  BY DEF AddChild
<1>2. TreeInv /\ FlagInv /\ AllGood(stack) /\ Same(stack, stack)
  BY SameRefl DEF IInv, FrameInv
<1>3. n \in Nodes \ Root /\ n # p
  <2>1. p \in Above(p)
    BY DEF Above
  <2> QED
    BY <1>1, <2>1
<1>4. TreeInv'
  BY <1>1, <1>2, <1>3, AttachTree
<1>5. /\ enabled' \in [Nodes -> BOOLEAN]
      /\ UNCHANGED <<active, afterActive, deactivating, compiled, told, sceneVars>>
  BY <1>1, <1>2 DEF flags, FlagInv
<1>6. CASE Call({p, n}, <<>>, stack)
  <2> DEFINE none == <<>>
  <2>1. AllGood(none) /\ 1..Len(none) = {} /\ Call({p, n}, none, stack)
    BY <1>6, Good0
  <2> HIDE DEF none
  <2> QED
    BY <1>1, <1>2, <1>4, <1>5, <2>1, CallStep
<1>7. CASE Call({p, n}, new, under)
  <2>1. AllGood(under) /\ Same(under, stack)
    <3>1. AllGood(Leaves(stack, n)) /\ Same(Leaves(stack, n), stack)
      BY <1>2, LeavesGood
    <3>2. AllGood(under) /\ Same(under, Leaves(stack, n))
      BY <1>3, <3>1, JoinsGood
    <3> QED
      BY <3>1, <3>2 DEF Same
  <2>2. AllGood(new) /\ \A k \in 1..Len(new) : new[k].op \in {"activate", "deactivate"} /\ new[k].node = n
    <3>1. /\ Good(Do("activate", n)) /\ Do("activate", n).op = "activate" /\ Do("activate", n).node = n
          /\ Good(Do("deactivate", n)) /\ Do("deactivate", n).op = "deactivate" /\ Do("deactivate", n).node = n
      BY DoGood DEF Walks, Loops
    <3>2. active[p] \in BOOLEAN /\ active[n] \in BOOLEAN
      BY <1>2 DEF FlagInv
    <3>3. new = <<>> \/ new = <<Do("activate", n)>> \/ new = <<Do("deactivate", n)>>
      BY <3>2
    <3> HIDE DEF new
    <3> QED
      BY <3>1, <3>3, Good0, Good1
  <2> HIDE DEF new, under
  <2>3. \A k \in 1..Len(new) : /\ new[k].op \notin Marks
                               /\ ~(new[k].op \in {"activate", "activated"} /\ new[k].node \in Root)
    BY <1>3, <2>2 DEF Marks
  <2> QED
    BY <1>1, <1>4, <1>5, <1>7, <2>1, <2>2, <2>3, CallStep
<1> QED
  BY <1>1, <1>6, <1>7

\* All the calls of scripts.
LEMMA ScriptSteps ==
  ASSUME IInv, Scripts, UNCHANGED sceneVars
  PROVE  IInv'
<1>1. PICK n \in Nodes : \/ Enable(n, FALSE)
                         \/ Disable(n)
                         \/ \E p \in Nodes : AddChild(p, n)
                         \/ RemoveFromParent(n)
                         \/ CallRelease(n)
  BY DEF Scripts
<1> QED
  BY <1>1, EnableStep, PlainStep, AddStep

------------------------------------------------------------------------------
(* The steps of a command *)

\* What has returned is gone, and the others are what they were.
LEMMA ReturnPlaces ==
  ASSUME FrameInv, stack # <<>>, Return
  PROVE  /\ FrameInv'
         /\ \A k \in Places' : k + 1 \in Places /\ Op(k)' = Op(k + 1) /\ Who(k)' = Who(k + 1)
         /\ \A k \in Places : k > 1 => k - 1 \in Places' /\ Op(k - 1)' = Op(k) /\ Who(k - 1)' = Who(k)
<1>1. stack' = <<>> \o Tail(stack) /\ AllGood(Tail(stack)) /\ Same(Tail(stack), Tail(stack))
  BY Below, SameRefl DEF Return, Goto
<1>2. FrameInv' /\ Slides(<<>>, 1)
  BY <1>1, Good0, GotoSlides
<1>3. Len(stack) \in Nat /\ 1 <= Len(stack) /\ Len(<<>>) = 0
  BY TopStep, Good0
<1>4. Places' = 1..(Len(stack) - 1)
  BY <1>2, <1>3 DEF Slides, Places
<1>5. ASSUME NEW k \in Places, k > 1
      PROVE  k - 1 \in Places' /\ Op(k - 1)' = Op(k) /\ Who(k - 1)' = Who(k)
  <2>1. k + 0 - 1 = k - 1 /\ k - 1 \in Places'
    BY <1>3, <1>4, <1>5 DEF Places
  <2>2. Op(k + 0 - 1)' = Op(k) /\ Who(k + 0 - 1)' = Who(k)
    BY <1>2, <1>3, <1>5 DEF Slides
  <2> QED
    BY <2>1, <2>2
<1>6. ASSUME NEW k \in Places'
      PROVE  k + 1 \in Places /\ Op(k)' = Op(k + 1) /\ Who(k)' = Who(k + 1)
  <2>1. k + 1 \in Places /\ k + 1 > 1 /\ (k + 1) - 1 = k
    BY <1>3, <1>4, <1>6 DEF Places
  <2> DEFINE j == k + 1
  <2>2. j \in Places /\ j > 1 /\ j - 1 = k
    BY <2>1
  <2> HIDE DEF j
  <2>3. Op(k)' = Op(j) /\ Who(k)' = Who(j)
    BY <1>5, <2>2
  <2> QED
    BY <2>1, <2>3 DEF j
<1> QED
  BY <1>2, <1>5, <1>6

\* The end of a step of a command leaves no other scene behind.
LEMMA CommandReturns ==
  ASSUME IInv, stack # <<>>, Return, UNCHANGED <<tree, flags, told>>, ServiceInv',
         \/ Op(1) = "dropped" /\ scene' = None /\ commands' = commands
         \/ Op(1) = "current" /\ scene' = Who(1) /\ Who(1) \in Root /\ commands' = commands
         \/ Op(1) = "done" /\ scene' = scene /\ commands' = <<>>
  PROVE  IInv'
<1>1. /\ FrameInv'
      /\ \A k \in Places' : k + 1 \in Places /\ Op(k)' = Op(k + 1) /\ Who(k)' = Who(k + 1)
      /\ \A k \in Places : k > 1 => k - 1 \in Places' /\ Op(k - 1)' = Op(k) /\ Who(k - 1)' = Who(k)
  BY ReturnPlaces DEF IInv
<1>2. /\ MarkInv /\ ActivateInv /\ ForceInv /\ CurrentInv /\ DropInv /\ LeaveInv /\ OneScene
      /\ TreeInv /\ FlagInv /\ ServiceInv
  BY DEF IInv, SceneInv
<1>3. /\ 1 \in Places /\ Before(1) = {} /\ Op(1) \in Marks
      /\ \A k \in Places' : 1 \in Before(k + 1) /\ k \in Int /\ k >= 1 /\ k + 1 > 1
      /\ \A k, j \in Places' : j > k => j + 1 > k + 1
      /\ \A k \in Places' : \A j \in Before(k + 1) : j # 1 =>
           j \in Places /\ j > 1 /\ j - 1 \in Before(k)
      /\ \A k \in Places' : \A j \in Before(k) : j \in Places' /\ j + 1 \in Before(k + 1) /\ j + 1 > 1
  BY <1>1, TopStep DEF IInv, Before, Places, Marks
<1>4. UNCHANGED <<active, deactivating, interrupted>>
  BY DEF flags, Return, Goto
<1>5. \A k \in Places' : ~(Op(k)' \in {"activate", "activated"} /\ Who(k)' \in Root)
  BY <1>1, <1>2, <1>3 DEF ActivateInv
<1>6. LeaveInv'
  <2> SUFFICES ASSUME NEW s \in Root, deactivating'[s]
               PROVE  \E k \in Places' : Who(k)' = s /\ Op(k)' \in {"deactivated", "inactive"}
    BY DEF LeaveInv
  <2>1. PICK j \in Places : Who(j) = s /\ Op(j) \in {"deactivated", "inactive"}
    BY <1>2, <1>4 DEF LeaveInv
  <2>2. j > 1
    BY <1>3, <2>1 DEF Places, Marks
  <2> QED
    BY <1>1, <2>1, <2>2
<1>7. TreeInv' /\ FlagInv'
  BY <1>2 DEF tree, flags, TreeInv, RootInv, FlagInv, Return, Goto
<1>8. ActivateInv'
  BY <1>5 DEF ActivateInv
<1>9. CASE Op(1) = "done" /\ scene' = scene /\ commands' = <<>>
  <2>1. \A k \in Places' : Op(k)' \notin Marks
    BY <1>1, <1>2, <1>3, <1>9 DEF MarkInv
  <2>2. MarkInv' /\ ForceInv' /\ CurrentInv' /\ DropInv'
    BY <2>1 DEF Marks, MarkInv, ForceInv, CurrentInv, DropInv
  <2>3. OneScene'
    BY <1>2, <1>4, <1>9 DEF OneScene, ToSet
  <2> QED
    BY <1>1, <1>6, <1>7, <1>8, <2>2, <2>3 DEF IInv, SceneInv
<1>10. ASSUME Op(1) \in {"dropped", "current"}, commands' = commands
       PROVE  MarkInv'
  <2> SUFFICES ASSUME NEW k \in Places', Op(k)' \in Marks
               PROVE  /\ commands' # <<>>
                      /\ Op(k)' = "done" => \A m \in Places' : m > k => Op(m)' \notin Marks
                      /\ Op(k)' \in {"dropped", "current"} => Head(commands').type # "restart"
    BY DEF MarkInv
  <2>1. /\ commands # <<>>
        /\ Op(k + 1) = "done" => \A h \in Places : h > k + 1 => Op(h) \notin Marks
        /\ Op(k + 1) \in {"dropped", "current"} => Head(commands).type # "restart"
    BY <1>1, <1>2 DEF MarkInv
  <2> QED
    BY <1>1, <1>3, <1>10, <2>1
<1>11. CASE Op(1) = "dropped" /\ scene' = None /\ commands' = commands
  <2>1. /\ scene \notin interrupted => ~active[scene]
        /\ \A c \in ToSet(commands) : c.type # "restart"
    <3>1. scene \notin interrupted => ~active[scene]
      BY <1>2, <1>3, <1>11 DEF DropInv
    <3>2. commands # <<>> /\ Head(commands).type # "restart" /\ commands \in Seq(Command) /\ Len(commands) <= 1
      BY <1>2, <1>3, <1>11 DEF MarkInv, ServiceInv
    <3>3. \A c \in ToSet(commands) : c = Head(commands)
      BY <3>2 DEF ToSet
    <3> QED
      BY <3>1, <3>2, <3>3
  <2>2. OneScene'
    BY <1>2, <1>4, <1>11, <2>1 DEF OneScene
  <2>3. ForceInv'
    <3> SUFFICES ASSUME NEW k \in Places', Op(k)' = "enableForce"
                 PROVE  \E i \in Before(k) : Op(i)' = "current" /\ Who(i)' = Who(k)'
      BY DEF ForceInv, Before
    <3>1. PICK j \in Before(k + 1) : Op(j) = "current" /\ Who(j) = Who(k + 1)
      BY <1>1, <1>2, <1>3, <1>11 DEF ForceInv
    <3>2. j \in Places /\ j > 1 /\ j - 1 \in Before(k)
      BY <1>3, <1>11, <3>1
    <3> QED
      BY <1>1, <3>1, <3>2
  <2>4. CurrentInv'
    BY <1>1, <1>2, <1>3, <1>11 DEF CurrentInv
  <2>5. DropInv'
    <3>1. \A k \in Places' : Op(k)' # "dropped"
      BY <1>1, <1>2, <1>3, <1>11 DEF DropInv
    <3> QED
      BY <3>1 DEF DropInv
  <2> QED
    BY <1>1, <1>6, <1>7, <1>8, <1>10, <1>11, <2>2, <2>3, <2>4, <2>5 DEF IInv, SceneInv
<1>12. CASE Op(1) = "current" /\ scene' = Who(1) /\ Who(1) \in Root /\ commands' = commands
  <2>1. scene = None /\ \A k \in Places : k > 1 => Op(k) \notin {"dropped", "current"}
    BY <1>2, <1>3, <1>12 DEF CurrentInv
  <2>2. \A k \in Places' : Op(k)' \notin {"dropped", "current"}
    BY <1>1, <1>3, <2>1
  <2>3. CurrentInv' /\ DropInv'
    BY <2>2 DEF CurrentInv, DropInv
  <2>4. OneScene'
    BY <1>2, <1>4, <1>12, <2>1, NodeAssumption DEF OneScene
  <2>5. ForceInv'
    <3> SUFFICES ASSUME NEW k \in Places', Op(k)' = "enableForce"
                 PROVE  Who(k)' = scene' /\ \A i \in Before(k) : Op(i)' \notin {"dropped", "current"}
      BY DEF ForceInv, Before
    <3>1. PICK j \in Before(k + 1) : Op(j) = "current" /\ Who(j) = Who(k + 1)
      BY <1>1, <1>2, <1>3, <1>12 DEF ForceInv
    <3>2. j = 1
      BY <1>3, <2>1, <3>1
    <3> QED
      BY <1>1, <1>3, <1>12, <2>2, <3>1, <3>2
  <2> QED
    BY <1>1, <1>6, <1>7, <1>8, <1>10, <1>12, <2>3, <2>4, <2>5 DEF IInv, SceneInv
<1> QED
  BY <1>9, <1>11, <1>12

\* The steps of a command, that take the scene down and bring one up.
LEMMA ServiceSteps ==
  ASSUME IInv, OnDestroy \/ Dropped \/ Current \/ EnableForce \/ Done
  PROVE  IInv'
<1>0. FlagInv /\ TreeInv /\ ServiceInv
  BY DEF IInv
<1>1. CASE OnDestroy
  <2> DEFINE f == Do("callback", Top.node)
             new == <<f>>
  <2>1. At("onDestroy") /\ Goto(new) /\ UNCHANGED <<tree, flags, told, sceneVars>>
    BY <1>1 DEF OnDestroy
  <2>2. stack # <<>> /\ Op(1) = "onDestroy" /\ Top.node \in Nodes
    BY <2>1, AtStep DEF Walks
  <2>3. FlagInv'
    BY <1>0, <2>1 DEF FlagInv, Goto, flags
  <2>4. Good(f) /\ f.op = "callback"
    BY <2>2 DEF Do, Good, Frame, Walks, Loops
  <2> HIDE DEF f
  <2>5. AllGood(new) /\ \A k \in 1..Len(new) : new[k].op = "callback"
    BY <2>4, Good1
  <2> HIDE DEF new
  <2>6. Calm(new, 1)
    BY <2>1, <2>2, <2>5 DEF Calm, Marks, Leaving, Goto, flags
  <2> QED
    BY <2>1, <2>2, <2>3, <2>5, <2>6, WalkStep
<1>2. CASE EnableForce
  <2> DEFINE n == Top.node
             new == IF active[n] THEN <<>> ELSE <<Do("activate", n)>>
  <2>1. /\ At("enableForce") /\ enabled' = [enabled EXCEPT ![n] = @ \/ ~active[n]] /\ Goto(new)
        /\ UNCHANGED <<tree, active, afterActive, deactivating, compiled, told, sceneVars>>
    BY <1>2 DEF EnableForce
  <2>2. stack # <<>> /\ Op(1) = "enableForce" /\ Who(1) = n /\ n \in Nodes
    BY <2>1, AtStep DEF Walks
  <2>3. FlagInv'
    BY <1>0, <2>1 DEF FlagInv, Goto
  <2>4. AllGood(new) /\ \A k \in 1..Len(new) : new[k].op = "activate" /\ new[k].node = n
    <3>1. Good(Do("activate", n)) /\ Do("activate", n).op = "activate" /\ Do("activate", n).node = n
      BY <2>2, DoGood DEF Walks, Loops
    <3> QED
      BY <3>1, Good0, Good1
  <2> HIDE DEF new, n
  <2>5. Calm(new, 1)
    BY <2>1, <2>2, <2>4 DEF Calm, Marks, Leaving, Goto
  <2> QED
    BY <2>1, <2>2, <2>3, <2>4, <2>5, WalkStep
<1>3. CASE Dropped
  <2>1. At("dropped") /\ scene' = None /\ Return /\ UNCHANGED <<tree, flags, told, commands>>
    BY <1>3 DEF Dropped
  <2>2. stack # <<>> /\ Op(1) = "dropped"
    BY <2>1, AtStep DEF Walks
  <2>3. ServiceInv'
    BY <1>0, <2>1 DEF ServiceInv
  <2> QED
    BY <2>1, <2>2, <2>3, CommandReturns
<1>4. CASE Current
  <2>1. At("current") /\ scene' = Top.node /\ Return /\ UNCHANGED <<tree, flags, told, commands>>
    BY <1>4 DEF Current
  <2>2. stack # <<>> /\ Op(1) = "current" /\ Who(1) = Top.node /\ Top.node \in Root
    BY <2>1, AtStep DEF Walks, At, Good
  <2>3. ServiceInv'
    BY <1>0, <2>1, <2>2 DEF ServiceInv
  <2> QED
    BY <2>1, <2>2, <2>3, CommandReturns
<1>5. CASE Done
  <2>1. At("done") /\ commands' = <<>> /\ Return /\ UNCHANGED <<tree, flags, told, scene>>
    BY <1>5 DEF Done
  <2>2. stack # <<>> /\ Op(1) = "done"
    BY <2>1, AtStep
  <2>3. ServiceInv'
    BY <1>0, <2>1 DEF ServiceInv
  <2> QED
    BY <2>1, <2>2, <2>3, CommandReturns
<1> QED
  BY <1>1, <1>2, <1>3, <1>4, <1>5

------------------------------------------------------------------------------
(* The requests *)

\* What a command leaves on the stack to do.
Shape(new, c) ==
  /\ AllGood(new)
  /\ \A k \in 1..Len(new) :
       /\ new[k].op \in {"callback", "deactivate", "disabled"} \cup Marks
       /\ new[k].op = "done" => k = Len(new)
       /\ new[k].op = "enableForce" =>
            \/ new[k].node = scene /\ \A j \in Before(k) : new[j].op \notin {"dropped", "current"}
            \/ \E j \in Before(k) : new[j].op = "current" /\ new[j].node = new[k].node
       /\ new[k].op = "current" =>
            /\ c.type # "restart"
            /\ \A j \in 1..Len(new) : j > k => new[j].op \notin {"dropped", "current"}
            /\ scene = None \/ \E j \in Before(k) : new[j].op = "dropped"
       /\ new[k].op = "dropped" =>
            /\ c.type # "restart" /\ new[k].node = scene
            /\ \A j \in Before(k) : new[j].op \notin {"enableForce", "current", "dropped"}
            /\ \E j \in Before(k) : new[j].node = scene /\ new[j].op = "deactivate"

\* Every command that begins does so with no other one on the stack.
LEMMA CommandStep ==
  ASSUME IInv, NEW c, NEW new, Shape(new, c), stack' = new \o stack,
         \A k \in Places : Op(k) \notin Marks /\ ~(Op(k) \in {"activate", "activated"} /\ Who(k) \in Root),
         commands' # <<>>, Head(commands') = c, ServiceInv', UNCHANGED scene,
         \A x \in ToSet(commands') : x.type = "restart" => scene # None,
         FlagInv', UNCHANGED <<tree, active, deactivating>>, interrupted \subseteq interrupted',
         new = <<>> \/ \A k \in Places : scene \in Root /\ Who(k) = scene => scene \in interrupted'
  PROVE  IInv'
<1>1. AllGood(new) /\ AllGood(stack) /\ Same(stack, stack)
  BY SameRefl DEF IInv, FrameInv, Shape
<1>2. FrameInv' /\ Slides(new, 0)
  BY <1>1, CallSlides DEF IInv
<1>3. Len(new) \in Nat /\ Len(stack) \in Nat /\ 0 <= Len(stack)
  BY <1>1 DEF AllGood
<1> DEFINE d == Len(new) - 0
<1>4. /\ d \in Int
      /\ \A k \in Places : k > 0 =>
           k + d \in Places' /\ Op(k + d)' = Op(k) /\ Who(k + d)' = Who(k) /\ k + d > Len(new)
      /\ \A k \in Places' :
           \/ k \in 1..Len(new) /\ Op(k)' = new[k].op /\ Who(k)' = new[k].node
           \/ /\ k > Len(new)
              /\ \E j \in Places : j > 0 /\ k = j + d /\ Op(k)' = Op(j) /\ Who(k)' = Who(j)
  BY <1>2, <1>3, Moves
<1> HIDE DEF d
\* What belongs to a command is in the new steps, and all before it too.
<1>5. ASSUME NEW k \in Places', Op(k)' \in Marks \/ (Op(k)' \in {"activate", "activated"} /\ Who(k)' \in Root)
      PROVE  /\ k \in 1..Len(new) /\ Op(k)' = new[k].op /\ Who(k)' = new[k].node
             /\ \A j \in Before(k) : j \in 1..Len(new) /\ Op(j)' = new[j].op /\ Who(j)' = new[j].node
  <2>1. k \in 1..Len(new) /\ Op(k)' = new[k].op /\ Who(k)' = new[k].node
    BY <1>4, <1>5
  <2>2. \A j \in Before(k) : j \in 1..Len(new)
    BY <1>3, <2>1 DEF Before
  <2> QED
    BY <1>2, <2>1, <2>2 DEF Slides
<1>6. \A m \in Places' : ~(m \in 1..Len(new)) => Op(m)' \notin Marks
  BY <1>5
<1>7. MarkInv'
  <2> SUFFICES ASSUME NEW k \in Places', Op(k)' \in Marks
               PROVE  /\ commands' # <<>>
                      /\ Op(k)' = "done" => \A m \in Places' : m > k => Op(m)' \notin Marks
                      /\ Op(k)' \in {"dropped", "current"} => Head(commands').type # "restart"
    BY DEF MarkInv
  <2>1. k \in 1..Len(new) /\ Op(k)' = new[k].op
    BY <1>5
  <2>2. Op(k)' = "done" => \A m \in Places' : m > k => ~(m \in 1..Len(new))
    <3>1. Op(k)' = "done" => k = Len(new)
      BY <2>1 DEF Shape
    <3> QED
      BY <1>3, <3>1
  <2> QED
    BY <1>6, <2>1, <2>2 DEF Shape
<1>8. ActivateInv'
  <2>1. \A k \in Places' : ~(Op(k)' \in {"activate", "activated"} /\ Who(k)' \in Root)
    BY <1>5 DEF Shape, Marks
  <2> QED
    BY <2>1 DEF ActivateInv
<1>9. ForceInv'
  <2> SUFFICES ASSUME NEW k \in Places', Op(k)' = "enableForce"
               PROVE  \/ Who(k)' = scene' /\ \A i \in Before(k) : Op(i)' \notin {"dropped", "current"}
                      \/ \E i \in Before(k) : Op(i)' = "current" /\ Who(i)' = Who(k)'
    BY DEF ForceInv, Before
  <2> QED
    BY <1>5 DEF Shape, Marks
<1>10. CurrentInv'
  <2> SUFFICES ASSUME NEW k \in Places', Op(k)' = "current"
               PROVE  /\ \A m \in Places' : m > k => Op(m)' \notin {"dropped", "current"}
                      /\ scene' = None \/ \E i \in Before(k) : Op(i)' = "dropped"
    BY DEF CurrentInv, Before
  <2>1. /\ k \in 1..Len(new) /\ new[k].op = "current"
        /\ \A j \in Before(k) : Op(j)' = new[j].op
    BY <1>5 DEF Marks
  <2>2. /\ \A j \in 1..Len(new) : j > k => new[j].op \notin {"dropped", "current"}
        /\ scene = None \/ \E j \in Before(k) : new[j].op = "dropped"
    BY <2>1 DEF Shape
  <2>3. ASSUME NEW m \in Places', m > k, Op(m)' \in {"dropped", "current"} PROVE FALSE
    <3>1. m \in 1..Len(new) /\ Op(m)' = new[m].op
      BY <1>5, <2>3 DEF Marks
    <3> QED
      BY <2>2, <2>3, <3>1
  <2> QED
    BY <2>1, <2>2, <2>3
<1>11. DropInv'
  <2> SUFFICES ASSUME NEW k \in Places', Op(k)' = "dropped"
               PROVE  /\ Who(k)' = scene'
                      /\ \A i \in Before(k) : /\ Op(i)' \notin {"enableForce", "current", "dropped"}
                                              /\ ~(Op(i)' \in {"activate", "activated"} /\ Who(i)' \in Root)
                      /\ scene' \notin interrupted' =>
                           /\ active'[scene'] => \E i \in Before(k) : Leaving(i, scene)'
                           /\ \A m \in Places' : m > k => Who(m)' # scene' \/ Op(m)' \notin {"deactivated", "inactive"}
    BY DEF DropInv, Before
  <2>1. /\ k \in 1..Len(new) /\ new[k].op = "dropped" /\ Who(k)' = new[k].node
        /\ \A j \in Before(k) : j \in 1..Len(new) /\ Op(j)' = new[j].op /\ Who(j)' = new[j].node
    BY <1>5 DEF Marks
  <2>2. /\ new[k].node = scene /\ scene \in Root
        /\ \A j \in Before(k) : new[j].op \notin {"enableForce", "current", "dropped"}
        /\ \E j \in Before(k) : new[j].node = scene /\ new[j].op = "deactivate"
    BY <2>1 DEF Shape, AllGood, Good
  <2>3. \A i \in Before(k) : ~(Op(i)' \in {"activate", "activated"})
    BY <2>1 DEF Shape, Marks
  <2>4. \E i \in Before(k) : Leaving(i, scene)'
    BY <2>1, <2>2 DEF Leaving
  <2>5. ASSUME scene' \notin interrupted', NEW m \in Places', m > k
        PROVE  Who(m)' # scene' \/ Op(m)' \notin {"deactivated", "inactive"}
    <3>1. CASE m \in 1..Len(new) /\ Op(m)' = new[m].op
      BY <3>1 DEF Shape, Marks
    <3>2. CASE \E j \in Places : Who(m)' = Who(j)
      <4>1. new # <<>>
        BY <2>1
      <4> QED
        BY <2>2, <2>5, <3>2, <4>1
    <3> QED
      BY <1>4, <3>1, <3>2
  <2> QED
    BY <2>1, <2>2, <2>3, <2>4, <2>5
<1>12. LeaveInv'
  <2> SUFFICES ASSUME NEW s \in Root, deactivating'[s]
               PROVE  \E k \in Places' : Who(k)' = s /\ Op(k)' \in {"deactivated", "inactive"}
    BY DEF LeaveInv
  <2>1. PICK j \in Places : Who(j) = s /\ Op(j) \in {"deactivated", "inactive"}
    BY DEF IInv, SceneInv, LeaveInv
  <2>2. j > 0
    BY DEF Places
  <2> QED
    BY <1>4, <2>1, <2>2
<1>13. OneScene'
  BY DEF IInv, SceneInv, OneScene
<1>14. TreeInv'
  BY DEF IInv, tree, TreeInv, RootInv
<1> QED
  BY <1>2, <1>7, <1>8, <1>9, <1>10, <1>11, <1>12, <1>13, <1>14 DEF IInv, SceneInv

\* The steps commands are made of.
LEMMA DoneGood == Good(Do("done", None)) /\ Do("done", None).op = "done" /\ Do("done", None).node = None
  BY DEF Do, Good, Frame, Walks, Loops

\* The steps of a command are good.
LEMMA TellGood == Good(Tell) /\ Tell.op = "callback" /\ Tell.node = None
  BY DEF Tell, Do, Good, Frame, Walks, Loops

LEMMA SceneGood ==
  ASSUME NEW op \in {"dropped", "current", "enableForce", "onDestroy", "deactivate", "disabled"}, NEW s \in Root
  PROVE  Good(Do(op, s)) /\ Do(op, s).op = op /\ Do(op, s).node = s
  BY NodeAssumption DEF Do, Good, Frame, Walks, Loops

\* What is done first when there is a scene to end.
Ending(q, s) ==
  /\ AllGood(q) /\ Len(q) = 5
  /\ q[1].op = "callback" /\ q[2].op = "deactivate" /\ q[3].op = "disabled"
  /\ q[4].op = "onDestroy" /\ q[5].op = "dropped"
  /\ q[1].node = None /\ q[2].node = s /\ q[3].node = s /\ q[4].node = s /\ q[5].node = s

\* What ends a scene puts the steps of its end first, in their order.
LEMMA EndsSteps ==
  ASSUME NEW s \in Root
  PROVE  Ending(<<Tell>> \o Ends(s), s)
<1> DEFINE a == Do("deactivate", s)
           b == Do("disabled", s)
           e == Do("onDestroy", s)
           f == Do("dropped", s)
           t == <<Tell>>
           y == <<a, b, e, f>>
           q == t \o y
<1>1. /\ Good(a) /\ Good(b) /\ Good(e) /\ Good(f)
      /\ a.node = s /\ b.node = s /\ e.node = s /\ f.node = s
      /\ a.op = "deactivate" /\ b.op = "disabled" /\ e.op = "onDestroy" /\ f.op = "dropped"
  BY SceneGood
<1>2. Ends(s) = y
  BY NodeAssumption DEF Ends
<1> HIDE DEF a, b, e, f
<1>3. AllGood(t) /\ Len(t) = 1 /\ t[1].op = "callback" /\ t[1].node = None
  BY TellGood, Good1
<1>4. AllGood(y) /\ Len(y) = 4 /\ y[1] = a /\ y[2] = b /\ y[3] = e /\ y[4] = f
  <2>1. a \in Frame /\ b \in Frame /\ e \in Frame /\ f \in Frame
    BY <1>1 DEF Good
  <2>2. y \in Seq(Frame) /\ Len(y) = 4 /\ y[1] = a /\ y[2] = b /\ y[3] = e /\ y[4] = f
    BY <2>1
  <2> HIDE DEF y
  <2>3. \A k \in 1..4 : k = 1 \/ k = 2 \/ k = 3 \/ k = 4
    OBVIOUS
  <2> QED
    BY <1>1, <2>2, <2>3 DEF AllGood
<1> HIDE DEF t, y
<1>5. /\ AllGood(q) /\ Len(q) = 5
      /\ \A k \in 1..1 : q[k] = t[k]
      /\ \A k \in 1..4 : q[k + 1] = y[k]
  <2>1. AllGood(t) /\ AllGood(y)
    BY <1>3, <1>4
  <2>2. /\ AllGood(q) /\ Len(q) = Len(t) + Len(y) /\ \A k \in 1..Len(t) : q[k] = t[k]
        /\ \A k \in 1..Len(y) : q[k + Len(t)] = y[k]
    BY <2>1, GoodConcat
  <2> HIDE DEF q
  <2> QED
    BY <1>3, <1>4, <2>2
<1>9. q = <<Tell>> \o Ends(s)
  BY <1>2 DEF t
<1> HIDE DEF q
<1>6. q[1] = t[1] /\ q[1 + 1] = y[1] /\ q[2 + 1] = y[2] /\ q[3 + 1] = y[3] /\ q[4 + 1] = y[4]
  BY <1>5
<1>7. Len(q) = 5 /\ q[2] = y[1] /\ q[3] = y[2] /\ q[4] = y[3] /\ q[5] = y[4]
  BY <1>5, <1>6
<1>8. Ending(q, s)
  BY <1>1, <1>3, <1>4, <1>5, <1>6, <1>7 DEF Ending
<1> QED
  BY <1>8, <1>9

\* The steps of each command have the shape that the invariant asks for: removal of a scene, ...
LEMMA RemoveShape ==
  ASSUME NEW c, c.type = "remove", scene \in Root
  PROVE  Shape(<<Tell>> \o Ends(scene) \o <<Tell>> \o <<Do("done", None)>>, c)
<1> DEFINE x == <<Tell>> \o Ends(scene)
           y == <<Tell>>
           z == <<Do("done", None)>>
           u == x \o y
           q == u \o z
<1>1. /\ AllGood(x) /\ Len(x) = 5
      /\ x[1].op = "callback" /\ x[2].op = "deactivate" /\ x[3].op = "disabled"
      /\ x[4].op = "onDestroy" /\ x[5].op = "dropped"
      /\ x[2].node = scene /\ x[5].node = scene
  BY EndsSteps DEF Ending
<1>2. AllGood(y) /\ Len(y) = 1 /\ y[1].op = "callback" /\ AllGood(z) /\ Len(z) = 1 /\ z[1].op = "done"
  BY TellGood, DoneGood, Good1
<1> HIDE DEF x, y, z
<1>3. /\ AllGood(u) /\ Len(u) = 6
      /\ \A k \in 1..5 : u[k] = x[k]
      /\ \A k \in 1..1 : u[k + 5] = y[k]
  <2>1. AllGood(x) /\ AllGood(y)
    BY <1>1, <1>2
  <2>2. /\ AllGood(u) /\ Len(u) = Len(x) + Len(y) /\ \A k \in 1..Len(x) : u[k] = x[k]
        /\ \A k \in 1..Len(y) : u[k + Len(x)] = y[k]
    BY <2>1, GoodConcat
  <2> HIDE DEF u
  <2> QED
    BY <1>1, <1>2, <2>2
<1> HIDE DEF u
<1>4. /\ AllGood(q) /\ Len(q) = 7
      /\ \A k \in 1..6 : q[k] = u[k]
      /\ \A k \in 1..1 : q[k + 6] = z[k]
  <2>1. AllGood(u) /\ AllGood(z)
    BY <1>2, <1>3
  <2>2. /\ AllGood(q) /\ Len(q) = Len(u) + Len(z) /\ \A k \in 1..Len(u) : q[k] = u[k]
        /\ \A k \in 1..Len(z) : q[k + Len(u)] = z[k]
    BY <2>1, GoodConcat
  <2> HIDE DEF q
  <2> QED
    BY <1>2, <1>3, <2>2
<1> HIDE DEF q
<1>5. u[1 + 5] = y[1] /\ q[1 + 6] = z[1]
  BY <1>3, <1>4
<1>6. /\ q[1].op = "callback" /\ q[2].op = "deactivate" /\ q[3].op = "disabled"
      /\ q[4].op = "onDestroy" /\ q[5].op = "dropped" /\ q[6].op = "callback" /\ q[7].op = "done"
      /\ q[2].node = scene /\ q[5].node = scene
  BY <1>1, <1>2, <1>3, <1>4, <1>5
<1>7. \A k \in 1..7 : k = 1 \/ k = 2 \/ k = 3 \/ k = 4 \/ k = 5 \/ k = 6 \/ k = 7
  OBVIOUS
<1>8. /\ \A k \in 1..7 : /\ q[k].op \in {"callback", "deactivate", "disabled"} \cup Marks
                         /\ q[k].op \notin {"current", "enableForce"}
                         /\ q[k].op = "done" => k = 7
                         /\ q[k].op = "dropped" => k = 5
      /\ \A j \in Before(5) : j \in 1..7 /\ j # 5
      /\ 2 \in Before(5)
  BY <1>6, <1>7 DEF Marks, Before
<1>9. Shape(q, c)
  BY <1>4, <1>6, <1>8 DEF Shape
<1> QED
  BY <1>9 DEF q, u, x, y, z

\* What is done first when there is none.
LEMMA NoEnds ==
  ASSUME scene = None
  PROVE  LET x == <<Tell>> \o Ends(scene)
         IN  AllGood(x) /\ Len(x) = 1 /\ x[1].op = "callback" /\ x[1].node = None
<1> DEFINE x == <<Tell>>
<1>1. AllGood(x) /\ Len(x) = 1 /\ x[1].op = "callback" /\ x[1].node = None
  BY TellGood, Good1
<1> HIDE DEF x
<1>2. Ends(scene) = <<>>
  BY DEF Ends
<1>3. x \o <<>> = x
  BY <1>1, ConcatEmptySeq DEF AllGood
<1>4. <<Tell>> \o Ends(scene) = x
  BY <1>2, <1>3 DEF x
<1> QED
  BY <1>1, <1>4

\* ... removal when there is none, ...
LEMMA RemoveNoneShape ==
  ASSUME NEW c, scene = None
  PROVE  Shape(<<Tell>> \o Ends(scene) \o <<Tell>> \o <<Do("done", None)>>, c)
<1> DEFINE x == <<Tell>> \o Ends(scene)
           y == <<Tell>>
           z == <<Do("done", None)>>
           u == x \o y
           q == u \o z
<1>1. AllGood(x) /\ Len(x) = 1 /\ x[1].op = "callback"
  BY NoEnds
<1>2. AllGood(y) /\ Len(y) = 1 /\ y[1].op = "callback" /\ AllGood(z) /\ Len(z) = 1 /\ z[1].op = "done"
  BY TellGood, DoneGood, Good1
<1> HIDE DEF x, y, z
<1>3. /\ AllGood(u) /\ Len(u) = 2
      /\ \A k \in 1..1 : u[k] = x[k]
      /\ \A k \in 1..1 : u[k + 1] = y[k]
  <2>1. AllGood(x) /\ AllGood(y)
    BY <1>1, <1>2
  <2>2. /\ AllGood(u) /\ Len(u) = Len(x) + Len(y) /\ \A k \in 1..Len(x) : u[k] = x[k]
        /\ \A k \in 1..Len(y) : u[k + Len(x)] = y[k]
    BY <2>1, GoodConcat
  <2> HIDE DEF u
  <2> QED
    BY <1>1, <1>2, <2>2
<1> HIDE DEF u
<1>4. /\ AllGood(q) /\ Len(q) = 3
      /\ \A k \in 1..2 : q[k] = u[k]
      /\ \A k \in 1..1 : q[k + 2] = z[k]
  <2>1. AllGood(u) /\ AllGood(z)
    BY <1>2, <1>3
  <2>2. /\ AllGood(q) /\ Len(q) = Len(u) + Len(z) /\ \A k \in 1..Len(u) : q[k] = u[k]
        /\ \A k \in 1..Len(z) : q[k + Len(u)] = z[k]
    BY <2>1, GoodConcat
  <2> HIDE DEF q
  <2> QED
    BY <1>2, <1>3, <2>2
<1> HIDE DEF q
<1>5. u[1 + 1] = y[1] /\ q[1 + 2] = z[1]
  BY <1>3, <1>4
<1>6. q[1].op = "callback" /\ q[2].op = "callback" /\ q[3].op = "done"
  BY <1>1, <1>2, <1>3, <1>4, <1>5
<1>7. \A k \in 1..3 : k = 1 \/ k = 2 \/ k = 3
  OBVIOUS
<1>8. \A k \in 1..3 : q[k].op = "callback" \/ (q[k].op = "done" /\ k = 3)
  BY <1>6, <1>7
<1>9. Shape(q, c)
  BY <1>4, <1>8 DEF Shape, Marks
<1> QED
  BY <1>9 DEF q, u, x, y, z

\* What restartCurrentScene_() does.
LEMMA RestartSteps ==
  ASSUME NEW s \in Root
  PROVE  LET x == <<Tell, Do("deactivate", s), Do("disabled", s), Tell, Do("enableForce", s), Tell>>
         IN  /\ AllGood(x) /\ Len(x) = 6
             /\ x[1].op = "callback" /\ x[2].op = "deactivate" /\ x[3].op = "disabled"
             /\ x[4].op = "callback" /\ x[5].op = "enableForce" /\ x[6].op = "callback"
             /\ x[1].node = None /\ x[2].node = s /\ x[3].node = s
             /\ x[4].node = None /\ x[5].node = s /\ x[6].node = None
<1> DEFINE t == Tell
           a == Do("deactivate", s)
           b == Do("disabled", s)
           e == Do("enableForce", s)
           x == <<t, a, b, t, e, t>>
<1>1. /\ Good(t) /\ Good(a) /\ Good(b) /\ Good(e)
      /\ t.node = None /\ a.node = s /\ b.node = s /\ e.node = s
      /\ t.op = "callback" /\ a.op = "deactivate" /\ b.op = "disabled" /\ e.op = "enableForce"
  BY TellGood, SceneGood
<1> HIDE DEF t, a, b, e
<1>2. t \in Frame /\ a \in Frame /\ b \in Frame /\ e \in Frame
  BY <1>1 DEF Good
<1>3. /\ x \in Seq(Frame) /\ Len(x) = 6
      /\ x[1] = t /\ x[2] = a /\ x[3] = b /\ x[4] = t /\ x[5] = e /\ x[6] = t
  BY <1>2
<1> HIDE DEF x
<1>4. \A k \in 1..6 : k = 1 \/ k = 2 \/ k = 3 \/ k = 4 \/ k = 5 \/ k = 6
  OBVIOUS
<1>5. AllGood(x)
  BY <1>1, <1>3, <1>4 DEF AllGood
<1>6. x = <<Tell, Do("deactivate", s), Do("disabled", s), Tell, Do("enableForce", s), Tell>>
  BY DEF x, t, a, b, e
<1> QED
  BY <1>1, <1>3, <1>5, <1>6

\* ... a restart, ...
LEMMA RestartShape ==
  ASSUME NEW c, scene \in Root
  PROVE  Shape(<<Tell, Do("deactivate", scene), Do("disabled", scene), Tell,
                 Do("enableForce", scene), Tell>> \o <<Do("done", None)>>, c)
<1> DEFINE x == <<Tell, Do("deactivate", scene), Do("disabled", scene), Tell, Do("enableForce", scene), Tell>>
           z == <<Do("done", None)>>
           q == x \o z
<1>1. /\ AllGood(x) /\ Len(x) = 6
      /\ x[1].op = "callback" /\ x[2].op = "deactivate" /\ x[3].op = "disabled"
      /\ x[4].op = "callback" /\ x[5].op = "enableForce" /\ x[6].op = "callback" /\ x[5].node = scene
  BY RestartSteps
<1>2. AllGood(z) /\ Len(z) = 1 /\ z[1].op = "done"
  BY DoneGood, Good1
<1> HIDE DEF x, z
<1>3. /\ AllGood(q) /\ Len(q) = 7
      /\ \A k \in 1..6 : q[k] = x[k]
      /\ \A k \in 1..1 : q[k + 6] = z[k]
  <2>1. AllGood(x) /\ AllGood(z)
    BY <1>1, <1>2
  <2>2. /\ AllGood(q) /\ Len(q) = Len(x) + Len(z) /\ \A k \in 1..Len(x) : q[k] = x[k]
        /\ \A k \in 1..Len(z) : q[k + Len(x)] = z[k]
    BY <2>1, GoodConcat
  <2> HIDE DEF q
  <2> QED
    BY <1>1, <1>2, <2>2
<1> HIDE DEF q
<1>4. q[1 + 6] = z[1]
  BY <1>3
<1>5. /\ q[1].op = "callback" /\ q[2].op = "deactivate" /\ q[3].op = "disabled" /\ q[4].op = "callback"
      /\ q[5].op = "enableForce" /\ q[5].node = scene /\ q[6].op = "callback" /\ q[7].op = "done"
  BY <1>1, <1>2, <1>3, <1>4
<1>6. \A k \in 1..7 : k = 1 \/ k = 2 \/ k = 3 \/ k = 4 \/ k = 5 \/ k = 6 \/ k = 7
  OBVIOUS
<1>7. \A k \in 1..7 : \/ q[k].op \in {"callback", "deactivate", "disabled"}
                      \/ q[k].op = "enableForce" /\ q[k].node = scene
                      \/ q[k].op = "done" /\ k = 7
  BY <1>5, <1>6
<1>8. \A k \in 1..7 : \A j \in Before(k) : j \in 1..7
  BY DEF Before
<1>9. Shape(q, c)
  BY <1>3, <1>7, <1>8 DEF Shape, Marks
<1> QED
  BY <1>9 DEF q, x, z

\* The second half of setCurrentScene_().
LEMMA SetsSteps ==
  ASSUME NEW s \in Root
  PROVE  LET y == <<Tell, Do("current", s), Tell, Do("enableForce", s), Tell>>
         IN  /\ AllGood(y) /\ Len(y) = 5
             /\ y[1].op = "callback" /\ y[2].op = "current" /\ y[3].op = "callback"
             /\ y[4].op = "enableForce" /\ y[5].op = "callback" /\ y[2].node = s /\ y[4].node = s
             /\ y[1].node = None /\ y[3].node = None /\ y[5].node = None
<1> DEFINE t == Tell
           a == Do("current", s)
           b == Do("enableForce", s)
           y == <<t, a, t, b, t>>
<1>1. /\ Good(t) /\ Good(a) /\ Good(b) /\ a.node = s /\ b.node = s /\ t.node = None
      /\ t.op = "callback" /\ a.op = "current" /\ b.op = "enableForce"
  BY TellGood, SceneGood
<1> HIDE DEF t, a, b
<1>2. t \in Frame /\ a \in Frame /\ b \in Frame
  BY <1>1 DEF Good
<1>3. /\ y \in Seq(Frame) /\ Len(y) = 5
      /\ y[1] = t /\ y[2] = a /\ y[3] = t /\ y[4] = b /\ y[5] = t
  BY <1>2
<1> HIDE DEF y
<1>4. \A k \in 1..5 : k = 1 \/ k = 2 \/ k = 3 \/ k = 4 \/ k = 5
  OBVIOUS
<1>5. AllGood(y)
  BY <1>1, <1>3, <1>4 DEF AllGood
<1>6. y = <<Tell, Do("current", s), Tell, Do("enableForce", s), Tell>>
  BY DEF y, t, a, b
<1> QED
  BY <1>1, <1>3, <1>5, <1>6

\* ... the first scene, ...
LEMMA SetNoneShape ==
  ASSUME NEW c, c.type = "set", NEW s \in Root, scene = None
  PROVE  Shape(<<Tell>> \o Ends(scene) \o <<Tell, Do("current", s), Tell, Do("enableForce", s), Tell>>
               \o <<Do("done", None)>>, c)
<1> DEFINE x == <<Tell>> \o Ends(scene)
           y == <<Tell, Do("current", s), Tell, Do("enableForce", s), Tell>>
           z == <<Do("done", None)>>
           u == x \o y
           q == u \o z
<1>1. AllGood(x) /\ Len(x) = 1 /\ x[1].op = "callback"
  BY NoEnds
<1>2. /\ AllGood(y) /\ Len(y) = 5
      /\ y[1].op = "callback" /\ y[2].op = "current" /\ y[3].op = "callback"
      /\ y[4].op = "enableForce" /\ y[5].op = "callback" /\ y[2].node = s /\ y[4].node = s
  BY SetsSteps
<1>3. AllGood(z) /\ Len(z) = 1 /\ z[1].op = "done"
  BY DoneGood, Good1
<1> HIDE DEF x, y, z
<1>4. /\ AllGood(u) /\ Len(u) = 6
      /\ \A k \in 1..1 : u[k] = x[k]
      /\ \A k \in 1..5 : u[k + 1] = y[k]
  <2>1. AllGood(x) /\ AllGood(y)
    BY <1>1, <1>2
  <2>2. /\ AllGood(u) /\ Len(u) = Len(x) + Len(y) /\ \A k \in 1..Len(x) : u[k] = x[k]
        /\ \A k \in 1..Len(y) : u[k + Len(x)] = y[k]
    BY <2>1, GoodConcat
  <2> HIDE DEF u
  <2> QED
    BY <1>1, <1>2, <2>2
<1> HIDE DEF u
<1>5. /\ AllGood(q) /\ Len(q) = 7
      /\ \A k \in 1..6 : q[k] = u[k]
      /\ \A k \in 1..1 : q[k + 6] = z[k]
  <2>1. AllGood(u) /\ AllGood(z)
    BY <1>3, <1>4
  <2>2. /\ AllGood(q) /\ Len(q) = Len(u) + Len(z) /\ \A k \in 1..Len(u) : q[k] = u[k]
        /\ \A k \in 1..Len(z) : q[k + Len(u)] = z[k]
    BY <2>1, GoodConcat
  <2> HIDE DEF q
  <2> QED
    BY <1>3, <1>4, <2>2
<1> HIDE DEF q
<1>6. /\ u[1 + 1] = y[1] /\ u[2 + 1] = y[2] /\ u[3 + 1] = y[3] /\ u[4 + 1] = y[4] /\ u[5 + 1] = y[5]
      /\ q[1 + 6] = z[1]
  BY <1>4, <1>5
<1>7. /\ q[1].op = "callback" /\ q[2].op = "callback" /\ q[3].op = "current" /\ q[4].op = "callback"
      /\ q[5].op = "enableForce" /\ q[6].op = "callback" /\ q[7].op = "done"
      /\ q[3].node = s /\ q[5].node = s
  BY <1>1, <1>2, <1>3, <1>4, <1>5, <1>6
<1>8. \A k \in 1..7 : k = 1 \/ k = 2 \/ k = 3 \/ k = 4 \/ k = 5 \/ k = 6 \/ k = 7
  OBVIOUS
<1>9. \A k \in 1..7 :
        \/ q[k].op \in {"callback", "deactivate", "disabled", "onDestroy"}
        \/ q[k].op = "enableForce" /\ k = 5
        \/ q[k].op = "current" /\ k = 3
        \/ q[k].op = "done" /\ k = 7
  BY <1>7, <1>8
<1>10. /\ 3 \in Before(5)
  BY DEF Before
<1>11. \A k \in 1..7 :
         /\ q[k].op \in {"callback", "deactivate", "disabled"} \cup Marks
         /\ q[k].op = "done" => k = 7
  BY <1>9 DEF Marks
<1>12. \A k \in 1..7 : q[k].op = "enableForce" =>
         \E j \in Before(k) : q[j].op = "current" /\ q[j].node = q[k].node
  BY <1>7, <1>9, <1>10
<1>13. \A k \in 1..7 : q[k].op = "current" =>
         /\ \A j \in 1..7 : j > k => q[j].op \notin {"dropped", "current"}
         /\ scene = None \/ \E j \in Before(k) : q[j].op = "dropped"
  BY <1>7, <1>9, <1>10
<1>14. \A k \in 1..7 : q[k].op = "dropped" =>
         /\ q[k].node = scene
         /\ \A j \in Before(k) : q[j].op \notin {"enableForce", "current", "dropped"}
         /\ \E j \in Before(k) : q[j].node = scene /\ q[j].op = "deactivate"
  BY <1>7, <1>9, <1>10
<1>15. Shape(q, c)
  BY <1>5, <1>11, <1>12, <1>13, <1>14 DEF Shape
<1> QED
  BY <1>15 DEF q, u, x, y, z

\* ... and a scene in the place of another.
LEMMA SetShape ==
  ASSUME NEW c, c.type = "set", NEW s \in Root, scene \in Root
  PROVE  Shape(<<Tell>> \o Ends(scene) \o <<Tell, Do("current", s), Tell, Do("enableForce", s), Tell>>
               \o <<Do("done", None)>>, c)
<1> DEFINE x == <<Tell>> \o Ends(scene)
           y == <<Tell, Do("current", s), Tell, Do("enableForce", s), Tell>>
           z == <<Do("done", None)>>
           u == x \o y
           q == u \o z
<1>1. /\ AllGood(x) /\ Len(x) = 5
      /\ x[1].op = "callback" /\ x[2].op = "deactivate" /\ x[3].op = "disabled"
      /\ x[4].op = "onDestroy" /\ x[5].op = "dropped"
      /\ x[2].node = scene /\ x[5].node = scene
  BY EndsSteps DEF Ending
<1>2. /\ AllGood(y) /\ Len(y) = 5
      /\ y[1].op = "callback" /\ y[2].op = "current" /\ y[3].op = "callback"
      /\ y[4].op = "enableForce" /\ y[5].op = "callback" /\ y[2].node = s /\ y[4].node = s
  BY SetsSteps
<1>3. AllGood(z) /\ Len(z) = 1 /\ z[1].op = "done"
  BY DoneGood, Good1
<1> HIDE DEF x, y, z
<1>4. /\ AllGood(u) /\ Len(u) = 10
      /\ \A k \in 1..5 : u[k] = x[k]
      /\ \A k \in 1..5 : u[k + 5] = y[k]
  <2>1. AllGood(x) /\ AllGood(y)
    BY <1>1, <1>2
  <2>2. /\ AllGood(u) /\ Len(u) = Len(x) + Len(y) /\ \A k \in 1..Len(x) : u[k] = x[k]
        /\ \A k \in 1..Len(y) : u[k + Len(x)] = y[k]
    BY <2>1, GoodConcat
  <2> HIDE DEF u
  <2> QED
    BY <1>1, <1>2, <2>2
<1> HIDE DEF u
<1>5. /\ AllGood(q) /\ Len(q) = 11
      /\ \A k \in 1..10 : q[k] = u[k]
      /\ \A k \in 1..1 : q[k + 10] = z[k]
  <2>1. AllGood(u) /\ AllGood(z)
    BY <1>3, <1>4
  <2>2. /\ AllGood(q) /\ Len(q) = Len(u) + Len(z) /\ \A k \in 1..Len(u) : q[k] = u[k]
        /\ \A k \in 1..Len(z) : q[k + Len(u)] = z[k]
    BY <2>1, GoodConcat
  <2> HIDE DEF q
  <2> QED
    BY <1>3, <1>4, <2>2
<1> HIDE DEF q
<1>6. /\ u[1 + 5] = y[1] /\ u[2 + 5] = y[2] /\ u[3 + 5] = y[3] /\ u[4 + 5] = y[4] /\ u[5 + 5] = y[5]
      /\ q[1 + 10] = z[1]
  BY <1>4, <1>5
<1>7. /\ q[1].op = "callback" /\ q[2].op = "deactivate" /\ q[3].op = "disabled" /\ q[4].op = "onDestroy"
      /\ q[5].op = "dropped" /\ q[6].op = "callback" /\ q[7].op = "current" /\ q[8].op = "callback"
      /\ q[9].op = "enableForce" /\ q[10].op = "callback" /\ q[11].op = "done"
      /\ q[7].node = s /\ q[9].node = s /\ q[2].node = scene /\ q[5].node = scene
  BY <1>1, <1>2, <1>3, <1>4, <1>5, <1>6
<1>8. \A k \in 1..11 : k = 1 \/ k = 2 \/ k = 3 \/ k = 4 \/ k = 5 \/ k = 6 \/ k = 7 \/ k = 8 \/ k = 9 \/ k = 10 \/ k = 11
  OBVIOUS
<1>9. \A k \in 1..11 :
        \/ q[k].op \in {"callback", "deactivate", "disabled", "onDestroy"}
        \/ q[k].op = "enableForce" /\ k = 9
        \/ q[k].op = "current" /\ k = 7
        \/ q[k].op = "done" /\ k = 11
        \/ q[k].op = "dropped" /\ k = 5
  BY <1>7, <1>8
<1>10. /\ 7 \in Before(9) /\ 5 \in Before(7) /\ 2 \in Before(5)
       /\ \A j \in Before(5) : j \in 1..11 /\ j < 5
  BY DEF Before
<1>11. \A k \in 1..11 :
         /\ q[k].op \in {"callback", "deactivate", "disabled"} \cup Marks
         /\ q[k].op = "done" => k = 11
  BY <1>9 DEF Marks
<1>12. \A k \in 1..11 : q[k].op = "enableForce" =>
         \E j \in Before(k) : q[j].op = "current" /\ q[j].node = q[k].node
  BY <1>7, <1>9, <1>10
<1>13. \A k \in 1..11 : q[k].op = "current" =>
         /\ \A j \in 1..11 : j > k => q[j].op \notin {"dropped", "current"}
         /\ scene = None \/ \E j \in Before(k) : q[j].op = "dropped"
  BY <1>7, <1>9, <1>10
<1>14. \A k \in 1..11 : q[k].op = "dropped" =>
         /\ q[k].node = scene
         /\ \A j \in Before(k) : q[j].op \notin {"enableForce", "current", "dropped"}
         /\ \E j \in Before(k) : q[j].node = scene /\ q[j].op = "deactivate"
  BY <1>7, <1>9, <1>10
<1>15. Shape(q, c)
  BY <1>5, <1>11, <1>12, <1>13, <1>14 DEF Shape
<1> QED
  BY <1>15 DEF q, u, x, y, z

\* So has every command that is carried out.
LEMMA StepsShape ==
  ASSUME NEW c \in Command, scene \in Root \cup {None},
         c.type = "set" => c.scene # None, c.type = "restart" => scene # None
  PROVE  Shape(Steps(c) \o <<Do("done", None)>>, c)
<1>1. CASE c.type = "set"
  <2> DEFINE s == c.scene
  <2>1. s \in Root
    BY <1>1 DEF Command
  <2>2. Steps(c) = <<Tell>> \o Ends(scene) \o <<Tell, Do("current", s), Tell, Do("enableForce", s), Tell>>
    BY <1>1 DEF Steps
  <2> HIDE DEF s
  <2> QED
    BY <1>1, <2>1, <2>2, SetShape, SetNoneShape
<1>2. CASE c.type = "restart"
  <2>1. Steps(c) = <<Tell, Do("deactivate", scene), Do("disabled", scene), Tell,
                     Do("enableForce", scene), Tell>>
    BY <1>2 DEF Steps
  <2> QED
    BY <1>2, <2>1, RestartShape
<1>3. CASE c.type = "remove"
  <2>1. Steps(c) = <<Tell>> \o Ends(scene) \o <<Tell>>
    BY <1>3 DEF Steps
  <2> QED
    BY <1>3, <2>1, RemoveShape, RemoveNoneShape
<1> QED
  BY <1>1, <1>2, <1>3 DEF Command

\* A request keeps the invariant: it waits, or its steps come before all others.
LEMMA RequestStep ==
  ASSUME IInv, NEW c \in Command, c.type = "set" => c.scene # None, NEW immediately \in BOOLEAN,
         Request(c, immediately)
  PROVE  IInv'
<1>1. /\ Script /\ commands = <<>> /\ (c.type # "set" => scene # None) /\ commands' = <<c>>
      /\ UNCHANGED <<tree, flags, told, scene>>
      /\ IF immediately THEN Call({scene, c.scene} \ {None}, Steps(c) \o <<Do("done", None)>>, stack)
         ELSE Call({}, <<>>, stack)
  BY DEF Request
<1>2. FlagInv /\ ServiceInv /\ MarkInv /\ ActivateInv /\ FrameInv
  BY DEF IInv, SceneInv
<1>3. \A k \in Places : Op(k) \notin Marks /\ ~(Op(k) \in {"activate", "activated"} /\ Who(k) \in Root)
  BY <1>1, <1>2 DEF MarkInv, ActivateInv
<1>4. /\ commands' # <<>> /\ Head(commands') = c /\ ServiceInv'
      /\ \A x \in ToSet(commands') : x.type = "restart" => scene # None
  <2>1. <<c>> \in Seq(Command) /\ Len(<<c>>) = 1 /\ <<c>> # <<>> /\ Head(<<c>>) = c
    OBVIOUS
  <2>2. \A x \in ToSet(<<c>>) : x = c
    BY DEF ToSet
  <2> QED
    BY <1>1, <1>2, <2>1, <2>2 DEF ServiceInv
<1>5. ASSUME NEW about, about \subseteq Nodes, NEW new, Call(about, new, stack), Shape(new, c),
             new = <<>> \/ (scene \in Root => scene \in about)
      PROVE  IInv'
  <2>1. stack' = new \o stack /\ interrupted' = interrupted \cup Interrupts(about)
        /\ nested' = IF stack = <<>> THEN 0 ELSE nested + 1
    BY <1>5 DEF Call
  <2>2. nested' \in 0..MaxNested
    BY <1>1, <1>2, <2>1, NodeAssumption DEF Script, FlagInv
  <2>3. FlagInv'
    <3>1. Interrupts(about) \subseteq Nodes
      BY <1>5 DEF Interrupts
    <3> QED
      BY <1>1, <1>2, <2>1, <2>2, <3>1 DEF FlagInv, flags
  <2>4. ASSUME new # <<>>, NEW k \in Places, scene \in Root, Who(k) = scene
        PROVE  scene \in interrupted'
    <3>1. stack[k] \in ToSet(stack) /\ stack[k].node = scene
      BY <1>2, <2>4 DEF FrameInv, AllGood, Places, Who, ToSet
    <3>2. scene \in Above(scene) /\ scene \in Nodes
      BY <2>4, NodeAssumption DEF Above
    <3> QED
      BY <1>5, <2>1, <2>4, <3>1, <3>2 DEF Interrupts
  <2>5. interrupted \subseteq interrupted' /\ UNCHANGED <<tree, active, deactivating, scene>>
    BY <1>1, <2>1 DEF flags
  <2> QED
    BY <1>3, <1>4, <1>5, <2>1, <2>3, <2>4, <2>5, CommandStep
<1>6. CASE immediately
  <2>1. Shape(Steps(c) \o <<Do("done", None)>>, c)
    BY <1>1, <1>2, StepsShape DEF ServiceInv
  <2>2. (scene \in Root => scene \in {scene, c.scene} \ {None}) /\ {scene, c.scene} \ {None} \subseteq Nodes
    BY <1>2, NodeAssumption DEF ServiceInv, Command
  <2> QED
    BY <1>1, <1>5, <1>6, <2>1, <2>2
<1>7. CASE ~immediately
  <2> DEFINE none == <<>>
  <2>1. Shape(none, c)
    BY Good0 DEF Shape
  <2>2. Call({}, none, stack)
    BY <1>1, <1>7
  <2>3. none = <<>>
    OBVIOUS
  <2> HIDE DEF none
  <2> QED
    BY <1>5, <2>1, <2>2, <2>3
<1> QED
  BY <1>6, <1>7

\* The requests there are: a scene is named by those that set one.
LEMMA AnyRequest ==
  ASSUME Requests
  PROVE  \E immediately \in BOOLEAN : \E c \in Command :
           Request(c, immediately) /\ (c.type = "set" => c.scene # None)
<1>1. PICK immediately \in BOOLEAN :
        \/ \E s \in Root : s # scene /\ Request([type |-> "set", scene |-> s], immediately)
        \/ Request([type |-> "restart", scene |-> None], immediately)
        \/ Request([type |-> "remove", scene |-> None], immediately)
  BY DEF Requests
<1>2. \E c \in Command : Request(c, immediately) /\ (c.type = "set" => c.scene # None)
  <2>1. CASE \E s \in Root : s # scene /\ Request([type |-> "set", scene |-> s], immediately)
    <3>1. PICK s \in Root : Request([type |-> "set", scene |-> s], immediately)
      BY <2>1
    <3> DEFINE e == [type |-> "set", scene |-> s]
    <3>2. e \in Command /\ e.scene # None
      BY NodeAssumption DEF Command
    <3>3. Request(e, immediately)
      BY <3>1
    <3> HIDE DEF e
    <3> QED
      BY <3>2, <3>3
  <2>2. CASE Request([type |-> "restart", scene |-> None], immediately)
    <3> DEFINE e == [type |-> "restart", scene |-> None]
    <3>1. e \in Command /\ e.type # "set" /\ Request(e, immediately)
      BY <2>2 DEF Command
    <3> HIDE DEF e
    <3> QED
      BY <3>1
  <2>3. CASE Request([type |-> "remove", scene |-> None], immediately)
    <3> DEFINE e == [type |-> "remove", scene |-> None]
    <3>1. e \in Command /\ e.type # "set" /\ Request(e, immediately)
      BY <2>3 DEF Command
    <3> HIDE DEF e
    <3> QED
      BY <3>1
  <2> QED
    BY <1>1, <2>1, <2>2, <2>3
<1> QED
  BY <1>2

\* So does every request a script makes.
LEMMA RequestsStep ==
  ASSUME IInv, Requests
  PROVE  IInv'
  BY AnyRequest, RequestStep

\* update() keeps it: it carries out the first of the commands that wait.
LEMMA UpdateStep ==
  ASSUME IInv, Update
  PROVE  IInv'
<1> DEFINE c == Head(commands)
           new == Steps(c) \o <<Do("done", None)>>
<1>1. /\ stack = <<>> /\ commands # <<>> /\ stack' = new /\ nested' = 0
      /\ UNCHANGED <<tree, flags, told, interrupted, sceneVars>>
  BY DEF Update
<1>2. FlagInv /\ ServiceInv /\ OneScene
  BY DEF IInv, SceneInv
<1>3. c \in Command /\ c \in ToSet(commands)
  BY <1>1, <1>2 DEF ServiceInv, ToSet
<1>4. Shape(new, c)
  BY <1>1, <1>2, <1>3, StepsShape DEF ServiceInv, OneScene
<1> HIDE DEF new, c
<1>5. stack' = new \o stack
  <2>1. new \in Seq(Frame)
    BY <1>4 DEF Shape, AllGood
  <2> QED
    BY <1>1, <2>1, ConcatEmptySeq
<1>6. Places = {}
  BY <1>1 DEF Places
<1>7. FlagInv' /\ ServiceInv' /\ UNCHANGED <<tree, active, deactivating, interrupted, scene, commands>>
  BY <1>1, <1>2, NodeAssumption DEF FlagInv, ServiceInv, flags, sceneVars
<1>8. /\ commands' # <<>> /\ Head(commands') = c
      /\ \A x \in ToSet(commands') : x.type = "restart" => scene # None
  BY <1>1, <1>2, <1>7 DEF OneScene, c
<1> QED
  BY <1>4, <1>5, <1>6, <1>7, <1>8, CommandStep

------------------------------------------------------------------------------
(* The invariant of the specification *)

\* The invariant of the nodes and of the scenes holds at the start.
LEMMA NodeStart ==
  ASSUME NodeInit
  PROVE  TreeInv /\ FlagInv /\ FrameInv
<1>1. /\ parent = [n \in Nodes |-> None] /\ children = [n \in Nodes |-> <<>>]
      /\ enabled = [n \in Nodes |-> TRUE] /\ active = [n \in Nodes |-> FALSE]
      /\ afterActive = active /\ deactivating = active /\ compiled = active
      /\ stack = <<>> /\ nested = 0 /\ told = {} /\ interrupted = {}
  BY DEF NodeInit
<1>2. TreeInv
  <2>1. \A n \in Nodes : /\ parent[n] = None /\ children[n] = <<>>
    BY <1>1
  <2>2. IsInjective(<<>>) /\ ToSet(<<>>) = {} /\ <<>> \in Seq(Nodes)
    BY DEF IsInjective, ToSet
  <2>3. parent \in [Nodes -> Nodes \cup {None}] /\ children \in [Nodes -> Seq(Nodes)]
    BY <1>1, <2>2
  <2>4. \A n \in Nodes : /\ parent[n] # n /\ IsInjective(children[n])
                         /\ ToSet(children[n]) = {c \in Nodes : parent[c] = n}
    BY <2>1, <2>2, NodeAssumption
  <2> QED
    BY <2>1, <2>3, <2>4, NodeAssumption DEF TreeInv, RootInv
<1>3. FlagInv
  BY <1>1, NodeAssumption DEF FlagInv
<1>4. FrameInv
  BY <1>1, Good0 DEF FrameInv
<1> QED
  BY <1>2, <1>3, <1>4

LEMMA InitInv ==
  ASSUME Init
  PROVE  IInv
<1>1. /\ active = [n \in Nodes |-> FALSE] /\ deactivating = active /\ stack = <<>>
      /\ interrupted = {} /\ scene = None /\ commands = <<>>
  BY DEF Init, NodeInit
<1>2. TreeInv /\ FlagInv /\ FrameInv
  BY NodeStart DEF Init
<1>3. ServiceInv
  BY <1>1 DEF ServiceInv
<1>4. Places = {}
  BY <1>1 DEF Places
<1>5. SceneInv
  <2>1. MarkInv /\ ActivateInv /\ ForceInv /\ CurrentInv /\ DropInv
    BY <1>4 DEF MarkInv, ActivateInv, ForceInv, CurrentInv, DropInv
  <2>2. LeaveInv /\ OneScene
    BY <1>1, NodeAssumption DEF LeaveInv, OneScene, ToSet
  <2> QED
    BY <2>1, <2>2 DEF SceneInv
<1> QED
  BY <1>2, <1>3, <1>5 DEF IInv

\* Every step of the service and of its nodes keeps the invariant.
LEMMA NextStep ==
  ASSUME IInv, [Next]_vars
  PROVE  IInv'
<1>1. CASE Next
  BY <1>1, WalkSteps, ScriptSteps, ServiceSteps, RequestsStep, UpdateStep DEF Next
<1>2. CASE UNCHANGED vars
  <2>1. UNCHANGED <<parent, children, enabled, active, afterActive, deactivating, compiled, stack,
                    nested, told, interrupted, scene, commands>>
    BY <1>2 DEF vars, nodeVars, tree, flags, calls, sceneVars
  <2>2. TreeInv' /\ FlagInv' /\ ServiceInv' /\ FrameInv'
    BY <2>1 DEF IInv, TreeInv, RootInv, FlagInv, ServiceInv, FrameInv
  <2>3. SceneInv'
    BY <2>1 DEF IInv, SceneInv, MarkInv, ActivateInv, ForceInv, CurrentInv, DropInv, LeaveInv, OneScene,
                Leaving, Places, Op, Who
  <2> QED
    BY <2>2, <2>3 DEF IInv
<1> QED
  BY <1>1, <1>2

\* The invariant holds in every state the nodes and the service reach.
THEOREM Inductive == Spec => []IInv
<1>1. Init => IInv
  BY InitInv
<1>2. IInv /\ [Next]_vars => IInv'
  BY NextStep
<1> QED
  BY <1>1, <1>2, PTL DEF Spec

\* The tree is one: the children of a node are the nodes it is the parent of, each once,
\* and every step on the stack is about a node, or a callback of the service.
THEOREM TypeCorrect == Spec => []TypeOK
<1>1. IInv => TypeOK
  <2> SUFFICES ASSUME IInv PROVE TypeOK
    OBVIOUS
  <2>1. TreeInv /\ FlagInv /\ ServiceInv /\ FrameInv
    BY DEF IInv
  <2>2. ASSUME NEW f \in ToSet(stack) PROVE f.node \in Nodes \cup {None} /\ f.rest \in Seq(Nodes)
    <3>1. f \in Frame
      BY <2>1 DEF FrameInv, AllGood, ToSet
    <3> QED
      BY <3>1 DEF Frame
  <2> QED
    BY <2>1, <2>2 DEF TypeOK, NodeTypeOK, TreeInv, FlagInv, ServiceInv
<1> QED
  BY <1>1, Inductive, PTL

\* A scene that is active is the current one, whatever the callbacks of a change of the
\* scene ask for, unless a hook interrupted its own walk; and a restart that waits has
\* the scene that restartCurrentScene_() uses without a test.
THEOREM OnlyCurrent == Spec => []OneScene
<1>1. IInv => OneScene
  BY DEF IInv, SceneInv
<1> QED
  BY <1>1, Inductive, PTL

------------------------------------------------------------------------------
(* Where the walks are *)

\* The nodes from n up, in a tree.
Line(par, n) ==
  {m \in Nodes : \A above \in SUBSET Nodes :
     n \in above /\ (\A x \in above : par[x] \in above \cup {None}) => m \in above}

\* The steps that end a node, what may come after them, and the steps of a command.
Endings == {"deactivate", "deactivated", "deactivates", "inactive"}
Tails == {"disabled", "removed", "releaseChildren"}
Later == {"dropped", "current", "enableForce"}

\* The steps of one node that may be on the stack at once, the first before the second.
Follows(a, b) ==
  \/ a \in Hooks \/ b \in Hooks
  \/ a = "activates" /\ b = "active"
  \/ a = "deactivates" /\ b = "inactive"
  \/ a = "releases" /\ b = "released"
  \/ a \in Endings /\ b \in Tails \cup Later \cup {"onDestroy"}
  \/ a = "disabled" /\ b \in Later \cup {"onDestroy"}
  \/ a = "onDestroy" /\ b \in Later
  \/ a = "dropped" /\ b \in {"current", "enableForce"}
  \/ a = "current" /\ b = "enableForce"

\* The steps about a node that was not interrupted are deeper than those about the
\* nodes below it, and not below a step about a node above it.
Fits(par, int, f, g) ==
  g.node \in Nodes \ int /\ f.node \in Line(par, g.node) => f.node = g.node /\ Follows(f.op, g.op)
Ordered(par, int, frames) == \A j, k \in 1..Len(frames) : j < k => Fits(par, int, frames[j], frames[k])

\* A loop has children of its node left to visit, each once, and a child that is
\* removed from a parent is still there.
Fine(par, int, f) ==
  /\ f.op \in Loops => IsInjective(f.rest) /\ \A c \in ToSet(f.rest) : par[c] = f.node
  /\ f.op = "removed" /\ f.node \notin int => f.rest[1] = par[f.node]
AllFine(par, int, frames) == \A k \in 1..Len(frames) : Fine(par, int, frames[k])

\* A step about a node, and a child that a loop over the children of p has left.
In(frames, n, op) == \E k \in 1..Len(frames) : frames[k].node = n /\ frames[k].op = op
Left(frames, p, loop, n) ==
  \E k \in 1..Len(frames) : frames[k].node = p /\ frames[k].op = loop /\ n \in ToSet(frames[k].rest)
Has(n, op) == In(stack, n, op)
Waits(p, loop, n) == Left(stack, p, loop, n)

HasTail(n) == Has(n, "disabled") \/ Has(n, "removed") \/ Has(n, "releaseChildren")
IsEnding(n) == Has(n, "deactivate") \/ deactivating[n]

\* The flags of a node agree with the steps about it.
NodeOK(n) ==
  /\ Has(n, "activated") => ~active[n] /\ enabled[n] /\ compiled[n]
  /\ deactivating[n] <=> Has(n, "deactivated") \/ Has(n, "inactive")
  /\ deactivating[n] => active[n]
  /\ Has(n, "active") => active[n]
  /\ n \in told <=> active[n] /\ ~deactivating[n] /\ ~Has(n, "active")
  /\ active[n] => enabled[n] /\ compiled[n]
  /\ active[n] /\ (HasTail(n) \/ Has(n, "released") \/ Has(n, "onDestroy")) => IsEnding(n)
  /\ Has(n, "activates") => Has(n, "active")
  /\ Has(n, "deactivates") => Has(n, "inactive")

\* The flags of a node agree with those of its parent, unless a step will see to it.
EdgeOK(p, n) ==
  /\ active[n] => active[p] \/ IsEnding(n)
  /\ Has(p, "inactive") /\ active[n] => IsEnding(n) \/ Waits(p, "deactivates", n)
  /\ enabled[n] /\ compiled[n] /\ active[p] /\ ~deactivating[p] =>
       \/ active[n] \/ Has(n, "activate") \/ Has(n, "activated") \/ Waits(p, "activates", n)
       \/ HasTail(n) \/ Has(n, "released")
  /\ Has(n, "activate") \/ Has(n, "activated") => active[p] /\ ~deactivating[p]
  /\ IsEnding(n) => ~active[p] \/ deactivating[p] \/ HasTail(n)

TypeInv == TreeInv /\ FlagInv /\ FrameInv
NodesOK == \A n \in Nodes \ interrupted : NodeOK(n)
EdgesOK == \A n \in Nodes \ interrupted : \A p \in Nodes \ interrupted : parent[n] = p => EdgeOK(p, n)
UpdatesOK == \A n \in Nodes : afterActive[n] <=> n \in told

\* The tree has no cycle, and the walks go down in it.
NoCycle(par) == \A m \in Nodes : par[m] # None => m \notin Line(par, par[m])
OrderInv ==
  /\ NoCycle(parent)
  /\ Ordered(parent, interrupted, stack)
  /\ AllFine(parent, interrupted, stack)

ReachInv == OrderInv /\ NodesOK /\ EdgesOK /\ UpdatesOK

------------------------------------------------------------------------------
(* The nodes above a node *)

\* The line of a node is what a call about the node reaches: the least set with it that is
\* closed under parents.
LEMMA AboveLine == \A n : Above(n) = Line(parent, n) /\ Above(n)' = Line(parent', n)
  BY DEF Above, Line

LEMMA LineSmallest ==
  ASSUME NEW par, NEW n, NEW S \in SUBSET Nodes, n \in S, \A x \in S : par[x] \in S \cup {None}
  PROVE  Line(par, n) \subseteq S
  BY DEF Line

LEMMA LineProperties ==
  ASSUME NEW par \in [Nodes -> Nodes \cup {None}], NEW n \in Nodes
  PROVE  /\ Line(par, n) \in SUBSET Nodes /\ n \in Line(par, n)
         /\ \A m \in Line(par, n) : par[m] \in Line(par, n) \cup {None}
<1>1. Line(par, n) \in SUBSET Nodes /\ n \in Line(par, n)
  BY DEF Line
<1>2. ASSUME NEW m \in Line(par, n), par[m] # None PROVE par[m] \in Line(par, n)
  <2>1. m \in Nodes /\ par[m] \in Nodes
    BY <1>2 DEF Line
  <2>2. ASSUME NEW above \in SUBSET Nodes, n \in above, \A x \in above : par[x] \in above \cup {None}
        PROVE  par[m] \in above
    <3>1. m \in above
      BY <2>2 DEF Line
    <3> QED
      BY <2>2, <3>1, <1>2
  <2> QED
    BY <2>1, <2>2 DEF Line
<1> QED
  BY <1>1, <1>2

\* The line of a node above another is part of the line of the other.
LEMMA LineUp ==
  ASSUME NEW par \in [Nodes -> Nodes \cup {None}], NEW n \in Nodes, NEW m \in Line(par, n)
  PROVE  Line(par, m) \subseteq Line(par, n)
  BY LineProperties, LineSmallest

\* A node without a parent.
LEMMA LineTop ==
  ASSUME NEW par \in [Nodes -> Nodes \cup {None}], NEW n \in Nodes, par[n] = None
  PROVE  Line(par, n) = {n}
<1>1. {n} \in SUBSET Nodes /\ \A x \in {n} : par[x] \in {n} \cup {None}
  OBVIOUS
<1>2. Line(par, n) \subseteq {n}
  BY <1>1, LineSmallest
<1> QED
  BY <1>2, LineProperties

\* What a node that leaves its parent, or gets another one, changes.
LEMMA LineDetach ==
  ASSUME NEW par \in [Nodes -> Nodes \cup {None}], NEW n \in Nodes, NEW m \in Nodes
  PROVE  Line([par EXCEPT ![n] = None], m) \subseteq Line(par, m)
<1> DEFINE S == Line(par, m)
<1>1. S \in SUBSET Nodes /\ m \in S /\ \A x \in S : par[x] \in S \cup {None}
  BY LineProperties
<1> HIDE DEF S
<1>2. \A x \in S : [par EXCEPT ![n] = None][x] \in S \cup {None}
  BY <1>1
<1>3. Line([par EXCEPT ![n] = None], m) \subseteq S
  BY <1>1, <1>2, LineSmallest
<1> QED
  BY <1>3 DEF S

\* A move of a node changes no line that the node is not on.
LEMMA LineAttach ==
  ASSUME NEW par \in [Nodes -> Nodes \cup {None}], NEW new \in [Nodes -> Nodes \cup {None}],
         NEW n \in Nodes, NEW m \in Nodes, n \notin Line(par, m),
         \A x \in Nodes : x # n => new[x] = par[x]
  PROVE  Line(new, m) = Line(par, m)
<1>2. Line(new, m) \subseteq Line(par, m)
  <2> DEFINE S == Line(par, m)
  <2>1. S \in SUBSET Nodes /\ m \in S /\ n \notin S /\ \A x \in S : par[x] \in S \cup {None}
    BY LineProperties
  <2> HIDE DEF S
  <2>2. \A x \in S : new[x] \in S \cup {None}
    BY <2>1
  <2>3. Line(new, m) \subseteq S
    BY <2>1, <2>2, LineSmallest
  <2> QED
    BY <2>3 DEF S
<1>3. Line(par, m) \subseteq Line(new, m)
  <2> DEFINE S == Line(new, m)
  <2>1. S \in SUBSET Nodes /\ m \in S /\ n \notin S /\ \A x \in S : new[x] \in S \cup {None}
    BY <1>2, LineProperties
  <2> HIDE DEF S
  <2>2. \A x \in S : par[x] \in S \cup {None}
    BY <2>1
  <2>3. Line(par, m) \subseteq S
    BY <2>1, <2>2, LineSmallest
  <2> QED
    BY <2>3 DEF S
<1> QED
  BY <1>2, <1>3

\* The tree stays one.
LEMMA CycleDetach ==
  ASSUME NEW par \in [Nodes -> Nodes \cup {None}], NEW n \in Nodes, NoCycle(par)
  PROVE  NoCycle([par EXCEPT ![n] = None])
<1> SUFFICES ASSUME NEW m \in Nodes, [par EXCEPT ![n] = None][m] # None
             PROVE  m \notin Line([par EXCEPT ![n] = None], [par EXCEPT ![n] = None][m])
  BY DEF NoCycle
<1>1. par[m] \in Nodes /\ [par EXCEPT ![n] = None][m] = par[m]
  OBVIOUS
<1>2. Line([par EXCEPT ![n] = None], par[m]) \subseteq Line(par, par[m])
  BY <1>1, LineDetach
<1>3. m \notin Line(par, par[m])
  BY <1>1, NodeAssumption DEF NoCycle
<1> QED
  BY <1>1, <1>2, <1>3

\* A node that is moved under none of those below it makes no cycle.
LEMMA CycleAttach ==
  ASSUME NEW par \in [Nodes -> Nodes \cup {None}], NEW n \in Nodes, NEW p \in Nodes, NoCycle(par),
         n \notin Line(par, p)
  PROVE  NoCycle([par EXCEPT ![n] = p])
<1> DEFINE new == [par EXCEPT ![n] = p]
<1>0. new \in [Nodes -> Nodes \cup {None}] /\ new[n] = p /\ \A x \in Nodes : x # n => new[x] = par[x]
  OBVIOUS
<1> HIDE DEF new
<1>1. /\ new \in [Nodes -> Nodes \cup {None}] /\ new[n] = p /\ \A x \in Nodes : x # n => new[x] = par[x]
      /\ Line(new, p) = Line(par, p)
      /\ \A m \in Nodes : n \notin Line(par, m) => Line(new, m) = Line(par, m)
  BY <1>0, LineAttach
<1> SUFFICES ASSUME NEW m \in Nodes, new[m] # None PROVE m \notin Line(new, new[m])
  BY DEF NoCycle, new
<1>2. CASE m = n
  BY <1>1, <1>2
<1>3. CASE m # n
  <2> DEFINE q == par[m]
  <2>1. q \in Nodes /\ new[m] = q /\ m \notin Line(par, q)
    BY <1>1, <1>3, NodeAssumption DEF NoCycle
  <2> HIDE DEF q
  <2>2. CASE n \notin Line(par, q)
    BY <1>1, <2>1, <2>2
  <2>3. CASE n \in Line(par, q)
    <3> DEFINE S == Line(par, q) \cup Line(par, p)
    <3>1. /\ S \in SUBSET Nodes /\ q \in S
          /\ \A x \in S : par[x] \in S \cup {None}
          /\ p \in S
      BY <2>1, LineProperties
    <3> HIDE DEF S
    <3>2. \A x \in S : new[x] \in S \cup {None}
      BY <1>1, <3>1
    <3>3. Line(new, q) \subseteq S
      BY <3>1, <3>2, LineSmallest
    <3>4. m \notin Line(par, p)
      <4> SUFFICES ASSUME m \in Line(par, p) PROVE FALSE
        OBVIOUS
      <4>1. q \in Line(par, p)
        BY <2>1, LineProperties, NodeAssumption DEF q
      <4>2. Line(par, q) \subseteq Line(par, p)
        BY <4>1, LineUp
      <4> QED
        BY <2>3, <4>2
    <3> QED
      BY <2>1, <3>3, <3>4 DEF S
  <2> QED
    BY <2>2, <2>3
<1> QED
  BY <1>2, <1>3

------------------------------------------------------------------------------
(* Steps in the place of the first one *)

\* What is on two stacks is on the one put over the other.
LEMMA InConcat ==
  ASSUME NEW new, NEW under, AllGood(new), AllGood(under)
  PROVE  /\ \A n, op : In(new \o under, n, op) <=> In(new, n, op) \/ In(under, n, op)
         /\ \A p, loop, n : Left(new \o under, p, loop, n) <=> Left(new, p, loop, n) \/ Left(under, p, loop, n)
<1> DEFINE both == new \o under
<1>1. /\ Len(both) = Len(new) + Len(under) /\ Len(new) \in Nat /\ Len(under) \in Nat
      /\ \A k \in 1..Len(new) : both[k] = new[k]
      /\ \A k \in 1..Len(under) : both[k + Len(new)] = under[k]
  BY GoodConcat
<1> HIDE DEF both
<1>2. \A k \in 1..Len(new) : k \in 1..Len(both) /\ both[k] = new[k]
  BY <1>1
<1>3. \A k \in 1..Len(under) : \E j \in 1..Len(both) : both[j] = under[k]
  BY <1>1
<1>4. ASSUME NEW k \in 1..Len(both)
      PROVE  \/ \E j \in 1..Len(new) : both[k] = new[j]
             \/ \E j \in 1..Len(under) : both[k] = under[j]
  <2>1. CASE k <= Len(new)
    BY <1>1, <2>1
  <2>2. CASE k > Len(new)
    <3> DEFINE j == k - Len(new)
    <3>1. j \in 1..Len(under) /\ j + Len(new) = k
      BY <1>1, <2>2
    <3> HIDE DEF j
    <3> QED
      BY <1>1, <3>1
  <2> QED
    BY <1>1, <2>1, <2>2
<1>5. \A n, op : In(both, n, op) <=> In(new, n, op) \/ In(under, n, op)
  BY <1>2, <1>3, <1>4 DEF In
<1>6. ASSUME NEW p, NEW loop, NEW n
      PROVE  Left(both, p, loop, n) <=> Left(new, p, loop, n) \/ Left(under, p, loop, n)
  <2> DEFINE Waiting(f) == f.node = p /\ f.op = loop /\ n \in ToSet(f.rest)
  <2>1. \A frames : Left(frames, p, loop, n) <=> \E k \in 1..Len(frames) : Waiting(frames[k])
    BY DEF Left
  <2> HIDE DEF Waiting
  <2> QED
    BY <1>2, <1>3, <1>4, <2>1
<1> QED
  BY <1>5, <1>6 DEF both

LEMMA InSame ==
  ASSUME NEW one, NEW other, Same(one, other)
  PROVE  \A n, op : In(one, n, op) <=> In(other, n, op)
  BY DEF In, Same

\* Steps over others are in order when each part is and they fit one another.
LEMMA OrderedConcat ==
  ASSUME NEW par, NEW int, NEW new, NEW under, AllGood(new), AllGood(under),
         Ordered(par, int, new), Ordered(par, int, under),
         \A j \in 1..Len(new) : \A k \in 1..Len(under) : Fits(par, int, new[j], under[k])
  PROVE  Ordered(par, int, new \o under)
<1> DEFINE both == new \o under
<1>1. /\ Len(both) = Len(new) + Len(under) /\ Len(new) \in Nat /\ Len(under) \in Nat
      /\ \A k \in 1..Len(new) : both[k] = new[k]
      /\ \A k \in 1..Len(under) : both[k + Len(new)] = under[k]
  BY GoodConcat
<1> HIDE DEF both
<1>2. ASSUME NEW k \in 1..Len(both), k > Len(new)
      PROVE  \E j \in 1..Len(under) : k = j + Len(new) /\ both[k] = under[j]
  <2> DEFINE j == k - Len(new)
  <2>1. j \in 1..Len(under) /\ j + Len(new) = k
    BY <1>1, <1>2
  <2> HIDE DEF j
  <2> QED
    BY <1>1, <2>1
<1>3. ASSUME NEW j \in 1..Len(both), NEW k \in 1..Len(both), j < k
      PROVE  Fits(par, int, both[j], both[k])
  <2>1. CASE k <= Len(new)
    BY <1>1, <1>3, <2>1 DEF Ordered
  <2>2. CASE j <= Len(new) /\ k > Len(new)
    <3>1. PICK i \in 1..Len(under) : both[k] = under[i]
      BY <1>2, <2>2
    <3>2. j \in 1..Len(new) /\ both[j] = new[j]
      BY <1>1, <2>2
    <3> QED
      BY <3>1, <3>2
  <2>3. CASE j > Len(new)
    <3>1. k > Len(new)
      BY <1>1, <1>3, <2>3
    <3>2. PICK i \in 1..Len(under) : k = i + Len(new) /\ both[k] = under[i]
      BY <1>2, <3>1
    <3>3. PICK h \in 1..Len(under) : j = h + Len(new) /\ both[j] = under[h]
      BY <1>2, <2>3
    <3>4. h < i
      BY <1>1, <1>3, <3>2, <3>3
    <3> QED
      BY <3>2, <3>3, <3>4 DEF Ordered
  <2> QED
    BY <1>1, <2>1, <2>2, <2>3
<1>4. Ordered(par, int, both)
  BY <1>3 DEF Ordered
<1> QED
  BY <1>4 DEF both

LEMMA FineConcat ==
  ASSUME NEW par, NEW int, NEW new, NEW under, AllGood(new), AllGood(under),
         AllFine(par, int, new), AllFine(par, int, under)
  PROVE  AllFine(par, int, new \o under)
<1> DEFINE both == new \o under
<1>1. /\ Len(both) = Len(new) + Len(under) /\ Len(new) \in Nat /\ Len(under) \in Nat
      /\ \A k \in 1..Len(new) : both[k] = new[k]
      /\ \A k \in 1..Len(under) : both[k + Len(new)] = under[k]
  BY GoodConcat
<1> HIDE DEF both
<1>2. ASSUME NEW k \in 1..Len(both) PROVE Fine(par, int, both[k])
  <2>1. CASE k <= Len(new)
    BY <1>1, <2>1 DEF AllFine
  <2>2. CASE k > Len(new)
    <3> DEFINE j == k - Len(new)
    <3>1. j \in 1..Len(under) /\ j + Len(new) = k
      BY <1>1, <2>2
    <3> HIDE DEF j
    <3>2. both[j + Len(new)] = under[j]
      BY <1>1, <3>1
    <3> QED
      BY <3>1, <3>2 DEF AllFine
  <2> QED
    BY <1>1, <2>1, <2>2
<1>3. AllFine(par, int, both)
  BY <1>2 DEF AllFine
<1> QED
  BY <1>3 DEF both

\* The first step and those below it.
Deep(n, op) == In(Tail(stack), n, op)
DeepWaits(p, loop, n) == Left(Tail(stack), p, loop, n)

\* The first step, and what is below it.
LEMMA TopOrder ==
  ASSUME TypeInv, OrderInv, stack # <<>>
  PROVE  /\ AllGood(Tail(stack)) /\ Good(Top)
         /\ \A n, op : Has(n, op) <=> (Top.node = n /\ Top.op = op) \/ Deep(n, op)
         /\ \A p, loop, n : Waits(p, loop, n) <=>
              (Top.node = p /\ Top.op = loop /\ n \in ToSet(Top.rest)) \/ DeepWaits(p, loop, n)
         /\ Ordered(parent, interrupted, Tail(stack)) /\ AllFine(parent, interrupted, Tail(stack))
         /\ \A k \in 1..Len(Tail(stack)) : Fits(parent, interrupted, Top, Tail(stack)[k])
         /\ Fine(parent, interrupted, Top)
<1>1. AllGood(Tail(stack)) /\ Good(Top) /\ Top = stack[1] /\ Len(stack) \in Nat \ {0}
  BY Below DEF TypeInv
<1> DEFINE q == Tail(stack)
<1>2. /\ Len(q) = Len(stack) - 1
      /\ \A k \in 1..(Len(stack) - 1) : q[k] = stack[k + 1]
  <2>1. stack \in Seq(Frame) /\ stack # <<>>
    BY DEF TypeInv, FrameInv, AllGood
  <2> QED
    BY <2>1, HeadTailProperties
<1> HIDE DEF q
<1>3. \A k \in 1..Len(q) : k + 1 \in 1..Len(stack) /\ q[k] = stack[k + 1]
  BY <1>1, <1>2
<1>4. ASSUME NEW k \in 1..Len(stack), k # 1
      PROVE  \E j \in 1..Len(q) : stack[k] = q[j]
  <2> DEFINE j == k - 1
  <2>1. j \in 1..Len(q) /\ j + 1 = k
    BY <1>1, <1>2, <1>4
  <2> HIDE DEF j
  <2> QED
    BY <1>3, <2>1
<1>5. 1 \in 1..Len(stack)
  BY <1>1
<1>6. \A n, op : Has(n, op) <=> (Top.node = n /\ Top.op = op) \/ In(q, n, op)
  BY <1>1, <1>3, <1>4, <1>5 DEF Has, In
<1>7. ASSUME NEW p, NEW loop, NEW n
      PROVE  Waits(p, loop, n) <=>
               (Top.node = p /\ Top.op = loop /\ n \in ToSet(Top.rest)) \/ Left(q, p, loop, n)
  <2> DEFINE Waiting(f) == f.node = p /\ f.op = loop /\ n \in ToSet(f.rest)
  <2>1. \A frames : Left(frames, p, loop, n) <=> \E k \in 1..Len(frames) : Waiting(frames[k])
    BY DEF Left
  <2>2. Waiting(Top) <=> Top.node = p /\ Top.op = loop /\ n \in ToSet(Top.rest)
    OBVIOUS
  <2> HIDE DEF Waiting
  <2>3. Waits(p, loop, n) <=> Waiting(Top) \/ Left(q, p, loop, n)
    BY <1>1, <1>3, <1>4, <1>5, <2>1 DEF Waits
  <2> QED
    BY <2>2, <2>3
<1>8. Ordered(parent, interrupted, q)
  <2>1. \A j, k \in 1..Len(q) : j < k => j + 1 < k + 1
    BY <1>1, <1>2
  <2>2. \A j, k \in 1..Len(stack) : j < k => Fits(parent, interrupted, stack[j], stack[k])
    BY DEF OrderInv, Ordered
  <2> QED
    BY <1>3, <2>1, <2>2 DEF Ordered
<1>9. AllFine(parent, interrupted, q) /\ Fine(parent, interrupted, Top)
  BY <1>1, <1>3, <1>5 DEF OrderInv, AllFine
<1>10. \A k \in 1..Len(q) : Fits(parent, interrupted, Top, q[k])
  <2>1. \A k \in 1..Len(q) : 1 < k + 1
    BY <1>1, <1>2
  <2>2. \A j, k \in 1..Len(stack) : j < k => Fits(parent, interrupted, stack[j], stack[k])
    BY DEF OrderInv, Ordered
  <2> QED
    BY <1>1, <1>3, <1>5, <2>1, <2>2
<1> QED
  BY <1>1, <1>6, <1>7, <1>8, <1>9, <1>10 DEF q, Deep, DeepWaits

\* What else there is about the node of the first step, and about its children.
LEMMA TopDeep ==
  ASSUME TypeInv, OrderInv, stack # <<>>, Top.node \in Nodes
  PROVE  /\ \A op : Top.node \notin interrupted /\ Deep(Top.node, op) => Follows(Top.op, op)
         /\ \A n \in Nodes \ interrupted : parent[n] = Top.node => \A op : ~Deep(n, op)
<1> DEFINE t == Top.node
           q == Tail(stack)
<1>1. /\ \A k \in 1..Len(q) : Fits(parent, interrupted, Top, q[k])
      /\ parent \in [Nodes -> Nodes \cup {None}] /\ t \in Line(parent, t)
      /\ \A n \in Nodes : n \in Line(parent, n)
  BY TopOrder, LineProperties DEF TypeInv, TreeInv
<1>2. ASSUME NEW op, t \notin interrupted, Deep(t, op) PROVE Follows(Top.op, op)
  <2>1. PICK k \in 1..Len(q) : q[k].node = t /\ q[k].op = op
    BY <1>2 DEF Deep, In
  <2> QED
    BY <1>1, <1>2, <2>1 DEF Fits
<1>3. ASSUME NEW n \in Nodes \ interrupted, parent[n] = t, NEW op, Deep(n, op) PROVE FALSE
  <2>1. PICK k \in 1..Len(q) : q[k].node = n
    BY <1>3 DEF Deep, In
  <2>2. t \in Line(parent, n)
    BY <1>1, <1>3, LineProperties, NodeAssumption
  <2>3. t = n
    BY <1>1, <1>3, <2>1, <2>2 DEF Fits
  <2> QED
    BY <1>3, <2>3 DEF TypeInv, TreeInv
<1> QED
  BY <1>2, <1>3

\* A step goes on with its node, and to a child of it before that.
Descends(new) ==
  /\ \A k \in 1..Len(new) :
       \/ new[k].node = Top.node /\ \A op : Follows(Top.op, op) => Follows(new[k].op, op)
       \/ k = 1 /\ {Top.node, new[k].node} \subseteq Nodes /\ parent[new[k].node] = Top.node
  /\ \A j, k \in 1..Len(new) : j < k /\ new[j].node = new[k].node => Follows(new[j].op, new[k].op)

\* Steps in the place of the first one keep the order when they go down in the tree.
LEMMA GoOrder ==
  ASSUME TypeInv, OrderInv, stack # <<>>, NEW new, AllGood(new), AllFine(parent, interrupted, new), Descends(new),
         Goto(new), UNCHANGED tree
  PROVE  /\ TreeInv' /\ FrameInv' /\ OrderInv'
         /\ \A n, op : Has(n, op)' <=> In(new, n, op) \/ Deep(n, op)
         /\ \A p, loop, n : Waits(p, loop, n)' <=> Left(new, p, loop, n) \/ DeepWaits(p, loop, n)
<1> DEFINE t == Top.node
           q == Tail(stack)
           both == new \o q
<1>1. stack' = both /\ parent' = parent /\ children' = children /\ interrupted' = interrupted
  BY DEF Goto, tree
<1>2. /\ AllGood(q) /\ Ordered(parent, interrupted, q) /\ AllFine(parent, interrupted, q)
      /\ \A k \in 1..Len(q) : Fits(parent, interrupted, Top, q[k])
      /\ NoCycle(parent) /\ parent \in [Nodes -> Nodes \cup {None}]
  BY TopOrder DEF OrderInv, TypeInv, TreeInv
\* A child of the node is not above the node or above what is above it.
<1>4. ASSUME NEW c \in Nodes, t \in Nodes, parent[c] = t PROVE c \notin Line(parent, t)
  BY <1>2, <1>4, NodeAssumption DEF NoCycle
<1>5. ASSUME NEW j \in 1..Len(new), NEW k \in 1..Len(q) PROVE Fits(parent, interrupted, new[j], q[k])
  <2> SUFFICES ASSUME q[k].node \in Nodes \ interrupted, new[j].node \in Line(parent, q[k].node)
               PROVE  new[j].node = q[k].node /\ Follows(new[j].op, q[k].op)
    BY DEF Fits
  <2> DEFINE m == q[k].node
             c == new[j].node
  <2>1. CASE c = t /\ \A op : Follows(Top.op, op) => Follows(new[j].op, op)
    BY <1>2, <2>1 DEF Fits
  <2>2. CASE c \in Nodes /\ t \in Nodes /\ parent[c] = t
    <3>1. t \in Line(parent, m)
      BY <1>2, <2>2, LineProperties, NodeAssumption
    <3>2. t = m
      BY <1>2, <3>1 DEF Fits
    <3> QED
      BY <1>4, <2>2, <3>2
  <2> QED
    BY <2>1, <2>2 DEF Descends
<1>6. Ordered(parent, interrupted, new)
  <2> SUFFICES ASSUME NEW j \in 1..Len(new), NEW k \in 1..Len(new), j < k
               PROVE  Fits(parent, interrupted, new[j], new[k])
    BY DEF Ordered
  <2>1. new[k].node = t
    <3>1. Len(new) \in Nat
      BY DEF AllGood
    <3> QED
      BY <3>1 DEF Descends
  <2>2. new[j].node \in Line(parent, t) => new[j].node = t
    BY <1>4 DEF Descends
  <2> QED
    BY <2>1, <2>2 DEF Fits, Descends
<1>7. Ordered(parent, interrupted, both) /\ AllFine(parent, interrupted, both)
  BY <1>2, <1>5, <1>6, OrderedConcat, FineConcat
<1>8. OrderInv'
  BY <1>1, <1>2, <1>7 DEF OrderInv
<1>9. AllGood(both)
  BY <1>2, GoodConcat
<1>10. TreeInv' /\ FrameInv'
  BY <1>1, <1>9 DEF TypeInv, TreeInv, RootInv, FrameInv
<1>11. /\ \A n, op : In(both, n, op) <=> In(new, n, op) \/ Deep(n, op)
       /\ \A p, loop, n : Left(both, p, loop, n) <=> Left(new, p, loop, n) \/ DeepWaits(p, loop, n)
  BY <1>2, InConcat DEF Deep, DeepWaits
<1> HIDE DEF both
<1>12. \A n, op : Has(n, op)' <=> In(new, n, op) \/ Deep(n, op)
  BY <1>1, <1>11 DEF Has
<1>13. \A p, loop, n : Waits(p, loop, n)' <=> Left(new, p, loop, n) \/ DeepWaits(p, loop, n)
  BY <1>1, <1>11 DEF Waits
<1> QED
  BY <1>8, <1>10, <1>12, <1>13

\* The steps that are put on the stack.
LEMMA In0 == /\ \A n, op : ~In(<<>>, n, op)
             /\ \A p, loop, n : ~Left(<<>>, p, loop, n)
  BY DEF In, Left

\* What one step is about.
LEMMA In1 ==
  ASSUME NEW f, f.op \notin Loops
  PROVE  /\ \A n, op : In(<<f>>, n, op) <=> f.node = n /\ f.op = op
         /\ \A p, n : \A loop \in Loops : ~Left(<<f>>, p, loop, n)
<1> DEFINE q == <<f>>
<1>1. Len(q) = 1 /\ q[1] = f
  OBVIOUS
<1> HIDE DEF q
<1>2. \A k \in 1..Len(q) : k = 1
  BY <1>1
<1>3. 1 \in 1..Len(q)
  BY <1>1
<1>4. \A n, op : In(q, n, op) <=> f.node = n /\ f.op = op
  BY <1>1, <1>2, <1>3 DEF In
<1>5. \A p, n : \A loop \in Loops : ~Left(q, p, loop, n)
  BY <1>1, <1>2 DEF Left
<1> QED
  BY <1>4, <1>5 DEF q

\* What the stack is after a step of a walk: nothing, one or two steps about the same
\* node in its place, or those that visit its children.
Becomes(new) ==
  /\ TreeInv' /\ FrameInv' /\ OrderInv'
  /\ \A n, op : Has(n, op)' <=> In(new, n, op) \/ Deep(n, op)
  /\ \A p, loop, n : Waits(p, loop, n)' <=> Left(new, p, loop, n) \/ DeepWaits(p, loop, n)

\* The end of a step keeps the order.
LEMMA Returns ==
  ASSUME TypeInv, OrderInv, stack # <<>>, Return, UNCHANGED tree
  PROVE  /\ TreeInv' /\ FrameInv' /\ OrderInv'
         /\ \A n, op : Has(n, op)' <=> Deep(n, op)
         /\ \A p, loop, n : Waits(p, loop, n)' <=> DeepWaits(p, loop, n)
<1> DEFINE new == <<>>
<1>1. Goto(new) /\ AllGood(new) /\ 1..Len(new) = {}
  BY Good0 DEF Return
<1>2. \A n, op : ~In(new, n, op)
  BY In0
<1>3. \A p, loop, n : ~Left(new, p, loop, n)
  BY In0
<1> HIDE DEF new
<1>4. AllFine(parent, interrupted, new) /\ Descends(new)
  BY <1>1 DEF AllFine, Descends
<1>5. Becomes(new)
  BY <1>1, <1>4, GoOrder DEF Becomes
<1> QED
  BY <1>2, <1>3, <1>5 DEF Becomes

\* The steps that are only about a node.
Plain == (Walks \ ({"removed"} \cup Loops \cup {"dropped", "current", "enableForce"})) \cup {"callback"}

LEMMA PlainGood ==
  ASSUME NEW op \in Plain, NEW n \in Nodes
  PROVE  Good(Do(op, n)) /\ Do(op, n).op = op /\ Do(op, n).node = n /\ op \notin Loops /\ op # "removed"
<1>1. CASE op = "callback"
  BY <1>1 DEF Do, Good, Frame, Walks, Loops
<1>2. CASE op \in Walks \ ({"removed"} \cup Loops \cup {"dropped", "current", "enableForce"})
  BY <1>2, DoGood
<1> QED
  BY <1>1, <1>2 DEF Plain

\* One step of the same node in the place of the first one.
LEMMA PutsOne ==
  ASSUME TypeInv, OrderInv, stack # <<>>, Top.node \in Nodes, NEW a \in Plain,
         \A op : Follows(Top.op, op) => Follows(a, op),
         Goto(<<Do(a, Top.node)>>), UNCHANGED tree
  PROVE  /\ TreeInv' /\ FrameInv' /\ OrderInv'
         /\ \A n, op : Has(n, op)' <=> (Top.node = n /\ a = op) \/ Deep(n, op)
         /\ \A p, n : \A loop \in Loops : Waits(p, loop, n)' <=> DeepWaits(p, loop, n)
<1> DEFINE f == Do(a, Top.node)
           new == <<f>>
<1>1. Good(f) /\ f.op = a /\ f.node = Top.node
  BY PlainGood
<1>2. f.op \notin Loops /\ f.op # "removed"
  BY <1>1, PlainGood
<1> HIDE DEF f
<1>3. AllGood(new) /\ Len(new) = 1 /\ new[1] = f /\ Goto(new)
  BY <1>1, Good1 DEF f
<1>4. /\ \A n, op : In(new, n, op) <=> f.node = n /\ f.op = op
      /\ \A p, n : \A loop \in Loops : ~Left(new, p, loop, n)
  BY <1>2, In1
<1> HIDE DEF new
<1>5. \A k \in 1..Len(new) : k = 1
  BY <1>3
<1>6. AllFine(parent, interrupted, new)
  BY <1>2, <1>3, <1>5 DEF AllFine, Fine
<1>7. Descends(new)
  BY <1>1, <1>3, <1>5 DEF Descends
<1>8. Becomes(new)
  BY <1>3, <1>6, <1>7, GoOrder DEF Becomes
<1> QED
  BY <1>1, <1>4, <1>8 DEF Becomes

\* What two steps are about.
LEMMA In2 ==
  ASSUME NEW f, NEW g
  PROVE  /\ \A n, op : In(<<f, g>>, n, op) <=> (f.node = n /\ f.op = op) \/ (g.node = n /\ g.op = op)
         /\ \A p, loop, n : Left(<<f, g>>, p, loop, n) <=>
              \/ f.node = p /\ f.op = loop /\ n \in ToSet(f.rest)
              \/ g.node = p /\ g.op = loop /\ n \in ToSet(g.rest)
<1> DEFINE q == <<f, g>>
<1>1. Len(q) = 2 /\ q[1] = f /\ q[2] = g
  OBVIOUS
<1> HIDE DEF q
<1>2. \A k \in 1..Len(q) : k = 1 \/ k = 2
  BY <1>1
<1>3. 1 \in 1..Len(q) /\ 2 \in 1..Len(q)
  BY <1>1
<1>4. \A n, op : In(q, n, op) <=> (f.node = n /\ f.op = op) \/ (g.node = n /\ g.op = op)
  BY <1>1, <1>2, <1>3 DEF In
<1>5. ASSUME NEW p, NEW loop, NEW n
      PROVE  Left(q, p, loop, n) <=> \/ f.node = p /\ f.op = loop /\ n \in ToSet(f.rest)
                                     \/ g.node = p /\ g.op = loop /\ n \in ToSet(g.rest)
  <2> DEFINE Waiting(h) == h.node = p /\ h.op = loop /\ n \in ToSet(h.rest)
  <2>1. Left(q, p, loop, n) <=> \E k \in 1..Len(q) : Waiting(q[k])
    BY DEF Left
  <2> HIDE DEF Waiting
  <2>2. Left(q, p, loop, n) <=> Waiting(f) \/ Waiting(g)
    BY <1>1, <1>2, <1>3, <2>1
  <2> QED
    BY <2>2 DEF Waiting
<1> QED
  BY <1>4, <1>5 DEF q

\* Two steps of the same node in the place of the first one.
LEMMA PutsTwo ==
  ASSUME TypeInv, OrderInv, stack # <<>>, Top.node \in Nodes, NEW a \in Plain, NEW b \in Plain,
         \A op : Follows(Top.op, op) => Follows(a, op) /\ Follows(b, op), Follows(a, b),
         Goto(<<Do(a, Top.node), Do(b, Top.node)>>), UNCHANGED tree
  PROVE  /\ TreeInv' /\ FrameInv' /\ OrderInv'
         /\ \A n, op : Has(n, op)' <=> (Top.node = n /\ (a = op \/ b = op)) \/ Deep(n, op)
         /\ \A p, n : \A loop \in Loops : Waits(p, loop, n)' <=> DeepWaits(p, loop, n)
<1> DEFINE f == Do(a, Top.node)
           g == Do(b, Top.node)
           new == <<f, g>>
<1>1. Good(f) /\ f.op = a /\ f.node = Top.node /\ Good(g) /\ g.op = b /\ g.node = Top.node
  BY PlainGood
<1>2. {f.op, g.op} \cap Loops = {} /\ f.op # "removed" /\ g.op # "removed"
  BY <1>1, PlainGood
<1> HIDE DEF f, g
<1>3. AllGood(new) /\ Len(new) = 2 /\ new[1] = f /\ new[2] = g /\ Goto(new)
  BY <1>1, Good2 DEF f, g
<1>4. /\ \A n, op : In(new, n, op) <=> (f.node = n /\ f.op = op) \/ (g.node = n /\ g.op = op)
      /\ \A p, loop, n : Left(new, p, loop, n) <=>
           \/ f.node = p /\ f.op = loop /\ n \in ToSet(f.rest)
           \/ g.node = p /\ g.op = loop /\ n \in ToSet(g.rest)
  BY In2
<1> HIDE DEF new
<1>5. \A k \in 1..Len(new) : k = 1 \/ k = 2
  BY <1>3
<1>6. AllFine(parent, interrupted, new)
  BY <1>2, <1>3, <1>5 DEF AllFine, Fine
<1>7. Descends(new)
  BY <1>1, <1>3, <1>5 DEF Descends
<1>8. Becomes(new)
  BY <1>3, <1>6, <1>7, GoOrder DEF Becomes
<1>9. \A p, n : \A loop \in Loops : ~Left(new, p, loop, n)
  BY <1>2, <1>4
<1> QED
  BY <1>1, <1>4, <1>8, <1>9 DEF Becomes

\* A visit leaves all the children to a loop, or goes to the only one.
Kids(p) == {c \in Nodes : parent[c] = p}
Visited(sole, many, one, loop, then) ==
  /\ (many /\ sole = {}) \/ (~many /\ sole = Kids(Top.node))
  /\ TreeInv' /\ FrameInv' /\ OrderInv'
  /\ \A n, op : Has(n, op)' <=> \/ Top.node = n /\ (op = then \/ (many /\ op = loop))
                                \/ n \in sole /\ op = one
                                \/ Deep(n, op)
  /\ \A p, n : \A l \in Loops :
       Waits(p, l, n)' <=> (many /\ Top.node = p /\ l = loop /\ n \in Kids(p)) \/ DeepWaits(p, l, n)

\* A visit of the children in the place of the first step.
LEMMA PutsVisit ==
  ASSUME TypeInv, OrderInv, stack # <<>>, Top.node \in Nodes,
         NEW one \in {"activate", "deactivate", "release"}, NEW loop \in Loops,
         NEW then \in {"active", "inactive", "released"}, Follows(loop, then),
         \A op : Follows(Top.op, op) => Follows(loop, op) /\ Follows(then, op),
         Goto(Visit(one, loop, then, Top.node)), UNCHANGED tree
  PROVE  \E sole \in SUBSET Nodes : \E many \in BOOLEAN : Visited(sole, many, one, loop, then)
<1> DEFINE t == Top.node
           q == children[t]
           g == Do(then, t)
           new == Visit(one, loop, then, t)
<1>1. TreeInv /\ q \in Seq(Nodes) /\ IsInjective(q) /\ ToSet(q) = Kids(t)
  BY DEF TypeInv, TreeInv, Kids
<1>2. AllGood(new) /\ Goto(new)
  BY <1>1, VisitGood
<1>3. Good(g) /\ g.op = then /\ g.node = t
  BY DoGood DEF Walks, Loops
<1>4. g.op \notin Loops /\ g.op # "removed"
  BY <1>3 DEF Loops
<1>5. CASE q = <<>>
  <2>1. new = <<g>>
    BY <1>5 DEF Visit
  <2>2. Kids(t) = {}
    BY <1>1, <1>5 DEF ToSet
  <2> HIDE DEF g, q, new
  <2>3. Len(new) = 1 /\ new[1] = g
    BY <2>1
  <2>4. /\ \A n, op : In(new, n, op) <=> g.node = n /\ g.op = op
        /\ \A p, n : \A l \in Loops : ~Left(new, p, l, n)
    BY <1>4, <2>1, In1
  <2>5. \A k \in 1..Len(new) : k = 1
    BY <2>3
  <2>6. AllFine(parent, interrupted, new)
    BY <1>4, <2>3, <2>5 DEF AllFine, Fine
  <2>7. Descends(new)
    BY <1>3, <2>3, <2>5 DEF Descends
  <2>8. Becomes(new)
    BY <1>2, <2>6, <2>7, GoOrder DEF Becomes
  <2>9. Visited({}, FALSE, one, loop, then)
    BY <1>3, <2>2, <2>4, <2>8 DEF Visited, Becomes
  <2> QED
    BY <2>9
<1>6. CASE Len(q) = 1
  <2> DEFINE c == q[1]
             f == Do(one, c)
  <2>1. new = <<f, g>>
    BY <1>1, <1>6 DEF Visit
  <2>2. c \in Nodes /\ parent[c] = t /\ Kids(t) = {c}
    <3>1. \A k \in 1..Len(q) : k = 1
      BY <1>6
    <3>2. 1 \in 1..Len(q)
      BY <1>6
    <3>3. ToSet(q) = {c}
      BY <1>1, <3>1, <3>2 DEF ToSet
    <3> QED
      BY <1>1, <3>3 DEF Kids
  <2> HIDE DEF c, q, g, new
  <2>3. Good(f) /\ f.op = one /\ f.node = c
    BY <2>2, DoGood DEF Walks, Loops
  <2>4. f.op \notin Loops /\ f.op # "removed"
    BY <2>3 DEF Loops
  <2> HIDE DEF f
  <2>5. Len(new) = 2 /\ new[1] = f /\ new[2] = g
    BY <2>1
  <2>6. /\ \A n, op : In(new, n, op) <=> (f.node = n /\ f.op = op) \/ (g.node = n /\ g.op = op)
        /\ \A p, l, n : Left(new, p, l, n) <=>
             \/ f.node = p /\ f.op = l /\ n \in ToSet(f.rest)
             \/ g.node = p /\ g.op = l /\ n \in ToSet(g.rest)
    BY <2>1, In2
  <2>7. \A k \in 1..Len(new) : k = 1 \/ k = 2
    BY <2>5
  <2>8. AllFine(parent, interrupted, new)
    BY <1>4, <2>4, <2>5, <2>7 DEF AllFine, Fine
  <2>9. t # c
    BY <1>1, <2>2 DEF TreeInv
  <2>10. Descends(new)
    <3>1. ASSUME NEW k \in 1..Len(new)
          PROVE  \/ new[k].node = t /\ \A op : Follows(Top.op, op) => Follows(new[k].op, op)
                 \/ k = 1 /\ {t, new[k].node} \subseteq Nodes /\ parent[new[k].node] = t
      <4>1. CASE k = 1
        BY <2>2, <2>3, <2>5, <4>1
      <4>2. CASE k = 2
        BY <1>3, <2>5, <4>2
      <4> QED
        BY <2>7, <4>1, <4>2
    <3>2. ASSUME NEW j \in 1..Len(new), NEW k \in 1..Len(new), j < k PROVE new[j].node # new[k].node
      <4>1. j = 1 /\ k = 2
        BY <2>7, <3>2
      <4> QED
        BY <1>3, <2>3, <2>5, <2>9, <4>1
    <3> QED
      BY <3>1, <3>2 DEF Descends
  <2>11. Becomes(new)
    BY <1>2, <2>8, <2>10, GoOrder DEF Becomes
  <2>12. \A p, n : \A l \in Loops : ~Left(new, p, l, n)
    BY <1>4, <2>4, <2>6
  <2>13. Visited({c}, FALSE, one, loop, then)
    BY <1>3, <2>2, <2>3, <2>6, <2>11, <2>12 DEF Visited, Becomes
  <2> QED
    BY <2>2, <2>13
<1>7. CASE q # <<>> /\ Len(q) # 1
  <2> DEFINE f == [op |-> loop, node |-> t, rest |-> q]
  <2>1. new = <<f, g>>
    BY <1>7 DEF Visit
  <2>2. f.op = loop /\ f.node = t /\ f.rest = q
    OBVIOUS
  <2> HIDE DEF f, q, g, new
  <2>3. Len(new) = 2 /\ new[1] = f /\ new[2] = g
    BY <2>1
  <2>4. /\ \A n, op : In(new, n, op) <=> (f.node = n /\ f.op = op) \/ (g.node = n /\ g.op = op)
        /\ \A p, l, n : Left(new, p, l, n) <=>
             \/ f.node = p /\ f.op = l /\ n \in ToSet(f.rest)
             \/ g.node = p /\ g.op = l /\ n \in ToSet(g.rest)
    BY <2>1, In2
  <2>5. \A k \in 1..Len(new) : k = 1 \/ k = 2
    BY <2>3
  <2>6. AllFine(parent, interrupted, new)
    <3>1. loop # "removed"
      BY DEF Loops
    <3>2. Fine(parent, interrupted, f)
      BY <1>1, <2>2, <3>1 DEF Fine, Kids
    <3>3. Fine(parent, interrupted, g)
      BY <1>4 DEF Fine
    <3> QED
      BY <2>3, <2>5, <3>2, <3>3 DEF AllFine
  <2>7. Descends(new)
    <3>1. \A k \in 1..Len(new) : new[k].node = t /\ \A op : Follows(Top.op, op) => Follows(new[k].op, op)
      BY <1>3, <2>2, <2>3, <2>5
    <3>2. ASSUME NEW j \in 1..Len(new), NEW k \in 1..Len(new), j < k PROVE Follows(new[j].op, new[k].op)
      <4>1. j = 1 /\ k = 2
        BY <2>5, <3>2
      <4> QED
        BY <1>3, <2>2, <2>3, <4>1
    <3> QED
      BY <3>1, <3>2 DEF Descends
  <2>8. Becomes(new)
    BY <1>2, <2>6, <2>7, GoOrder DEF Becomes
  <2>9. \A p, n : \A l \in Loops : Left(new, p, l, n) <=> t = p /\ l = loop /\ n \in Kids(p)
    BY <1>1, <1>3, <1>4, <2>2, <2>4
  <2>10. Visited({}, TRUE, one, loop, then)
    BY <1>3, <2>2, <2>4, <2>8, <2>9 DEF Visited, Becomes
  <2> QED
    BY <2>10
<1> QED
  BY <1>1, <1>5, <1>6, <1>7

------------------------------------------------------------------------------
(* The steps of activate() *)

\* What an action says of the first step, and what the invariant says of it.
LEMMA AtTop ==
  ASSUME TypeInv, OrderInv, NEW op \in Walks, At(op)
  PROVE  /\ stack # <<>> /\ Top.op = op /\ Top.node \in Nodes /\ Good(Top)
         /\ \A n, o : Has(n, o) <=> (Top.node = n /\ op = o) \/ Deep(n, o)
         /\ \A p, loop, n : Waits(p, loop, n) <=>
              (Top.node = p /\ op = loop /\ n \in ToSet(Top.rest)) \/ DeepWaits(p, loop, n)
         /\ \A o : Top.node \notin interrupted /\ Deep(Top.node, o) => Follows(op, o)
         /\ \A n \in Nodes \ interrupted : parent[n] = Top.node => \A o : ~Deep(n, o)
<1>1. stack # <<>> /\ Top.op = op
  BY DEF At
<1>2. Good(Top) /\ Top.node \in Nodes
  BY <1>1, TopOrder DEF Good
<1> QED
  BY <1>1, <1>2, TopOrder, TopDeep

\* No other step is about the node but hooks.
Alone(n) ==
  /\ ~Deep(n, "activate") /\ ~Deep(n, "activated") /\ ~Deep(n, "activates") /\ ~Deep(n, "active")
  /\ ~Deep(n, "deactivate") /\ ~Deep(n, "deactivated") /\ ~Deep(n, "deactivates") /\ ~Deep(n, "inactive")
  /\ ~Deep(n, "disabled") /\ ~Deep(n, "removed") /\ ~Deep(n, "releaseChildren") /\ ~Deep(n, "released")
  /\ ~Deep(n, "onDestroy")

\* activate() of an active node, and one whose compilation fails, keep the invariant of the nodes.
LEMMA ActivateReturns ==
  ASSUME TypeInv, ReachInv, ActivateSkips \/ ActivateFails
  PROVE  TypeInv' /\ ReachInv'
<1> DEFINE t == Top.node
<1>0. OrderInv /\ FlagInv /\ NodesOK /\ EdgesOK /\ UpdatesOK
  BY DEF ReachInv, TypeInv
<1>1. /\ At("activate") /\ Return /\ UNCHANGED <<tree, flags, told>>
      /\ ~enabled[t] \/ ~compiled[t] \/ active[t]
  BY DEF ActivateSkips, ActivateFails
<1>2. /\ stack # <<>> /\ t \in Nodes
      /\ \A n, o : Has(n, o) <=> (t = n /\ "activate" = o) \/ Deep(n, o)
      /\ \A p, loop, n : Waits(p, loop, n) <=>
           (t = p /\ "activate" = loop /\ n \in ToSet(Top.rest)) \/ DeepWaits(p, loop, n)
  BY <1>0, <1>1, AtTop DEF Walks
<1>3. /\ TreeInv' /\ FrameInv' /\ OrderInv'
      /\ \A n, op : Has(n, op)' <=> Deep(n, op)
      /\ \A p, loop, n : Waits(p, loop, n)' <=> DeepWaits(p, loop, n)
  BY <1>0, <1>1, <1>2, Returns
<1>4. /\ UNCHANGED <<parent, enabled, active, afterActive, deactivating, compiled, told, interrupted>>
      /\ FlagInv'
  BY <1>0, <1>1 DEF tree, flags, Return, Goto, FlagInv
<1> HIDE DEF t
<1>5. NodesOK'
  BY <1>0, <1>2, <1>3, <1>4 DEF NodesOK, NodeOK, HasTail, IsEnding
<1>6. EdgesOK'
  <2> SUFFICES ASSUME NEW n \in Nodes \ interrupted, NEW p \in Nodes \ interrupted, parent[n] = p
               PROVE  EdgeOK(p, n)'
    BY <1>4 DEF EdgesOK
  <2>1. EdgeOK(p, n)
    BY <1>0 DEF EdgesOK
  <2> QED
    BY <2>1, <1>1, <1>2, <1>3, <1>4 DEF EdgeOK, HasTail, IsEnding
<1>7. UpdatesOK'
  BY <1>0, <1>4 DEF UpdatesOK
<1> QED
  BY <1>3, <1>4, <1>5, <1>6, <1>7 DEF TypeInv, ReachInv

\* activate() keeps it: what is to come sees to the node and its children.
LEMMA ActivateStep ==
  ASSUME TypeInv, ReachInv, Activate
  PROVE  TypeInv' /\ ReachInv'
<1> DEFINE t == Top.node
<1>0. OrderInv /\ FlagInv /\ NodesOK /\ EdgesOK /\ UpdatesOK
  BY DEF ReachInv, TypeInv
<1>1. /\ At("activate") /\ enabled[t] /\ compiled' = [compiled EXCEPT ![t] = TRUE]
      /\ Goto(IF active[t] THEN <<>> ELSE <<Do("_activate", t), Do("activated", t)>>)
      /\ UNCHANGED <<tree, enabled, active, afterActive, deactivating, told>>
  BY DEF Activate
<1>2. /\ stack # <<>> /\ Top.op = "activate" /\ t \in Nodes
      /\ \A n, o : Has(n, o) <=> (t = n /\ "activate" = o) \/ Deep(n, o)
      /\ \A p, loop, n : Waits(p, loop, n) <=>
           (t = p /\ "activate" = loop /\ n \in ToSet(Top.rest)) \/ DeepWaits(p, loop, n)
      /\ \A o : t \notin interrupted /\ Deep(t, o) => Follows("activate", o)
      /\ \A n \in Nodes \ interrupted : parent[n] = t => \A o : ~Deep(n, o)
  BY <1>0, <1>1, AtTop DEF Walks
<1>a. t \notin interrupted => \A o : Deep(t, o) => o \in Hooks
  BY <1>2 DEF Follows, Hooks, Endings
<1>3. /\ TreeInv' /\ FrameInv' /\ OrderInv'
      /\ \A n, op : Has(n, op)' <=> (~active[t] /\ t = n /\ op \in {"_activate", "activated"}) \/ Deep(n, op)
      /\ \A p, n : \A loop \in Loops : Waits(p, loop, n)' <=> DeepWaits(p, loop, n)
  <2>1. CASE active[t]
    <3>1. Return
      BY <1>1, <2>1 DEF Return
    <3> QED
      BY <1>0, <1>1, <1>2, <2>1, <3>1, Returns
  <2>2. CASE ~active[t]
    <3>1. Goto(<<Do("_activate", t), Do("activated", t)>>)
      BY <1>1, <2>2
    <3>2. /\ \A op : Follows(Top.op, op) => Follows("_activate", op) /\ Follows("activated", op)
          /\ Follows("_activate", "activated")
      BY <1>2 DEF Follows, Hooks, Endings
    <3>3. "_activate" \in Plain /\ "activated" \in Plain
      BY DEF Plain, Walks, Loops
    <3>4. /\ TreeInv' /\ FrameInv' /\ OrderInv'
          /\ \A n, op : Has(n, op)' <=> (t = n /\ ("_activate" = op \/ "activated" = op)) \/ Deep(n, op)
          /\ \A p, n : \A loop \in Loops : Waits(p, loop, n)' <=> DeepWaits(p, loop, n)
      BY <1>0, <1>1, <1>2, <3>1, <3>2, <3>3, PutsTwo
    <3> QED
      BY <2>2, <3>4
  <2> QED
    BY <2>1, <2>2
<1>4. /\ UNCHANGED <<parent, enabled, active, afterActive, deactivating, told, interrupted>>
      /\ \A n \in Nodes : compiled'[n] = IF n = t THEN TRUE ELSE compiled[n]
      /\ FlagInv'
  BY <1>0, <1>1 DEF tree, Goto, FlagInv
<1> HIDE DEF t
<1>5. NodesOK'
  <2> SUFFICES ASSUME NEW n \in Nodes \ interrupted PROVE NodeOK(n)'
    BY <1>4 DEF NodesOK
  <2>1. NodeOK(n)
    BY <1>0 DEF NodesOK
  <2>2. CASE n # t
    BY <2>1, <2>2, <1>1, <1>2, <1>3, <1>4 DEF NodeOK, HasTail, IsEnding
  <2>3. CASE n = t
    <3>1. Alone(n)
      BY <2>3, <1>a DEF Alone, Hooks
    <3>2. /\ Has(n, "activated")' <=> ~active[n]
          /\ ~Has(n, "active") /\ ~Has(n, "active")'
          /\ ~Has(n, "deactivated") /\ ~Has(n, "deactivated")'
          /\ ~Has(n, "inactive") /\ ~Has(n, "inactive")'
      BY <2>3, <3>1, <1>2, <1>3 DEF Alone
    <3>3. /\ ~Has(n, "disabled")' /\ ~Has(n, "removed")' /\ ~Has(n, "releaseChildren")'
          /\ ~Has(n, "released")' /\ ~Has(n, "onDestroy")' /\ ~Has(n, "activates")' /\ ~Has(n, "deactivates")'
      BY <2>3, <3>1, <1>2, <1>3 DEF Alone
    <3>4. enabled[n]
      BY <1>1, <2>3
    <3>5. compiled'[n]
      BY <1>2, <1>4, <2>3
    <3> QED
      BY <2>1, <3>2, <3>3, <3>4, <3>5, <1>4 DEF NodeOK, HasTail, IsEnding
  <2> QED
    BY <2>2, <2>3
<1>6. EdgesOK'
  <2> SUFFICES ASSUME NEW n \in Nodes \ interrupted, NEW p \in Nodes \ interrupted, parent[n] = p
               PROVE  EdgeOK(p, n)'
    BY <1>4 DEF EdgesOK
  <2>1. EdgeOK(p, n)
    BY <1>0 DEF EdgesOK
  <2> QED
    BY <2>1, <1>1, <1>2, <1>3, <1>4 DEF EdgeOK, HasTail, IsEnding, Loops
<1>7. UpdatesOK'
  BY <1>0, <1>4 DEF UpdatesOK
<1> QED
  BY <1>3, <1>4, <1>5, <1>6, <1>7 DEF TypeInv, ReachInv

\* activate() after _activate() keeps it: the node is active and its children wait.
LEMMA ActivatedStep ==
  ASSUME TypeInv, ReachInv, Activated
  PROVE  TypeInv' /\ ReachInv'
<1> DEFINE t == Top.node
<1>0. OrderInv /\ FlagInv /\ NodesOK /\ EdgesOK /\ UpdatesOK
  BY DEF ReachInv, TypeInv
<1>1. /\ At("activated") /\ active' = [active EXCEPT ![t] = TRUE]
      /\ Goto(Visit("activate", "activates", "active", t))
      /\ UNCHANGED <<tree, enabled, afterActive, deactivating, compiled, told>>
  BY DEF Activated
<1>2. /\ stack # <<>> /\ Top.op = "activated" /\ t \in Nodes
      /\ \A n, o : Has(n, o) <=> (t = n /\ "activated" = o) \/ Deep(n, o)
      /\ \A p, loop, n : Waits(p, loop, n) <=>
           (t = p /\ "activated" = loop /\ n \in ToSet(Top.rest)) \/ DeepWaits(p, loop, n)
      /\ \A o : t \notin interrupted /\ Deep(t, o) => Follows("activated", o)
      /\ \A n \in Nodes \ interrupted : parent[n] = t => \A o : ~Deep(n, o)
  BY <1>0, <1>1, AtTop DEF Walks
<1>a. t \notin interrupted => \A o : Deep(t, o) => o \in Hooks
  BY <1>2 DEF Follows, Hooks, Endings
<1>b. t \notin Kids(t)
  BY DEF Kids, TypeInv, TreeInv
<1>3. PICK sole \in SUBSET Nodes, many \in BOOLEAN : Visited(sole, many, "activate", "activates", "active")
  <2>1. /\ \A op : Follows(Top.op, op) => Follows("activates", op) /\ Follows("active", op)
        /\ Follows("activates", "active")
    BY <1>2 DEF Follows, Hooks, Endings
  <2>2. "activates" \in Loops
    BY DEF Loops
  <2> QED
    BY <1>0, <1>1, <1>2, <2>1, <2>2, PutsVisit
<1>4. /\ TreeInv' /\ FrameInv' /\ OrderInv'
      /\ (many /\ sole = {}) \/ (~many /\ sole = Kids(t))
      /\ \A n, op : Has(n, op)' <=> \/ t = n /\ (op = "active" \/ (many /\ op = "activates"))
                                    \/ n \in sole /\ op = "activate"
                                    \/ Deep(n, op)
      /\ \A p, n : \A l \in Loops :
           Waits(p, l, n)' <=> (many /\ t = p /\ l = "activates" /\ n \in Kids(p)) \/ DeepWaits(p, l, n)
  BY <1>3 DEF Visited
<1>5. /\ UNCHANGED <<parent, enabled, compiled, afterActive, deactivating, told, interrupted>>
      /\ \A n \in Nodes : active'[n] = IF n = t THEN TRUE ELSE active[n]
      /\ FlagInv'
  BY <1>0, <1>1 DEF tree, Goto, FlagInv
<1> HIDE DEF t
<1>6. NodesOK'
  <2> SUFFICES ASSUME NEW n \in Nodes \ interrupted PROVE NodeOK(n)'
    BY <1>5 DEF NodesOK
  <2>1. NodeOK(n)
    BY <1>0 DEF NodesOK
  <2>2. CASE n # t
    <3>1. n \in sole => ~Has(n, "active")
      BY <2>2, <1>2, <1>4 DEF Kids
    <3> QED
      BY <2>1, <2>2, <3>1, <1>1, <1>2, <1>4, <1>5 DEF NodeOK, HasTail, IsEnding
  <2>3. CASE n = t
    <3>1. n \notin sole /\ Alone(n)
      BY <2>3, <1>4, <1>a, <1>b DEF Alone, Hooks
    <3>2. /\ Has(n, "activated") /\ Has(n, "active")' /\ ~Has(n, "active")
          /\ ~Has(n, "activated")' /\ ~Has(n, "deactivated")' /\ ~Has(n, "inactive")'
          /\ ~Has(n, "disabled")' /\ ~Has(n, "removed")' /\ ~Has(n, "releaseChildren")'
          /\ ~Has(n, "released")' /\ ~Has(n, "onDestroy")' /\ ~Has(n, "deactivates")'
          /\ ~Has(n, "deactivated") /\ ~Has(n, "inactive")
      BY <2>3, <3>1, <1>2, <1>4 DEF Alone
    <3> QED
      BY <2>1, <2>3, <3>2, <1>5 DEF NodeOK, HasTail, IsEnding
  <2> QED
    BY <2>2, <2>3
<1>7. EdgesOK'
  <2> SUFFICES ASSUME NEW n \in Nodes \ interrupted, NEW p \in Nodes \ interrupted, parent[n] = p
               PROVE  EdgeOK(p, n)'
    BY <1>5 DEF EdgesOK
  <2>1. EdgeOK(p, n) /\ NodeOK(n) /\ NodeOK(p)
    BY <1>0 DEF EdgesOK, NodesOK
  <2>2. p # n
    BY <1>4 DEF TypeInv, TreeInv
  <2>3. CASE p = t
    <3>1. Alone(n) /\ Alone(p)
      BY <2>3, <1>2, <1>a DEF Alone, Hooks
    <3>2. /\ n \in sole \/ (many /\ n \in Kids(p))
          /\ n \in sole => Has(n, "activate")'
          /\ many => Waits(p, "activates", n)'
          /\ Has(p, "activated") /\ ~Has(p, "inactive")' /\ ~Has(p, "inactive") /\ ~Has(p, "deactivated")
          /\ ~Has(n, "deactivate")' /\ ~Has(n, "deactivate")
          /\ ~Has(n, "deactivated") /\ ~Has(n, "inactive")
      BY <2>2, <2>3, <3>1, <1>2, <1>4 DEF Alone, Loops, Kids
    <3>3. active'[p] /\ ~deactivating'[p] /\ ~deactivating'[n]
      BY <2>1, <2>3, <3>2, <1>5 DEF NodeOK
    <3> QED
      BY <3>2, <3>3 DEF EdgeOK, IsEnding
  <2>4. CASE n = t
    <3>1. Alone(n) /\ n \notin sole
      BY <2>4, <1>4, <1>a, <1>b DEF Alone, Hooks
    <3>2. /\ Has(n, "activated") /\ ~Has(n, "activated")' /\ ~Has(n, "activate")'
          /\ ~Has(n, "deactivate")' /\ ~Has(n, "deactivated") /\ ~Has(n, "inactive")
          /\ Has(p, "inactive")' <=> Has(p, "inactive")
      BY <2>2, <2>4, <3>1, <1>2, <1>4 DEF Alone
    <3>3. active[p] /\ ~deactivating[p] /\ ~deactivating'[n] /\ active'[n] /\ active'[p]
      BY <2>1, <2>2, <2>4, <3>2, <1>2, <1>5 DEF NodeOK, EdgeOK
    <3>4. ~Has(p, "inactive")
      BY <2>1, <3>3 DEF NodeOK
    <3> QED
      BY <3>2, <3>3, <3>4 DEF EdgeOK, IsEnding
  <2>5. CASE n # t /\ p # t
    BY <2>1, <2>5, <1>1, <1>2, <1>4, <1>5 DEF EdgeOK, HasTail, IsEnding, Loops, Kids
  <2> QED
    BY <2>3, <2>4, <2>5
<1>8. UpdatesOK'
  BY <1>0, <1>5 DEF UpdatesOK
<1> QED
  BY <1>4, <1>5, <1>6, <1>7, <1>8 DEF TypeInv, ReachInv

\* Nor but those that come when the node is inactive, or end its deactivate().
Finishing(n) ==
  /\ ~Deep(n, "activate") /\ ~Deep(n, "activated") /\ ~Deep(n, "activates") /\ ~Deep(n, "active")
  /\ ~Deep(n, "deactivate") /\ ~Deep(n, "deactivated") /\ ~Deep(n, "deactivates")
  /\ ~Deep(n, "released")

\* activate() after the children keeps it: the updates of the node start.
LEMMA AfterActivateStep ==
  ASSUME TypeInv, ReachInv, AfterActivate
  PROVE  TypeInv' /\ ReachInv'
<1> DEFINE t == Top.node
<1>0. OrderInv /\ FlagInv /\ NodesOK /\ EdgesOK /\ UpdatesOK
  BY DEF ReachInv, TypeInv
<1>1. /\ At("active") /\ afterActive' = [afterActive EXCEPT ![t] = @ \/ active[t]]
      /\ Goto(IF active[t] THEN <<Do("_afterActivate", t)>> ELSE <<>>)
      /\ told' = IF active[t] THEN told \cup {t} ELSE told
      /\ UNCHANGED <<tree, enabled, active, deactivating, compiled>>
  BY DEF AfterActivate
<1>2. /\ stack # <<>> /\ Top.op = "active" /\ t \in Nodes
      /\ \A n, o : Has(n, o) <=> (t = n /\ "active" = o) \/ Deep(n, o)
      /\ \A p, loop, n : Waits(p, loop, n) <=>
           (t = p /\ "active" = loop /\ n \in ToSet(Top.rest)) \/ DeepWaits(p, loop, n)
      /\ \A o : t \notin interrupted /\ Deep(t, o) => Follows("active", o)
      /\ \A n \in Nodes \ interrupted : parent[n] = t => \A o : ~Deep(n, o)
  BY <1>0, <1>1, AtTop DEF Walks
<1>a. t \notin interrupted => Alone(t)
  BY <1>2 DEF Follows, Hooks, Endings, Alone
<1>3. /\ TreeInv' /\ FrameInv' /\ OrderInv'
      /\ \A n, op : Has(n, op)' <=> (active[t] /\ t = n /\ op = "_afterActivate") \/ Deep(n, op)
      /\ \A p, n : \A loop \in Loops : Waits(p, loop, n)' <=> DeepWaits(p, loop, n)
  <2>1. CASE active[t]
    <3>1. Goto(<<Do("_afterActivate", t)>>)
      BY <1>1, <2>1
    <3>2. \A op : Follows(Top.op, op) => Follows("_afterActivate", op)
      BY DEF Follows, Hooks
    <3>3. "_afterActivate" \in Plain
      BY DEF Plain, Walks, Loops
    <3>4. /\ TreeInv' /\ FrameInv' /\ OrderInv'
          /\ \A n, op : Has(n, op)' <=> (t = n /\ "_afterActivate" = op) \/ Deep(n, op)
          /\ \A p, n : \A loop \in Loops : Waits(p, loop, n)' <=> DeepWaits(p, loop, n)
      BY <1>0, <1>1, <1>2, <3>1, <3>2, <3>3, PutsOne
    <3> QED
      BY <2>1, <3>4
  <2>2. CASE ~active[t]
    <3>1. Return
      BY <1>1, <2>2 DEF Return
    <3> QED
      BY <1>0, <1>1, <1>2, <2>2, <3>1, Returns
  <2> QED
    BY <2>1, <2>2
<1>4. /\ UNCHANGED <<parent, enabled, active, deactivating, compiled, interrupted>>
      /\ \A n \in Nodes : afterActive'[n] <=> afterActive[n] \/ (n = t /\ active[t])
      /\ \A n \in Nodes : n \in told' <=> n \in told \/ (n = t /\ active[t])
      /\ FlagInv'
  <2>1. /\ afterActive' \in [Nodes -> BOOLEAN] /\ told' \subseteq Nodes
        /\ \A n \in Nodes : afterActive'[n] = IF n = t THEN afterActive[t] \/ active[t] ELSE afterActive[n]
    BY <1>0, <1>1, <1>2 DEF FlagInv
  <2>2. UNCHANGED <<parent, enabled, active, deactivating, compiled, interrupted, nested>>
    BY <1>1 DEF tree, Goto
  <2> QED
    BY <1>0, <1>1, <2>1, <2>2 DEF FlagInv
<1> HIDE DEF t
<1>5. NodesOK'
  <2> SUFFICES ASSUME NEW n \in Nodes \ interrupted PROVE NodeOK(n)'
    BY <1>4 DEF NodesOK
  <2>1. NodeOK(n)
    BY <1>0 DEF NodesOK
  <2>2. CASE n # t
    BY <2>1, <2>2, <1>1, <1>2, <1>3, <1>4 DEF NodeOK, HasTail, IsEnding
  <2>3. CASE n = t
    <3>1. Alone(n)
      BY <1>a, <2>3
    <3>2. /\ Has(n, "active") /\ ~Has(n, "active")' /\ ~Has(n, "activated")'
          /\ ~Has(n, "deactivated") /\ ~Has(n, "deactivated")' /\ ~Has(n, "inactive") /\ ~Has(n, "inactive")'
          /\ ~Has(n, "disabled")' /\ ~Has(n, "removed")' /\ ~Has(n, "releaseChildren")'
          /\ ~Has(n, "released")' /\ ~Has(n, "onDestroy")' /\ ~Has(n, "activates")' /\ ~Has(n, "deactivates")'
      BY <2>3, <3>1, <1>2, <1>3 DEF Alone
    <3> QED
      BY <2>1, <2>3, <3>2, <1>4 DEF NodeOK, HasTail, IsEnding
  <2> QED
    BY <2>2, <2>3
<1>6. EdgesOK'
  <2> SUFFICES ASSUME NEW n \in Nodes \ interrupted, NEW p \in Nodes \ interrupted, parent[n] = p
               PROVE  EdgeOK(p, n)'
    BY <1>4 DEF EdgesOK
  <2>1. EdgeOK(p, n) /\ NodeOK(n) /\ NodeOK(p)
    BY <1>0 DEF EdgesOK, NodesOK
  <2> QED
    BY <2>1, <1>2, <1>3, <1>4 DEF EdgeOK, HasTail, IsEnding, Loops
<1>7. UpdatesOK'
  BY <1>0, <1>2, <1>4 DEF UpdatesOK
<1> QED
  BY <1>3, <1>4, <1>5, <1>6, <1>7 DEF TypeInv, ReachInv

------------------------------------------------------------------------------
(* The steps of deactivate() *)

\* deactivate() of an inactive node keeps it.
LEMMA DeactivateReturns ==
  ASSUME TypeInv, ReachInv, DeactivateSkips
  PROVE  TypeInv' /\ ReachInv'
<1> DEFINE t == Top.node
<1>0. OrderInv /\ FlagInv /\ NodesOK /\ EdgesOK /\ UpdatesOK
  BY DEF ReachInv, TypeInv
<1>1. /\ At("deactivate") /\ (~active[t] \/ deactivating[t])
      /\ Return /\ UNCHANGED <<tree, flags, told>>
  BY DEF DeactivateSkips
<1>2. /\ stack # <<>> /\ Top.op = "deactivate" /\ t \in Nodes
      /\ \A n, o : Has(n, o) <=> (t = n /\ "deactivate" = o) \/ Deep(n, o)
      /\ \A p, loop, n : Waits(p, loop, n) <=>
           (t = p /\ "deactivate" = loop /\ n \in ToSet(Top.rest)) \/ DeepWaits(p, loop, n)
      /\ \A o : t \notin interrupted /\ Deep(t, o) => Follows("deactivate", o)
      /\ \A n \in Nodes \ interrupted : parent[n] = t => \A o : ~Deep(n, o)
  BY <1>0, <1>1, AtTop DEF Walks
<1>3. /\ TreeInv' /\ FrameInv' /\ OrderInv'
      /\ \A n, op : Has(n, op)' <=> Deep(n, op)
      /\ \A p, n : \A loop \in Loops : Waits(p, loop, n)' <=> DeepWaits(p, loop, n)
  BY <1>0, <1>1, <1>2, Returns
<1>4. /\ UNCHANGED <<parent, enabled, active, afterActive, deactivating, compiled, told, interrupted>>
      /\ FlagInv'
  BY <1>0, <1>1 DEF tree, flags, Return, Goto, FlagInv
<1> HIDE DEF t
<1>5. NodesOK'
  <2> SUFFICES ASSUME NEW n \in Nodes \ interrupted PROVE NodeOK(n)'
    BY <1>4 DEF NodesOK
  <2>1. NodeOK(n)
    BY <1>0 DEF NodesOK
  <2> QED
    BY <2>1, <1>1, <1>2, <1>3, <1>4 DEF NodeOK, HasTail, IsEnding
<1>6. EdgesOK'
  <2> SUFFICES ASSUME NEW n \in Nodes \ interrupted, NEW p \in Nodes \ interrupted, parent[n] = p
               PROVE  EdgeOK(p, n)'
    BY <1>4 DEF EdgesOK
  <2>1. EdgeOK(p, n) /\ NodeOK(n) /\ NodeOK(p)
    BY <1>0 DEF EdgesOK, NodesOK
  <2> QED
    BY <2>1, <1>1, <1>2, <1>3, <1>4 DEF EdgeOK, HasTail, IsEnding, Loops
<1>7. UpdatesOK'
  BY <1>0, <1>2, <1>4 DEF UpdatesOK
<1> QED
  BY <1>3, <1>4, <1>5, <1>6, <1>7 DEF TypeInv, ReachInv

\* deactivate() keeps it: the updates of the node end first.
LEMMA DeactivateStep ==
  ASSUME TypeInv, ReachInv, Deactivate
  PROVE  TypeInv' /\ ReachInv'
<1> DEFINE t == Top.node
<1>0. OrderInv /\ FlagInv /\ NodesOK /\ EdgesOK /\ UpdatesOK
  BY DEF ReachInv, TypeInv
<1>1. /\ At("deactivate") /\ active[t] /\ ~deactivating[t]
      /\ deactivating' = [deactivating EXCEPT ![t] = TRUE]
      /\ afterActive' = [afterActive EXCEPT ![t] = FALSE]
      /\ told' = told \ {t}
      /\ Goto(<<Do("_deactivate", t), Do("deactivated", t)>>)
      /\ UNCHANGED <<tree, enabled, active, compiled>>
  BY DEF Deactivate
<1>2. /\ stack # <<>> /\ Top.op = "deactivate" /\ t \in Nodes
      /\ \A n, o : Has(n, o) <=> (t = n /\ "deactivate" = o) \/ Deep(n, o)
      /\ \A p, loop, n : Waits(p, loop, n) <=>
           (t = p /\ "deactivate" = loop /\ n \in ToSet(Top.rest)) \/ DeepWaits(p, loop, n)
      /\ \A o : t \notin interrupted /\ Deep(t, o) => Follows("deactivate", o)
      /\ \A n \in Nodes \ interrupted : parent[n] = t => \A o : ~Deep(n, o)
  BY <1>0, <1>1, AtTop DEF Walks
<1>a. t \notin interrupted => Finishing(t) /\ ~Deep(t, "inactive")
  BY <1>2 DEF Follows, Hooks, Endings, Tails, Later, Finishing
<1>3. /\ TreeInv' /\ FrameInv' /\ OrderInv'
      /\ \A n, op : Has(n, op)' <=> (t = n /\ ("_deactivate" = op \/ "deactivated" = op)) \/ Deep(n, op)
      /\ \A p, n : \A loop \in Loops : Waits(p, loop, n)' <=> DeepWaits(p, loop, n)
  <2>1. /\ \A op : Follows(Top.op, op) => Follows("_deactivate", op) /\ Follows("deactivated", op)
        /\ Follows("_deactivate", "deactivated")
    BY <1>2 DEF Follows, Hooks, Endings
  <2>2. "_deactivate" \in Plain /\ "deactivated" \in Plain
    BY DEF Plain, Walks, Loops
  <2> QED
    BY <1>0, <1>1, <1>2, <2>1, <2>2, PutsTwo
<1>4. /\ UNCHANGED <<parent, enabled, active, compiled, interrupted>>
      /\ \A n \in Nodes : deactivating'[n] = IF n = t THEN TRUE ELSE deactivating[n]
      /\ \A n \in Nodes : afterActive'[n] = IF n = t THEN FALSE ELSE afterActive[n]
      /\ \A n \in Nodes : n \in told' <=> n \in told /\ n # t
      /\ FlagInv'
  <2>1. /\ deactivating' \in [Nodes -> BOOLEAN] /\ afterActive' \in [Nodes -> BOOLEAN] /\ told' \subseteq Nodes
        /\ \A n \in Nodes : deactivating'[n] = IF n = t THEN TRUE ELSE deactivating[n]
        /\ \A n \in Nodes : afterActive'[n] = IF n = t THEN FALSE ELSE afterActive[n]
        /\ \A n \in Nodes : n \in told' <=> n \in told /\ n # t
    BY <1>0, <1>1, <1>2 DEF FlagInv
  <2>2. UNCHANGED <<parent, enabled, active, compiled, interrupted, nested>>
    BY <1>1 DEF tree, Goto
  <2>3. FlagInv'
    BY <1>0, <2>1, <2>2 DEF FlagInv
  <2> QED
    BY <2>1, <2>2, <2>3
<1> HIDE DEF t
<1>5. NodesOK'
  <2> SUFFICES ASSUME NEW n \in Nodes \ interrupted PROVE NodeOK(n)'
    BY <1>4 DEF NodesOK
  <2>1. NodeOK(n)
    BY <1>0 DEF NodesOK
  <2>2. CASE n # t
    BY <2>1, <2>2, <1>1, <1>2, <1>3, <1>4 DEF NodeOK, HasTail, IsEnding
  <2>3. CASE n = t
    <3>1. Finishing(n) /\ ~Deep(n, "inactive")
      BY <1>a, <2>3
    <3>2. /\ Has(n, "deactivated")' /\ ~Has(n, "active")' /\ ~Has(n, "activated")' /\ deactivating'[n]
          /\ ~Has(n, "activates")' /\ ~Has(n, "deactivates")'
      BY <2>3, <3>1, <1>3, <1>4 DEF Finishing
    <3> QED
      BY <2>1, <2>3, <3>2, <1>1, <1>4 DEF NodeOK, IsEnding
  <2> QED
    BY <2>2, <2>3
<1>6. EdgesOK'
  <2> SUFFICES ASSUME NEW n \in Nodes \ interrupted, NEW p \in Nodes \ interrupted, parent[n] = p
               PROVE  EdgeOK(p, n)'
    BY <1>4 DEF EdgesOK
  <2>1. EdgeOK(p, n) /\ NodeOK(n) /\ NodeOK(p)
    BY <1>0 DEF EdgesOK, NodesOK
  <2>2. p # n
    BY <1>4 DEF TypeInv, TreeInv
  <2>3. CASE p = t
    <3>1. ~Deep(n, "activate") /\ ~Deep(n, "activated") /\ ~Deep(p, "inactive")
      BY <2>3, <1>a, <1>2
    <3>2. ~Has(n, "activate")' /\ ~Has(n, "activated")' /\ ~Has(p, "inactive")'
      BY <2>3, <3>1, <1>3
    <3>3. active'[p] /\ deactivating'[p]
      BY <2>3, <1>1, <1>4
    <3> QED
      BY <3>2, <3>3 DEF EdgeOK
  <2>4. CASE n = t
    <3>1. Finishing(n)
      BY <2>4, <1>a
    <3>2. /\ ~Has(n, "activate")' /\ ~Has(n, "activated")'
          /\ Has(n, "deactivate") /\ (HasTail(n) => HasTail(n)')
      BY <2>4, <3>1, <1>2, <1>3 DEF HasTail, Finishing
    <3>3. active'[n] /\ deactivating'[n]
      BY <2>4, <1>1, <1>4
    <3>4. active'[p] = active[p] /\ deactivating'[p] = deactivating[p]
      BY <2>2, <2>4, <1>4
    <3>5. ~active[p] \/ deactivating[p] \/ HasTail(n)
      BY <2>1, <3>2 DEF EdgeOK, IsEnding
    <3> QED
      BY <3>2, <3>3, <3>4, <3>5 DEF EdgeOK, IsEnding
  <2>5. CASE n # t /\ p # t
    BY <2>1, <2>5, <1>2, <1>3, <1>4 DEF EdgeOK, HasTail, IsEnding, Loops
  <2> QED
    BY <2>3, <2>4, <2>5
<1>7. UpdatesOK'
  BY <1>0, <1>2, <1>4 DEF UpdatesOK
<1> QED
  BY <1>3, <1>4, <1>5, <1>6, <1>7 DEF TypeInv, ReachInv

\* deactivate() after _deactivate() keeps it: the children wait for their turn.
LEMMA DeactivatedStep ==
  ASSUME TypeInv, ReachInv, Deactivated
  PROVE  TypeInv' /\ ReachInv'
<1> DEFINE t == Top.node
<1>0. OrderInv /\ FlagInv /\ NodesOK /\ EdgesOK /\ UpdatesOK
  BY DEF ReachInv, TypeInv
<1>1. /\ At("deactivated") /\ Goto(Visit("deactivate", "deactivates", "inactive", t))
      /\ UNCHANGED <<tree, flags, told>>
  BY DEF Deactivated
<1>2. /\ stack # <<>> /\ Top.op = "deactivated" /\ t \in Nodes
      /\ \A n, o : Has(n, o) <=> (t = n /\ "deactivated" = o) \/ Deep(n, o)
      /\ \A p, loop, n : Waits(p, loop, n) <=>
           (t = p /\ "deactivated" = loop /\ n \in ToSet(Top.rest)) \/ DeepWaits(p, loop, n)
      /\ \A o : t \notin interrupted /\ Deep(t, o) => Follows("deactivated", o)
      /\ \A n \in Nodes \ interrupted : parent[n] = t => \A o : ~Deep(n, o)
  BY <1>0, <1>1, AtTop DEF Walks
<1>a. t \notin interrupted => Finishing(t) /\ ~Deep(t, "inactive")
  BY <1>2 DEF Follows, Hooks, Endings, Tails, Later, Finishing
<1>b. t \notin Kids(t)
  BY DEF Kids, TypeInv, TreeInv
<1>c. PICK sole \in SUBSET Nodes, many \in BOOLEAN : Visited(sole, many, "deactivate", "deactivates", "inactive")
  <2>1. /\ \A op : Follows(Top.op, op) => Follows("deactivates", op) /\ Follows("inactive", op)
        /\ Follows("deactivates", "inactive")
    BY <1>2 DEF Follows, Hooks, Endings
  <2>2. "deactivates" \in Loops
    BY DEF Loops
  <2> QED
    BY <1>0, <1>1, <1>2, <2>1, <2>2, PutsVisit
<1>3. /\ TreeInv' /\ FrameInv' /\ OrderInv'
      /\ (many /\ sole = {}) \/ (~many /\ sole = Kids(t))
      /\ \A n, op : Has(n, op)' <=> \/ t = n /\ (op = "inactive" \/ (many /\ op = "deactivates"))
                                    \/ n \in sole /\ op = "deactivate"
                                    \/ Deep(n, op)
      /\ \A p, n : \A l \in Loops :
           Waits(p, l, n)' <=> (many /\ t = p /\ l = "deactivates" /\ n \in Kids(p)) \/ DeepWaits(p, l, n)
  BY <1>c DEF Visited
<1>4. /\ UNCHANGED <<parent, enabled, active, afterActive, deactivating, compiled, told, interrupted>>
      /\ FlagInv'
  BY <1>0, <1>1 DEF tree, flags, Return, Goto, FlagInv
<1> HIDE DEF t
<1>5. NodesOK'
  <2> SUFFICES ASSUME NEW n \in Nodes \ interrupted PROVE NodeOK(n)'
    BY <1>4 DEF NodesOK
  <2>1. NodeOK(n)
    BY <1>0 DEF NodesOK
  <2>2. CASE n # t
    BY <2>1, <2>2, <1>1, <1>2, <1>3, <1>4 DEF NodeOK, HasTail, IsEnding
  <2>3. CASE n = t
    <3>1. Finishing(n) /\ ~Deep(n, "inactive") /\ n \notin sole
      BY <2>3, <1>a, <1>b, <1>3
    <3>2. /\ Has(n, "deactivated") /\ Has(n, "inactive")' /\ ~Has(n, "active") /\ ~Has(n, "active")'
          /\ ~Has(n, "activated")' /\ ~Has(n, "activates")'
      BY <2>3, <3>1, <1>2, <1>3 DEF Finishing
    <3>3. deactivating[n] /\ active[n]
      BY <2>1, <3>2 DEF NodeOK
    <3> QED
      BY <2>1, <3>2, <3>3, <1>4 DEF NodeOK, IsEnding
  <2> QED
    BY <2>2, <2>3
<1>6. EdgesOK'
  <2> SUFFICES ASSUME NEW n \in Nodes \ interrupted, NEW p \in Nodes \ interrupted, parent[n] = p
               PROVE  EdgeOK(p, n)'
    BY <1>4 DEF EdgesOK
  <2>1. EdgeOK(p, n) /\ NodeOK(n) /\ NodeOK(p)
    BY <1>0 DEF EdgesOK, NodesOK
  <2>2. p # n
    BY <1>4 DEF TypeInv, TreeInv
  <2>3. CASE p = t
    <3>1. /\ ~Deep(n, "activate") /\ ~Deep(n, "activated") /\ n \in Kids(p)
      BY <2>3, <1>2 DEF Kids
    <3>2. ~Has(n, "activate")' /\ ~Has(n, "activated")' /\ Has(p, "deactivated")
      BY <2>2, <2>3, <3>1, <1>2, <1>3
    <3>3. Has(n, "deactivate")' \/ Waits(p, "deactivates", n)'
      BY <2>3, <3>1, <1>3 DEF Loops
    <3>4. deactivating'[p] /\ active'[p]
      BY <2>1, <3>2, <1>4 DEF NodeOK
    <3> QED
      BY <3>2, <3>3, <3>4 DEF EdgeOK, IsEnding
  <2>4. CASE n = t
    <3>1. Finishing(n) /\ n \notin sole
      BY <2>4, <1>3, <1>a, <1>b
    <3>2. /\ ~Has(n, "activate")' /\ ~Has(n, "activated")' /\ Has(n, "deactivated")
          /\ HasTail(n) => HasTail(n)'
      BY <2>4, <3>1, <1>2, <1>3 DEF HasTail, Finishing
    <3>3. active'[n] /\ deactivating'[n] /\ deactivating[n]
      BY <2>1, <3>2, <1>4 DEF NodeOK
    <3>4. ~active[p] \/ deactivating[p] \/ HasTail(n)
      BY <2>1, <3>3 DEF EdgeOK, IsEnding
    <3> QED
      BY <3>2, <3>3, <3>4, <1>4 DEF EdgeOK, IsEnding
  <2>5. CASE n # t /\ p # t
    BY <2>1, <2>5, <1>2, <1>3, <1>4 DEF EdgeOK, HasTail, IsEnding, Loops, Kids
  <2> QED
    BY <2>3, <2>4, <2>5
<1>7. UpdatesOK'
  BY <1>0, <1>2, <1>4 DEF UpdatesOK
<1> QED
  BY <1>3, <1>4, <1>5, <1>6, <1>7 DEF TypeInv, ReachInv

\* deactivate() after the children keeps it: all of them are inactive.
LEMMA AfterDeactivateStep ==
  ASSUME TypeInv, ReachInv, AfterDeactivate
  PROVE  TypeInv' /\ ReachInv'
<1> DEFINE t == Top.node
<1>0. OrderInv /\ FlagInv /\ NodesOK /\ EdgesOK /\ UpdatesOK
  BY DEF ReachInv, TypeInv
<1>1. /\ At("inactive")
      /\ active' = [active EXCEPT ![t] = FALSE]
      /\ deactivating' = [deactivating EXCEPT ![t] = FALSE]
      /\ Goto(<<Do("_afterDeactivate", t)>>)
      /\ UNCHANGED <<tree, enabled, afterActive, compiled, told>>
  BY DEF AfterDeactivate
<1>2. /\ stack # <<>> /\ Top.op = "inactive" /\ t \in Nodes
      /\ \A n, o : Has(n, o) <=> (t = n /\ "inactive" = o) \/ Deep(n, o)
      /\ \A p, loop, n : Waits(p, loop, n) <=>
           (t = p /\ "inactive" = loop /\ n \in ToSet(Top.rest)) \/ DeepWaits(p, loop, n)
      /\ \A o : t \notin interrupted /\ Deep(t, o) => Follows("inactive", o)
      /\ \A n \in Nodes \ interrupted : parent[n] = t => \A o : ~Deep(n, o)
  BY <1>0, <1>1, AtTop DEF Walks
<1>a. t \notin interrupted => Finishing(t) /\ ~Deep(t, "inactive")
  BY <1>2 DEF Follows, Hooks, Endings, Tails, Later, Finishing
<1>3. /\ TreeInv' /\ FrameInv' /\ OrderInv'
      /\ \A n, op : Has(n, op)' <=> (t = n /\ "_afterDeactivate" = op) \/ Deep(n, op)
      /\ \A p, n : \A loop \in Loops : Waits(p, loop, n)' <=> DeepWaits(p, loop, n)
  <2>1. \A op : Follows(Top.op, op) => Follows("_afterDeactivate", op)
    BY DEF Follows, Hooks
  <2>2. "_afterDeactivate" \in Plain
    BY DEF Plain, Walks, Loops
  <2> QED
    BY <1>0, <1>1, <1>2, <2>1, <2>2, PutsOne
<1>4. /\ UNCHANGED <<parent, enabled, compiled, afterActive, told, interrupted>>
      /\ \A n \in Nodes : deactivating'[n] = IF n = t THEN FALSE ELSE deactivating[n]
      /\ \A n \in Nodes : active'[n] = IF n = t THEN FALSE ELSE active[n]
      /\ FlagInv'
  <2>1. /\ deactivating' \in [Nodes -> BOOLEAN] /\ active' \in [Nodes -> BOOLEAN]
        /\ \A n \in Nodes : deactivating'[n] = IF n = t THEN FALSE ELSE deactivating[n]
        /\ \A n \in Nodes : active'[n] = IF n = t THEN FALSE ELSE active[n]
    BY <1>0, <1>1, <1>2 DEF FlagInv
  <2>2. UNCHANGED <<parent, enabled, compiled, afterActive, told, interrupted, nested>>
    BY <1>1 DEF tree, Goto
  <2>3. FlagInv'
    BY <1>0, <2>1, <2>2 DEF FlagInv
  <2> QED
    BY <2>1, <2>2, <2>3
<1> HIDE DEF t
<1>5. NodesOK'
  <2> SUFFICES ASSUME NEW n \in Nodes \ interrupted PROVE NodeOK(n)'
    BY <1>4 DEF NodesOK
  <2>1. NodeOK(n)
    BY <1>0 DEF NodesOK
  <2>2. CASE n # t
    BY <2>1, <2>2, <1>1, <1>2, <1>3, <1>4 DEF NodeOK, HasTail, IsEnding
  <2>3. CASE n = t
    <3>1. Finishing(n) /\ ~Deep(n, "inactive")
      BY <2>3, <1>a
    <3>2. /\ Has(n, "inactive") /\ ~Has(n, "inactive")' /\ ~Has(n, "deactivated")' /\ ~Has(n, "active")'
          /\ ~Has(n, "activated")' /\ ~Has(n, "activates")' /\ ~Has(n, "deactivates")'
      BY <2>3, <3>1, <1>2, <1>3 DEF Finishing
    <3>3. n \notin told' /\ ~active'[n] /\ ~deactivating'[n]
      BY <2>1, <2>3, <3>2, <1>4 DEF NodeOK
    <3> QED
      BY <3>2, <3>3 DEF NodeOK
  <2> QED
    BY <2>2, <2>3
<1>6. EdgesOK'
  <2> SUFFICES ASSUME NEW n \in Nodes \ interrupted, NEW p \in Nodes \ interrupted, parent[n] = p
               PROVE  EdgeOK(p, n)'
    BY <1>4 DEF EdgesOK
  <2>1. EdgeOK(p, n) /\ NodeOK(n) /\ NodeOK(p)
    BY <1>0 DEF EdgesOK, NodesOK
  <2>2. p # n
    BY <1>4 DEF TypeInv, TreeInv
  <2>3. CASE p = t
    <3>1. /\ ~Deep(n, "activate") /\ ~Deep(n, "activated") /\ ~Deep(n, "deactivate")
          /\ Finishing(p) /\ ~Deep(p, "inactive")
      BY <2>3, <1>2, <1>a
    <3>2. /\ ~Has(n, "activate")' /\ ~Has(n, "activated")' /\ ~Has(n, "deactivate")
          /\ Has(p, "inactive") /\ ~Has(p, "inactive")'
      BY <2>2, <2>3, <3>1, <1>2, <1>3
    <3>3. ~Waits(p, "deactivates", n)
      BY <2>3, <3>1, <1>2 DEF Deep, DeepWaits, In, Left, Finishing
    <3>4. active[n] => deactivating[n]
      BY <2>1, <3>2, <3>3 DEF EdgeOK, IsEnding
    <3>5. ~active'[p] /\ active'[n] = active[n] /\ deactivating'[n] = deactivating[n]
      BY <2>2, <2>3, <1>4
    <3> QED
      BY <3>2, <3>4, <3>5 DEF EdgeOK, IsEnding
  <2>4. CASE n = t
    <3>1. Finishing(n)
      BY <2>4, <1>a
    <3>2. /\ ~Has(n, "activate")' /\ ~Has(n, "activated")' /\ ~Has(n, "deactivate")' /\ Has(n, "inactive")
          /\ HasTail(n) => HasTail(n)'
      BY <2>4, <3>1, <1>2, <1>3 DEF HasTail, Finishing
    <3>3. deactivating[n] /\ ~active'[n] /\ ~deactivating'[n]
      BY <2>1, <2>4, <3>2, <1>4 DEF NodeOK
    <3>4. ~active[p] \/ deactivating[p] \/ HasTail(n)
      BY <2>1, <3>3 DEF EdgeOK, IsEnding
    <3>5. active'[p] = active[p] /\ deactivating'[p] = deactivating[p]
      BY <2>2, <2>4, <1>4
    <3> QED
      BY <3>2, <3>3, <3>4, <3>5 DEF EdgeOK, IsEnding
  <2>5. CASE n # t /\ p # t
    BY <2>1, <2>5, <1>2, <1>3, <1>4 DEF EdgeOK, HasTail, IsEnding, Loops
  <2> QED
    BY <2>3, <2>4, <2>5
<1>7. UpdatesOK'
  BY <1>0, <1>2, <1>4 DEF UpdatesOK
<1> QED
  BY <1>3, <1>4, <1>5, <1>6, <1>7 DEF TypeInv, ReachInv

------------------------------------------------------------------------------
(* The ends of disable() and release() *)

\* disable() after the walk keeps it.
LEMMA DisabledStep ==
  ASSUME TypeInv, ReachInv, Disabled
  PROVE  TypeInv' /\ ReachInv'
<1> DEFINE t == Top.node
<1>0. OrderInv /\ FlagInv /\ NodesOK /\ EdgesOK /\ UpdatesOK
  BY DEF ReachInv, TypeInv
<1>1. /\ At("disabled") /\ enabled' = [enabled EXCEPT ![t] = FALSE] /\ Return
      /\ UNCHANGED <<tree, active, afterActive, deactivating, compiled, told>>
  BY DEF Disabled
<1>2. /\ stack # <<>> /\ Top.op = "disabled" /\ t \in Nodes
      /\ \A n, o : Has(n, o) <=> (t = n /\ "disabled" = o) \/ Deep(n, o)
      /\ \A p, loop, n : Waits(p, loop, n) <=>
           (t = p /\ "disabled" = loop /\ n \in ToSet(Top.rest)) \/ DeepWaits(p, loop, n)
      /\ \A o : t \notin interrupted /\ Deep(t, o) => Follows("disabled", o)
      /\ \A n \in Nodes \ interrupted : parent[n] = t => \A o : ~Deep(n, o)
  BY <1>0, <1>1, AtTop DEF Walks
<1>a. t \notin interrupted => Finishing(t) /\ ~Deep(t, "inactive")
  BY <1>2 DEF Follows, Hooks, Endings, Later, Finishing
<1>3. /\ TreeInv' /\ FrameInv' /\ OrderInv'
      /\ \A n, op : Has(n, op)' <=> Deep(n, op)
      /\ \A p, n : \A loop \in Loops : Waits(p, loop, n)' <=> DeepWaits(p, loop, n)
  BY <1>0, <1>1, <1>2, Returns
<1>4. /\ UNCHANGED <<parent, active, afterActive, deactivating, compiled, told, interrupted>>
      /\ \A n \in Nodes : enabled'[n] = IF n = t THEN FALSE ELSE enabled[n]
      /\ FlagInv'
  <2>1. /\ enabled' \in [Nodes -> BOOLEAN]
        /\ \A n \in Nodes : enabled'[n] = IF n = t THEN FALSE ELSE enabled[n]
    BY <1>0, <1>1, <1>2 DEF FlagInv
  <2>2. UNCHANGED <<parent, active, afterActive, deactivating, compiled, told, interrupted, nested>>
    BY <1>1 DEF tree, Return, Goto
  <2>3. FlagInv'
    BY <1>0, <2>1, <2>2 DEF FlagInv
  <2> QED
    BY <2>1, <2>2, <2>3
<1> HIDE DEF t
<1>b. ASSUME NEW n \in Nodes \ interrupted, n = t
      PROVE  /\ ~active[n] /\ ~IsEnding(n) /\ ~Has(n, "activated")' /\ ~Has(n, "active")'
             /\ ~Has(n, "deactivated")' /\ ~Has(n, "inactive")' /\ ~Has(n, "activates")'
             /\ ~Has(n, "deactivates")' /\ ~Has(n, "activate")' /\ ~Has(n, "deactivate")'
  <2>1. Finishing(n) /\ ~Deep(n, "inactive") /\ NodeOK(n)
    BY <1>0, <1>2, <1>a, <1>b DEF NodesOK
  <2>2. /\ ~Has(n, "activated")' /\ ~Has(n, "active")' /\ ~Has(n, "deactivated")' /\ ~Has(n, "inactive")'
        /\ ~Has(n, "deactivates")' /\ ~Has(n, "activates")' /\ ~Has(n, "activate")' /\ ~Has(n, "deactivate")'
        /\ ~Has(n, "deactivate") /\ ~Has(n, "deactivated") /\ ~Has(n, "inactive") /\ Has(n, "disabled")
    BY <2>1, <1>b, <1>2, <1>3 DEF Finishing
  <2>3. ~IsEnding(n) /\ ~active[n]
    BY <2>1, <2>2 DEF NodeOK, IsEnding, HasTail
  <2> QED
    BY <2>2, <2>3
<1>5. NodesOK'
  <2> SUFFICES ASSUME NEW n \in Nodes \ interrupted PROVE NodeOK(n)'
    BY <1>4 DEF NodesOK
  <2>1. NodeOK(n)
    BY <1>0 DEF NodesOK
  <2>2. CASE n # t
    BY <2>1, <2>2, <1>1, <1>2, <1>3, <1>4 DEF NodeOK, HasTail, IsEnding
  <2>3. CASE n = t
    BY <2>1, <2>3, <1>b, <1>4 DEF NodeOK, IsEnding
  <2> QED
    BY <2>2, <2>3
<1>6. EdgesOK'
  <2> SUFFICES ASSUME NEW n \in Nodes \ interrupted, NEW p \in Nodes \ interrupted, parent[n] = p
               PROVE  EdgeOK(p, n)'
    BY <1>4 DEF EdgesOK
  <2>1. EdgeOK(p, n) /\ NodeOK(n) /\ NodeOK(p)
    BY <1>0 DEF EdgesOK, NodesOK
  <2>2. p # n
    BY <1>4 DEF TypeInv, TreeInv
  <2>3. CASE n = t
    BY <2>1, <2>2, <2>3, <1>b, <1>4 DEF EdgeOK, IsEnding
  <2>4. CASE n # t
    BY <2>1, <2>2, <2>4, <1>2, <1>3, <1>4 DEF EdgeOK, HasTail, IsEnding, Loops
  <2> QED
    BY <2>3, <2>4
<1>7. UpdatesOK'
  BY <1>0, <1>2, <1>4 DEF UpdatesOK
<1> QED
  BY <1>3, <1>4, <1>5, <1>6, <1>7 DEF TypeInv, ReachInv

\* release() after its walks keeps it.
LEMMA ReleasedStep ==
  ASSUME TypeInv, ReachInv, Released
  PROVE  TypeInv' /\ ReachInv'
<1> DEFINE t == Top.node
<1>0. OrderInv /\ FlagInv /\ NodesOK /\ EdgesOK /\ UpdatesOK
  BY DEF ReachInv, TypeInv
<1>1. /\ At("released") /\ compiled' = [compiled EXCEPT ![t] = FALSE] /\ Return
      /\ UNCHANGED <<tree, enabled, active, afterActive, deactivating, told>>
  BY DEF Released
<1>2. /\ stack # <<>> /\ Top.op = "released" /\ t \in Nodes
      /\ \A n, o : Has(n, o) <=> (t = n /\ "released" = o) \/ Deep(n, o)
      /\ \A p, loop, n : Waits(p, loop, n) <=>
           (t = p /\ "released" = loop /\ n \in ToSet(Top.rest)) \/ DeepWaits(p, loop, n)
      /\ \A o : t \notin interrupted /\ Deep(t, o) => Follows("released", o)
      /\ \A n \in Nodes \ interrupted : parent[n] = t => \A o : ~Deep(n, o)
  BY <1>0, <1>1, AtTop DEF Walks
<1>a. t \notin interrupted => Finishing(t) /\ ~Deep(t, "inactive")
  BY <1>2 DEF Follows, Hooks, Endings, Later, Finishing
<1>3. /\ TreeInv' /\ FrameInv' /\ OrderInv'
      /\ \A n, op : Has(n, op)' <=> Deep(n, op)
      /\ \A p, n : \A loop \in Loops : Waits(p, loop, n)' <=> DeepWaits(p, loop, n)
  BY <1>0, <1>1, <1>2, Returns
<1>4. /\ UNCHANGED <<parent, enabled, active, afterActive, deactivating, told, interrupted>>
      /\ \A n \in Nodes : compiled'[n] = IF n = t THEN FALSE ELSE compiled[n]
      /\ FlagInv'
  <2>1. /\ compiled' \in [Nodes -> BOOLEAN]
        /\ \A n \in Nodes : compiled'[n] = IF n = t THEN FALSE ELSE compiled[n]
    BY <1>0, <1>1, <1>2 DEF FlagInv
  <2>2. UNCHANGED <<parent, enabled, active, afterActive, deactivating, told, interrupted, nested>>
    BY <1>1 DEF tree, Return, Goto
  <2>3. FlagInv'
    BY <1>0, <2>1, <2>2 DEF FlagInv
  <2> QED
    BY <2>1, <2>2, <2>3
<1> HIDE DEF t
<1>b. ASSUME NEW n \in Nodes \ interrupted, n = t
      PROVE  /\ ~active[n] /\ ~IsEnding(n) /\ ~Has(n, "activated")' /\ ~Has(n, "active")'
             /\ ~Has(n, "deactivated")' /\ ~Has(n, "inactive")' /\ ~Has(n, "activates")'
             /\ ~Has(n, "deactivates")' /\ ~Has(n, "activate")' /\ ~Has(n, "deactivate")'
  <2>1. Finishing(n) /\ ~Deep(n, "inactive") /\ NodeOK(n)
    BY <1>0, <1>2, <1>a, <1>b DEF NodesOK
  <2>2. /\ ~Has(n, "activated")' /\ ~Has(n, "active")' /\ ~Has(n, "deactivated")' /\ ~Has(n, "inactive")'
        /\ ~Has(n, "deactivates")' /\ ~Has(n, "activates")' /\ ~Has(n, "activate")' /\ ~Has(n, "deactivate")'
        /\ ~Has(n, "deactivate") /\ ~Has(n, "deactivated") /\ ~Has(n, "inactive") /\ Has(n, "released")
    BY <2>1, <1>b, <1>2, <1>3 DEF Finishing
  <2>3. ~IsEnding(n) /\ ~active[n]
    BY <2>1, <2>2 DEF NodeOK, IsEnding, HasTail
  <2> QED
    BY <2>2, <2>3
<1>5. NodesOK'
  <2> SUFFICES ASSUME NEW n \in Nodes \ interrupted PROVE NodeOK(n)'
    BY <1>4 DEF NodesOK
  <2>1. NodeOK(n)
    BY <1>0 DEF NodesOK
  <2>2. CASE n # t
    BY <2>1, <2>2, <1>1, <1>2, <1>3, <1>4 DEF NodeOK, HasTail, IsEnding
  <2>3. CASE n = t
    BY <2>1, <2>3, <1>b, <1>4 DEF NodeOK, IsEnding
  <2> QED
    BY <2>2, <2>3
<1>6. EdgesOK'
  <2> SUFFICES ASSUME NEW n \in Nodes \ interrupted, NEW p \in Nodes \ interrupted, parent[n] = p
               PROVE  EdgeOK(p, n)'
    BY <1>4 DEF EdgesOK
  <2>1. EdgeOK(p, n) /\ NodeOK(n) /\ NodeOK(p)
    BY <1>0 DEF EdgesOK, NodesOK
  <2>2. p # n
    BY <1>4 DEF TypeInv, TreeInv
  <2>3. CASE n = t
    BY <2>1, <2>2, <2>3, <1>b, <1>4 DEF EdgeOK, IsEnding
  <2>4. CASE n # t
    BY <2>1, <2>2, <2>4, <1>2, <1>3, <1>4 DEF EdgeOK, HasTail, IsEnding, Loops
  <2> QED
    BY <2>3, <2>4
<1>7. UpdatesOK'
  BY <1>0, <1>2, <1>4 DEF UpdatesOK
<1> QED
  BY <1>3, <1>4, <1>5, <1>6, <1>7 DEF TypeInv, ReachInv

\* release() keeps it.
LEMMA ReleaseStep ==
  ASSUME TypeInv, ReachInv, Release
  PROVE  TypeInv' /\ ReachInv'
<1> DEFINE t == Top.node
<1>0. OrderInv /\ FlagInv /\ NodesOK /\ EdgesOK /\ UpdatesOK
  BY DEF ReachInv, TypeInv
<1>1. /\ At("release") /\ Goto(<<Do("deactivate", t), Do("releaseChildren", t)>>)
      /\ UNCHANGED <<tree, flags, told>>
  BY DEF Release
<1>2. /\ stack # <<>> /\ Top.op = "release" /\ t \in Nodes
      /\ \A n, o : Has(n, o) <=> (t = n /\ "release" = o) \/ Deep(n, o)
      /\ \A p, loop, n : Waits(p, loop, n) <=>
           (t = p /\ "release" = loop /\ n \in ToSet(Top.rest)) \/ DeepWaits(p, loop, n)
      /\ \A o : t \notin interrupted /\ Deep(t, o) => Follows("release", o)
      /\ \A n \in Nodes \ interrupted : parent[n] = t => \A o : ~Deep(n, o)
  BY <1>0, <1>1, AtTop DEF Walks
<1>a. t \notin interrupted => Alone(t)
  BY <1>2 DEF Follows, Hooks, Endings, Alone
<1>3. /\ TreeInv' /\ FrameInv' /\ OrderInv'
      /\ \A n, op : Has(n, op)' <=> (t = n /\ ("deactivate" = op \/ "releaseChildren" = op)) \/ Deep(n, op)
      /\ \A p, n : \A loop \in Loops : Waits(p, loop, n)' <=> DeepWaits(p, loop, n)
  <2>1. /\ \A op : Follows(Top.op, op) => Follows("deactivate", op) /\ Follows("releaseChildren", op)
        /\ Follows("deactivate", "releaseChildren")
    BY <1>2 DEF Follows, Hooks, Endings, Tails
  <2>2. "deactivate" \in Plain /\ "releaseChildren" \in Plain
    BY DEF Plain, Walks, Loops
  <2> QED
    BY <1>0, <1>1, <1>2, <2>1, <2>2, PutsTwo
<1>4. /\ UNCHANGED <<parent, enabled, active, afterActive, deactivating, compiled, told, interrupted>>
      /\ FlagInv'
  BY <1>0, <1>1 DEF tree, flags, Return, Goto, FlagInv
<1> HIDE DEF t
<1>5. NodesOK'
  <2> SUFFICES ASSUME NEW n \in Nodes \ interrupted PROVE NodeOK(n)'
    BY <1>4 DEF NodesOK
  <2>1. NodeOK(n)
    BY <1>0 DEF NodesOK
  <2>2. CASE n # t
    BY <2>1, <2>2, <1>1, <1>2, <1>3, <1>4 DEF NodeOK, HasTail, IsEnding
  <2>3. CASE n = t
    <3>1. Alone(n)
      BY <1>a, <2>3
    <3>2. /\ Has(n, "deactivate")' /\ ~Has(n, "active")' /\ ~Has(n, "active") /\ ~Has(n, "activated")'
          /\ ~Has(n, "deactivated") /\ ~Has(n, "deactivated")' /\ ~Has(n, "inactive") /\ ~Has(n, "inactive")'
          /\ ~Has(n, "activates")' /\ ~Has(n, "deactivates")'
      BY <2>3, <3>1, <1>2, <1>3 DEF Alone
    <3> QED
      BY <2>1, <3>2, <1>4 DEF NodeOK, IsEnding
  <2> QED
    BY <2>2, <2>3
<1>6. EdgesOK'
  <2> SUFFICES ASSUME NEW n \in Nodes \ interrupted, NEW p \in Nodes \ interrupted, parent[n] = p
               PROVE  EdgeOK(p, n)'
    BY <1>4 DEF EdgesOK
  <2>1. EdgeOK(p, n) /\ NodeOK(n) /\ NodeOK(p)
    BY <1>0 DEF EdgesOK, NodesOK
  <2>2. p # n
    BY <1>4 DEF TypeInv, TreeInv
  <2>3. CASE n = t
    <3>1. Alone(n)
      BY <1>a, <2>3
    <3>2. Has(n, "releaseChildren")' /\ ~Has(n, "activate")' /\ ~Has(n, "activated")' /\ Has(n, "deactivate")'
      BY <2>3, <3>1, <1>3 DEF Alone
    <3>3. active[n] => active[p] \/ IsEnding(n)
      BY <2>1 DEF EdgeOK
    <3> QED
      BY <3>2, <3>3, <1>4 DEF EdgeOK, HasTail, IsEnding
  <2>4. CASE n # t
    BY <2>1, <2>2, <2>4, <1>2, <1>3, <1>4 DEF EdgeOK, HasTail, IsEnding, Loops
  <2> QED
    BY <2>3, <2>4
<1>7. UpdatesOK'
  BY <1>0, <1>2, <1>4 DEF UpdatesOK
<1> QED
  BY <1>3, <1>4, <1>5, <1>6, <1>7 DEF TypeInv, ReachInv

\* release() after the deactivation keeps it: the children are released in turn.
LEMMA ReleaseChildrenStep ==
  ASSUME TypeInv, ReachInv, ReleaseChildren
  PROVE  TypeInv' /\ ReachInv'
<1> DEFINE t == Top.node
<1>0. OrderInv /\ FlagInv /\ NodesOK /\ EdgesOK /\ UpdatesOK
  BY DEF ReachInv, TypeInv
<1>1. /\ At("releaseChildren") /\ Goto(Visit("release", "releases", "released", t))
      /\ UNCHANGED <<tree, flags, told>>
  BY DEF ReleaseChildren
<1>2. /\ stack # <<>> /\ Top.op = "releaseChildren" /\ t \in Nodes
      /\ \A n, o : Has(n, o) <=> (t = n /\ "releaseChildren" = o) \/ Deep(n, o)
      /\ \A p, loop, n : Waits(p, loop, n) <=>
           (t = p /\ "releaseChildren" = loop /\ n \in ToSet(Top.rest)) \/ DeepWaits(p, loop, n)
      /\ \A o : t \notin interrupted /\ Deep(t, o) => Follows("releaseChildren", o)
      /\ \A n \in Nodes \ interrupted : parent[n] = t => \A o : ~Deep(n, o)
  BY <1>0, <1>1, AtTop DEF Walks
<1>a. t \notin interrupted => Alone(t)
  BY <1>2 DEF Follows, Hooks, Endings, Alone
<1>b. t \notin Kids(t)
  BY DEF Kids, TypeInv, TreeInv
<1>c. PICK sole \in SUBSET Nodes, many \in BOOLEAN : Visited(sole, many, "release", "releases", "released")
  <2>1. /\ \A op : Follows(Top.op, op) => Follows("releases", op) /\ Follows("released", op)
        /\ Follows("releases", "released")
    BY <1>2 DEF Follows, Hooks, Endings
  <2>2. "releases" \in Loops
    BY DEF Loops
  <2> QED
    BY <1>0, <1>1, <1>2, <2>1, <2>2, PutsVisit
<1>3. /\ TreeInv' /\ FrameInv' /\ OrderInv'
      /\ (many /\ sole = {}) \/ (~many /\ sole = Kids(t))
      /\ \A n, op : Has(n, op)' <=> \/ t = n /\ (op = "released" \/ (many /\ op = "releases"))
                                    \/ n \in sole /\ op = "release"
                                    \/ Deep(n, op)
      /\ \A p, n : \A l \in Loops :
           Waits(p, l, n)' <=> (many /\ t = p /\ l = "releases" /\ n \in Kids(p)) \/ DeepWaits(p, l, n)
  BY <1>c DEF Visited
<1>4. /\ UNCHANGED <<parent, enabled, active, afterActive, deactivating, compiled, told, interrupted>>
      /\ FlagInv'
  BY <1>0, <1>1 DEF tree, flags, Return, Goto, FlagInv
<1> HIDE DEF t
<1>d. t \notin interrupted => ~active[t] /\ ~deactivating[t]
  <2> SUFFICES ASSUME t \notin interrupted PROVE ~active[t] /\ ~deactivating[t]
    OBVIOUS
  <2>1. Alone(t) /\ NodeOK(t)
    BY <1>0, <1>2, <1>a DEF NodesOK
  <2>2. Has(t, "releaseChildren") /\ ~Has(t, "deactivate") /\ ~Has(t, "deactivated") /\ ~Has(t, "inactive")
    BY <2>1, <1>2 DEF Alone
  <2> QED
    BY <2>1, <2>2 DEF NodeOK, HasTail, IsEnding
<1>5. NodesOK'
  <2> SUFFICES ASSUME NEW n \in Nodes \ interrupted PROVE NodeOK(n)'
    BY <1>4 DEF NodesOK
  <2>1. NodeOK(n)
    BY <1>0 DEF NodesOK
  <2>2. CASE n # t
    BY <2>1, <2>2, <1>1, <1>2, <1>3, <1>4 DEF NodeOK, HasTail, IsEnding
  <2>3. CASE n = t
    <3>1. Alone(n)
      BY <1>a, <2>3
    <3>2. /\ ~Has(n, "active")' /\ ~Has(n, "active") /\ ~Has(n, "activated")'
          /\ ~Has(n, "deactivated") /\ ~Has(n, "deactivated")' /\ ~Has(n, "inactive") /\ ~Has(n, "inactive")'
          /\ ~Has(n, "activates")' /\ ~Has(n, "deactivates")'
      BY <2>3, <3>1, <1>b, <1>2, <1>3 DEF Alone
    <3> QED
      BY <2>1, <2>3, <3>2, <1>d, <1>4 DEF NodeOK
  <2> QED
    BY <2>2, <2>3
<1>6. EdgesOK'
  <2> SUFFICES ASSUME NEW n \in Nodes \ interrupted, NEW p \in Nodes \ interrupted, parent[n] = p
               PROVE  EdgeOK(p, n)'
    BY <1>4 DEF EdgesOK
  <2>1. EdgeOK(p, n) /\ NodeOK(n) /\ NodeOK(p)
    BY <1>0 DEF EdgesOK, NodesOK
  <2>2. p # n
    BY <1>4 DEF TypeInv, TreeInv
  <2>3. CASE n = t
    <3>1. Alone(n) /\ n \notin sole
      BY <1>a, <1>b, <1>3, <2>3
    <3>2. Has(n, "released")' /\ ~Has(n, "activate")' /\ ~Has(n, "activated")' /\ ~Has(n, "deactivate")'
      BY <2>3, <3>1, <1>3 DEF Alone
    <3>3. ~active'[n] /\ ~deactivating'[n]
      BY <1>d, <1>4, <2>3
    <3> QED
      BY <3>2, <3>3 DEF EdgeOK, IsEnding
  <2>4. CASE n # t
    <3>1. \A o : o # "release" => (Has(n, o)' <=> Has(n, o))
      BY <2>4, <1>2, <1>3
    <3>2. Has(p, "inactive")' <=> Has(p, "inactive")
      <4>1. p \in sole => p # t
        BY <1>b, <1>3
      <4> QED
        BY <4>1, <1>2, <1>3
    <3>3. \A l \in {"activates", "deactivates"} : Waits(p, l, n)' <=> Waits(p, l, n)
      BY <1>2, <1>3 DEF Loops
    <3> QED
      BY <2>1, <3>1, <3>2, <3>3, <1>4 DEF EdgeOK, HasTail, IsEnding
  <2> QED
    BY <2>3, <2>4
<1>7. UpdatesOK'
  BY <1>0, <1>2, <1>4 DEF UpdatesOK
<1> QED
  BY <1>3, <1>4, <1>5, <1>6, <1>7 DEF TypeInv, ReachInv

------------------------------------------------------------------------------
(* The loops over children *)

\* What is left of a loop is a loop over the others.
LEMMA TailProperties ==
  ASSUME NEW q \in Seq(Nodes), q # <<>>, IsInjective(q)
  PROVE  /\ Head(q) \in Nodes /\ Head(q) \in ToSet(q) /\ Tail(q) \in Seq(Nodes)
         /\ IsInjective(Tail(q)) /\ ToSet(Tail(q)) = ToSet(q) \ {Head(q)}
<1>1. /\ Head(q) \in Nodes /\ Head(q) = q[1] /\ Tail(q) \in Seq(Nodes) /\ Len(q) \in Nat \ {0}
      /\ Len(Tail(q)) = Len(q) - 1 /\ \A k \in 1..(Len(q) - 1) : Tail(q)[k] = q[k + 1]
  BY HeadTailProperties
<1> DEFINE r == Tail(q)
           h == Head(q)
<1>2. /\ ToSet(q) = {q[k] : k \in 1..Len(q)} /\ \A j, k \in 1..Len(q) : q[j] = q[k] => j = k
      /\ DOMAIN q = 1..Len(q)
  BY DEF ToSet, IsInjective
<1>4. /\ h \in Nodes /\ h = q[1] /\ r \in Seq(Nodes)
      /\ Len(q) \in Nat \ {0} /\ Len(r) = Len(q) - 1
  BY <1>1
<1>5. \A k \in 1..Len(r) : k + 1 \in 1..Len(q) /\ k + 1 # 1 /\ r[k] = q[k + 1]
  BY <1>1
<1> HIDE DEF r, h
<1>3. DOMAIN r = 1..Len(r) /\ ToSet(r) = {r[k] : k \in 1..Len(r)}
  BY <1>4 DEF ToSet
<1>6. 1 \in 1..Len(q)
  BY <1>4
<1>7. IsInjective(r)
  <2>1. ASSUME NEW j \in 1..Len(r), NEW k \in 1..Len(r), r[j] = r[k] PROVE j = k
    <3>1. j + 1 = k + 1
      BY <1>2, <1>5, <2>1
    <3> QED
      BY <1>4, <3>1
  <2> QED
    BY <1>3, <2>1 DEF IsInjective
<1>8. \A x \in ToSet(r) : x \in ToSet(q) /\ x # h
  BY <1>2, <1>3, <1>4, <1>5, <1>6
<1>9. ASSUME NEW x \in ToSet(q), x # h PROVE x \in ToSet(r)
  <2>1. PICK k \in 1..Len(q) : q[k] = x
    BY <1>2
  <2>2. k # 1
    BY <1>4, <1>9, <2>1
  <2> DEFINE j == k - 1
  <2>3. j \in 1..Len(r) /\ j + 1 = k
    BY <1>4, <2>2
  <2> HIDE DEF j
  <2> QED
    BY <1>3, <1>5, <2>1, <2>3
<1>10. h \in ToSet(q)
  BY <1>2, <1>4, <1>6
<1> QED
  BY <1>1, <1>7, <1>8, <1>9, <1>10 DEF r, h

\* A loop takes the first of the children it has left.
LEMMA TakesTurn ==
  ASSUME TypeInv, OrderInv, NEW loop \in Loops, At(loop), Top.rest # <<>>,
         NEW one \in {"activate", "deactivate", "release"}, UNCHANGED tree,
         Goto(<<Do(one, Head(Top.rest)), [Top EXCEPT !.rest = Tail(@)]>>)
  PROVE  \E c \in Nodes :
           /\ parent[c] = Top.node
           /\ TreeInv' /\ FrameInv' /\ OrderInv'
           /\ \A n, op : Has(n, op)' <=> (n = c /\ op = one) \/ Has(n, op)
           /\ \A p, l, n : Waits(p, l, n)' <=> \/ p = Top.node /\ l = loop /\ n \in ToSet(Top.rest) \ {c}
                                               \/ DeepWaits(p, l, n)
<1> DEFINE t == Top.node
           rest == Top.rest
           c == Head(rest)
           f == Do(one, c)
           g == [Top EXCEPT !.rest = Tail(rest)]
           new == <<f, g>>
<1>1. /\ stack # <<>> /\ Top.op = loop /\ t \in Nodes /\ Good(Top)
      /\ \A n, o : Has(n, o) <=> (t = n /\ loop = o) \/ Deep(n, o)
  BY AtTop DEF Walks, Loops
<1>2. Fine(parent, interrupted, Top) /\ rest \in Seq(Nodes) /\ Top \in Frame
  BY <1>1, TopOrder DEF Good, Frame
<1>3. IsInjective(rest) /\ \A x \in ToSet(rest) : parent[x] = t
  BY <1>1, <1>2 DEF Fine
<1>4. /\ c \in Nodes /\ c \in ToSet(rest) /\ Tail(rest) \in Seq(Nodes)
      /\ IsInjective(Tail(rest)) /\ ToSet(Tail(rest)) = ToSet(rest) \ {c}
  <2> DEFINE q == rest
  <2>1. q \in Seq(Nodes) /\ q # <<>> /\ IsInjective(q)
    BY <1>2, <1>3
  <2> HIDE DEF q
  <2>2. /\ Head(q) \in Nodes /\ Head(q) \in ToSet(q) /\ Tail(q) \in Seq(Nodes)
        /\ IsInjective(Tail(q)) /\ ToSet(Tail(q)) = ToSet(q) \ {Head(q)}
    BY <2>1, TailProperties
  <2> QED
    BY <2>2 DEF q
<1>5. parent[c] = t /\ c # t
  BY <1>3, <1>4 DEF TypeInv, TreeInv
<1>6. Good(f) /\ f.op = one /\ f.node = c
  BY <1>4, DoGood DEF Walks, Loops
<1>7. g.op = loop /\ g.node = t /\ g.rest = Tail(rest)
  BY <1>1, <1>2 DEF Frame
<1>8. Good(g)
  <2>1. \A k \in 1..Len(Tail(rest)) : Tail(rest)[k] \notin Root
    <3>1. \A x \in ToSet(Tail(rest)) : parent[x] = t /\ x \in Nodes
      BY <1>3, <1>4 DEF ToSet
    <3>2. \A k \in 1..Len(Tail(rest)) : Tail(rest)[k] \in ToSet(Tail(rest))
      BY <1>4 DEF ToSet
    <3> QED
      BY <1>1, <3>1, <3>2, NodeAssumption DEF TypeInv, TreeInv, RootInv
  <2> QED
    BY <1>1, <1>4, <2>1, OtherRest
<1>9. Goto(new)
  OBVIOUS
<1> HIDE DEF f, g
<1>10. AllGood(new) /\ Len(new) = 2 /\ new[1] = f /\ new[2] = g
  BY <1>6, <1>8, Good2
<1>11. /\ \A n, op : In(new, n, op) <=> (f.node = n /\ f.op = op) \/ (g.node = n /\ g.op = op)
       /\ \A p, l, n : Left(new, p, l, n) <=> \/ f.node = p /\ f.op = l /\ n \in ToSet(f.rest)
                                              \/ g.node = p /\ g.op = l /\ n \in ToSet(g.rest)
  BY In2
<1>12. \A k \in 1..Len(new) : k = 1 \/ k = 2
  BY <1>10
<1> HIDE DEF new
<1>13. AllFine(parent, interrupted, new)
  <2>1. Fine(parent, interrupted, f)
    BY <1>6 DEF Fine, Loops
  <2>2. Fine(parent, interrupted, g)
    BY <1>3, <1>4, <1>7 DEF Fine, Loops
  <2> QED
    BY <1>10, <1>12, <2>1, <2>2 DEF AllFine
<1>14. Descends(new)
  <2>1. ASSUME NEW k \in 1..Len(new)
        PROVE  \/ new[k].node = t /\ \A op : Follows(Top.op, op) => Follows(new[k].op, op)
               \/ k = 1 /\ {t, new[k].node} \subseteq Nodes /\ parent[new[k].node] = t
    <3>1. CASE k = 1
      BY <1>1, <1>4, <1>5, <1>6, <1>10, <3>1
    <3>2. CASE k = 2
      BY <1>1, <1>7, <1>10, <3>2
    <3> QED
      BY <1>12, <3>1, <3>2
  <2>2. ASSUME NEW j \in 1..Len(new), NEW k \in 1..Len(new), j < k PROVE new[j].node # new[k].node
    <3>1. j = 1 /\ k = 2
      BY <1>12, <2>2
    <3> QED
      BY <1>5, <1>6, <1>7, <1>10, <3>1
  <2> QED
    BY <2>1, <2>2 DEF Descends
<1>15. Becomes(new)
  BY <1>1, <1>9, <1>10, <1>13, <1>14, GoOrder DEF Becomes
<1>16. \A n, op : Has(n, op)' <=> (n = c /\ op = one) \/ Has(n, op)
  BY <1>1, <1>6, <1>7, <1>11, <1>15 DEF Becomes
<1>17. \A p, l, n : Waits(p, l, n)' <=> \/ p = t /\ l = loop /\ n \in ToSet(rest) \ {c}
                                        \/ DeepWaits(p, l, n)
  <2>1. ~(one \in Loops)
    BY DEF Loops
  <2>2. f.rest = <<>>
    BY DEF f, Do
  <2>3. \A n : n \notin ToSet(f.rest)
    BY <2>2 DEF ToSet
  <2> QED
    BY <1>4, <1>6, <1>7, <1>11, <1>15, <2>3 DEF Becomes
<1> HIDE DEF c, t, rest
<1>18. c \in Nodes /\ parent[c] = t
  BY <1>4, <1>5
<1>19. TreeInv' /\ FrameInv' /\ OrderInv'
  BY <1>15 DEF Becomes
<1> QED
  BY <1>16, <1>17, <1>18, <1>19 DEF t, rest

\* The steps that end without a change of the nodes.
Quiet == Hooks \cup Loops \cup {"dropped", "current", "done"}

\* A step that only returns keeps it.
LEMMA QuietStep ==
  ASSUME TypeInv, ReachInv, stack # <<>>, Top.op \in Quiet, Top.op \in Loops => Top.rest = <<>>,
         Return, UNCHANGED <<tree, flags, told>>
  PROVE  TypeInv' /\ ReachInv'
<1> DEFINE t == Top.node
<1>0. OrderInv /\ FlagInv /\ NodesOK /\ EdgesOK /\ UpdatesOK
  BY DEF ReachInv, TypeInv
<1>2. /\ \A n, o : o \notin Quiet => (Has(n, o) <=> Deep(n, o))
      /\ \A n, o : Deep(n, o) => Has(n, o)
      /\ \A p, n : \A loop \in Loops : Waits(p, loop, n) <=> DeepWaits(p, loop, n)
  <2>1. /\ \A n, o : Has(n, o) <=> (t = n /\ Top.op = o) \/ Deep(n, o)
        /\ \A p, loop, n : Waits(p, loop, n) <=>
             (t = p /\ Top.op = loop /\ n \in ToSet(Top.rest)) \/ DeepWaits(p, loop, n)
    BY <1>0, TopOrder
  <2>2. \A n : \A loop \in Loops : ~(Top.op = loop /\ n \in ToSet(Top.rest))
    BY DEF ToSet
  <2> QED
    BY <2>1, <2>2
<1>3. /\ TreeInv' /\ FrameInv' /\ OrderInv'
      /\ \A n, op : Has(n, op)' <=> Deep(n, op)
      /\ \A p, loop, n : Waits(p, loop, n)' <=> DeepWaits(p, loop, n)
  BY <1>0, Returns
<1>4. /\ UNCHANGED <<parent, enabled, active, afterActive, deactivating, compiled, told, interrupted>>
      /\ FlagInv'
  BY <1>0 DEF tree, flags, Return, Goto, FlagInv
<1>a. /\ \A n, o : o \notin Quiet => (Has(n, o)' <=> Has(n, o))
      /\ \A n, o : Has(n, o)' => Has(n, o)
      /\ \A p, n : \A loop \in Loops : Waits(p, loop, n)' <=> Waits(p, loop, n)
  BY <1>2, <1>3
<1>b. /\ Quiet \cap {"activate", "activated", "active", "deactivate", "deactivated", "inactive"} = {}
      /\ Quiet \cap {"disabled", "removed", "releaseChildren", "released", "onDestroy"} = {}
  BY DEF Quiet, Hooks, Loops
<1> HIDE DEF t
<1>5. NodesOK'
  <2> SUFFICES ASSUME NEW n \in Nodes \ interrupted PROVE NodeOK(n)'
    BY <1>4 DEF NodesOK
  <2>1. NodeOK(n)
    BY <1>0 DEF NodesOK
  <2> QED
    BY <2>1, <1>a, <1>b, <1>4 DEF NodeOK, HasTail, IsEnding
<1>6. EdgesOK'
  <2> SUFFICES ASSUME NEW n \in Nodes \ interrupted, NEW p \in Nodes \ interrupted, parent[n] = p
               PROVE  EdgeOK(p, n)'
    BY <1>4 DEF EdgesOK
  <2>1. EdgeOK(p, n) /\ NodeOK(n) /\ NodeOK(p)
    BY <1>0 DEF EdgesOK, NodesOK
  <2> QED
    BY <2>1, <1>a, <1>b, <1>4 DEF EdgeOK, HasTail, IsEnding, Loops
<1>7. UpdatesOK'
  BY <1>0, <1>2, <1>4 DEF UpdatesOK
<1> QED
  BY <1>3, <1>4, <1>5, <1>6, <1>7 DEF TypeInv, ReachInv

\* A child whose turn it is: its parent is active when it is activated, and it is
\* deactivated when its parent is.
LEMMA NextChildStep ==
  ASSUME TypeInv, ReachInv, NextChild
  PROVE  TypeInv' /\ ReachInv'
<1> DEFINE t == Top.node
<1>0. OrderInv /\ FlagInv /\ NodesOK /\ EdgesOK /\ UpdatesOK
  BY DEF ReachInv, TypeInv
<1> DEFINE Pair(loop, one) ==
             \/ loop = "activates" /\ one = "activate"
             \/ loop = "deactivates" /\ one = "deactivate"
             \/ loop = "releases" /\ one = "release"
<1>1. PICK loop \in Loops, one \in {"activate", "deactivate", "release"} :
        Pair(loop, one) /\ Loop(loop, one)
  <2>1. "activates" \in Loops /\ "deactivates" \in Loops /\ "releases" \in Loops
    BY DEF Loops
  <2>5. Pair("activates", "activate") /\ Pair("deactivates", "deactivate") /\ Pair("releases", "release")
    OBVIOUS
  <2> HIDE DEF Pair
  <2>2. CASE Loop("activates", "activate")
    BY <2>1, <2>5, <2>2
  <2>3. CASE Loop("deactivates", "deactivate")
    BY <2>1, <2>5, <2>3
  <2>4. CASE Loop("releases", "release")
    BY <2>1, <2>5, <2>4
  <2> QED
    BY <2>2, <2>3, <2>4 DEF NextChild
<1>2. /\ stack # <<>> /\ Top.op = loop /\ t \in Nodes
      /\ \A n, o : Has(n, o) <=> (t = n /\ loop = o) \/ Deep(n, o)
      /\ \A p, l, n : Waits(p, l, n) <=>
           (t = p /\ loop = l /\ n \in ToSet(Top.rest)) \/ DeepWaits(p, l, n)
      /\ \A o : t \notin interrupted /\ Deep(t, o) => Follows(loop, o)
      /\ \A n \in Nodes \ interrupted : parent[n] = t => \A o : ~Deep(n, o)
  <2>1. At(loop) /\ loop \in Walks
    BY <1>1 DEF Loop, Walks, Loops
  <2> QED
    BY <1>0, <2>1, AtTop
<1>3. CASE Top.rest = <<>>
  BY <1>1, <1>2, <1>3, QuietStep DEF Loop, Quiet
<1>4. CASE Top.rest # <<>>
  <2>1. PICK c \in Nodes :
           /\ parent[c] = t
           /\ TreeInv' /\ FrameInv' /\ OrderInv'
           /\ \A n, op : Has(n, op)' <=> (n = c /\ op = one) \/ Has(n, op)
           /\ \A p, l, n : Waits(p, l, n)' <=> \/ p = t /\ l = loop /\ n \in ToSet(Top.rest) \ {c}
                                               \/ DeepWaits(p, l, n)
    BY <1>0, <1>1, <1>4, TakesTurn DEF Loop
  <2>2. /\ UNCHANGED <<parent, enabled, active, afterActive, deactivating, compiled, told, interrupted>>
        /\ FlagInv'
    BY <1>0, <1>1, <1>4 DEF Loop, tree, flags, Goto, FlagInv
  <2> HIDE DEF t
  <2>3. \A p, l, n : Waits(p, l, n) => Waits(p, l, n)' \/ (l = loop /\ n = c)
    BY <1>2, <2>1
  <2>4. NodesOK'
    <3> SUFFICES ASSUME NEW n \in Nodes \ interrupted PROVE NodeOK(n)'
      BY <2>2 DEF NodesOK
    <3>1. NodeOK(n)
      BY <1>0 DEF NodesOK
    <3>2. \A o : o \notin {"activate", "deactivate", "release"} => (Has(n, o)' <=> Has(n, o))
      BY <2>1
    <3>3. Has(n, "deactivate") => Has(n, "deactivate")'
      BY <2>1
    <3> QED
      BY <3>1, <3>2, <3>3, <2>2 DEF NodeOK, HasTail, IsEnding
  <2>5. EdgesOK'
    <3> SUFFICES ASSUME NEW n \in Nodes \ interrupted, NEW p \in Nodes \ interrupted, parent[n] = p
                 PROVE  EdgeOK(p, n)'
      BY <2>2 DEF EdgesOK
    <3>1. EdgeOK(p, n) /\ NodeOK(p)
      BY <1>0 DEF EdgesOK, NodesOK
    <3>2. \A o : o \notin {"activate", "deactivate", "release"} => (Has(n, o)' <=> Has(n, o)) /\ (Has(p, o)' <=> Has(p, o))
      BY <2>1
    <3>3. CASE n # c
      <4>1. \A o : Has(n, o)' <=> Has(n, o)
        BY <2>1, <3>3
      <4>2. \A l : Waits(p, l, n) => Waits(p, l, n)'
        BY <2>3, <3>3
      <4> QED
        BY <3>1, <3>2, <4>1, <4>2, <2>2 DEF EdgeOK, HasTail, IsEnding
    <3>4. CASE n = c
      <4>1. p = t /\ p \notin interrupted /\ Has(p, loop)
        BY <1>2, <2>1, <3>4
      <4>2. \A o : Has(n, o)' <=> o = one \/ Has(n, o)
        BY <2>1, <3>4
      <4>3. CASE loop = "activates" /\ one = "activate"
        <5>1. ~Deep(p, "deactivated") /\ ~Deep(p, "inactive")
          BY <1>2, <4>1, <4>3 DEF Follows, Hooks, Endings
        <5>2. ~Has(p, "deactivated") /\ ~Has(p, "inactive") /\ Has(p, "activates")
          BY <1>2, <4>1, <4>3, <5>1
        <5>3. active[p] /\ ~deactivating[p]
          BY <3>1, <5>2 DEF NodeOK
        <5>4. Waits(p, "deactivates", n) => Waits(p, "deactivates", n)'
          BY <2>3, <4>3
        <5> QED
          BY <3>1, <3>2, <4>2, <4>3, <5>3, <5>4, <2>2 DEF EdgeOK, HasTail, IsEnding
      <4>4. CASE loop = "deactivates" /\ one = "deactivate"
        <5>1. Has(p, "deactivates")
          BY <1>2, <4>1, <4>4
        <5>2. deactivating[p]
          BY <3>1, <5>1 DEF NodeOK
        <5> QED
          BY <3>1, <3>2, <4>2, <4>4, <5>2, <2>2 DEF EdgeOK, HasTail, IsEnding
      <4>5. CASE loop = "releases" /\ one = "release"
        <5>1. /\ Waits(p, "activates", n) => Waits(p, "activates", n)'
              /\ Waits(p, "deactivates", n) => Waits(p, "deactivates", n)'
          BY <2>3, <4>5
        <5> QED
          BY <3>1, <3>2, <4>2, <4>5, <5>1, <2>2 DEF EdgeOK, HasTail, IsEnding
      <4> QED
        BY <1>1, <4>3, <4>4, <4>5
    <3> QED
      BY <3>3, <3>4
  <2>6. UpdatesOK'
    BY <1>0, <2>2 DEF UpdatesOK
  <2> QED
    BY <2>1, <2>2, <2>4, <2>5, <2>6 DEF TypeInv, ReachInv
<1> QED
  BY <1>3, <1>4

\* The return of a hook keeps it.
LEMMA HookStep ==
  ASSUME TypeInv, ReachInv, HookReturns
  PROVE  TypeInv' /\ ReachInv'
<1>1. Top.op \in Quiet /\ Top.op \notin Loops
  BY DEF HookReturns, Quiet, Hooks, Loops
<1> QED
  BY <1>1, QuietStep DEF HookReturns

------------------------------------------------------------------------------
(* The steps of a command *)

\* The steps of a command keep it: onDestroy() finds the scene inactive, ...
LEMMA OnDestroyStep ==
  ASSUME TypeInv, ReachInv, OnDestroy
  PROVE  TypeInv' /\ ReachInv'
<1> DEFINE t == Top.node
<1>0. OrderInv /\ FlagInv /\ NodesOK /\ EdgesOK /\ UpdatesOK
  BY DEF ReachInv, TypeInv
<1>1. At("onDestroy") /\ Goto(<<Do("callback", t)>>) /\ UNCHANGED <<tree, flags, told>>
  BY DEF OnDestroy
<1>2. /\ stack # <<>> /\ Top.op = "onDestroy" /\ t \in Nodes
      /\ \A n, o : Has(n, o) <=> (t = n /\ "onDestroy" = o) \/ Deep(n, o)
      /\ \A p, loop, n : Waits(p, loop, n) <=>
           (t = p /\ "onDestroy" = loop /\ n \in ToSet(Top.rest)) \/ DeepWaits(p, loop, n)
  BY <1>0, <1>1, AtTop DEF Walks
<1>3. /\ TreeInv' /\ FrameInv' /\ OrderInv'
      /\ \A n, op : Has(n, op)' <=> (t = n /\ "callback" = op) \/ Deep(n, op)
      /\ \A p, n : \A loop \in Loops : Waits(p, loop, n)' <=> DeepWaits(p, loop, n)
  <2>1. \A op : Follows(Top.op, op) => Follows("callback", op)
    BY DEF Follows, Hooks
  <2>2. "callback" \in Plain
    BY DEF Plain
  <2> QED
    BY <1>0, <1>1, <1>2, <2>1, <2>2, PutsOne
<1>4. /\ UNCHANGED <<parent, enabled, active, afterActive, deactivating, compiled, told, interrupted>>
      /\ FlagInv'
  BY <1>0, <1>1 DEF tree, flags, Goto, FlagInv
<1> HIDE DEF t
<1>5. NodesOK'
  <2> SUFFICES ASSUME NEW n \in Nodes \ interrupted PROVE NodeOK(n)'
    BY <1>4 DEF NodesOK
  <2>1. NodeOK(n)
    BY <1>0 DEF NodesOK
  <2> QED
    BY <2>1, <1>2, <1>3, <1>4 DEF NodeOK, HasTail, IsEnding
<1>6. EdgesOK'
  <2> SUFFICES ASSUME NEW n \in Nodes \ interrupted, NEW p \in Nodes \ interrupted, parent[n] = p
               PROVE  EdgeOK(p, n)'
    BY <1>4 DEF EdgesOK
  <2>1. EdgeOK(p, n) /\ NodeOK(n) /\ NodeOK(p)
    BY <1>0 DEF EdgesOK, NodesOK
  <2> QED
    BY <2>1, <1>2, <1>3, <1>4 DEF EdgeOK, HasTail, IsEnding, Loops
<1>7. UpdatesOK'
  BY <1>0, <1>2, <1>4 DEF UpdatesOK
<1> QED
  BY <1>3, <1>4, <1>5, <1>6, <1>7 DEF TypeInv, ReachInv

\* ... enableForce() activates a scene that has no parent, ...
LEMMA EnableForceStep ==
  ASSUME TypeInv, ReachInv, EnableForce
  PROVE  TypeInv' /\ ReachInv'
<1> DEFINE t == Top.node
<1>0. OrderInv /\ FlagInv /\ NodesOK /\ EdgesOK /\ UpdatesOK
  BY DEF ReachInv, TypeInv
<1>1. /\ At("enableForce") /\ enabled' = [enabled EXCEPT ![t] = @ \/ ~active[t]]
      /\ Goto(IF active[t] THEN <<>> ELSE <<Do("activate", t)>>)
      /\ UNCHANGED <<tree, active, afterActive, deactivating, compiled, told>>
  BY DEF EnableForce
<1>2. /\ stack # <<>> /\ Top.op = "enableForce" /\ t \in Nodes /\ Good(Top)
      /\ \A n, o : Has(n, o) <=> (t = n /\ "enableForce" = o) \/ Deep(n, o)
      /\ \A p, loop, n : Waits(p, loop, n) <=>
           (t = p /\ "enableForce" = loop /\ n \in ToSet(Top.rest)) \/ DeepWaits(p, loop, n)
  BY <1>0, <1>1, AtTop DEF Walks
<1>a. parent[t] = None
  BY <1>2 DEF Good, TypeInv, TreeInv, RootInv
<1>3. /\ TreeInv' /\ FrameInv' /\ OrderInv'
      /\ \A n, op : Has(n, op)' <=> (~active[t] /\ t = n /\ op = "activate") \/ Deep(n, op)
      /\ \A p, n : \A loop \in Loops : Waits(p, loop, n)' <=> DeepWaits(p, loop, n)
  <2>1. CASE active[t]
    <3>1. Return
      BY <1>1, <2>1 DEF Return
    <3> QED
      BY <1>0, <1>1, <1>2, <2>1, <3>1, Returns
  <2>2. CASE ~active[t]
    <3>1. Goto(<<Do("activate", t)>>)
      BY <1>1, <2>2
    <3>2. \A op : Follows(Top.op, op) => Follows("activate", op)
      BY <1>2 DEF Follows, Hooks, Endings
    <3>3. "activate" \in Plain
      BY DEF Plain, Walks, Loops
    <3>4. /\ TreeInv' /\ FrameInv' /\ OrderInv'
          /\ \A n, op : Has(n, op)' <=> (t = n /\ "activate" = op) \/ Deep(n, op)
          /\ \A p, n : \A loop \in Loops : Waits(p, loop, n)' <=> DeepWaits(p, loop, n)
      BY <1>0, <1>1, <1>2, <3>1, <3>2, <3>3, PutsOne
    <3> QED
      BY <2>2, <3>4
  <2> QED
    BY <2>1, <2>2
<1>4. /\ UNCHANGED <<parent, active, afterActive, deactivating, compiled, told, interrupted>>
      /\ \A n \in Nodes : enabled'[n] = IF n = t THEN enabled[t] \/ ~active[t] ELSE enabled[n]
      /\ FlagInv'
  <2>1. /\ enabled' \in [Nodes -> BOOLEAN]
        /\ \A n \in Nodes : enabled'[n] = IF n = t THEN enabled[t] \/ ~active[t] ELSE enabled[n]
    BY <1>0, <1>1, <1>2 DEF FlagInv
  <2>2. UNCHANGED <<parent, active, afterActive, deactivating, compiled, told, interrupted, nested>>
    BY <1>1 DEF tree, Goto
  <2>3. FlagInv'
    BY <1>0, <2>1, <2>2 DEF FlagInv
  <2> QED
    BY <2>1, <2>2, <2>3
<1> HIDE DEF t
<1>b. \A n \in Nodes : enabled[n] => enabled'[n]
  BY <1>4
<1>5. NodesOK'
  <2> SUFFICES ASSUME NEW n \in Nodes \ interrupted PROVE NodeOK(n)'
    BY <1>4 DEF NodesOK
  <2>1. NodeOK(n)
    BY <1>0 DEF NodesOK
  <2> QED
    BY <2>1, <1>b, <1>2, <1>3, <1>4 DEF NodeOK, HasTail, IsEnding
<1>6. EdgesOK'
  <2> SUFFICES ASSUME NEW n \in Nodes \ interrupted, NEW p \in Nodes \ interrupted, parent[n] = p
               PROVE  EdgeOK(p, n)'
    BY <1>4 DEF EdgesOK
  <2>1. EdgeOK(p, n) /\ NodeOK(n) /\ NodeOK(p)
    BY <1>0 DEF EdgesOK, NodesOK
  <2>2. n # t /\ n \in Nodes
    BY <1>a, NodeAssumption
  <2>3. enabled'[n] = enabled[n]
    BY <2>2, <1>4
  <2> QED
    BY <2>1, <2>2, <2>3, <1>2, <1>3, <1>4 DEF EdgeOK, HasTail, IsEnding, Loops
<1>7. UpdatesOK'
  BY <1>0, <1>2, <1>4 DEF UpdatesOK
<1> QED
  BY <1>3, <1>4, <1>5, <1>6, <1>7 DEF TypeInv, ReachInv

\* ... and the others are about no flag of a node.
LEMMA ForgetStep ==
  ASSUME TypeInv, ReachInv, Dropped \/ Current \/ Done
  PROVE  TypeInv' /\ ReachInv'
<1>1. stack # <<>> /\ Top.op \in {"dropped", "current", "done"} /\ Return /\ UNCHANGED <<tree, flags, told>>
  BY DEF Dropped, Current, Done, At
<1> QED
  BY <1>1, QuietStep DEF Quiet, Loops

------------------------------------------------------------------------------
(* The calls of scripts *)

\* A call leaves the flags alone, but that a node may be enabled.
LEMMA CallFlags ==
  ASSUME FlagInv, NEW about \in SUBSET Nodes, NEW new, NEW under, Call(about, new, under), nested' \in 0..MaxNested,
         UNCHANGED <<active, afterActive, deactivating, compiled, told>>, enabled' \in [Nodes -> BOOLEAN]
  PROVE  FlagInv'
<1>1. interrupted' = interrupted \cup Interrupts(about)
  BY DEF Call
<1>2. Interrupts(about) \subseteq Nodes
  BY DEF Interrupts
<1> QED
  BY <1>1, <1>2 DEF FlagInv

\* Calls from hooks are counted up to their bound.
LEMMA ScriptNested ==
  ASSUME FlagInv, Script, NEW about, NEW new, NEW under, Call(about, new, under)
  PROVE  nested' \in 0..MaxNested
  BY NodeAssumption DEF FlagInv, Script, Call

\* The walks that a call does not interrupt have nothing to do with the nodes it is about.
Untouched(about) ==
  /\ interrupted \subseteq interrupted'
  /\ \A m \in Nodes : \A op : Has(m, op) /\ m \notin interrupted' => Line(parent, m) \cap about = {}
  /\ \A n \in about : \A m \in Nodes \ interrupted' :
       n \notin interrupted' /\ m \in Line(parent, n) => ~deactivating[m]

LEMMA CallUntouched ==
  ASSUME TypeInv, ReachInv, NEW about \in SUBSET Nodes, NEW new, NEW under, Call(about, new, under)
  PROVE  Untouched(about)
<1>1. interrupted' = interrupted \cup Interrupts(about) /\ interrupted \subseteq interrupted'
  BY DEF Call
<1>2. ASSUME NEW m \in Nodes, NEW op, Has(m, op), m \notin interrupted'
      PROVE  Line(parent, m) \cap about = {}
  <2>1. PICK k \in 1..Len(stack) : stack[k].node = m
    BY <1>2 DEF Has, In
  <2>2. stack[k] \in ToSet(stack)
    BY DEF TypeInv, FrameInv, AllGood, ToSet
  <2>3. Above(m) \cap about # {} => m \in Interrupts(about)
    BY <2>1, <2>2 DEF Interrupts
  <2> QED
    BY <1>1, <1>2, <2>3, AboveLine
<1>3. ASSUME NEW n \in about, NEW m \in Nodes \ interrupted', n \notin interrupted', m \in Line(parent, n)
      PROVE  ~deactivating[m]
  <2>1. CASE stack = <<>>
    <3>1. \A op : ~Has(m, op)
      BY <2>1 DEF Has, In
    <3>2. NodeOK(m)
      BY <1>1 DEF ReachInv, NodesOK
    <3> QED
      BY <3>1, <3>2 DEF NodeOK
  <2>2. CASE stack # <<>>
    BY <1>1, <1>3, <2>2, AboveLine DEF Interrupts
  <2> QED
    BY <2>1, <2>2
<1> QED
  BY <1>1, <1>2, <1>3 DEF Untouched

\* A call from a hook keeps the order of the steps that it does not interrupt.
LEMMA CallOrder ==
  ASSUME TypeInv, ReachInv, NEW about \in SUBSET Nodes, NEW new, AllGood(new),
         NEW under, AllGood(under), Same(under, stack), Call(about, new, under),
         parent' \in [Nodes -> Nodes \cup {None}], NoCycle(parent'),
         \A k \in 1..Len(new) : new[k].node \in about \cup {None},
         Ordered(parent', interrupted', new), AllFine(parent', interrupted', new),
         AllFine(parent', interrupted', under),
         \A m \in Nodes : Line(parent, m) \cap about = {} => Line(parent', m) = Line(parent, m)
  PROVE  /\ FrameInv' /\ OrderInv'
         /\ \A n, op : Has(n, op)' <=> In(new, n, op) \/ Has(n, op)
         /\ \A p, loop, n : Waits(p, loop, n)' <=> Left(new, p, loop, n) \/ Left(under, p, loop, n)
<1> DEFINE both == new \o under
<1>1. stack' = both /\ Untouched(about)
  BY CallUntouched DEF Call
<1>2. /\ AllGood(both)
      /\ \A n, op : In(both, n, op) <=> In(new, n, op) \/ In(under, n, op)
      /\ \A p, loop, n : Left(both, p, loop, n) <=> Left(new, p, loop, n) \/ Left(under, p, loop, n)
  BY GoodConcat, InConcat
<1>3. \A n, op : In(under, n, op) <=> Has(n, op)
  BY InSame DEF Has
\* A step that is uninterrupted has the nodes above it it had.
<1>4. ASSUME NEW k \in 1..Len(under), under[k].node \in Nodes \ interrupted'
      PROVE  /\ Line(parent', under[k].node) = Line(parent, under[k].node)
             /\ Line(parent, under[k].node) \cap about = {}
  <2> DEFINE m == under[k].node
  <2>1. In(under, m, under[k].op)
    BY DEF In
  <2>2. Has(m, under[k].op)
    BY <1>3, <2>1
  <2>3. Line(parent, m) \cap about = {}
    BY <1>1, <1>4, <2>2 DEF Untouched
  <2> QED
    BY <1>4, <2>3
<1>5. Ordered(parent', interrupted', under)
  <2> SUFFICES ASSUME NEW j \in 1..Len(under), NEW k \in 1..Len(under), j < k
               PROVE  Fits(parent', interrupted', under[j], under[k])
    BY DEF Ordered
  <2>1. /\ j \in 1..Len(stack) /\ k \in 1..Len(stack)
        /\ under[j].op = stack[j].op /\ under[j].node = stack[j].node
        /\ under[k].op = stack[k].op /\ under[k].node = stack[k].node
    BY DEF Same
  <2>2. Fits(parent, interrupted, stack[j], stack[k])
    BY <2>1 DEF ReachInv, OrderInv, Ordered
  <2>3. interrupted \subseteq interrupted'
    BY <1>1 DEF Untouched
  <2> QED
    BY <1>4, <2>1, <2>2, <2>3 DEF Fits
<1>6. ASSUME NEW j \in 1..Len(new), NEW k \in 1..Len(under)
      PROVE  Fits(parent', interrupted', new[j], under[k])
  <2> SUFFICES ASSUME under[k].node \in Nodes \ interrupted', new[j].node \in Line(parent', under[k].node)
               PROVE  FALSE
    BY DEF Fits
  <2>1. new[j].node \in Line(parent, under[k].node) /\ new[j].node \notin about
    BY <1>4
  <2>2. None \notin Line(parent, under[k].node)
    BY NodeAssumption DEF Line
  <2> QED
    BY <2>1, <2>2
<1>7. Ordered(parent', interrupted', both) /\ AllFine(parent', interrupted', both)
  BY <1>5, <1>6, OrderedConcat, FineConcat
<1> HIDE DEF both
<1>8. FrameInv' /\ OrderInv'
  BY <1>1, <1>2, <1>7 DEF FrameInv, OrderInv
<1>9. \A n, op : Has(n, op)' <=> In(new, n, op) \/ Has(n, op)
  BY <1>1, <1>2, <1>3 DEF Has
<1>10. \A p, loop, n : Waits(p, loop, n)' <=> Left(new, p, loop, n) \/ Left(under, p, loop, n)
  BY <1>1, <1>2 DEF Waits
<1> QED
  BY <1>8, <1>9, <1>10

\* What a call that does not move a node puts on the stack: a node it ends is ended by
\* deactivate(), and one it activates has an active parent.
Calls(about, new) ==
  /\ AllGood(new) /\ \A k \in 1..Len(new) : new[k].node \in about \cup {None}
  /\ \A k \in 1..Len(new) :
       new[k].op \in {"activate", "deactivate", "disabled", "removed", "release", "callback", "done"} \cup Marks
  /\ \A n : In(new, n, "disabled") \/ In(new, n, "removed") \/ In(new, n, "onDestroy") =>
              n = None \/ In(new, n, "deactivate")
  /\ \A n \in about : /\ In(new, n, "deactivate") /\ parent[n] # None => In(new, n, "disabled") \/ In(new, n, "removed")
                      /\ In(new, n, "activate") => Under(parent[n])
  /\ \A k \in 1..Len(new) : new[k].op = "removed" => new[k].rest[1] = parent[new[k].node]
  /\ \A j, k \in 1..Len(new) : j < k /\ new[k].node # None =>
       IF new[j].node = new[k].node THEN Follows(new[j].op, new[k].op)
       ELSE new[j].node \notin Line(parent, new[k].node)

\* A call that moves no node keeps the invariant of the nodes.
LEMMA CallKeeps ==
  ASSUME TypeInv, ReachInv, NEW about \in SUBSET Nodes, NEW new, Calls(about, new), Call(about, new, stack),
         nested' \in 0..MaxNested, UNCHANGED <<parent, active, afterActive, deactivating, compiled, told>>, TreeInv',
         enabled' \in [Nodes -> BOOLEAN], \A n \in Nodes \ about : enabled'[n] = enabled[n],
         \A n \in about : /\ enabled[n] => enabled'[n]
                          /\ enabled'[n] /\ ~enabled[n] /\ Under(parent[n]) /\ parent[n] # None =>
                               active[n] \/ In(new, n, "activate")
  PROVE  TypeInv' /\ ReachInv'
<1>0. OrderInv /\ FlagInv /\ NodesOK /\ EdgesOK /\ UpdatesOK /\ AllGood(new) /\ AllGood(stack) /\ TreeInv
  BY DEF ReachInv, TypeInv, FrameInv, Calls
<1>1. /\ FlagInv' /\ TreeInv' /\ Untouched(about) /\ parent' = parent
      /\ UNCHANGED <<active, afterActive, deactivating, compiled, told>>
  BY <1>0, CallFlags, CallUntouched
<1>a. \A n \in about : n \notin interrupted' => \A op : ~Has(n, op)
  <2>1. \A n \in Nodes : n \in Line(parent, n)
    BY <1>0, LineProperties DEF TreeInv
  <2> QED
    BY <1>1, <2>1 DEF Untouched
<1>2. Ordered(parent, interrupted', new)
  <2> SUFFICES ASSUME NEW j \in 1..Len(new), NEW k \in 1..Len(new), j < k
               PROVE  Fits(parent, interrupted', new[j], new[k])
    BY DEF Ordered
  <2>1. new[k].node # None =>
          IF new[j].node = new[k].node THEN Follows(new[j].op, new[k].op)
          ELSE new[j].node \notin Line(parent, new[k].node)
    BY DEF Calls
  <2> QED
    BY <2>1, NodeAssumption DEF Fits
<1>3. AllFine(parent, interrupted', new)
  <2>1. \A k \in 1..Len(new) : new[k].op \notin Loops
    BY DEF Calls, Loops, Marks
  <2> QED
    BY <2>1 DEF AllFine, Fine, Calls
<1>4. AllFine(parent, interrupted', stack)
  <2>1. \A k \in 1..Len(stack) : Fine(parent, interrupted, stack[k])
    BY <1>0 DEF OrderInv, AllFine
  <2> QED
    BY <1>1, <2>1 DEF AllFine, Fine, Untouched
<1>5. /\ FrameInv' /\ OrderInv'
      /\ \A n, op : Has(n, op)' <=> In(new, n, op) \/ Has(n, op)
      /\ \A p, loop, n : Waits(p, loop, n)' <=> Left(new, p, loop, n) \/ Waits(p, loop, n)
  <2>1. Same(stack, stack) /\ NoCycle(parent) /\ parent \in [Nodes -> Nodes \cup {None}]
    BY <1>0, SameRefl DEF OrderInv, TreeInv
  <2>2. \A k \in 1..Len(new) : new[k].node \in about \cup {None}
    BY DEF Calls
  <2> QED
    BY <1>0, <1>1, <1>2, <1>3, <1>4, <2>1, <2>2, CallOrder DEF Waits
<1>6. /\ \A n, op : In(new, n, op) => n \in about \cup {None} /\ op \notin Loops
      /\ \A n : \A op \in {"activated", "active", "deactivated", "inactive", "releaseChildren", "released"} :
           ~In(new, n, op)
      /\ \A p, n : \A loop \in Loops : ~Left(new, p, loop, n)
  BY DEF Calls, In, Left, Loops, Marks
<1>7. NodesOK'
  <2> SUFFICES ASSUME NEW n \in Nodes \ interrupted' PROVE NodeOK(n)'
    BY DEF NodesOK
  <2>1. NodeOK(n) /\ n # None
    BY <1>0, <1>1, NodeAssumption DEF NodesOK, Untouched
  <2>2. CASE n \notin about
    <3>1. \A op : Has(n, op)' <=> Has(n, op)
      BY <1>5, <1>6, <2>1, <2>2
    <3>2. enabled'[n] = enabled[n]
      BY <2>2
    <3> QED
      BY <2>1, <3>1, <3>2, <1>1 DEF NodeOK, HasTail, IsEnding
  <2>3. CASE n \in about
    <3>1. \A op : ~Has(n, op) /\ (Has(n, op)' <=> In(new, n, op))
      BY <1>a, <1>5, <2>3
    <3>2. enabled[n] => enabled'[n]
      BY <2>3
    <3>3. /\ ~Has(n, "activated")' /\ ~Has(n, "active")' /\ ~Has(n, "deactivated")' /\ ~Has(n, "inactive")'
          /\ ~Has(n, "activates")' /\ ~Has(n, "deactivates")' /\ ~Has(n, "releaseChildren")' /\ ~Has(n, "released")'
      BY <1>6, <3>1 DEF Loops
    <3>4. Has(n, "disabled")' \/ Has(n, "removed")' \/ Has(n, "onDestroy")' => Has(n, "deactivate")'
      BY <2>1, <3>1 DEF Calls
    <3> QED
      BY <2>1, <3>1, <3>2, <3>3, <3>4, <1>1 DEF NodeOK, HasTail, IsEnding
  <2> QED
    BY <2>2, <2>3
<1>8. EdgesOK'
  <2> SUFFICES ASSUME NEW n \in Nodes \ interrupted', NEW p \in Nodes \ interrupted', parent[n] = p
               PROVE  EdgeOK(p, n)'
    BY <1>1 DEF EdgesOK
  <2>1. EdgeOK(p, n) /\ NodeOK(n) /\ n # None /\ p # None
    BY <1>0, <1>1, NodeAssumption DEF EdgesOK, NodesOK, Untouched
  <2>2. /\ Has(p, "inactive")' <=> Has(p, "inactive")
        /\ \A l \in {"activates", "deactivates"} : Waits(p, l, n)' <=> Waits(p, l, n)
    BY <1>5, <1>6 DEF Loops
  <2>3. CASE n \notin about
    <3>1. \A op : Has(n, op)' <=> Has(n, op)
      BY <1>5, <1>6, <2>1, <2>3
    <3>2. enabled'[n] = enabled[n]
      BY <2>3
    <3> QED
      BY <2>1, <2>2, <3>1, <3>2, <1>1 DEF EdgeOK, HasTail, IsEnding
  <2>4. CASE n \in about
    <3>1. \A op : ~Has(n, op) /\ (Has(n, op)' <=> In(new, n, op))
      BY <1>a, <1>5, <2>4
    <3>2. ~deactivating[p] /\ ~deactivating[n]
      <4>1. p \in Line(parent, n)
        BY <2>1, <1>0, LineProperties DEF TreeInv
      <4> QED
        BY <1>1, <2>1, <2>4, <3>1, <4>1 DEF Untouched, NodeOK
    <3>3. /\ Has(n, "deactivate")' => HasTail(n)'
          /\ Has(n, "activate")' => active[p]
          /\ ~Has(n, "activated")'
      BY <1>6, <2>1, <2>4, <3>1 DEF Calls, HasTail, Under
    <3>4. enabled'[n] /\ ~enabled[n] /\ active[p] => active[n] \/ Has(n, "activate")'
      BY <2>1, <2>4, <3>1 DEF Under
    <3> QED
      BY <2>1, <2>2, <3>1, <3>2, <3>3, <3>4, <1>1 DEF EdgeOK, HasTail, IsEnding
  <2> QED
    BY <2>3, <2>4
<1>9. UpdatesOK'
  BY <1>0, <1>1 DEF UpdatesOK
<1> QED
  BY <1>1, <1>5, <1>7, <1>8, <1>9 DEF TypeInv, ReachInv

\* The steps of the calls are in order: of one that does nothing, ...
LEMMA CallsNone ==
  ASSUME NEW about \in SUBSET Nodes
  PROVE  Calls(about, <<>>)
<1> DEFINE new == <<>>
<1>1. AllGood(new) /\ 1..Len(new) = {} /\ \A n, op : ~In(new, n, op)
  BY Good0, In0
<1> HIDE DEF new
<1>2. Calls(about, new)
  BY <1>1 DEF Calls
<1> QED
  BY <1>2 DEF new

\* ... of one walk, ...
LEMMA CallsOne ==
  ASSUME NEW n \in Nodes, NEW a \in {"activate", "deactivate", "release"},
         a = "activate" => Under(parent[n]), a = "deactivate" => parent[n] = None
  PROVE  Calls({n}, <<Do(a, n)>>) /\ In(<<Do(a, n)>>, n, a)
<1> DEFINE f == Do(a, n)
           new == <<f>>
<1>1. Good(f) /\ f.op = a /\ f.node = n
  BY DoGood DEF Walks, Loops
<1>2. f.op \notin Loops
  BY <1>1 DEF Loops
<1> HIDE DEF f
<1>3. AllGood(new) /\ Len(new) = 1 /\ new[1] = f /\ \A x, op : In(new, x, op) <=> f.node = x /\ f.op = op
  BY <1>1, <1>2, Good1, In1
<1> HIDE DEF new
<1>4. \A k \in 1..Len(new) : k = 1
  BY <1>3
<1>5. \A j, k \in 1..Len(new) : ~(j < k)
  BY <1>3, <1>4
<1>6. \A k \in 1..Len(new) : new[k].node = n /\ new[k].op = a
  BY <1>1, <1>3, <1>4
<1>7. Calls({n}, new)
  BY <1>1, <1>3, <1>5, <1>6, NodeAssumption DEF Calls
<1> QED
  BY <1>1, <1>3, <1>7 DEF new, f

\* ... and of a deactivation with its end.
LEMMA CallsTwo ==
  ASSUME NEW n \in Nodes, NEW f, NEW g, Good(f), Good(g), f.node = n, g.node = n, f.op = "deactivate",
         g.op \in {"disabled", "removed"}, g.op = "removed" => g.rest[1] = parent[n]
  PROVE  Calls({n}, <<f, g>>)
<1> DEFINE new == <<f, g>>
<1>1. /\ AllGood(new) /\ Len(new) = 2 /\ new[1] = f /\ new[2] = g
      /\ \A x, op : In(new, x, op) <=> (f.node = x /\ f.op = op) \/ (g.node = x /\ g.op = op)
  BY Good2, In2
<1> HIDE DEF new
<1>2. \A k \in 1..Len(new) : k = 1 \/ k = 2
  BY <1>1
<1>3. \A k \in 1..Len(new) : /\ new[k].node = n /\ new[k].op \in {"deactivate", "disabled", "removed"}
                             /\ new[k].op = "removed" => new[k].rest[1] = parent[n]
  BY <1>1, <1>2
<1>4. ASSUME NEW j \in 1..Len(new), NEW k \in 1..Len(new), j < k PROVE Follows(new[j].op, new[k].op)
  <2>1. j = 1 /\ k = 2
    BY <1>2, <1>4
  <2> QED
    BY <1>1, <2>1 DEF Follows, Endings, Tails
<1>5. /\ \A x : In(new, x, "disabled") \/ In(new, x, "removed") \/ In(new, x, "onDestroy") => In(new, x, "deactivate")
      /\ In(new, n, "disabled") \/ In(new, n, "removed")
      /\ ~In(new, n, "activate")
  BY <1>1
<1>6. Calls({n}, new)
  BY <1>1, <1>3, <1>4, <1>5 DEF Calls
<1> QED
  BY <1>6 DEF new

\* enable(), enableForce(), disable(), removeFromParent() and release().
LEMMA EnableCall ==
  ASSUME TypeInv, ReachInv, NEW n \in Nodes, NEW force \in BOOLEAN, Enable(n, force)
  PROVE  TypeInv' /\ ReachInv'
<1> DEFINE pushes == ~active[n] /\ Under(parent[n]) /\ (force \/ parent[n] # None)
           new == IF pushes THEN <<Do("activate", n)>> ELSE <<>>
<1>1. /\ Script /\ Call({n}, new, stack) /\ enabled' = [enabled EXCEPT ![n] = @ \/ ~active[n]]
      /\ UNCHANGED <<tree, active, afterActive, deactivating, compiled, told>>
  BY DEF Enable
<1>2. Calls({n}, new) /\ (pushes => In(new, n, "activate"))
  <2>1. CASE pushes
    BY <2>1, CallsOne
  <2>2. CASE ~pushes
    BY <2>2, CallsNone
  <2> QED
    BY <2>1, <2>2
<1> HIDE DEF new
<1>3. FlagInv /\ nested' \in 0..MaxNested
  BY <1>1, ScriptNested DEF TypeInv
<1>4. /\ enabled' \in [Nodes -> BOOLEAN]
      /\ \A m \in Nodes : enabled'[m] = IF m = n THEN enabled[n] \/ ~active[n] ELSE enabled[m]
  BY <1>1, <1>3 DEF FlagInv
<1>5. \A m \in {n} : /\ enabled[m] => enabled'[m]
                     /\ enabled'[m] /\ ~enabled[m] /\ Under(parent[m]) /\ parent[m] # None =>
                          active[m] \/ In(new, m, "activate")
  BY <1>2, <1>4
<1>6. UNCHANGED parent /\ TreeInv'
  BY <1>1 DEF tree, TypeInv, TreeInv, RootInv
<1> QED
  BY <1>1, <1>2, <1>3, <1>4, <1>5, <1>6, CallKeeps

\* disable(), removeFromParent() and release() keep the invariant of the nodes.
LEMMA PlainCall ==
  ASSUME TypeInv, ReachInv, NEW n \in Nodes, Disable(n) \/ RemoveFromParent(n) \/ CallRelease(n)
  PROVE  TypeInv' /\ ReachInv'
<1>1. TreeInv /\ FlagInv
  BY DEF TypeInv
<1>2. PICK new : /\ Calls({n}, new) /\ Call({n}, new, stack) /\ Script /\ UNCHANGED <<tree, flags, told>>
  <2> DEFINE d == Do("deactivate", n)
  <2>1. Good(d) /\ d.op = "deactivate" /\ d.node = n
    BY DoGood DEF Walks, Loops
  <2>2. CASE Disable(n)
    <3> DEFINE e == Do("disabled", n)
    <3>1. Good(e) /\ e.op = "disabled" /\ e.node = n
      BY DoGood DEF Walks, Loops
    <3>2. Call({n}, <<d, e>>, stack) /\ Script /\ UNCHANGED <<tree, flags, told>>
      BY <2>2 DEF Disable
    <3> HIDE DEF d, e
    <3> QED
      BY <2>1, <3>1, <3>2, CallsTwo
  <2>3. CASE RemoveFromParent(n)
    <3> DEFINE e == [op |-> "removed", node |-> n, rest |-> <<parent[n]>>]
    <3>1. parent[n] \in Nodes
      BY <1>1, <2>3 DEF TreeInv, RemoveFromParent
    <3>2. Good(e) /\ e.op = "removed" /\ e.node = n /\ e.rest[1] = parent[n]
      BY <3>1 DEF Good, Frame, Walks, Loops
    <3>3. Call({n}, <<d, e>>, stack) /\ Script /\ UNCHANGED <<tree, flags, told>>
      BY <2>3 DEF RemoveFromParent
    <3> HIDE DEF d, e
    <3> QED
      BY <2>1, <3>2, <3>3, CallsTwo
  <2>4. CASE CallRelease(n)
    <3>1. Call({n}, <<Do("release", n)>>, stack) /\ Script /\ UNCHANGED <<tree, flags, told>>
      BY <2>4 DEF CallRelease
    <3>2. Calls({n}, <<Do("release", n)>>)
      BY CallsOne
    <3> QED
      BY <3>1, <3>2
  <2> QED
    BY <2>2, <2>3, <2>4
<1>3. /\ nested' \in 0..MaxNested /\ enabled' = enabled /\ enabled' \in [Nodes -> BOOLEAN]
      /\ UNCHANGED <<parent, active, afterActive, deactivating, compiled, told>> /\ TreeInv'
  BY <1>1, <1>2, ScriptNested DEF flags, FlagInv, tree, TreeInv, RootInv
<1> QED
  BY <1>2, <1>3, CallKeeps

------------------------------------------------------------------------------
(* The moves of a node *)

\* A sequence with another element.
LEMMA AppendNew ==
  ASSUME NEW S, NEW q \in Seq(S), NEW e \in S, IsInjective(q), e \notin ToSet(q)
  PROVE  /\ Append(q, e) \in Seq(S) /\ IsInjective(Append(q, e))
         /\ ToSet(Append(q, e)) = ToSet(q) \cup {e}
<1> DEFINE a == Append(q, e)
<1>1. /\ a \in Seq(S) /\ Len(a) = Len(q) + 1 /\ Len(q) \in Nat
      /\ \A j \in 1..Len(q) : a[j] = q[j]
      /\ a[Len(q) + 1] = e
  BY AppendProperties
<1>2. /\ ToSet(q) = {q[k] : k \in 1..Len(q)} /\ \A j, k \in 1..Len(q) : q[j] = q[k] => j = k
      /\ DOMAIN q = 1..Len(q)
  BY DEF ToSet, IsInjective
<1> HIDE DEF a
<1>3. /\ ToSet(a) = {a[k] : k \in 1..Len(a)} /\ DOMAIN a = 1..Len(a)
      /\ \A j \in 1..Len(a) : j \in 1..Len(q) \/ j = Len(q) + 1
  BY <1>1 DEF ToSet
<1>4. \A j \in 1..Len(q) : q[j] # e
  BY <1>2
<1>5. \A i, j \in 1..Len(a) : a[i] = a[j] => i = j
  BY <1>1, <1>2, <1>3, <1>4
<1>6. \A x \in ToSet(a) : x \in ToSet(q) \cup {e}
  BY <1>1, <1>2, <1>3
<1>7. \A k \in 1..Len(q) : k \in 1..Len(a)
  BY <1>1
<1>8. \A x \in ToSet(q) : x \in ToSet(a)
  BY <1>1, <1>2, <1>3, <1>7
<1>9. e \in ToSet(a)
  <2>1. Len(q) + 1 \in 1..Len(a)
    BY <1>1
  <2> QED
    BY <1>1, <1>3, <2>1
<1>10. IsInjective(a) /\ ToSet(a) = ToSet(q) \cup {e}
  BY <1>3, <1>5, <1>6, <1>8, <1>9 DEF IsInjective
<1> QED
  BY <1>1, <1>10 DEF a

\* Loops that have children left to visit, each once.
Distinct(frames) == \A k \in 1..Len(frames) : frames[k].op \in Loops => IsInjective(frames[k].rest)

\* A child that is removed leaves the loops over the children, and only it does.
LEMMA LeavesRest ==
  ASSUME NEW frames, AllGood(frames), Distinct(frames), NEW c, NEW k \in 1..Len(frames)
  PROVE  /\ frames[k].op \in Loops => /\ IsInjective(Leaves(frames, c)[k].rest)
                                      /\ ToSet(Leaves(frames, c)[k].rest) = ToSet(frames[k].rest) \ {c}
         /\ frames[k].op \notin Loops => Leaves(frames, c)[k] = frames[k]
<1> DEFINE f == frames[k]
           rest == RemoveFirst(f.rest, c)
<1>1. Good(f) /\ k \in DOMAIN frames
  BY DEF AllGood
<1>2. Leaves(frames, c)[k] = IF f.op \in Loops THEN [f EXCEPT !.rest = rest] ELSE f
  BY <1>1 DEF Leaves
<1>3. CASE f.op \in Loops
  <2>1. f.rest \in Seq(Nodes) /\ IsInjective(f.rest)
    BY <1>1, <1>3 DEF Good, Frame, Distinct
  <2>2. rest \in Seq(Nodes) /\ IsInjective(rest) /\ ToSet(rest) = ToSet(f.rest) \ {c}
    BY <2>1, RemoveFirstProperties
  <2>3. \A g \in Frame : [g EXCEPT !.rest = rest].rest = rest
    BY DEF Frame
  <2>4. Leaves(frames, c)[k].rest = rest
    BY <1>1, <1>2, <1>3, <2>3 DEF Good
  <2> QED
    BY <1>3, <2>2, <2>4
<1>4. CASE f.op \notin Loops
  BY <1>2, <1>4
<1> QED
  BY <1>3, <1>4

\* A child that is added joins the loops over the children of its new parent.
LEMMA JoinsRest ==
  ASSUME NEW frames, AllGood(frames), Distinct(frames), NEW p, NEW c \in Nodes, NEW k \in 1..Len(frames),
         frames[k].op \in Loops => c \notin ToSet(frames[k].rest)
  PROVE  /\ frames[k].op \in Loops =>
              /\ IsInjective(Joins(frames, p, c)[k].rest)
              /\ ToSet(Joins(frames, p, c)[k].rest) =
                   ToSet(frames[k].rest) \cup (IF frames[k].node = p THEN {c} ELSE {})
         /\ frames[k].op \notin Loops => Joins(frames, p, c)[k] = frames[k]
<1> DEFINE f == frames[k]
           rest == Append(f.rest, c)
<1>1. Good(f) /\ k \in DOMAIN frames
  BY DEF AllGood
<1>2. Joins(frames, p, c)[k] = IF f.op \in Loops /\ f.node = p THEN [f EXCEPT !.rest = rest] ELSE f
  BY <1>1 DEF Joins
<1>3. CASE f.op \in Loops /\ f.node = p
  <2>1. f.rest \in Seq(Nodes) /\ IsInjective(f.rest)
    BY <1>1, <1>3 DEF Good, Frame, Distinct
  <2>2. rest \in Seq(Nodes) /\ IsInjective(rest) /\ ToSet(rest) = ToSet(f.rest) \cup {c}
    BY <1>3, <2>1, AppendNew
  <2>3. \A g \in Frame : [g EXCEPT !.rest = rest].rest = rest
    BY DEF Frame
  <2>4. Joins(frames, p, c)[k].rest = rest
    BY <1>1, <1>2, <1>3, <2>3 DEF Good
  <2> QED
    BY <1>3, <2>2, <2>4
<1>4. CASE ~(f.op \in Loops /\ f.node = p)
  BY <1>2, <1>4 DEF Distinct
<1> QED
  BY <1>3, <1>4

\* What is left of a stack when a node leaves its parent: its loops do not visit it.
LEMMA LeavesFine ==
  ASSUME NEW par, NEW int, NEW frames, AllGood(frames), AllFine(par, int, frames), NEW c
  PROVE  LET under == Leaves(frames, c)
         IN  /\ AllGood(under) /\ Same(under, frames) /\ Distinct(under)
             /\ \A k \in 1..Len(frames) :
                  /\ under[k].op \in Loops => ToSet(under[k].rest) = ToSet(frames[k].rest) \ {c}
                  /\ under[k].op \notin Loops => under[k] = frames[k]
             /\ \A p, n : \A loop \in Loops : Left(under, p, loop, n) <=> n # c /\ Left(frames, p, loop, n)
<1> DEFINE under == Leaves(frames, c)
<1>1. AllGood(under) /\ Same(under, frames)
  BY LeavesGood
<1>2. Distinct(frames)
  BY DEF AllFine, Fine, Distinct
<1>3. ASSUME NEW k \in 1..Len(frames)
      PROVE  /\ under[k].op \in Loops => IsInjective(under[k].rest) /\ ToSet(under[k].rest) = ToSet(frames[k].rest) \ {c}
             /\ under[k].op \notin Loops => under[k] = frames[k]
             /\ under[k].op = frames[k].op /\ under[k].node = frames[k].node
  <2>1. under[k].op = frames[k].op /\ under[k].node = frames[k].node
    BY <1>1 DEF Same
  <2> QED
    BY <1>2, <2>1, LeavesRest
<1> HIDE DEF under
<1>4. Len(under) = Len(frames) /\ Distinct(under)
  BY <1>1, <1>3 DEF Same, Distinct
<1>5. ASSUME NEW p, NEW n, NEW loop \in Loops
      PROVE  Left(under, p, loop, n) <=> n # c /\ Left(frames, p, loop, n)
  <2> DEFINE Waiting(f) == f.node = p /\ f.op = loop /\ n \in ToSet(f.rest)
  <2>1. \A q : Left(q, p, loop, n) <=> \E k \in 1..Len(q) : Waiting(q[k])
    BY DEF Left
  <2>2. \A k \in 1..Len(frames) : Waiting(under[k]) <=> n # c /\ Waiting(frames[k])
    BY <1>3
  <2> HIDE DEF Waiting
  <2> QED
    BY <1>4, <2>1, <2>2
<1> QED
  BY <1>1, <1>3, <1>4, <1>5 DEF under

\* removeChild() when the node is still a child of the parent it is removed from.
LEMMA DetachOrder ==
  ASSUME TypeInv, ReachInv, At("removed"), Detach(Top.node), parent[Top.node] # None,
         stack' = Leaves(Tail(stack), Top.node), UNCHANGED interrupted
  PROVE  /\ TreeInv' /\ FrameInv' /\ OrderInv' /\ parent' = [parent EXCEPT ![Top.node] = None]
         /\ \A n, op : Has(n, op)' <=> Deep(n, op)
         /\ \A p, n : n # Top.node => \A loop \in Loops : Waits(p, loop, n)' <=> DeepWaits(p, loop, n)
<1> DEFINE t == Top.node
           q == Tail(stack)
           under == Leaves(q, t)
<1>0. OrderInv /\ FrameInv /\ TreeInv
  BY DEF ReachInv, TypeInv
<1>1. stack # <<>> /\ Top.op = "removed" /\ t \in Nodes /\ \A o : t \notin interrupted /\ Deep(t, o) => Follows("removed", o)
  BY <1>0, AtTop DEF Walks
<1>2. AllGood(q) /\ Ordered(parent, interrupted, q) /\ AllFine(parent, interrupted, q)
  BY <1>0, <1>1, TopOrder
<1>3. /\ AllGood(under) /\ Same(under, q) /\ Distinct(under)
      /\ \A k \in 1..Len(q) : /\ under[k].op \in Loops => ToSet(under[k].rest) = ToSet(q[k].rest) \ {t}
                              /\ under[k].op \notin Loops => under[k] = q[k]
      /\ \A p, n : \A loop \in Loops : Left(under, p, loop, n) <=> n # t /\ Left(q, p, loop, n)
  BY <1>2, LeavesFine
<1>4. stack' = under /\ interrupted' = interrupted /\ TreeInv' /\ parent' = [parent EXCEPT ![t] = None]
  BY <1>0, <1>1, DetachTree DEF Detach
<1> HIDE DEF under
<1>5. /\ parent \in [Nodes -> Nodes \cup {None}] /\ NoCycle(parent)
      /\ \A c \in Nodes : parent'[c] = IF c = t THEN None ELSE parent[c]
  BY <1>0, <1>1, <1>4 DEF TreeInv, OrderInv
<1>6. NoCycle(parent')
  BY <1>1, <1>4, <1>5, CycleDetach
<1>7. \A m \in Nodes : Line(parent', m) \subseteq Line(parent, m)
  BY <1>1, <1>4, <1>5, LineDetach
<1>8. Len(under) = Len(q) /\ \A k \in 1..Len(under) : under[k].op = q[k].op /\ under[k].node = q[k].node
  BY <1>3 DEF Same
<1>9. Ordered(parent', interrupted, under)
  <2> SUFFICES ASSUME NEW j \in 1..Len(under), NEW k \in 1..Len(under), j < k
               PROVE  Fits(parent', interrupted, under[j], under[k])
    BY DEF Ordered
  <2>1. Fits(parent, interrupted, q[j], q[k])
    BY <1>2, <1>8 DEF Ordered
  <2> QED
    BY <1>7, <1>8, <2>1 DEF Fits
<1>10. AllFine(parent', interrupted, under)
  <2> SUFFICES ASSUME NEW k \in 1..Len(under) PROVE Fine(parent', interrupted, under[k])
    BY DEF AllFine
  <2>1. Fine(parent, interrupted, q[k]) /\ Good(q[k])
    BY <1>2, <1>8 DEF AllFine, AllGood
  <2>2. CASE under[k].op \in Loops
    <3>1. ToSet(under[k].rest) = ToSet(q[k].rest) \ {t} /\ IsInjective(under[k].rest)
      BY <1>3, <1>8, <2>2 DEF Distinct
    <3>2. ToSet(q[k].rest) \subseteq Nodes
      <4> DEFINE r == q[k].rest
      <4>1. r \in Seq(Nodes)
        BY <2>1 DEF Good, Frame
      <4> HIDE DEF r
      <4>2. ToSet(r) \subseteq Nodes
        BY <4>1 DEF ToSet
      <4> QED
        BY <4>2 DEF r
    <3> QED
      BY <1>5, <1>8, <2>1, <2>2, <3>1, <3>2 DEF Fine, Loops
  <2>3. CASE under[k].op \notin Loops
    <3>1. under[k] = q[k]
      BY <1>3, <1>8, <2>3
    <3>2. q[k].op = "removed" /\ q[k].node \notin interrupted => q[k].node \in Nodes \ {t}
      <4> SUFFICES ASSUME q[k].op = "removed", q[k].node \notin interrupted PROVE q[k].node \in Nodes \ {t}
        OBVIOUS
      <4>1. q[k].node \in Nodes
        BY <2>1 DEF Good, Walks
      <4>2. Deep(q[k].node, "removed")
        BY <1>8 DEF Deep, In
      <4>3. ~Follows("removed", "removed")
        BY DEF Follows, Hooks, Endings
      <4> QED
        BY <1>1, <4>1, <4>2, <4>3
    <3> QED
      BY <1>5, <2>1, <2>3, <3>1, <3>2 DEF Fine
  <2> QED
    BY <2>2, <2>3
<1>11. FrameInv' /\ OrderInv'
  BY <1>3, <1>4, <1>6, <1>9, <1>10 DEF FrameInv, OrderInv
<1>12. \A n, op : Has(n, op)' <=> Deep(n, op)
  BY <1>3, <1>4, InSame DEF Has, Deep
<1>13. \A p, n : n # t => \A loop \in Loops : Waits(p, loop, n)' <=> DeepWaits(p, loop, n)
  BY <1>3, <1>4 DEF Waits, DeepWaits
<1> QED
  BY <1>4, <1>11, <1>12, <1>13

\* The move out of a parent keeps the invariant: the node is inactive by then.
LEMMA DetachStep ==
  ASSUME TypeInv, ReachInv, Removed
  PROVE  TypeInv' /\ ReachInv'
<1> DEFINE t == Top.node
<1>0. OrderInv /\ FlagInv /\ NodesOK /\ EdgesOK /\ UpdatesOK /\ FrameInv /\ TreeInv
  BY DEF ReachInv, TypeInv
<1>1. /\ At("removed") /\ UNCHANGED <<flags, nested, told, interrupted>>
      /\ \/ parent[t] = Top.rest[1] /\ Detach(t) /\ stack' = Leaves(Tail(stack), t)
         \/ parent[t] # Top.rest[1] /\ UNCHANGED tree /\ stack' = Tail(stack)
  BY DEF Removed
<1>2. /\ stack # <<>> /\ Top.op = "removed" /\ t \in Nodes /\ Good(Top)
      /\ \A n, o : Has(n, o) <=> (t = n /\ "removed" = o) \/ Deep(n, o)
      /\ \A p, loop, n : Waits(p, loop, n) <=>
           (t = p /\ "removed" = loop /\ n \in ToSet(Top.rest)) \/ DeepWaits(p, loop, n)
      /\ \A o : t \notin interrupted /\ Deep(t, o) => Follows("removed", o)
      /\ Fine(parent, interrupted, Top)
  BY <1>0, <1>1, AtTop, TopOrder DEF Walks
<1>4. /\ UNCHANGED <<enabled, active, afterActive, deactivating, compiled, told, interrupted>>
      /\ FlagInv'
  BY <1>0, <1>1 DEF flags, FlagInv
\* The node keeps its parent when a hook moved it, and only then.
<1>3. /\ TreeInv' /\ FrameInv' /\ OrderInv'
      /\ \A n, op : Has(n, op)' <=> Deep(n, op)
      /\ \A p : \A n \in Nodes \ interrupted : \A loop \in Loops :
           n # t \/ t \in interrupted => (Waits(p, loop, n)' <=> DeepWaits(p, loop, n))
      /\ \A n \in Nodes \ interrupted : parent'[n] = IF n = t THEN None ELSE parent[n]
  <2>1. CASE parent[t] = Top.rest[1] /\ Detach(t) /\ stack' = Leaves(Tail(stack), t)
    <3>1. parent[t] # None
      <4>1. Top.rest \in Seq(Nodes) /\ Top.rest # <<>>
        BY <1>2 DEF Good, Frame, Walks
      <4>2. Top.rest[1] \in Nodes
        BY <4>1
      <4> QED
        BY <4>2, <2>1, NodeAssumption
    <3>2. /\ TreeInv' /\ FrameInv' /\ OrderInv' /\ parent' = [parent EXCEPT ![t] = None]
          /\ \A n, op : Has(n, op)' <=> Deep(n, op)
          /\ \A p, n : n # t => \A loop \in Loops : Waits(p, loop, n)' <=> DeepWaits(p, loop, n)
      BY <1>1, <1>4, <2>1, <3>1, DetachOrder
    <3>3. \A n \in Nodes : parent'[n] = IF n = t THEN None ELSE parent[n]
      BY <1>0, <1>2, <3>2 DEF TreeInv
    <3> QED
      BY <3>2, <3>3
  <2>2. CASE parent[t] # Top.rest[1] /\ UNCHANGED tree /\ stack' = Tail(stack)
    <3>1. t \in interrupted
      BY <1>2, <2>2 DEF Fine
    <3>2. Return
      <4>1. Tail(stack) \in Seq(Frame)
        BY <1>0, <1>2, Below DEF AllGood
      <4>2. stack' = <<>> \o Tail(stack)
        BY <2>2, <4>1, ConcatEmptySeq
      <4> QED
        BY <1>1, <4>2 DEF Return, Goto
    <3>3. /\ TreeInv' /\ FrameInv' /\ OrderInv'
          /\ \A n, op : Has(n, op)' <=> Deep(n, op)
          /\ \A p, loop, n : Waits(p, loop, n)' <=> DeepWaits(p, loop, n)
      BY <1>0, <1>2, <2>2, <3>2, Returns
    <3>4. parent' = parent
      BY <2>2 DEF tree
    <3> QED
      BY <3>1, <3>3, <3>4
  <2> QED
    BY <1>1, <2>1, <2>2
<1>a. t \notin interrupted => Alone(t)
  BY <1>2 DEF Follows, Hooks, Endings, Alone
<1> HIDE DEF t
<1>5. NodesOK'
  <2> SUFFICES ASSUME NEW n \in Nodes \ interrupted PROVE NodeOK(n)'
    BY <1>4 DEF NodesOK
  <2>1. NodeOK(n)
    BY <1>0 DEF NodesOK
  <2>2. CASE n # t
    BY <2>1, <2>2, <1>2, <1>3, <1>4 DEF NodeOK, HasTail, IsEnding
  <2>3. CASE n = t
    <3>1. Alone(n)
      BY <1>a, <2>3
    <3>2. /\ ~Has(n, "deactivate")' /\ ~Has(n, "active")' /\ ~Has(n, "active") /\ ~Has(n, "activated")'
          /\ ~Has(n, "deactivated") /\ ~Has(n, "deactivated")' /\ ~Has(n, "inactive") /\ ~Has(n, "inactive")'
          /\ ~Has(n, "deactivate") /\ ~Has(n, "activates")' /\ ~Has(n, "deactivates")' /\ Has(n, "removed")
          /\ ~Has(n, "disabled")' /\ ~Has(n, "removed")' /\ ~Has(n, "releaseChildren")' /\ ~Has(n, "released")'
          /\ ~Has(n, "onDestroy")'
      BY <2>3, <3>1, <1>2, <1>3 DEF Alone
    <3> QED
      BY <2>1, <3>2, <1>4 DEF NodeOK, IsEnding, HasTail
  <2> QED
    BY <2>2, <2>3
<1>6. EdgesOK'
  <2> SUFFICES ASSUME NEW n \in Nodes \ interrupted, NEW p \in Nodes \ interrupted, parent'[n] = p
               PROVE  EdgeOK(p, n)'
    BY <1>4 DEF EdgesOK
  <2>1. n # t /\ parent[n] = p
    BY <1>3, NodeAssumption
  <2>2. EdgeOK(p, n)
    BY <1>0, <2>1 DEF EdgesOK
  <2>3. /\ \A op : Has(n, op)' <=> Has(n, op)
        /\ Has(p, "inactive")' <=> Has(p, "inactive")
        /\ \A loop \in Loops : Waits(p, loop, n)' <=> Waits(p, loop, n)
    BY <1>2, <1>3, <2>1 DEF Loops
  <2> QED
    BY <2>2, <2>3, <1>4 DEF EdgeOK, HasTail, IsEnding, Loops
<1>7. UpdatesOK'
  BY <1>0, <1>4 DEF UpdatesOK
<1> QED
  BY <1>3, <1>4, <1>5, <1>6, <1>7 DEF TypeInv, ReachInv

\* The stack when a node gets a parent: the loops over its children visit it too.
LEMMA JoinsFine ==
  ASSUME NEW frames, AllGood(frames), Distinct(frames), NEW p, NEW c \in Nodes \ Root,
         \A k \in 1..Len(frames) : frames[k].op \in Loops => c \notin ToSet(frames[k].rest)
  PROVE  LET under == Joins(frames, p, c)
         IN  /\ AllGood(under) /\ Same(under, frames) /\ Distinct(under)
             /\ \A k \in 1..Len(frames) :
                  /\ under[k].op \in Loops =>
                       ToSet(under[k].rest) = ToSet(frames[k].rest) \cup (IF frames[k].node = p THEN {c} ELSE {})
                  /\ under[k].op \notin Loops => under[k] = frames[k]
             /\ \A q, n : \A loop \in Loops : n # c => (Left(under, q, loop, n) <=> Left(frames, q, loop, n))
<1> DEFINE under == Joins(frames, p, c)
<1>1. AllGood(under) /\ Same(under, frames)
  BY JoinsGood
<1>3. ASSUME NEW k \in 1..Len(frames)
      PROVE  /\ under[k].op \in Loops =>
                  /\ IsInjective(under[k].rest)
                  /\ ToSet(under[k].rest) = ToSet(frames[k].rest) \cup (IF frames[k].node = p THEN {c} ELSE {})
             /\ under[k].op \notin Loops => under[k] = frames[k]
             /\ under[k].op = frames[k].op /\ under[k].node = frames[k].node
  <2>1. under[k].op = frames[k].op /\ under[k].node = frames[k].node
    BY <1>1 DEF Same
  <2> QED
    BY <2>1, JoinsRest
<1> HIDE DEF under
<1>4. Len(under) = Len(frames) /\ Distinct(under)
  BY <1>1, <1>3 DEF Same, Distinct
<1>5. ASSUME NEW q, NEW n, NEW loop \in Loops, n # c
      PROVE  Left(under, q, loop, n) <=> Left(frames, q, loop, n)
  <2> DEFINE Waiting(f) == f.node = q /\ f.op = loop /\ n \in ToSet(f.rest)
  <2>1. \A s : Left(s, q, loop, n) <=> \E k \in 1..Len(s) : Waiting(s[k])
    BY DEF Left
  <2>2. \A k \in 1..Len(frames) : Waiting(under[k]) <=> Waiting(frames[k])
    BY <1>3, <1>5
  <2> HIDE DEF Waiting
  <2> QED
    BY <1>4, <2>1, <2>2
<1> QED
  BY <1>1, <1>3, <1>4, <1>5 DEF under

\* addChild() of a node that is not the last child of the parent yet.
LEMMA AttachOrder ==
  ASSUME TypeInv, ReachInv, NEW p \in Nodes, NEW n \in Nodes \ Root, n \notin Line(parent, p),
         NEW new, AllGood(new), \A k \in 1..Len(new) : new[k].node = n /\ new[k].op \in {"activate", "deactivate"},
         Len(new) <= 1, parent' \in [Nodes -> Nodes \cup {None}], NoCycle(parent'),
         \A c \in Nodes : parent'[c] = IF c = n THEN p ELSE parent[c],
         Call({p, n}, new, Joins(Leaves(stack, n), p, n))
  PROVE  /\ FrameInv' /\ OrderInv'
         /\ \A m, op : Has(m, op)' <=> In(new, m, op) \/ Has(m, op)
         /\ \A q, m : m # n => \A loop \in Loops : Waits(q, loop, m)' <=> Waits(q, loop, m)
<1> DEFINE left == Leaves(stack, n)
           under == Joins(left, p, n)
           about == {p, n}
<1>0. TreeInv /\ AllGood(stack) /\ AllFine(parent, interrupted, stack) /\ NoCycle(parent) /\ Untouched(about)
  BY CallUntouched DEF TypeInv, FrameInv, ReachInv, OrderInv
<1>1. /\ AllGood(left) /\ Same(left, stack) /\ Distinct(left)
      /\ \A k \in 1..Len(stack) : /\ left[k].op \in Loops => ToSet(left[k].rest) = ToSet(stack[k].rest) \ {n}
                                  /\ left[k].op \notin Loops => left[k] = stack[k]
      /\ \A q, m : \A loop \in Loops : Left(left, q, loop, m) <=> m # n /\ Left(stack, q, loop, m)
  BY <1>0, LeavesFine
<1> HIDE DEF left
<1>2. /\ Len(left) = Len(stack)
      /\ \A k \in 1..Len(stack) : left[k].op = stack[k].op /\ left[k].node = stack[k].node
  BY <1>1 DEF Same
<1>3. /\ AllGood(under) /\ Same(under, left) /\ Distinct(under)
      /\ \A k \in 1..Len(left) :
           /\ under[k].op \in Loops =>
                ToSet(under[k].rest) = ToSet(left[k].rest) \cup (IF left[k].node = p THEN {n} ELSE {})
           /\ under[k].op \notin Loops => under[k] = left[k]
      /\ \A q, m : \A loop \in Loops : m # n => (Left(under, q, loop, m) <=> Left(left, q, loop, m))
  <2>1. \A k \in 1..Len(left) : left[k].op \in Loops => n \notin ToSet(left[k].rest)
    BY <1>1, <1>2
  <2> QED
    BY <1>1, <2>1, JoinsFine
<1>4. Call(about, new, under) /\ about \in SUBSET Nodes
  BY DEF left
<1> HIDE DEF under
<1>5. /\ Len(under) = Len(stack) /\ Same(under, stack)
      /\ \A k \in 1..Len(stack) : under[k].op = stack[k].op /\ under[k].node = stack[k].node
  BY <1>1, <1>2, <1>3 DEF Same
<1>6. parent \in [Nodes -> Nodes \cup {None}] /\ \A c \in Nodes : parent'[c] = IF c = n THEN p ELSE parent[c]
  BY <1>0 DEF TreeInv
<1>7. \A m \in Nodes : Line(parent, m) \cap about = {} => Line(parent', m) = Line(parent, m)
  BY <1>6, LineAttach
<1>8. AllFine(parent', interrupted', under)
  <2> SUFFICES ASSUME NEW k \in 1..Len(stack) PROVE Fine(parent', interrupted', under[k])
    BY <1>5 DEF AllFine
  <2>1. Fine(parent, interrupted, stack[k]) /\ Good(stack[k])
    BY <1>0 DEF AllFine, AllGood
  <2>2. CASE under[k].op \in Loops
    <3>1. /\ IsInjective(under[k].rest)
          /\ ToSet(under[k].rest) = (ToSet(stack[k].rest) \ {n}) \cup (IF stack[k].node = p THEN {n} ELSE {})
      <4>1. k \in 1..Len(left) /\ k \in 1..Len(under) /\ left[k].op \in Loops /\ left[k].node = stack[k].node
        BY <1>2, <1>5, <2>2
      <4>2. IsInjective(under[k].rest)
        BY <1>3, <2>2, <4>1 DEF Distinct
      <4>3. ToSet(left[k].rest) = ToSet(stack[k].rest) \ {n}
        BY <1>1, <4>1
      <4>4. ToSet(under[k].rest) = ToSet(left[k].rest) \cup (IF left[k].node = p THEN {n} ELSE {})
        BY <1>3, <2>2, <4>1
      <4> QED
        BY <4>1, <4>2, <4>3, <4>4
    <3>2. ToSet(stack[k].rest) \subseteq Nodes
      <4> DEFINE r == stack[k].rest
      <4>1. r \in Seq(Nodes)
        BY <2>1 DEF Good, Frame
      <4> HIDE DEF r
      <4>2. ToSet(r) \subseteq Nodes
        BY <4>1 DEF ToSet
      <4> QED
        BY <4>2 DEF r
    <3>3. \A c \in ToSet(stack[k].rest) : parent[c] = stack[k].node
      BY <1>5, <2>1, <2>2 DEF Fine
    <3>4. \A c \in ToSet(under[k].rest) : parent'[c] = under[k].node
      BY <1>5, <1>6, <3>1, <3>2, <3>3
    <3> QED
      BY <2>2, <3>1, <3>4 DEF Fine, Loops
  <2>3. CASE under[k].op \notin Loops
    <3>1. under[k] = stack[k]
      BY <1>1, <1>2, <1>3, <1>5, <2>3
    <3>2. stack[k].op = "removed" /\ stack[k].node \notin interrupted' => stack[k].node \in Nodes \ {n}
      <4> SUFFICES ASSUME stack[k].op = "removed", stack[k].node \notin interrupted'
                   PROVE  stack[k].node \in Nodes \ {n}
        OBVIOUS
      <4>1. stack[k].node \in Nodes
        BY <2>1 DEF Good, Walks
      <4>2. Has(stack[k].node, "removed")
        BY DEF Has, In
      <4>3. Line(parent, stack[k].node) \cap about = {}
        BY <1>0, <4>1, <4>2 DEF Untouched
      <4>4. stack[k].node \in Line(parent, stack[k].node)
        BY <1>6, <4>1, LineProperties
      <4> QED
        BY <4>1, <4>3, <4>4
    <3>3. interrupted \subseteq interrupted'
      BY <1>0 DEF Untouched
    <3> QED
      BY <1>6, <2>1, <2>3, <3>1, <3>2, <3>3 DEF Fine
  <2> QED
    BY <2>2, <2>3
<1>9. /\ Ordered(parent', interrupted', new) /\ AllFine(parent', interrupted', new)
      /\ \A k \in 1..Len(new) : new[k].node \in about \cup {None}
      /\ \A q, m : \A loop \in Loops : ~Left(new, q, loop, m)
  <2>1. Len(new) \in Nat
    BY DEF AllGood
  <2>2. \A j, k \in 1..Len(new) : ~(j < k)
    BY <2>1
  <2> QED
    BY <2>2 DEF Ordered, AllFine, Fine, Left, Loops
<1> HIDE DEF about
<1>10. /\ FrameInv' /\ OrderInv'
       /\ \A m, op : Has(m, op)' <=> In(new, m, op) \/ Has(m, op)
       /\ \A q, loop, m : Waits(q, loop, m)' <=> Left(new, q, loop, m) \/ Left(under, q, loop, m)
  BY <1>3, <1>4, <1>5, <1>6, <1>7, <1>8, <1>9, CallOrder
<1>11. \A q, m : m # n => \A loop \in Loops : Waits(q, loop, m)' <=> Waits(q, loop, m)
  BY <1>1, <1>3, <1>9, <1>10 DEF Waits
<1> QED
  BY <1>10, <1>11

\* addChild() keeps it: the flags of the node agree with its new parent, or a walk sees to it.
LEMMA AttachStep ==
  ASSUME TypeInv, ReachInv, NEW p \in Nodes, NEW n \in Nodes, AddChild(p, n)
  PROVE  TypeInv' /\ ReachInv'
<1> DEFINE about == {p, n}
           new == CASE active[p] = active[n] -> <<>>
                    [] active[n] /\ ~active[p] -> <<Do("deactivate", n)>>
                    [] active[p] /\ ~active[n] -> <<Do("activate", n)>>
           under == Joins(Leaves(stack, n), p, n)
           last == parent[n] = p /\ Last(children[p]) = n
<1>0. OrderInv /\ FlagInv /\ NodesOK /\ EdgesOK /\ UpdatesOK /\ FrameInv /\ TreeInv
  BY DEF ReachInv, TypeInv
<1>1. /\ Script /\ n \notin Root \cup Above(p) /\ parent' = [parent EXCEPT ![n] = p]
      /\ children' = [m \in Nodes |-> IF m = p THEN Append(RemoveFirst(children[m], n), n)
                                               ELSE RemoveFirst(children[m], n)]
      /\ \/ last /\ Call(about, <<>>, stack)
         \/ ~last /\ Call(about, new, under)
      /\ UNCHANGED <<flags, told>>
  BY DEF AddChild
<1>2. n \in Nodes \ Root /\ n \notin Line(parent, p) /\ n # p
  <2>1. p \in Line(parent, p)
    BY <1>0, LineProperties DEF TreeInv
  <2> QED
    BY <1>1, <2>1, AboveLine
<1>3. TreeInv'
  BY <1>0, <1>1, <1>2, AttachTree
<1>4. /\ UNCHANGED <<enabled, active, afterActive, deactivating, compiled, told>>
      /\ enabled' \in [Nodes -> BOOLEAN]
  BY <1>0, <1>1 DEF flags, FlagInv
<1>5. CASE last /\ Call(about, <<>>, stack)
  <2>1. UNCHANGED parent
    BY <1>0, <1>1, <1>5 DEF TreeInv
  <2>2. nested' \in 0..MaxNested
    BY <1>0, <1>1, <1>5, ScriptNested
  <2>3. about \in SUBSET Nodes
    OBVIOUS
  <2> DEFINE none == <<>>
  <2>4. Calls(about, none) /\ Call(about, none, stack)
    BY <1>5, <2>3, CallsNone
  <2>5. \A m \in about : enabled'[m] = enabled[m]
    BY <1>4
  <2> HIDE DEF none, about
  <2> QED
    BY <1>3, <1>4, <2>1, <2>2, <2>3, <2>4, <2>5, CallKeeps
<1>6. CASE Call(about, new, under)
  <2>1. /\ AllGood(new) /\ Len(new) <= 1
        /\ \A k \in 1..Len(new) : new[k].node = n /\ new[k].op \in {"activate", "deactivate"}
        /\ \A m, op : In(new, m, op) <=> /\ m = n
                                         /\ \/ op = "deactivate" /\ active[n] /\ ~active[p]
                                            \/ op = "activate" /\ active[p] /\ ~active[n]
        /\ \A q, m : \A loop \in Loops : ~Left(new, q, loop, m)
    <3> DEFINE a == Do("activate", n)
               d == Do("deactivate", n)
               none == <<>>
    <3>1. Good(a) /\ a.op = "activate" /\ a.node = n /\ Good(d) /\ d.op = "deactivate" /\ d.node = n
      BY DoGood DEF Walks, Loops
    <3>2. active[p] \in BOOLEAN /\ active[n] \in BOOLEAN
      BY <1>0 DEF FlagInv
    <3>3. \/ new = none /\ active[p] = active[n]
          \/ new = <<a>> /\ active[p] /\ ~active[n]
          \/ new = <<d>> /\ active[n] /\ ~active[p]
      BY <3>2
    <3>4. AllGood(none) /\ Len(none) = 0 /\ \A m, op : ~In(none, m, op)
      BY Good0, In0
    <3> HIDE DEF a, d, new, none
    <3>5. {a.op, d.op} \cap Loops = {}
      BY <3>1 DEF Loops
    <3>6. CASE new = none /\ active[p] = active[n]
      BY <3>2, <3>4, <3>6 DEF Left
    <3>7. CASE new = <<a>> /\ active[p] /\ ~active[n]
      <4>1. AllGood(new) /\ Len(new) = 1 /\ new[1] = a
        BY <3>1, <3>7, Good1
      <4>2. /\ \A m, op : In(new, m, op) <=> a.node = m /\ a.op = op
            /\ \A q, m : \A loop \in Loops : ~Left(new, q, loop, m)
        BY <3>5, <3>7, In1
      <4>3. \A k \in 1..Len(new) : new[k] = a
        BY <4>1
      <4> QED
        BY <3>1, <3>7, <4>1, <4>2, <4>3
    <3>8. CASE new = <<d>> /\ active[n] /\ ~active[p]
      <4>1. AllGood(new) /\ Len(new) = 1 /\ new[1] = d
        BY <3>1, <3>8, Good1
      <4>2. /\ \A m, op : In(new, m, op) <=> d.node = m /\ d.op = op
            /\ \A q, m : \A loop \in Loops : ~Left(new, q, loop, m)
        BY <3>5, <3>8, In1
      <4>3. \A k \in 1..Len(new) : new[k] = d
        BY <4>1
      <4> QED
        BY <3>1, <3>8, <4>1, <4>2, <4>3
    <3> QED
      BY <3>3, <3>6, <3>7, <3>8
  <2> HIDE DEF new
  <2>2. /\ parent' \in [Nodes -> Nodes \cup {None}] /\ NoCycle(parent')
        /\ \A c \in Nodes : parent'[c] = IF c = n THEN p ELSE parent[c]
    <3>1. NoCycle([parent EXCEPT ![n] = p])
      BY <1>0, <1>2, CycleAttach DEF OrderInv, TreeInv
    <3> QED
      BY <1>0, <1>1, <3>1 DEF TreeInv
  <2>3. /\ FrameInv' /\ OrderInv'
        /\ \A m, op : Has(m, op)' <=> In(new, m, op) \/ Has(m, op)
        /\ \A q, m : m # n => \A loop \in Loops : Waits(q, loop, m)' <=> Waits(q, loop, m)
    BY <1>2, <1>6, <2>1, <2>2, AttachOrder
  <2>4. FlagInv' /\ Untouched(about)
    <3>1. about \in SUBSET Nodes
      OBVIOUS
    <3>2. nested' \in 0..MaxNested
      BY <1>0, <1>1, <1>6, ScriptNested
    <3> HIDE DEF about, under
    <3> QED
      BY <1>0, <1>4, <1>6, <3>1, <3>2, CallFlags, CallUntouched
  <2>5. \A m \in about : m \notin interrupted' => \A op : ~Has(m, op)
    <3>1. \A m \in Nodes : m \in Line(parent, m)
      BY <1>0, LineProperties DEF TreeInv
    <3> QED
      BY <2>4, <3>1 DEF Untouched
  <2>6. NodesOK'
    <3> SUFFICES ASSUME NEW m \in Nodes \ interrupted' PROVE NodeOK(m)'
      BY DEF NodesOK
    <3>1. NodeOK(m)
      BY <1>0, <2>4 DEF NodesOK, Untouched
    <3>2. CASE m # n
      <4>1. \A op : Has(m, op)' <=> Has(m, op)
        BY <2>1, <2>3, <3>2
      <4> QED
        BY <1>4, <3>1, <4>1 DEF NodeOK, HasTail, IsEnding
    <3>3. CASE m = n
      <4>1. \A op : ~Has(m, op) /\ (op \notin {"activate", "deactivate"} => ~Has(m, op)')
        BY <2>1, <2>3, <2>5, <3>3
      <4> QED
        BY <1>4, <3>1, <4>1 DEF NodeOK, HasTail, IsEnding
    <3> QED
      BY <3>2, <3>3
  <2>7. EdgesOK'
    <3> SUFFICES ASSUME NEW m \in Nodes \ interrupted', NEW q \in Nodes \ interrupted', parent'[m] = q
                 PROVE  EdgeOK(q, m)'
      BY DEF EdgesOK
    <3>1. Has(q, "inactive")' <=> Has(q, "inactive")
      BY <2>1, <2>3
    <3>2. CASE m # n
      <4>1. parent[m] = q /\ m \notin interrupted /\ q \notin interrupted
        BY <2>2, <2>4, <3>2 DEF Untouched
      <4>2. EdgeOK(q, m)
        BY <1>0, <4>1 DEF EdgesOK
      <4>3. \A op : Has(m, op)' <=> Has(m, op)
        BY <2>1, <2>3, <3>2
      <4>4. \A loop \in Loops : Waits(q, loop, m)' <=> Waits(q, loop, m)
        BY <2>3, <3>2
      <4> QED
        BY <1>4, <3>1, <4>2, <4>3, <4>4 DEF EdgeOK, HasTail, IsEnding, Loops
    <3>3. CASE m = n
      <4>1. q = p /\ NodeOK(m) /\ NodeOK(q)
        BY <1>0, <2>2, <2>4, <3>3 DEF NodesOK, Untouched
      <4>2. \A op : ~Has(m, op) /\ ~Has(q, op)
        BY <2>5, <3>3, <4>1
      <4>3. ~deactivating[m] /\ ~deactivating[q]
        BY <4>1, <4>2 DEF NodeOK
      <4>4. /\ Has(m, "deactivate")' <=> active[m] /\ ~active[q]
            /\ Has(m, "activate")' <=> active[q] /\ ~active[m]
            /\ ~Has(m, "activated")'
        BY <2>1, <2>3, <3>3, <4>1, <4>2
      <4> QED
        BY <1>4, <3>1, <4>2, <4>3, <4>4 DEF EdgeOK, HasTail, IsEnding
    <3> QED
      BY <3>2, <3>3
  <2>8. UpdatesOK'
    BY <1>0, <1>4 DEF UpdatesOK
  <2> QED
    BY <1>3, <2>3, <2>4, <2>6, <2>7, <2>8 DEF TypeInv, ReachInv
<1> QED
  BY <1>1, <1>5, <1>6

------------------------------------------------------------------------------
(* The requests, and update() *)

\* The steps of a command about one scene, in their order.
Rank == [deactivate |-> 1, disabled |-> 2, onDestroy |-> 3, dropped |-> 4, current |-> 5, enableForce |-> 6]

\* Steps of a command: those about scenes are in their order, the others are callbacks.
Orderly(q, about, lo, hi) ==
  /\ AllGood(q)
  /\ \A k \in 1..Len(q) : IF q[k].node = None THEN q[k].op \in {"callback", "done"}
                          ELSE /\ q[k].node \in about
                               /\ q[k].op \in DOMAIN Rank /\ Rank[q[k].op] \in lo..hi
  /\ \A j, k \in 1..Len(q) : j < k /\ q[j].node # None /\ q[k].node # None => Rank[q[j].op] < Rank[q[k].op]
  /\ \A n : In(q, n, "disabled") \/ In(q, n, "onDestroy") => In(q, n, "deactivate")

\* The order of the steps of a command is one the invariant allows.
LEMMA RankOps ==
  /\ DOMAIN Rank = {"deactivate", "disabled", "onDestroy", "dropped", "current", "enableForce"}
  /\ \A op \in DOMAIN Rank : Rank[op] \in 1..6
  /\ Rank["deactivate"] = 1 /\ Rank["disabled"] = 2 /\ Rank["onDestroy"] = 3
  /\ Rank["dropped"] = 4 /\ Rank["current"] = 5 /\ Rank["enableForce"] = 6
  BY DEF Rank

LEMMA RankFollows ==
  ASSUME NEW a \in DOMAIN Rank, NEW b \in DOMAIN Rank, Rank[a] < Rank[b]
  PROVE  Follows(a, b)
<1>1. /\ a \in {"deactivate", "disabled", "onDestroy", "dropped", "current", "enableForce"}
      /\ b \in {"deactivate", "disabled", "onDestroy", "dropped", "current", "enableForce"}
  BY RankOps
<1>2. CASE a = "deactivate"
  BY <1>1, <1>2, RankOps DEF Follows, Endings, Tails, Later
<1>3. CASE a = "disabled"
  BY <1>1, <1>3, RankOps DEF Follows, Later
<1>4. CASE a = "onDestroy"
  BY <1>1, <1>4, RankOps DEF Follows, Later
<1>5. CASE a = "dropped"
  BY <1>1, <1>5, RankOps DEF Follows
<1>6. CASE a = "current"
  BY <1>1, <1>6, RankOps DEF Follows
<1>7. CASE a = "enableForce"
  BY <1>1, <1>7, RankOps
<1> QED
  BY <1>1, <1>2, <1>3, <1>4, <1>5, <1>6, <1>7

\* Steps of a command after others of it.
LEMMA OrderlyConcat ==
  ASSUME NEW a, NEW b, NEW about, NEW lo \in Int, NEW mid \in Int, NEW hi \in Int,
         lo <= mid + 1, mid <= hi, Orderly(a, about, lo, mid), Orderly(b, about, mid + 1, hi)
  PROVE  Orderly(a \o b, about, lo, hi)
<1> DEFINE q == a \o b
<1>1. AllGood(a) /\ AllGood(b)
  BY DEF Orderly
<1>2. /\ AllGood(q) /\ Len(q) = Len(a) + Len(b) /\ Len(a) \in Nat /\ Len(b) \in Nat
      /\ \A k \in 1..Len(a) : q[k] = a[k]
      /\ \A k \in 1..Len(b) : q[k + Len(a)] = b[k]
      /\ \A n, op : In(q, n, op) <=> In(a, n, op) \/ In(b, n, op)
  BY <1>1, GoodConcat, InConcat
<1> HIDE DEF q
<1>3. ASSUME NEW k \in 1..Len(q), k > Len(a)
      PROVE  \E j \in 1..Len(b) : k = j + Len(a) /\ q[k] = b[j]
  <2> DEFINE j == k - Len(a)
  <2>1. j \in 1..Len(b) /\ j + Len(a) = k
    BY <1>2, <1>3
  <2> HIDE DEF j
  <2> QED
    BY <1>2, <2>1
<1>4. ASSUME NEW k \in 1..Len(q)
      PROVE  IF q[k].node = None THEN q[k].op \in {"callback", "done"}
             ELSE /\ q[k].node \in about /\ q[k].op \in DOMAIN Rank
                  /\ Rank[q[k].op] \in IF k <= Len(a) THEN lo..mid ELSE (mid + 1)..hi
  <2>1. CASE k <= Len(a)
    <3>1. k \in 1..Len(a) /\ q[k] = a[k]
      BY <1>2, <2>1
    <3> QED
      BY <2>1, <3>1 DEF Orderly
  <2>2. CASE k > Len(a)
    <3>1. PICK j \in 1..Len(b) : q[k] = b[j]
      BY <1>3, <2>2
    <3>2. ~(k <= Len(a))
      BY <1>2, <2>2
    <3> QED
      BY <3>1, <3>2 DEF Orderly
  <2> QED
    BY <1>2, <2>1, <2>2
<1>5. ASSUME NEW k \in 1..Len(q)
      PROVE  IF q[k].node = None THEN q[k].op \in {"callback", "done"}
             ELSE q[k].node \in about /\ q[k].op \in DOMAIN Rank /\ Rank[q[k].op] \in lo..hi
  BY <1>4
<1>6. ASSUME NEW j \in 1..Len(q), NEW k \in 1..Len(q), j < k, q[j].node # None, q[k].node # None
      PROVE  Rank[q[j].op] < Rank[q[k].op]
  <2>1. CASE k <= Len(a)
    <3>1. j \in 1..Len(a) /\ k \in 1..Len(a)
      BY <1>2, <1>6, <2>1
    <3> QED
      BY <1>2, <1>6, <3>1 DEF Orderly
  <2>2. CASE j <= Len(a) /\ k > Len(a)
    <3>1. Rank[q[j].op] \in lo..mid
      BY <1>4, <1>6, <2>2
    <3>2. Rank[q[k].op] \in (mid + 1)..hi
      <4>1. ~(k <= Len(a))
        BY <1>2, <2>2
      <4> QED
        BY <1>4, <1>6, <4>1
    <3> QED
      BY <3>1, <3>2
  <2>3. CASE j > Len(a)
    <3>1. k > Len(a)
      BY <1>2, <1>6, <2>3
    <3>2. PICK i \in 1..Len(b) : k = i + Len(a) /\ q[k] = b[i]
      BY <1>3, <3>1
    <3>3. PICK h \in 1..Len(b) : j = h + Len(a) /\ q[j] = b[h]
      BY <1>3, <2>3
    <3>4. h < i
      BY <1>2, <1>6, <3>2, <3>3
    <3> QED
      BY <1>6, <3>2, <3>3, <3>4 DEF Orderly
  <2> QED
    BY <1>2, <2>1, <2>2, <2>3
<1>7. \A n : In(q, n, "disabled") \/ In(q, n, "onDestroy") => In(q, n, "deactivate")
  BY <1>2 DEF Orderly
<1>8. Orderly(q, about, lo, hi)
  BY <1>2, <1>5, <1>6, <1>7 DEF Orderly
<1> QED
  BY <1>8 DEF q

\* A callback, or the end of a command.
LEMMA OrderlyOne ==
  ASSUME NEW f, Good(f), f.node = None, f.op \in {"callback", "done"}, NEW about, NEW lo, NEW hi
  PROVE  Orderly(<<f>>, about, lo, hi)
<1> DEFINE q == <<f>>
<1>1. f.op \notin Loops
  BY DEF Loops
<1>2. AllGood(q) /\ Len(q) = 1 /\ q[1] = f /\ \A n, op : In(q, n, op) <=> f.node = n /\ f.op = op
  BY <1>1, Good1, In1
<1> HIDE DEF q
<1>3. \A k \in 1..Len(q) : q[k] = f
  BY <1>2
<1>4. Orderly(q, about, lo, hi)
  BY <1>2, <1>3 DEF Orderly
<1> QED
  BY <1>4 DEF q

\* The steps of each command are in order.
LEMMA EndsOrderly ==
  ASSUME NEW about, NEW s \in Root, s \in about
  PROVE  Orderly(<<Tell>> \o Ends(s), about, 1, 4)
<1> DEFINE q == <<Tell>> \o Ends(s)
<1>1. Ending(q, s)
  BY EndsSteps
<1>2. s # None
  BY NodeAssumption
<1> HIDE DEF q
<1>3. /\ Len(q) = 5 /\ AllGood(q)
      /\ \A k \in 1..5 : k = 1 \/ k = 2 \/ k = 3 \/ k = 4 \/ k = 5
      /\ q[1].node = None /\ q[2].node = s /\ q[3].node = s /\ q[4].node = s /\ q[5].node = s
      /\ q[1].op = "callback" /\ q[2].op = "deactivate" /\ q[3].op = "disabled"
      /\ q[4].op = "onDestroy" /\ q[5].op = "dropped"
  BY <1>1 DEF Ending
<1>4. \A k \in 1..5 : IF q[k].node = None THEN q[k].op \in {"callback", "done"}
                      ELSE q[k].node \in about /\ q[k].op \in DOMAIN Rank /\ Rank[q[k].op] = k - 1
  BY <1>2, <1>3, RankOps
<1>5. \A n : In(q, n, "disabled") \/ In(q, n, "onDestroy") => In(q, n, "deactivate")
  <2>1. \A k \in 1..Len(q) : q[k].op \in {"disabled", "onDestroy"} => q[k].node = s
    BY <1>3
  <2>2. 2 \in 1..Len(q) /\ q[2].node = s /\ q[2].op = "deactivate"
    BY <1>3
  <2> QED
    BY <2>1, <2>2 DEF In
<1>6. \A k \in 1..5 : q[k].node # None => Rank[q[k].op] \in 1..4
  BY <1>2, <1>3, <1>4
<1>7. Orderly(q, about, 1, 4)
  BY <1>3, <1>4, <1>5, <1>6 DEF Orderly
<1> QED
  BY <1>7 DEF q

LEMMA SetsOrderly ==
  ASSUME NEW about, NEW s \in Root, s \in about
  PROVE  Orderly(<<Tell, Do("current", s), Tell, Do("enableForce", s), Tell>>, about, 5, 6)
<1> DEFINE q == <<Tell, Do("current", s), Tell, Do("enableForce", s), Tell>>
<1>1. /\ AllGood(q) /\ Len(q) = 5
      /\ q[1].op = "callback" /\ q[2].op = "current" /\ q[3].op = "callback"
      /\ q[4].op = "enableForce" /\ q[5].op = "callback" /\ q[2].node = s /\ q[4].node = s
      /\ q[1].node = None /\ q[3].node = None /\ q[5].node = None
  BY SetsSteps
<1>2. s # None
  BY NodeAssumption
<1> HIDE DEF q
<1>3. \A k \in 1..5 : k = 1 \/ k = 2 \/ k = 3 \/ k = 4 \/ k = 5
  OBVIOUS
<1>4. \A k \in 1..5 : IF q[k].node = None THEN q[k].op \in {"callback", "done"}
                      ELSE /\ q[k].node \in about /\ q[k].op \in DOMAIN Rank
                           /\ \/ k = 2 /\ Rank[q[k].op] = 5
                              \/ k = 4 /\ Rank[q[k].op] = 6
  BY <1>1, <1>2, <1>3, RankOps
<1>5. \A k \in 1..5 : q[k].op \notin {"disabled", "onDestroy"}
  BY <1>1, <1>3
<1>6. Orderly(q, about, 5, 6)
  BY <1>1, <1>4, <1>5 DEF Orderly, In
<1> QED
  BY <1>6 DEF q

LEMMA RestartOrderly ==
  ASSUME NEW about, NEW s \in Root, s \in about
  PROVE  Orderly(<<Tell, Do("deactivate", s), Do("disabled", s), Tell, Do("enableForce", s), Tell>>, about, 1, 6)
<1> DEFINE q == <<Tell, Do("deactivate", s), Do("disabled", s), Tell, Do("enableForce", s), Tell>>
<1>1. /\ AllGood(q) /\ Len(q) = 6
      /\ q[1].op = "callback" /\ q[2].op = "deactivate" /\ q[3].op = "disabled"
      /\ q[4].op = "callback" /\ q[5].op = "enableForce" /\ q[6].op = "callback"
      /\ q[1].node = None /\ q[2].node = s /\ q[3].node = s
      /\ q[4].node = None /\ q[5].node = s /\ q[6].node = None
  BY RestartSteps
<1>2. s # None
  BY NodeAssumption
<1> HIDE DEF q
<1>3. \A k \in 1..6 : k = 1 \/ k = 2 \/ k = 3 \/ k = 4 \/ k = 5 \/ k = 6
  OBVIOUS
<1>4. \A k \in 1..6 : IF q[k].node = None THEN q[k].op \in {"callback", "done"}
                      ELSE /\ q[k].node \in about /\ q[k].op \in DOMAIN Rank
                           /\ \/ k = 2 /\ Rank[q[k].op] = 1
                              \/ k = 3 /\ Rank[q[k].op] = 2
                              \/ k = 5 /\ Rank[q[k].op] = 6
  BY <1>1, <1>2, <1>3, RankOps
<1>5. \A n : In(q, n, "disabled") \/ In(q, n, "onDestroy") => In(q, n, "deactivate")
  <2>1. \A k \in 1..Len(q) : q[k].op \in {"disabled", "onDestroy"} => q[k].node = s
    BY <1>1, <1>3
  <2>2. 2 \in 1..Len(q) /\ q[2].node = s /\ q[2].op = "deactivate"
    BY <1>1
  <2> QED
    BY <2>1, <2>2 DEF In
<1>6. Orderly(q, about, 1, 6)
  BY <1>1, <1>4, <1>5 DEF Orderly
<1> QED
  BY <1>6 DEF q

\* The steps of every command are in their order.
LEMMA StepsOrderly ==
  ASSUME NEW c \in Command, scene \in Root \cup {None},
         c.type = "set" => c.scene # None, c.type = "restart" => scene # None,
         NEW about, scene # None => scene \in about, c.scene # None => c.scene \in about
  PROVE  Orderly(Steps(c) \o <<Do("done", None)>>, about, 1, 6)
<1> DEFINE t == <<Tell>>
           z == <<Do("done", None)>>
           x == t \o Ends(scene)
<1>1. \A lo, hi : Orderly(t, about, lo, hi) /\ Orderly(z, about, lo, hi)
  BY TellGood, DoneGood, OrderlyOne
<1>2. Orderly(x, about, 1, 4)
  <2>1. CASE scene = None
    <3>1. Ends(scene) = <<>> /\ t \in Seq(Frame)
      BY <1>1, <2>1 DEF Ends, Orderly, AllGood
    <3>2. x = t
      BY <3>1, ConcatEmptySeq
    <3> QED
      BY <1>1, <3>2
  <2>2. CASE scene \in Root
    BY <2>2, NodeAssumption, EndsOrderly
  <2> QED
    BY <2>1, <2>2
<1>3. CASE c.type = "set"
  <2> DEFINE s == c.scene
             y == <<Tell, Do("current", s), Tell, Do("enableForce", s), Tell>>
             u == x \o y
  <2>1. s \in Root /\ s \in about
    BY <1>3 DEF Command
  <2>2. Steps(c) = u
    BY <1>3 DEF Steps
  <2> HIDE DEF s
  <2>3. Orderly(y, about, 5, 6)
    BY <2>1, SetsOrderly
  <2> HIDE DEF x, y, z
  <2>4. Orderly(u, about, 1, 6)
    <3>1. Orderly(y, about, 4 + 1, 6)
      BY <2>3
    <3> QED
      BY <1>2, <3>1, OrderlyConcat
  <2> HIDE DEF u
  <2>5. Orderly(u \o z, about, 1, 6)
    <3>1. Orderly(z, about, 6 + 1, 6)
      BY <1>1
    <3> QED
      BY <2>4, <3>1, OrderlyConcat
  <2> QED
    BY <2>2, <2>5 DEF z
<1>4. CASE c.type = "restart"
  <2> DEFINE u == <<Tell, Do("deactivate", scene), Do("disabled", scene), Tell, Do("enableForce", scene), Tell>>
  <2>1. Steps(c) = u
    BY <1>4 DEF Steps
  <2>2. Orderly(u, about, 1, 6)
    BY <1>4, RestartOrderly
  <2> HIDE DEF u, z
  <2>3. Orderly(u \o z, about, 1, 6)
    <3>1. Orderly(z, about, 6 + 1, 6)
      BY <1>1
    <3> QED
      BY <2>2, <3>1, OrderlyConcat
  <2> QED
    BY <2>1, <2>3 DEF z
<1>5. CASE c.type = "remove"
  <2> DEFINE u == x \o t
  <2>1. Steps(c) = u
    BY <1>5 DEF Steps
  <2> HIDE DEF x, t, z
  <2>2. Orderly(u, about, 1, 6)
    <3>1. Orderly(t, about, 4 + 1, 6)
      BY <1>1
    <3> QED
      BY <1>2, <3>1, OrderlyConcat
  <2> HIDE DEF u
  <2>3. Orderly(u \o z, about, 1, 6)
    <3>1. Orderly(z, about, 6 + 1, 6)
      BY <1>1
    <3> QED
      BY <2>2, <3>1, OrderlyConcat
  <2> QED
    BY <2>1, <2>3 DEF z
<1> QED
  BY <1>3, <1>4, <1>5 DEF Command

\* What is in the order of a command is a call that keeps the invariant.
LEMMA OrderlyCalls ==
  ASSUME TypeInv, NEW about \in SUBSET Root, NEW q, Orderly(q, about, 1, 6)
  PROVE  Calls(about, q)
<1>1. \A s \in Root : parent[s] = None /\ s \in Nodes /\ s # None /\ Line(parent, s) = {s}
  <2>1. \A s \in Root : parent[s] = None /\ s \in Nodes
    BY NodeAssumption DEF TypeInv, TreeInv, RootInv
  <2>2. \A s \in Nodes : parent[s] = None => Line(parent, s) = {s}
    BY LineTop DEF TypeInv, TreeInv
  <2> QED
    BY <2>1, <2>2, NodeAssumption
<1>2. ASSUME NEW k \in 1..Len(q)
      PROVE  /\ q[k].op \in {"deactivate", "disabled", "callback", "done"} \cup Marks
             /\ q[k].op \notin {"activate", "removed"} /\ q[k].node \in about \cup {None}
             /\ q[k].node # None => q[k].op \in DOMAIN Rank
  <2>1. q[k].op \in DOMAIN Rank => q[k].op \in {"deactivate", "disabled"} \cup Marks
    BY RankOps DEF Marks
  <2>2. {"activate", "removed"} \cap Marks = {}
    BY DEF Marks
  <2> QED
    BY <2>1, <2>2 DEF Orderly
<1>3. ASSUME NEW j \in 1..Len(q), NEW k \in 1..Len(q), j < k, q[k].node # None
      PROVE  IF q[j].node = q[k].node THEN Follows(q[j].op, q[k].op)
             ELSE q[j].node \notin Line(parent, q[k].node)
  <2>1. CASE q[j].node = q[k].node
    <3>1. Rank[q[j].op] < Rank[q[k].op]
      BY <1>3, <2>1 DEF Orderly
    <3> QED
      BY <1>2, <1>3, <2>1, <3>1, RankFollows
  <2>2. CASE q[j].node # q[k].node
    BY <1>1, <1>2, <1>3, <2>2
  <2> QED
    BY <2>1, <2>2
<1>4. /\ AllGood(q)
      /\ \A n : In(q, n, "disabled") \/ In(q, n, "onDestroy") => In(q, n, "deactivate")
      /\ \A n : ~In(q, n, "removed") /\ ~In(q, n, "activate")
  BY <1>2 DEF Orderly, In
<1>5. /\ \A k \in 1..Len(q) : q[k].node \in about \cup {None}
      /\ \A k \in 1..Len(q) :
           q[k].op \in {"activate", "deactivate", "disabled", "removed", "release", "callback", "done"} \cup Marks
      /\ \A k \in 1..Len(q) : q[k].op # "removed"
      /\ \A n \in about : parent[n] = None
  BY <1>1, <1>2
<1> QED
  BY <1>3, <1>4, <1>5 DEF Calls

\* Requests keep the invariant of the nodes, now or when they are carried out.
LEMMA RequestCall ==
  ASSUME TypeInv, ReachInv, ServiceInv, NEW c \in Command, c.type = "set" => c.scene # None,
         NEW immediately \in BOOLEAN, Request(c, immediately)
  PROVE  TypeInv' /\ ReachInv'
<1>1. /\ Script /\ (c.type # "set" => scene # None) /\ UNCHANGED <<tree, flags, told, scene>>
      /\ IF immediately THEN Call({scene, c.scene} \ {None}, Steps(c) \o <<Do("done", None)>>, stack)
         ELSE Call({}, <<>>, stack)
  BY DEF Request
<1>2. /\ UNCHANGED <<parent, enabled, active, afterActive, deactivating, compiled, told>>
      /\ TreeInv' /\ FlagInv /\ enabled' \in [Nodes -> BOOLEAN]
  BY <1>1 DEF tree, flags, TypeInv, TreeInv, RootInv, FlagInv
<1>3. ASSUME NEW about \in SUBSET Nodes, NEW new, Calls(about, new), Call(about, new, stack)
      PROVE  TypeInv' /\ ReachInv'
  <2>1. nested' \in 0..MaxNested
    BY <1>1, <1>2, <1>3, ScriptNested
  <2> QED
    BY <1>2, <1>3, <2>1, CallKeeps
<1>4. CASE immediately
  <2> DEFINE about == {scene, c.scene} \ {None}
             new == Steps(c) \o <<Do("done", None)>>
  <2>1. about \in SUBSET Root /\ (scene # None => scene \in about) /\ (c.scene # None => c.scene \in about)
    BY DEF ServiceInv, Command
  <2>2. Call(about, new, stack)
    BY <1>1, <1>4
  <2> HIDE DEF about
  <2>3. Orderly(new, about, 1, 6)
    BY <1>1, <2>1, StepsOrderly DEF ServiceInv
  <2> HIDE DEF new
  <2>4. Calls(about, new)
    BY <2>1, <2>3, OrderlyCalls
  <2> QED
    BY <1>3, <2>1, <2>2, <2>4, NodeAssumption
<1>5. CASE ~immediately
  <2> DEFINE about == {}
             new == <<>>
  <2>1. about \in SUBSET Nodes /\ Calls(about, new) /\ Call(about, new, stack)
    BY <1>1, <1>5, CallsNone
  <2> HIDE DEF about, new
  <2> QED
    BY <1>3, <2>1
<1> QED
  BY <1>4, <1>5

LEMMA UpdateCall ==
  ASSUME TypeInv, ReachInv, ServiceInv, OneScene, Update
  PROVE  TypeInv' /\ ReachInv'
<1> DEFINE c == Head(commands)
           new == Steps(c) \o <<Do("done", None)>>
           about == {scene, c.scene} \ {None}
<1>1. /\ stack = <<>> /\ commands # <<>> /\ stack' = new /\ nested' = 0
      /\ UNCHANGED <<tree, flags, told, interrupted, sceneVars>>
  BY DEF Update
<1>2. c \in Command /\ c \in ToSet(commands)
  BY <1>1 DEF ServiceInv, ToSet
<1>3. (c.type = "set" => c.scene # None) /\ (c.type = "restart" => scene # None)
  BY <1>1, <1>2 DEF ServiceInv, OneScene
<1>4. about \in SUBSET Root /\ (scene # None => scene \in about) /\ (c.scene # None => c.scene \in about)
  BY <1>2 DEF ServiceInv, Command
<1> HIDE DEF c, about
<1>5. Orderly(new, about, 1, 6)
  BY <1>2, <1>3, <1>4, StepsOrderly DEF ServiceInv
<1> HIDE DEF new
<1>6. Calls(about, new)
  BY <1>4, <1>5, OrderlyCalls
<1>7. Call(about, new, stack)
  <2>1. new \in Seq(Frame)
    BY <1>5 DEF Orderly, AllGood
  <2>2. new \o stack = new
    BY <1>1, <2>1, ConcatEmptySeq
  <2>3. Interrupts(about) = {}
    BY <1>1 DEF Interrupts, ToSet
  <2> QED
    BY <1>1, <2>2, <2>3 DEF Call
<1>8. /\ UNCHANGED <<parent, enabled, active, afterActive, deactivating, compiled, told>>
      /\ TreeInv' /\ nested' \in 0..MaxNested /\ enabled' \in [Nodes -> BOOLEAN]
  BY <1>1, NodeAssumption DEF tree, flags, TypeInv, TreeInv, RootInv, FlagInv
<1> QED
  BY <1>4, <1>6, <1>7, <1>8, NodeAssumption, CallKeeps

------------------------------------------------------------------------------
(* The invariant of the nodes *)

\* The invariant of the nodes holds at the start, and every step keeps it.
LEMMA ReachStart ==
  ASSUME NodeInit
  PROVE  TypeInv /\ ReachInv
<1>1. /\ parent = [n \in Nodes |-> None]
      /\ enabled = [n \in Nodes |-> TRUE] /\ active = [n \in Nodes |-> FALSE]
      /\ afterActive = active /\ deactivating = active /\ compiled = active
      /\ stack = <<>> /\ told = {} /\ interrupted = {}
  BY DEF NodeInit
<1>2. TypeInv
  BY NodeStart DEF TypeInv
<1>3. Len(stack) = 0 /\ 1..Len(stack) = {}
  BY <1>1
<1>4. OrderInv
  BY <1>1, <1>3 DEF OrderInv, NoCycle, Ordered, AllFine
<1>5. \A n, op : ~Has(n, op)
  BY <1>3 DEF Has, In
<1>6. \A n \in Nodes : /\ parent[n] = None /\ ~active[n] /\ ~deactivating[n] /\ ~afterActive[n] /\ n \notin told
  BY <1>1
<1>7. NodesOK /\ UpdatesOK
  BY <1>5, <1>6 DEF NodesOK, NodeOK, UpdatesOK
<1>8. EdgesOK
  BY <1>6, NodeAssumption DEF EdgesOK
<1> QED
  BY <1>2, <1>4, <1>7, <1>8 DEF ReachInv

LEMMA ReachWalk ==
  ASSUME TypeInv, ReachInv, Walk
  PROVE  TypeInv' /\ ReachInv'
<1>1. CASE ActivateSkips \/ ActivateFails \/ Activate \/ Activated \/ AfterActivate
  BY <1>1, ActivateReturns, ActivateStep, ActivatedStep, AfterActivateStep
<1>2. CASE DeactivateSkips \/ Deactivate \/ Deactivated \/ AfterDeactivate
  BY <1>2, DeactivateReturns, DeactivateStep, DeactivatedStep, AfterDeactivateStep
<1>3. CASE Disabled \/ Removed \/ Release \/ ReleaseChildren \/ Released
  BY <1>3, DisabledStep, DetachStep, ReleaseStep, ReleaseChildrenStep, ReleasedStep
<1>4. CASE NextChild \/ HookReturns
  BY <1>4, NextChildStep, HookStep
<1> QED
  BY <1>1, <1>2, <1>3, <1>4 DEF Walk

LEMMA ReachScripts ==
  ASSUME TypeInv, ReachInv, Scripts
  PROVE  TypeInv' /\ ReachInv'
<1>1. PICK n \in Nodes : \/ Enable(n, FALSE)
                         \/ Disable(n)
                         \/ \E p \in Nodes : AddChild(p, n)
                         \/ RemoveFromParent(n)
                         \/ CallRelease(n)
  BY DEF Scripts
<1>2. CASE Enable(n, FALSE)
  BY <1>2, EnableCall
<1>3. CASE Disable(n) \/ RemoveFromParent(n) \/ CallRelease(n)
  BY <1>3, PlainCall
<1>4. CASE \E p \in Nodes : AddChild(p, n)
  BY <1>4, AttachStep
<1> QED
  BY <1>1, <1>2, <1>3, <1>4

LEMMA ReachStutters ==
  ASSUME TypeInv, ReachInv, UNCHANGED nodeVars
  PROVE  TypeInv' /\ ReachInv'
<1>1. UNCHANGED <<parent, children, enabled, active, afterActive, deactivating, compiled, stack,
                  nested, told, interrupted>>
  BY DEF nodeVars, tree, flags, calls
<1>2. TypeInv'
  BY <1>1 DEF TypeInv, TreeInv, RootInv, FlagInv, FrameInv
<1>3. OrderInv' /\ UpdatesOK'
  BY <1>1 DEF ReachInv, OrderInv, UpdatesOK
<1>4. /\ \A n, op : Has(n, op)' <=> Has(n, op)
      /\ \A p, loop, n : Waits(p, loop, n)' <=> Waits(p, loop, n)
  BY <1>1 DEF Has, Waits
<1>5. NodesOK'
  BY <1>1, <1>4 DEF ReachInv, NodesOK, NodeOK, HasTail, IsEnding
<1>6. EdgesOK'
  BY <1>1, <1>4 DEF ReachInv, EdgesOK, EdgeOK, HasTail, IsEnding
<1> QED
  BY <1>2, <1>3, <1>5, <1>6 DEF ReachInv

LEMMA NodeStep ==
  ASSUME TypeInv, ReachInv, [NodeNext]_nodeVars
  PROVE  TypeInv' /\ ReachInv'
<1>1. CASE \E n \in Root : Enable(n, TRUE)
  BY <1>1, NodeAssumption, EnableCall
<1> QED
  BY <1>1, ReachWalk, ReachScripts, ReachStutters DEF NodeNext

\* So does every step of the service, with the invariant of the scenes.
LEMMA ServiceStep ==
  ASSUME IInv, ReachInv, [Next]_vars
  PROVE  ReachInv'
<1>1. TypeInv /\ ServiceInv /\ OneScene
  BY DEF IInv, TypeInv, SceneInv
<1>2. CASE Walk \/ Scripts
  BY <1>1, <1>2, ReachWalk, ReachScripts
<1>3. CASE OnDestroy \/ Dropped \/ Current \/ EnableForce \/ Done
  BY <1>1, <1>3, OnDestroyStep, ForgetStep, EnableForceStep
<1>4. CASE Requests
  <2>1. PICK immediately \in BOOLEAN : \E c \in Command :
           Request(c, immediately) /\ (c.type = "set" => c.scene # None)
    BY <1>4, AnyRequest
  <2> QED
    BY <1>1, <2>1, RequestCall
<1>5. CASE Update
  BY <1>1, <1>5, UpdateCall
<1>6. CASE UNCHANGED vars
  BY <1>1, <1>6, ReachStutters DEF vars
<1> QED
  BY <1>2, <1>3, <1>4, <1>5, <1>6 DEF Next

\* The invariant of the nodes holds in every state they reach: the tree has no cycle, the
\* steps on the stack go down in it, the flags of a node agree with the steps about it, and
\* with those of its parent unless a step on the stack will see to it.
THEOREM NodeInductive == NodeSpec => [](TypeInv /\ ReachInv)
<1>1. NodeInit => TypeInv /\ ReachInv
  BY ReachStart
<1>2. TypeInv /\ ReachInv /\ [NodeNext]_nodeVars => (TypeInv /\ ReachInv)'
  BY NodeStep
<1> QED
  BY <1>1, <1>2, PTL DEF NodeSpec

\* The types of the nodes, when only scripts use them.
THEOREM NodeTypeCorrect == NodeSpec => []NodeTypeOK
<1>1. TypeInv => NodeTypeOK
  <2> SUFFICES ASSUME TypeInv PROVE NodeTypeOK
    OBVIOUS
  <2>1. TreeInv /\ FlagInv /\ FrameInv
    BY DEF TypeInv
  <2>2. ASSUME NEW f \in ToSet(stack) PROVE f.node \in Nodes \cup {None} /\ f.rest \in Seq(Nodes)
    <3>1. f \in Frame
      BY <2>1 DEF FrameInv, AllGood, ToSet
    <3> QED
      BY <3>1 DEF Frame
  <2> QED
    BY <2>1, <2>2 DEF NodeTypeOK, TreeInv, FlagInv
<1> QED
  BY <1>1, NodeInductive, PTL

\* Between calls a node is active exactly when it is enabled, compiled and under an
\* active parent, and its updates run exactly then: activate(), deactivate(), release()
\* and addChild() leave no child behind, whatever their hooks did to other nodes.
THEOREM Reached == NodeSpec => []ActiveIffReached
<1>1. TypeInv /\ ReachInv => ActiveIffReached
  <2> SUFFICES ASSUME TypeInv, ReachInv, stack = <<>>, NEW n \in Nodes, Settled(n)
               PROVE  /\ active[n] => enabled[n] /\ compiled[n] /\ Under(parent[n])
                      /\ enabled[n] /\ compiled[n] /\ parent[n] # None /\ Under(parent[n]) => active[n]
                      /\ n \in told <=> active[n]
                      /\ afterActive[n] = active[n] /\ ~deactivating[n]
    BY DEF ActiveIffReached
  <2>1. /\ parent[n] \in Nodes \cup {None} /\ n \notin interrupted /\ parent[n] \notin interrupted
        /\ active[n] \in BOOLEAN /\ afterActive[n] \in BOOLEAN
    BY DEF TypeInv, TreeInv, FlagInv, Settled
  <2>2. \A m, op : ~Has(m, op)
    BY DEF Has, In
  <2>3. \A p, loop, m : ~Waits(p, loop, m)
    BY DEF Waits, Left
  <2>4. \A m \in Nodes \ interrupted : NodeOK(m) /\ ~deactivating[m]
    BY <2>2 DEF ReachInv, NodesOK, NodeOK
  <2>5. /\ active[n] => enabled[n] /\ compiled[n]
        /\ n \in told <=> active[n]
        /\ ~deactivating[n]
    BY <2>1, <2>2, <2>4 DEF NodeOK
  <2>6. afterActive[n] = active[n]
    BY <2>1, <2>5 DEF ReachInv, UpdatesOK
  <2>7. ASSUME parent[n] # None
        PROVE  (active[n] => active[parent[n]]) /\ (enabled[n] /\ compiled[n] /\ active[parent[n]] => active[n])
    <3>1. EdgeOK(parent[n], n) /\ ~deactivating[parent[n]]
      BY <2>1, <2>4, <2>7 DEF ReachInv, EdgesOK
    <3> QED
      BY <2>2, <2>3, <2>5, <3>1 DEF EdgeOK, HasTail, IsEnding
  <2> QED
    BY <2>1, <2>5, <2>6, <2>7 DEF Under
<1> QED
  BY <1>1, NodeInductive, PTL

\* The updates of a node start once and end once: a node that was not interrupted is
\* not told _afterActivate() twice, and is told _deactivate() only after that.
THEOREM Alternate == NodeSpec => HooksAlternate
<1> DEFINE Alternates == \A n \in Nodes : Settled(n) =>
             /\ AfterActivate /\ n = Top.node /\ active[n] => n \notin told
             /\ Deactivate /\ n = Top.node => n \in told
<1>1. TypeInv /\ ReachInv => Alternates
  <2> SUFFICES ASSUME TypeInv, ReachInv, NEW n \in Nodes, Settled(n), n = Top.node
               PROVE  /\ AfterActivate => n \notin told
                      /\ Deactivate => n \in told
    OBVIOUS
  <2>1. OrderInv /\ NodeOK(n) /\ n \notin interrupted
    BY DEF ReachInv, NodesOK, Settled
  <2>2. ASSUME AfterActivate PROVE n \notin told
    <3>1. At("active")
      BY <2>2 DEF AfterActivate
    <3>2. Has(n, "active")
      BY <2>1, <3>1, AtTop DEF Walks
    <3> QED
      BY <2>1, <3>2 DEF NodeOK
  <2>3. ASSUME Deactivate PROVE n \in told
    <3>1. At("deactivate") /\ active[n] /\ ~deactivating[n]
      BY <2>3 DEF Deactivate
    <3>2. Has(n, "active") => Follows("deactivate", "active")
      BY <2>1, <3>1, AtTop DEF Walks
    <3>3. ~Follows("deactivate", "active")
      BY DEF Follows, Hooks, Tails, Later, Endings
    <3> QED
      BY <2>1, <3>1, <3>2, <3>3 DEF NodeOK
  <2> QED
    BY <2>2, <2>3
<1>2. NodeSpec => [][Alternates]_nodeVars
  BY <1>1, NodeInductive, PTL
<1> QED
  BY <1>2 DEF HooksAlternate

\* The invariant of the nodes holds under the scene service too.
THEOREM ServiceInductive == Spec => [](IInv /\ ReachInv)
<1>1. Init => IInv /\ ReachInv
  BY InitInv, ReachStart DEF Init
<1>2. IInv /\ ReachInv /\ [Next]_vars => (IInv /\ ReachInv)'
  BY NextStep, ServiceStep
<1> QED
  BY <1>1, <1>2, PTL DEF Spec

\* A scene that is told onDestroy() is inactive, and so is every node in it, when no hook
\* called about the nodes between: setCurrentScene_() and removeCurrentScene_() disable
\* the scene first, and the walk of that has ended.
THEOREM Destroyed == Spec => DestroyedIsInactive
<1> DEFINE Inactive == OnDestroy => \A n \in Nodes : Top.node \in Above(n) /\ Above(n) \cap interrupted = {}
                                                       => ~active[n]
<1>1. IInv /\ ReachInv => Inactive
  <2> SUFFICES ASSUME IInv, ReachInv, OnDestroy, NEW n \in Nodes, Top.node \in Above(n),
                      Above(n) \cap interrupted = {}, active[n]
               PROVE  FALSE
    OBVIOUS
  <2> DEFINE s == Top.node
             L == Line(parent, n)
             S == {y \in L : active[y] \/ s \notin Line(parent, y)}
  <2>1. TypeInv /\ OrderInv /\ NodesOK /\ EdgesOK /\ At("onDestroy")
    BY DEF IInv, TypeInv, ReachInv, OnDestroy
  <2>2. s \in L /\ L \cap interrupted = {} /\ Above(n) = L
    BY AboveLine
  <2>3. /\ parent \in [Nodes -> Nodes \cup {None}] /\ L \in SUBSET Nodes /\ n \in L
        /\ \A y \in L : parent[y] \in L \cup {None}
        /\ \A y \in Nodes : y \in Line(parent, y)
    BY <2>1, LineProperties DEF TypeInv, TreeInv
  <2>4. ~active[s]
    <3>1. /\ s \in Nodes \ interrupted /\ Has(s, "onDestroy")
          /\ \A op : Has(s, op) => op = "onDestroy" \/ Follows("onDestroy", op)
      BY <2>1, <2>2, AtTop DEF Walks
    <3>2. ~Has(s, "deactivate") /\ ~Has(s, "deactivated") /\ ~Has(s, "inactive")
      BY <3>1 DEF Follows, Hooks, Endings, Later
    <3>3. NodeOK(s)
      BY <2>1, <3>1 DEF NodesOK
    <3> QED
      BY <3>1, <3>2, <3>3 DEF NodeOK, IsEnding
\* No step is about a node below the scene.
  <2>5. ASSUME NEW y \in L, s \in Line(parent, y), y # s PROVE ~IsEnding(y)
    <3>1. \A op : ~Has(y, op)
      <4> SUFFICES ASSUME NEW op, Has(y, op) PROVE FALSE
        OBVIOUS
      <4>1. stack # <<>> /\ Deep(y, op)
        BY <2>1, <2>5, AtTop DEF Walks
      <4>2. PICK k \in 1..Len(Tail(stack)) : Tail(stack)[k].node = y
        BY <4>1 DEF Deep, In
      <4>3. Fits(parent, interrupted, Top, Tail(stack)[k])
        BY <2>1, <4>1, TopOrder
      <4> QED
        BY <2>2, <2>3, <2>5, <4>2, <4>3 DEF Fits
    <3>2. NodeOK(y)
      BY <2>1, <2>2, <2>3 DEF NodesOK
    <3> QED
      BY <3>1, <3>2 DEF NodeOK, IsEnding
  <2>6. ASSUME NEW y \in S, parent[y] # None PROVE parent[y] \in S
    <3>1. y \in L /\ parent[y] \in L /\ parent[y] \in Line(parent, y)
      BY <2>3, <2>6, LineProperties
    <3>2. Line(parent, parent[y]) \subseteq Line(parent, y)
      BY <2>3, <3>1, LineUp
    <3>3. CASE s \notin Line(parent, y)
      BY <3>1, <3>2, <3>3
    <3>4. CASE s \in Line(parent, y)
      <4>1. active[y] /\ y # s
        BY <2>4, <3>4
      <4>2. ~IsEnding(y) /\ EdgeOK(parent[y], y)
        BY <2>1, <2>2, <2>3, <2>5, <3>1, <3>4, <4>1 DEF EdgesOK
      <4>3. active[parent[y]]
        BY <4>1, <4>2 DEF EdgeOK
      <4> QED
        BY <3>1, <4>3
    <3> QED
      BY <3>3, <3>4
  <2>7. S \in SUBSET Nodes /\ n \in S /\ \A y \in S : parent[y] \in S \cup {None}
    BY <2>3, <2>6
  <2>8. s \in S
    <3> HIDE DEF S, s
    <3>1. L \subseteq S
      BY <2>7, LineSmallest
    <3> QED
      BY <2>2, <3>1
  <2> QED
    BY <2>2, <2>3, <2>4, <2>8
<1>2. Spec => [][Inactive]_vars
  BY <1>1, ServiceInductive, PTL
<1> QED
  BY <1>2 DEF DestroyedIsInactive
==============================================================================
