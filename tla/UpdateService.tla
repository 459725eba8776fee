----------------------------- MODULE UpdateService -----------------------------
(***************************************************************************)
(* Services/UpdateService with Kernel/BaseUpdation: nodes, affectors and   *)
(* schedulers ("updatables") register for the update of every frame under  *)
(* an id, which names a proxy and is listed in the leaf of its mode and    *)
(* depth.  The update of one may register, replace and remove others.      *)
(*                                                                         *)
(* A removed id is free again when its leaf comes across it.               *)
(***************************************************************************)
EXTENDS Integers, Sequences, FiniteSets, SequencesExt

CONSTANTS
  Updatable, None,
  Modes, Deeps,  \* the modes and depths in use
  MaxProxies,    \* a bound: how many proxies exist
  MaxReplaces    \* a bound: how often replaceUpdatater() lists an id again

ASSUME UpdateAssumption ==
  /\ None \notin Updatable /\ Modes \subseteq 0..3 /\ Deeps \subseteq Nat
  /\ MaxProxies \in Nat /\ MaxReplaces \in Nat

VARIABLES
  proxies,   \* m_proxies, whose ids count from 1 here
  frees,     \* m_proxyFrees
  leafs,     \* m_beforeLeaf, m_leafs and m_afterLeaf
  id,        \* m_updatableProxyId of each updatable, 0 when it is not active
  pc, at, pos,  \* where update() is: its leaf and its place there
  \* what has been observed so far
  visits,    \* how often each active updatable was updated in this frame
  due,       \* those active since the frame began that nobody moved
  moved,     \* those replaced to another depth since they became active
  replaced,  \* the ids replaceUpdatater() listed in a leaf, and how often it did
  replaces,
  shared     \* the ids taken from m_proxyFrees while it, or a leaf, still listed them

updateVars == <<pc, at, pos>>
observed == <<visits, due, moved, replaced, replaces, shared>>
vars == <<proxies, frees, leafs, id, updateVars, observed>>

\* proxy.deep, and the leaf getLeafUpdatable() returns for a mode and a depth.
ProxyDeep(mode, deep) == IF mode \in {0, 1} THEN deep * 2 + mode ELSE deep
LeafOf(mode, deep) ==
  [group |-> CASE mode = 2 -> 1 [] mode = 3 -> 3 [] OTHER -> 2, index |-> ProxyDeep(mode, deep)]

\* The leaves in use: those of createUpdatater(), and those of replaceUpdatater(),
\* which passes the depth of the proxy where the depth of the updatable belongs.
Leaf == {LeafOf(m, d) : m \in Modes, d \in Deeps}
          \cup {LeafOf(0, ProxyDeep(0, d)) : d \in Deeps}
Before(l, k) == l.group < k.group \/ (l.group = k.group /\ l.index < k.index)
NoLeaf == [group |-> 0, index |-> 0]

Proxy == [who : Updatable \cup {None}, mode : Modes, deep : Nat, removed : BOOLEAN]
Id == 1..MaxProxies

TypeOK ==
  /\ proxies \in Seq(Proxy) /\ Len(proxies) <= MaxProxies
  /\ frees \in Seq(Id)
  /\ \A l \in Leaf : leafs[l].indecies \in Seq(Id) /\ leafs[l].add \in Seq(Id)
  /\ id \in [Updatable -> Id \cup {0}]
  /\ pc \in {"idle", "leaf", "visit"}
  /\ at \in Leaf \cup {NoLeaf} /\ (at = NoLeaf <=> pc = "idle")
  /\ pos \in Nat /\ (pc = "visit" => pos \in 1..Len(leafs[at].indecies))
  /\ pc = "leaf" => pos \in 1..(Len(leafs[at].indecies) + 1)
  /\ visits \in [Updatable -> 0..2]
  /\ due \subseteq Updatable /\ moved \subseteq Updatable
  /\ replaced \subseteq Id /\ shared \subseteq Id /\ replaces \in 0..MaxReplaces

Init ==
  /\ proxies = <<>> /\ frees = <<>>
  /\ leafs = [l \in Leaf |-> [indecies |-> <<>>, add |-> <<>>]]
  /\ id = [u \in Updatable |-> 0]
  /\ pc = "idle" /\ at = NoLeaf /\ pos = 0
  /\ visits = [u \in Updatable |-> 0]
  /\ due = {} /\ moved = {} /\ replaced = {} /\ shared = {} /\ replaces = 0

Listed(i) == \E l \in Leaf : i \in ToSet(leafs[l].indecies) \cup ToSet(leafs[l].add)

\* *it = v.back(); v.pop_back();
SwapRemove(s, k) == Front([s EXCEPT ![k] = Last(s)])

------------------------------------------------------------------------------
(* The updatables, between frames or inside the update of one of them *)

Client == pc \in {"idle", "visit"}

\* activate(): createUpdatater() takes the last free id or a new one.
Create(u, mode, deep) ==
  /\ Client
  /\ id[u] = 0
  /\ frees # <<>> \/ Len(proxies) < MaxProxies
  /\ LET proxy == [who |-> u, mode |-> mode, deep |-> ProxyDeep(mode, deep), removed |-> FALSE]
         i == IF frees = <<>> THEN Len(proxies) + 1 ELSE Last(frees)
     IN  /\ proxies' = IF frees = <<>> THEN Append(proxies, proxy) ELSE [proxies EXCEPT ![i] = proxy]
         /\ frees' = IF frees = <<>> THEN <<>> ELSE Front(frees)
         /\ leafs' = [leafs EXCEPT ![LeafOf(mode, deep)].add = Append(@, i)]
         /\ id' = [id EXCEPT ![u] = i]
         /\ shared' = shared \cup (IF Listed(i) \/ i \in ToSet(frees') THEN {i} ELSE {})
  /\ visits' = [visits EXCEPT ![u] = 0]
  /\ moved' = moved \ {u}
  /\ UNCHANGED <<updateVars, due, replaced, replaces>>

\* replace(): replaceUpdatater() of an active updatable whose proxy has another
\* depth.  Its one caller is Node::setParent_(), and nodes have mode 0 and, once
\* they are active, a parent.
Replace(u, deep) ==
  /\ Client
  /\ id[u] # 0
  /\ replaces < MaxReplaces
  /\ LET i == id[u]
         p == proxies[i]
         prev == LeafOf(p.mode, p.deep)
         new == LeafOf(p.mode, ProxyDeep(p.mode, deep))
         found == prev \in Leaf /\ i \in ToSet(leafs[prev].add)
         k == CHOOSE n \in 1..Len(leafs[prev].add) :
                leafs[prev].add[n] = i /\ \A m \in 1..(n - 1) : leafs[prev].add[m] # i
         cleared == IF found THEN [leafs EXCEPT ![prev].add = SwapRemove(@, k)]
                             ELSE leafs
     IN  /\ p.mode = 0 /\ p.deep # deep /\ ~p.removed
         /\ leafs' = [cleared EXCEPT ![new].add = Append(@, i)]
         /\ proxies' = [proxies EXCEPT ![i].deep = ProxyDeep(p.mode, deep)]
         /\ IF ProxyDeep(p.mode, deep) = p.deep
            THEN UNCHANGED <<due, moved>>
            ELSE due' = due \ {u} /\ moved' = moved \cup {u}
         /\ replaced' = replaced \cup {i}
  /\ replaces' = replaces + 1
  /\ UNCHANGED <<frees, id, updateVars, visits, shared>>

\* Mutant: removeUpdatater() that frees the id at once.
RemoveUpdatater_Frees(u) ==
  /\ Client
  /\ id[u] # 0
  /\ proxies' = [proxies EXCEPT ![id[u]].who = None, ![id[u]].removed = TRUE]
  /\ frees' = Append(frees, id[u])
  /\ id' = [id EXCEPT ![u] = 0]
  /\ due' = due \ {u}
  /\ UNCHANGED <<leafs, updateVars, visits, moved, replaced, replaces, shared>>

\* deactivate(): removeUpdatater().
RemoveUpdatater(u) ==
  /\ Client
  /\ id[u] # 0
  /\ proxies' = [proxies EXCEPT ![id[u]].who = None, ![id[u]].removed = TRUE]
  /\ id' = [id EXCEPT ![u] = 0]
  /\ due' = due \ {u}
  /\ UNCHANGED <<frees, leafs, updateVars, visits, moved, replaced, replaces, shared>>

------------------------------------------------------------------------------
(* update() *)

\* The next leaf with anything in it; what was added to it joins it.
Enter(l) ==
  /\ pc' = "leaf" /\ at' = l /\ pos' = 1
  /\ leafs' = [leafs EXCEPT ![l] = [indecies |-> @.indecies \o @.add, add |-> <<>>]]

Busy == {l \in Leaf : leafs[l].indecies # <<>> \/ leafs[l].add # <<>>}
IsNext(l) == /\ l \in Busy /\ Before(at, l)
             /\ \A k \in Busy : Before(at, k) => k = l \/ Before(l, k)

BeginUpdate ==
  /\ pc = "idle"
  /\ \E l \in Leaf : IsNext(l) /\ Enter(l)
  /\ visits' = [u \in Updatable |-> 0]
  /\ due' = {u \in Updatable : id[u] # 0}
  /\ UNCHANGED <<proxies, frees, id, moved, replaced, replaces, shared>>

EnterLeaf ==
  /\ pc = "leaf"
  /\ pos > Len(leafs[at].indecies)
  /\ \E l \in Leaf : IsNext(l) /\ Enter(l)
  /\ UNCHANGED <<proxies, frees, id, observed>>

EndUpdate ==
  /\ pc = "leaf"
  /\ pos > Len(leafs[at].indecies)
  /\ ~\E l \in Busy : Before(at, l)
  /\ pc' = "idle" /\ at' = NoLeaf /\ pos' = 0
  /\ UNCHANGED <<proxies, frees, leafs, id, observed>>

Here == leafs[at].indecies[pos]
Drop == leafs' = [leafs EXCEPT ![at].indecies = SwapRemove(@, pos)]

\* An id that is listed in the leaf of another depth leaves it, ...
LeafMoved ==
  /\ pc = "leaf"
  /\ pos <= Len(leafs[at].indecies)
  /\ proxies[Here].deep # at.index
  /\ Drop
  /\ UNCHANGED <<proxies, frees, id, updateVars, observed>>

\* Mutant: the loop that goes on to the next place after a swap.
LeafRemoved_Skips ==
  /\ pc = "leaf"
  /\ pos <= Len(leafs[at].indecies)
  /\ proxies[Here].deep = at.index
  /\ proxies[Here].removed
  /\ frees' = Append(frees, Here)
  /\ Drop /\ pos' = IF pos = Len(leafs[at].indecies) THEN pos ELSE pos + 1
  /\ UNCHANGED <<proxies, id, pc, at, observed>>

\* ... one that was removed leaves it and is free again, ...
LeafRemoved ==
  /\ pc = "leaf"
  /\ pos <= Len(leafs[at].indecies)
  /\ proxies[Here].deep = at.index
  /\ proxies[Here].removed
  /\ frees' = Append(frees, Here)
  /\ Drop
  /\ UNCHANGED <<proxies, id, updateVars, observed>>

\* ... any other is updated.
LeafVisit ==
  /\ pc = "leaf"
  /\ pos <= Len(leafs[at].indecies)
  /\ proxies[Here].deep = at.index
  /\ ~proxies[Here].removed
  /\ visits' = [visits EXCEPT ![proxies[Here].who] = IF @ = 0 THEN 1 ELSE 2]
  /\ pc' = "visit"
  /\ UNCHANGED <<proxies, frees, leafs, id, at, pos, due, moved, replaced, replaces, shared>>

\* Mutant: an update that is counted twice.
VisitReturns_Twice ==
  /\ pc = "visit"
  /\ pc' = "leaf" /\ pos' = pos + 2
  /\ UNCHANGED <<proxies, frees, leafs, id, at, observed>>

VisitReturns ==
  /\ pc = "visit"
  /\ pc' = "leaf" /\ pos' = pos + 1
  /\ UNCHANGED <<proxies, frees, leafs, id, at, observed>>

------------------------------------------------------------------------------

Clients == \E u \in Updatable :
             \/ \E mode \in Modes, deep \in Deeps : Create(u, mode, deep)
             \/ \E deep \in Deeps : Replace(u, deep)
             \/ RemoveUpdatater(u)

Update == EnterLeaf \/ EndUpdate \/ LeafMoved \/ LeafRemoved \/ LeafVisit \/ VisitReturns

Next == Clients \/ BeginUpdate \/ Update

Spec == Init /\ [][Next]_vars

------------------------------------------------------------------------------
(* Properties *)

\* Two active updatables never have the same id, and the proxy of an id is that
\* of its updatable and not removed, unless the id was taken while a leaf, or
\* m_proxyFrees, still listed it; and only replaceUpdatater() makes such an id free.
IdsAreOwned ==
  /\ shared \subseteq replaced
  /\ \A u, v \in Updatable :
       id[u] # 0 /\ id[u] \notin shared => /\ proxies[id[u]].who = u /\ ~proxies[id[u]].removed
                                           /\ id[v] = id[u] => v = u

\* An updatable that is active throughout a frame is updated in it: neither the
\* swap with the last id nor a replace() to the depth it has makes a leaf skip
\* it.  One replaced to another depth is the exception: its id is listed in the
\* leaf of twice that depth, which drops it.
EveryFrame ==
  [][EndUpdate => \A u \in due : id[u] \in shared \/ u \in moved \/ visits[u] = 1]_vars

==============================================================================
