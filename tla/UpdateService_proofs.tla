------------------------- MODULE UpdateService_proofs -------------------------
(***************************************************************************)
(* Proofs about UpdateService, for any set of updatables, any modes and    *)
(* depths, and any number of proxies and replacements.                     *)
(***************************************************************************)
EXTENDS UpdateService, WellFoundedInduction, TLAPS

\* The places of a leaf are those of its list, then those of what was added to it.
Main(F, l) == F[l].indecies
Extra(F, l) == F[l].add
Count(F, l) == Len(Main(F, l)) + Len(Extra(F, l))
Place(F, l) == 1..Count(F, l)
At(F, l, j) == IF j <= Len(Main(F, l)) THEN Main(F, l)[j] ELSE Extra(F, l)[j - Len(Main(F, l))]

\* The fields of a proxy.
Who(P, i) == P[i].who
Deep(P, i) == P[i].deep
Gone(P, i) == P[i].removed

Lists == [Leaf -> [indecies : Seq(Id), add : Seq(Id)]]
Frees == 1..Len(frees)

\* Every id in use is that of a proxy.
ShapeInv ==
  /\ leafs \in Lists
  /\ \A l \in Leaf : \A j \in Place(leafs, l) : At(leafs, l, j) \in 1..Len(proxies)
  /\ \A n \in Frees : frees[n] \in 1..Len(proxies)
  /\ \A u \in Updatable : id[u] \in 0..Len(proxies)

\* An id that was not shared is that of its updatable only, and is not free; the updatable
\* of a proxy that was not removed has its id.
OwnInv ==
  /\ \A u \in Updatable :
       id[u] # 0 /\ id[u] \notin shared => /\ Who(proxies, id[u]) = u /\ ~Gone(proxies, id[u])
                                           /\ \A n \in Frees : frees[n] # id[u]
                                           /\ \A v \in Updatable : id[v] = id[u] => v = u
  /\ \A i \in 1..Len(proxies) :
       ~Gone(proxies, i) => Who(proxies, i) \in Updatable /\ id[Who(proxies, i)] = i

\* An id that was not replaced is listed once, in a leaf or in m_proxyFrees.
OnceInv ==
  /\ shared \subseteq replaced
  /\ \A l, m \in Leaf : \A j \in Place(leafs, l), k \in Place(leafs, m) :
       At(leafs, l, j) = At(leafs, m, k) /\ At(leafs, l, j) \notin replaced => l = m /\ j = k
  /\ \A n \in Frees : frees[n] \notin replaced =>
       /\ \A l \in Leaf : \A j \in Place(leafs, l) : At(leafs, l, j) # frees[n]
       /\ \A m \in Frees : frees[m] = frees[n] => m = n

\* An active updatable to which none of the exceptions applies.
Regular(u) == id[u] # 0 /\ id[u] \notin shared /\ u \notin moved

\* Its home: the place in the leaf of its depth, ...
Home(u, l, j) == At(leafs, l, j) = id[u] /\ l.index = Deep(proxies, id[u])

\* ... of which there is one ...
HomeInv ==
  \A u \in Updatable :
    Regular(u) => /\ \E l \in Leaf : \E j \in Place(leafs, l) : Home(u, l, j)
                  /\ \A l, m \in Leaf : \A j \in Place(leafs, l), k \in Place(leafs, m) :
                       Home(u, l, j) /\ Home(u, m, k) => l = m /\ j = k

\* ... which update() has passed or not.
Seen(l, j) == Before(l, at) \/ (l = at /\ (j < pos \/ (j = pos /\ pc = "visit")))

\* In a frame whoever was active when it began was updated when its home was passed.
FrameInv ==
  /\ \A u \in due : id[u] # 0
  /\ pc # "idle" =>
       \A u \in due : Regular(u) =>
         \A l \in Leaf : \A j \in Place(leafs, l) : Home(u, l, j) =>
           /\ visits[u] = IF Seen(l, j) THEN 1 ELSE 0
           /\ l = at => j <= Len(Main(leafs, at))

IInv == ShapeInv /\ OwnInv /\ OnceInv /\ HomeInv /\ FrameInv

------------------------------------------------------------------------------
(* Lists and places *)

\* Moving the last entry into the gap keeps every other one and adds none.
LEMMA RemovedEntries ==
  ASSUME NEW S, NEW s \in Seq(S), NEW n \in 1..Len(s)
  PROVE  /\ SwapRemove(s, n) \in Seq(S)
         /\ Len(SwapRemove(s, n)) = Len(s) - 1
         /\ \A i \in 1..Len(s) - 1 : SwapRemove(s, n)[i] = IF i = n THEN s[Len(s)] ELSE s[i]
<1> DEFINE p == [s EXCEPT ![n] = s[Len(s)]]
<1>1. Len(s) \in Nat /\ Len(s) >= 1 /\ s[Len(s)] \in S
  OBVIOUS
<1>2. p \in Seq(S) /\ Len(p) = Len(s)
  BY <1>1
<1>3. \A i \in 1..Len(s) : p[i] = IF i = n THEN s[Len(s)] ELSE s[i]
  BY <1>1
<1> HIDE DEF p
<1>4. /\ SubSeq(p, 1, Len(s) - 1) \in Seq(S)
      /\ Len(SubSeq(p, 1, Len(s) - 1)) = Len(s) - 1
      /\ \A i \in 1..Len(s) - 1 : SubSeq(p, 1, Len(s) - 1)[i] = p[i]
  BY <1>1, <1>2
<1>5. SwapRemove(s, n) = SubSeq(p, 1, Len(s) - 1)
  BY <1>2 DEF SwapRemove, Front, Last, p
<1> QED
  BY <1>1, <1>3, <1>4, <1>5

\* The last entry and those before it.
LEMMA LastEntry ==
  ASSUME NEW S, NEW s \in Seq(S), s # <<>>
  PROVE  /\ Len(s) \in Nat /\ Len(s) >= 1 /\ Last(s) = s[Len(s)]
         /\ Front(s) \in Seq(S) /\ Len(Front(s)) = Len(s) - 1
         /\ \A n \in 1..Len(s) - 1 : Front(s)[n] = s[n]
<1>1. Len(s) \in Nat /\ Len(s) >= 1
  OBVIOUS
<1>2. PICK n \in Nat : n = Len(s) - 1
  BY <1>1
<1>3. SubSeq(s, 1, n) \in Seq(S) /\ Len(SubSeq(s, 1, n)) = n
  BY <1>1, <1>2
<1>4. \A i \in 1..n : SubSeq(s, 1, n)[i] = s[i]
  BY <1>1, <1>2
<1>5. Front(s) = SubSeq(s, 1, n) /\ Last(s) = s[Len(s)]
  BY <1>2 DEF Front, Last
<1> QED
  BY <1>1, <1>2, <1>3, <1>4, <1>5

\* Every set of numbers that is not empty has a smallest one.
LEMMA Smallest ==
  ASSUME NEW T \in SUBSET Nat, T # {}
  PROVE  \E x \in T : \A y \in T : x <= y
<1> DEFINE R == {ss \in Nat \X Nat : ss[1] < ss[2]}
<1>1. IsWellFoundedOn(R, Nat)
  BY NatLessThanWellFounded DEF OpToRel
<1>2. \E x \in T : \A y \in T : <<y, x>> \notin R
  <2> HIDE DEF R
  <2> QED
    BY <1>1, WFMin
<1>3. PICK x \in T : \A y \in T : <<y, x>> \notin R
  BY <1>2
<1>4. ASSUME NEW y \in T PROVE x <= y
  <2>1. x \in Nat /\ y \in Nat /\ <<y, x>> \in Nat \X Nat
    OBVIOUS
  <2>2. ~(<<y, x>>[1] < <<y, x>>[2])
    BY <1>3, <2>1
  <2> QED
    BY <2>1, <2>2
<1> QED
  BY <1>4

\* The search of replaceUpdatater() finds an id its leaf lists.
LEMMA FoundFirst ==
  ASSUME NEW S, NEW s \in Seq(S), NEW i \in ToSet(s)
  PROVE  LET k == CHOOSE n \in 1..Len(s) : s[n] = i /\ \A m \in 1..(n - 1) : s[m] # i
         IN  k \in 1..Len(s) /\ s[k] = i
<1> DEFINE T == {n \in 1..Len(s) : s[n] = i}
<1>1. T \in SUBSET Nat /\ T # {}
  BY DEF ToSet
<1>2. PICK x \in T : \A y \in T : x <= y
  <2> HIDE DEF T
  <2> QED
    BY <1>1, Smallest
<1>3. x \in 1..Len(s) /\ s[x] = i /\ \A m \in 1..(x - 1) : s[m] # i
  BY <1>2
<1> QED
  BY <1>3

\* What is known of the leaf l of F.
LEMMA LeafType ==
  ASSUME NEW F \in Lists, NEW l \in Leaf
  PROVE  /\ F[l] \in [indecies : Seq(Id), add : Seq(Id)]
         /\ Main(F, l) \in Seq(Id) /\ Extra(F, l) \in Seq(Id)
         /\ Len(Main(F, l)) \in Nat /\ Len(Extra(F, l)) \in Nat /\ Count(F, l) \in Nat
         /\ Count(F, l) = Len(Main(F, l)) + Len(Extra(F, l))
<1>1. F[l] \in [indecies : Seq(Id), add : Seq(Id)]
  BY DEF Lists
<1>2. Main(F, l) \in Seq(Id) /\ Extra(F, l) \in Seq(Id)
  BY <1>1 DEF Main, Extra
<1> QED
  BY <1>1, <1>2 DEF Count

\* F with two lists for the leaf l, ...
With(F, l, s, t) == [F EXCEPT ![l] = [indecies |-> s, add |-> t]]
IsWith(F, G, l, s, t) ==
  /\ G \in Lists
  /\ Main(G, l) = s /\ Extra(G, l) = t /\ Count(G, l) = Len(s) + Len(t)
  /\ \A m \in Leaf \ {l} : /\ Main(G, m) = Main(F, m) /\ Count(G, m) = Count(F, m)
                           /\ Place(G, m) = Place(F, m)
                           /\ \A j \in Place(F, m) : At(G, m, j) = At(F, m, j)

\* ... which change no other leaf.
LEMMA NewLeaf ==
  ASSUME NEW F \in Lists, NEW l \in Leaf, NEW s \in Seq(Id), NEW t \in Seq(Id), NEW G, G = With(F, l, s, t)
  PROVE  IsWith(F, G, l, s, t)
<1> DEFINE r == [indecies |-> s, add |-> t]
<1>1. r \in [indecies : Seq(Id), add : Seq(Id)] /\ r.indecies = s /\ r.add = t
  OBVIOUS
<1>2. G = [F EXCEPT ![l] = r]
  BY DEF With
<1> HIDE DEF r
<1>3. G \in Lists /\ G[l] = r /\ \A m \in Leaf \ {l} : G[m] = F[m]
  BY <1>1, <1>2 DEF Lists
<1>4. Main(G, l) = s /\ Extra(G, l) = t
  BY <1>1, <1>3 DEF Main, Extra
<1>5. ASSUME NEW m \in Leaf \ {l} PROVE Main(G, m) = Main(F, m) /\ Extra(G, m) = Extra(F, m)
  BY <1>3 DEF Main, Extra
<1> QED
  BY <1>3, <1>4, <1>5 DEF Count, Place, At, IsWith

\* What the actions do to the leaves.
LEMMA Forms ==
  ASSUME NEW F \in Lists, NEW l \in Leaf, NEW i
  PROVE  /\ [F EXCEPT ![l] = [indecies |-> @.indecies \o @.add, add |-> <<>>]]
              = With(F, l, Main(F, l) \o Extra(F, l), <<>>)
         /\ [F EXCEPT ![l].add = Append(@, i)] = With(F, l, Main(F, l), Append(Extra(F, l), i))
         /\ [F EXCEPT ![l].add = SwapRemove(@, i)] = With(F, l, Main(F, l), SwapRemove(Extra(F, l), i))
         /\ [F EXCEPT ![l].indecies = SwapRemove(@, i)] = With(F, l, SwapRemove(Main(F, l), i), Extra(F, l))
<1>1. F[l] \in [indecies : Seq(Id), add : Seq(Id)]
  BY LeafType
<1>2. ASSUME NEW x PROVE /\ [F[l] EXCEPT !.add = x] = [indecies |-> F[l].indecies, add |-> x]
                         /\ [F[l] EXCEPT !.indecies = x] = [indecies |-> x, add |-> F[l].add]
  BY <1>1
<1>3. /\ [F[l] EXCEPT !.add = Append(F[l].add, i)] = [indecies |-> F[l].indecies, add |-> Append(F[l].add, i)]
      /\ [F[l] EXCEPT !.add = SwapRemove(F[l].add, i)]
           = [indecies |-> F[l].indecies, add |-> SwapRemove(F[l].add, i)]
      /\ [F[l] EXCEPT !.indecies = SwapRemove(F[l].indecies, i)]
           = [indecies |-> SwapRemove(F[l].indecies, i), add |-> F[l].add]
  BY ONLY <1>2, Zenon
<1> QED
  BY <1>3, Zenon DEF With, Main, Extra

\* When update() comes to a leaf, its places stay as they are and all are in its list.
LEMMA Entered ==
  ASSUME NEW F \in Lists, NEW l \in Leaf, NEW G,
         G = With(F, l, Main(F, l) \o Extra(F, l), <<>>)
  PROVE  /\ G \in Lists
         /\ \A m \in Leaf : Place(G, m) = Place(F, m) /\ \A j \in Place(F, m) : At(G, m, j) = At(F, m, j)
         /\ Len(Main(G, l)) = Count(F, l) /\ Main(G, l) = Main(F, l) \o Extra(F, l) /\ Extra(G, l) = <<>>
         /\ \A m \in Leaf \ {l} : Main(G, m) = Main(F, m)
<1> DEFINE s == Main(F, l)
           t == Extra(F, l)
<1>1. /\ s \in Seq(Id) /\ t \in Seq(Id) /\ Len(s) \in Nat /\ Len(t) \in Nat
      /\ Count(F, l) = Len(s) + Len(t)
  BY LeafType
<1>2. s \o t \in Seq(Id) /\ Len(s \o t) = Len(s) + Len(t) /\ <<>> \in Seq(Id) /\ Len(<<>>) = 0
      /\ \A j \in 1..Len(s) + Len(t) : (s \o t)[j] = IF j <= Len(s) THEN s[j] ELSE t[j - Len(s)]
  <2> HIDE DEF s, t
  <2> QED
    BY <1>1
<1>3. G = With(F, l, s \o t, <<>>)
  OBVIOUS
<1> HIDE DEF s, t
<1>4. /\ G \in Lists
      /\ Main(G, l) = s \o t /\ Extra(G, l) = <<>> /\ Count(G, l) = Len(s \o t) + Len(<<>>)
      /\ \A m \in Leaf \ {l} : /\ Main(G, m) = Main(F, m) /\ Count(G, m) = Count(F, m)
                               /\ Place(G, m) = Place(F, m)
                               /\ \A j \in Place(F, m) : At(G, m, j) = At(F, m, j)
  <2>1. IsWith(F, G, l, s \o t, <<>>)
    BY <1>2, <1>3, NewLeaf
  <2> QED
    BY <2>1 DEF IsWith
<1>5. Count(G, l) = Count(F, l) /\ Len(Main(G, l)) = Count(F, l)
  BY <1>1, <1>2, <1>4
<1>6. Place(G, l) = Place(F, l)
  BY <1>5 DEF Place
<1>7. \A j \in Place(F, l) : At(G, l, j) = At(F, l, j)
  <2> TAKE j \in Place(F, l)
  <2>1. j \in 1..Len(s) + Len(t) /\ j <= Len(Main(G, l))
    BY <1>1, <1>5 DEF Place
  <2>2. At(G, l, j) = (s \o t)[j]
    BY <1>4, <2>1 DEF At
  <2>3. At(F, l, j) = IF j <= Len(s) THEN s[j] ELSE t[j - Len(s)]
    BY DEF At, s, t
  <2> QED
    BY <1>2, <2>1, <2>2, <2>3
<1> QED
  BY <1>4, <1>5, <1>6, <1>7 DEF s, t

\* What is added to a leaf comes after all its places.
LEMMA Added ==
  ASSUME NEW F \in Lists, NEW l \in Leaf, NEW i \in Id, NEW G, G = With(F, l, Main(F, l), Append(Extra(F, l), i))
  PROVE  /\ G \in Lists
         /\ \A m \in Leaf : Main(G, m) = Main(F, m)
         /\ \A m \in Leaf : \A j \in Place(F, m) : j \in Place(G, m) /\ At(G, m, j) = At(F, m, j)
         /\ \A m \in Leaf : \A j \in Place(G, m) \ Place(F, m) : m = l /\ j = Count(F, l) + 1
         /\ Count(F, l) + 1 \in Place(G, l) \ Place(F, l) /\ At(G, l, Count(F, l) + 1) = i
<1> DEFINE s == Main(F, l)
           t == Extra(F, l)
           a == Append(t, i)
<1>1. /\ F[l] \in [indecies : Seq(Id), add : Seq(Id)]
      /\ s \in Seq(Id) /\ t \in Seq(Id) /\ Len(s) \in Nat /\ Len(t) \in Nat
      /\ Count(F, l) = Len(s) + Len(t)
  BY LeafType
<1>2. a \in Seq(Id) /\ Len(a) = Len(t) + 1 /\ a[Len(t) + 1] = i /\ \A j \in 1..Len(t) : a[j] = t[j]
  <2> HIDE DEF t
  <2> QED
    BY <1>1
<1>3. G = With(F, l, s, a)
  OBVIOUS
<1> HIDE DEF s, t, a
<1>4. /\ G \in Lists
      /\ Main(G, l) = s /\ Extra(G, l) = a /\ Count(G, l) = Len(s) + Len(a)
      /\ \A m \in Leaf \ {l} : /\ Main(G, m) = Main(F, m) /\ Count(G, m) = Count(F, m)
                               /\ Place(G, m) = Place(F, m)
                               /\ \A j \in Place(F, m) : At(G, m, j) = At(F, m, j)
  <2>1. IsWith(F, G, l, s, a)
    BY <1>1, <1>2, <1>3, NewLeaf
  <2> QED
    BY <2>1 DEF IsWith
<1>5. Count(G, l) = Count(F, l) + 1 /\ Count(F, l) \in Nat
  BY <1>1, <1>2, <1>4
<1>6. \A j : At(G, l, j) = IF j <= Len(s) THEN s[j] ELSE a[j - Len(s)]
  BY <1>4 DEF At
<1>7. \A j : At(F, l, j) = IF j <= Len(s) THEN s[j] ELSE t[j - Len(s)]
  BY DEF At, s, t
<1>8. \A j \in Place(F, l) : At(G, l, j) = At(F, l, j)
  <2> TAKE j \in Place(F, l)
  <2>1. j \in Nat /\ 1 <= j /\ j <= Len(s) + Len(t)
    BY <1>1 DEF Place
  <2>2. CASE j <= Len(s)
    BY <1>6, <1>7, <2>2
  <2>3. CASE ~(j <= Len(s))
    <3>1. j - Len(s) \in 1..Len(t)
      BY <1>1, <2>1, <2>3
    <3> QED
      BY <1>2, <1>6, <1>7, <2>3, <3>1
  <2> QED
    BY <2>2, <2>3
<1>9. At(G, l, Count(F, l) + 1) = i
  <2>1. ~(Count(F, l) + 1 <= Len(s)) /\ (Count(F, l) + 1) - Len(s) = Len(t) + 1
    BY <1>1
  <2> QED
    BY <1>2, <1>6, <2>1
<1>10. Main(G, l) = Main(F, l)
  BY <1>4 DEF s
<1>11. /\ \A j \in Place(F, l) : j \in Place(G, l)
       /\ \A j \in Place(G, l) \ Place(F, l) : j = Count(F, l) + 1
       /\ Count(F, l) + 1 \in Place(G, l) \ Place(F, l)
  <2> DEFINE c == Count(F, l)
  <2>1. c \in Nat /\ Place(F, l) = 1..c /\ Place(G, l) = 1..c + 1
    BY <1>5 DEF Place
  <2> HIDE DEF c
  <2>2. /\ \A j \in Place(F, l) : j \in Place(G, l)
        /\ \A j \in Place(G, l) \ Place(F, l) : j = c + 1
        /\ c + 1 \in Place(G, l) \ Place(F, l)
    BY <2>1
  <2> QED
    BY <2>2 DEF c
<1> QED
  BY <1>4, <1>8, <1>9, <1>10, <1>11

\* G has the places of F but the place p of the leaf l; f tells which was which.
Thins(F, G, f, l, p) ==
  /\ \A m \in Leaf : \A j \in Place(G, m) : /\ f[m][j] \in Place(F, m) /\ At(G, m, j) = At(F, m, f[m][j])
                                            /\ m = l => f[m][j] # p
  /\ \A m \in Leaf : \A j, k \in Place(G, m) : f[m][j] = f[m][k] => j = k
  /\ \A m \in Leaf : \A k \in Place(F, m) : (m = l /\ k = p) \/ \E j \in Place(G, m) : f[m][j] = k

\* An id leaves the list of a leaf.
LEMMA Dropped ==
  ASSUME NEW F \in Lists, NEW l \in Leaf, NEW p \in 1..Len(Main(F, l)), NEW G,
         G = With(F, l, SwapRemove(Main(F, l), p), Extra(F, l))
  PROVE  /\ G \in Lists
         /\ Len(Main(G, l)) = Len(Main(F, l)) - 1
         /\ \A m \in Leaf \ {l} : Main(G, m) = Main(F, m)
         /\ \E f : /\ Thins(F, G, f, l, p)
                   /\ \A j \in Place(G, l) :
                        f[l][j] = IF j >= Len(Main(F, l)) THEN j + 1
                                  ELSE IF j = p THEN Len(Main(F, l)) ELSE j
<1> DEFINE s == Main(F, l)
           t == Extra(F, l)
           n == Len(s)
           d == SwapRemove(s, p)
<1>1. /\ s \in Seq(Id) /\ t \in Seq(Id)
      /\ n \in Nat /\ Len(t) \in Nat /\ p \in Nat /\ 1 <= p /\ p <= n
  BY LeafType
<1>2. d \in Seq(Id) /\ Len(d) = n - 1 /\ \A j \in 1..n - 1 : d[j] = IF j = p THEN s[n] ELSE s[j]
  BY <1>1, RemovedEntries
<1> HIDE DEF s, t, d
<1>3. IsWith(F, G, l, d, t)
  BY <1>1, <1>2, NewLeaf DEF s, t, d
<1>4. /\ G \in Lists
      /\ Main(G, l) = d /\ Extra(G, l) = t /\ Count(G, l) = Len(d) + Len(t)
      /\ \A m \in Leaf \ {l} : /\ Main(G, m) = Main(F, m) /\ Count(G, m) = Count(F, m)
                               /\ Place(G, m) = Place(F, m)
                               /\ \A j \in Place(F, m) : At(G, m, j) = At(F, m, j)
  BY <1>3 DEF IsWith
<1>5. /\ \A j : At(F, l, j) = IF j <= n THEN s[j] ELSE t[j - n]
      /\ \A j : At(G, l, j) = IF j <= Len(d) THEN d[j] ELSE t[j - Len(d)]
  BY <1>4 DEF At, s, t
<1>6. Len(Main(G, l)) = n - 1 /\ Place(F, l) = 1..n + Len(t) /\ Place(G, l) = 1..(n - 1) + Len(t)
  BY <1>1, <1>2, <1>4 DEF Place, Count, s, t
<1> DEFINE from(j) == IF j >= n THEN j + 1 ELSE IF j = p THEN n ELSE j
           f == [m \in Leaf |-> [j \in Nat |-> IF m = l THEN from(j) ELSE j]]
<1>7. \A j \in Place(G, l) : f[l][j] = from(j)
  BY <1>1, <1>6
<1>8. \A m \in Leaf \ {l} : /\ Place(G, m) = Place(F, m)
                            /\ \A j \in Place(F, m) : f[m][j] = j /\ At(G, m, j) = At(F, m, j)
  <2> TAKE m \in Leaf \ {l}
  <2>1. Place(G, m) = Place(F, m) /\ \A j \in Place(F, m) : At(G, m, j) = At(F, m, j)
    BY <1>4
  <2>2. Place(F, m) \subseteq Nat
    BY LeafType DEF Place
  <2> QED
    BY <2>1, <2>2
<1> HIDE DEF f
<1>9. \A j \in Place(G, l) : At(G, l, j) = At(F, l, from(j))
  <2> TAKE j \in Place(G, l)
  <2>1. CASE j <= n - 1
    <3>1. At(G, l, j) = d[j]
      BY <1>2, <1>5, <2>1
    <3>2. from(j) \in 1..n /\ d[j] = s[from(j)]
      BY <1>1, <1>2, <1>6, <2>1
    <3> QED
      BY <1>1, <1>5, <3>1, <3>2
  <2>2. CASE ~(j <= n - 1)
    <3>1. At(G, l, j) = t[j - (n - 1)]
      BY <1>2, <1>5, <2>2
    <3>2. from(j) = j + 1 /\ ~(from(j) <= n) /\ from(j) - n = j - (n - 1)
      BY <1>1, <1>6, <2>2
    <3> QED
      BY <1>5, <3>1, <3>2
  <2> QED
    BY <2>1, <2>2
<1>10. \A j \in Place(G, l) : from(j) \in Place(F, l) /\ from(j) # p
  BY <1>1, <1>6
<1>11. \A j, k \in Place(G, l) : from(j) = from(k) => j = k
  BY <1>1, <1>6
<1>12. \A k \in Place(F, l) : k = p \/ \E j \in Place(G, l) : from(j) = k
  <2> TAKE k \in Place(F, l)
  <2> SUFFICES ASSUME k # p PROVE \E j \in Place(G, l) : from(j) = k
    OBVIOUS
  <2>1. CASE k = n
    <3>1. p \in Place(G, l) /\ from(p) = k
      BY <1>1, <1>6, <2>1
    <3> QED
      BY <3>1
  <2>2. CASE k < n
    BY <1>1, <1>6, <2>2
  <2>3. CASE k > n
    <3>1. k - 1 \in Place(G, l) /\ from(k - 1) = k
      BY <1>1, <1>6, <2>3
    <3> QED
      BY <3>1
  <2> QED
    BY <1>1, <1>6, <2>1, <2>2, <2>3
<1>13. Thins(F, G, f, l, p)
  <2> HIDE DEF from
  <2> QED
    BY <1>7, <1>8, <1>9, <1>10, <1>11, <1>12 DEF Thins
<1> QED
  BY <1>4, <1>6, <1>7, <1>13 DEF s

\* An id leaves what was added to a leaf.
LEMMA Cleared ==
  ASSUME NEW F \in Lists, NEW l \in Leaf, NEW k \in 1..Len(Extra(F, l)), NEW G,
         G = With(F, l, Main(F, l), SwapRemove(Extra(F, l), k))
  PROVE  /\ G \in Lists
         /\ \A m \in Leaf : Main(G, m) = Main(F, m)
         /\ At(F, l, Len(Main(F, l)) + k) = Extra(F, l)[k]
         /\ \E f : /\ Thins(F, G, f, l, Len(Main(F, l)) + k)
                   /\ \A m \in Leaf : \A j \in Place(G, m) : f[m][j] <= Len(Main(F, m)) => f[m][j] = j
<1> DEFINE s == Main(F, l)
           t == Extra(F, l)
           n == Len(s)
           d == SwapRemove(t, k)
           p == n + k
<1>1. /\ s \in Seq(Id) /\ t \in Seq(Id)
      /\ n \in Nat /\ Len(t) \in Nat /\ k \in Nat /\ 1 <= k /\ k <= Len(t)
  BY LeafType
<1>2. d \in Seq(Id) /\ Len(d) = Len(t) - 1 /\ \A j \in 1..Len(t) - 1 : d[j] = IF j = k THEN t[Len(t)] ELSE t[j]
  BY <1>1, RemovedEntries
<1> HIDE DEF s, t, d
<1>3. IsWith(F, G, l, s, d)
  BY <1>1, <1>2, NewLeaf DEF s, t, d
<1>4. /\ G \in Lists
      /\ Main(G, l) = s /\ Extra(G, l) = d /\ Count(G, l) = Len(s) + Len(d)
      /\ \A m \in Leaf \ {l} : /\ Main(G, m) = Main(F, m) /\ Count(G, m) = Count(F, m)
                               /\ Place(G, m) = Place(F, m)
                               /\ \A j \in Place(F, m) : At(G, m, j) = At(F, m, j)
  BY <1>3 DEF IsWith
<1>5. /\ \A j : At(F, l, j) = IF j <= n THEN s[j] ELSE t[j - n]
      /\ \A j : At(G, l, j) = IF j <= Len(s) THEN s[j] ELSE d[j - Len(s)]
  BY <1>4 DEF At, s, t
<1>6. Place(F, l) = 1..n + Len(t) /\ Place(G, l) = 1..n + (Len(t) - 1)
  BY <1>1, <1>2, <1>4 DEF Place, Count, s, t
<1> DEFINE from(j) == IF j = p THEN n + Len(t) ELSE j
           f == [m \in Leaf |-> [j \in Nat |-> IF m = l THEN from(j) ELSE j]]
<1>7. \A j \in Place(G, l) : f[l][j] = from(j)
  BY <1>1, <1>6
<1>8. \A m \in Leaf \ {l} : /\ Place(G, m) = Place(F, m)
                            /\ \A j \in Place(F, m) : f[m][j] = j /\ At(G, m, j) = At(F, m, j)
  <2> TAKE m \in Leaf \ {l}
  <2>1. Place(G, m) = Place(F, m) /\ \A j \in Place(F, m) : At(G, m, j) = At(F, m, j)
    BY <1>4
  <2>2. Place(F, m) \subseteq Nat
    BY LeafType DEF Place
  <2> QED
    BY <2>1, <2>2
<1> HIDE DEF f
<1>9. \A j \in Place(G, l) : At(G, l, j) = At(F, l, from(j))
  <2> TAKE j \in Place(G, l)
  <2>1. CASE j <= n
    BY <1>1, <1>4, <1>5, <2>1
  <2>2. CASE ~(j <= n)
    <3>1. At(G, l, j) = d[j - n] /\ j - n \in 1..Len(t) - 1
      BY <1>1, <1>4, <1>5, <1>6, <2>2
    <3>2. ~(from(j) <= n) /\ t[from(j) - n] = d[j - n]
      <4>1. CASE j = p
        <5>1. from(j) - n = Len(t) /\ j - n = k
          BY <1>1, <4>1
        <5> QED
          BY <1>1, <1>2, <3>1, <4>1, <5>1
      <4>2. CASE j # p
        <5>1. from(j) = j /\ j - n # k
          BY <1>1, <1>6, <4>2
        <5> QED
          BY <1>2, <2>2, <3>1, <5>1
      <4> QED
        BY <4>1, <4>2
    <3> QED
      BY <1>5, <3>1, <3>2
  <2> QED
    BY <2>1, <2>2
<1>10. \A j \in Place(G, l) : from(j) \in Place(F, l) /\ from(j) # p /\ (from(j) <= n => from(j) = j)
  BY <1>1, <1>6
<1>11. \A i, j \in Place(G, l) : from(i) = from(j) => i = j
  BY <1>1, <1>6
<1>12. \A j \in Place(F, l) : j = p \/ \E i \in Place(G, l) : from(i) = j
  <2> TAKE j \in Place(F, l)
  <2> SUFFICES ASSUME j # p PROVE \E i \in Place(G, l) : from(i) = j
    OBVIOUS
  <2>1. CASE j = n + Len(t)
    <3>1. p \in Place(G, l) /\ from(p) = j
      BY <1>1, <1>6, <2>1
    <3> QED
      BY <3>1
  <2>2. CASE j # n + Len(t)
    BY <1>1, <1>6, <2>2
  <2> QED
    BY <2>1, <2>2
<1>13. Thins(F, G, f, l, p)
  <2> HIDE DEF from, p
  <2> QED
    BY <1>7, <1>8, <1>9, <1>10, <1>11, <1>12 DEF Thins
<1>14. At(F, l, p) = t[k]
  BY <1>1, <1>5
<1>15. \A m \in Leaf : Main(G, m) = Main(F, m)
  BY <1>4 DEF s
<1>16. \A m \in Leaf : \A j \in Place(G, m) : f[m][j] <= Len(Main(F, m)) => f[m][j] = j
  <2> HIDE DEF from
  <2> QED
    BY <1>7, <1>8, <1>10 DEF s
<1> QED
  BY <1>4, <1>13, <1>14, <1>15, <1>16 DEF s, t
\* Where update() is.
PosOK(F, c, a, p) ==
  /\ c \in {"idle", "leaf", "visit"}
  /\ a \in Leaf \cup {NoLeaf} /\ (a = NoLeaf <=> c = "idle")
  /\ p \in Nat /\ (c = "visit" => p \in 1..Len(Main(F, a)))
  /\ c = "leaf" => p \in 1..Len(Main(F, a)) + 1

\* The types, part by part.
LEMMA TypeNow ==
  ASSUME TypeOK
  PROVE  /\ proxies \in Seq(Proxy) /\ Len(proxies) \in Nat /\ Len(proxies) <= MaxProxies
         /\ frees \in Seq(Id) /\ id \in [Updatable -> Id \cup {0}]
         /\ PosOK(leafs, pc, at, pos)
         /\ visits \in [Updatable -> 0..2] /\ due \subseteq Updatable /\ moved \subseteq Updatable
         /\ replaced \subseteq Id /\ shared \subseteq Id /\ replaces \in 0..MaxReplaces
BY DEF TypeOK, PosOK, Main

\* The types after a step.
LEMMA TypeAfter ==
  ASSUME proxies' \in Seq(Proxy), Len(proxies') <= MaxProxies, frees' \in Seq(Id), leafs' \in Lists,
         id' \in [Updatable -> Id \cup {0}], PosOK(leafs', pc', at', pos'),
         visits' \in [Updatable -> 0..2], due' \subseteq Updatable, moved' \subseteq Updatable,
         replaced' \subseteq Id, shared' \subseteq Id, replaces' \in 0..MaxReplaces
  PROVE  TypeOK'
<1>1. \A l \in Leaf : leafs'[l].indecies \in Seq(Id) /\ leafs'[l].add \in Seq(Id)
  BY LeafType DEF Main, Extra
<1>2. /\ pc' \in {"idle", "leaf", "visit"}
      /\ at' \in Leaf \cup {NoLeaf} /\ (at' = NoLeaf <=> pc' = "idle")
      /\ pos' \in Nat /\ (pc' = "visit" => pos' \in 1..Len(leafs'[at'].indecies))
      /\ pc' = "leaf" => pos' \in 1..(Len(leafs'[at'].indecies) + 1)
  BY DEF PosOK, Main
<1> QED
  BY <1>1, <1>2 DEF TypeOK

------------------------------------------------------------------------------
(* The steps *)

\* A listed id has a place.
LEMMA ListedAt ==
  ASSUME ShapeInv, NEW i
  PROVE  Listed(i) <=> \E l \in Leaf : \E j \in Place(leafs, l) : At(leafs, l, j) = i
<1>1. Listed(i) <=> \E l \in Leaf : i \in ToSet(Main(leafs, l)) \cup ToSet(Extra(leafs, l))
  BY DEF Listed, Main, Extra
<1>2. ASSUME NEW l \in Leaf
      PROVE  i \in ToSet(Main(leafs, l)) \cup ToSet(Extra(leafs, l))
               <=> \E j \in Place(leafs, l) : At(leafs, l, j) = i
  <2> DEFINE s == Main(leafs, l)
             t == Extra(leafs, l)
  <2>1. /\ s \in Seq(Id) /\ t \in Seq(Id) /\ Len(s) \in Nat /\ Len(t) \in Nat
        /\ Place(leafs, l) = 1..Len(s) + Len(t)
    BY LeafType DEF ShapeInv, Place
  <2>2. \A j : At(leafs, l, j) = IF j <= Len(s) THEN s[j] ELSE t[j - Len(s)]
    BY DEF At
  <2> HIDE DEF s, t
  <2>3. ToSet(s) = {s[j] : j \in 1..Len(s)} /\ ToSet(t) = {t[j] : j \in 1..Len(t)}
    BY <2>1 DEF ToSet
  <2>4. ASSUME NEW j \in Place(leafs, l), At(leafs, l, j) = i PROVE i \in ToSet(s) \cup ToSet(t)
    <3>1. CASE j <= Len(s)
      BY <2>1, <2>2, <2>3, <2>4, <3>1
    <3>2. CASE ~(j <= Len(s))
      <4>1. j - Len(s) \in 1..Len(t) /\ t[j - Len(s)] = i
        BY <2>1, <2>2, <2>4, <3>2
      <4> QED
        BY <2>3, <4>1
    <3> QED
      BY <3>1, <3>2
  <2>5. ASSUME NEW j \in 1..Len(s), s[j] = i PROVE \E k \in Place(leafs, l) : At(leafs, l, k) = i
    <3>1. j \in Place(leafs, l) /\ At(leafs, l, j) = i
      BY <2>1, <2>2, <2>5
    <3> QED
      BY <3>1
  <2>6. ASSUME NEW j \in 1..Len(t), t[j] = i PROVE \E k \in Place(leafs, l) : At(leafs, l, k) = i
    <3>1. /\ Len(s) + j \in Place(leafs, l) /\ ~(Len(s) + j <= Len(s))
          /\ (Len(s) + j) - Len(s) = j
      BY <2>1
    <3>2. At(leafs, l, Len(s) + j) = i
      BY <2>2, <2>6, <3>1
    <3> QED
      BY <3>1, <3>2
  <2> QED
    BY <2>3, <2>4, <2>5, <2>6 DEF s, t
<1> QED
  BY <1>1, <1>2

\* A created updatable takes an id that is new or free: if it is not shared, it is listed
\* nowhere else, and the place it is added to is the home of its updatable.
LEMMA CreateStep ==
  ASSUME TypeOK, IInv, NEW u \in Updatable, NEW mode \in Modes, NEW deep \in Deeps, Create(u, mode, deep)
  PROVE  TypeOK' /\ IInv'
<1> DEFINE l == LeafOf(mode, deep)
           d == ProxyDeep(mode, deep)
           i == IF frees = <<>> THEN Len(proxies) + 1 ELSE Last(frees)
           proxy == [who |-> u, mode |-> mode, deep |-> d, removed |-> FALSE]
<1> USE DEF IInv
<1>1. l \in Leaf /\ l.index = d /\ mode \in Modes /\ d \in Nat
  BY UpdateAssumption DEF Leaf, LeafOf, ProxyDeep
<1> HIDE DEF l, d
<1>2. /\ proxies \in Seq(Proxy) /\ Len(proxies) \in Nat /\ Len(proxies) <= MaxProxies
      /\ frees \in Seq(Id) /\ Len(frees) \in Nat /\ Frees = 1..Len(frees)
      /\ id[u] = 0 /\ id \in [Updatable -> Id \cup {0}]
      /\ \A n \in Frees : frees[n] \in 1..Len(proxies)
  BY DEF TypeOK, Create, ShapeInv, Frees
<1>3. /\ proxies' = IF frees = <<>> THEN Append(proxies, proxy) ELSE [proxies EXCEPT ![i] = proxy]
      /\ frees' = IF frees = <<>> THEN <<>> ELSE Front(frees)
      /\ leafs' = [leafs EXCEPT ![l].add = Append(@, i)]
      /\ id' = [id EXCEPT ![u] = i]
      /\ shared' = shared \cup (IF Listed(i) \/ i \in ToSet(frees') THEN {i} ELSE {})
      /\ frees # <<>> \/ Len(proxies) < MaxProxies
  BY DEF Create, l, d
<1>4. /\ visits' = [visits EXCEPT ![u] = 0] /\ moved' = moved \ {u} /\ replaced' = replaced
      /\ due' = due /\ pc' = pc /\ at' = at /\ pos' = pos
  BY DEF Create, updateVars
<1>5. proxy \in Proxy /\ proxy.who = u /\ proxy.deep = d /\ ~proxy.removed
  BY <1>1 DEF Proxy
<1> HIDE DEF proxy
\* The id.
<1>6. /\ i \in Id /\ i \in 1..Len(proxies') /\ Len(proxies') \in Nat /\ Len(proxies) <= Len(proxies')
      /\ proxies'[i] = proxy /\ (frees # <<>> => i \in 1..Len(proxies))
      /\ \A j \in 1..Len(proxies') : j # i => j \in 1..Len(proxies) /\ proxies'[j] = proxies[j]
  <2>1. CASE frees = <<>>
    BY <1>2, <1>3, <1>5, <2>1, UpdateAssumption DEF Id
  <2>2. CASE frees # <<>>
    <3>1. i \in 1..Len(proxies)
      BY <1>2, <2>2 DEF Last
    <3> QED
      BY <1>2, <1>3, <1>5, <2>2, <3>1, UpdateAssumption DEF Id
  <2> QED
    BY <2>1, <2>2
<1>7. /\ Len(frees') \in Nat /\ Frees' = 1..Len(frees')
      /\ \A n \in Frees' : n \in Frees /\ frees'[n] = frees[n] /\ (frees'[n] = i => i \in ToSet(frees'))
      /\ i \in ToSet(frees') => i \in replaced
      /\ \A n \in Frees' : frees[n] = i => i \in replaced
  <2>1. CASE frees = <<>>
    BY <1>2, <1>3, <2>1 DEF ToSet, Frees
  <2>2. CASE frees # <<>>
    <3>1. /\ Len(frees) \in Frees /\ i = frees[Len(frees)] /\ Len(frees') = Len(frees) - 1
          /\ \A n \in 1..Len(frees) - 1 : frees'[n] = frees[n] /\ n \in Frees /\ n # Len(frees)
      BY <1>2, <1>3, <2>2, LastEntry
    <3>2. Frees' = 1..Len(frees) - 1 /\ ToSet(frees') = {frees'[n] : n \in 1..Len(frees) - 1}
      <4>1. frees' \in Seq(Id)
        BY <1>2, <1>3, <2>2 DEF Front
      <4> QED
        BY <1>2, <3>1, <4>1 DEF ToSet, Frees
    <3>3. \A n \in 1..Len(frees) - 1 : frees[n] = i => i \in replaced
      BY <3>1 DEF OnceInv
    <3> QED
      BY <1>2, <3>1, <3>2, <3>3
  <2> QED
    BY <2>1, <2>2
<1>8. \A v \in Updatable : id[v] = i => i \in shared /\ frees # <<>>
  <2>1. CASE frees = <<>>
    BY <1>2, <2>1 DEF ShapeInv
  <2>2. CASE frees # <<>>
    <3>1. Len(frees) \in Frees /\ i = frees[Len(frees)] /\ i # 0
      BY <1>2, <1>6, <2>2 DEF Last, Id
    <3> QED
      BY <2>2, <3>1 DEF OwnInv
  <2> QED
    BY <2>1, <2>2
<1>9. \A m \in Leaf : \A j \in Place(leafs, m) : At(leafs, m, j) = i => i \in replaced /\ Listed(i)
  <2> SUFFICES ASSUME NEW m \in Leaf, NEW j \in Place(leafs, m), At(leafs, m, j) = i
               PROVE  i \in replaced /\ Listed(i)
    OBVIOUS
  <2>1. Listed(i)
    BY ListedAt
  <2>2. i \in 1..Len(proxies)
    BY DEF ShapeInv
  <2>3. frees # <<>>
    BY <1>2, <2>2
  <2>4. Len(frees) \in Frees /\ i = frees[Len(frees)]
    BY <1>2, <2>3 DEF Last
  <2> QED
    BY <2>1, <2>4 DEF OnceInv
<1>10. i \in shared' => i \in replaced
  <2>1. Listed(i) => i \in replaced
    BY <1>9, ListedAt
  <2> QED
    BY <1>3, <1>7, <2>1 DEF OnceInv
<1>11. \A j : j # i => (j \in shared' <=> j \in shared)
  BY <1>3
<1>12. leafs' = With(leafs, l, Main(leafs, l), Append(Extra(leafs, l), i)) /\ leafs \in Lists
  <2> HIDE DEF i
  <2>1. leafs \in Lists
    BY DEF ShapeInv
  <2>2. [leafs EXCEPT ![l].add = Append(@, i)] = With(leafs, l, Main(leafs, l), Append(Extra(leafs, l), i))
    BY <1>1, <2>1, Forms, Zenon
  <2> QED
    BY <1>3, <2>1, <2>2
<1>13. /\ id'[u] = i /\ \A v \in Updatable \ {u} : id'[v] = id[v]
       /\ i # 0 /\ \A n \in 1..Len(proxies) : n \in 1..Len(proxies')
  BY <1>2, <1>3, <1>6 DEF Id
<1>14. /\ Who(proxies', i) = u /\ ~Gone(proxies', i) /\ Deep(proxies', i) = d
       /\ \A j \in 1..Len(proxies') : j # i => /\ Who(proxies', j) = Who(proxies, j)
                                               /\ Deep(proxies', j) = Deep(proxies, j)
                                               /\ Gone(proxies', j) <=> Gone(proxies, j)
  BY <1>5, <1>6 DEF Who, Gone, Deep
<1>15. i \in shared' \/ /\ \A m \in Leaf : \A j \in Place(leafs, m) : At(leafs, m, j) # i
                        /\ \A n \in Frees' : frees'[n] # i
  BY <1>3, <1>7, <1>9
<1>16. shared \subseteq shared'
  BY <1>3
<1>17. \A v \in Updatable : v # u => (visits'[v] = visits[v])
  BY <1>4 DEF TypeOK
<1> HIDE DEF i
\* The places.
<1>20. PICK c \in Place(leafs', l) \ Place(leafs, l) :
       /\ leafs' \in Lists
       /\ \A m \in Leaf : Main(leafs', m) = Main(leafs, m)
       /\ \A m \in Leaf : \A j \in Place(leafs, m) : j \in Place(leafs', m) /\ At(leafs', m, j) = At(leafs, m, j)
       /\ \A m \in Leaf : \A j \in Place(leafs', m) \ Place(leafs, m) : m = l /\ j = c
       /\ At(leafs', l, c) = i
  BY <1>1, <1>6, <1>12, Added
<1>21. ShapeInv'
  <2>1. \A m \in Leaf : \A j \in Place(leafs', m) : At(leafs', m, j) \in 1..Len(proxies')
    BY <1>6, <1>13, <1>20 DEF ShapeInv
  <2>2. \A n \in Frees' : frees'[n] \in 1..Len(proxies')
    BY <1>7, <1>13 DEF ShapeInv
  <2>3. \A v \in Updatable : id'[v] \in 0..Len(proxies')
    BY <1>2, <1>6, <1>13 DEF ShapeInv
  <2> QED
    BY <1>20, <2>1, <2>2, <2>3 DEF ShapeInv
<1>22. OwnInv'
  <2>1. ASSUME NEW v \in Updatable, id'[v] # 0, id'[v] \notin shared'
        PROVE  /\ Who(proxies', id'[v]) = v /\ ~Gone(proxies', id'[v])
               /\ \A n \in Frees' : frees'[n] # id'[v]
               /\ \A w \in Updatable : id'[w] = id'[v] => w = v
    <3>1. CASE v = u
      BY <1>8, <1>13, <1>14, <1>15, <1>16, <2>1, <3>1
    <3>2. CASE v # u
      <4>1. id'[v] = id[v] /\ id[v] # i /\ id[v] \in 1..Len(proxies') /\ id[v] \notin shared
        BY <1>2, <1>6, <1>8, <1>13, <1>16, <2>1, <3>2 DEF ShapeInv
      <4> QED
        BY <1>7, <1>13, <1>14, <2>1, <4>1 DEF OwnInv
    <3> QED
      BY <3>1, <3>2
  <2>2. ASSUME NEW j \in 1..Len(proxies'), ~Gone(proxies', j)
        PROVE  Who(proxies', j) \in Updatable /\ id'[Who(proxies', j)] = j
    <3>1. CASE j = i
      BY <1>13, <1>14, <3>1
    <3>2. CASE j # i
      <4>1. Who(proxies', j) = Who(proxies, j) /\ ~Gone(proxies, j) /\ j \in 1..Len(proxies)
        BY <1>6, <1>14, <2>2, <3>2
      <4>2. Who(proxies, j) \in Updatable /\ id[Who(proxies, j)] = j /\ j # 0
        BY <1>2, <4>1 DEF OwnInv
      <4> QED
        BY <1>2, <1>13, <4>1, <4>2
    <3> QED
      BY <3>1, <3>2
  <2> QED
    BY <2>1, <2>2 DEF OwnInv
<1>23. OnceInv'
  <2>1. shared' \subseteq replaced'
    BY <1>4, <1>10, <1>11 DEF OnceInv
  <2>2. ASSUME NEW m \in Leaf, NEW n \in Leaf, NEW j \in Place(leafs', m), NEW k \in Place(leafs', n),
               At(leafs', m, j) = At(leafs', n, k), At(leafs', m, j) \notin replaced'
        PROVE  m = n /\ j = k
    BY <1>4, <1>9, <1>20, <2>2 DEF OnceInv
  <2>3. ASSUME NEW n \in Frees', frees'[n] \notin replaced'
        PROVE  /\ \A m \in Leaf : \A j \in Place(leafs', m) : At(leafs', m, j) # frees'[n]
               /\ \A m \in Frees' : frees'[m] = frees'[n] => m = n
    BY <1>4, <1>7, <1>20, <2>3 DEF OnceInv
  <2> QED
    BY <2>1, <2>2, <2>3 DEF OnceInv
\* The homes of the others stay.
<1>24. ASSUME NEW v \in Updatable \ {u}, Regular(v)'
       PROVE  /\ Regular(v) /\ \A m \in Leaf : \A j \in Place(leafs, m) : Home(v, m, j)' <=> Home(v, m, j)
              /\ \A m \in Leaf : \A j \in Place(leafs', m) : Home(v, m, j)' => j \in Place(leafs, m)
  <2>1. id'[v] = id[v] /\ id[v] \notin shared' /\ id[v] # 0 /\ v \notin moved
    BY <1>4, <1>13, <1>24 DEF Regular
  <2>2. id[v] # i /\ id[v] \in 1..Len(proxies') /\ id[v] \notin shared
    BY <1>2, <1>8, <1>13, <1>16, <2>1 DEF ShapeInv
  <2>3. Deep(proxies', id[v]) = Deep(proxies, id[v])
    BY <1>14, <2>2
  <2> QED
    BY <1>20, <2>1, <2>2, <2>3 DEF Regular, Home
<1>25. HomeInv'
  <2> SUFFICES ASSUME NEW v \in Updatable, Regular(v)'
               PROVE  /\ \E m \in Leaf : \E j \in Place(leafs', m) : Home(v, m, j)'
                      /\ \A m, n \in Leaf : \A j \in Place(leafs', m), k \in Place(leafs', n) :
                           Home(v, m, j)' /\ Home(v, n, k)' => m = n /\ j = k
    BY DEF HomeInv
  <2>1. CASE v = u
    <3>1. i \notin shared'
      BY <1>13, <2>1 DEF Regular
    <3>2. Home(u, l, c)'
      BY <1>1, <1>13, <1>14, <1>20 DEF Home
    <3>3. \A m \in Leaf : \A j \in Place(leafs', m) : Home(u, m, j)' => m = l /\ j = c
      BY <1>13, <1>15, <1>20, <3>1 DEF Home
    <3> QED
      BY <1>1, <1>20, <2>1, <3>2, <3>3
  <2>2. CASE v # u
    BY <1>20, <1>24, <2>2 DEF HomeInv
  <2> QED
    BY <2>1, <2>2
<1>26. FrameInv'
  <2>1. \A v \in due : v # u /\ v \in Updatable /\ id[v] # 0
    BY <1>2 DEF FrameInv, TypeOK
  <2>2. \A v \in due' : id'[v] # 0
    BY <1>4, <1>13, <2>1
  <2>3. ASSUME pc' # "idle", NEW v \in due', Regular(v)', NEW m \in Leaf, NEW j \in Place(leafs', m), Home(v, m, j)'
        PROVE  /\ visits'[v] = IF Seen(m, j)' THEN 1 ELSE 0
               /\ m = at' => j <= Len(Main(leafs', at'))
    <3>1. v \in due /\ v \in Updatable \ {u} /\ j \in Place(leafs, m) /\ Regular(v) /\ Home(v, m, j)
      BY <1>4, <1>24, <2>1, <2>3
    <3>2. Seen(m, j)' <=> Seen(m, j)
      BY <1>4 DEF Seen
    <3>3. /\ visits[v] = IF Seen(m, j) THEN 1 ELSE 0
          /\ m = at => j <= Len(Main(leafs, at))
      BY <1>4, <2>3, <3>1 DEF FrameInv
    <3> QED
      BY <1>4, <1>17, <1>20, <3>1, <3>2, <3>3
  <2> QED
    BY <2>2, <2>3 DEF FrameInv
<1>27. TypeOK'
  <2>1. proxies' \in Seq(Proxy) /\ Len(proxies') <= MaxProxies
    <3>1. CASE frees = <<>>
      BY <1>2, <1>3, <1>5, <3>1, UpdateAssumption
    <3>2. CASE frees # <<>>
      BY <1>2, <1>3, <1>5, <1>6, <3>2
    <3> QED
      BY <3>1, <3>2
  <2>2. frees' \in Seq(Id)
    BY <1>2, <1>3, LastEntry
  <2>3. id' \in [Updatable -> Id \cup {0}] /\ visits' \in [Updatable -> 0..2]
    BY <1>2, <1>3, <1>4, <1>6, TypeNow
  <2>4. PosOK(leafs', pc', at', pos')
    BY <1>4, <1>20, TypeNow DEF PosOK
  <2>5. /\ due' \subseteq Updatable /\ moved' \subseteq Updatable /\ replaced' \subseteq Id
        /\ shared' \subseteq Id /\ replaces' \in 0..MaxReplaces
    BY <1>3, <1>4, <1>6, TypeNow DEF Create
  <2> QED
    BY <1>20, <2>1, <2>2, <2>3, <2>4, <2>5, TypeAfter
<1> QED
  BY <1>27, <1>21, <1>22, <1>23, <1>25, <1>26

\* A proxy that changes leaves the others as they are.
LEMMA NewProxy ==
  ASSUME NEW P \in Seq(Proxy), NEW i \in 1..Len(P), NEW r \in Proxy, NEW Q, Q = [P EXCEPT ![i] = r]
  PROVE  /\ Q \in Seq(Proxy) /\ Len(Q) = Len(P) /\ Q[i] = r
         /\ \A j \in 1..Len(P) : j # i => /\ Q[j] = P[j]
                                          /\ Who(Q, j) = Who(P, j) /\ Deep(Q, j) = Deep(P, j)
                                          /\ Gone(Q, j) <=> Gone(P, j)
<1>1. Q \in Seq(Proxy) /\ Len(Q) = Len(P) /\ Q[i] = r /\ \A j \in 1..Len(P) : j # i => Q[j] = P[j]
  OBVIOUS
<1> QED
  BY <1>1 DEF Who, Deep, Gone

\* What removeUpdatater() and replaceUpdatater() do to a proxy.
ProxyRemoved(P, i) == [P EXCEPT ![i].who = None, ![i].removed = TRUE]
ProxyMoved(P, i, d) == [P EXCEPT ![i].deep = d]

\* removeUpdatater() keeps the depth of the proxy, ...
LEMMA RemovedProxy ==
  ASSUME NEW P \in Seq(Proxy), NEW i \in 1..Len(P), NEW Q, Q = ProxyRemoved(P, i)
  PROVE  /\ Q \in Seq(Proxy) /\ Len(Q) = Len(P) /\ Gone(Q, i) /\ Deep(Q, i) = Deep(P, i)
         /\ \A j \in 1..Len(P) : j # i => /\ Who(Q, j) = Who(P, j) /\ Deep(Q, j) = Deep(P, j)
                                          /\ Gone(Q, j) <=> Gone(P, j)
<1> DEFINE p == P[i]
           q == [p EXCEPT !.who = None]
           r == [q EXCEPT !.removed = TRUE]
<1>1. p \in Proxy
  OBVIOUS
<1> HIDE DEF p
<1>2. q \in Proxy /\ q.deep = p.deep
  BY <1>1 DEF Proxy
<1> HIDE DEF q
<1>3. r \in Proxy /\ r.deep = q.deep /\ (r.removed <=> TRUE)
  BY <1>2 DEF Proxy
<1>4. Q = [P EXCEPT ![i] = r]
  BY DEF ProxyRemoved, p, q
<1> HIDE DEF r
<1>5. Q \in Seq(Proxy) /\ Len(Q) = Len(P) /\ Q[i] = r
  BY <1>3, <1>4, NewProxy
<1>6. Deep(Q, i) = Deep(P, i) /\ Gone(Q, i)
  BY <1>2, <1>3, <1>5 DEF Deep, Gone, p
<1> QED
  <2>1. \A j \in 1..Len(P) : j # i => Q[j] = P[j]
    BY <1>3, <1>4, NewProxy
  <2>2. \A j \in 1..Len(P) : j # i => /\ Who(Q, j) = Who(P, j) /\ Deep(Q, j) = Deep(P, j)
                                      /\ Gone(Q, j) <=> Gone(P, j)
    BY <2>1 DEF Who, Deep, Gone
  <2> QED
    BY <1>5, <1>6, <2>2

\* ... replaceUpdatater() all but the depth.
LEMMA MovedProxy ==
  ASSUME NEW P \in Seq(Proxy), NEW i \in 1..Len(P), NEW d \in Nat, NEW Q, Q = ProxyMoved(P, i, d)
  PROVE  /\ Q \in Seq(Proxy) /\ Len(Q) = Len(P) /\ Deep(Q, i) = d
         /\ \A j \in 1..Len(P) : j # i => Deep(Q, j) = Deep(P, j)
         /\ \A j \in 1..Len(P) : Who(Q, j) = Who(P, j) /\ (Gone(Q, j) <=> Gone(P, j))
<1> DEFINE p == P[i]
           r == [p EXCEPT !.deep = d]
<1>1. p \in Proxy
  OBVIOUS
<1> HIDE DEF p
<1>2. r \in Proxy /\ r.deep = d /\ r.who = p.who /\ (r.removed <=> p.removed)
  BY <1>1 DEF Proxy
<1>3. Q = [P EXCEPT ![i] = r]
  BY DEF ProxyMoved, p
<1> HIDE DEF r
<1>4. Q \in Seq(Proxy) /\ Len(Q) = Len(P) /\ Q[i] = r
  BY <1>2, <1>3, NewProxy
<1> QED
  BY <1>2, <1>3, <1>4, NewProxy DEF Who, Gone, Deep, p

\* removeUpdatater() leaves the ids of the others and their homes as they are.
LEMMA RemoveStep ==
  ASSUME TypeOK, IInv, NEW u \in Updatable, RemoveUpdatater(u)
  PROVE  TypeOK' /\ IInv'
<1> DEFINE i == id[u]
<1> USE DEF IInv
<1>1. /\ proxies \in Seq(Proxy) /\ i \in 1..Len(proxies) /\ id \in [Updatable -> Id \cup {0}]
      /\ leafs \in Lists /\ at \in Leaf \cup {NoLeaf}
  BY DEF TypeOK, RemoveUpdatater, ShapeInv
<1>2. /\ proxies' = ProxyRemoved(proxies, i) /\ id' = [id EXCEPT ![u] = 0] /\ due' = due \ {u}
      /\ frees' = frees /\ leafs' = leafs /\ pc' = pc /\ at' = at /\ pos' = pos
      /\ visits' = visits /\ moved' = moved /\ replaced' = replaced /\ shared' = shared
  BY DEF RemoveUpdatater, updateVars, ProxyRemoved
<1>3. /\ Len(proxies') = Len(proxies) /\ Gone(proxies', i)
      /\ \A j \in 1..Len(proxies) : /\ Deep(proxies', j) = Deep(proxies, j)
                                    /\ j # i => /\ Who(proxies', j) = Who(proxies, j)
                                                /\ Gone(proxies', j) <=> Gone(proxies, j)
  <2> HIDE DEF i
  <2> QED
    BY <1>1, <1>2, RemovedProxy
<1>4. id'[u] = 0 /\ \A v \in Updatable \ {u} : id'[v] = id[v]
  BY <1>1, <1>2
<1>5. ASSUME NEW v \in Updatable, id'[v] # 0
      PROVE  v # u /\ id'[v] = id[v] /\ id[v] \in 1..Len(proxies) /\ (id[v] \notin shared => id[v] # i)
  <2>1. v # u /\ id'[v] = id[v] /\ id[v] \in 1..Len(proxies)
    BY <1>1, <1>4, <1>5 DEF ShapeInv
  <2> QED
    BY <1>5, <2>1 DEF OwnInv
<1>6. Frees' = Frees
  BY <1>2 DEF Frees
<1>7. ShapeInv'
  BY <1>1, <1>2, <1>3, <1>4, <1>6 DEF ShapeInv
<1>8. OwnInv'
  <2>1. ASSUME NEW v \in Updatable, id'[v] # 0, id'[v] \notin shared'
        PROVE  /\ Who(proxies', id'[v]) = v /\ ~Gone(proxies', id'[v])
               /\ \A n \in Frees' : frees'[n] # id'[v]
               /\ \A w \in Updatable : id'[w] = id'[v] => w = v
    <3>1. v # u /\ id'[v] = id[v] /\ id[v] \in 1..Len(proxies) /\ id[v] # i /\ id[v] # 0 /\ id[v] \notin shared
      BY <1>2, <1>5, <2>1
    <3>2. /\ Who(proxies, id[v]) = v /\ ~Gone(proxies, id[v])
          /\ \A n \in Frees : frees[n] # id[v]
          /\ \A w \in Updatable : id[w] = id[v] => w = v
      BY <3>1 DEF OwnInv
    <3> QED
      BY <1>2, <1>3, <1>4, <1>6, <2>1, <3>1, <3>2
  <2>2. ASSUME NEW j \in 1..Len(proxies'), ~Gone(proxies', j)
        PROVE  Who(proxies', j) \in Updatable /\ id'[Who(proxies', j)] = j
    <3>1. j # i /\ j \in 1..Len(proxies) /\ Who(proxies', j) = Who(proxies, j) /\ ~Gone(proxies, j)
      BY <1>3, <2>2
    <3>2. Who(proxies, j) \in Updatable /\ id[Who(proxies, j)] = j
      BY <3>1 DEF OwnInv
    <3> QED
      BY <1>4, <3>1, <3>2
  <2> QED
    BY <2>1, <2>2 DEF OwnInv
<1>9. OnceInv'
  BY <1>2, <1>6 DEF OnceInv
<1>10. ASSUME NEW v \in Updatable, Regular(v)'
       PROVE  v # u /\ Regular(v) /\ \A m \in Leaf : \A j \in Place(leafs, m) : Home(v, m, j)' <=> Home(v, m, j)
  BY <1>2, <1>3, <1>5, <1>10 DEF Regular, Home
<1>11. HomeInv'
  BY <1>2, <1>10 DEF HomeInv
<1>12. FrameInv'
  <2>1. \A v \in due' : v # u /\ v \in due /\ v \in Updatable /\ id'[v] # 0
    BY <1>2, <1>4 DEF FrameInv, TypeOK
  <2>2. \A m, j : Seen(m, j)' <=> Seen(m, j)
    BY <1>2 DEF Seen
  <2> QED
    BY <1>2, <1>10, <2>1, <2>2 DEF FrameInv
<1>13. TypeOK'
  <2>1. proxies' \in Seq(Proxy) /\ Len(proxies') <= MaxProxies
    <3> HIDE DEF i
    <3> QED
      BY <1>1, <1>2, RemovedProxy, TypeNow
  <2>2. id' \in [Updatable -> Id \cup {0}] /\ due' \subseteq Updatable /\ replaces' \in 0..MaxReplaces
    BY <1>1, <1>2, TypeNow DEF RemoveUpdatater
  <2> QED
    BY <1>1, <1>2, <2>1, <2>2, TypeNow, TypeAfter
<1> QED
  BY <1>13, <1>7, <1>8, <1>9, <1>11, <1>12

\* VisitReturns moves on to the next place.
LEMMA ReturnStep ==
  ASSUME TypeOK, IInv, VisitReturns
  PROVE  TypeOK' /\ IInv'
<1> USE DEF IInv
<1>1. /\ pc = "visit" /\ pc' = "leaf" /\ pos' = pos + 1 /\ pos \in Nat /\ at' = at
      /\ proxies' = proxies /\ frees' = frees /\ leafs' = leafs /\ id' = id
      /\ visits' = visits /\ due' = due /\ moved' = moved /\ replaced' = replaced /\ shared' = shared
  BY DEF VisitReturns, observed, TypeOK
<1>2. Frees' = Frees /\ \A v : Regular(v)' <=> Regular(v)
  BY <1>1 DEF Frees, Regular
<1>3. \A v, m, j : Home(v, m, j)' <=> Home(v, m, j)
  BY <1>1 DEF Home
<1>4. ASSUME NEW m \in Leaf, NEW j \in Place(leafs, m) PROVE Seen(m, j)' <=> Seen(m, j)
  <2>1. j \in Nat
    BY LeafType DEF Place, ShapeInv
  <2>2. j < pos + 1 <=> j < pos \/ j = pos
    BY <1>1, <2>1
  <2> QED
    BY <1>1, <2>2 DEF Seen
<1>5. ShapeInv' /\ OwnInv' /\ OnceInv'
  BY <1>1, <1>2 DEF ShapeInv, OwnInv, OnceInv
<1>6. HomeInv'
  BY <1>1, <1>2, <1>3 DEF HomeInv
<1>7. FrameInv'
  BY <1>1, <1>2, <1>3, <1>4 DEF FrameInv, TypeOK
<1>8. TypeOK'
  <2>1. leafs \in Lists /\ at \in Leaf
    BY <1>1 DEF TypeOK, ShapeInv
  <2>2. Len(Main(leafs, at)) \in Nat
    BY <2>1, LeafType
  <2>3. PosOK(leafs', pc', at', pos')
    BY <1>1, <2>1, <2>2, TypeNow DEF PosOK
  <2> QED
    BY <1>1, <2>1, <2>3, TypeNow, TypeAfter DEF VisitReturns, observed
<1> QED
  BY <1>8, <1>5, <1>6, <1>7

\* update() ends a frame.
LEMMA EndStep ==
  ASSUME TypeOK, IInv, EndUpdate
  PROVE  TypeOK' /\ IInv'
<1> USE DEF IInv
<1>1. /\ pc' = "idle"
      /\ proxies' = proxies /\ frees' = frees /\ leafs' = leafs /\ id' = id
      /\ visits' = visits /\ due' = due /\ moved' = moved /\ replaced' = replaced /\ shared' = shared
  BY DEF EndUpdate, observed
<1>2. Frees' = Frees /\ \A v : Regular(v)' <=> Regular(v)
  BY <1>1 DEF Frees, Regular
<1>3. \A v, m, j : Home(v, m, j)' <=> Home(v, m, j)
  BY <1>1 DEF Home
<1>5. ShapeInv' /\ OwnInv' /\ OnceInv'
  BY <1>1, <1>2 DEF ShapeInv, OwnInv, OnceInv
<1>6. HomeInv'
  BY <1>1, <1>2, <1>3 DEF HomeInv
<1>7. FrameInv'
  BY <1>1 DEF FrameInv
<1>8. TypeOK'
  <2>1. PosOK(leafs', pc', at', pos')
    BY DEF EndUpdate, PosOK
  <2>2. leafs' \in Lists
    BY <1>1 DEF ShapeInv
  <2> QED
    BY <1>1, <2>1, <2>2, TypeNow, TypeAfter DEF EndUpdate, observed
<1> QED
  BY <1>8, <1>5, <1>6, <1>7

\* The leaves are in a strict order, that of update(), and NoLeaf comes before them.
LEMMA LeafOrder ==
  /\ NoLeaf \notin Leaf
  /\ \A l \in Leaf : l.index \in Nat /\ Before(NoLeaf, l) /\ ~Before(l, NoLeaf) /\ ~Before(l, l)
  /\ \A l, k \in Leaf : /\ ~(Before(l, k) /\ Before(k, l))
                        /\ l = k \/ Before(l, k) \/ Before(k, l)
  /\ \A l, k, m \in Leaf : Before(l, k) /\ Before(k, m) => Before(l, m)
<1>1. \A m \in 0..3, d \in Nat : ProxyDeep(m, d) \in Nat
  BY DEF ProxyDeep
<1>2. \A m \in 0..3, d \in Nat : LeafOf(m, d) \in [group : 1..3, index : Nat]
  BY <1>1 DEF LeafOf
<1>3. Leaf \subseteq [group : 1..3, index : Nat]
  <2>1. ASSUME NEW m \in Modes, NEW d \in Deeps PROVE LeafOf(m, d) \in [group : 1..3, index : Nat]
    BY <1>2, UpdateAssumption
  <2>2. ASSUME NEW d \in Deeps PROVE LeafOf(0, ProxyDeep(0, d)) \in [group : 1..3, index : Nat]
    <3>1. 0 \in 0..3 /\ ProxyDeep(0, d) \in Nat
      BY <1>1, UpdateAssumption
    <3> QED
      BY <1>2, <3>1
  <2> QED
    BY <2>1, <2>2 DEF Leaf
<1>4. ASSUME NEW l \in Leaf PROVE l.group \in 1..3 /\ l.index \in Nat
  BY <1>3
<1>5. ASSUME NEW l \in Leaf, NEW k \in Leaf, l.group = k.group, l.index = k.index PROVE l = k
  BY <1>3, <1>5
<1>6. NoLeaf.group = 0 /\ NoLeaf.index = 0
  BY DEF NoLeaf
<1>7. NoLeaf \notin Leaf
  BY <1>4, <1>6
<1>8. \A l \in Leaf : Before(NoLeaf, l) /\ ~Before(l, NoLeaf) /\ ~Before(l, l)
  BY <1>4, <1>6 DEF Before
<1>9. ASSUME NEW l \in Leaf, NEW k \in Leaf
      PROVE  ~(Before(l, k) /\ Before(k, l)) /\ (l = k \/ Before(l, k) \/ Before(k, l))
  <2>1. l.group \in 1..3 /\ l.index \in Nat /\ k.group \in 1..3 /\ k.index \in Nat
    BY <1>4
  <2> QED
    BY <1>5, <2>1 DEF Before
<1>10. ASSUME NEW l \in Leaf, NEW k \in Leaf, NEW m \in Leaf, Before(l, k), Before(k, m)
       PROVE  Before(l, m)
  BY <1>4, <1>10 DEF Before
<1> QED
  BY <1>4, <1>7, <1>8, <1>9, <1>10

\* A leaf with a place is not skipped.
LEMMA PlaceBusy ==
  ASSUME ShapeInv, NEW l \in Leaf, NEW j \in Place(leafs, l)
  PROVE  l \in Busy
<1>1. Len(Main(leafs, l)) \in Nat /\ Len(Extra(leafs, l)) \in Nat
  BY LeafType DEF ShapeInv
<1>2. j \in 1..Len(Main(leafs, l)) + Len(Extra(leafs, l))
  BY DEF Place, Count
<1>3. Main(leafs, l) # <<>> \/ Extra(leafs, l) # <<>>
  BY <1>1, <1>2
<1> QED
  BY <1>3 DEF Busy, Main, Extra

\* The next leaf: the places stay as they are.
LEMMA EnterStep ==
  ASSUME TypeOK, IInv, NEW l \in Leaf, Enter(l),
         UNCHANGED <<proxies, frees, id, moved, replaced, shared>>
  PROVE  /\ ShapeInv' /\ OwnInv' /\ OnceInv' /\ HomeInv'
         /\ \A v \in Updatable : Regular(v)' <=> Regular(v)
         /\ \A m \in Leaf : /\ Place(leafs', m) = Place(leafs, m)
                            /\ \A v, j : j \in Place(leafs, m) => (Home(v, m, j)' <=> Home(v, m, j))
         /\ Place(leafs', l) = 1..Len(Main(leafs', l)) /\ Len(Main(leafs', l)) \in Nat
<1> USE DEF IInv
<1>1. /\ leafs \in Lists /\ pc' = "leaf" /\ at' = l /\ pos' = 1
      /\ proxies' = proxies /\ frees' = frees /\ id' = id
      /\ moved' = moved /\ replaced' = replaced /\ shared' = shared
  BY DEF Enter, ShapeInv
<1>2. leafs' = [leafs EXCEPT ![l] = [indecies |-> @.indecies \o @.add, add |-> <<>>]]
  BY DEF Enter
<1>3. leafs' = With(leafs, l, Main(leafs, l) \o Extra(leafs, l), <<>>)
  BY <1>1, <1>2, Forms, Zenon
<1>4. /\ leafs' \in Lists
      /\ \A m \in Leaf : /\ Place(leafs', m) = Place(leafs, m)
                         /\ \A j \in Place(leafs, m) : At(leafs', m, j) = At(leafs, m, j)
      /\ Len(Main(leafs', l)) = Count(leafs, l)
  BY <1>1, <1>3, Entered
<1>5. Frees' = Frees /\ \A v : Regular(v)' <=> Regular(v)
  BY <1>1 DEF Frees, Regular
<1>6. \A m \in Leaf : \A v, j : j \in Place(leafs, m) => (Home(v, m, j)' <=> Home(v, m, j))
  BY <1>1, <1>4 DEF Home
<1>7. ShapeInv'
  BY <1>1, <1>4, <1>5 DEF ShapeInv
<1>8. OwnInv'
  BY <1>1, <1>5 DEF OwnInv
<1>9. OnceInv'
  BY <1>1, <1>4, <1>5 DEF OnceInv
<1>10. HomeInv'
  BY <1>1, <1>4, <1>5, <1>6 DEF HomeInv
<1>11. Place(leafs', l) = 1..Len(Main(leafs', l)) /\ Len(Main(leafs', l)) \in Nat
  BY <1>1, <1>4, LeafType DEF Place
<1> QED
  BY <1>4, <1>5, <1>6, <1>7, <1>8, <1>9, <1>10, <1>11

\* At the start of a frame no place is seen and none was visited.
LEMMA BeginStep ==
  ASSUME TypeOK, IInv, BeginUpdate
  PROVE  TypeOK' /\ IInv'
<1> USE DEF IInv
<1>1. PICK l \in Leaf : IsNext(l) /\ Enter(l)
  BY DEF BeginUpdate
<1>2. /\ at = NoLeaf /\ pc' = "leaf" /\ at' = l /\ pos' = 1
      /\ visits' = [v \in Updatable |-> 0] /\ due' = {v \in Updatable : id[v] # 0}
      /\ UNCHANGED <<proxies, frees, id, moved, replaced, shared>>
  BY <1>1 DEF BeginUpdate, TypeOK, Enter
<1>3. /\ ShapeInv' /\ OwnInv' /\ OnceInv' /\ HomeInv'
      /\ \A m \in Leaf : Place(leafs', m) = Place(leafs, m)
      /\ Place(leafs', l) = 1..Len(Main(leafs', l)) /\ Len(Main(leafs', l)) \in Nat
  BY <1>1, <1>2, EnterStep
<1>4. ASSUME NEW m \in Leaf, NEW j \in Place(leafs', m)
      PROVE  ~Seen(m, j)' /\ (m = at' => j <= Len(Main(leafs', at')))
  <2>1. m \in Busy /\ Before(at, m)
    BY <1>2, <1>3, PlaceBusy, LeafOrder
  <2>2. ~Before(m, l)
    BY <1>1, <2>1, LeafOrder DEF IsNext
  <2>3. m = l => j \in Nat /\ 1 <= j /\ j <= Len(Main(leafs', l))
    BY <1>3
  <2> QED
    BY <1>2, <2>2, <2>3 DEF Seen
<1>5. FrameInv'
  BY <1>2, <1>4 DEF FrameInv
<1>7. TypeOK'
  <2>1. PosOK(leafs', pc', at', pos') /\ leafs' \in Lists
    BY <1>2, <1>3, LeafOrder DEF PosOK, ShapeInv
  <2> QED
    BY <1>2, <2>1, TypeNow, TypeAfter DEF BeginUpdate
<1> QED
  BY <1>7, <1>3, <1>5

\* Between two leaves there is no place: those seen are those up to the leaf that ends.
LEMMA NextLeafStep ==
  ASSUME TypeOK, IInv, EnterLeaf
  PROVE  TypeOK' /\ IInv'
<1> USE DEF IInv
<1>1. PICK l \in Leaf : IsNext(l) /\ Enter(l)
  BY DEF EnterLeaf
<1>2. /\ at \in Leaf /\ pc = "leaf" /\ pos \in Nat /\ pos > Len(Main(leafs, at))
      /\ pc' = "leaf" /\ at' = l /\ pos' = 1 /\ visits' = visits /\ due' = due
      /\ UNCHANGED <<proxies, frees, id, moved, replaced, shared>>
  BY <1>1 DEF EnterLeaf, TypeOK, Enter, observed, Main
<1>3. /\ ShapeInv' /\ OwnInv' /\ OnceInv' /\ HomeInv'
      /\ \A v \in Updatable : Regular(v)' <=> Regular(v)
      /\ \A m \in Leaf : /\ Place(leafs', m) = Place(leafs, m)
                         /\ \A v, j : j \in Place(leafs, m) => (Home(v, m, j)' <=> Home(v, m, j))
      /\ Place(leafs', l) = 1..Len(Main(leafs', l)) /\ Len(Main(leafs', l)) \in Nat
  BY <1>1, <1>2, EnterStep
<1>4. ASSUME NEW v \in due', Regular(v)', NEW m \in Leaf, NEW j \in Place(leafs', m), Home(v, m, j)'
      PROVE  /\ visits'[v] = IF Seen(m, j)' THEN 1 ELSE 0
             /\ m = at' => j <= Len(Main(leafs', at'))
  <2>1. v \in due /\ v \in Updatable /\ j \in Place(leafs, m)
    BY <1>2, <1>3 DEF TypeOK
  <2>2. Regular(v) /\ Home(v, m, j)
    BY <1>3, <1>4, <2>1
  <2>3. /\ visits[v] = IF Seen(m, j) THEN 1 ELSE 0
        /\ m = at => j <= Len(Main(leafs, at))
    BY <1>2, <2>1, <2>2 DEF FrameInv
  <2>4. j \in Nat /\ 1 <= j /\ Len(Main(leafs, at)) \in Nat
    BY <1>2, <2>1, LeafType DEF Place, ShapeInv
  <2>5. Seen(m, j) <=> Before(m, at) \/ m = at
    BY <1>2, <2>3, <2>4 DEF Seen
  <2>6. Seen(m, j)' <=> Before(m, l)
    BY <1>2, <2>4 DEF Seen
  <2>7. m \in Busy /\ Before(at, l) /\ (Before(at, m) => m = l \/ Before(l, m))
    BY <1>1, <2>1, PlaceBusy DEF IsNext
  <2>8. Before(m, l) <=> Before(m, at) \/ m = at
    BY <1>2, <2>7, LeafOrder
  <2>9. m = l => j <= Len(Main(leafs', l))
    BY <1>3
  <2> QED
    BY <1>2, <2>3, <2>5, <2>6, <2>8, <2>9
<1>5. \A v \in due' : id'[v] # 0
  BY <1>2 DEF FrameInv
<1>6. FrameInv'
  BY <1>4, <1>5 DEF FrameInv
<1>7. TypeOK'
  <2>1. PosOK(leafs', pc', at', pos') /\ leafs' \in Lists
    BY <1>2, <1>3, LeafOrder DEF PosOK, ShapeInv
  <2> QED
    BY <1>2, <2>1, TypeNow, TypeAfter DEF EnterLeaf, observed
<1> QED
  BY <1>7, <1>3, <1>6

\* update() is at a place.
LEMMA HereAt ==
  ASSUME TypeOK, ShapeInv, pc = "leaf", pos <= Len(leafs[at].indecies)
  PROVE  /\ at \in Leaf /\ pos \in 1..Len(Main(leafs, at)) /\ pos \in Place(leafs, at)
         /\ At(leafs, at, pos) = Here /\ Here \in 1..Len(proxies) /\ Len(proxies) \in Nat
<1>1. /\ at \in Leaf /\ pos \in Nat /\ 1 <= pos /\ pos <= Len(Main(leafs, at)) /\ Len(proxies) \in Nat
      /\ Here = Main(leafs, at)[pos] /\ leafs \in Lists
  BY DEF TypeOK, ShapeInv, Main, Here
<1>2. pos \in Place(leafs, at)
  BY <1>1, LeafType DEF Place
<1>3. At(leafs, at, pos) = Here
  BY <1>1 DEF At
<1> QED
  BY <1>1, <1>2, <1>3 DEF ShapeInv

\* An id leaves the leaf: no home goes, none is skipped and none is seen again.
LEMMA DropStep ==
  ASSUME TypeOK, IInv, pc = "leaf", pos <= Len(leafs[at].indecies), Drop,
         UNCHANGED <<proxies, id, updateVars, observed>>,
         \A v \in Updatable : Regular(v) => ~Home(v, at, pos)
  PROVE  /\ leafs' \in Lists /\ PosOK(leafs', pc', at', pos')
         /\ \A m \in Leaf : \A j \in Place(leafs', m) : At(leafs', m, j) \in 1..Len(proxies')
         /\ \A m \in Leaf : \A j \in Place(leafs', m) : \E k \in Place(leafs, m) :
              At(leafs', m, j) = At(leafs, m, k) /\ (m = at => k # pos)
         /\ \A m, n \in Leaf : \A j \in Place(leafs', m), k \in Place(leafs', n) :
              At(leafs', m, j) = At(leafs', n, k) /\ At(leafs', m, j) \notin replaced' => m = n /\ j = k
         /\ HomeInv' /\ FrameInv'
<1> USE DEF IInv
<1>1. /\ leafs \in Lists /\ at \in Leaf /\ pos \in 1..Len(Main(leafs, at)) /\ pos \in Nat
      /\ pc = "leaf"
  BY HereAt DEF ShapeInv, TypeOK
<1>2. /\ proxies' = proxies /\ id' = id /\ pc' = pc /\ at' = at /\ pos' = pos
      /\ visits' = visits /\ due' = due /\ moved' = moved /\ replaced' = replaced /\ shared' = shared
  BY DEF updateVars, observed
<1>3. leafs' = With(leafs, at, SwapRemove(Main(leafs, at), pos), Extra(leafs, at))
  <2>1. leafs' = [leafs EXCEPT ![at].indecies = SwapRemove(@, pos)]
    BY DEF Drop
  <2> QED
    BY <1>1, <2>1, Forms, Zenon
<1> DEFINE n == Len(Main(leafs, at))
           from(j) == IF j >= n THEN j + 1 ELSE IF j = pos THEN n ELSE j
<1>4. PICK f : /\ leafs' \in Lists
               /\ Len(Main(leafs', at)) = n - 1
               /\ Thins(leafs, leafs', f, at, pos)
               /\ \A j \in Place(leafs', at) : f[at][j] = from(j)
  BY <1>1, <1>3, Dropped
<1>5. n \in Nat /\ pos <= n /\ 1 <= pos
  BY <1>1, LeafType
<1> HIDE DEF n
<1>6. \A m \in Leaf : \A j \in Place(leafs', m) : j \in Nat /\ f[m][j] \in Place(leafs, m)
  BY <1>4, LeafType DEF Place, Thins
<1>7. \A v : Regular(v)' <=> Regular(v)
  BY <1>2 DEF Regular
<1>8. \A v : \A m \in Leaf : \A j \in Place(leafs', m) : Home(v, m, j)' <=> Home(v, m, f[m][j])
  BY <1>2, <1>4 DEF Thins, Home
<1>9. ASSUME NEW j \in Place(leafs', at)
      PROVE  (f[at][j] < pos <=> j < pos) /\ (f[at][j] <= n => j <= n - 1)
  <2>1. f[at][j] = from(j) /\ j \in Nat
    BY <1>1, <1>4, <1>6
  <2> QED
    BY <1>1, <1>5, <2>1
<1> HIDE DEF from
<1>10. \A m \in Leaf : \A j \in Place(leafs', m) : At(leafs', m, j) \in 1..Len(proxies')
  BY <1>2, <1>4 DEF ShapeInv, Thins
<1>11. \A m \in Leaf : \A j \in Place(leafs', m) : \E k \in Place(leafs, m) :
         At(leafs', m, j) = At(leafs, m, k) /\ (m = at => k # pos)
  BY <1>4 DEF Thins
<1>12. ASSUME NEW m \in Leaf, NEW l \in Leaf, NEW j \in Place(leafs', m), NEW k \in Place(leafs', l),
              At(leafs', m, j) = At(leafs', l, k), At(leafs', m, j) \notin replaced'
       PROVE  m = l /\ j = k
  <2>1. /\ f[m][j] \in Place(leafs, m) /\ At(leafs', m, j) = At(leafs, m, f[m][j])
        /\ f[l][k] \in Place(leafs, l) /\ At(leafs', l, k) = At(leafs, l, f[l][k])
    BY <1>4 DEF Thins
  <2>2. m = l /\ f[m][j] = f[l][k]
    BY <1>2, <1>12, <2>1 DEF OnceInv
  <2> QED
    BY <1>4, <2>2 DEF Thins
<1>13. HomeInv'
  <2> SUFFICES ASSUME NEW v \in Updatable, Regular(v)'
               PROVE  /\ \E m \in Leaf : \E j \in Place(leafs', m) : Home(v, m, j)'
                      /\ \A m, l \in Leaf : \A j \in Place(leafs', m), k \in Place(leafs', l) :
                           Home(v, m, j)' /\ Home(v, l, k)' => m = l /\ j = k
    BY DEF HomeInv
  <2>1. Regular(v)
    BY <1>7
  <2>2. PICK m \in Leaf : \E k \in Place(leafs, m) : Home(v, m, k)
    BY <2>1 DEF HomeInv
  <2>3. PICK k \in Place(leafs, m) : Home(v, m, k)
    BY <2>2
  <2>4. PICK j \in Place(leafs', m) : f[m][j] = k
    BY <1>4, <2>1, <2>3 DEF Thins
  <2>5. Home(v, m, j)'
    BY <1>8, <2>3, <2>4
  <2>6. ASSUME NEW a \in Leaf, NEW b \in Leaf, NEW x \in Place(leafs', a), NEW y \in Place(leafs', b),
               Home(v, a, x)', Home(v, b, y)'
        PROVE  a = b /\ x = y
    <3>1. Home(v, a, f[a][x]) /\ Home(v, b, f[b][y])
      BY <1>8, <2>6
    <3>2. a = b /\ f[a][x] = f[b][y]
      BY <1>6, <2>1, <3>1 DEF HomeInv
    <3> QED
      BY <1>4, <3>2 DEF Thins
  <2> QED
    BY <2>5, <2>6
<1>14. FrameInv'
  <2>1. \A v \in due' : id'[v] # 0
    BY <1>2 DEF FrameInv
  <2>2. ASSUME NEW v \in due', Regular(v)', NEW m \in Leaf, NEW j \in Place(leafs', m), Home(v, m, j)'
        PROVE  /\ visits'[v] = IF Seen(m, j)' THEN 1 ELSE 0
               /\ m = at' => j <= Len(Main(leafs', at'))
    <3>1. v \in due /\ Regular(v) /\ Home(v, m, f[m][j]) /\ f[m][j] \in Place(leafs, m)
      BY <1>2, <1>6, <1>7, <1>8, <2>2
    <3>2. /\ visits[v] = IF Seen(m, f[m][j]) THEN 1 ELSE 0
          /\ m = at => f[m][j] <= n
      BY <1>1, <3>1 DEF FrameInv, n
    <3>3. Seen(m, j)' <=> Seen(m, f[m][j])
      <4>1. CASE m = at
        BY <1>1, <1>2, <1>9, <4>1 DEF Seen
      <4>2. CASE m # at
        BY <1>1, <1>2, <4>2 DEF Seen
      <4> QED
        BY <4>1, <4>2
    <3>4. m = at => j <= Len(Main(leafs', at))
      BY <1>4, <1>9, <3>2
    <3> QED
      BY <1>2, <3>2, <3>3, <3>4
  <2> QED
    BY <2>1, <2>2 DEF FrameInv
<1>15. PosOK(leafs', pc', at', pos')
  BY <1>1, <1>2, <1>4, <1>5, TypeNow DEF PosOK
<1> QED
  BY <1>15, <1>4, <1>10, <1>11, <1>12, <1>13, <1>14

\* An id listed in the leaf of another depth is no home.
LEMMA MovedStep ==
  ASSUME TypeOK, IInv, LeafMoved
  PROVE  TypeOK' /\ IInv'
<1> USE DEF IInv
<1>1. /\ pc = "leaf" /\ pos <= Len(leafs[at].indecies) /\ Drop
      /\ Deep(proxies, Here) # at.index /\ frees' = frees
      /\ UNCHANGED <<proxies, id, updateVars, observed>>
  BY DEF LeafMoved, Deep
<1>2. ASSUME NEW v \in Updatable, Regular(v) PROVE ~Home(v, at, pos)
  BY <1>1, HereAt DEF Home
<1>3. /\ leafs' \in Lists /\ PosOK(leafs', pc', at', pos')
      /\ \A m \in Leaf : \A j \in Place(leafs', m) : At(leafs', m, j) \in 1..Len(proxies')
      /\ \A m \in Leaf : \A j \in Place(leafs', m) : \E k \in Place(leafs, m) :
           At(leafs', m, j) = At(leafs, m, k) /\ (m = at => k # pos)
      /\ \A m, n \in Leaf : \A j \in Place(leafs', m), k \in Place(leafs', n) :
           At(leafs', m, j) = At(leafs', n, k) /\ At(leafs', m, j) \notin replaced' => m = n /\ j = k
      /\ HomeInv' /\ FrameInv'
  BY <1>1, <1>2, DropStep
<1>4. /\ proxies' = proxies /\ id' = id /\ replaced' = replaced /\ shared' = shared /\ Frees' = Frees
  BY <1>1 DEF observed, Frees
<1>5. ShapeInv' /\ OwnInv'
  BY <1>1, <1>3, <1>4 DEF ShapeInv, OwnInv
<1>6. ASSUME NEW n \in Frees', frees'[n] \notin replaced'
      PROVE  /\ \A l \in Leaf : \A j \in Place(leafs', l) : At(leafs', l, j) # frees'[n]
             /\ \A m \in Frees' : frees'[m] = frees'[n] => m = n
  BY <1>1, <1>3, <1>4, <1>6 DEF OnceInv
<1>7. shared' \subseteq replaced'
  BY <1>4 DEF OnceInv
<1>8. OnceInv'
  BY <1>3, <1>6, <1>7 DEF OnceInv
<1>9. TypeOK'
  BY <1>1, <1>3, TypeNow, TypeAfter DEF observed
<1> QED
  BY <1>9, <1>3, <1>5, <1>8

\* An id that was removed is not that of an updatable, unless it is shared, and leaves the
\* only place that lists it, unless it was replaced, when it becomes free.
LEMMA RemovedStep ==
  ASSUME TypeOK, IInv, LeafRemoved
  PROVE  TypeOK' /\ IInv'
<1> USE DEF IInv
<1>1. /\ pc = "leaf" /\ pos <= Len(leafs[at].indecies) /\ Drop
      /\ Gone(proxies, Here) /\ frees' = Append(frees, Here)
      /\ UNCHANGED <<proxies, id, updateVars, observed>>
  BY DEF LeafRemoved, Gone
<1>2. /\ at \in Leaf /\ pos \in Place(leafs, at) /\ At(leafs, at, pos) = Here
      /\ Here \in 1..Len(proxies) /\ frees \in Seq(Id) /\ Len(frees) \in Nat
  BY <1>1, HereAt DEF TypeOK
<1>3. ASSUME NEW v \in Updatable, id[v] # 0, id[v] \notin shared PROVE id[v] # Here
  BY <1>1, <1>3 DEF OwnInv
<1>4. ASSUME NEW v \in Updatable, Regular(v) PROVE ~Home(v, at, pos)
  BY <1>2, <1>3, <1>4 DEF Home, Regular
<1>5. /\ leafs' \in Lists /\ PosOK(leafs', pc', at', pos')
      /\ \A m \in Leaf : \A j \in Place(leafs', m) : At(leafs', m, j) \in 1..Len(proxies')
      /\ \A m \in Leaf : \A j \in Place(leafs', m) : \E k \in Place(leafs, m) :
           At(leafs', m, j) = At(leafs, m, k) /\ (m = at => k # pos)
      /\ \A m, n \in Leaf : \A j \in Place(leafs', m), k \in Place(leafs', n) :
           At(leafs', m, j) = At(leafs', n, k) /\ At(leafs', m, j) \notin replaced' => m = n /\ j = k
      /\ HomeInv' /\ FrameInv'
  BY <1>1, <1>4, DropStep
<1>6. /\ proxies' = proxies /\ id' = id /\ replaced' = replaced /\ shared' = shared
  BY <1>1 DEF observed
<1>7. /\ Frees' = 1..Len(frees) + 1 /\ frees'[Len(frees) + 1] = Here
      /\ \A n \in Frees' : n # Len(frees) + 1 => n \in Frees /\ frees'[n] = frees[n]
  <2>1. Here \in Id
    <3>1. Len(proxies) \in Nat /\ Len(proxies) <= MaxProxies
      BY DEF TypeOK
    <3> QED
      BY <1>2, <3>1, UpdateAssumption DEF Id
  <2> HIDE DEF Here
  <2> QED
    BY <1>1, <1>2, <2>1 DEF Frees
<1>8. ShapeInv'
  BY <1>2, <1>5, <1>6, <1>7 DEF ShapeInv
<1>9. OwnInv'
  <2>1. ASSUME NEW v \in Updatable, id[v] # 0, id[v] \notin shared, NEW n \in Frees' PROVE frees'[n] # id[v]
    BY <1>3, <1>7, <2>1 DEF OwnInv
  <2> QED
    BY <1>6, <2>1 DEF OwnInv
<1>10. ASSUME NEW n \in Frees', frees'[n] \notin replaced'
       PROVE  /\ \A l \in Leaf : \A j \in Place(leafs', l) : At(leafs', l, j) # frees'[n]
              /\ \A m \in Frees' : frees'[m] = frees'[n] => m = n
  <2>1. CASE n = Len(frees) + 1
    <3>1. Here \notin replaced /\ frees'[n] = Here
      BY <1>6, <1>7, <1>10, <2>1
    <3>2. \A l \in Leaf : \A j \in Place(leafs, l) : At(leafs, l, j) = Here => l = at /\ j = pos
      BY <1>2, <3>1 DEF OnceInv
    <3>3. \A l \in Leaf : \A j \in Place(leafs', l) : At(leafs', l, j) # Here
      BY <1>5, <3>2
    <3>4. \A m \in Frees : frees[m] # Here
      BY <1>2, <3>1 DEF OnceInv
    <3> QED
      BY <1>7, <2>1, <3>1, <3>3, <3>4
  <2>2. CASE n # Len(frees) + 1
    <3>1. n \in Frees /\ frees'[n] = frees[n] /\ frees[n] \notin replaced
      BY <1>6, <1>7, <1>10, <2>2
    <3>2. /\ \A l \in Leaf : \A j \in Place(leafs, l) : At(leafs, l, j) # frees[n]
          /\ \A m \in Frees : frees[m] = frees[n] => m = n
      BY <3>1 DEF OnceInv
    <3> QED
      BY <1>2, <1>5, <1>7, <3>1, <3>2
  <2> QED
    BY <2>1, <2>2
<1>11. shared' \subseteq replaced'
  BY <1>6 DEF OnceInv
<1>12. OnceInv'
  BY <1>5, <1>10, <1>11 DEF OnceInv
<1>13. frees' \in Seq(Id)
  <2>1. Here \in Id
    <3>1. Len(proxies) \in Nat /\ Len(proxies) <= MaxProxies
      BY DEF TypeOK
    <3> QED
      BY <1>2, <3>1, UpdateAssumption DEF Id
  <2> QED
    BY <1>1, <1>2, <2>1
<1>14. TypeOK'
  BY <1>1, <1>5, <1>13, TypeNow, TypeAfter DEF observed
<1> QED
  BY <1>14, <1>5, <1>8, <1>9, <1>12

\* The updatable of an id at home is updated: it is the one whose home this is.
LEMMA VisitStep ==
  ASSUME TypeOK, IInv, LeafVisit
  PROVE  TypeOK' /\ IInv'
<1> USE DEF IInv
<1> DEFINE w == Who(proxies, Here)
<1>1. /\ pc = "leaf" /\ pos <= Len(leafs[at].indecies)
      /\ Deep(proxies, Here) = at.index /\ ~Gone(proxies, Here)
      /\ visits' = [visits EXCEPT ![w] = IF @ = 0 THEN 1 ELSE 2]
      /\ pc' = "visit"
      /\ UNCHANGED <<proxies, frees, leafs, id, at, pos, due, moved, replaced, shared>>
  BY DEF LeafVisit, Who, Deep, Gone
<1>2. /\ at \in Leaf /\ pos \in Place(leafs, at) /\ At(leafs, at, pos) = Here
      /\ Here \in 1..Len(proxies) /\ visits \in [Updatable -> 0..2] /\ pos \in Nat
  BY <1>1, HereAt DEF TypeOK
<1>3. w \in Updatable /\ id[w] = Here
  BY <1>1, <1>2 DEF OwnInv
<1> HIDE DEF w
<1>4. visits'[w] = (IF visits[w] = 0 THEN 1 ELSE 2) /\ \A v \in Updatable : v # w => visits'[v] = visits[v]
  BY <1>1, <1>2, <1>3
<1>5. Frees' = Frees /\ (\A v : Regular(v)' <=> Regular(v)) /\ \A v, m, j : Home(v, m, j)' <=> Home(v, m, j)
  BY <1>1 DEF Frees, Regular, Home
<1>6. ShapeInv' /\ OwnInv' /\ OnceInv'
  BY <1>1, <1>5 DEF ShapeInv, OwnInv, OnceInv
<1>7. HomeInv'
  BY <1>1, <1>5 DEF HomeInv
<1>8. Home(w, at, pos) /\ ~Seen(at, pos)
  BY <1>1, <1>2, <1>3, LeafOrder DEF Home, Seen
<1>9. ASSUME NEW v \in due, Regular(v), NEW m \in Leaf, NEW j \in Place(leafs, m), Home(v, m, j)
      PROVE  visits'[v] = IF Seen(m, j)' THEN 1 ELSE 0
  <2>1. v \in Updatable /\ visits[v] = IF Seen(m, j) THEN 1 ELSE 0
    BY <1>1, <1>9 DEF FrameInv, TypeOK
  <2>2. Seen(m, j)' <=> Seen(m, j) \/ (m = at /\ j = pos)
    BY <1>1 DEF Seen
  <2>3. CASE v = w
    <3>1. m = at /\ j = pos
      BY <1>2, <1>3, <1>8, <1>9, <2>3 DEF HomeInv
    <3> QED
      BY <1>4, <1>8, <2>1, <2>2, <2>3, <3>1
  <2>4. CASE v # w
    <3>1. ~(m = at /\ j = pos)
      BY <1>2, <1>3, <1>9, <2>1, <2>4 DEF Home, Regular, OwnInv
    <3> QED
      BY <1>4, <2>1, <2>2, <2>4, <3>1
  <2> QED
    BY <2>3, <2>4
<1>10. FrameInv'
  <2>1. \A v \in due : id[v] # 0
    BY DEF FrameInv
  <2>2. ASSUME NEW v \in due, Regular(v), NEW m \in Leaf, NEW j \in Place(leafs, m), Home(v, m, j)
        PROVE  m = at => j <= Len(Main(leafs, at))
    BY <1>1, <2>2 DEF FrameInv
  <2> QED
    BY <1>1, <1>5, <1>9, <2>1, <2>2 DEF FrameInv
<1>11. TypeOK'
  <2>1. leafs' \in Lists /\ visits' \in [Updatable -> 0..2]
    BY <1>1, <1>2, <1>3 DEF ShapeInv
  <2>2. PosOK(leafs', pc', at', pos')
    BY <1>1, <1>2, HereAt, TypeNow DEF PosOK
  <2> QED
    BY <1>1, <2>1, <2>2, TypeNow, TypeAfter DEF LeafVisit
<1> QED
  BY <1>11, <1>6, <1>7, <1>10

\* replaceUpdatater() lists an id in the leaf of twice its depth, which is not its home, and
\* removes it only from the leaf of twice its former depth, which was not its home either.
LEMMA ReplaceStep ==
  ASSUME TypeOK, IInv, NEW u \in Updatable, NEW deep \in Deeps, Replace(u, deep)
  PROVE  TypeOK' /\ IInv'
<1> DEFINE i == id[u]
           p == proxies[i]
           prev == LeafOf(p.mode, p.deep)
           new == LeafOf(p.mode, ProxyDeep(p.mode, deep))
           found == prev \in Leaf /\ i \in ToSet(leafs[prev].add)
           k == CHOOSE n \in 1..Len(leafs[prev].add) :
                  leafs[prev].add[n] = i /\ \A m \in 1..(n - 1) : leafs[prev].add[m] # i
           C == IF found THEN [leafs EXCEPT ![prev].add = SwapRemove(@, k)] ELSE leafs
           d == 2 * deep
<1> USE DEF IInv
<1>1. /\ proxies \in Seq(Proxy) /\ i \in 1..Len(proxies) /\ i # 0 /\ leafs \in Lists /\ deep \in Nat
      /\ Len(proxies) \in Nat /\ i \in Id
  <2>1. proxies \in Seq(Proxy) /\ i # 0 /\ i \in 0..Len(proxies) /\ leafs \in Lists /\ i \in Id \cup {0}
    BY DEF TypeOK, ShapeInv, Replace
  <2> HIDE DEF i
  <2> QED
    BY <2>1, UpdateAssumption
<1>2. p.mode = 0 /\ p.deep # deep /\ p.deep = Deep(proxies, i) /\ p.deep \in Nat
  <2>1. p \in Proxy
    BY <1>1
  <2> QED
    BY <2>1 DEF Replace, Deep, Proxy
<1>3. /\ prev.index = 2 * Deep(proxies, i) /\ new.index = 2 * d /\ new \in Leaf /\ ProxyDeep(p.mode, deep) = d
  <2>1. ProxyDeep(0, deep) = d /\ new = LeafOf(0, d) /\ prev = LeafOf(0, Deep(proxies, i))
    BY <1>1, <1>2 DEF ProxyDeep
  <2> HIDE DEF p, prev, new
  <2>2. new \in Leaf
    BY <2>1 DEF Leaf
  <2>3. \A n \in Nat : LeafOf(0, n).index = 2 * n
    BY DEF LeafOf, ProxyDeep
  <2>4. d \in Nat /\ Deep(proxies, i) \in Nat
    BY <1>1, <1>2
  <2>5. ProxyDeep(p.mode, deep) = d
    BY <1>2, <2>1
  <2> HIDE DEF d, i
  <2> QED
    BY <2>1, <2>2, <2>3, <2>4, <2>5
<1>4. /\ leafs' = [C EXCEPT ![new].add = Append(@, i)]
      /\ proxies' = ProxyMoved(proxies, i, d)
      /\ d # Deep(proxies, i) => due' = due \ {u} /\ moved' = moved \cup {u}
      /\ d = Deep(proxies, i) => due' = due /\ moved' = moved
      /\ replaced' = replaced \cup {i}
      /\ frees' = frees /\ id' = id /\ pc' = pc /\ at' = at /\ pos' = pos
      /\ visits' = visits /\ shared' = shared
  BY <1>2, <1>3 DEF Replace, updateVars, ProxyMoved
<1> HIDE DEF p, new
\* The place that goes.
<1>5. /\ C \in Lists
      /\ \A m \in Leaf : Main(C, m) = Main(leafs, m)
      /\ \E f : /\ \A m \in Leaf : \A j \in Place(C, m) :
                     /\ f[m][j] \in Place(leafs, m) /\ At(C, m, j) = At(leafs, m, f[m][j])
                     /\ f[m][j] <= Len(Main(leafs, m)) => f[m][j] = j
                /\ \A m \in Leaf : \A j, n \in Place(C, m) : f[m][j] = f[m][n] => j = n
                /\ \A m \in Leaf : \A n \in Place(leafs, m) :
                     \/ m = prev /\ At(leafs, m, n) = i
                     \/ \E j \in Place(C, m) : f[m][j] = n
  <2>1. CASE found
    <3>1. prev \in Leaf /\ i \in ToSet(Extra(leafs, prev)) /\ Extra(leafs, prev) \in Seq(Id)
      BY <1>1, <2>1, LeafType DEF Extra
    <3> DEFINE q == CHOOSE n \in 1..Len(Extra(leafs, prev)) :
                      Extra(leafs, prev)[n] = i /\ \A m \in 1..(n - 1) : Extra(leafs, prev)[m] # i
    <3>2. q = k
      BY DEF Extra
    <3> HIDE DEF prev, i
    <3>3. q \in 1..Len(Extra(leafs, prev)) /\ Extra(leafs, prev)[q] = i
      BY <3>1, FoundFirst
    <3>4. C = [leafs EXCEPT ![prev].add = SwapRemove(@, q)]
      BY <2>1, <3>2
    <3> HIDE DEF q, C
    <3>5. C = With(leafs, prev, Main(leafs, prev), SwapRemove(Extra(leafs, prev), q))
      BY <1>1, <3>1, <3>4, Forms, Zenon
    <3>6. PICK f : /\ C \in Lists
                   /\ \A m \in Leaf : Main(C, m) = Main(leafs, m)
                   /\ At(leafs, prev, Len(Main(leafs, prev)) + q) = Extra(leafs, prev)[q]
                   /\ Thins(leafs, C, f, prev, Len(Main(leafs, prev)) + q)
                   /\ \A m \in Leaf : \A j \in Place(C, m) : f[m][j] <= Len(Main(leafs, m)) => f[m][j] = j
      BY <1>1, <3>1, <3>3, <3>5, Cleared
    <3>7. /\ \A m \in Leaf : \A j \in Place(C, m) :
               /\ f[m][j] \in Place(leafs, m) /\ At(C, m, j) = At(leafs, m, f[m][j])
               /\ f[m][j] <= Len(Main(leafs, m)) => f[m][j] = j
          /\ \A m \in Leaf : \A j, n \in Place(C, m) : f[m][j] = f[m][n] => j = n
          /\ \A m \in Leaf : \A n \in Place(leafs, m) :
               \/ m = prev /\ At(leafs, m, n) = i
               \/ \E j \in Place(C, m) : f[m][j] = n
      BY <3>3, <3>6 DEF Thins
    <3> QED
      BY <3>6, <3>7
  <2>2. CASE ~found
    <3> DEFINE f == [m \in Leaf |-> [j \in Nat |-> j]]
    <3>1. C = leafs
      BY <2>2
    <3> HIDE DEF C
    <3>2. \A m \in Leaf : \A j \in Place(leafs, m) : f[m][j] = j
      BY <1>1, LeafType DEF Place
    <3> HIDE DEF f
    <3> QED
      BY <1>1, <3>1, <3>2
  <2> QED
    BY <2>1, <2>2
<1> HIDE DEF C, found, prev, d, i
<1>6. PICK f : /\ \A m \in Leaf : \A j \in Place(C, m) :
                     /\ f[m][j] \in Place(leafs, m) /\ At(C, m, j) = At(leafs, m, f[m][j])
                     /\ f[m][j] <= Len(Main(leafs, m)) => f[m][j] = j
               /\ \A m \in Leaf : \A j, n \in Place(C, m) : f[m][j] = f[m][n] => j = n
               /\ \A m \in Leaf : \A n \in Place(leafs, m) :
                     \/ m = prev /\ At(leafs, m, n) = i
                     \/ \E j \in Place(C, m) : f[m][j] = n
  BY <1>5
\* The place that comes.
<1>7. leafs' = With(C, new, Main(C, new), Append(Extra(C, new), i))
  <2>1. C \in Lists /\ new \in Leaf
    BY <1>3, <1>5
  <2>2. [C EXCEPT ![new].add = Append(@, i)] = With(C, new, Main(C, new), Append(Extra(C, new), i))
    BY <2>1, Forms, Zenon
  <2> QED
    BY <1>4, <2>2
<1>8. PICK c \in Place(leafs', new) \ Place(C, new) :
        /\ leafs' \in Lists
        /\ \A m \in Leaf : Main(leafs', m) = Main(leafs, m)
        /\ \A m \in Leaf : \A j \in Place(C, m) : j \in Place(leafs', m) /\ At(leafs', m, j) = At(C, m, j)
        /\ \A m \in Leaf : \A j \in Place(leafs', m) \ Place(C, m) : m = new /\ j = c
        /\ At(leafs', new, c) = i
  BY <1>1, <1>3, <1>5, <1>7, Added
<1>9. /\ d \in Nat /\ Len(proxies') = Len(proxies) /\ Deep(proxies', i) = d
      /\ \A j \in 1..Len(proxies) : j # i => Deep(proxies', j) = Deep(proxies, j)
      /\ \A j \in 1..Len(proxies) : Who(proxies', j) = Who(proxies, j) /\ (Gone(proxies', j) <=> Gone(proxies, j))
  BY <1>1, <1>4, MovedProxy DEF d
<1>10. Frees' = Frees
  BY <1>4 DEF Frees
<1>11. ShapeInv'
  <2>1. \A m \in Leaf : \A j \in Place(leafs', m) : At(leafs', m, j) \in 1..Len(proxies')
    BY <1>1, <1>6, <1>8, <1>9 DEF ShapeInv
  <2> QED
    BY <1>4, <1>8, <1>9, <1>10, <2>1 DEF ShapeInv
<1>12. OwnInv'
  <2>1. ASSUME NEW v \in Updatable, id[v] # 0, id[v] \notin shared
        PROVE  /\ Who(proxies', id[v]) = v /\ ~Gone(proxies', id[v])
               /\ \A n \in Frees : frees[n] # id[v]
               /\ \A w \in Updatable : id[w] = id[v] => w = v
    BY <1>1, <1>9, <2>1 DEF OwnInv, ShapeInv
  <2>2. ASSUME NEW j \in 1..Len(proxies), ~Gone(proxies', j)
        PROVE  Who(proxies', j) \in Updatable /\ id[Who(proxies', j)] = j
    BY <1>9, <2>2 DEF OwnInv
  <2> QED
    BY <1>4, <1>9, <1>10, <2>1, <2>2 DEF OwnInv
<1>13. OnceInv'
  <2>1. shared' \subseteq replaced'
    BY <1>4 DEF OnceInv
  <2>2. ASSUME NEW m \in Leaf, NEW l \in Leaf, NEW j \in Place(leafs', m), NEW n \in Place(leafs', l),
               At(leafs', m, j) = At(leafs', l, n), At(leafs', m, j) \notin replaced'
        PROVE  m = l /\ j = n
    <3>1. At(leafs', m, j) # i /\ At(leafs', m, j) \notin replaced
      BY <1>4, <2>2
    <3>2. j \in Place(C, m) /\ n \in Place(C, l) /\ At(leafs', m, j) = At(C, m, j) /\ At(leafs', l, n) = At(C, l, n)
      BY <1>8, <2>2, <3>1
    <3>3. /\ f[m][j] \in Place(leafs, m) /\ At(C, m, j) = At(leafs, m, f[m][j])
          /\ f[l][n] \in Place(leafs, l) /\ At(C, l, n) = At(leafs, l, f[l][n])
      BY <1>6, <3>2
    <3>4. At(leafs, m, f[m][j]) = At(leafs, l, f[l][n]) /\ At(leafs, m, f[m][j]) \notin replaced
      BY <2>2, <3>1, <3>2, <3>3
    <3>5. m = l /\ f[m][j] = f[l][n]
      BY <3>3, <3>4 DEF OnceInv
    <3> QED
      BY <1>6, <3>2, <3>5
  <2>3. ASSUME NEW n \in Frees', frees'[n] \notin replaced'
        PROVE  /\ \A m \in Leaf : \A j \in Place(leafs', m) : At(leafs', m, j) # frees'[n]
               /\ \A m \in Frees' : frees'[m] = frees'[n] => m = n
    <3>1. n \in Frees /\ frees[n] \notin replaced /\ frees[n] # i /\ frees'[n] = frees[n]
      BY <1>4, <1>10, <2>3
    <3>2. /\ \A m \in Leaf : \A j \in Place(leafs, m) : At(leafs, m, j) # frees[n]
          /\ \A m \in Frees : frees[m] = frees[n] => m = n
      BY <3>1 DEF OnceInv
    <3>3. ASSUME NEW m \in Leaf, NEW j \in Place(leafs', m) PROVE At(leafs', m, j) # frees[n]
      <4>1. CASE j \in Place(C, m)
        <5>1. f[m][j] \in Place(leafs, m) /\ At(leafs', m, j) = At(leafs, m, f[m][j])
          BY <1>6, <1>8, <4>1
        <5> QED
          BY <3>2, <5>1
      <4>2. CASE j \notin Place(C, m)
        BY <1>8, <3>1, <4>2
      <4> QED
        BY <4>1, <4>2
    <3> QED
      BY <1>4, <1>10, <3>1, <3>2, <3>3
  <2> QED
    BY <2>1, <2>2, <2>3 DEF OnceInv
\* The homes stay.
<1>14. ASSUME NEW v \in Updatable, Regular(v)'
       PROVE  /\ Regular(v) /\ (v \in due' => v \in due)
              /\ \A m \in Leaf : \A j \in Place(leafs', m) :
                   Home(v, m, j)' => j \in Place(C, m) /\ Home(v, m, f[m][j])
              /\ \A m \in Leaf : \A n \in Place(leafs, m) :
                   Home(v, m, n) => \E j \in Place(leafs', m) : Home(v, m, j)'
  <2>1. Regular(v) /\ (v \in due' => v \in due) /\ (v = u => d = Deep(proxies, i))
    BY <1>4, <1>14 DEF Regular
  <2>2. id'[v] = id[v] /\ id[v] \in 1..Len(proxies) /\ (v # u => id[v] # i) /\ (v = u => id[v] = i)
    BY <1>1, <1>4, <2>1 DEF Regular, OwnInv, ShapeInv, i
  <2>3. Deep(proxies', id[v]) = Deep(proxies, id[v])
    BY <1>9, <2>1, <2>2
  <2>4. v = u => new.index # Deep(proxies, i) /\ prev.index # Deep(proxies, i)
    <3>1. v = u => 2 * deep # deep
      BY <1>2, <2>1 DEF d
    <3> QED
      BY <1>1, <1>3, <2>1, <3>1 DEF d
  <2>5. ASSUME NEW m \in Leaf, NEW j \in Place(leafs', m), Home(v, m, j)'
        PROVE  j \in Place(C, m) /\ Home(v, m, f[m][j])
    <3>1. At(leafs', m, j) = id[v] /\ m.index = Deep(proxies, id[v])
      BY <2>2, <2>3, <2>5 DEF Home
    <3>2. ~(m = new /\ j = c)
      BY <1>8, <2>2, <2>4, <3>1
    <3>3. j \in Place(C, m)
      BY <1>8, <3>2
    <3> QED
      BY <1>6, <1>8, <3>1, <3>3 DEF Home
  <2>6. ASSUME NEW m \in Leaf, NEW n \in Place(leafs, m), Home(v, m, n)
        PROVE  \E j \in Place(leafs', m) : Home(v, m, j)'
    <3>1. At(leafs, m, n) = id[v] /\ m.index = Deep(proxies, id[v])
      BY <2>6 DEF Home
    <3>2. ~(m = prev /\ At(leafs, m, n) = i)
      BY <2>2, <2>4, <3>1
    <3>3. PICK j \in Place(C, m) : f[m][j] = n
      BY <1>6, <3>2
    <3>4. j \in Place(leafs', m) /\ At(leafs', m, j) = id[v]
      BY <1>6, <1>8, <3>1, <3>3
    <3>5. Home(v, m, j)'
      BY <2>2, <2>3, <3>1, <3>4 DEF Home
    <3> QED
      BY <3>4, <3>5
  <2> QED
    BY <2>1, <2>5, <2>6
<1>15. HomeInv'
  <2> SUFFICES ASSUME NEW v \in Updatable, Regular(v)'
               PROVE  /\ \E m \in Leaf : \E j \in Place(leafs', m) : Home(v, m, j)'
                      /\ \A m, l \in Leaf : \A j \in Place(leafs', m), n \in Place(leafs', l) :
                           Home(v, m, j)' /\ Home(v, l, n)' => m = l /\ j = n
    BY DEF HomeInv
  <2>1. \E m \in Leaf : \E j \in Place(leafs', m) : Home(v, m, j)'
    BY <1>14 DEF HomeInv
  <2>2. ASSUME NEW m \in Leaf, NEW l \in Leaf, NEW j \in Place(leafs', m), NEW n \in Place(leafs', l),
               Home(v, m, j)', Home(v, l, n)'
        PROVE  m = l /\ j = n
    <3>1. /\ j \in Place(C, m) /\ Home(v, m, f[m][j]) /\ n \in Place(C, l) /\ Home(v, l, f[l][n])
          /\ Regular(v)
      BY <1>14, <2>2
    <3>2. f[m][j] \in Place(leafs, m) /\ f[l][n] \in Place(leafs, l)
      BY <1>6, <3>1
    <3>3. m = l /\ f[m][j] = f[l][n]
      BY <3>1, <3>2 DEF HomeInv
    <3> QED
      BY <1>6, <3>1, <3>3
  <2> QED
    BY <2>1, <2>2
<1>16. FrameInv'
  <2>1. \A v \in due' : id'[v] # 0
    BY <1>4 DEF FrameInv
  <2>2. ASSUME pc' # "idle", NEW v \in due', Regular(v)', NEW m \in Leaf, NEW j \in Place(leafs', m), Home(v, m, j)'
        PROVE  /\ visits'[v] = IF Seen(m, j)' THEN 1 ELSE 0
               /\ m = at' => j <= Len(Main(leafs', at'))
    <3>1. v \in Updatable
      BY <1>4 DEF TypeOK
    <3>2. v \in due /\ Regular(v) /\ j \in Place(C, m) /\ Home(v, m, f[m][j])
      BY <1>14, <2>2, <3>1
    <3>3. /\ visits[v] = IF Seen(m, f[m][j]) THEN 1 ELSE 0
          /\ m = at => f[m][j] <= Len(Main(leafs, at))
      BY <1>4, <1>6, <2>2, <3>2 DEF FrameInv
    <3>4. m = at => f[m][j] = j
      BY <1>6, <3>2, <3>3
    <3>5. Seen(m, j)' <=> Seen(m, f[m][j])
      BY <1>4, <3>4 DEF Seen
    <3> QED
      BY <1>4, <1>8, <3>3, <3>4, <3>5
  <2> QED
    BY <2>1, <2>2 DEF FrameInv
<1>17. TypeOK'
  <2>1. proxies' \in Seq(Proxy)
    BY <1>1, <1>4, <1>9, MovedProxy
  <2>2. replaces' \in 0..MaxReplaces
    <3>1. replaces < MaxReplaces /\ replaces' = replaces + 1
      BY DEF Replace
    <3>2. replaces \in 0..MaxReplaces
      BY TypeNow
    <3> QED
      BY <3>1, <3>2, UpdateAssumption
  <2>3. due' \subseteq Updatable /\ moved' \subseteq Updatable /\ replaced' \subseteq Id
    BY <1>1, <1>4, TypeNow
  <2>4. PosOK(leafs', pc', at', pos')
    BY <1>4, <1>8, TypeNow DEF PosOK
  <2> QED
    BY <1>4, <1>8, <1>9, <2>1, <2>2, <2>3, <2>4, TypeNow, TypeAfter
<1> QED
  BY <1>17, <1>11, <1>12, <1>13, <1>15, <1>16

------------------------------------------------------------------------------
(* The theorems *)

Inv == TypeOK /\ IInv

\* Nothing is registered at first.
LEMMA InitStep == Init => Inv
<1> SUFFICES ASSUME Init PROVE Inv
  OBVIOUS
<1>1. /\ proxies = <<>> /\ frees = <<>> /\ id = [u \in Updatable |-> 0] /\ pc = "idle" /\ at = NoLeaf
      /\ leafs = [l \in Leaf |-> [indecies |-> <<>>, add |-> <<>>]]
      /\ pos = 0 /\ visits = [u \in Updatable |-> 0]
      /\ due = {} /\ moved = {} /\ replaced = {} /\ shared = {} /\ replaces = 0
  BY DEF Init
<1>2. \A l \in Leaf : Main(leafs, l) = <<>> /\ Extra(leafs, l) = <<>>
  BY <1>1 DEF Main, Extra
<1>3. \A l \in Leaf : Place(leafs, l) = {}
  <2>1. 1..0 = {} /\ Len(<<>>) = 0
    OBVIOUS
  <2> QED
    BY <1>2, <2>1 DEF Place, Count
<1>4. leafs \in Lists
  <2>1. [indecies |-> <<>>, add |-> <<>>] \in [indecies : Seq(Id), add : Seq(Id)]
    OBVIOUS
  <2> QED
    BY <1>1, <2>1 DEF Lists
<1>5. Frees = {} /\ 1..Len(proxies) = {}
  BY <1>1 DEF Frees
<1>6. TypeOK
  <2>1. \A l \in Leaf : leafs[l].indecies \in Seq(Id) /\ leafs[l].add \in Seq(Id)
    BY <1>4, LeafType DEF Main, Extra
  <2>2. proxies \in Seq(Proxy) /\ Len(proxies) <= MaxProxies /\ frees \in Seq(Id)
    BY <1>1, UpdateAssumption
  <2> QED
    BY <1>1, <2>1, <2>2, UpdateAssumption, LeafOrder DEF TypeOK
<1>7. \A u \in Updatable : id[u] = 0
  BY <1>1
<1>8. ShapeInv
  BY <1>1, <1>3, <1>4, <1>5, <1>7 DEF ShapeInv
<1>9. OwnInv /\ OnceInv
  BY <1>1, <1>3, <1>5, <1>7 DEF OwnInv, OnceInv
<1>10. HomeInv /\ FrameInv
  BY <1>1, <1>7 DEF HomeInv, FrameInv, Regular
<1> QED
  BY <1>6, <1>8, <1>9, <1>10 DEF Inv, IInv

\* A step that changes nothing.
LEMMA StutterStep ==
  ASSUME Inv, UNCHANGED vars
  PROVE  Inv'
<1>1. /\ proxies' = proxies /\ frees' = frees /\ leafs' = leafs /\ id' = id
      /\ pc' = pc /\ at' = at /\ pos' = pos
      /\ visits' = visits /\ due' = due /\ moved' = moved /\ replaced' = replaced /\ shared' = shared
      /\ replaces' = replaces
  BY DEF vars, updateVars, observed
<1>2. Frees' = Frees /\ (\A u : Regular(u)' <=> Regular(u))
      /\ (\A u, l, j : Home(u, l, j)' <=> Home(u, l, j)) /\ (\A l, j : Seen(l, j)' <=> Seen(l, j))
  BY <1>1 DEF Frees, Regular, Home, Seen
<1>3. TypeOK'
  BY <1>1, TypeNow, TypeAfter DEF Inv, IInv, ShapeInv
<1>4. ShapeInv' /\ OwnInv' /\ OnceInv'
  BY <1>1, <1>2 DEF Inv, IInv, ShapeInv, OwnInv, OnceInv
<1>5. HomeInv' /\ FrameInv'
  BY <1>1, <1>2 DEF Inv, IInv, HomeInv, FrameInv
<1> QED
  BY <1>3, <1>4, <1>5 DEF Inv, IInv

\* The invariant of the update service: the types, and IInv.
THEOREM Inductive == Spec => []Inv
<1>1. Inv /\ [Next]_vars => Inv'
  <2> SUFFICES ASSUME Inv, [Next]_vars PROVE Inv'
    OBVIOUS
  <2>1. ASSUME NEW u \in Updatable, NEW mode \in Modes, NEW deep \in Deeps, Create(u, mode, deep)
        PROVE  Inv'
    BY <2>1, CreateStep DEF Inv
  <2>2. ASSUME NEW u \in Updatable, NEW deep \in Deeps, Replace(u, deep) PROVE Inv'
    BY <2>2, ReplaceStep DEF Inv
  <2>3. ASSUME NEW u \in Updatable, RemoveUpdatater(u) PROVE Inv'
    BY <2>3, RemoveStep DEF Inv
  <2>4. CASE BeginUpdate
    BY <2>4, BeginStep DEF Inv
  <2>5. CASE EnterLeaf
    BY <2>5, NextLeafStep DEF Inv
  <2>6. CASE EndUpdate
    BY <2>6, EndStep DEF Inv
  <2>7. CASE LeafMoved
    BY <2>7, MovedStep DEF Inv
  <2>8. CASE LeafRemoved
    BY <2>8, RemovedStep DEF Inv
  <2>9. CASE LeafVisit
    BY <2>9, VisitStep DEF Inv
  <2>10. CASE VisitReturns
    BY <2>10, ReturnStep DEF Inv
  <2>11. CASE UNCHANGED vars
    BY <2>11, StutterStep
  <2> QED
    BY <2>1, <2>2, <2>3, <2>4, <2>5, <2>6, <2>7, <2>8, <2>9, <2>10, <2>11 DEF Next, Clients, Update
<1> QED
  BY <1>1, InitStep, PTL DEF Spec

\* Every variable has its type, whatever the updatables and the leaves.
THEOREM TypeCorrect == Spec => []TypeOK
<1>1. Inv => TypeOK
  BY DEF Inv
<1> QED
  BY <1>1, Inductive, PTL

\* No two active updatables have one id and no id is that of a removed proxy, unless the id
\* was taken from m_proxyFrees while it was still listed, which replaceUpdatater() causes.
THEOREM IdsOwned == Spec => []IdsAreOwned
<1>1. Inv => IdsAreOwned
  BY DEF Inv, IInv, OwnInv, OnceInv, IdsAreOwned, Who, Gone
<1> QED
  BY <1>1, Inductive, PTL

\* When a frame ends update() has passed the home of whoever was active throughout.
THEOREM AllVisited == Spec => EveryFrame
<1>1. Inv /\ [Next]_vars
        => [EndUpdate => \A u \in due : id[u] \in shared \/ u \in moved \/ visits[u] = 1]_vars
  <2> SUFFICES ASSUME Inv, EndUpdate, NEW u \in due, id[u] \notin shared, u \notin moved
               PROVE  visits[u] = 1
    OBVIOUS
  <2>1. /\ pc = "leaf" /\ at \in Leaf /\ pos > Len(Main(leafs, at)) /\ pos \in Nat /\ u \in Updatable
        /\ \A l \in Busy : ~Before(at, l)
    BY DEF EndUpdate, Inv, TypeOK, Main
  <2>2. Regular(u)
    BY DEF Regular, Inv, IInv, FrameInv
  <2>3. PICK l \in Leaf : \E j \in Place(leafs, l) : Home(u, l, j)
    BY <2>1, <2>2 DEF Inv, IInv, HomeInv
  <2>4. PICK j \in Place(leafs, l) : Home(u, l, j)
    BY <2>3
  <2>5. /\ visits[u] = IF Seen(l, j) THEN 1 ELSE 0
        /\ l = at => j <= Len(Main(leafs, at))
    BY <2>1, <2>2, <2>4 DEF Inv, IInv, FrameInv
  <2>6. l \in Busy
    BY <2>4, PlaceBusy DEF Inv, IInv
  <2>7. j \in Nat /\ Len(Main(leafs, at)) \in Nat
    BY <2>1, <2>4, LeafType DEF Inv, IInv, ShapeInv, Place
  <2>8. Seen(l, j)
    BY <2>1, <2>5, <2>6, <2>7, LeafOrder DEF Seen
  <2> QED
    BY <2>5, <2>8
<1> QED
  BY <1>1, Inductive, PTL DEF Spec, EveryFrame
==============================================================================
