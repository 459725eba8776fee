------------------------- MODULE ThreadQueue_proofs -------------------------
(***************************************************************************)
(* Proofs about ThreadQueue, for any number of tasks, any size of a packet *)
(* and any number of threads.                                              *)
(***************************************************************************)
EXTENDS ThreadQueue, TLAPS, SequenceTheorems, FiniteSetTheorems, WellFoundedInduction

\* A task that waits was not run; only a cancellation may have ended it.
Unrun(f) == ~f.run /\ ~f.complete /\ (f.finish => f.cancel)

\* A task no packet of the service carries, and that names none.
Untouched(s, t) ==
  /\ Unrun(s.leaf[t]) /\ t \notin ToSet(s.tasks)
  /\ \A i \in Thread : s.current[i] # t /\ s.held[i] # t
  /\ \A p \in ToSet(s.tasks) : t \notin ToSet(s.packet[p].kids)

\* Those not added yet are untouched, and those that wait, each in one place.
Waits(s, n) ==
  /\ IsInjective(s.pending)
  /\ \A t \in ToSet(s.pending) : t <= n
  /\ \A t \in Task : t > n \/ t \in ToSet(s.pending) => Untouched(s, t)

\* A packet of the service has a slot and a place and is not complete; its tasks
\* wait to be run, or have been run with it.
Carried(s, p) ==
  /\ IsInjective(s.packet[p].kids)
  /\ \E i \in Thread : s.current[i] = p
  /\ ~s.packet[p].flags.complete
  /\ s.packet[p].kids = <<>> => s.packet[p].flags.cancel
  /\ \A t \in ToSet(s.packet[p].kids) :
       IF s.packet[p].flags.run THEN s.leaf[t].run \/ Ended(s.leaf[t]) \/ t \in refuses
                                ELSE Unrun(s.leaf[t])
Carries(s) == IsInjective(s.tasks) /\ \A p \in ToSet(s.tasks) : Carried(s, p)

\* No two packets carry one task, and no two slots hold one packet.
Apart(s) ==
  /\ \A p, q \in ToSet(s.tasks) : \A t \in ToSet(s.packet[p].kids) : t \in ToSet(s.packet[q].kids) => p = q
  /\ \A i, k \in Thread : s.current[i] = s.current[k] /\ s.current[i] # None => i = k

\* A thread holds a packet of its own that was run; until it leaves it the packet
\* is one of the service, not finished, and the loop is inside its tasks.
HeldBy(s, h) ==
  /\ s.held[h] # None =>
       /\ s.packet[s.held[h]].thread = h /\ s.packet[s.held[h]].progress /\ s.packet[s.held[h]].flags.run
       /\ s.packet[s.held[h]].flags.finish => wpc[h] = "leave"
       /\ wpc[h] # "leave" => s.held[h] \in ToSet(s.tasks)
  /\ wpc[h] # "wait" => s.held[h] # None
  /\ wpc[h] \in {"loop", "work"} =>
       s.packet[s.held[h]].kids # <<>> /\ kid[h] >= 1 /\ kid[h] <= Len(s.packet[s.held[h]].kids) + 1
  /\ wpc[h] = "work" => kid[h] <= Len(s.packet[s.held[h]].kids)
Holds(s) == \A h \in Thread : HeldBy(s, h)

\* A task that has not ended is somewhere.
Found(s, n) ==
  \A t \in 1..n : ~Ended(s.leaf[t]) /\ t \notin refuses /\ t \notin missed =>
    t \in ToSet(s.pending) \/ \E p \in ToSet(s.tasks) : t \in ToSet(s.packet[p].kids)

QueueOf(s, n) == Waits(s, n) /\ Carries(s) /\ Apart(s) /\ Holds(s) /\ Found(s, n)

\* Only the close cancels a packet of the service, and takes it out at once.
CancelInv == \A p \in ToSet(tasks) : packet[p].flags.cancel => pc = "remove" /\ p = arg

\* An end is told once, and a task that works is at work on one thread.
CallInv ==
  \A t \in Task :
    /\ calls[t] <= 1 /\ (leaf[t].complete => calls[t] = 1) /\ (calls[t] = 1 => Ended(leaf[t]))
    /\ works[t] <= 1
    /\ works[t] = 1 /\ ~leaf[t].finish =>
         \E h \in Thread : wpc[h] = "work" /\ packet[held[h]].kids[kid[h]] = t

\* Where the loops of the main thread are.
PlaceInv ==
  /\ pc \in {"update", "kids", "callback", "return"} => idx >= 1 /\ idx <= lim + 1 /\ lim <= Len(tasks)
  /\ pc \in {"kids", "callback", "return"} => idx <= lim /\ arg = tasks[idx] /\ packet[arg].flags.run
  /\ pc \in {"kids", "callback"} => sub >= 1
  /\ pc = "callback" => sub <= Len(packet[arg].kids)
  /\ pc = "join" =>
       arg \in Task /\ leaf[arg].cancel /\ leaf[arg].run /\ ~leaf[arg].complete /\ calls[arg] = 0
  /\ pc = "close" => idx >= 1
  /\ pc = "remove" =>
       /\ idx \in Thread /\ arg # None /\ arg = current[idx]
       /\ arg \in ToSet(tasks) => \A t \in ToSet(packet[arg].kids) : Ended(leaf[t])

QueueInv == QueueOf(State, added)
IInv == TypeOK /\ QueueInv /\ CancelInv /\ CallInv /\ PlaceInv

\* What the queue, the service and the tasks look like to the functions that change them.
QState == [leaf : [Task -> Flags], packet : [Task -> Packet], pending : Seq(Task),
           current : [Thread -> Task \cup {None}], sampler : 0..(K - 1), tasks : Seq(Task),
           held : [Thread -> Task \cup {None}]]

------------------------------------------------------------------------------
(* Numbers, steps and lists *)

\* A set of numbers has a smallest one.
LEMMA Smallest ==
  ASSUME NEW W \in SUBSET Nat, W # {}
  PROVE  \E x \in W : \A y \in W : x <= y
<1> DEFINE R == {ss \in Nat \X Nat : ss[1] < ss[2]}
<1>1. IsWellFoundedOn(R, Nat)
  BY NatLessThanWellFounded DEF OpToRel
<1>2. \E x \in W : \A y \in W : <<y, x>> \notin R
  <2> HIDE DEF R
  <2> QED
    BY <1>1, WFMin
<1>3. PICK x \in W : \A y \in W : <<y, x>> \notin R
  BY <1>2
<1>4. ASSUME NEW y \in W PROVE x <= y
  <2>1. x \in Nat /\ y \in Nat /\ <<y, x>> \in Nat \X Nat
    OBVIOUS
  <2>2. ~(<<y, x>>[1] < <<y, x>>[2])
    BY <1>3, <2>1
  <2> QED
    BY <2>1, <2>2
<1> QED
  BY <1>4

\* A step for each number up to n, and the function that goes on from base by them.
StepsOn(S, n, step) == step \in [1..n -> [S -> S]]
Goes(S, base, n, step, f) ==
  f \in [0..n -> S] /\ f[0] = base /\ \A k \in 1..n : f[k] = step[k][f[k - 1]]

\* A function that is defined step by step exists.
LEMMA StepByStep ==
  ASSUME NEW S, NEW base \in S, NEW n \in Nat, NEW step, StepsOn(S, n, step)
  PROVE  \E f : Goes(S, base, n, step, f)
<1> DEFINE W == {m \in 0..n : ~\E f : Goes(S, base, m, step, f)}
<1> USE DEF Goes, StepsOn
<1>a. SUFFICES ASSUME W # {} PROVE FALSE
  <2>1. n \in 0..n
    OBVIOUS
  <2> HIDE DEF Goes
  <2> QED
    BY <2>1
<1>1. PICK m \in W : \A y \in W : m <= y
  <2>1. W \in SUBSET Nat
    OBVIOUS
  <2> HIDE DEF W
  <2> QED
    BY <1>a, <2>1, Smallest
<1>2. CASE m = 0
  <2> DEFINE f == [k \in 0..0 |-> base]
  <2>1. Goes(S, base, 0, step, f)
    OBVIOUS
  <2> QED
    BY <1>1, <1>2, <2>1
<1>3. CASE m # 0
  <2>1. m - 1 \in 0..n /\ m - 1 \notin W
    BY <1>1, <1>3
  <2>2. PICK f : Goes(S, base, m - 1, step, f)
    BY <2>1
  <2>3. m \in 1..n /\ f[m - 1] \in S
    BY <1>1, <1>3, <2>2
  <2>4. step[m][f[m - 1]] \in S
    BY <2>3
  <2> DEFINE g == [k \in 0..m |-> IF k < m THEN f[k] ELSE step[m][f[m - 1]]]
  <2>5. g \in [0..m -> S]
    <3>1. \A k \in 0..m : k < m => k \in 0..(m - 1)
      BY <2>3
    <3> QED
      BY <2>2, <2>4, <3>1
  <2>6. ASSUME NEW k \in 0..m PROVE g[k] = IF k = 0 THEN base ELSE step[k][g[k - 1]]
    <3>1. CASE k = m
      BY <3>1, <2>3
    <3>2. CASE k # m
      <4>1. k \in 0..(m - 1) /\ (k # 0 => k - 1 \in 0..(m - 1))
        BY <3>2, <2>3
      <4>2. f[k] = IF k = 0 THEN base ELSE step[k][f[k - 1]]
        BY <2>2, <4>1
      <4> QED
        BY <4>1, <4>2
    <3> QED
      BY <3>1, <3>2
  <2> HIDE DEF g
  <2>7. g[0] = base /\ \A k \in 1..m : g[k] = step[k][g[k - 1]]
    <3>1. 0 \in 0..m /\ \A k \in 1..m : k \in 0..m /\ k # 0
      BY <2>3
    <3> QED
      BY <2>6, <3>1
  <2>8. Goes(S, base, m, step, g)
    BY <2>5, <2>7
  <2> QED
    BY <1>1, <2>8
<1> QED
  BY <1>2, <1>3

\* What holds at first and is kept by every step holds at every step.
LEMMA Steps ==
  ASSUME NEW n \in Nat, NEW good \in SUBSET (0..n), 0 \in good, \A k \in 1..n : k - 1 \in good => k \in good
  PROVE  good = 0..n
<1> DEFINE W == (0..n) \ good
<1> SUFFICES ASSUME W # {} PROVE FALSE
  OBVIOUS
<1>1. PICK m \in W : \A y \in W : m <= y
  <2>1. W \in SUBSET Nat
    OBVIOUS
  <2> HIDE DEF W
  <2> QED
    BY <2>1, Smallest
<1>2. m \in 1..n /\ m - 1 \notin W
  BY <1>1
<1> QED
  BY <1>1, <1>2

\* The head of a list without duplicates does not come again.
LEMMA TailOf ==
  ASSUME NEW S, NEW q \in Seq(S), IsInjective(q), q # <<>>
  PROVE  /\ Tail(q) \in Seq(S) /\ IsInjective(Tail(q)) /\ Head(q) \in ToSet(q) /\ Head(q) \in S
         /\ ToSet(Tail(q)) = ToSet(q) \ {Head(q)}
<1> DEFINE t == Tail(q)
           L == Len(q)
<1>1. L \in Nat /\ L >= 1 /\ DOMAIN q = 1..L /\ Head(q) = q[1]
  OBVIOUS
<1>2. t \in Seq(S) /\ Len(t) = L - 1 /\ \A n \in 1..(L - 1) : t[n] = q[n + 1]
  BY HeadTailProperties
<1> HIDE DEF t, L
<1>3. DOMAIN t = 1..(L - 1)
  BY <1>2
<1>4. IsInjective(t)
  <2> SUFFICES ASSUME NEW a \in 1..(L - 1), NEW b \in 1..(L - 1), t[a] = t[b] PROVE a = b
    BY <1>3 DEF IsInjective
  <2>1. a + 1 \in 1..L /\ b + 1 \in 1..L /\ q[a + 1] = q[b + 1]
    BY <1>1, <1>2
  <2>2. a + 1 = b + 1
    BY <1>1, <2>1 DEF IsInjective
  <2> QED
    BY <1>1, <2>2
<1>5. q[1] \in S /\ q[1] \in ToSet(q)
  BY <1>1 DEF ToSet
<1>6. ASSUME NEW x PROVE x \in ToSet(t) <=> x \in ToSet(q) \ {q[1]}
  <2>1. ASSUME x \in ToSet(t) PROVE x \in ToSet(q) \ {q[1]}
    <3>1. PICK n \in 1..(L - 1) : x = t[n]
      BY <1>3, <2>1 DEF ToSet
    <3>2. n + 1 \in 1..L /\ n + 1 # 1 /\ 1 \in 1..L /\ x = q[n + 1]
      BY <1>1, <1>2, <3>1
    <3> QED
      BY <1>1, <3>2 DEF ToSet, IsInjective
  <2>2. ASSUME x \in ToSet(q) \ {q[1]} PROVE x \in ToSet(t)
    <3>1. PICK n \in 1..L : x = q[n]
      BY <1>1, <2>2 DEF ToSet
    <3>2. n # 1
      BY <2>2, <3>1
    <3>3. n - 1 \in 1..(L - 1) /\ n = (n - 1) + 1
      BY <1>1, <3>2
    <3>4. t[n - 1] = q[n]
      BY <1>2, <3>3
    <3> QED
      BY <1>3, <3>1, <3>3, <3>4 DEF ToSet
  <2> QED
    BY <2>1, <2>2
<1> QED
  BY <1>1, <1>2, <1>4, <1>5, <1>6 DEF t

\* One that was not listed may be appended.
LEMMA AppendOf ==
  ASSUME NEW S, NEW q \in Seq(S), IsInjective(q), NEW x \in S, x \notin ToSet(q)
  PROVE  /\ Append(q, x) \in Seq(S) /\ IsInjective(Append(q, x))
         /\ ToSet(Append(q, x)) = ToSet(q) \cup {x}
<1> DEFINE t == Append(q, x)
           L == Len(q)
<1>1. L \in Nat /\ DOMAIN q = 1..L
  OBVIOUS
<1>2. t \in Seq(S) /\ Len(t) = L + 1 /\ (\A n \in 1..L : t[n] = q[n]) /\ t[L + 1] = x
  BY AppendProperties
<1> HIDE DEF t, L
<1>3. DOMAIN t = 1..(L + 1) /\ 1..(L + 1) = 1..L \cup {L + 1}
  BY <1>1, <1>2
<1>4. \A n \in 1..L : q[n] # x
  BY <1>1 DEF ToSet
<1>5. IsInjective(t)
  <2> SUFFICES ASSUME NEW a \in 1..(L + 1), NEW b \in 1..(L + 1), t[a] = t[b] PROVE a = b
    BY <1>3 DEF IsInjective
  <2>1. CASE a \in 1..L /\ b \in 1..L
    BY <1>1, <1>2, <2>1 DEF IsInjective
  <2>2. CASE a = L + 1 \/ b = L + 1
    BY <1>2, <1>3, <1>4, <2>2
  <2> QED
    BY <1>3, <2>1, <2>2
<1>6. ToSet(t) = ToSet(q) \cup {x}
  BY <1>1, <1>2, <1>3 DEF ToSet
<1> QED
  BY <1>2, <1>5, <1>6 DEF t

\* Moving the last entry into the gap keeps every other one and adds none.
LEMMA RemovedEntries ==
  ASSUME NEW S, NEW s \in Seq(S), NEW n \in 1..Len(s)
  PROVE  /\ SwapRemove(s, n) \in Seq(S)
         /\ Len(SwapRemove(s, n)) = Len(s) - 1
         /\ \A i \in 1..Len(s) - 1 : SwapRemove(s, n)[i] = IF i = n THEN s[Len(s)] ELSE s[i]
<1> DEFINE p == [s EXCEPT ![n] = s[Len(s)]]
<1>1. Len(s) \in Nat /\ Len(s) >= 1 /\ s[Len(s)] \in S
  OBVIOUS
<1>2. p \in Seq(S) /\ Len(p) = Len(s)
  BY <1>1
<1>3. \A i \in 1..Len(s) : p[i] = IF i = n THEN s[Len(s)] ELSE s[i]
  BY <1>1
<1> HIDE DEF p
<1>4. /\ SubSeq(p, 1, Len(s) - 1) \in Seq(S)
      /\ Len(SubSeq(p, 1, Len(s) - 1)) = Len(s) - 1
      /\ \A i \in 1..Len(s) - 1 : SubSeq(p, 1, Len(s) - 1)[i] = p[i]
  BY <1>1, <1>2
<1>5. SwapRemove(s, n) = SubSeq(p, 1, Len(s) - 1)
  BY <1>2 DEF SwapRemove, Front, Last, p
<1> QED
  BY <1>1, <1>3, <1>4, <1>5

\* Taking an entry out of a list without duplicates takes its element out and nothing else.
LEMMA RemovedOf ==
  ASSUME NEW S, NEW s \in Seq(S), IsInjective(s), NEW n \in 1..Len(s)
  PROVE  /\ SwapRemove(s, n) \in Seq(S) /\ IsInjective(SwapRemove(s, n))
         /\ ToSet(SwapRemove(s, n)) = ToSet(s) \ {s[n]}
<1> DEFINE t == SwapRemove(s, n)
           L == Len(s)
<1>1. L \in Nat /\ L >= 1 /\ DOMAIN s = 1..L
  OBVIOUS
<1>2. /\ t \in Seq(S) /\ Len(t) = L - 1
      /\ \A i \in 1..(L - 1) : t[i] = IF i = n THEN s[L] ELSE s[i]
  BY RemovedEntries
<1> HIDE DEF t, L
<1>3. DOMAIN t = 1..(L - 1)
  BY <1>1, <1>2
<1>4. n \in 1..L
  BY DEF L
<1>5. \A a, b \in 1..L : s[a] = s[b] => a = b
  BY <1>1 DEF IsInjective
<1>6. IsInjective(t)
  <2> SUFFICES ASSUME NEW a \in 1..(L - 1), NEW b \in 1..(L - 1), t[a] = t[b] PROVE a = b
    BY <1>3 DEF IsInjective
  <2>1. a \in 1..L /\ b \in 1..L /\ L \in 1..L /\ a # L /\ b # L
    BY <1>1
  <2> QED
    BY <1>2, <1>5, <2>1
<1>7. ASSUME NEW x PROVE x \in ToSet(t) <=> x \in ToSet(s) \ {s[n]}
  <2>1. ASSUME x \in ToSet(t) PROVE x \in ToSet(s) \ {s[n]}
    <3>1. PICK i \in 1..(L - 1) : x = t[i]
      BY <1>3, <2>1 DEF ToSet
    <3>2. i \in 1..L /\ L \in 1..L /\ i # L
      BY <1>1
    <3>3. PICK k \in 1..L : x = s[k] /\ k # n
      BY <1>2, <3>1, <3>2
    <3> QED
      BY <1>1, <1>4, <1>5, <3>3 DEF ToSet
  <2>2. ASSUME x \in ToSet(s) \ {s[n]} PROVE x \in ToSet(t)
    <3>1. PICK k \in 1..L : x = s[k] /\ k # n
      BY <1>1, <2>2 DEF ToSet
    <3>2. CASE k = L
      <4>1. n \in 1..(L - 1) /\ t[n] = x
        BY <1>1, <1>2, <1>4, <3>1, <3>2
      <4> QED
        BY <1>3, <4>1 DEF ToSet
    <3>3. CASE k # L
      <4>1. k \in 1..(L - 1) /\ t[k] = x
        BY <1>1, <1>2, <3>1, <3>3
      <4> QED
        BY <1>3, <4>1 DEF ToSet
    <3> QED
      BY <3>2, <3>3
  <2> QED
    BY <2>1, <2>2
<1> QED
  BY <1>2, <1>6, <1>7 DEF t

\* A list without duplicates is no longer than there are tasks.
LEMMA ShortList ==
  ASSUME NEW s \in Seq(Task), IsInjective(s)
  PROVE  Len(s) <= T
<1>1. T \in Nat
  BY QueueAssumption
<1>2. Len(s) \in Nat /\ s \in [1..Len(s) -> 1..T] /\ DOMAIN s = 1..Len(s)
  <2>1. Len(s) \in Nat /\ s \in [1..Len(s) -> Task] /\ DOMAIN s = 1..Len(s)
    OBVIOUS
  <2> QED
    BY <2>1 DEF Task
<1>3. /\ IsFiniteSet(1..T) /\ Cardinality(1..T) = T
      /\ IsFiniteSet(1..Len(s)) /\ Cardinality(1..Len(s)) = Len(s)
  <2>1. ASSUME NEW n \in Nat PROVE IsFiniteSet(1..n) /\ Cardinality(1..n) = n
    <3>1. 1 \in Int /\ n \in Int
      OBVIOUS
    <3>2. IsFiniteSet(1..n) /\ Cardinality(1..n) = IF 1 > n THEN 0 ELSE n - 1 + 1
      BY <3>1, FS_Interval
    <3> QED
      BY <3>2
  <2> QED
    BY <1>1, <1>2, <2>1
<1>4. s \in Injection(1..Len(s), 1..T)
  BY <1>2 DEF Injection
<1> QED
  BY <1>3, <1>4, FS_Injection

\* The rest of a list behind its first n entries.
LEMMA RestOf ==
  ASSUME NEW S, NEW s \in Seq(S), IsInjective(s), NEW n \in 0..Len(s)
  PROVE  LET rest == SubSeq(s, n + 1, Len(s))
         IN  /\ rest \in Seq(S) /\ IsInjective(rest)
             /\ ToSet(rest) \subseteq ToSet(s)
             /\ \A x \in ToSet(s) : x \in ToSet(rest) <=> x \notin {s[i] : i \in 1..n}
<1> DEFINE L == Len(s)
           rest == SubSeq(s, n + 1, L)
<1>1. L \in Nat /\ DOMAIN s = 1..L /\ n \in 0..L
  OBVIOUS
<1>2. \A i \in (n + 1)..L : s[i] \in S
  BY <1>1
<1>3. /\ rest \in Seq(S)
      /\ Len(rest) = L - n
      /\ \A i \in 1..(L - n) : rest[i] = s[n + i]
  <2> HIDE DEF L
  <2>1. /\ rest \in Seq(S)
        /\ Len(rest) = IF n + 1 <= L THEN L - (n + 1) + 1 ELSE 0
        /\ \A i \in 1..(L - (n + 1) + 1) : rest[i] = s[(n + 1) + i - 1]
    <3>1. n + 1 \in Int /\ L \in Int
      BY <1>1
    <3> QED
      BY <1>2, <3>1, SubSeqProperties
  <2>2. L - (n + 1) + 1 = L - n /\ (~(n + 1 <= L) => L - n = 0)
    <3>1. L \in Nat /\ n \in Nat /\ n <= L
      BY <1>1
    <3> QED
      BY <3>1
  <2>3. \A i \in 1..(L - n) : (n + 1) + i - 1 = n + i
    BY <1>1
  <2> HIDE DEF rest
  <2> QED
    BY <2>1, <2>2, <2>3
<1> HIDE DEF rest, L
<1>4. DOMAIN rest = 1..(L - n)
  BY <1>1, <1>3
<1>5. \A a, b \in 1..L : s[a] = s[b] => a = b
  BY <1>1 DEF IsInjective
<1>6. IsInjective(rest)
  <2> SUFFICES ASSUME NEW a \in 1..(L - n), NEW b \in 1..(L - n), rest[a] = rest[b] PROVE a = b
    BY <1>4 DEF IsInjective
  <2>1. n + a \in 1..L /\ n + b \in 1..L
    BY <1>1
  <2>2. n + a = n + b
    BY <1>3, <1>5, <2>1
  <2> QED
    BY <1>1, <2>2
<1>7. ToSet(rest) \subseteq ToSet(s)
  <2> SUFFICES ASSUME NEW i \in 1..(L - n) PROVE rest[i] \in ToSet(s)
    BY <1>4 DEF ToSet
  <2>1. n + i \in 1..L
    BY <1>1
  <2> QED
    BY <1>1, <1>3, <2>1 DEF ToSet
<1>8. ASSUME NEW x \in ToSet(s) PROVE x \in ToSet(rest) <=> x \notin {s[i] : i \in 1..n}
  <2>1. PICK k \in 1..L : x = s[k]
    BY <1>1 DEF ToSet
  <2>2. CASE k <= n
    <3>1. x \in {s[i] : i \in 1..n}
      BY <1>1, <2>1, <2>2
    <3>2. ASSUME NEW i \in 1..(L - n), rest[i] = x PROVE FALSE
      <4>1. n + i \in 1..L /\ n + i # k
        BY <1>1, <2>2
      <4> QED
        BY <1>3, <1>5, <2>1, <3>2, <4>1
    <3> QED
      BY <1>4, <3>1, <3>2 DEF ToSet
  <2>3. CASE k > n
    <3>1. k - n \in 1..(L - n) /\ n + (k - n) = k
      BY <1>1, <2>3
    <3>2. x \in ToSet(rest)
      BY <1>3, <1>4, <2>1, <3>1 DEF ToSet
    <3>3. ASSUME NEW i \in 1..n, s[i] = x PROVE FALSE
      <4>1. i \in 1..L /\ i # k
        BY <1>1, <2>3
      <4> QED
        BY <1>5, <2>1, <3>3, <4>1
    <3> QED
      BY <3>2, <3>3
  <2> QED
    BY <1>1, <2>2, <2>3
<1> QED
  BY <1>3, <1>6, <1>7, <1>8 DEF rest, L

\* The next thread of the sampler.
LEMMA NextTurn ==
  ASSUME NEW n \in 0..(K - 1)
  PROVE  (n + 1) % K \in 0..(K - 1) /\ ((n + 1) % K) + 1 \in Thread
<1>1. K \in Nat /\ K > 0
  BY QueueAssumption
<1>2. (n + 1) % K \in 0..(K - 1)
  BY <1>1
<1> QED
  BY <1>1, <1>2 DEF Thread

------------------------------------------------------------------------------
(* Filling a slot *)

\* The first of the tasks that wait that have not ended.
Alive(s, n) == {t \in {s.pending[i] : i \in 1..n} : ~Ended(s.leaf[t])}

\* The list of them keeps them all, and none twice.
LEMMA LiveIs ==
  ASSUME NEW s \in QState, IsInjective(s.pending), NEW m \in 0..Len(s.pending)
  PROVE  /\ Live(s)[m] \in Seq(Task) /\ IsInjective(Live(s)[m])
         /\ ToSet(Live(s)[m]) = Alive(s, m)
<1> DEFINE list == s.pending
           N == Len(list)
           out(n) == Ended(s.leaf[list[n]])
           Kept(f) == f = [n \in 0..N |-> IF n = 0 THEN <<>>
                                          ELSE IF out(n) THEN f[n - 1] ELSE Append(f[n - 1], list[n])]
           f == CHOOSE g : Kept(g)
           step == [k \in 1..N |-> [q \in Seq(Task) |-> IF out(k) THEN q ELSE Append(q, list[k])]]
           Right(k) == f[k] \in Seq(Task) /\ IsInjective(f[k]) /\ ToSet(f[k]) = Alive(s, k)
           good == {k \in 0..N : Right(k)}
<1>1. Live(s) = f
  BY DEF Live
<1>2. N \in Nat /\ DOMAIN list = 1..N /\ (\A k \in 1..N : list[k] \in Task) /\ m \in 0..N
  BY DEF QState
<1> HIDE DEF list, N, out
<1>3. \E g : Kept(g)
  <2>1. step \in [1..N -> [Seq(Task) -> Seq(Task)]]
    BY <1>2, AppendProperties
  <2>2. \A k \in 1..N, q \in Seq(Task) : step[k][q] = IF out(k) THEN q ELSE Append(q, list[k])
    OBVIOUS
  <2> HIDE DEF step
  <2>3. <<>> \in Seq(Task)
    OBVIOUS
  <2>4. PICK g : Goes(Seq(Task), <<>>, N, step, g)
    <3>1. StepsOn(Seq(Task), N, step)
      BY <2>1 DEF StepsOn
    <3> QED
      BY <1>2, <2>3, <3>1, StepByStep
  <2>5. ASSUME NEW k \in 0..N
        PROVE  g[k] = IF k = 0 THEN <<>> ELSE IF out(k) THEN g[k - 1] ELSE Append(g[k - 1], list[k])
    <3>1. CASE k = 0
      BY <2>4, <3>1 DEF Goes
    <3>2. CASE k # 0
      <4>1. k \in 1..N /\ k - 1 \in 0..N
        BY <1>2, <3>2
      <4>2. g[k] = step[k][g[k - 1]] /\ g[k - 1] \in Seq(Task)
        BY <2>4, <4>1 DEF Goes
      <4> QED
        BY <2>2, <3>2, <4>1, <4>2
    <3> QED
      BY <3>1, <3>2
  <2> QED
    BY <2>4, <2>5 DEF Goes
<1>4. Kept(f)
  BY <1>3
<1> HIDE DEF f, step
<1>5. \A n \in 0..N : f[n] = IF n = 0 THEN <<>>
                             ELSE IF out(n) THEN f[n - 1] ELSE Append(f[n - 1], list[n])
  BY <1>4
<1>6. Right(0)
  <2>1. f[0] = <<>> /\ Alive(s, 0) = {} /\ ToSet(<<>>) = {} /\ IsInjective(<<>>)
    BY <1>2, <1>5 DEF ToSet, IsInjective, Alive
  <2>2. <<>> \in Seq(Task)
    OBVIOUS
  <2> QED
    BY <2>1, <2>2
<1>7. ASSUME NEW k \in 1..N, Right(k - 1) PROVE Right(k)
  <2>1. k \in 0..N /\ k # 0 /\ k - 1 \in Nat /\ 1..k = 1..(k - 1) \cup {k} /\ 1..k \subseteq 1..N
    BY <1>2
  <2>2. Alive(s, k) = IF out(k) THEN Alive(s, k - 1) ELSE Alive(s, k - 1) \cup {list[k]}
    <3>1. {list[i] : i \in 1..k} = {list[i] : i \in 1..(k - 1)} \cup {list[k]}
      BY <2>1
    <3> QED
      BY <3>1 DEF Alive, out, list
  <2>3. CASE ~out(k)
    <3>1. list[k] \notin ToSet(f[k - 1])
      <4>1. ASSUME NEW n \in 1..(k - 1) PROVE list[n] # list[k]
        <5>1. n \in 1..N /\ n # k
          BY <1>2, <2>1
        <5> QED
          BY <1>2, <5>1 DEF IsInjective, list
      <4> QED
        BY <1>7, <4>1 DEF Alive, list
    <3>2. f[k] = Append(f[k - 1], list[k]) /\ list[k] \in Task
      BY <1>2, <1>5, <2>1, <2>3
    <3> QED
      BY <1>7, <2>2, <2>3, <3>1, <3>2, AppendOf
  <2>4. CASE out(k)
    <3>1. f[k] = f[k - 1]
      BY <1>5, <2>1, <2>4
    <3> QED
      BY <1>7, <2>2, <2>4, <3>1
  <2> QED
    BY <2>3, <2>4
<1> HIDE DEF Right
<1>8. good = 0..N
  <2>1. 0 \in good
    BY <1>2, <1>6
  <2>2. \A k \in 1..N : k - 1 \in good => k \in good
    BY <1>7
  <2>3. good \in SUBSET (0..N)
    OBVIOUS
  <2> HIDE DEF good
  <2> QED
    BY <1>2, <2>1, <2>2, <2>3, Steps
<1>9. Right(m)
  BY <1>2, <1>8
<1> QED
  BY <1>1, <1>9 DEF Right

\* What a packet takes from the front is within the list.
LEMMA TakenIs ==
  ASSUME NEW s \in QState
  PROVE  Taken(s) \in 0..Len(s.pending)
<1> DEFINE N == Len(s.pending)
           Full(n) == n = N \/ Len(Live(s)[n]) = PacketSize
           First(n) == Full(n) /\ \A m \in 0..(n - 1) : Len(Live(s)[m]) # PacketSize
           W == {n \in 0..N : Full(n)}
<1>1. N \in Nat
  BY DEF QState
<1>2. Taken(s) = CHOOSE n \in 0..N : First(n)
  BY DEF Taken
<1>3. PICK n \in W : \A y \in W : n <= y
  <2>1. W \in SUBSET Nat /\ N \in W
    BY <1>1
  <2> HIDE DEF W
  <2> QED
    BY <2>1, Smallest
<1>4. First(n)
  <2> SUFFICES ASSUME NEW m \in 0..(n - 1) PROVE Len(Live(s)[m]) # PacketSize
    BY <1>3
  <2>1. m \in 0..N /\ ~(n <= m)
    BY <1>1, <1>3
  <2> QED
    BY <1>3, <2>1
<1>5. n \in 0..N
  BY <1>3
<1> HIDE DEF First, N
<1>6. \E x \in 0..N : First(x)
  BY <1>4, <1>5
<1>7. (CHOOSE x \in 0..N : First(x)) \in 0..N
  BY <1>6
<1> QED
  BY <1>2, <1>7 DEF N

\* A slot takes the first tasks that wait that have not ended, and leaves the rest.
Taking(s, kids, rest) ==
  /\ kids \in Seq(Task) /\ IsInjective(kids) /\ ToSet(kids) \subseteq ToSet(s.pending)
  /\ rest \in Seq(Task) /\ IsInjective(rest) /\ ToSet(rest) \subseteq ToSet(s.pending)
  /\ \A t \in ToSet(kids) : t \notin ToSet(rest)
  /\ \A t \in ToSet(s.pending) : Ended(s.leaf[t]) \/ t \in ToSet(kids) \/ t \in ToSet(rest)

\* That is what updateCurrentTask_() reads.
LEMMA Takes ==
  ASSUME NEW s \in QState, IsInjective(s.pending)
  PROVE  Taking(s, Live(s)[Taken(s)], SubSeq(s.pending, Taken(s) + 1, Len(s.pending)))
<1> DEFINE n == Taken(s)
           kids == Live(s)[n]
           rest == SubSeq(s.pending, n + 1, Len(s.pending))
           front == {s.pending[i] : i \in 1..n}
<1>1. n \in 0..Len(s.pending)
  BY TakenIs
<1>2. s.pending \in Seq(Task) /\ Len(s.pending) \in Nat /\ DOMAIN s.pending = 1..Len(s.pending)
  BY DEF QState
<1> HIDE DEF n
<1>3. kids \in Seq(Task) /\ IsInjective(kids) /\ ToSet(kids) = Alive(s, n)
  BY <1>1, LiveIs
<1>4. /\ rest \in Seq(Task) /\ IsInjective(rest)
      /\ ToSet(rest) \subseteq ToSet(s.pending)
      /\ \A x \in ToSet(s.pending) : x \in ToSet(rest) <=> x \notin front
  BY <1>1, <1>2, RestOf
<1>5. \A t : t \in Alive(s, n) <=> t \in front /\ ~Ended(s.leaf[t])
  BY DEF Alive
<1>6. front \subseteq ToSet(s.pending)
  BY <1>1, <1>2 DEF ToSet
<1> HIDE DEF front, kids, rest
<1>7. ToSet(kids) \subseteq ToSet(s.pending) /\ \A t \in ToSet(kids) : t \notin ToSet(rest)
  BY <1>3, <1>4, <1>5, <1>6
<1>8. \A t \in ToSet(s.pending) : Ended(s.leaf[t]) \/ t \in ToSet(kids) \/ t \in ToSet(rest)
  BY <1>3, <1>4, <1>5
<1> QED
  BY <1>3, <1>4, <1>7, <1>8 DEF kids, rest, n, Taking

------------------------------------------------------------------------------
(* What the functions of the queue leave as it was *)

\* What processTask() leaves alone.
Same(s, q, p) ==
  /\ q.pending = s.pending /\ q.current = s.current /\ q.sampler = s.sampler /\ q.tasks = s.tasks
  /\ \A o \in Task \ {p} : q.packet[o] = s.packet[o]
  /\ q.packet[p].kids = s.packet[p].kids /\ q.packet[p].thread = s.packet[p].thread
  /\ s.packet[p].progress => q.packet[p].progress
  /\ q.packet[p].flags.complete = s.packet[p].flags.complete
  /\ q.packet[p].flags.cancel = s.packet[p].flags.cancel
  /\ q.packet[p].flags.finish = s.packet[p].flags.finish

\* It gives the packet to its thread and runs its tasks.
Runs(s, q, p) ==
  /\ s.held[s.packet[p].thread] = None /\ Fresh(s.packet[p].flags)
  /\ q.packet[p].flags.run /\ q.packet[p].progress
  /\ \A h \in Thread : q.held[h] = IF h = s.packet[p].thread THEN p ELSE s.held[h]
  /\ \A t \in Task :
       IF t \in ToSet(s.packet[p].kids) /\ Fresh(s.leaf[t])
       THEN q.leaf[t] = [s.leaf[t] EXCEPT !.run = t \notin refuses, !.finish = t \in refuses]
       ELSE q.leaf[t] = s.leaf[t]

\* Or it does not.
Idles(s, q, p) == q.leaf = s.leaf /\ q.held = s.held /\ q.packet[p].flags = s.packet[p].flags

\* The fields of a state, one by one.
LEMMA Fields ==
  ASSUME NEW s \in QState
  PROVE  /\ s.leaf \in [Task -> Flags] /\ s.packet \in [Task -> Packet] /\ s.pending \in Seq(Task)
         /\ s.current \in [Thread -> Task \cup {None}] /\ s.sampler \in 0..(K - 1)
         /\ s.tasks \in Seq(Task) /\ s.held \in [Thread -> Task \cup {None}]
         /\ s = [leaf |-> s.leaf, packet |-> s.packet, pending |-> s.pending, current |-> s.current,
                 sampler |-> s.sampler, tasks |-> s.tasks, held |-> s.held]
  BY DEF QState

\* A record of such fields is a state.
LEMMA Built ==
  ASSUME NEW lf \in [Task -> Flags], NEW pk \in [Task -> Packet], NEW pd \in Seq(Task),
         NEW cu \in [Thread -> Task \cup {None}], NEW sa \in 0..(K - 1), NEW tk \in Seq(Task),
         NEW hd \in [Thread -> Task \cup {None}]
  PROVE  [leaf |-> lf, packet |-> pk, pending |-> pd, current |-> cu, sampler |-> sa,
          tasks |-> tk, held |-> hd] \in QState
  BY DEF QState

\* One field of one of many records changes, or a field of a field.
LEMMA Deep ==
  ASSUME NEW D, NEW S, NEW f \in [D -> S], NEW p \in D
  PROVE  /\ [f EXCEPT ![p].progress = TRUE] = [f EXCEPT ![p] = [f[p] EXCEPT !.progress = TRUE]]
         /\ [f EXCEPT ![p].flags.run = TRUE]
            = [f EXCEPT ![p] = [f[p] EXCEPT !.flags = [f[p].flags EXCEPT !.run = TRUE]]]
<1>1. [f EXCEPT ![p].progress = TRUE] = [f EXCEPT ![p] = [f[p] EXCEPT !.progress = TRUE]]
  OBVIOUS
<1>2. [f EXCEPT ![p].flags.run = TRUE]
      = [f EXCEPT ![p] = [f[p] EXCEPT !.flags = [f[p].flags EXCEPT !.run = TRUE]]]
  OBVIOUS
<1> QED
  BY <1>1, <1>2

\* A record with one field changed.
LEMMA Changed ==
  ASSUME NEW A, NEW B, NEW C, NEW r \in [kids : A, thread : B, flags : C, progress : BOOLEAN], NEW c \in C
  PROVE  [r EXCEPT !.flags = c] = [kids |-> r.kids, thread |-> r.thread, flags |-> c, progress |-> r.progress]
  OBVIOUS

\* One field of one packet changes.
LEMMA Progressed ==
  ASSUME NEW f \in [Task -> Packet], NEW p \in Task
  PROVE  [f EXCEPT ![p].progress = TRUE]
         = [f EXCEPT ![p] = [kids |-> f[p].kids, thread |-> f[p].thread, flags |-> f[p].flags, progress |-> TRUE]]
<1>1. ASSUME NEW r \in Packet
      PROVE  [r EXCEPT !.progress = TRUE] = [kids |-> r.kids, thread |-> r.thread, flags |-> r.flags, progress |-> TRUE]
  <2> DEFINE g == [r EXCEPT !.progress = TRUE]
  <2>1. g \in Packet
    BY DEF Packet
  <2>2. g.kids = r.kids /\ g.thread = r.thread /\ g.flags = r.flags
    BY DEF Packet
  <2>3. g.progress = TRUE
    BY DEF Packet
  <2> HIDE DEF g
  <2> QED
    BY <2>1, <2>2, <2>3 DEF Packet
<1>2. f[p] \in Packet
  OBVIOUS
<1> QED
  BY <1>1, <1>2, Deep

\* One flag of one packet changes.
LEMMA Flagged ==
  ASSUME NEW f \in [Task -> Packet], NEW p \in Task
  PROVE  [f EXCEPT ![p].flags.run = TRUE]
         = [f EXCEPT ![p] = [kids |-> f[p].kids, thread |-> f[p].thread,
                             flags |-> [f[p].flags EXCEPT !.run = TRUE], progress |-> f[p].progress]]
<1>1. ASSUME NEW r \in Packet, NEW c \in Flags
      PROVE  [r EXCEPT !.flags = c] = [kids |-> r.kids, thread |-> r.thread, flags |-> c, progress |-> r.progress]
  BY Changed DEF Packet
<1>2. f[p] \in Packet /\ f[p].flags \in Flags
  BY DEF Packet
<1>3. [f[p].flags EXCEPT !.run = TRUE] \in Flags
  BY <1>2 DEF Flags
<1> QED
  BY <1>1, <1>2, <1>3, Deep

\* processTask() runs the packet or leaves it alone.
LEMMA ProcessIs ==
  ASSUME NEW s \in QState, NEW p \in Task
  PROVE  /\ Process(s, p) \in QState /\ Same(s, Process(s, p), p)
         /\ Runs(s, Process(s, p), p) \/ Idles(s, Process(s, p), p)
<1> DEFINE h == s.packet[p].thread
           lf == [t \in Task |-> IF ~(t \in ToSet(s.packet[p].kids) /\ Fresh(s.leaf[t])) THEN s.leaf[t]
                                 ELSE [s.leaf[t] EXCEPT !.run = t \notin refuses, !.finish = t \in refuses]]
           fl == [s.packet[p].flags EXCEPT !.run = TRUE]
           pk == [s.packet EXCEPT ![p] = [kids |-> s.packet[p].kids, thread |-> h, flags |-> fl, progress |-> TRUE]]
           ps == [s.packet EXCEPT ![p] = [kids |-> s.packet[p].kids, thread |-> h,
                                          flags |-> s.packet[p].flags, progress |-> TRUE]]
           hd == [s.held EXCEPT ![h] = p]
           run == [leaf |-> lf, packet |-> pk, pending |-> s.pending, current |-> s.current,
                   sampler |-> s.sampler, tasks |-> s.tasks, held |-> hd]
           idle == [leaf |-> s.leaf, packet |-> ps, pending |-> s.pending, current |-> s.current,
                    sampler |-> s.sampler, tasks |-> s.tasks, held |-> s.held]
<1>1. s.packet[p] \in Packet /\ h \in Thread /\ s.packet[p].flags \in Flags
  BY Fields DEF Packet
<1>2. fl \in Flags
  BY <1>1 DEF Flags
<1>3. s.packet[p] = [kids |-> s.packet[p].kids, thread |-> h, flags |-> s.packet[p].flags,
                     progress |-> s.packet[p].progress]
  BY <1>1 DEF Packet
<1>4. pk \in [Task -> Packet] /\ ps \in [Task -> Packet]
  BY <1>1, <1>2, Fields DEF Packet
<1>5. lf \in [Task -> Flags]
  <2>1. ASSUME NEW t \in Task PROVE s.leaf[t] \in Flags /\ [s.leaf[t] EXCEPT !.run = t \notin refuses, !.finish = t \in refuses] \in Flags
    <3>1. s.leaf[t] \in Flags
      BY Fields
    <3>2. ASSUME NEW f \in Flags, NEW a \in BOOLEAN, NEW b \in BOOLEAN
          PROVE  [f EXCEPT !.run = a, !.finish = b] \in Flags
      BY DEF Flags
    <3>3. (t \notin refuses) \in BOOLEAN /\ (t \in refuses) \in BOOLEAN
      OBVIOUS
    <3> QED
      BY <3>1, <3>2, <3>3
  <2> QED
    BY <2>1
<1>6. hd \in [Thread -> Task \cup {None}]
  BY Fields
<1>7. CASE s.held[h] # None
  <2>1. Process(s, p) = s
    BY <1>7 DEF Process
  <2> QED
    BY <2>1 DEF Same, Idles
<1>8. CASE s.held[h] = None /\ ~Fresh(s.packet[p].flags)
  <2>1. Process(s, p) = [s EXCEPT !.packet[p].progress = TRUE]
    BY <1>8 DEF Process
  <2>2. Process(s, p) = idle
    <3>1. [s.packet EXCEPT ![p].progress = TRUE] = ps
      BY Fields, Progressed
    <3> HIDE DEF ps
    <3> QED
      BY <2>1, <3>1, Fields
  <2>3. idle \in QState
    BY <1>4, Fields, Built
  <2>4. Same(s, idle, p) /\ Idles(s, idle, p)
    BY <1>1, Fields DEF Same, Idles
  <2> QED
    BY <2>2, <2>3, <2>4
<1>9. CASE s.held[h] = None /\ Fresh(s.packet[p].flags)
  <2>1. Process(s, p) = [RunPacket(s, p) EXCEPT !.held[h] = p, !.packet[p].progress = TRUE]
    BY <1>9 DEF Process
  <2> DEFINE pr == [s.packet EXCEPT ![p] = [kids |-> s.packet[p].kids, thread |-> h, flags |-> fl,
                                            progress |-> s.packet[p].progress]]
             ran == [leaf |-> lf, packet |-> pr, pending |-> s.pending, current |-> s.current,
                     sampler |-> s.sampler, tasks |-> s.tasks, held |-> s.held]
  <2>2. RunPacket(s, p) = ran
    <3>1. RunPacket(s, p) = [s EXCEPT !.packet[p].flags.run = TRUE, !.leaf = lf]
      BY DEF RunPacket
    <3>2. [s.packet EXCEPT ![p].flags.run = TRUE] = pr
      BY Fields, Flagged
    <3> HIDE DEF lf, pr
    <3> QED
      BY <3>1, <3>2, Fields
  <2>3. [pr EXCEPT ![p].progress = TRUE] = pk
    <3>1. pr[p] = [kids |-> s.packet[p].kids, thread |-> h, flags |-> fl, progress |-> s.packet[p].progress]
      BY Fields
    <3>2. [pr EXCEPT ![p].progress = TRUE]
          = [pr EXCEPT ![p] = [kids |-> s.packet[p].kids, thread |-> h, flags |-> fl, progress |-> TRUE]]
      <4>1. pr \in [Task -> Packet]
        BY <1>1, <1>2, Fields DEF Packet
      <4> HIDE DEF pr, fl
      <4>2. pr[p].kids = s.packet[p].kids /\ pr[p].thread = h /\ pr[p].flags = fl
        BY <3>1
      <4>3. [pr EXCEPT ![p].progress = TRUE]
            = [pr EXCEPT ![p] = [kids |-> pr[p].kids, thread |-> pr[p].thread, flags |-> pr[p].flags, progress |-> TRUE]]
        BY <4>1, Progressed
      <4> QED
        BY <4>2, <4>3
    <3> HIDE DEF fl
    <3> QED
      BY <3>2, Fields
  <2>4. Process(s, p) = run
    <3> HIDE DEF lf, pr, pk, hd
    <3>1. Process(s, p) = [ran EXCEPT !.held[h] = p, !.packet[p].progress = TRUE]
      BY <2>1, <2>2
    <3> QED
      BY <2>3, <3>1 DEF hd
  <2>5. run \in QState
    <3> HIDE DEF lf, pk, hd
    <3> QED
      BY <1>4, <1>5, <1>6, Fields, Built
  <2>6. Same(s, run, p)
    <3>1. pk[p] = [kids |-> s.packet[p].kids, thread |-> h, flags |-> fl, progress |-> TRUE]
      BY Fields
    <3>2. \A o \in Task \ {p} : pk[o] = s.packet[o]
      BY Fields
    <3>3. fl.complete = s.packet[p].flags.complete /\ fl.cancel = s.packet[p].flags.cancel
          /\ fl.finish = s.packet[p].flags.finish
      BY <1>1 DEF Flags
    <3> HIDE DEF lf, pk, hd, fl
    <3> QED
      BY <3>1, <3>2, <3>3 DEF Same
  <2>7. Runs(s, run, p)
    <3>1. pk[p] = [kids |-> s.packet[p].kids, thread |-> h, flags |-> fl, progress |-> TRUE]
      BY Fields
    <3>2. fl.run
      BY <1>1 DEF Flags
    <3>3. \A k \in Thread : hd[k] = IF k = h THEN p ELSE s.held[k]
      BY Fields
    <3>4. \A t \in Task : IF t \in ToSet(s.packet[p].kids) /\ Fresh(s.leaf[t])
                          THEN lf[t] = [s.leaf[t] EXCEPT !.run = t \notin refuses, !.finish = t \in refuses]
                          ELSE lf[t] = s.leaf[t]
      OBVIOUS
    <3> HIDE DEF lf, pk, hd, fl
    <3>5. run.packet = pk /\ run.held = hd /\ run.leaf = lf
      OBVIOUS
    <3>6. pk[p].flags.run /\ pk[p].progress
      BY <3>1, <3>2
    <3> HIDE DEF run, h
    <3>7. /\ s.held[s.packet[p].thread] = None /\ Fresh(s.packet[p].flags)
          /\ run.packet[p].flags.run /\ run.packet[p].progress
      BY <1>9, <3>5, <3>6 DEF h
    <3>8. \A k \in Thread : run.held[k] = IF k = s.packet[p].thread THEN p ELSE s.held[k]
      BY <3>3, <3>5 DEF h
    <3> QED
      BY <3>4, <3>5, <3>7, <3>8 DEF Runs
  <2> HIDE DEF run
  <2> QED
    BY <2>4, <2>5, <2>6, <2>7
<1> QED
  BY <1>7, <1>8, <1>9

\* No packet of the service is cancelled.
NoCancel(s) == \A p \in ToSet(s.tasks) : ~s.packet[p].flags.cancel

\* What was posted, given or ended before stays so.
Extends(s, q) ==
  /\ Len(s.tasks) <= Len(q.tasks) /\ \A i \in 1..Len(s.tasks) : q.tasks[i] = s.tasks[i]
  /\ \A p \in ToSet(s.tasks) :
       q.packet[p].kids = s.packet[p].kids /\ (s.packet[p].flags.run => q.packet[p].flags.run)
  /\ \A h \in Thread : s.held[h] # None => q.held[h] = s.held[h]
  /\ \A t \in Task : /\ q.leaf[t].cancel = s.leaf[t].cancel /\ q.leaf[t].complete = s.leaf[t].complete
                     /\ s.leaf[t].finish => q.leaf[t].finish

\* The tasks of the lists are tasks.
LEMMA Members ==
  ASSUME NEW s \in QState
  PROVE  /\ ToSet(s.tasks) \subseteq Task /\ ToSet(s.pending) \subseteq Task
         /\ \A p \in Task : /\ ToSet(s.packet[p].kids) \subseteq Task
                            /\ s.packet[p].kids \in Seq(Task) /\ s.packet[p].thread \in Thread
                            /\ s.packet[p].flags \in Flags /\ s.packet[p].progress \in BOOLEAN
         /\ Len(s.tasks) \in Nat /\ DOMAIN s.tasks = 1..Len(s.tasks)
<1>1. ASSUME NEW q \in Seq(Task) PROVE ToSet(q) \subseteq Task /\ Len(q) \in Nat /\ DOMAIN q = 1..Len(q)
  BY DEF ToSet
<1>2. \A p \in Task : s.packet[p] \in Packet
  BY Fields
<1>3. \A p \in Task : s.packet[p].kids \in Seq(Task) /\ s.packet[p].thread \in Thread
                      /\ s.packet[p].flags \in Flags /\ s.packet[p].progress \in BOOLEAN
  BY <1>2 DEF Packet
<1> QED
  BY <1>1, <1>3, Fields

\* Nothing may change.
LEMMA ExtendsSelf ==
  ASSUME NEW s \in QState
  PROVE  Extends(s, s)
<1>1. Len(s.tasks) \in Nat
  BY Members
<1> QED
  BY <1>1 DEF Extends

\* One change may follow another.
LEMMA ExtendsOn ==
  ASSUME NEW s \in QState, NEW q \in QState, NEW r \in QState, Extends(s, q), Extends(q, r)
  PROVE  Extends(s, r)
<1>1. /\ Len(s.tasks) \in Nat /\ Len(q.tasks) \in Nat /\ Len(r.tasks) \in Nat
      /\ DOMAIN s.tasks = 1..Len(s.tasks) /\ DOMAIN q.tasks = 1..Len(q.tasks)
  BY Members
<1>2. ToSet(s.tasks) \subseteq ToSet(q.tasks)
  <2>1. \A i \in 1..Len(s.tasks) : i \in 1..Len(q.tasks) /\ q.tasks[i] = s.tasks[i]
    BY <1>1 DEF Extends
  <2> QED
    BY <1>1, <2>1 DEF ToSet
<1>3. Len(s.tasks) <= Len(r.tasks) /\ \A i \in 1..Len(s.tasks) : r.tasks[i] = s.tasks[i]
  BY <1>1 DEF Extends
<1>4. \A p \in ToSet(s.tasks) :
        r.packet[p].kids = s.packet[p].kids /\ (s.packet[p].flags.run => r.packet[p].flags.run)
  BY <1>2 DEF Extends
<1>5. \A h \in Thread : s.held[h] # None => r.held[h] = s.held[h]
  BY DEF Extends
<1>6. \A t \in Task : /\ r.leaf[t].cancel = s.leaf[t].cancel /\ r.leaf[t].complete = s.leaf[t].complete
                      /\ s.leaf[t].finish => r.leaf[t].finish
  BY DEF Extends
<1> QED
  BY <1>3, <1>4, <1>5, <1>6 DEF Extends

\* A packet that is left alone keeps what is said of the queue.
LEMMA IdlesKeeps ==
  ASSUME NEW s \in QState, NEW q \in QState, NEW n \in 0..T, NEW p \in Task,
         QueueOf(s, n), NoCancel(s), Same(s, q, p), Idles(s, q, p)
  PROVE  QueueOf(q, n) /\ NoCancel(q) /\ Extends(s, q)
<1>1. /\ ToSet(s.tasks) \subseteq Task /\ ToSet(s.pending) \subseteq Task
      /\ q.tasks = s.tasks /\ q.pending = s.pending /\ q.current = s.current
      /\ q.held = s.held /\ q.leaf = s.leaf
  BY Members DEF Same, Idles
<1>2. \A o \in Task : /\ q.packet[o].kids = s.packet[o].kids /\ q.packet[o].thread = s.packet[o].thread
                      /\ q.packet[o].flags = s.packet[o].flags
                      /\ s.packet[o].progress => q.packet[o].progress
  <2> TAKE o \in Task
  <2>1. CASE o = p
    BY <2>1 DEF Same, Idles
  <2>2. CASE o # p
    BY <2>2 DEF Same
  <2> QED
    BY <2>1, <2>2
<1>3. Waits(q, n)
  <2>1. \A t \in Task : Untouched(s, t) => Untouched(q, t)
    BY <1>1, <1>2 DEF Untouched
  <2> QED
    BY <1>1, <2>1 DEF QueueOf, Waits
<1>4. Carries(q) /\ Apart(q)
  <2>1. \A o \in ToSet(s.tasks) : Carried(s, o) => Carried(q, o)
    BY <1>1, <1>2 DEF Carried
  <2>2. Carries(q)
    BY <1>1, <2>1 DEF QueueOf, Carries
  <2>3. Apart(q)
    BY <1>1, <1>2 DEF QueueOf, Apart
  <2> QED
    BY <2>2, <2>3
<1>5. Holds(q)
  <2> SUFFICES ASSUME NEW h \in Thread PROVE HeldBy(q, h)
    BY DEF Holds
  <2>1. HeldBy(s, h) /\ s.held[h] \in Task \cup {None}
    BY Fields DEF QueueOf, Holds
  <2> QED
    BY <1>1, <1>2, <2>1 DEF HeldBy
<1>6. Found(q, n) /\ NoCancel(q)
  BY <1>1, <1>2 DEF QueueOf, Found, NoCancel
<1>7. Extends(s, q)
  <2>1. Extends(s, s)
    BY ExtendsSelf
  <2> QED
    BY <1>1, <1>2, <2>1 DEF Extends
<1> QED
  BY <1>3, <1>4, <1>5, <1>6, <1>7 DEF QueueOf

\* A packet that is run keeps what is said of the queue: its tasks were not run before,
\* and its thread had none.
LEMMA RunsKeeps ==
  ASSUME NEW s \in QState, NEW q \in QState, NEW n \in 0..T, NEW p \in ToSet(s.tasks),
         QueueOf(s, n), NoCancel(s), Same(s, q, p), Runs(s, q, p)
  PROVE  QueueOf(q, n) /\ NoCancel(q) /\ Extends(s, q)
<1> DEFINE carried == ToSet(s.packet[p].kids)
           own == s.packet[p].thread
<1>1. /\ ToSet(s.tasks) \subseteq Task /\ ToSet(s.pending) \subseteq Task
      /\ q.tasks = s.tasks /\ q.pending = s.pending /\ q.current = s.current
      /\ p \in Task /\ carried \subseteq Task /\ own \in Thread
  BY Members DEF Same
<1>2. \A o \in Task : /\ q.packet[o].kids = s.packet[o].kids /\ q.packet[o].thread = s.packet[o].thread
                      /\ q.packet[o].flags.complete = s.packet[o].flags.complete
                      /\ q.packet[o].flags.cancel = s.packet[o].flags.cancel
                      /\ q.packet[o].flags.finish = s.packet[o].flags.finish
                      /\ s.packet[o].progress => q.packet[o].progress
                      /\ s.packet[o].flags.run => q.packet[o].flags.run
                      /\ o # p => q.packet[o].flags.run = s.packet[o].flags.run
  <2> TAKE o \in Task
  <2>1. CASE o = p
    BY <2>1 DEF Same, Runs
  <2>2. CASE o # p
    BY <2>2 DEF Same
  <2> QED
    BY <2>1, <2>2
<1>3. /\ q.packet[p].flags.run /\ q.packet[p].progress /\ ~s.packet[p].flags.run /\ ~s.packet[p].flags.finish
      /\ s.held[own] = None /\ q.held[own] = p
      /\ \A h \in Thread \ {own} : q.held[h] = s.held[h]
  BY <1>1 DEF Runs, Fresh
<1>4. ASSUME NEW t \in Task
      PROVE  /\ q.leaf[t].cancel = s.leaf[t].cancel /\ q.leaf[t].complete = s.leaf[t].complete
             /\ s.leaf[t].finish => q.leaf[t].finish
             /\ s.leaf[t].run => q.leaf[t].run
             /\ t \notin carried => q.leaf[t] = s.leaf[t]
             /\ t \in carried /\ Unrun(s.leaf[t]) => q.leaf[t].run \/ Ended(q.leaf[t]) \/ t \in refuses
  <2>1. s.leaf[t] \in Flags
    BY Fields
  <2>2. CASE t \in carried /\ Fresh(s.leaf[t])
    <3> DEFINE a == t \notin refuses
               b == t \in refuses
               old == s.leaf[t]
               new == q.leaf[t]
    <3>1. new = [old EXCEPT !.run = a, !.finish = b] /\ old \in Flags
      BY <2>1, <2>2 DEF Runs
    <3>3. a \in BOOLEAN /\ b \in BOOLEAN
      OBVIOUS
    <3> HIDE DEF a, b, old, new
    <3>4. new.run = a /\ new.cancel = old.cancel /\ new.complete = old.complete
      BY <3>1, <3>3 DEF Flags
    <3>5. t \in refuses \/ a
      BY DEF a
    <3>6. t \in refuses \/ q.leaf[t].run
      BY <3>4, <3>5 DEF new
    <3> QED
      BY <2>2, <3>4, <3>6 DEF Fresh, old, new
  <2>3. CASE ~(t \in carried /\ Fresh(s.leaf[t]))
    <3>1. q.leaf[t] = s.leaf[t]
      BY <2>3 DEF Runs
    <3> QED
      BY <2>1, <2>3, <3>1 DEF Fresh, Unrun, Ended, Flags
  <2> QED
    BY <2>2, <2>3
<1>5. /\ Waits(s, n) /\ Carries(s) /\ Apart(s) /\ Holds(s) /\ Found(s, n) /\ Carried(s, p)
  BY DEF QueueOf, Carries
<1>6. None \notin Task
  BY DEF None, Task
<1> HIDE DEF carried, own
<1>7. Waits(q, n)
  <2>1. ASSUME NEW t \in Task, Untouched(s, t) PROVE Untouched(q, t)
    <3>1. t \notin carried /\ t # p
      BY <2>1 DEF Untouched, carried
    <3>2. q.leaf[t] = s.leaf[t]
      BY <1>4, <3>1
    <3>3. \A i \in Thread : q.current[i] # t /\ q.held[i] # t
      BY <1>1, <1>3, <2>1, <3>1 DEF Untouched
    <3> QED
      BY <1>1, <1>2, <2>1, <3>2, <3>3 DEF Untouched
  <2> QED
    BY <1>1, <1>5, <2>1 DEF Waits
<1>8. Carries(q)
  <2>1. ASSUME NEW o \in ToSet(s.tasks) PROVE Carried(q, o)
    <3>1. Carried(s, o) /\ o \in Task
      BY <1>1, <1>5 DEF Carries
    <3>2. ASSUME NEW t \in ToSet(q.packet[o].kids)
          PROVE  IF q.packet[o].flags.run THEN q.leaf[t].run \/ Ended(q.leaf[t]) \/ t \in refuses
                                          ELSE Unrun(q.leaf[t])
      <4>1. t \in ToSet(s.packet[o].kids) /\ t \in Task
        BY <1>2, <3>1, Members
      <4>2. CASE o = p
        <5>1. t \in carried /\ Unrun(s.leaf[t])
          BY <1>3, <3>1, <4>1, <4>2 DEF Carried, carried
        <5> QED
          BY <1>3, <1>4, <4>1, <4>2, <5>1
      <4>3. CASE o # p
        <5>1. t \notin carried
          BY <1>5, <4>1, <4>3 DEF Apart, carried
        <5>2. q.leaf[t] = s.leaf[t]
          BY <1>4, <4>1, <5>1
        <5> QED
          BY <1>2, <3>1, <4>1, <4>3, <5>2 DEF Carried
      <4> QED
        BY <4>2, <4>3
    <3> QED
      BY <1>1, <1>2, <3>1, <3>2 DEF Carried
  <2> QED
    BY <1>1, <1>5, <2>1 DEF Carries
<1>9. Apart(q)
  BY <1>1, <1>2, <1>5 DEF Apart
<1>10. Holds(q)
  <2> SUFFICES ASSUME NEW h \in Thread PROVE HeldBy(q, h)
    BY DEF Holds
  <2>1. HeldBy(s, h) /\ s.held[h] \in Task \cup {None}
    BY <1>5, Fields DEF Holds
  <2>2. CASE h = own
    <3>1. q.held[h] = p /\ q.packet[p].thread = h /\ wpc[h] = "wait"
      BY <1>1, <1>2, <1>3, <2>1, <2>2 DEF HeldBy, own
    <3> QED
      BY <1>1, <1>2, <1>3, <3>1 DEF HeldBy
  <2>3. CASE h # own
    <3>1. q.held[h] = s.held[h]
      BY <1>3, <2>3
    <3>2. CASE s.held[h] = None
      BY <2>1, <3>1, <3>2 DEF HeldBy
    <3>3. CASE s.held[h] # None
      <4>1. s.held[h] \in Task /\ s.held[h] # p
        BY <2>1, <2>3, <3>3 DEF HeldBy, own
      <4>2. /\ q.packet[s.held[h]].thread = s.packet[s.held[h]].thread
            /\ q.packet[s.held[h]].kids = s.packet[s.held[h]].kids
            /\ s.packet[s.held[h]].progress => q.packet[s.held[h]].progress
            /\ q.packet[s.held[h]].flags.run = s.packet[s.held[h]].flags.run
            /\ q.packet[s.held[h]].flags.finish = s.packet[s.held[h]].flags.finish
        BY <1>2, <4>1
      <4> QED
        BY <1>1, <2>1, <3>1, <4>2 DEF HeldBy
    <3> QED
      BY <3>2, <3>3
  <2> QED
    BY <2>2, <2>3
<1>11. Found(q, n)
  <2> SUFFICES ASSUME NEW t \in 1..n, ~Ended(q.leaf[t]), t \notin refuses, t \notin missed
               PROVE  t \in ToSet(q.pending) \/ \E o \in ToSet(q.tasks) : t \in ToSet(q.packet[o].kids)
    BY DEF Found
  <2>1. t \in Task
    BY QueueAssumption DEF Task
  <2>2. ~Ended(s.leaf[t])
    BY <1>4, <2>1 DEF Ended
  <2> QED
    BY <1>1, <1>2, <1>5, <2>2 DEF Found
<1>12. NoCancel(q)
  BY <1>1, <1>2 DEF NoCancel
<1>13. Extends(s, q)
  <2>1. Extends(s, s)
    BY ExtendsSelf
  <2>2. \A h \in Thread : s.held[h] # None => q.held[h] = s.held[h]
    BY <1>3
  <2> QED
    BY <1>1, <1>2, <1>4, <2>1, <2>2 DEF Extends
<1> QED
  BY <1>7, <1>8, <1>9, <1>10, <1>11, <1>12, <1>13 DEF QueueOf

\* processTask() keeps what is said of the queue.
LEMMA ProcessKeeps ==
  ASSUME NEW s \in QState, NEW n \in 0..T, NEW p \in ToSet(s.tasks), QueueOf(s, n), NoCancel(s)
  PROVE  /\ Process(s, p) \in QState
         /\ QueueOf(Process(s, p), n) /\ NoCancel(Process(s, p)) /\ Extends(s, Process(s, p))
<1> DEFINE q == Process(s, p)
<1>1. p \in Task
  BY Members
<1>2. q \in QState /\ Same(s, q, p) /\ (Runs(s, q, p) \/ Idles(s, q, p))
  BY <1>1, ProcessIs
<1> HIDE DEF q
<1>3. CASE Runs(s, q, p)
  BY <1>2, <1>3, RunsKeeps DEF q
<1>4. CASE Idles(s, q, p)
  BY <1>1, <1>2, <1>4, IdlesKeeps DEF q
<1> QED
  BY <1>2, <1>3, <1>4

\* A slot that is free has no packet of the service.
LEMMA FreeSlot ==
  ASSUME NEW s \in QState, NEW n \in 0..T, QueueOf(s, n), NoCancel(s), NEW i \in Thread,
         s.current[i] = None \/ Ended(s.packet[s.current[i]].flags)
  PROVE  s.current[i] \notin ToSet(s.tasks)
<1> SUFFICES ASSUME s.current[i] \in ToSet(s.tasks) PROVE FALSE
  OBVIOUS
<1>1. s.current[i] \in Task /\ None \notin Task
  BY Members DEF None, Task
<1>2. Carried(s, s.current[i])
  BY DEF QueueOf, Carries
<1> QED
  BY <1>1, <1>2 DEF Carried, NoCancel, Ended

\* What a slot that finds no task leaves.
Empties(s, q, i, rest) ==
  /\ q.leaf = s.leaf /\ q.packet = s.packet /\ q.tasks = s.tasks /\ q.held = s.held
  /\ q.pending = rest
  /\ \A k \in Thread : q.current[k] = IF k = i THEN None ELSE s.current[k]

\* Then every task that waited has ended.
LEMMA EmptiesKeeps ==
  ASSUME NEW s \in QState, NEW q \in QState, NEW n \in 0..T, QueueOf(s, n), NoCancel(s),
         NEW i \in Thread, s.current[i] \notin ToSet(s.tasks), NEW rest, Taking(s, <<>>, rest),
         Empties(s, q, i, rest)
  PROVE  QueueOf(q, n) /\ NoCancel(q) /\ Extends(s, q)
<1>1. /\ ToSet(s.tasks) \subseteq Task /\ ToSet(s.pending) \subseteq Task
      /\ q.tasks = s.tasks /\ q.held = s.held /\ q.leaf = s.leaf /\ q.packet = s.packet
      /\ ToSet(q.pending) \subseteq ToSet(s.pending) /\ IsInjective(q.pending)
      /\ \A t \in ToSet(s.pending) : Ended(s.leaf[t]) \/ t \in ToSet(q.pending)
  <2>1. ToSet(<<>>) = {}
    BY DEF ToSet
  <2> QED
    BY <2>1, Members DEF Empties, Taking
<1>2. \A k \in Thread : q.current[k] = IF k = i THEN None ELSE s.current[k]
  BY DEF Empties
<1>3. Waits(s, n) /\ Carries(s) /\ Apart(s) /\ Holds(s) /\ Found(s, n)
  BY DEF QueueOf
<1>4. None \notin Task
  BY DEF None, Task
<1>5. Waits(q, n)
  <2>1. \A t \in Task : Untouched(s, t) => Untouched(q, t)
    BY <1>1, <1>2, <1>4 DEF Untouched
  <2> QED
    BY <1>1, <1>3, <2>1 DEF Waits
<1>6. Carries(q)
  <2>1. ASSUME NEW o \in ToSet(s.tasks) PROVE Carried(q, o)
    <3>1. Carried(s, o)
      BY <1>3 DEF Carries
    <3>2. PICK k \in Thread : s.current[k] = o
      BY <3>1 DEF Carried
    <3>3. q.current[k] = o
      BY <1>2, <3>2
    <3> QED
      BY <1>1, <3>1, <3>3 DEF Carried
  <2> QED
    BY <1>1, <1>3, <2>1 DEF Carries
<1>7. Apart(q)
  BY <1>1, <1>2, <1>3 DEF Apart
<1>8. Holds(q)
  BY <1>1, <1>3 DEF Holds, HeldBy
<1>9. Found(q, n) /\ NoCancel(q)
  <2>1. \A t \in 1..n : ~Ended(s.leaf[t]) /\ t \in ToSet(s.pending) => t \in ToSet(q.pending)
    BY <1>1
  <2> QED
    BY <1>1, <1>3, <2>1 DEF Found, NoCancel
<1>10. Extends(s, q)
  <2>1. Extends(s, s)
    BY ExtendsSelf
  <2> QED
    BY <1>1, <2>1 DEF Extends
<1> QED
  BY <1>5, <1>6, <1>7, <1>8, <1>9, <1>10 DEF QueueOf

\* What a slot leaves that takes a packet of these tasks: it is posted behind the others.
Posts(s, q, i, kids, rest) ==
  LET p == Head(kids)
  IN  /\ q.leaf = s.leaf /\ q.held = s.held /\ q.pending = rest /\ q.tasks = Append(s.tasks, p)
      /\ \A k \in Thread : q.current[k] = IF k = i THEN p ELSE s.current[k]
      /\ \A o \in Task \ {p} : q.packet[o] = s.packet[o]
      /\ q.packet[p].kids = kids /\ q.packet[p].flags = NoFlags

\* The packet carries only tasks that waited, so that no other has one of them.
LEMMA PostsKeeps ==
  ASSUME NEW s \in QState, NEW q \in QState, NEW n \in 0..T, QueueOf(s, n), NoCancel(s),
         NEW i \in Thread, s.current[i] \notin ToSet(s.tasks),
         NEW kids, kids # <<>>, NEW rest, Taking(s, kids, rest), Posts(s, q, i, kids, rest)
  PROVE  QueueOf(q, n) /\ NoCancel(q) /\ Extends(s, q) /\ Head(kids) \in ToSet(q.tasks)
<1> DEFINE p == Head(kids)
<1>1. /\ Waits(s, n) /\ Carries(s) /\ Apart(s) /\ Holds(s) /\ Found(s, n)
      /\ ToSet(s.tasks) \subseteq Task /\ ToSet(s.pending) \subseteq Task
      /\ s.tasks \in Seq(Task) /\ IsInjective(s.tasks) /\ None \notin Task
  BY Members, Fields DEF QueueOf, Carries, None, Task
<1>2. /\ kids \in Seq(Task) /\ IsInjective(kids) /\ ToSet(kids) \subseteq ToSet(s.pending)
      /\ IsInjective(rest) /\ ToSet(rest) \subseteq ToSet(s.pending)
      /\ \A t \in ToSet(kids) : t \notin ToSet(rest)
      /\ \A t \in ToSet(s.pending) : Ended(s.leaf[t]) \/ t \in ToSet(kids) \/ t \in ToSet(rest)
  BY DEF Taking
<1>3. p \in ToSet(kids) /\ p \in ToSet(s.pending) /\ p \in Task
  <2>1. p \in ToSet(kids)
    BY <1>2, TailOf
  <2> QED
    BY <1>1, <1>2, <2>1
<1>4. \A t \in ToSet(s.pending) : Untouched(s, t)
  BY <1>1 DEF Waits
<1>5. p \notin ToSet(s.tasks)
  BY <1>3, <1>4 DEF Untouched
<1>6. /\ q.leaf = s.leaf /\ q.held = s.held /\ q.pending = rest /\ q.tasks = Append(s.tasks, p)
      /\ \A k \in Thread : q.current[k] = IF k = i THEN p ELSE s.current[k]
      /\ \A o \in Task \ {p} : q.packet[o] = s.packet[o]
      /\ q.packet[p].kids = kids /\ q.packet[p].flags = NoFlags
  BY DEF Posts
<1> HIDE DEF p
<1>7. ToSet(q.tasks) = ToSet(s.tasks) \cup {p} /\ IsInjective(q.tasks)
  <2>1. /\ IsInjective(Append(s.tasks, p)) /\ ToSet(Append(s.tasks, p)) = ToSet(s.tasks) \cup {p}
    BY <1>1, <1>3, <1>5, AppendOf
  <2> QED
    BY <1>6, <2>1
<1>8. \A o \in ToSet(s.tasks) : o \in Task /\ q.packet[o] = s.packet[o]
  BY <1>1, <1>5, <1>6
<1>9. ~NoFlags.run /\ ~NoFlags.cancel /\ ~NoFlags.complete /\ ~NoFlags.finish
  BY DEF NoFlags
<1>10. Waits(q, n)
  <2>1. ASSUME NEW t \in Task, Untouched(s, t), t \notin ToSet(kids) PROVE Untouched(q, t)
    <3>1. t # p
      BY <1>3, <2>1
    <3>2. \A k \in Thread : q.current[k] # t /\ q.held[k] # t
      BY <1>6, <2>1, <3>1 DEF Untouched
    <3>3. \A o \in ToSet(q.tasks) : t \notin ToSet(q.packet[o].kids)
      BY <1>6, <1>7, <1>8, <2>1 DEF Untouched
    <3> QED
      BY <1>6, <1>7, <2>1, <3>1, <3>2, <3>3 DEF Untouched
  <2>2. \A t \in ToSet(kids) : t <= n /\ t \in Task
    BY <1>1, <1>2 DEF Waits
  <2>3. ASSUME NEW t \in Task, t > n \/ t \in ToSet(q.pending)
        PROVE  Untouched(s, t) /\ t \notin ToSet(kids)
    <3>1. CASE t > n
      <4>1. t \notin ToSet(kids)
        BY <2>2, <3>1 DEF Task
      <4> QED
        BY <1>1, <3>1, <4>1 DEF Waits
    <3>2. CASE t \in ToSet(q.pending)
      BY <1>2, <1>4, <1>6, <3>2
    <3> QED
      BY <2>3, <3>1, <3>2
  <2>4. IsInjective(q.pending) /\ \A t \in ToSet(q.pending) : t <= n
    BY <1>1, <1>2, <1>6 DEF Waits
  <2> QED
    BY <2>1, <2>3, <2>4 DEF Waits
<1>11. Carries(q)
  <2>1. ASSUME NEW o \in ToSet(s.tasks) PROVE Carried(q, o)
    <3>1. Carried(s, o)
      BY <1>1 DEF Carries
    <3>2. PICK k \in Thread : s.current[k] = o
      BY <3>1 DEF Carried
    <3>3. q.current[k] = o
      BY <1>6, <3>2
    <3> QED
      BY <1>6, <1>8, <3>1, <3>3 DEF Carried
  <2>2. Carried(q, p)
    <3>1. q.current[i] = p
      BY <1>6
    <3>2. \A t \in ToSet(kids) : Unrun(s.leaf[t])
      BY <1>2, <1>4 DEF Untouched
    <3> QED
      BY <1>2, <1>6, <1>9, <3>1, <3>2 DEF Carried
  <2> QED
    BY <1>7, <2>1, <2>2 DEF Carries
<1>12. Apart(q)
  <2>1. ASSUME NEW o \in ToSet(s.tasks), NEW t \in ToSet(kids) PROVE t \notin ToSet(s.packet[o].kids)
    BY <1>2, <1>4 DEF Untouched
  <2>2. ASSUME NEW a \in ToSet(q.tasks), NEW b \in ToSet(q.tasks),
               NEW t \in ToSet(q.packet[a].kids), t \in ToSet(q.packet[b].kids)
        PROVE  a = b
    <3>1. CASE a = p /\ b # p
      BY <1>6, <1>7, <1>8, <2>1, <2>2, <3>1
    <3>2. CASE a # p /\ b = p
      BY <1>6, <1>7, <1>8, <2>1, <2>2, <3>2
    <3>3. CASE a # p /\ b # p
      BY <1>1, <1>7, <1>8, <2>2, <3>3 DEF Apart
    <3> QED
      BY <3>1, <3>2, <3>3
  <2>3. \A k \in Thread : s.current[k] # p
    BY <1>3, <1>4 DEF Untouched
  <2>4. \A k, m \in Thread : q.current[k] = q.current[m] /\ q.current[k] # None => k = m
    BY <1>1, <1>6, <2>3 DEF Apart
  <2> QED
    BY <2>2, <2>4 DEF Apart
<1>13. Holds(q)
  <2> SUFFICES ASSUME NEW h \in Thread PROVE HeldBy(q, h)
    BY DEF Holds
  <2>1. HeldBy(s, h) /\ s.held[h] \in Task \cup {None} /\ s.held[h] # p
    BY <1>1, <1>3, <1>4, Fields DEF Holds, Untouched
  <2>2. CASE s.held[h] = None
    BY <1>6, <2>1, <2>2 DEF HeldBy
  <2>3. CASE s.held[h] # None
    <3>1. q.packet[s.held[h]] = s.packet[s.held[h]]
      BY <1>6, <2>1, <2>3
    <3> QED
      BY <1>6, <1>7, <2>1, <2>3, <3>1 DEF HeldBy
  <2> QED
    BY <2>2, <2>3
<1>14. Found(q, n)
  <2> SUFFICES ASSUME NEW t \in 1..n, ~Ended(q.leaf[t]), t \notin refuses, t \notin missed
               PROVE  t \in ToSet(q.pending) \/ \E o \in ToSet(q.tasks) : t \in ToSet(q.packet[o].kids)
    BY DEF Found
  <2>1. t \in ToSet(s.pending) \/ \E o \in ToSet(s.tasks) : t \in ToSet(s.packet[o].kids)
    BY <1>1, <1>6 DEF Found
  <2>2. CASE t \in ToSet(s.pending)
    BY <1>2, <1>6, <1>7, <2>2
  <2>3. CASE \E o \in ToSet(s.tasks) : t \in ToSet(s.packet[o].kids)
    BY <1>7, <1>8, <2>3
  <2> QED
    BY <2>1, <2>2, <2>3
<1>15. NoCancel(q)
  BY <1>6, <1>7, <1>8, <1>9 DEF NoCancel
<1>16. Extends(s, q)
  <2>1. Extends(s, s)
    BY ExtendsSelf
  <2>2. Len(q.tasks) = Len(s.tasks) + 1 /\ \A k \in 1..Len(s.tasks) : q.tasks[k] = s.tasks[k]
    BY <1>1, <1>3, <1>6, AppendProperties
  <2>3. Len(s.tasks) \in Nat
    BY Members
  <2> QED
    BY <1>6, <1>8, <2>1, <2>2, <2>3 DEF Extends
<1> QED
  BY <1>7, <1>10, <1>11, <1>12, <1>13, <1>14, <1>15, <1>16 DEF QueueOf, p

\* What updateCurrentTask_() writes.
Emptied(s, i, rest) == [s EXCEPT !.current[i] = None, !.pending = rest]
Posted(s, i, rest, p, carrier, turn) ==
  [s EXCEPT !.current[i] = p, !.pending = rest, !.sampler = turn, !.packet[p] = carrier, !.tasks = Append(@, p)]

\* The state of a slot without a packet, field by field.
LEMMA EmptiedIs ==
  ASSUME NEW s \in QState, NEW i, NEW w, NEW p, NEW c, NEW x
  PROVE  Emptied(s, i, w)
         = [leaf |-> s.leaf, packet |-> s.packet, pending |-> w, current |-> [s.current EXCEPT ![i] = None],
            sampler |-> s.sampler, tasks |-> s.tasks, held |-> s.held]
<1> DEFINE lf == s.leaf
           pk == s.packet
           pd == s.pending
           cu == s.current
           sa == s.sampler
           tk == s.tasks
           hd == s.held
<1>0. s = [leaf |-> lf, packet |-> pk, pending |-> pd, current |-> cu, sampler |-> sa, tasks |-> tk, held |-> hd]
  BY Fields
<1> HIDE DEF lf, pk, pd, cu, sa, tk, hd
<1> DEFINE a == [cu EXCEPT ![i] = None]
           s1 == [s EXCEPT !.current[i] = None]
           s2 == [s1 EXCEPT !.pending = w]
           r1 == [leaf |-> lf, packet |-> pk, pending |-> pd, current |-> a, sampler |-> sa, tasks |-> tk, held |-> hd]
           r2 == [leaf |-> lf, packet |-> pk, pending |-> w, current |-> a, sampler |-> sa, tasks |-> tk, held |-> hd]
<1>1. s.current = cu
  BY <1>0
<1>2. s1 = r1
  <2>1. s1 = [s EXCEPT !.current = a]
    BY <1>1
  <2> HIDE DEF s1, a
  <2> QED
    BY <1>0, <2>1
<1> HIDE DEF s1, a
<1>3. s2 = r2
  BY <1>2
<1> QED
  BY <1>3 DEF Emptied, s1, a, lf, pk, pd, cu, sa, tk, hd

\* The state that a slot posts a packet in, field by field.
LEMMA PostedIs ==
  ASSUME NEW s \in QState, NEW i, NEW w, NEW p, NEW c, NEW x
  PROVE  Posted(s, i, w, p, c, x)
         = [leaf |-> s.leaf, packet |-> [s.packet EXCEPT ![p] = c], pending |-> w, current |-> [s.current EXCEPT ![i] = p],
            sampler |-> x, tasks |-> Append(s.tasks, p), held |-> s.held]
<1> DEFINE lf == s.leaf
           pk == s.packet
           pd == s.pending
           cu == s.current
           sa == s.sampler
           tk == s.tasks
           hd == s.held
<1>0. s = [leaf |-> lf, packet |-> pk, pending |-> pd, current |-> cu, sampler |-> sa, tasks |-> tk, held |-> hd]
  BY Fields
<1> HIDE DEF lf, pk, pd, cu, sa, tk, hd
<1> DEFINE a == [cu EXCEPT ![i] = p]
           b == [pk EXCEPT ![p] = c]
           d == Append(tk, p)
           s1 == [s EXCEPT !.current[i] = p]
           s2 == [s1 EXCEPT !.pending = w]
           s3 == [s2 EXCEPT !.sampler = x]
           s4 == [s3 EXCEPT !.packet[p] = c]
           s5 == [s4 EXCEPT !.tasks = Append(@, p)]
           r1 == [leaf |-> lf, packet |-> pk, pending |-> pd, current |-> a, sampler |-> sa, tasks |-> tk, held |-> hd]
           r2 == [leaf |-> lf, packet |-> pk, pending |-> w, current |-> a, sampler |-> sa, tasks |-> tk, held |-> hd]
           r3 == [leaf |-> lf, packet |-> pk, pending |-> w, current |-> a, sampler |-> x, tasks |-> tk, held |-> hd]
           r4 == [leaf |-> lf, packet |-> b, pending |-> w, current |-> a, sampler |-> x, tasks |-> tk, held |-> hd]
           r5 == [leaf |-> lf, packet |-> b, pending |-> w, current |-> a, sampler |-> x, tasks |-> d, held |-> hd]
<1>1. s.current = cu /\ s.packet = pk /\ s.tasks = tk
  BY <1>0
<1>2. s1 = r1
  <2>1. s1 = [s EXCEPT !.current = a]
    BY <1>1
  <2> HIDE DEF s1, a
  <2> QED
    BY <1>0, <2>1
<1> HIDE DEF s1, a
<1>3. s2 = r2
  BY <1>2
<1> HIDE DEF s2
<1>4. s3 = r3
  BY <1>3
<1> HIDE DEF s3
<1>5. s4 = r4
  <2>1. s3.packet = pk
    BY <1>4
  <2>2. s4 = [s3 EXCEPT !.packet = b]
    BY <2>1
  <2> HIDE DEF s4, b
  <2> QED
    BY <1>4, <2>2
<1> HIDE DEF s4, b
<1>6. s5 = r5
  <2>1. s4.tasks = tk
    BY <1>5
  <2>2. s5 = [s4 EXCEPT !.tasks = d]
    BY <2>1
  <2> HIDE DEF s5, d
  <2> QED
    BY <1>5, <2>2
<1> QED
  BY <1>6 DEF Posted, s1, s2, s3, s4, a, b, lf, pk, pd, cu, sa, tk, hd

\* updateCurrentTask_() keeps what is said of the queue.
LEMMA UpdateSlotKeeps ==
  ASSUME NEW s \in QState, NEW n \in 0..T, QueueOf(s, n), NoCancel(s), NEW i \in Thread
  PROVE  /\ UpdateSlot(s, i) \in QState
         /\ QueueOf(UpdateSlot(s, i), n) /\ NoCancel(UpdateSlot(s, i)) /\ Extends(s, UpdateSlot(s, i))
<1>1. CASE s.current[i] # None /\ ~Ended(s.packet[s.current[i]].flags)
  <2>1. UpdateSlot(s, i) = s
    BY <1>1 DEF UpdateSlot
  <2> QED
    BY <2>1, ExtendsSelf
<1>2. CASE ~(s.current[i] # None /\ ~Ended(s.packet[s.current[i]].flags))
  <2> DEFINE kids == Live(s)[Taken(s)]
             rest == SubSeq(s.pending, Taken(s) + 1, Len(s.pending))
             p == Head(kids)
             turn == (s.sampler + 1) % K
             carrier == [NoPacket EXCEPT !.kids = kids, !.thread = turn + 1]
             empty == Emptied(s, i, rest)
             post == Posted(s, i, rest, p, carrier, turn)
  <2>1. UpdateSlot(s, i) = IF kids = <<>> THEN empty ELSE Process(post, p)
    BY <1>2 DEF UpdateSlot, Emptied, Posted
  <2>2. Taking(s, kids, rest)
    BY Takes DEF QueueOf, Waits
  <2>3. turn \in 0..(K - 1) /\ turn + 1 \in Thread
    BY Fields, NextTurn
  <2>4. s.current[i] \notin ToSet(s.tasks)
    BY <1>2, FreeSlot
  <2> HIDE DEF kids, rest, turn
  <2>5. rest \in Seq(Task) /\ kids \in Seq(Task)
    BY <2>2 DEF Taking
  <2>6. CASE kids = <<>>
    <3> DEFINE cu == [s.current EXCEPT ![i] = None]
               q == [leaf |-> s.leaf, packet |-> s.packet, pending |-> rest, current |-> cu,
                     sampler |-> s.sampler, tasks |-> s.tasks, held |-> s.held]
    <3>1. empty = q
      BY EmptiedIs
    <3>2. cu \in [Thread -> Task \cup {None}] /\ \A k \in Thread : cu[k] = IF k = i THEN None ELSE s.current[k]
      BY Fields
    <3> HIDE DEF cu
    <3>3. q \in QState
      BY <2>5, <3>2, Fields, Built
    <3>4. Empties(s, q, i, rest)
      BY <3>2 DEF Empties
    <3> HIDE DEF q, empty
    <3>5. QueueOf(q, n) /\ NoCancel(q) /\ Extends(s, q)
      BY <2>2, <2>4, <2>6, <3>3, <3>4, EmptiesKeeps
    <3> QED
      BY <2>1, <2>6, <3>1, <3>3, <3>5
  <2>7. CASE kids # <<>>
    <3> DEFINE cu == [s.current EXCEPT ![i] = p]
               pk == [s.packet EXCEPT ![p] = carrier]
               tk == Append(s.tasks, p)
               q == [leaf |-> s.leaf, packet |-> pk, pending |-> rest, current |-> cu,
                     sampler |-> turn, tasks |-> tk, held |-> s.held]
    <3>1. p \in Task
      BY <2>5, <2>7
    <3> HIDE DEF p, carrier
    <3>2. post = q
      BY PostedIs
    <3>3. cu \in [Thread -> Task \cup {None}] /\ \A k \in Thread : cu[k] = IF k = i THEN p ELSE s.current[k]
      BY <3>1, Fields
    <3>4. carrier \in Packet /\ carrier.kids = kids /\ carrier.flags = NoFlags
      BY <2>3, <2>5 DEF carrier, NoPacket, NoFlags, Packet, Flags, Thread
    <3>5. pk \in [Task -> Packet] /\ pk[p] = carrier /\ \A o \in Task \ {p} : pk[o] = s.packet[o]
      BY <3>1, <3>4, Fields
    <3>6. tk \in Seq(Task)
      BY <3>1, Fields, AppendProperties
    <3> HIDE DEF cu, pk
    <3>7. q \in QState
      <4> HIDE DEF tk
      <4> QED
        BY <2>3, <2>5, <3>3, <3>5, <3>6, Fields, Built
    <3>8. Posts(s, q, i, kids, rest)
      BY <3>3, <3>4, <3>5 DEF Posts, p
    <3> HIDE DEF q, post
    <3>9. QueueOf(q, n) /\ NoCancel(q) /\ Extends(s, q) /\ p \in ToSet(q.tasks)
      BY <2>2, <2>4, <2>7, <3>7, <3>8, PostsKeeps DEF p
    <3>10. /\ Process(q, p) \in QState
           /\ QueueOf(Process(q, p), n) /\ NoCancel(Process(q, p)) /\ Extends(q, Process(q, p))
      BY <3>7, <3>9, ProcessKeeps
    <3>11. Extends(s, Process(q, p))
      BY <3>7, <3>9, <3>10, ExtendsOn
    <3> QED
      BY <2>1, <2>7, <3>2, <3>10, <3>11
  <2> QED
    BY <2>6, <2>7
<1> QED
  BY <1>1, <1>2

\* Filling the slots one after another keeps what is said of the queue.
LEMMA UpdateSlotsKeeps ==
  ASSUME NEW s \in QState, NEW n \in 0..T, QueueOf(s, n), NoCancel(s)
  PROVE  /\ UpdateSlots(s) \in QState
         /\ QueueOf(UpdateSlots(s), n) /\ NoCancel(UpdateSlots(s)) /\ Extends(s, UpdateSlots(s))
<1> DEFINE N == K
           W == {q \in QState : QueueOf(q, n) /\ NoCancel(q) /\ Extends(s, q)}
           After(f) == f = [k \in 0..N |-> IF k = 0 THEN s ELSE UpdateSlot(f[k - 1], k)]
           f == CHOOSE g : After(g)
           step == [k \in 1..N |-> [q \in W |-> UpdateSlot(q, k)]]
           good == {k \in 0..N : f[k] \in W}
<1>1. UpdateSlots(s) = f[N]
  BY DEF UpdateSlots
<1>2. N \in Nat /\ s \in W
  BY QueueAssumption, ExtendsSelf
<1>3. ASSUME NEW q \in W, NEW k \in 1..N PROVE UpdateSlot(q, k) \in W
  <2>1. q \in QState /\ QueueOf(q, n) /\ NoCancel(q) /\ Extends(s, q) /\ k \in Thread
    BY DEF Thread
  <2>2. /\ UpdateSlot(q, k) \in QState
        /\ QueueOf(UpdateSlot(q, k), n) /\ NoCancel(UpdateSlot(q, k)) /\ Extends(q, UpdateSlot(q, k))
    BY <2>1, UpdateSlotKeeps
  <2>3. Extends(s, UpdateSlot(q, k))
    BY <2>1, <2>2, ExtendsOn
  <2> QED
    BY <2>2, <2>3
<1> HIDE DEF N, W
<1>4. \E g : After(g)
  <2>1. step \in [1..N -> [W -> W]] /\ \A k \in 1..N, q \in W : step[k][q] = UpdateSlot(q, k)
    BY <1>3
  <2> HIDE DEF step
  <2>2. PICK g : Goes(W, s, N, step, g)
    <3>1. StepsOn(W, N, step)
      BY <2>1 DEF StepsOn
    <3> QED
      BY <1>2, <3>1, StepByStep
  <2>3. ASSUME NEW k \in 0..N PROVE g[k] = IF k = 0 THEN s ELSE UpdateSlot(g[k - 1], k)
    <3>1. CASE k = 0
      BY <2>2, <3>1 DEF Goes
    <3>2. CASE k # 0
      <4>1. k \in 1..N /\ k - 1 \in 0..N
        BY <1>2, <3>2
      <4>2. g[k] = step[k][g[k - 1]] /\ g[k - 1] \in W
        BY <2>2, <4>1 DEF Goes
      <4> QED
        BY <2>1, <3>2, <4>1, <4>2
    <3> QED
      BY <3>1, <3>2
  <2> QED
    BY <2>2, <2>3 DEF Goes
<1>5. After(f)
  BY <1>4
<1> HIDE DEF f, step
<1>6. \A k \in 0..N : f[k] = IF k = 0 THEN s ELSE UpdateSlot(f[k - 1], k)
  BY <1>5
<1>7. good = 0..N
  <2>1. 0 \in good
    BY <1>2, <1>6
  <2>2. ASSUME NEW k \in 1..N, k - 1 \in good PROVE k \in good
    <3>1. k \in 0..N /\ k # 0 /\ f[k - 1] \in W
      BY <1>2, <2>2
    <3>2. f[k] = UpdateSlot(f[k - 1], k)
      BY <1>6, <3>1
    <3> QED
      BY <1>3, <3>1, <3>2
  <2>3. good \in SUBSET (0..N)
    OBVIOUS
  <2> HIDE DEF good
  <2> QED
    BY <1>2, <2>1, <2>2, <2>3, Steps
<1>8. f[N] \in W
  BY <1>2, <1>7
<1> QED
  BY <1>1, <1>8 DEF W

\* Offering the packets that wait to their threads keeps what is said of the queue.
LEMMA OffersKeeps ==
  ASSUME NEW n \in 0..T, State \in QState, QueueOf(State, n), NoCancel(State)
  PROVE  /\ Offers \in QState
         /\ QueueOf(Offers, n) /\ NoCancel(Offers) /\ Extends(State, Offers)
<1> DEFINE N == Len(tasks)
           W == {q \in QState : QueueOf(q, n) /\ NoCancel(q) /\ Extends(State, q)}
           After(f) == f = [k \in 0..N |-> IF k = 0 THEN State ELSE Offer(f[k - 1], tasks[k])]
           f == CHOOSE g : After(g)
           step == [k \in 1..N |-> [q \in W |-> Offer(q, tasks[k])]]
           good == {k \in 0..N : f[k] \in W}
<1>1. Offers = f[N]
  BY DEF Offers
<1>2. N \in Nat /\ State \in W
  <2>1. State.tasks = tasks
    BY DEF State
  <2> QED
    BY <2>1, Members, ExtendsSelf
<1>3. ASSUME NEW q \in W, NEW k \in 1..N PROVE Offer(q, tasks[k]) \in W
  <2>1. q \in QState /\ QueueOf(q, n) /\ NoCancel(q) /\ Extends(State, q)
    OBVIOUS
  <2>2. tasks[k] \in ToSet(q.tasks)
    <3>1. State.tasks = tasks
      BY DEF State
    <3>2. Len(tasks) \in Nat /\ Len(q.tasks) \in Nat /\ DOMAIN q.tasks = 1..Len(q.tasks)
      BY <3>1, Members
    <3>3. Len(tasks) <= Len(q.tasks) /\ q.tasks[k] = tasks[k]
      BY <2>1, <3>1 DEF Extends
    <3> QED
      BY <3>2, <3>3 DEF ToSet
  <2> DEFINE r == Offer(q, tasks[k])
  <2>3. r \in QState /\ QueueOf(r, n) /\ NoCancel(r) /\ Extends(q, r)
    <3>1. CASE q.packet[tasks[k]].progress
      BY <2>1, <3>1, ExtendsSelf DEF Offer
    <3>2. CASE ~q.packet[tasks[k]].progress
      <4>1. r = Process(q, tasks[k])
        BY <3>2 DEF Offer
      <4> HIDE DEF r
      <4> QED
        BY <2>1, <2>2, <4>1, ProcessKeeps
    <3> QED
      BY <3>1, <3>2
  <2> HIDE DEF r
  <2>4. Extends(State, r)
    BY <2>1, <2>3, ExtendsOn
  <2> QED
    BY <2>3, <2>4 DEF r
<1> HIDE DEF N, W
<1>4. \E g : After(g)
  <2>1. step \in [1..N -> [W -> W]] /\ \A k \in 1..N, q \in W : step[k][q] = Offer(q, tasks[k])
    BY <1>3
  <2> HIDE DEF step
  <2>2. PICK g : Goes(W, State, N, step, g)
    <3>1. StepsOn(W, N, step)
      BY <2>1 DEF StepsOn
    <3> QED
      BY <1>2, <3>1, StepByStep
  <2>3. ASSUME NEW k \in 0..N PROVE g[k] = IF k = 0 THEN State ELSE Offer(g[k - 1], tasks[k])
    <3>1. CASE k = 0
      BY <2>2, <3>1 DEF Goes
    <3>2. CASE k # 0
      <4>1. k \in 1..N /\ k - 1 \in 0..N
        BY <1>2, <3>2
      <4>2. g[k] = step[k][g[k - 1]] /\ g[k - 1] \in W
        BY <2>2, <4>1 DEF Goes
      <4> QED
        BY <2>1, <3>2, <4>1, <4>2
    <3> QED
      BY <3>1, <3>2
  <2> QED
    BY <2>2, <2>3 DEF Goes
<1>5. After(f)
  BY <1>4
<1> HIDE DEF f, step
<1>6. \A k \in 0..N : f[k] = IF k = 0 THEN State ELSE Offer(f[k - 1], tasks[k])
  BY <1>5
<1>7. good = 0..N
  <2>1. 0 \in good
    BY <1>2, <1>6
  <2>2. ASSUME NEW k \in 1..N, k - 1 \in good PROVE k \in good
    <3>1. k \in 0..N /\ k # 0 /\ f[k - 1] \in W
      BY <1>2, <2>2
    <3>2. f[k] = Offer(f[k - 1], tasks[k])
      BY <1>6, <3>1
    <3> QED
      BY <1>3, <3>1, <3>2
  <2>3. good \in SUBSET (0..N)
    OBVIOUS
  <2> HIDE DEF good
  <2> QED
    BY <1>2, <2>1, <2>2, <2>3, Steps
<1>8. f[N] \in W
  BY <1>2, <1>7
<1> QED
  BY <1>1, <1>8 DEF W

------------------------------------------------------------------------------
(* The main thread *)

\* The variables make a state of those functions.
LEMMA StateTyped ==
  ASSUME TypeOK
  PROVE  State \in QState
  BY DEF TypeOK, State, QState

\* Only these variables are in what is said of the queue.
LEMMA SameQueue ==
  ASSUME QueueInv, CallInv,
         UNCHANGED <<refuses, leaf, packet, pending, current, tasks, held, wpc, kid, added, missed, calls, works>>
  PROVE  QueueInv' /\ CallInv'
<1>1. Waits(State, added)' /\ Carries(State)' /\ Apart(State)'
  BY DEF QueueInv, QueueOf, State, Waits, Untouched, Carries, Carried, Apart
<1>2. Holds(State)' /\ Found(State, added)'
  BY DEF QueueInv, QueueOf, State, Holds, HeldBy, Found
<1>3. CallInv'
  BY DEF CallInv
<1> QED
  BY <1>1, <1>2, <1>3 DEF QueueInv, QueueOf

\* What the calls of the queue and of the service leave holds of the next state.
LEMMA Becomes ==
  ASSUME TypeOK, CallInv, QueueInv, NEW s \in QState, NEW n \in 0..T, QueueOf(s, n), NoCancel(s), Extends(State, s),
         Become(s), added' = n, UNCHANGED <<refuses, missed, calls, works, workerVars>>
  PROVE  /\ QueueInv' /\ CancelInv' /\ CallInv'
         /\ leaf' \in [Task -> Flags] /\ packet' \in [Task -> Packet] /\ pending' \in Seq(Task)
         /\ current' \in [Thread -> Task \cup {None}] /\ sampler' \in 0..(K - 1)
         /\ tasks' \in Seq(Task) /\ held' \in [Thread -> Task \cup {None}]
         /\ Len(tasks) <= Len(tasks') /\ \A i \in 1..Len(tasks) : tasks'[i] = tasks[i]
         /\ \A p \in ToSet(tasks) :
              packet'[p].kids = packet[p].kids /\ (packet[p].flags.run => packet'[p].flags.run)
<1>1. /\ leaf' = s.leaf /\ packet' = s.packet /\ pending' = s.pending /\ current' = s.current
      /\ sampler' = s.sampler /\ tasks' = s.tasks /\ held' = s.held
      /\ wpc' = wpc /\ kid' = kid /\ refuses' = refuses /\ missed' = missed /\ calls' = calls /\ works' = works
  BY DEF Become, workerVars
<1>2. QueueInv'
  <2>1. Waits(State, added)' /\ Carries(State)' /\ Apart(State)'
    BY <1>1 DEF QueueOf, State, Waits, Untouched, Carries, Carried, Apart
  <2>2. Holds(State)' /\ Found(State, added)'
    BY <1>1 DEF QueueOf, State, Holds, HeldBy, Found
  <2> QED
    BY <2>1, <2>2 DEF QueueInv, QueueOf
<1>3. CancelInv'
  BY <1>1 DEF NoCancel, CancelInv
<1>4. /\ Len(tasks) <= Len(tasks') /\ \A i \in 1..Len(tasks) : tasks'[i] = tasks[i]
      /\ \A p \in ToSet(tasks) :
           packet'[p].kids = packet[p].kids /\ (packet[p].flags.run => packet'[p].flags.run)
      /\ \A h \in Thread : held[h] # None => held'[h] = held[h]
      /\ \A t \in Task : /\ leaf'[t].cancel = leaf[t].cancel /\ leaf'[t].complete = leaf[t].complete
                         /\ leaf[t].finish => leaf'[t].finish
  BY <1>1 DEF Extends, State
<1>5. CallInv'
  <2> SUFFICES ASSUME NEW t \in Task
               PROVE  /\ calls'[t] <= 1 /\ (leaf'[t].complete => calls'[t] = 1) /\ (calls'[t] = 1 => Ended(leaf'[t]))
                      /\ works'[t] <= 1
                      /\ works'[t] = 1 /\ ~leaf'[t].finish =>
                           \E h \in Thread : wpc'[h] = "work" /\ packet'[held'[h]].kids[kid'[h]] = t
    BY DEF CallInv, Ended
  <2>1. ASSUME works'[t] = 1, ~leaf'[t].finish
        PROVE  \E h \in Thread : wpc'[h] = "work" /\ packet'[held'[h]].kids[kid'[h]] = t
    <3>1. PICK h \in Thread : wpc[h] = "work" /\ packet[held[h]].kids[kid[h]] = t
      BY <1>1, <1>4, <2>1 DEF CallInv
    <3>2. held[h] # None /\ held[h] \in ToSet(tasks)
      BY <3>1 DEF QueueInv, QueueOf, Holds, HeldBy, State
    <3>3. held'[h] = held[h] /\ packet'[held[h]].kids = packet[held[h]].kids
      BY <1>4, <3>2
    <3> QED
      BY <1>1, <3>1, <3>3
  <2> QED
    BY <1>1, <1>4, <2>1 DEF CallInv, Ended
<1> QED
  BY <1>1, <1>2, <1>3, <1>4, <1>5, Fields

\* A step of the main thread that only moves on.
LEMMA OnlyMoves ==
  ASSUME IInv, UNCHANGED <<refuses, leaf, packet, queueVars, tasks, held, workerVars, history>>,
         pc # "remove",
         pc' \in {"idle", "callback", "join", "update", "kids", "finish", "return", "queue", "close", "remove"},
         idx' \in Nat, lim' \in Nat, sub' \in Nat, arg' \in Task \cup {None}
  PROVE  TypeOK' /\ QueueInv' /\ CancelInv' /\ CallInv'
<1>1. UNCHANGED <<refuses, leaf, packet, pending, current, sampler, closed, tasks, held, wpc, kid, added, calls, works, missed>>
  BY DEF queueVars, workerVars, history
<1>2. TypeOK'
  BY <1>1 DEF IInv, TypeOK
<1>3. QueueInv' /\ CallInv'
  BY <1>1, SameQueue DEF IInv
<1>4. CancelInv'
  BY <1>1 DEF IInv, CancelInv
<1> QED
  BY <1>2, <1>3, <1>4

\* join() finds the task finished.
LEMMA JoinFinishedKeeps ==
  ASSUME IInv, JoinFinished
  PROVE  IInv'
<1>1. /\ pc = "join" /\ pc' = "idle" /\ idx' = 0 /\ lim' = 0 /\ sub' = 0 /\ arg' = None
      /\ UNCHANGED <<refuses, leaf, packet, queueVars, tasks, held, workerVars, history>>
  BY DEF JoinFinished, Return, Goto
<1>2. TypeOK' /\ QueueInv' /\ CancelInv' /\ CallInv'
  BY <1>1, OnlyMoves
<1>3. PlaceInv'
  BY <1>1 DEF PlaceInv
<1> QED
  BY <1>2, <1>3 DEF IInv

\* cancelTaskQueue() begins.
LEMMA CloseQueueKeeps ==
  ASSUME IInv, CloseQueue
  PROVE  IInv'
<1>1. /\ pc = "idle" /\ pc' = "close" /\ idx' = 1 /\ lim' = 0 /\ sub' = 0 /\ arg' = None
      /\ UNCHANGED <<refuses, leaf, packet, queueVars, tasks, held, workerVars, history>>
  BY DEF CloseQueue, Goto
<1>2. TypeOK' /\ QueueInv' /\ CancelInv' /\ CallInv'
  BY <1>1, OnlyMoves
<1>3. PlaceInv'
  BY <1>1 DEF PlaceInv
<1> QED
  BY <1>2, <1>3 DEF IInv

\* The loop over the packets comes to the next one.
LEMMA UpdatePacketKeeps ==
  ASSUME IInv, UpdatePacket
  PROVE  IInv'
<1>1. /\ pc = "update" /\ idx <= lim
      /\ UNCHANGED <<refuses, leaf, packet, queueVars, tasks, held, workerVars, history>>
  BY DEF UpdatePacket
<1>2. /\ idx \in Nat /\ lim \in Nat /\ tasks \in Seq(Task) /\ idx \in 1..Len(tasks)
      /\ lim <= Len(tasks) /\ Len(tasks) \in Nat
  BY <1>1 DEF IInv, TypeOK, PlaceInv
<1>3. tasks[idx] \in Task /\ tasks' = tasks /\ packet' = packet
  BY <1>1, <1>2
<1>4. CASE ~packet[tasks[idx]].flags.run
  <2>1. pc' = "update" /\ idx' = idx + 1 /\ lim' = lim /\ sub' = 0 /\ arg' = None
    BY <1>4 DEF UpdatePacket, Goto
  <2>2. TypeOK' /\ QueueInv' /\ CancelInv' /\ CallInv'
    BY <1>1, <1>2, <2>1, OnlyMoves
  <2>3. PlaceInv'
    BY <1>1, <1>2, <1>3, <2>1 DEF PlaceInv
  <2> QED
    BY <2>2, <2>3 DEF IInv
<1>5. CASE packet[tasks[idx]].flags.run
  <2>1. pc' = "kids" /\ idx' = idx /\ lim' = lim /\ sub' = 1 /\ arg' = tasks[idx]
    BY <1>5 DEF UpdatePacket, Goto
  <2>2. TypeOK' /\ QueueInv' /\ CancelInv' /\ CallInv'
    BY <1>1, <1>2, <1>3, <2>1, OnlyMoves
  <2>3. PlaceInv'
    BY <1>1, <1>2, <1>3, <1>5, <2>1 DEF PlaceInv
  <2> QED
    BY <2>2, <2>3 DEF IInv
<1> QED
  BY <1>4, <1>5

\* A completion returns.
LEMMA CallbackReturnKeeps ==
  ASSUME IInv, CallbackReturn
  PROVE  IInv'
<1>1. /\ pc = "callback" /\ pc' = "kids" /\ idx' = idx /\ lim' = lim /\ sub' = sub + 1 /\ arg' = arg
      /\ UNCHANGED <<refuses, leaf, packet, queueVars, tasks, held, workerVars, history>>
  BY DEF CallbackReturn, Goto
<1>2. idx \in Nat /\ lim \in Nat /\ sub \in Nat /\ arg \in Task \cup {None}
  BY DEF IInv, TypeOK
<1>3. TypeOK' /\ QueueInv' /\ CancelInv' /\ CallInv'
  BY <1>1, <1>2, OnlyMoves
<1>4. PlaceInv'
  BY <1>1, <1>2 DEF PlaceInv, IInv
<1> QED
  BY <1>3, <1>4 DEF IInv

\* Outside the close the service has no packet that is cancelled.
LEMMA NoneCancelled ==
  ASSUME IInv, pc # "remove"
  PROVE  State \in QState /\ QueueOf(State, added) /\ NoCancel(State) /\ added \in 0..T
<1>1. State \in QState
  BY StateTyped DEF IInv
<1>2. NoCancel(State)
  BY DEF IInv, CancelInv, NoCancel, State
<1> QED
  BY <1>1, <1>2 DEF IInv, QueueInv, TypeOK

\* The service offers the packets that wait to their threads.
LEMMA BeginUpdateKeeps ==
  ASSUME IInv, BeginUpdate
  PROVE  IInv'
<1>1. /\ pc = "idle" /\ Become(Offers) /\ pc' = "update" /\ idx' = 1 /\ lim' = Len(tasks) /\ sub' = 0 /\ arg' = None
      /\ UNCHANGED <<refuses, closed, workerVars, history>>
  BY DEF BeginUpdate, Goto
<1>2. State \in QState /\ QueueOf(State, added) /\ NoCancel(State) /\ added \in 0..T
  BY <1>1, NoneCancelled
<1>3. Offers \in QState /\ QueueOf(Offers, added) /\ NoCancel(Offers) /\ Extends(State, Offers)
  BY <1>2, OffersKeeps
<1>4. added' = added /\ UNCHANGED <<refuses, missed, calls, works, workerVars, closed>>
  BY <1>1 DEF history
<1>5. /\ QueueInv' /\ CancelInv' /\ CallInv'
      /\ leaf' \in [Task -> Flags] /\ packet' \in [Task -> Packet] /\ pending' \in Seq(Task)
      /\ current' \in [Thread -> Task \cup {None}] /\ sampler' \in 0..(K - 1)
      /\ tasks' \in Seq(Task) /\ held' \in [Thread -> Task \cup {None}]
      /\ Len(tasks) <= Len(tasks')
  <2> HIDE DEF Offers
  <2> QED
    BY <1>1, <1>2, <1>3, <1>4, Becomes DEF IInv
<1>6. Len(tasks) \in Nat
  BY DEF IInv, TypeOK
<1>7. TypeOK'
  BY <1>1, <1>4, <1>5, <1>6 DEF IInv, TypeOK, workerVars
<1>8. PlaceInv'
  BY <1>1, <1>5, <1>6 DEF PlaceInv
<1> QED
  BY <1>5, <1>7, <1>8 DEF IInv

\* The queue fills its slots at the end of the update.
LEMMA UpdateQueueKeeps ==
  ASSUME IInv, UpdateQueue
  PROVE  IInv'
<1>1. /\ pc = "update" /\ pc' = "idle" /\ idx' = 0 /\ lim' = 0 /\ sub' = 0 /\ arg' = None
      /\ UNCHANGED <<refuses, closed, workerVars, history>>
  BY DEF UpdateQueue, Return, Goto
<1>2. PlaceInv'
  BY <1>1 DEF PlaceInv
<1>3. CASE closed
  <2>1. UNCHANGED <<refuses, leaf, packet, queueVars, tasks, held, workerVars, history>>
    BY <1>1, <1>3 DEF UpdateQueue, queueVars
  <2>2. TypeOK' /\ QueueInv' /\ CancelInv' /\ CallInv'
    BY <1>1, <2>1, OnlyMoves
  <2> QED
    BY <1>2, <2>2 DEF IInv
<1>4. CASE ~closed
  <2>1. Become(UpdateSlots(State))
    BY <1>4 DEF UpdateQueue
  <2>2. State \in QState /\ QueueOf(State, added) /\ NoCancel(State) /\ added \in 0..T
    BY <1>1, NoneCancelled
  <2> DEFINE s == UpdateSlots(State)
  <2>3. s \in QState /\ QueueOf(s, added) /\ NoCancel(s) /\ Extends(State, s)
    <3> HIDE DEF State
    <3> QED
      BY <2>2, UpdateSlotsKeeps
  <2>4. added' = added /\ UNCHANGED <<refuses, missed, calls, works, workerVars, closed>>
    BY <1>1 DEF history
  <2> HIDE DEF s
  <2>5. /\ QueueInv' /\ CancelInv' /\ CallInv'
        /\ leaf' \in [Task -> Flags] /\ packet' \in [Task -> Packet] /\ pending' \in Seq(Task)
        /\ current' \in [Thread -> Task \cup {None}] /\ sampler' \in 0..(K - 1)
        /\ tasks' \in Seq(Task) /\ held' \in [Thread -> Task \cup {None}]
    BY <2>1, <2>2, <2>3, <2>4, Becomes DEF IInv, s
  <2>6. TypeOK'
    BY <1>1, <2>4, <2>5 DEF IInv, TypeOK, workerVars
  <2> QED
    BY <1>2, <2>5, <2>6 DEF IInv
<1> QED
  BY <1>3, <1>4

\* A task that is added waits behind the others.
LEMMA AddedKeeps ==
  ASSUME NEW s \in QState, NEW n \in 0..T, n + 1 \in 0..T, QueueOf(s, n), NEW q \in QState,
         q.leaf = s.leaf, q.packet = s.packet, q.current = s.current, q.tasks = s.tasks, q.held = s.held,
         q.pending = Append(s.pending, n + 1)
  PROVE  QueueOf(q, n + 1)
<1>1. /\ Waits(s, n) /\ Carries(s) /\ Apart(s) /\ Holds(s) /\ Found(s, n)
      /\ s.pending \in Seq(Task) /\ n + 1 \in Task /\ n \in Nat /\ ToSet(s.pending) \subseteq Task
      /\ \A t \in Task : t \in Nat
  BY Fields, Members DEF QueueOf, Task
<1>2. n + 1 \notin ToSet(s.pending)
  BY <1>1 DEF Waits
<1>3. IsInjective(q.pending) /\ ToSet(q.pending) = ToSet(s.pending) \cup {n + 1}
  <2>1. IsInjective(s.pending)
    BY <1>1 DEF Waits
  <2>2. /\ IsInjective(Append(s.pending, n + 1))
        /\ ToSet(Append(s.pending, n + 1)) = ToSet(s.pending) \cup {n + 1}
    BY <1>1, <1>2, <2>1, AppendOf
  <2> QED
    BY <2>2
<1>4. Waits(q, n + 1)
  <2>1. \A t \in Task : Untouched(s, t) => Untouched(q, t)
    BY DEF Untouched
  <2>2. \A t \in Task : t > n + 1 \/ t \in ToSet(q.pending) => t > n \/ t \in ToSet(s.pending)
    BY <1>1, <1>3
  <2>3. \A t \in ToSet(q.pending) : t <= n + 1
    BY <1>1, <1>3 DEF Waits
  <2> QED
    BY <1>1, <1>3, <2>1, <2>2, <2>3 DEF Waits
<1>5. Carries(q) /\ Apart(q)
  BY <1>1 DEF Carries, Carried, Apart
<1>6. Holds(q)
  BY <1>1 DEF Holds, HeldBy
<1>7. Found(q, n + 1)
  <2> SUFFICES ASSUME NEW t \in 1..(n + 1), ~Ended(q.leaf[t]), t \notin refuses, t \notin missed
               PROVE  t \in ToSet(q.pending) \/ \E o \in ToSet(q.tasks) : t \in ToSet(q.packet[o].kids)
    BY DEF Found
  <2>1. CASE t = n + 1
    BY <1>3, <2>1
  <2>2. CASE t # n + 1
    <3>1. t \in 1..n
      BY <1>1, <2>2
    <3> QED
      BY <1>1, <1>3, <3>1 DEF Found
  <2> QED
    BY <2>1, <2>2
<1> QED
  BY <1>4, <1>5, <1>6, <1>7 DEF QueueOf

\* addTask(), also by a completion.
LEMMA AddTaskKeeps ==
  ASSUME IInv, AddTask
  PROVE  IInv'
<1> DEFINE more == Append(pending, added + 1)
           q == [leaf |-> leaf, packet |-> packet, pending |-> more, current |-> current,
                 sampler |-> sampler, tasks |-> tasks, held |-> held]
           s == UpdateSlots(q)
<1>1. /\ pc \in {"idle", "callback"} /\ ~closed /\ added < T /\ added' = added + 1
      /\ Become(UpdateSlots([State EXCEPT !.pending = Append(pending, added + 1)]))
      /\ UNCHANGED <<refuses, closed, workerVars, mainVars, calls, works, missed>>
  BY DEF AddTask
<1>2. State \in QState /\ QueueOf(State, added) /\ NoCancel(State) /\ added \in 0..T /\ added + 1 \in 0..T
  <2>1. added + 1 \in 0..T
    BY <1>1, QueueAssumption DEF IInv, TypeOK
  <2> QED
    BY <1>1, <2>1, NoneCancelled
<1>3. [State EXCEPT !.pending = Append(pending, added + 1)] = q
  <2> HIDE DEF more
  <2>1. [State EXCEPT !.pending = more] = q
    BY DEF State
  <2> QED
    BY <2>1 DEF more
<1>4. q \in QState
  <2>1. added + 1 \in Task
    BY <1>2 DEF Task
  <2>2. Append(pending, added + 1) \in Seq(Task)
    BY <2>1, AppendProperties DEF IInv, TypeOK
  <2> QED
    BY <2>2, Built DEF IInv, TypeOK
<1>5. /\ q.leaf = State.leaf /\ q.packet = State.packet /\ q.current = State.current /\ q.tasks = State.tasks
      /\ q.held = State.held /\ q.pending = Append(State.pending, added + 1)
  BY DEF State
<1> HIDE DEF q
<1>6. QueueOf(q, added + 1)
  <2> HIDE DEF State
  <2> QED
    BY <1>2, <1>4, <1>5, AddedKeeps
<1>7. NoCancel(q)
  BY <1>2, <1>5 DEF NoCancel
<1>8. s \in QState /\ QueueOf(s, added + 1) /\ NoCancel(s) /\ Extends(q, s)
  BY <1>2, <1>4, <1>6, <1>7, UpdateSlotsKeeps
<1> HIDE DEF s
<1>9. Extends(State, s)
  BY <1>5, <1>8 DEF Extends
<1>10. added' = added + 1 /\ UNCHANGED <<refuses, missed, calls, works, workerVars, closed>> /\ Become(s)
  BY <1>1, <1>3 DEF s
<1>11. /\ QueueInv' /\ CancelInv' /\ CallInv'
       /\ leaf' \in [Task -> Flags] /\ packet' \in [Task -> Packet] /\ pending' \in Seq(Task)
       /\ current' \in [Thread -> Task \cup {None}] /\ sampler' \in 0..(K - 1)
       /\ tasks' \in Seq(Task) /\ held' \in [Thread -> Task \cup {None}]
       /\ Len(tasks) <= Len(tasks') /\ \A i \in 1..Len(tasks) : tasks'[i] = tasks[i]
       /\ \A p \in ToSet(tasks) :
            packet'[p].kids = packet[p].kids /\ (packet[p].flags.run => packet'[p].flags.run)
  BY <1>2, <1>8, <1>9, <1>10, Becomes DEF IInv
<1>12. Len(tasks) \in Nat /\ Len(tasks') \in Nat /\ DOMAIN tasks = 1..Len(tasks)
  BY <1>11 DEF IInv, TypeOK
<1>13. pc' = pc /\ idx' = idx /\ lim' = lim /\ sub' = sub /\ arg' = arg
  BY <1>1 DEF mainVars
<1>14. TypeOK'
  BY <1>2, <1>10, <1>11, <1>13 DEF IInv, TypeOK, workerVars
<1>15. PlaceInv'
  <2>1. CASE pc = "idle"
    BY <1>13, <2>1 DEF PlaceInv
  <2>2. CASE pc = "callback"
    <3>1. /\ idx >= 1 /\ idx <= lim + 1 /\ lim <= Len(tasks) /\ idx <= lim /\ arg = tasks[idx]
          /\ packet[arg].flags.run /\ sub >= 1 /\ sub <= Len(packet[arg].kids)
          /\ idx \in Nat /\ lim \in Nat
      BY <2>2 DEF IInv, PlaceInv, TypeOK
    <3>2. idx \in 1..Len(tasks) /\ arg \in ToSet(tasks) /\ lim <= Len(tasks')
      <4>1. idx \in 1..Len(tasks) /\ lim <= Len(tasks')
        BY <1>11, <1>12, <3>1
      <4>2. tasks[idx] \in ToSet(tasks)
        BY <1>12, <4>1 DEF ToSet
      <4> QED
        BY <3>1, <4>1, <4>2
    <3>3. tasks'[idx] = arg /\ packet'[arg].flags.run /\ packet'[arg].kids = packet[arg].kids
      BY <1>11, <3>1, <3>2
    <3> QED
      BY <1>13, <2>2, <3>1, <3>2, <3>3 DEF PlaceInv
  <2> QED
    BY <1>1, <2>1, <2>2
<1> QED
  BY <1>11, <1>14, <1>15 DEF IInv

\* What may happen to the flags of a task: an end stays an end, and one that was not
\* run stays so unless a packet that was run carries it.
Aged ==
  /\ leaf' \in [Task -> Flags]
  /\ \A t \in Task :
       /\ Unrun(leaf[t]) /\ (\A p \in ToSet(tasks) : t \in ToSet(packet[p].kids) => ~packet[p].flags.run)
            => Unrun(leaf'[t])
       /\ leaf[t].run \/ Ended(leaf[t]) => leaf'[t].run \/ Ended(leaf'[t])
       /\ Ended(leaf[t]) => Ended(leaf'[t])

\* Then what is said of the packets holds on, also when those that wait are dropped with their end.
LEMMA AgedKeeps ==
  ASSUME IInv, Aged, UNCHANGED <<refuses, packet, current, tasks, held, missed, added>>,
         pending' = pending \/ (pending' = <<>> /\ \A t \in ToSet(pending) : Ended(leaf'[t]))
  PROVE  Waits(State, added)' /\ Carries(State)' /\ Apart(State)' /\ Found(State, added)'
<1>1. /\ Waits(State, added) /\ Carries(State) /\ Apart(State) /\ Found(State, added) /\ State \in QState
  BY StateTyped DEF IInv, QueueInv, QueueOf
<1>2. /\ ToSet(tasks) \subseteq Task
      /\ \A p \in Task : ToSet(packet[p].kids) \subseteq Task
  BY <1>1, Members DEF State
<1>3. ASSUME NEW t \in Task, Untouched(State, t) PROVE Untouched(State, t)'
  <2>1. Unrun(leaf[t]) /\ \A p \in ToSet(tasks) : t \notin ToSet(packet[p].kids)
    BY <1>3 DEF Untouched, State
  <2>2. Unrun(leaf'[t])
    BY <2>1 DEF Aged
  <2> QED
    BY <1>3, <2>2 DEF Untouched, State, Unrun
<1>4. Waits(State, added)'
  <2>1. IsInjective(pending') /\ ToSet(pending') \subseteq ToSet(pending)
    <3>1. IsInjective(<<>>) /\ ToSet(<<>>) = {}
      BY DEF IsInjective, ToSet
    <3> QED
      BY <1>1, <3>1 DEF Waits, State
  <2> QED
    BY <1>1, <1>3, <2>1 DEF Waits, State
<1>5. ASSUME NEW p \in ToSet(tasks), Carried(State, p) PROVE Carried(State, p)'
  <2>1. ASSUME NEW t \in ToSet(packet[p].kids)
        PROVE  IF packet[p].flags.run THEN leaf'[t].run \/ Ended(leaf'[t]) \/ t \in refuses ELSE Unrun(leaf'[t])
    <3>1. t \in Task
      BY <1>2
    <3>2. CASE packet[p].flags.run
      <4>1. leaf[t].run \/ Ended(leaf[t]) \/ t \in refuses
        BY <1>5, <3>2 DEF Carried, State
      <4> QED
        BY <3>1, <3>2, <4>1 DEF Aged
    <3>3. CASE ~packet[p].flags.run
      <4>1. Unrun(leaf[t])
        BY <1>5, <3>3 DEF Carried, State
      <4>2. \A o \in ToSet(tasks) : t \in ToSet(packet[o].kids) => ~packet[o].flags.run
        BY <1>1, <3>3 DEF Apart, State
      <4>3. Unrun(leaf'[t])
        BY <3>1, <4>1, <4>2 DEF Aged
      <4> QED
        BY <3>3, <4>3
    <3> QED
      BY <3>2, <3>3
  <2> QED
    BY <1>5, <2>1 DEF Carried, State, Ended, Unrun
<1>6. Carries(State)'
  BY <1>1, <1>5 DEF Carries, State
<1>7. Apart(State)'
  BY <1>1 DEF Apart, State
<1>8. Found(State, added)'
  <2>1. \A t \in 1..added : t \in Task
    BY QueueAssumption DEF IInv, TypeOK, Task
  <2>2. \A t \in 1..added : ~Ended(leaf'[t]) => ~Ended(leaf[t])
    BY <2>1 DEF Aged
  <2>3. \A t \in 1..added : ~Ended(leaf'[t]) /\ t \in ToSet(pending) => t \in ToSet(pending')
    OBVIOUS
  <2> QED
    BY <1>1, <2>2, <2>3 DEF Found, State, Ended
<1> QED
  BY <1>4, <1>6, <1>7, <1>8

\* What is said of the threads does not depend on those flags.
LEMMA HoldsOn ==
  ASSUME QueueInv, UNCHANGED <<packet, tasks, held, wpc, kid>>
  PROVE  Holds(State)'
  BY DEF QueueInv, QueueOf, Holds, HeldBy, State

\* The flags of a task or packet that is cancelled.
LEMMA Cancelled ==
  ASSUME NEW f \in Flags
  PROVE  /\ CancelFlags(f) \in Flags /\ CancelFlags(f).run = f.run /\ CancelFlags(f).complete = f.complete
         /\ CancelFlags(f).cancel /\ (f.finish => CancelFlags(f).finish)
         /\ CancelFlags(f).finish => f.finish \/ Settles(f)
<1> DEFINE b == f.finish \/ Settles(f)
<1>1. CancelFlags(f) = [f EXCEPT !.cancel = TRUE, !.finish = b]
  BY DEF CancelFlags
<1>2. b \in BOOLEAN /\ (f.finish => b) /\ (b => f.finish \/ Settles(f))
  BY DEF Settles, Flags
<1> HIDE DEF b
<1>3. /\ [f EXCEPT !.cancel = TRUE, !.finish = b] \in Flags
      /\ [f EXCEPT !.cancel = TRUE, !.finish = b].run = f.run
      /\ [f EXCEPT !.cancel = TRUE, !.finish = b].complete = f.complete
      /\ [f EXCEPT !.cancel = TRUE, !.finish = b].cancel
      /\ [f EXCEPT !.cancel = TRUE, !.finish = b].finish = b
  BY <1>2 DEF Flags
<1> QED
  BY <1>1, <1>2, <1>3

\* cancel() of one task or of several.
LEMMA CancelAges ==
  ASSUME TypeOK, CallInv, NEW S \in SUBSET Task, CancelTasks(S)
  PROVE  /\ Aged
         /\ \A t \in S : leaf'[t].cancel
         /\ \A t \in Task :
              /\ leaf'[t].run = leaf[t].run /\ leaf'[t].complete = leaf[t].complete
              /\ leaf[t].cancel => leaf'[t].cancel
              /\ leaf[t].finish => leaf'[t].finish
              /\ ~Settles(leaf[t]) \/ t \notin S => calls'[t] = calls[t]
         /\ calls' \in [Task -> Nat]
         /\ \A t \in Task : /\ calls'[t] <= 1
                            /\ leaf'[t].complete => calls'[t] = 1
                            /\ calls'[t] = 1 => Ended(leaf'[t])
<1>1. leaf \in [Task -> Flags] /\ calls \in [Task -> Nat]
  BY DEF TypeOK
<1>2. \A f \in Flags : /\ CancelFlags(f) \in Flags /\ CancelFlags(f).run = f.run /\ CancelFlags(f).complete = f.complete
                        /\ CancelFlags(f).cancel /\ (f.finish => CancelFlags(f).finish)
  BY Cancelled
<1>3. ASSUME NEW t \in Task
      PROVE  /\ leaf'[t] = IF t \in S THEN CancelFlags(leaf[t]) ELSE leaf[t]
             /\ calls'[t] = IF t \in S /\ Settles(leaf[t]) THEN calls[t] + 1 ELSE calls[t]
             /\ leaf[t] \in Flags
  BY <1>1 DEF CancelTasks
<1>4. ASSUME NEW t \in Task
      PROVE  /\ leaf'[t] \in Flags
             /\ leaf'[t].run = leaf[t].run /\ leaf'[t].complete = leaf[t].complete
             /\ leaf[t].cancel => leaf'[t].cancel
             /\ leaf[t].finish => leaf'[t].finish
             /\ t \in S => leaf'[t].cancel
             /\ Unrun(leaf[t]) => Unrun(leaf'[t])
  <2>1. CASE t \in S
    BY <1>2, <1>3, <2>1 DEF Unrun
  <2>2. CASE t \notin S
    BY <1>3, <2>2 DEF Unrun
  <2> QED
    BY <2>1, <2>2
<1>5. ASSUME NEW t \in Task
      PROVE  calls'[t] <= 1 /\ (leaf'[t].complete => calls'[t] = 1) /\ (calls'[t] = 1 => Ended(leaf'[t]))
  <2>1. /\ calls[t] \in Nat /\ calls[t] <= 1 /\ (leaf[t].complete => calls[t] = 1)
        /\ (calls[t] = 1 => Ended(leaf[t]))
    BY <1>1 DEF CallInv
  <2>2. CASE t \in S /\ Settles(leaf[t])
    <3>1. calls[t] = 0 /\ calls'[t] = calls[t] + 1 /\ ~leaf[t].complete
      BY <1>3, <2>1, <2>2 DEF Settles, Ended
    <3> QED
      BY <1>4, <2>2, <3>1 DEF Ended
  <2>3. CASE ~(t \in S /\ Settles(leaf[t]))
    <3>1. calls'[t] = calls[t]
      BY <1>3, <2>3
    <3> QED
      BY <1>4, <2>1, <3>1 DEF Ended
  <2> QED
    BY <2>2, <2>3
<1>6. leaf' \in [Task -> Flags] /\ calls' \in [Task -> Nat]
  <2>1. leaf' = [t \in Task |-> leaf'[t]] /\ calls' = [t \in Task |-> calls'[t]]
    BY DEF CancelTasks
  <2>2. \A t \in Task : calls'[t] \in Nat
    BY <1>1, <1>3
  <2> QED
    BY <1>4, <2>1, <2>2
<1>7. Aged
  BY <1>4, <1>6 DEF Aged, Ended
<1>8. \A t \in Task : ~Settles(leaf[t]) \/ t \notin S => calls'[t] = calls[t]
  BY <1>3
<1> QED
  BY <1>4, <1>5, <1>6, <1>7, <1>8

\* The tasks at work stay at work.
LEMMA WorksOn ==
  ASSUME CallInv, UNCHANGED <<packet, held, wpc, kid, works>>,
         \A t \in Task : leaf[t].finish => leaf'[t].finish
  PROVE  \A t \in Task :
           /\ works'[t] <= 1
           /\ works'[t] = 1 /\ ~leaf'[t].finish =>
                \E h \in Thread : wpc'[h] = "work" /\ packet'[held'[h]].kids[kid'[h]] = t
  BY DEF CallInv

\* An end that is told by a step of the main thread: complete() of one task.
LEMMA CompleteAges ==
  ASSUME TypeOK, CallInv, NEW t \in Task, ~leaf[t].complete, calls[t] = 0,
         leaf[t].run,
         leaf' = [leaf EXCEPT ![t].complete = TRUE], calls' = [calls EXCEPT ![t] = @ + 1]
  PROVE  /\ Aged
         /\ calls' \in [Task -> Nat]
         /\ \A u \in Task : /\ leaf[u].finish => leaf'[u].finish
                            /\ calls'[u] <= 1
                            /\ leaf'[u].complete => calls'[u] = 1
                            /\ calls'[u] = 1 => Ended(leaf'[u])
<1>1. leaf \in [Task -> Flags] /\ calls \in [Task -> Nat]
  BY DEF TypeOK
<1>2. /\ leaf' \in [Task -> Flags] /\ leaf'[t].complete /\ leaf'[t].finish = leaf[t].finish
      /\ \A u \in Task \ {t} : leaf'[u] = leaf[u]
  BY <1>1 DEF Flags
<1>3. /\ calls' \in [Task -> Nat] /\ calls'[t] = 1
      /\ \A u \in Task \ {t} : calls'[u] = calls[u]
  BY <1>1
<1>4. Aged
  <2> SUFFICES ASSUME NEW u \in Task
               PROVE  /\ Unrun(leaf[u]) => Unrun(leaf'[u])
                      /\ leaf[u].run \/ Ended(leaf[u]) => leaf'[u].run \/ Ended(leaf'[u])
                      /\ Ended(leaf[u]) => Ended(leaf'[u])
    BY <1>2 DEF Aged
  <2>1. CASE u = t
    BY <1>2, <2>1 DEF Unrun, Ended
  <2>2. CASE u # t
    BY <1>2, <2>2
  <2> QED
    BY <2>1, <2>2
<1>5. ASSUME NEW u \in Task
      PROVE  /\ leaf[u].finish => leaf'[u].finish
             /\ calls'[u] <= 1
             /\ leaf'[u].complete => calls'[u] = 1
             /\ calls'[u] = 1 => Ended(leaf'[u])
  <2>1. CASE u = t
    BY <1>2, <1>3, <2>1 DEF Ended
  <2>2. CASE u # t
    BY <1>2, <1>3, <2>2 DEF CallInv
  <2> QED
    BY <2>1, <2>2
<1> QED
  BY <1>3, <1>4, <1>5

\* cancel() of a task.
LEMMA CancelTaskKeeps ==
  ASSUME IInv, NEW t \in Task, CancelTask(t)
  PROVE  IInv'
<1>1. /\ pc = "idle" /\ ~leaf[t].cancel /\ CancelTasks({t})
      /\ UNCHANGED <<refuses, packet, queueVars, tasks, held, workerVars, added, works, missed>>
  BY DEF CancelTask
<1>2. UNCHANGED <<refuses, packet, pending, current, sampler, closed, tasks, held, wpc, kid, added, works, missed>>
  BY <1>1 DEF queueVars, workerVars
<1>3. /\ Aged /\ leaf'[t].cancel /\ calls' \in [Task -> Nat]
      /\ \A u \in Task :
           /\ leaf'[u].run = leaf[u].run /\ leaf'[u].complete = leaf[u].complete
           /\ leaf[u].finish => leaf'[u].finish
           /\ ~Settles(leaf[u]) \/ u \notin {t} => calls'[u] = calls[u]
           /\ calls'[u] <= 1 /\ (leaf'[u].complete => calls'[u] = 1) /\ (calls'[u] = 1 => Ended(leaf'[u]))
  BY <1>1, CancelAges DEF IInv
<1>4. QueueInv'
  BY <1>2, <1>3, AgedKeeps, HoldsOn DEF IInv, QueueInv, QueueOf
<1>5. CallInv'
  BY <1>2, <1>3, WorksOn DEF IInv, CallInv, Ended
<1>6. \/ UNCHANGED mainVars
      \/ /\ leaf[t].run /\ ~leaf[t].finish /\ ~leaf[t].complete
         /\ pc' = "join" /\ idx' = 0 /\ lim' = 0 /\ sub' = 0 /\ arg' = t
  BY DEF CancelTask, Goto
<1>7. CASE UNCHANGED mainVars
  <2>1. pc' = pc /\ idx' = idx /\ lim' = lim /\ sub' = sub /\ arg' = arg
    BY <1>7 DEF mainVars
  <2>2. TypeOK'
    BY <1>2, <1>3, <2>1 DEF IInv, TypeOK, Aged
  <2>3. PlaceInv' /\ CancelInv'
    BY <1>1, <1>2, <2>1 DEF IInv, PlaceInv, CancelInv
  <2> QED
    BY <1>4, <1>5, <2>2, <2>3 DEF IInv
<1>8. CASE /\ leaf[t].run /\ ~leaf[t].finish /\ ~leaf[t].complete
           /\ pc' = "join" /\ idx' = 0 /\ lim' = 0 /\ sub' = 0 /\ arg' = t
  <2>1. TypeOK'
    BY <1>2, <1>3, <1>8 DEF IInv, TypeOK, Aged
  <2>2. calls[t] = 0
    <3>1. calls[t] \in Nat /\ calls[t] <= 1 /\ calls[t] # 1
      BY <1>1, <1>8 DEF IInv, TypeOK, CallInv, Ended
    <3> QED
      BY <3>1
  <2>3. calls'[t] = 0
    BY <1>3, <1>8, <2>2 DEF Settles
  <2>4. PlaceInv'
    BY <1>3, <1>8, <2>3 DEF PlaceInv
  <2>5. CancelInv'
    BY <1>1, <1>2 DEF IInv, CancelInv
  <2> QED
    BY <1>4, <1>5, <2>1, <2>4, <2>5 DEF IInv
<1> QED
  BY <1>6, <1>7, <1>8

\* join() completes the task that cancel() caught at work.
LEMMA JoinCompleteKeeps ==
  ASSUME IInv, JoinComplete
  PROVE  IInv'
<1>1. /\ pc = "join" /\ pc' = "idle" /\ idx' = 0 /\ lim' = 0 /\ sub' = 0 /\ arg' = None
      /\ leaf' = [leaf EXCEPT ![arg].complete = TRUE] /\ calls' = [calls EXCEPT ![arg] = @ + 1]
      /\ UNCHANGED <<refuses, packet, pending, current, sampler, closed, tasks, held, wpc, kid, added, works, missed>>
  BY DEF JoinComplete, Return, Goto, queueVars, workerVars
<1>2. arg \in Task /\ leaf[arg].run /\ ~leaf[arg].complete /\ calls[arg] = 0
  BY <1>1 DEF IInv, PlaceInv
<1>3. /\ Aged /\ calls' \in [Task -> Nat]
      /\ \A u \in Task : /\ leaf[u].finish => leaf'[u].finish
                         /\ calls'[u] <= 1
                         /\ leaf'[u].complete => calls'[u] = 1
                         /\ calls'[u] = 1 => Ended(leaf'[u])
  BY <1>1, <1>2, CompleteAges DEF IInv
<1>4. QueueInv'
  BY <1>1, <1>3, AgedKeeps, HoldsOn DEF IInv, QueueInv, QueueOf
<1>5. CallInv'
  BY <1>1, <1>3, WorksOn DEF IInv, CallInv, Ended
<1>6. TypeOK'
  BY <1>1, <1>3 DEF IInv, TypeOK, Aged
<1>7. PlaceInv' /\ CancelInv'
  BY <1>1 DEF IInv, PlaceInv, CancelInv
<1> QED
  BY <1>4, <1>5, <1>6, <1>7 DEF IInv

\* Inside the update of a packet.
LEMMA InPacket ==
  ASSUME IInv, pc \in {"kids", "callback", "return"}
  PROVE  /\ idx \in 1..Len(tasks) /\ idx <= lim /\ lim <= Len(tasks) /\ Len(tasks) \in Nat
         /\ idx \in Nat /\ lim \in Nat /\ sub \in Nat
         /\ arg = tasks[idx] /\ arg \in ToSet(tasks) /\ arg \in Task /\ packet[arg].flags.run
         /\ packet[arg] \in Packet /\ packet[arg].kids \in Seq(Task) /\ Len(packet[arg].kids) \in Nat
<1>1. /\ idx >= 1 /\ lim <= Len(tasks) /\ idx <= lim /\ arg = tasks[idx] /\ packet[arg].flags.run
      /\ idx \in Nat /\ lim \in Nat /\ sub \in Nat /\ tasks \in Seq(Task) /\ packet \in [Task -> Packet]
  BY DEF IInv, PlaceInv, TypeOK
<1>2. Len(tasks) \in Nat /\ DOMAIN tasks = 1..Len(tasks) /\ idx \in 1..Len(tasks)
  BY <1>1
<1>3. tasks[idx] \in ToSet(tasks) /\ tasks[idx] \in Task
  BY <1>1, <1>2 DEF ToSet
<1>4. packet[arg] \in Packet
  BY <1>1, <1>3
<1>5. packet[arg].kids \in Seq(Task)
  BY <1>4 DEF Packet
<1> QED
  BY <1>1, <1>2, <1>3, <1>4, <1>5

\* update() of one task of a packet.
LEMMA UpdateKidKeeps ==
  ASSUME IInv, UpdateKid
  PROVE  IInv'
<1> DEFINE t == packet[arg].kids[sub]
           ends == leaf[t].run /\ ~Ended(leaf[t]) /\ leaf[t].finish
<1>1. /\ pc = "kids" /\ sub <= Len(packet[arg].kids)
      /\ UNCHANGED <<refuses, packet, queueVars, tasks, held, workerVars, added, works, missed>>
  BY DEF UpdateKid
<1>2. /\ idx \in 1..Len(tasks) /\ idx <= lim /\ lim <= Len(tasks) /\ idx \in Nat /\ lim \in Nat /\ sub \in Nat
      /\ arg = tasks[idx] /\ arg \in Task /\ packet[arg].flags.run
      /\ packet[arg].kids \in Seq(Task) /\ Len(packet[arg].kids) \in Nat
  BY <1>1, InPacket
<1>3. t \in Task
  <2>1. sub \in 1..Len(packet[arg].kids)
    BY <1>1, <1>2 DEF IInv, PlaceInv
  <2> QED
    BY <1>2, <2>1
<1>4. UNCHANGED <<refuses, packet, pending, current, sampler, closed, tasks, held, wpc, kid, added, works, missed>>
  BY <1>1 DEF queueVars, workerVars
<1>5. sub >= 1
  BY <1>1 DEF IInv, PlaceInv
<1>6. CASE ends
  <2>1. /\ leaf' = [leaf EXCEPT ![t].complete = TRUE] /\ calls' = [calls EXCEPT ![t] = @ + 1]
        /\ pc' = "callback" /\ idx' = idx /\ lim' = lim /\ sub' = sub /\ arg' = arg
    BY <1>6 DEF UpdateKid, Goto
  <2>2. leaf[t].run /\ ~Ended(leaf[t])
    BY <1>6
  <2> HIDE DEF t, ends
  <2>3. ~leaf[t].complete /\ calls[t] = 0
    <3>1. calls[t] \in Nat /\ calls[t] <= 1 /\ calls[t] # 1
      BY <1>3, <2>2 DEF IInv, TypeOK, CallInv
    <3> QED
      BY <2>2, <3>1 DEF Ended
  <2>4. /\ Aged /\ calls' \in [Task -> Nat]
        /\ \A u \in Task : /\ leaf[u].finish => leaf'[u].finish
                           /\ calls'[u] <= 1
                           /\ leaf'[u].complete => calls'[u] = 1
                           /\ calls'[u] = 1 => Ended(leaf'[u])
    BY <1>3, <2>1, <2>2, <2>3, CompleteAges DEF IInv
  <2>5. QueueInv'
    BY <1>4, <2>4, AgedKeeps, HoldsOn DEF IInv, QueueInv, QueueOf
  <2>6. CallInv'
    BY <1>4, <2>4, WorksOn DEF IInv, CallInv, Ended
  <2>7. TypeOK'
    BY <1>4, <2>1, <2>4 DEF IInv, TypeOK, Aged
  <2>8. CancelInv'
    BY <1>1, <1>4 DEF IInv, CancelInv
  <2>9. PlaceInv'
    BY <1>1, <1>2, <1>4, <1>5, <2>1 DEF PlaceInv
  <2> QED
    BY <2>5, <2>6, <2>7, <2>8, <2>9 DEF IInv
<1>7. CASE ~ends
  <2>1. /\ UNCHANGED <<leaf, calls>>
        /\ pc' = "kids" /\ idx' = idx /\ lim' = lim /\ sub' = sub + 1 /\ arg' = arg
    BY <1>7 DEF UpdateKid, Goto
  <2>2. UNCHANGED <<refuses, leaf, packet, queueVars, tasks, held, workerVars, history>>
    BY <1>1, <2>1 DEF history
  <2>3. TypeOK' /\ QueueInv' /\ CancelInv' /\ CallInv'
    BY <1>1, <1>2, <2>1, <2>2, OnlyMoves
  <2>4. PlaceInv'
    BY <1>1, <1>2, <1>4, <1>5, <2>1 DEF PlaceInv
  <2> QED
    BY <2>3, <2>4 DEF IInv
<1> QED
  BY <1>6, <1>7

\* At the end of the close the tasks that wait are cancelled.
LEMMA CloseEndKeeps ==
  ASSUME IInv, CloseEnd
  PROVE  IInv'
<1>1. /\ pc = "close" /\ pc' = "idle" /\ idx' = 0 /\ lim' = 0 /\ sub' = 0 /\ arg' = None
      /\ CancelTasks(ToSet(pending)) /\ pending' = <<>> /\ closed' = TRUE
      /\ UNCHANGED <<refuses, packet, current, sampler, tasks, held, wpc, kid, added, works, missed>>
  BY DEF CloseEnd, Return, Goto, workerVars
<1>2. ToSet(pending) \in SUBSET Task
  <2>1. State \in QState /\ State.pending = pending
    BY StateTyped DEF IInv, State
  <2> QED
    BY <2>1, Members
<1>3. /\ Aged /\ calls' \in [Task -> Nat]
      /\ \A t \in ToSet(pending) : leaf'[t].cancel
      /\ \A u \in Task :
           /\ leaf[u].finish => leaf'[u].finish
           /\ calls'[u] <= 1 /\ (leaf'[u].complete => calls'[u] = 1) /\ (calls'[u] = 1 => Ended(leaf'[u]))
  <2> DEFINE S == ToSet(pending)
  <2>1. S \in SUBSET Task /\ CancelTasks(S)
    BY <1>1, <1>2
  <2> HIDE DEF S
  <2>2. /\ Aged /\ calls' \in [Task -> Nat]
        /\ \A t \in S : leaf'[t].cancel
        /\ \A u \in Task :
             /\ leaf[u].finish => leaf'[u].finish
             /\ calls'[u] <= 1 /\ (leaf'[u].complete => calls'[u] = 1) /\ (calls'[u] = 1 => Ended(leaf'[u]))
    BY <2>1, CancelAges DEF IInv
  <2> QED
    BY <2>2 DEF S
<1>4. \A t \in ToSet(pending) : Ended(leaf'[t])
  BY <1>3 DEF Ended
<1>5. QueueInv'
  BY <1>1, <1>3, <1>4, AgedKeeps, HoldsOn DEF IInv, QueueInv, QueueOf
<1>6. CallInv'
  BY <1>1, <1>3, WorksOn DEF IInv, CallInv, Ended
<1>7. TypeOK'
  <2>1. <<>> \in Seq(Task)
    OBVIOUS
  <2> QED
    BY <1>1, <1>3, <2>1 DEF IInv, TypeOK, Aged
<1>8. PlaceInv' /\ CancelInv'
  BY <1>1 DEF IInv, PlaceInv, CancelInv
<1> QED
  BY <1>5, <1>6, <1>7, <1>8 DEF IInv

\* Packets leave the service or lose what they carry when their tasks have been seen to,
\* and slots and threads give up what they hold.
Shrinks ==
  /\ tasks' \in Seq(Task) /\ IsInjective(tasks') /\ ToSet(tasks') \subseteq ToSet(tasks)
  /\ \A i \in Thread : current[i] \in ToSet(tasks') => current'[i] = current[i]
  /\ \A i \in Thread : current'[i] = current[i] \/ current'[i] = None
  /\ \A h \in Thread : held'[h] = held[h] \/ held'[h] = None
  /\ \A p \in ToSet(tasks') :
       /\ packet'[p].flags.run = packet[p].flags.run /\ ~packet'[p].flags.complete
       /\ packet[p].flags.cancel => packet'[p].flags.cancel
       /\ \/ packet'[p].kids = packet[p].kids
          \/ /\ packet'[p].kids = <<>> /\ packet'[p].flags.cancel
             /\ \A t \in ToSet(packet[p].kids) : Ended(leaf'[t])
  /\ \A p \in ToSet(tasks) \ ToSet(tasks') : \A t \in ToSet(packet[p].kids) :
       Ended(leaf'[t]) \/ t \in refuses \/ t \in missed'
  /\ missed \subseteq missed'

\* Then what is said of the packets holds on.
LEMMA ShrinksKeeps ==
  ASSUME IInv, Aged, Shrinks, UNCHANGED <<refuses, pending, added>>
  PROVE  Waits(State, added)' /\ Carries(State)' /\ Apart(State)' /\ Found(State, added)'
<1>1. /\ Waits(State, added) /\ Carries(State) /\ Apart(State) /\ Found(State, added) /\ State \in QState
  BY StateTyped DEF IInv, QueueInv, QueueOf
<1>2. /\ ToSet(tasks) \subseteq Task
      /\ \A p \in Task : ToSet(packet[p].kids) \subseteq Task
  BY <1>1, Members DEF State
<1>3. ToSet(<<>>) = {} /\ IsInjective(<<>>)
  BY DEF ToSet, IsInjective
<1>4. \A p \in ToSet(tasks') : p \in ToSet(tasks) /\ ToSet(packet'[p].kids) \subseteq ToSet(packet[p].kids)
  BY <1>3 DEF Shrinks
<1>5. ASSUME NEW t \in Task, Untouched(State, t) PROVE Untouched(State, t)'
  <2>1. Unrun(leaf[t]) /\ \A p \in ToSet(tasks) : t \notin ToSet(packet[p].kids)
    BY <1>5 DEF Untouched, State
  <2>2. Unrun(leaf'[t])
    BY <2>1 DEF Aged
  <2>3. t \notin ToSet(tasks') /\ \A i \in Thread : current'[i] # t /\ held'[i] # t
    <3>1. None # t
      BY DEF Task, None
    <3> QED
      BY <1>5, <3>1 DEF Untouched, State, Shrinks
  <2>4. \A p \in ToSet(tasks') : t \notin ToSet(packet'[p].kids)
    BY <1>4, <2>1
  <2> QED
    BY <2>2, <2>3, <2>4 DEF Untouched, State, Unrun
<1>6. Waits(State, added)'
  BY <1>1, <1>5 DEF Waits, State
<1>7. ASSUME NEW p \in ToSet(tasks') PROVE Carried(State, p)'
  <2>1. /\ IsInjective(packet[p].kids)
        /\ \E i \in Thread : current[i] = p
        /\ packet[p].kids = <<>> => packet[p].flags.cancel
        /\ p \in ToSet(tasks)
        /\ \A t \in ToSet(packet[p].kids) :
             IF packet[p].flags.run THEN leaf[t].run \/ Ended(leaf[t]) \/ t \in refuses ELSE Unrun(leaf[t])
    BY <1>1, <1>4 DEF Carries, Carried, State
  <2>2. IsInjective(packet'[p].kids) /\ (packet'[p].kids = <<>> => packet'[p].flags.cancel)
    BY <1>3, <2>1 DEF Shrinks
  <2>3. (\E i \in Thread : current'[i] = p) /\ ~packet'[p].flags.complete
    BY <2>1 DEF Shrinks
  <2>4. ASSUME NEW t \in ToSet(packet'[p].kids)
        PROVE  IF packet'[p].flags.run THEN leaf'[t].run \/ Ended(leaf'[t]) \/ t \in refuses ELSE Unrun(leaf'[t])
    <3>1. t \in ToSet(packet[p].kids) /\ packet'[p].flags.run = packet[p].flags.run
      BY <1>4 DEF Shrinks
    <3>2. t \in Task
      BY <1>2, <2>1, <3>1
    <3>3. CASE packet[p].flags.run
      <4>1. leaf[t].run \/ Ended(leaf[t]) \/ t \in refuses
        BY <2>1, <3>1, <3>3
      <4> QED
        BY <3>1, <3>2, <3>3, <4>1 DEF Aged
    <3>4. CASE ~packet[p].flags.run
      <4>1. Unrun(leaf[t])
        BY <2>1, <3>1, <3>4
      <4>2. \A o \in ToSet(tasks) : t \in ToSet(packet[o].kids) => ~packet[o].flags.run
        BY <1>1, <2>1, <3>1, <3>4 DEF Apart, State
      <4>3. Unrun(leaf'[t])
        BY <3>2, <4>1, <4>2 DEF Aged
      <4> QED
        BY <3>1, <3>4, <4>3
    <3> QED
      BY <3>3, <3>4
  <2> QED
    BY <2>2, <2>3, <2>4 DEF Carried, State, Ended, Unrun
<1>8. Carries(State)'
  BY <1>7 DEF Carries, State, Shrinks
<1>9. Apart(State)'
  <2>1. \A i, k \in Thread : current'[i] = current'[k] /\ current'[i] # None => i = k
    BY <1>1 DEF Apart, State, Shrinks
  <2>2. \A p, q \in ToSet(tasks') : \A t \in ToSet(packet'[p].kids) : t \in ToSet(packet'[q].kids) => p = q
    BY <1>1, <1>4 DEF Apart, State
  <2> QED
    BY <2>1, <2>2 DEF Apart, State
<1>10. Found(State, added)'
  <2> SUFFICES ASSUME NEW t \in 1..added, ~Ended(leaf'[t]), t \notin refuses, t \notin missed'
               PROVE  t \in ToSet(pending) \/ \E p \in ToSet(tasks') : t \in ToSet(packet'[p].kids)
    BY DEF Found, State, Ended
  <2>1. t \in Task
    BY QueueAssumption DEF IInv, TypeOK, Task
  <2>2. ~Ended(leaf[t]) /\ t \notin missed
    BY <2>1 DEF Aged, Shrinks
  <2>3. CASE t \in ToSet(pending)
    BY <2>3
  <2>4. CASE \E p \in ToSet(tasks) : t \in ToSet(packet[p].kids)
    <3>1. PICK p \in ToSet(tasks) : t \in ToSet(packet[p].kids)
      BY <2>4
    <3>2. p \in ToSet(tasks') /\ packet'[p].kids = packet[p].kids
      BY <3>1 DEF Shrinks
    <3> QED
      BY <3>1, <3>2
  <2>5. t \in ToSet(pending) \/ \E p \in ToSet(tasks) : t \in ToSet(packet[p].kids)
    BY <1>1, <2>2 DEF Found, State
  <2> QED
    BY <2>3, <2>4, <2>5
<1> QED
  BY <1>6, <1>8, <1>9, <1>10

\* Where the flags of the tasks stay as they are nothing happens to them.
LEMMA AgedSame ==
  ASSUME TypeOK, leaf' = leaf
  PROVE  Aged
  BY DEF Aged, TypeOK, Ended, Unrun

\* A packet that has finished leaves the service, with or without its tasks.
LEMMA DropsKeeps ==
  ASSUME IInv, pc \in {"kids", "return"}, packet[arg].flags.finish,
         packet' \in [Task -> Packet], \A p \in Task \ {arg} : packet'[p] = packet[p],
         packet'[arg].thread = packet[arg].thread, packet'[arg].progress = packet[arg].progress,
         packet'[arg].flags.run = packet[arg].flags.run,
         missed' = missed \cup Untold(arg), tasks' = SwapRemove(tasks, idx),
         Goto("update", idx, lim - 1, 0, None),
         UNCHANGED <<refuses, leaf, queueVars, held, workerVars, added, calls, works>>
  PROVE  IInv'
<1>1. /\ idx \in 1..Len(tasks) /\ idx <= lim /\ lim <= Len(tasks) /\ Len(tasks) \in Nat
      /\ idx \in Nat /\ lim \in Nat
      /\ arg = tasks[idx] /\ arg \in ToSet(tasks) /\ arg \in Task /\ packet[arg].flags.run
  BY InPacket
<1>2. /\ UNCHANGED <<refuses, leaf, pending, current, sampler, closed, held, wpc, kid, added, calls, works>>
      /\ pc' = "update" /\ idx' = idx /\ lim' = lim - 1 /\ sub' = 0 /\ arg' = None
  BY DEF queueVars, workerVars, Goto
<1>3. /\ Waits(State, added) /\ Carries(State) /\ Apart(State) /\ Holds(State) /\ State \in QState
  BY StateTyped DEF IInv, QueueInv, QueueOf
<1>4. /\ ToSet(tasks) \subseteq Task
      /\ \A p \in Task : ToSet(packet[p].kids) \subseteq Task
  BY <1>3, Members DEF State
<1>5. /\ tasks' \in Seq(Task) /\ IsInjective(tasks') /\ ToSet(tasks') = ToSet(tasks) \ {arg}
      /\ Len(tasks') = Len(tasks) - 1
  <2>1. tasks \in Seq(Task) /\ IsInjective(tasks)
    BY <1>3 DEF IInv, TypeOK, Carries, State
  <2>2. /\ SwapRemove(tasks, idx) \in Seq(Task) /\ IsInjective(SwapRemove(tasks, idx))
        /\ ToSet(SwapRemove(tasks, idx)) = ToSet(tasks) \ {tasks[idx]}
    BY <1>1, <2>1, RemovedOf
  <2>3. Len(SwapRemove(tasks, idx)) = Len(tasks) - 1
    BY <1>1, <2>1, RemovedEntries
  <2> QED
    BY <1>1, <2>2, <2>3
<1>6. Aged
  BY <1>2, AgedSame DEF IInv
<1>7. \A t \in ToSet(packet[arg].kids) : Ended(leaf[t]) \/ t \in refuses \/ t \in missed'
  BY <1>1, <1>3 DEF Carries, Carried, State, Untold
<1>8. \A p \in ToSet(tasks') : packet'[p] = packet[p] /\ ~packet[p].flags.complete
  BY <1>3, <1>4, <1>5 DEF Carries, Carried, State
<1>9. Shrinks
  <2>1. \A p \in ToSet(tasks) \ ToSet(tasks') : p = arg
    BY <1>5
  <2>2. \A p \in ToSet(tasks) \ ToSet(tasks') : \A t \in ToSet(packet[p].kids) :
          Ended(leaf'[t]) \/ t \in refuses \/ t \in missed'
    BY <1>2, <1>7, <2>1
  <2> QED
    BY <1>2, <1>5, <1>8, <2>2 DEF Shrinks
<1>10. ASSUME NEW h \in Thread PROVE HeldBy(State, h)'
  <2>1. HeldBy(State, h)
    BY <1>3 DEF Holds
  <2>2. held[h] \in Task \cup {None}
    BY DEF IInv, TypeOK
  <2>3. CASE held[h] = None
    BY <1>2, <2>1, <2>3 DEF HeldBy, State
  <2>4. CASE held[h] # None /\ held[h] # arg
    <3>1. packet'[held[h]] = packet[held[h]] /\ (held[h] \in ToSet(tasks) => held[h] \in ToSet(tasks'))
      BY <1>5, <2>2, <2>4
    <3> QED
      BY <1>2, <2>1, <3>1 DEF HeldBy, State
  <2>5. CASE held[h] # None /\ held[h] = arg
    <3>1. wpc[h] = "leave"
      BY <2>1, <2>5 DEF HeldBy, State
    <3> QED
      BY <1>2, <2>1, <2>5, <3>1 DEF HeldBy, State
  <2> QED
    BY <2>3, <2>4, <2>5
<1>11. Holds(State)'
  BY <1>10 DEF Holds, HeldBy
<1>12. QueueInv'
  BY <1>2, <1>6, <1>9, <1>11, ShrinksKeeps DEF QueueInv, QueueOf
<1>13. CallInv'
  <2>1. \A h \in Thread : wpc[h] = "work" => held[h] \in Task /\ held[h] # arg
    <3> SUFFICES ASSUME NEW h \in Thread, wpc[h] = "work" PROVE held[h] \in Task /\ held[h] # arg
      OBVIOUS
    <3>1. HeldBy(State, h) /\ held[h] \in Task \cup {None}
      BY <1>3 DEF Holds, IInv, TypeOK
    <3> QED
      BY <3>1 DEF HeldBy, State
  <2>2. \A h \in Thread : wpc[h] = "work" => packet'[held[h]] = packet[held[h]]
    BY <2>1
  <2> QED
    BY <1>2, <2>2 DEF IInv, CallInv, Ended
<1>14. CancelInv'
  <2>1. \A p \in ToSet(tasks') : ~packet'[p].flags.cancel
    BY <1>5, <1>8 DEF IInv, CancelInv
  <2> QED
    BY <2>1 DEF CancelInv
<1>15. TypeOK'
  <2>1. lim - 1 \in Nat
    BY <1>1
  <2>2. missed' \subseteq Task
    BY <1>1, <1>4 DEF Untold, IInv, TypeOK
  <2> QED
    BY <1>2, <1>5, <2>1, <2>2 DEF IInv, TypeOK
<1>16. PlaceInv'
  BY <1>1, <1>2, <1>5 DEF PlaceInv
<1> QED
  BY <1>12, <1>13, <1>14, <1>15, <1>16 DEF IInv

\* update() of a packet reads m_finish a first time.
LEMMA UpdateFinishKeeps ==
  ASSUME IInv, UpdateFinish
  PROVE  IInv'
<1>1. /\ pc = "kids"
      /\ UNCHANGED <<refuses, leaf, queueVars, held, workerVars, added, calls, works>>
  BY DEF UpdateFinish
<1>2. /\ idx <= lim /\ lim <= Len(tasks) /\ idx \in Nat /\ lim \in Nat
      /\ arg = tasks[idx] /\ arg \in Task /\ packet[arg].flags.run /\ packet[arg] \in Packet
  BY <1>1, InPacket
<1>3. CASE packet[arg].flags.finish
  <2>1. /\ packet' = [packet EXCEPT ![arg].flags.complete = TRUE, ![arg].kids = <<>>]
        /\ missed' = missed \cup Untold(arg)
        /\ tasks' = SwapRemove(tasks, idx)
        /\ Goto("update", idx, lim - 1, 0, None)
    BY <1>3 DEF UpdateFinish
  <2>2. packet \in [Task -> Packet] /\ <<>> \in Seq(Task) /\ packet[arg] \in Packet
    BY <1>2 DEF IInv, TypeOK
  <2> DEFINE k == [packet[arg] EXCEPT !.flags.complete = TRUE, !.kids = <<>>]
  <2>3. /\ k \in Packet /\ k.thread = packet[arg].thread /\ k.progress = packet[arg].progress
        /\ k.flags.run = packet[arg].flags.run
    BY <2>2 DEF Packet, Flags
  <2>4. packet' = [packet EXCEPT ![arg] = k]
    BY <2>1
  <2> HIDE DEF k
  <2>5. packet' \in [Task -> Packet] /\ packet'[arg] = k /\ \A p \in Task \ {arg} : packet'[p] = packet[p]
    BY <1>2, <2>2, <2>3, <2>4
  <2> QED
    BY <1>1, <1>3, <2>1, <2>3, <2>5, DropsKeeps
<1>4. CASE ~packet[arg].flags.finish
  <2>1. /\ pc' = "return" /\ idx' = idx /\ lim' = lim /\ sub' = 0 /\ arg' = arg
        /\ UNCHANGED <<packet, missed, tasks>>
    BY <1>4 DEF UpdateFinish, Goto
  <2>2. UNCHANGED <<refuses, leaf, packet, queueVars, tasks, held, workerVars, history>>
    BY <1>1, <2>1 DEF history
  <2>3. TypeOK' /\ QueueInv' /\ CancelInv' /\ CallInv'
    BY <1>1, <1>2, <2>1, <2>2, OnlyMoves
  <2>4. PlaceInv'
    BY <1>1, <1>2, <2>1 DEF PlaceInv, IInv
  <2> QED
    BY <2>3, <2>4 DEF IInv
<1> QED
  BY <1>3, <1>4

\* The service reads it again.
LEMMA UpdateReturnKeeps ==
  ASSUME IInv, UpdateReturn
  PROVE  IInv'
<1>1. /\ pc = "return"
      /\ UNCHANGED <<refuses, leaf, packet, queueVars, held, workerVars, added, calls, works>>
  BY DEF UpdateReturn
<1>2. /\ idx <= lim /\ lim <= Len(tasks) /\ idx \in Nat /\ lim \in Nat /\ Len(tasks) \in Nat
      /\ arg = tasks[idx] /\ arg \in Task /\ packet[arg].flags.run
  BY <1>1, InPacket
<1>3. CASE packet[arg].flags.finish
  <2>1. /\ missed' = missed \cup Untold(arg)
        /\ tasks' = SwapRemove(tasks, idx)
        /\ Goto("update", idx, lim - 1, 0, None)
    BY <1>3 DEF UpdateReturn
  <2>2. packet' = packet /\ packet' \in [Task -> Packet]
    BY <1>1 DEF IInv, TypeOK
  <2>3. UNCHANGED <<refuses, leaf, queueVars, held, workerVars, added, calls, works>>
    BY <1>1
  <2> QED
    BY <1>1, <1>3, <2>1, <2>2, <2>3, DropsKeeps
<1>4. CASE ~packet[arg].flags.finish
  <2>1. /\ pc' = "update" /\ idx' = idx + 1 /\ lim' = lim /\ sub' = 0 /\ arg' = None
        /\ UNCHANGED <<missed, tasks>>
    BY <1>4 DEF UpdateReturn, Goto
  <2>2. UNCHANGED <<refuses, leaf, packet, queueVars, tasks, held, workerVars, history>>
    BY <1>1, <2>1 DEF history
  <2>3. TypeOK' /\ QueueInv' /\ CancelInv' /\ CallInv'
    BY <1>1, <1>2, <2>1, <2>2, OnlyMoves
  <2>4. PlaceInv'
    BY <1>1, <1>2, <2>1 DEF PlaceInv, IInv
  <2> QED
    BY <2>3, <2>4 DEF IInv
<1> QED
  BY <1>3, <1>4

\* joinTask(): the packet of a slot is cancelled with its tasks.
LEMMA CloseCancelKeeps ==
  ASSUME IInv, CloseCancel
  PROVE  IInv'
<1> DEFINE p == current[idx]
<1>1. /\ pc = "close" /\ idx \in Thread
      /\ UNCHANGED <<refuses, queueVars, tasks, held, workerVars, added, works, missed>>
  BY DEF CloseCancel
<1>2. UNCHANGED <<refuses, pending, current, sampler, closed, tasks, held, wpc, kid, added, works, missed>>
  BY <1>1 DEF queueVars, workerVars
<1>3. /\ idx \in Nat /\ p \in Task \cup {None} /\ leaf \in [Task -> Flags] /\ packet \in [Task -> Packet]
  BY <1>1 DEF IInv, TypeOK
<1>4. CASE p = None
  <2>1. /\ pc' = "close" /\ idx' = idx + 1 /\ lim' = 0 /\ sub' = 0 /\ arg' = None
        /\ UNCHANGED <<leaf, calls, packet>>
    BY <1>4 DEF CloseCancel, Goto
  <2>2. UNCHANGED <<refuses, leaf, packet, queueVars, tasks, held, workerVars, history>>
    BY <1>1, <2>1 DEF history
  <2>3. TypeOK' /\ QueueInv' /\ CancelInv' /\ CallInv'
    BY <1>1, <1>3, <2>1, <2>2, OnlyMoves
  <2>4. PlaceInv'
    BY <1>1, <1>3, <2>1 DEF PlaceInv, IInv
  <2> QED
    BY <2>3, <2>4 DEF IInv
<1>5. CASE p # None
  <2> DEFINE f == CancelFlags(packet[p].flags)
             kids == IF Settles(packet[p].flags) THEN <<>> ELSE packet[p].kids
             k == [packet[p] EXCEPT !.flags = f, !.kids = kids]
             S == ToSet(packet[p].kids)
  <2>1. /\ pc' = "remove" /\ idx' = idx /\ lim' = 0 /\ sub' = 0 /\ arg' = p
        /\ packet' = [packet EXCEPT ![p].flags = CancelFlags(@),
                                    ![p].kids = IF Settles(packet[p].flags) THEN <<>> ELSE @]
        /\ IF Ended(packet[p].flags) THEN UNCHANGED <<leaf, calls>> ELSE CancelTasks(S)
    BY <1>5 DEF CloseCancel, Goto
  <2>2. packet' = [packet EXCEPT ![p] = k]
    BY <2>1
  <2>3. p \in Task /\ packet[p] \in Packet
    BY <1>3, <1>5
  <2>4. /\ Waits(State, added) /\ Carries(State) /\ Apart(State) /\ Holds(State) /\ State \in QState
    BY StateTyped DEF IInv, QueueInv, QueueOf
  <2>5. /\ ToSet(tasks) \subseteq Task
        /\ \A o \in Task : ToSet(packet[o].kids) \subseteq Task
    BY <2>4, Members DEF State
  <2>6. packet[p].flags \in Flags /\ packet[p].kids \in Seq(Task) /\ <<>> \in Seq(Task)
    BY <2>3 DEF Packet
  <2>7. /\ f \in Flags /\ f.run = packet[p].flags.run /\ f.complete = packet[p].flags.complete /\ f.cancel
        /\ f.finish => packet[p].flags.finish \/ Settles(packet[p].flags)
    BY <2>6, Cancelled
  <2>8. /\ kids \in Seq(Task)
        /\ ~Settles(packet[p].flags) => kids = packet[p].kids
        /\ kids = <<>> \/ kids = packet[p].kids
    BY <2>6
  <2> HIDE DEF f, kids, p, S
  <2>9. /\ k \in Packet /\ k.flags = f /\ k.kids = kids
        /\ k.thread = packet[p].thread /\ k.progress = packet[p].progress
    BY <2>3, <2>7, <2>8 DEF Packet
  <2> HIDE DEF k
  <2>10. packet' \in [Task -> Packet] /\ packet'[p] = k /\ \A o \in Task \ {p} : packet'[o] = packet[o]
    BY <1>3, <2>2, <2>3, <2>9
  <2>11. S \in SUBSET Task
    BY <2>3, <2>5 DEF S
  <2>12. /\ Aged /\ calls' \in [Task -> Nat]
         /\ ~Ended(packet[p].flags) => \A t \in S : Ended(leaf'[t])
         /\ \A t \in Task :
              /\ leaf[t].finish => leaf'[t].finish
              /\ calls'[t] <= 1 /\ (leaf'[t].complete => calls'[t] = 1) /\ (calls'[t] = 1 => Ended(leaf'[t]))
    <3>1. CASE Ended(packet[p].flags)
      <4>1. leaf' = leaf /\ calls' = calls
        BY <2>1, <3>1
      <4> QED
        BY <3>1, <4>1, AgedSame DEF IInv, TypeOK, CallInv, Ended
    <3>2. CASE ~Ended(packet[p].flags)
      <4>1. CancelTasks(S)
        BY <2>1, <3>2
      <4> QED
        BY <2>11, <3>2, <4>1, CancelAges DEF IInv, Ended
    <3> QED
      BY <3>1, <3>2
  <2>13. \A o \in ToSet(tasks) : ~packet[o].flags.complete /\ ~packet[o].flags.cancel
    BY <1>1, <2>4 DEF Carries, Carried, State, IInv, CancelInv
  <2>14. p \in ToSet(tasks) => \A t \in S : Ended(leaf'[t])
    BY <2>12, <2>13 DEF Ended
  <2>15. Shrinks
    <3>1. tasks' \in Seq(Task) /\ IsInjective(tasks') /\ ToSet(tasks') = ToSet(tasks)
      BY <1>2, <2>4 DEF Carries, State, IInv, TypeOK
    <3>2. ASSUME NEW o \in ToSet(tasks')
          PROVE  /\ packet'[o].flags.run = packet[o].flags.run /\ ~packet'[o].flags.complete
                 /\ packet[o].flags.cancel => packet'[o].flags.cancel
                 /\ \/ packet'[o].kids = packet[o].kids
                    \/ /\ packet'[o].kids = <<>> /\ packet'[o].flags.cancel
                       /\ \A t \in ToSet(packet[o].kids) : Ended(leaf'[t])
      <4>1. o \in Task /\ ~packet[o].flags.complete
        BY <2>5, <2>13, <3>1
      <4>2. CASE o = p
        BY <2>7, <2>8, <2>9, <2>10, <2>14, <3>1, <4>1, <4>2 DEF S
      <4>3. CASE o # p
        BY <2>10, <4>1, <4>3
      <4> QED
        BY <4>2, <4>3
    <3> QED
      BY <1>2, <3>1, <3>2 DEF Shrinks
  <2>16. ASSUME NEW h \in Thread
         PROVE  /\ HeldBy(State, h)'
                /\ wpc[h] = "work" => packet'[held[h]].kids = packet[held[h]].kids
    <3>1. HeldBy(State, h) /\ held[h] \in Task \cup {None}
      BY <2>4 DEF Holds, IInv, TypeOK
    <3>2. CASE held[h] = None
      BY <1>2, <3>1, <3>2 DEF HeldBy, State
    <3>3. CASE held[h] # None /\ held[h] # p
      <4>1. packet'[held[h]] = packet[held[h]]
        BY <2>10, <3>1, <3>3
      <4> QED
        BY <1>2, <3>1, <4>1 DEF HeldBy, State
    <3>4. CASE held[h] # None /\ held[h] = p
      <4>1. packet[p].flags.run /\ packet[p].thread = h /\ packet[p].progress
        BY <3>1, <3>4 DEF HeldBy, State
      <4>2. Settles(packet[p].flags) => packet[p].flags.finish
        BY <4>1 DEF Settles
      <4>3. /\ k.flags.run /\ k.thread = h /\ k.progress
            /\ k.flags.finish => packet[p].flags.finish
            /\ ~packet[p].flags.finish => k.kids = packet[p].kids
        BY <2>7, <2>8, <2>9, <4>1, <4>2
      <4>4. packet[p].flags.finish => wpc[h] = "leave"
        BY <3>1, <3>4 DEF HeldBy, State
      <4>5. wpc[h] # "leave" => k.kids = packet[p].kids
        BY <4>3, <4>4
      <4> QED
        BY <1>2, <2>10, <3>1, <3>4, <4>3, <4>4, <4>5 DEF HeldBy, State
    <3> QED
      BY <3>2, <3>3, <3>4
  <2>17. Holds(State)'
    BY <2>16 DEF Holds, HeldBy
  <2>18. QueueInv'
    BY <1>2, <2>12, <2>15, <2>17, ShrinksKeeps DEF QueueInv, QueueOf
  <2>19. CallInv'
    BY <1>2, <2>12, <2>16 DEF IInv, CallInv, Ended
  <2>20. CancelInv'
    <3>1. \A o \in ToSet(tasks) \ {p} : ~packet'[o].flags.cancel
      BY <2>5, <2>10, <2>13
    <3> QED
      BY <1>2, <2>1, <3>1 DEF CancelInv
  <2>21. TypeOK'
    BY <1>2, <1>3, <2>1, <2>3, <2>10, <2>12 DEF IInv, TypeOK, Aged
  <2>22. PlaceInv'
    <3>1. arg' # None /\ arg' = current'[idx] /\ idx' \in Thread
      BY <1>1, <1>2, <1>5, <2>1 DEF p
    <3>2. p \in ToSet(tasks) => \A t \in ToSet(packet'[p].kids) : Ended(leaf'[t])
      <4>1. ToSet(<<>>) = {}
        BY DEF ToSet
      <4>2. ToSet(packet'[p].kids) \subseteq S
        BY <2>8, <2>9, <2>10, <4>1 DEF S
      <4> QED
        BY <2>14, <4>2
    <3> QED
      BY <1>2, <2>1, <3>1, <3>2 DEF PlaceInv, Ended
  <2> QED
    BY <2>18, <2>19, <2>20, <2>21, <2>22 DEF IInv
<1> QED
  BY <1>4, <1>5

\* removeTask() takes the packet out of the service and of its slot.
LEMMA CloseRemoveKeeps ==
  ASSUME IInv, CloseRemove
  PROVE  IInv'
<1> DEFINE hh == packet[arg].thread
           posted == arg \in ToSet(tasks)
           n == CHOOSE i \in 1..Len(tasks) : tasks[i] = arg
<1>1. /\ pc = "remove"
      /\ posted /\ packet[arg].progress => wpc[hh] = "wait"
      /\ held' = IF posted /\ packet[arg].progress THEN [held EXCEPT ![hh] = None] ELSE held
      /\ tasks' = IF posted THEN SwapRemove(tasks, n) ELSE tasks
      /\ current' = [current EXCEPT ![idx] = None]
      /\ pc' = "close" /\ idx' = idx + 1 /\ lim' = 0 /\ sub' = 0 /\ arg' = None
      /\ UNCHANGED <<refuses, leaf, packet, pending, sampler, closed, wpc, kid, added, calls, works, missed>>
  BY DEF CloseRemove, Goto, workerVars, history
<1>2. /\ idx \in Thread /\ arg # None /\ arg = current[idx] /\ idx \in Nat
      /\ posted => \A t \in ToSet(packet[arg].kids) : Ended(leaf[t])
  BY <1>1 DEF IInv, PlaceInv, TypeOK
<1>3. /\ leaf \in [Task -> Flags] /\ packet \in [Task -> Packet] /\ tasks \in Seq(Task)
      /\ current \in [Thread -> Task \cup {None}] /\ held \in [Thread -> Task \cup {None}]
  BY DEF IInv, TypeOK
<1>4. arg \in Task /\ hh \in Thread
  <2>1. arg \in Task
    BY <1>2, <1>3
  <2> QED
    BY <1>3, <2>1 DEF Packet
<1>5. /\ Waits(State, added) /\ Carries(State) /\ Apart(State) /\ Holds(State) /\ State \in QState
  BY StateTyped DEF IInv, QueueInv, QueueOf
<1>6. tasks' \in Seq(Task) /\ IsInjective(tasks') /\ ToSet(tasks') = ToSet(tasks) \ {arg}
  <2>1. IsInjective(tasks)
    BY <1>5 DEF Carries, State
  <2>2. CASE posted
    <3>1. \E i \in 1..Len(tasks) : tasks[i] = arg
      BY <1>3, <2>2 DEF ToSet
    <3>2. n \in 1..Len(tasks) /\ tasks[n] = arg
      BY <3>1
    <3> HIDE DEF n
    <3>3. /\ SwapRemove(tasks, n) \in Seq(Task) /\ IsInjective(SwapRemove(tasks, n))
          /\ ToSet(SwapRemove(tasks, n)) = ToSet(tasks) \ {tasks[n]}
      BY <1>3, <2>1, <3>2, RemovedOf
    <3> QED
      BY <1>1, <2>2, <3>2, <3>3
  <2>3. CASE ~posted
    BY <1>1, <1>3, <2>1, <2>3
  <2> QED
    BY <2>2, <2>3
<1> HIDE DEF n
<1>7. /\ current' \in [Thread -> Task \cup {None}] /\ current'[idx] = None
      /\ \A i \in Thread \ {idx} : current'[i] = current[i]
  BY <1>1, <1>2, <1>3
<1>8. /\ held' \in [Thread -> Task \cup {None}]
      /\ \A h \in Thread : /\ held'[h] = held[h] \/ (held'[h] = None /\ wpc[h] = "wait")
                           /\ posted => held'[h] # arg
  <2>1. CASE posted /\ packet[arg].progress
    <3>1. /\ held' \in [Thread -> Task \cup {None}] /\ held'[hh] = None
          /\ \A h \in Thread \ {hh} : held'[h] = held[h]
      BY <1>1, <1>3, <1>4, <2>1
    <3>2. \A h \in Thread : held[h] = arg => h = hh
      BY <1>2, <1>5 DEF Holds, HeldBy, State
    <3> QED
      BY <1>1, <1>2, <2>1, <3>1, <3>2
  <2>2. CASE ~(posted /\ packet[arg].progress)
    <3>1. held' = held
      BY <1>1, <2>2
    <3>2. \A h \in Thread : held[h] = arg => packet[arg].progress
      BY <1>2, <1>5 DEF Holds, HeldBy, State
    <3> QED
      BY <1>3, <2>2, <3>1, <3>2
  <2> QED
    BY <2>1, <2>2
<1>9. Aged
  BY <1>1, AgedSame DEF IInv
<1>10. Shrinks
  <2>1. \A i \in Thread : current[i] \in ToSet(tasks') => current'[i] = current[i]
    BY <1>2, <1>6, <1>7
  <2>2. \A p \in ToSet(tasks') : packet'[p] = packet[p] /\ ~packet'[p].flags.complete
    BY <1>1, <1>5, <1>6 DEF Carries, Carried, State
  <2>3. \A p \in ToSet(tasks) \ ToSet(tasks') : \A t \in ToSet(packet[p].kids) : Ended(leaf'[t])
    BY <1>1, <1>2, <1>6
  <2> QED
    BY <1>1, <1>6, <1>7, <1>8, <2>1, <2>2, <2>3 DEF Shrinks
<1>11. ASSUME NEW h \in Thread PROVE HeldBy(State, h)'
  <2>1. HeldBy(State, h)
    BY <1>5 DEF Holds
  <2>2. CASE held'[h] = None
    <3>1. wpc[h] = "wait"
      BY <1>8, <2>1, <2>2 DEF HeldBy, State
    <3> QED
      BY <1>1, <2>2, <3>1 DEF HeldBy, State
  <2>3. CASE held'[h] # None
    <3>1. held'[h] = held[h] /\ (posted => held[h] # arg)
      BY <1>8, <2>3
    <3>2. held[h] \in ToSet(tasks) => held[h] \in ToSet(tasks')
      BY <1>6, <3>1
    <3> QED
      BY <1>1, <2>1, <3>1, <3>2 DEF HeldBy, State
  <2> QED
    BY <2>2, <2>3
<1>12. Holds(State)'
  BY <1>11 DEF Holds, HeldBy
<1>13. QueueInv'
  BY <1>1, <1>9, <1>10, <1>12, ShrinksKeeps DEF QueueInv, QueueOf
<1>14. CallInv'
  <2>1. \A h \in Thread : wpc[h] = "work" => held'[h] = held[h]
    BY <1>8
  <2> QED
    BY <1>1, <2>1 DEF IInv, CallInv, Ended
<1>15. CancelInv'
  BY <1>1, <1>6 DEF IInv, CancelInv
<1>16. TypeOK'
  BY <1>1, <1>2, <1>6, <1>7, <1>8 DEF IInv, TypeOK
<1>17. PlaceInv'
  BY <1>1, <1>2 DEF PlaceInv
<1> QED
  BY <1>13, <1>14, <1>15, <1>16, <1>17 DEF IInv

------------------------------------------------------------------------------
(* The threads *)

\* A step of a thread: it moves on, a task or the packet it holds may have finished.
ThreadMoves(h) ==
  /\ UNCHANGED <<refuses, pending, current, sampler, closed, tasks, mainVars, added, calls, missed>>
  /\ leaf' \in [Task -> Flags] /\ packet' \in [Task -> Packet]
  /\ \A t \in Task : leaf'[t].run = leaf[t].run /\ leaf'[t].complete = leaf[t].complete
                     /\ leaf'[t].cancel = leaf[t].cancel /\ (leaf[t].finish => leaf'[t].finish)
  /\ \A p \in Task :
       /\ packet'[p].kids = packet[p].kids /\ packet'[p].thread = packet[p].thread
       /\ packet'[p].progress = packet[p].progress /\ packet'[p].flags.run = packet[p].flags.run
       /\ packet'[p].flags.complete = packet[p].flags.complete /\ packet'[p].flags.cancel = packet[p].flags.cancel
       /\ p # held[h] => packet'[p] = packet[p]
  /\ held' \in [Thread -> Task \cup {None}]
  /\ wpc' \in [Thread -> {"wait", "loop", "work", "leave"}] /\ kid' \in [Thread -> 0..(T + 1)]
  /\ \A g \in Thread \ {h} : held'[g] = held[g] /\ wpc'[g] = wpc[g] /\ kid'[g] = kid[g]
  /\ held'[h] = held[h] \/ held'[h] = None

\* It leaves the invariant as it is when what is said of that thread and of the work holds on.
LEMMA ThreadKeeps ==
  ASSUME IInv, NEW h \in Thread, held[h] \in Task, ThreadMoves(h), HeldBy(State, h)',
         \A t \in Task : leaf'[t].finish => leaf[t].finish \/ leaf[t].run
                                            \/ (held[h] \in ToSet(tasks) /\ t \in ToSet(packet[held[h]].kids)),
         works' \in [Task -> Nat],
         \A t \in Task :
           /\ works'[t] <= 1
           /\ works'[t] = 1 /\ ~leaf'[t].finish =>
                \E g \in Thread : wpc'[g] = "work" /\ packet'[held'[g]].kids[kid'[g]] = t
  PROVE  IInv'
<1>1. /\ Waits(State, added) /\ Carries(State) /\ Apart(State) /\ Holds(State) /\ State \in QState
  BY StateTyped DEF IInv, QueueInv, QueueOf
<1>2. /\ ToSet(tasks) \subseteq Task
      /\ \A p \in Task : ToSet(packet[p].kids) \subseteq Task
  BY <1>1, Members DEF State
<1>3. /\ UNCHANGED <<refuses, pending, current, sampler, closed, tasks, added, calls, missed>>
      /\ pc' = pc /\ idx' = idx /\ lim' = lim /\ sub' = sub /\ arg' = arg
  BY DEF ThreadMoves, mainVars
<1>4. held[h] # None /\ packet[held[h]].thread = h /\ packet[held[h]].flags.run
  <2>1. HeldBy(State, h) /\ held[h] # None
    BY <1>1 DEF Holds, Task, None
  <2> QED
    BY <2>1 DEF HeldBy, State
<1>5. Aged
  <2> SUFFICES ASSUME NEW t \in Task
               PROVE  /\ Unrun(leaf[t]) /\ (\A p \in ToSet(tasks) : t \in ToSet(packet[p].kids) => ~packet[p].flags.run)
                           => Unrun(leaf'[t])
                      /\ leaf[t].run \/ Ended(leaf[t]) => leaf'[t].run \/ Ended(leaf'[t])
                      /\ Ended(leaf[t]) => Ended(leaf'[t])
    BY DEF Aged, ThreadMoves
  <2>1. /\ leaf'[t].run = leaf[t].run /\ leaf'[t].complete = leaf[t].complete
        /\ leaf'[t].cancel = leaf[t].cancel
    BY DEF ThreadMoves
  <2> QED
    BY <1>4, <2>1 DEF Unrun, Ended
<1>6. Shrinks
  <2>1. \A p \in ToSet(tasks) : p \in Task /\ ~packet[p].flags.complete
    BY <1>1, <1>2 DEF Carries, Carried, State
  <2>2. tasks' = tasks /\ tasks \in Seq(Task) /\ IsInjective(tasks)
    BY <1>1, <1>3 DEF Carries, State, IInv, TypeOK
  <2>3. \A g \in Thread : held'[g] = held[g] \/ held'[g] = None
    BY DEF ThreadMoves
  <2> QED
    BY <1>3, <2>1, <2>2, <2>3 DEF Shrinks, ThreadMoves
<1>7. Holds(State)'
  <2> SUFFICES ASSUME NEW g \in Thread PROVE HeldBy(State, g)'
    BY DEF Holds, HeldBy
  <2>1. CASE g = h
    BY <2>1
  <2>2. CASE g # h
    <3>1. HeldBy(State, g) /\ held'[g] = held[g] /\ wpc'[g] = wpc[g] /\ kid'[g] = kid[g] /\ tasks' = tasks
      BY <1>1, <1>3, <2>2 DEF Holds, ThreadMoves
    <3>2. CASE held[g] = None
      BY <3>1, <3>2 DEF HeldBy, State
    <3>3. CASE held[g] # None
      <4>1. held[g] \in Task /\ held[g] # held[h]
        BY <1>4, <2>2, <3>1, <3>3 DEF HeldBy, State, IInv, TypeOK
      <4>2. packet'[held[g]] = packet[held[g]]
        BY <4>1 DEF ThreadMoves
      <4> QED
        BY <3>1, <4>2 DEF HeldBy, State
    <3> QED
      BY <3>2, <3>3
  <2> QED
    BY <2>1, <2>2
<1>8. QueueInv'
  BY <1>3, <1>5, <1>6, <1>7, ShrinksKeeps DEF QueueInv, QueueOf
<1>9. CallInv'
  BY <1>3 DEF ThreadMoves, IInv, CallInv, Ended
<1>10. CancelInv'
  BY <1>2, <1>3 DEF ThreadMoves, IInv, CancelInv
<1>11. TypeOK'
  BY <1>3 DEF ThreadMoves, IInv, TypeOK
<1>12. PlaceInv'
  <2>1. pc \in {"update", "kids", "callback", "return"} => idx >= 1 /\ idx <= lim + 1 /\ lim <= Len(tasks)
    BY DEF IInv, PlaceInv
  <2>2. pc \in {"kids", "callback", "return"} =>
          idx <= lim /\ arg = tasks[idx] /\ packet'[arg].flags.run /\ packet'[arg].kids = packet[arg].kids
    <3>1. pc \in {"kids", "callback", "return"} =>
            idx <= lim /\ arg = tasks[idx] /\ packet[arg].flags.run /\ arg \in Task
      BY InPacket
    <3> QED
      BY <3>1 DEF ThreadMoves
  <2>3. (pc \in {"kids", "callback"} => sub >= 1) /\ (pc = "close" => idx >= 1)
    BY DEF IInv, PlaceInv
  <2>4. pc = "callback" => sub <= Len(packet'[arg].kids)
    BY <2>2 DEF IInv, PlaceInv
  <2>5. pc = "join" =>
          arg \in Task /\ leaf'[arg].cancel /\ leaf'[arg].run /\ ~leaf'[arg].complete /\ calls[arg] = 0
    BY DEF IInv, PlaceInv, ThreadMoves
  <2>6. pc = "remove" =>
          /\ idx \in Thread /\ arg # None /\ arg = current[idx]
          /\ arg \in ToSet(tasks) => \A t \in ToSet(packet'[arg].kids) : Ended(leaf'[t])
    <3>1. pc = "remove" =>
            /\ idx \in Thread /\ arg # None /\ arg = current[idx]
            /\ arg \in ToSet(tasks) => \A t \in ToSet(packet[arg].kids) : Ended(leaf[t])
      BY DEF IInv, PlaceInv
    <3>2. \A p \in ToSet(tasks) : packet'[p].kids = packet[p].kids /\ ToSet(packet[p].kids) \subseteq Task
      BY <1>2 DEF ThreadMoves
    <3>3. \A t \in Task : Ended(leaf[t]) => Ended(leaf'[t])
      BY DEF ThreadMoves, Ended
    <3> QED
      BY <3>1, <3>2, <3>3
  <2> QED
    BY <1>3, <2>1, <2>2, <2>3, <2>4, <2>5, <2>6 DEF PlaceInv, Ended
<1> QED
  BY <1>8, <1>9, <1>10, <1>11, <1>12 DEF IInv

\* What a thread that holds a packet knows of it.
LEMMA Holding ==
  ASSUME IInv, NEW h \in Thread, held[h] # None
  PROVE  /\ held[h] \in Task /\ packet[held[h]] \in Packet /\ packet[held[h]].flags \in Flags
         /\ packet[held[h]].kids \in Seq(Task) /\ Len(packet[held[h]].kids) \in Nat
         /\ packet[held[h]].thread = h /\ packet[held[h]].progress /\ packet[held[h]].flags.run
         /\ wpc[h] # "leave" => /\ held[h] \in ToSet(tasks) /\ ~packet[held[h]].flags.finish
                                /\ IsInjective(packet[held[h]].kids) /\ Len(packet[held[h]].kids) <= T
                                /\ packet[held[h]].kids = <<>> => packet[held[h]].flags.cancel
<1>1. HeldBy(State, h) /\ Carries(State)
  BY DEF IInv, QueueInv, QueueOf, Holds
<1>2. held[h] \in Task /\ packet[held[h]] \in Packet
  BY DEF IInv, TypeOK
<1>3. packet[held[h]].flags \in Flags /\ packet[held[h]].kids \in Seq(Task) /\ Len(packet[held[h]].kids) \in Nat
  BY <1>2 DEF Packet
<1>4. wpc[h] # "leave" => /\ held[h] \in ToSet(tasks) /\ ~packet[held[h]].flags.finish
                          /\ IsInjective(packet[held[h]].kids)
                          /\ packet[held[h]].kids = <<>> => packet[held[h]].flags.cancel
  BY <1>1 DEF HeldBy, State, Carries, Carried
<1>5. wpc[h] # "leave" => Len(packet[held[h]].kids) <= T
  BY <1>3, <1>4, ShortList
<1> QED
  BY <1>1, <1>2, <1>3, <1>4, <1>5 DEF HeldBy, State

\* A step that changes the finish flag of the packet of the thread at most.
LEMMA PacketFinishes ==
  ASSUME TypeOK, NEW p \in Task, NEW b \in BOOLEAN, packet' = [packet EXCEPT ![p].flags.finish = b]
  PROVE  /\ packet' \in [Task -> Packet] /\ packet'[p].flags.finish = b
         /\ \A q \in Task :
              /\ packet'[q].kids = packet[q].kids /\ packet'[q].thread = packet[q].thread
              /\ packet'[q].progress = packet[q].progress /\ packet'[q].flags.run = packet[q].flags.run
              /\ packet'[q].flags.complete = packet[q].flags.complete
              /\ packet'[q].flags.cancel = packet[q].flags.cancel
              /\ q # p => packet'[q] = packet[q]
<1>1. packet \in [Task -> Packet]
  BY DEF TypeOK
<1> DEFINE k == [packet[p] EXCEPT !.flags.finish = b]
<1>2. packet[p] \in Packet
  BY <1>1
<1>3. packet[p].flags \in Flags
  BY <1>2 DEF Packet
<1>4. [packet[p].flags EXCEPT !.finish = b] \in Flags
  BY <1>3 DEF Flags
<1>5. /\ k \in Packet /\ k.kids = packet[p].kids /\ k.thread = packet[p].thread /\ k.progress = packet[p].progress
      /\ k.flags = [packet[p].flags EXCEPT !.finish = b]
  BY <1>2, <1>4 DEF Packet
<1>6. /\ k.flags.run = packet[p].flags.run /\ k.flags.complete = packet[p].flags.complete
      /\ k.flags.cancel = packet[p].flags.cancel /\ k.flags.finish = b
  BY <1>3, <1>5 DEF Flags
<1>7. packet' = [packet EXCEPT ![p] = k]
  OBVIOUS
<1> HIDE DEF k
<1>8. packet' \in [Task -> Packet] /\ packet'[p] = k /\ \A q \in Task \ {p} : packet'[q] = packet[q]
  BY <1>1, <1>5, <1>7
<1> QED
  BY <1>5, <1>6, <1>8

\* The work goes on where no task is and no thread comes to work or leaves it.
LEMMA WorkStays ==
  ASSUME IInv, NEW h \in Thread, ThreadMoves(h), wpc[h] # "work", works' = works
  PROVE  /\ works' \in [Task -> Nat]
         /\ \A t \in Task :
              /\ works'[t] <= 1
              /\ works'[t] = 1 /\ ~leaf'[t].finish =>
                   \E g \in Thread : wpc'[g] = "work" /\ packet'[held'[g]].kids[kid'[g]] = t
<1>1. \A g \in Thread : wpc[g] = "work" =>
        wpc'[g] = "work" /\ packet'[held'[g]].kids[kid'[g]] = packet[held[g]].kids[kid[g]]
  <2> SUFFICES ASSUME NEW g \in Thread, wpc[g] = "work"
               PROVE  wpc'[g] = "work" /\ packet'[held'[g]].kids[kid'[g]] = packet[held[g]].kids[kid[g]]
    OBVIOUS
  <2>1. held[g] \in Task
    <3>1. HeldBy(State, g)
      BY DEF IInv, QueueInv, QueueOf, Holds
    <3>2. held[g] # None
      BY <3>1 DEF HeldBy, State
    <3> QED
      BY <3>2, Holding
  <2>2. packet'[held[g]].kids = packet[held[g]].kids
    BY <2>1 DEF ThreadMoves
  <2> QED
    BY <2>2 DEF ThreadMoves
<1>2. works' \in [Task -> Nat]
  BY DEF IInv, TypeOK
<1>3. ASSUME NEW t \in Task
      PROVE  /\ works'[t] <= 1
             /\ works'[t] = 1 /\ ~leaf'[t].finish =>
                  \E g \in Thread : wpc'[g] = "work" /\ packet'[held'[g]].kids[kid'[g]] = t
  <2>1. /\ works[t] <= 1
        /\ works[t] = 1 /\ ~leaf[t].finish =>
             \E g \in Thread : wpc[g] = "work" /\ packet[held[g]].kids[kid[g]] = t
    BY DEF IInv, CallInv
  <2>2. leaf[t].finish => leaf'[t].finish
    BY DEF ThreadMoves
  <2> QED
    BY <1>1, <2>1, <2>2
<1> QED
  BY <1>2, <1>3

\* A thread wakes with a packet.
LEMMA WorkerTakeKeeps ==
  ASSUME IInv, NEW h \in Thread, WorkerTake(h)
  PROVE  IInv'
<1> DEFINE p == held[h]
           f == packet[p].flags
<1>1. /\ wpc[h] = "wait" /\ held[h] # None
      /\ UNCHANGED <<refuses, leaf, pending, current, sampler, closed, tasks, held, mainVars, added, calls, works, missed>>
  BY DEF WorkerTake, queueVars, history
<1>2. /\ p \in Task /\ packet[p] \in Packet /\ f \in Flags
      /\ packet[p].kids \in Seq(Task) /\ Len(packet[p].kids) \in Nat
      /\ packet[p].thread = h /\ packet[p].progress /\ f.run
      /\ p \in ToSet(tasks) /\ ~f.finish /\ Len(packet[p].kids) <= T
      /\ packet[p].kids = <<>> => f.cancel
  BY <1>1, Holding
<1>3. /\ leaf' \in [Task -> Flags] /\ held' \in [Thread -> Task \cup {None}]
      /\ packet \in [Task -> Packet] /\ kid \in [Thread -> 0..(T + 1)]
      /\ wpc \in [Thread -> {"wait", "loop", "work", "leave"}]
  BY <1>1 DEF IInv, TypeOK
<1>4. CASE ~f.run \/ f.finish \/ f.complete \/ f.cancel
  <2> DEFINE b == f.finish \/ (f.run /\ f.cancel /\ ~f.complete)
  <2>1. /\ wpc' = [wpc EXCEPT ![h] = "leave"] /\ kid' = kid
        /\ packet' = [packet EXCEPT ![p].flags.finish = @ \/ (f.run /\ f.cancel /\ ~f.complete)]
    BY <1>4 DEF WorkerTake
  <2>2. packet' = [packet EXCEPT ![p].flags.finish = b] /\ b \in BOOLEAN
    BY <1>2, <2>1 DEF Flags
  <2> HIDE DEF b
  <2>3. /\ packet' \in [Task -> Packet] /\ packet'[p].flags.finish = b
        /\ \A q \in Task :
              /\ packet'[q].kids = packet[q].kids /\ packet'[q].thread = packet[q].thread
              /\ packet'[q].progress = packet[q].progress /\ packet'[q].flags.run = packet[q].flags.run
              /\ packet'[q].flags.complete = packet[q].flags.complete
              /\ packet'[q].flags.cancel = packet[q].flags.cancel
              /\ q # p => packet'[q] = packet[q]
    BY <1>2, <2>2, PacketFinishes DEF IInv
  <2>4. wpc' \in [Thread -> {"wait", "loop", "work", "leave"}] /\ wpc'[h] = "leave"
        /\ \A g \in Thread \ {h} : wpc'[g] = wpc[g]
    BY <1>3, <2>1
  <2>5. ThreadMoves(h)
    BY <1>1, <1>3, <2>1, <2>3, <2>4 DEF ThreadMoves
  <2>6. HeldBy(State, h)'
    BY <1>1, <1>2, <2>3, <2>4 DEF HeldBy, State
  <2> QED
    BY <1>1, <1>2, <2>5, <2>6, WorkStays, ThreadKeeps
<1>5. CASE ~(~f.run \/ f.finish \/ f.complete \/ f.cancel)
  <2>1. wpc' = [wpc EXCEPT ![h] = "loop"] /\ kid' = [kid EXCEPT ![h] = 1] /\ packet' = packet
    BY <1>5 DEF WorkerTake
  <2>2. /\ wpc' \in [Thread -> {"wait", "loop", "work", "leave"}] /\ wpc'[h] = "loop"
        /\ kid' \in [Thread -> 0..(T + 1)] /\ kid'[h] = 1
        /\ \A g \in Thread \ {h} : wpc'[g] = wpc[g] /\ kid'[g] = kid[g]
    <3>1. 1 \in 0..(T + 1)
      BY QueueAssumption
    <3> QED
      BY <1>3, <2>1, <3>1
  <2>3. ThreadMoves(h)
    BY <1>1, <1>3, <2>1, <2>2 DEF ThreadMoves
  <2>4. HeldBy(State, h)'
    BY <1>1, <1>2, <1>5, <2>1, <2>2 DEF HeldBy, State
  <2> QED
    BY <1>1, <1>2, <2>3, <2>4, WorkStays, ThreadKeeps
<1> QED
  BY <1>4, <1>5

\* main() of a packet ends.
LEMMA WorkerFinishKeeps ==
  ASSUME IInv, NEW h \in Thread, WorkerFinish(h)
  PROVE  IInv'
<1> DEFINE p == held[h]
<1>1. /\ wpc[h] = "loop"
      /\ packet' = [packet EXCEPT ![p].flags.finish = TRUE] /\ wpc' = [wpc EXCEPT ![h] = "leave"]
      /\ UNCHANGED <<refuses, leaf, pending, current, sampler, closed, tasks, held, kid, mainVars, added, calls, works, missed>>
  BY DEF WorkerFinish, queueVars, history
<1>2. p # None
  <2>1. HeldBy(State, h)
    BY DEF IInv, QueueInv, QueueOf, Holds
  <2> QED
    BY <1>1, <2>1 DEF HeldBy, State
<1>3. /\ p \in Task /\ packet[p].thread = h /\ packet[p].progress /\ packet[p].flags.run /\ p \in ToSet(tasks)
  BY <1>1, <1>2, Holding
<1>4. /\ leaf' \in [Task -> Flags] /\ held' \in [Thread -> Task \cup {None}] /\ kid' \in [Thread -> 0..(T + 1)]
      /\ wpc \in [Thread -> {"wait", "loop", "work", "leave"}]
  BY <1>1 DEF IInv, TypeOK
<1>5. /\ packet' \in [Task -> Packet]
      /\ \A q \in Task :
            /\ packet'[q].kids = packet[q].kids /\ packet'[q].thread = packet[q].thread
            /\ packet'[q].progress = packet[q].progress /\ packet'[q].flags.run = packet[q].flags.run
            /\ packet'[q].flags.complete = packet[q].flags.complete
            /\ packet'[q].flags.cancel = packet[q].flags.cancel
            /\ q # p => packet'[q] = packet[q]
  <2>1. TRUE \in BOOLEAN
    OBVIOUS
  <2> QED
    BY <1>1, <1>3, <2>1, PacketFinishes DEF IInv
<1>6. wpc' \in [Thread -> {"wait", "loop", "work", "leave"}] /\ wpc'[h] = "leave"
      /\ \A g \in Thread \ {h} : wpc'[g] = wpc[g]
  BY <1>1, <1>4
<1>7. ThreadMoves(h)
  BY <1>1, <1>4, <1>5, <1>6 DEF ThreadMoves
<1>8. HeldBy(State, h)'
  BY <1>1, <1>2, <1>3, <1>5, <1>6 DEF HeldBy, State
<1> QED
  BY <1>1, <1>3, <1>7, <1>8, WorkStays, ThreadKeeps

\* The thread leaves its packet.
LEMMA WorkerLeaveKeeps ==
  ASSUME IInv, NEW h \in Thread, WorkerLeave(h)
  PROVE  IInv'
<1>1. /\ wpc[h] = "leave"
      /\ held' = [held EXCEPT ![h] = None] /\ wpc' = [wpc EXCEPT ![h] = "wait"] /\ kid' = [kid EXCEPT ![h] = 0]
      /\ UNCHANGED <<refuses, leaf, packet, pending, current, sampler, closed, tasks, mainVars, added, calls, works, missed>>
  BY DEF WorkerLeave, queueVars, history
<1>2. held[h] \in Task
  <2>1. HeldBy(State, h)
    BY DEF IInv, QueueInv, QueueOf, Holds
  <2>2. held[h] # None
    BY <1>1, <2>1 DEF HeldBy, State
  <2> QED
    BY <2>2, Holding
<1>3. /\ leaf' \in [Task -> Flags] /\ packet' \in [Task -> Packet]
      /\ held \in [Thread -> Task \cup {None}] /\ kid \in [Thread -> 0..(T + 1)]
      /\ wpc \in [Thread -> {"wait", "loop", "work", "leave"}]
  BY <1>1 DEF IInv, TypeOK
<1>4. /\ wpc' \in [Thread -> {"wait", "loop", "work", "leave"}] /\ wpc'[h] = "wait"
      /\ kid' \in [Thread -> 0..(T + 1)]
      /\ held' \in [Thread -> Task \cup {None}] /\ held'[h] = None
      /\ \A g \in Thread \ {h} : held'[g] = held[g] /\ wpc'[g] = wpc[g] /\ kid'[g] = kid[g]
  <2>1. 0 \in 0..(T + 1)
    BY QueueAssumption
  <2> QED
    BY <1>1, <1>3, <2>1
<1>5. ThreadMoves(h)
  BY <1>1, <1>3, <1>4 DEF ThreadMoves
<1>6. HeldBy(State, h)'
  BY <1>4 DEF HeldBy, State
<1> QED
  BY <1>1, <1>2, <1>5, <1>6, WorkStays, ThreadKeeps

\* main() of the next task of the packet.
LEMMA WorkerKidKeeps ==
  ASSUME IInv, NEW h \in Thread, WorkerKid(h)
  PROVE  IInv'
<1> DEFINE p == held[h]
           t == packet[p].kids[kid[h]]
           early == ~leaf[t].run \/ leaf[t].finish \/ leaf[t].complete
<1>1. /\ wpc[h] = "loop" /\ kid[h] <= Len(packet[p].kids)
      /\ UNCHANGED <<refuses, packet, pending, current, sampler, closed, tasks, held, mainVars, added, calls, missed>>
  BY DEF WorkerKid, queueVars
<1>2. /\ HeldBy(State, h) /\ p # None /\ kid[h] >= 1 /\ packet[p].kids # <<>>
      /\ Holds(State) /\ Apart(State)
  <2>1. HeldBy(State, h) /\ Holds(State) /\ Apart(State)
    BY DEF IInv, QueueInv, QueueOf, Holds
  <2> QED
    BY <1>1, <2>1 DEF HeldBy, State
<1>3. /\ p \in Task /\ packet[p].kids \in Seq(Task) /\ Len(packet[p].kids) \in Nat
      /\ packet[p].thread = h /\ packet[p].progress /\ packet[p].flags.run
      /\ p \in ToSet(tasks) /\ ~packet[p].flags.finish /\ Len(packet[p].kids) <= T
  BY <1>1, <1>2, Holding
<1>4. /\ leaf \in [Task -> Flags] /\ packet \in [Task -> Packet] /\ works \in [Task -> Nat]
      /\ held \in [Thread -> Task \cup {None}] /\ kid \in [Thread -> 0..(T + 1)]
      /\ wpc \in [Thread -> {"wait", "loop", "work", "leave"}]
  BY DEF IInv, TypeOK
<1>5. kid[h] \in 1..Len(packet[p].kids) /\ kid[h] \in Nat
  BY <1>1, <1>2, <1>3, <1>4
<1>6. t \in Task /\ t \in ToSet(packet[p].kids)
  BY <1>3, <1>5 DEF ToSet
<1>7. CASE early \/ leaf[t].cancel
  <2> DEFINE b == leaf[t].finish \/ ~early
  <2>1. /\ leaf' = [leaf EXCEPT ![t].finish = @ \/ ~early]
        /\ kid' = [kid EXCEPT ![h] = @ + 1]
        /\ wpc' = wpc /\ works' = works
    BY <1>7 DEF WorkerKid
  <2>2. leaf' = [leaf EXCEPT ![t].finish = b] /\ b \in BOOLEAN
    BY <1>4, <1>6, <2>1 DEF Flags
  <2>3. (leaf[t].finish => b) /\ (b => leaf[t].finish \/ leaf[t].run)
    OBVIOUS
  <2> HIDE DEF b, t, early
  <2>4. /\ leaf' \in [Task -> Flags]
        /\ leaf'[t].run = leaf[t].run /\ leaf'[t].complete = leaf[t].complete
        /\ leaf'[t].cancel = leaf[t].cancel /\ leaf'[t].finish = b
        /\ \A u \in Task \ {t} : leaf'[u] = leaf[u]
    BY <1>4, <1>6, <2>2 DEF Flags
  <2>5. /\ kid' \in [Thread -> 0..(T + 1)] /\ kid'[h] = kid[h] + 1
        /\ \A g \in Thread \ {h} : kid'[g] = kid[g]
    <3>1. kid[h] + 1 \in 0..(T + 1)
      BY <1>3, <1>5, QueueAssumption
    <3> QED
      BY <1>4, <2>1, <3>1
  <2>6. ThreadMoves(h)
    <3>1. ASSUME NEW u \in Task
          PROVE  /\ leaf'[u].run = leaf[u].run /\ leaf'[u].complete = leaf[u].complete
                 /\ leaf'[u].cancel = leaf[u].cancel /\ (leaf[u].finish => leaf'[u].finish)
      <4>1. CASE u = t
        BY <2>3, <2>4, <4>1
      <4>2. CASE u # t
        BY <2>4, <4>2
      <4> QED
        BY <4>1, <4>2
    <3> QED
      BY <1>1, <1>4, <2>1, <2>4, <2>5, <3>1 DEF ThreadMoves
  <2>7. \A u \in Task : leaf'[u].finish => leaf[u].finish \/ leaf[u].run
    <3> SUFFICES ASSUME NEW u \in Task, leaf'[u].finish PROVE leaf[u].finish \/ leaf[u].run
      OBVIOUS
    <3>1. CASE u = t
      BY <2>3, <2>4, <3>1
    <3>2. CASE u # t
      BY <2>4, <3>2
    <3> QED
      BY <3>1, <3>2
  <2>8. HeldBy(State, h)'
    BY <1>1, <1>2, <1>3, <1>5, <2>1, <2>5 DEF HeldBy, State
  <2> QED
    BY <1>1, <1>3, <2>1, <2>6, <2>7, <2>8, WorkStays, ThreadKeeps
<1>8. CASE ~(early \/ leaf[t].cancel)
  <2>1. /\ wpc' = [wpc EXCEPT ![h] = "work"]
        /\ works' = [works EXCEPT ![t] = @ + 1]
        /\ leaf' = leaf /\ kid' = kid
    BY <1>8 DEF WorkerKid
  <2>2. ~leaf[t].finish
    BY <1>8
  <2> DEFINE x == t
  <2>3. packet[p].kids[kid[h]] = x /\ x \in Task /\ x \in ToSet(packet[p].kids) /\ ~leaf[x].finish
    BY <1>6, <2>2
  <2>4. works' = [works EXCEPT ![x] = @ + 1]
    BY <2>1
  <2> HIDE DEF x, t, early
  <2>5. /\ wpc' \in [Thread -> {"wait", "loop", "work", "leave"}] /\ wpc'[h] = "work"
        /\ \A g \in Thread \ {h} : wpc'[g] = wpc[g]
    BY <1>4, <2>1
  <2>6. ASSUME NEW g \in Thread, wpc[g] = "work", packet[held[g]].kids[kid[g]] = x PROVE FALSE
    <3>1. HeldBy(State, g) /\ held[g] # None
      BY <1>2, <2>6 DEF Holds, HeldBy, State
    <3>2. /\ packet[held[g]].thread = g /\ held[g] \in ToSet(tasks) /\ held[g] \in Task
          /\ packet[held[g]].kids \in Seq(Task) /\ Len(packet[held[g]].kids) \in Nat
      BY <2>6, <3>1, Holding
    <3>3. kid[g] >= 1 /\ kid[g] <= Len(packet[held[g]].kids) /\ kid[g] \in Nat
      BY <1>4, <2>6, <3>1 DEF HeldBy, State
    <3>4. x \in ToSet(packet[held[g]].kids)
      <4>1. kid[g] \in DOMAIN packet[held[g]].kids
        BY <3>2, <3>3
      <4> QED
        BY <2>6, <4>1 DEF ToSet
    <3>5. held[g] = p
      BY <1>2, <1>3, <2>3, <3>2, <3>4 DEF Apart, State
    <3> QED
      BY <1>1, <1>3, <2>6, <3>2, <3>5
  <2>7. works[x] = 0
    <3>1. works[x] \in Nat /\ works[x] <= 1
      BY <1>4, <2>3 DEF IInv, CallInv
    <3>2. works[x] # 1
      BY <2>3, <2>6 DEF IInv, CallInv
    <3> QED
      BY <3>1, <3>2
  <2>8. works' \in [Task -> Nat] /\ works'[x] = 1 /\ \A u \in Task \ {x} : works'[u] = works[u]
    BY <1>4, <2>3, <2>4, <2>7
  <2>9. ASSUME NEW u \in Task
        PROVE  /\ works'[u] <= 1
               /\ works'[u] = 1 /\ ~leaf'[u].finish =>
                    \E g \in Thread : wpc'[g] = "work" /\ packet'[held'[g]].kids[kid'[g]] = u
    <3>1. packet' = packet /\ held' = held /\ kid' = kid /\ leaf' = leaf
      BY <1>1, <2>1
    <3>2. CASE u = x
      <4>1. wpc'[h] = "work" /\ packet'[held'[h]].kids[kid'[h]] = u
        BY <2>3, <2>5, <3>1, <3>2
      <4>2. works'[u] = 1
        BY <2>8, <3>2
      <4> QED
        BY <4>1, <4>2
    <3>3. CASE u # x
      <4>1. works'[u] = works[u]
        BY <2>8, <3>3
      <4>2. /\ works[u] <= 1
            /\ works[u] = 1 /\ ~leaf[u].finish =>
                 \E g \in Thread : wpc[g] = "work" /\ packet[held[g]].kids[kid[g]] = u
        BY DEF IInv, CallInv
      <4>3. \A g \in Thread : wpc[g] = "work" => wpc'[g] = "work"
        BY <2>5
      <4> QED
        BY <3>1, <4>1, <4>2, <4>3
    <3> QED
      BY <3>2, <3>3
  <2>10. ThreadMoves(h)
    BY <1>1, <1>4, <2>1, <2>5 DEF ThreadMoves
  <2>11. HeldBy(State, h)'
    BY <1>1, <1>2, <1>3, <1>5, <2>1, <2>5 DEF HeldBy, State
  <2>12. \A u \in Task : leaf'[u].finish => leaf[u].finish
    BY <2>1
  <2> QED
    BY <1>3, <2>8, <2>9, <2>10, <2>11, <2>12, ThreadKeeps
<1> QED
  BY <1>7, <1>8

\* The work of a task ends.
LEMMA WorkerWorkedKeeps ==
  ASSUME IInv, NEW h \in Thread, WorkerWorked(h)
  PROVE  IInv'
<1> DEFINE p == held[h]
           t == packet[p].kids[kid[h]]
<1>1. /\ wpc[h] = "work"
      /\ leaf' = [leaf EXCEPT ![t].finish = TRUE]
      /\ wpc' = [wpc EXCEPT ![h] = "loop"]
      /\ kid' = [kid EXCEPT ![h] = @ + 1]
      /\ UNCHANGED <<refuses, packet, pending, current, sampler, closed, tasks, held, mainVars, added, calls, works, missed>>
  BY DEF WorkerWorked, queueVars, history
<1>2. /\ HeldBy(State, h) /\ p # None /\ kid[h] >= 1 /\ kid[h] <= Len(packet[p].kids) /\ packet[p].kids # <<>>
  <2>1. HeldBy(State, h)
    BY DEF IInv, QueueInv, QueueOf, Holds
  <2> QED
    BY <1>1, <2>1 DEF HeldBy, State
<1>3. /\ p \in Task /\ packet[p].kids \in Seq(Task) /\ Len(packet[p].kids) \in Nat
      /\ packet[p].thread = h /\ packet[p].progress /\ packet[p].flags.run
      /\ p \in ToSet(tasks) /\ ~packet[p].flags.finish /\ Len(packet[p].kids) <= T
  BY <1>1, <1>2, Holding
<1>4. /\ leaf \in [Task -> Flags] /\ packet \in [Task -> Packet] /\ works \in [Task -> Nat]
      /\ held \in [Thread -> Task \cup {None}] /\ kid \in [Thread -> 0..(T + 1)]
      /\ wpc \in [Thread -> {"wait", "loop", "work", "leave"}]
  BY DEF IInv, TypeOK
<1>5. kid[h] \in 1..Len(packet[p].kids) /\ kid[h] \in Nat
  BY <1>2, <1>3, <1>4
<1>6. t \in Task /\ t \in ToSet(packet[p].kids)
  BY <1>3, <1>5 DEF ToSet
<1> DEFINE x == t
<1>7. packet[p].kids[kid[h]] = x /\ x \in Task /\ x \in ToSet(packet[p].kids) /\ leaf' = [leaf EXCEPT ![x].finish = TRUE]
  BY <1>1, <1>6
<1> HIDE DEF x, t
<1>8. /\ leaf' \in [Task -> Flags]
      /\ leaf'[x].run = leaf[x].run /\ leaf'[x].complete = leaf[x].complete
      /\ leaf'[x].cancel = leaf[x].cancel /\ leaf'[x].finish
      /\ \A u \in Task \ {x} : leaf'[u] = leaf[u]
  BY <1>4, <1>7 DEF Flags
<1>9. /\ kid' \in [Thread -> 0..(T + 1)] /\ kid'[h] = kid[h] + 1
      /\ wpc' \in [Thread -> {"wait", "loop", "work", "leave"}] /\ wpc'[h] = "loop"
      /\ \A g \in Thread \ {h} : kid'[g] = kid[g] /\ wpc'[g] = wpc[g]
  <2>1. kid[h] + 1 \in 0..(T + 1)
    BY <1>3, <1>5, QueueAssumption
  <2> QED
    BY <1>1, <1>4, <2>1
<1>10. ASSUME NEW u \in Task
       PROVE  /\ leaf'[u].run = leaf[u].run /\ leaf'[u].complete = leaf[u].complete
              /\ leaf'[u].cancel = leaf[u].cancel /\ (leaf[u].finish => leaf'[u].finish)
              /\ leaf'[u].finish => leaf[u].finish \/ u \in ToSet(packet[p].kids)
  <2>1. CASE u = x
    BY <1>7, <1>8, <2>1
  <2>2. CASE u # x
    BY <1>8, <2>2
  <2> QED
    BY <2>1, <2>2
<1>11. ThreadMoves(h)
  BY <1>1, <1>4, <1>8, <1>9, <1>10 DEF ThreadMoves
<1>12. HeldBy(State, h)'
  BY <1>1, <1>2, <1>3, <1>5, <1>9 DEF HeldBy, State
<1>13. ASSUME NEW u \in Task
       PROVE  /\ works'[u] <= 1
              /\ works'[u] = 1 /\ ~leaf'[u].finish =>
                   \E g \in Thread : wpc'[g] = "work" /\ packet'[held'[g]].kids[kid'[g]] = u
  <2>1. works'[u] = works[u] /\ works[u] <= 1
    BY <1>1 DEF IInv, CallInv
  <2>2. ASSUME works[u] = 1, ~leaf'[u].finish
        PROVE  \E g \in Thread : wpc'[g] = "work" /\ packet'[held'[g]].kids[kid'[g]] = u
    <3>1. u # x /\ ~leaf[u].finish
      BY <1>8, <1>10, <2>2
    <3>2. PICK g \in Thread : wpc[g] = "work" /\ packet[held[g]].kids[kid[g]] = u
      BY <2>2, <3>1 DEF IInv, CallInv
    <3>3. g # h
      BY <1>7, <3>1, <3>2
    <3>4. wpc'[g] = "work" /\ packet'[held'[g]].kids[kid'[g]] = u
      BY <1>1, <1>9, <3>2, <3>3
    <3> QED
      BY <3>4
  <2> QED
    BY <2>1, <2>2
<1>14. works' \in [Task -> Nat]
  BY <1>1, <1>4
<1> QED
  BY <1>3, <1>10, <1>11, <1>12, <1>13, <1>14, ThreadKeeps

------------------------------------------------------------------------------
(* The specification *)

\* Nothing has been added at first.
LEMMA InitKeeps ==
  ASSUME Init
  PROVE  IInv
<1>1. T \in Nat /\ K \in Nat \ {0} /\ None \notin Task /\ 0 \in 0..(K - 1) /\ 1 \in Thread
  BY QueueAssumption DEF Task, None, Thread
<1>2. NoFlags \in Flags /\ Unrun(NoFlags) /\ ~Ended(NoFlags)
  BY DEF NoFlags, Flags, Unrun, Ended
<1>3. <<>> \in Seq(Task) /\ Len(<<>>) = 0 /\ ToSet(<<>>) = {} /\ IsInjective(<<>>)
  <2>1. <<>> \in Seq(Task) /\ Len(<<>>) = 0
    OBVIOUS
  <2> QED
    BY <2>1 DEF ToSet, IsInjective
<1>4. NoPacket \in Packet
  BY <1>1, <1>2, <1>3 DEF NoPacket, Packet
<1>5. \A r \in {r \in SUBSET Task : Cardinality(r) <= Refusals} : r \subseteq Task
  OBVIOUS
<1>6. /\ leaf = [t \in Task |-> NoFlags] /\ packet = [p \in Task |-> NoPacket]
      /\ pending = <<>> /\ current = [i \in Thread |-> None] /\ sampler = 0 /\ closed = FALSE /\ tasks = <<>>
      /\ held = [h \in Thread |-> None] /\ wpc = [h \in Thread |-> "wait"] /\ kid = [h \in Thread |-> 0]
      /\ pc = "idle" /\ idx = 0 /\ lim = 0 /\ sub = 0 /\ arg = None /\ added = 0
      /\ calls = [t \in Task |-> 0] /\ works = [t \in Task |-> 0] /\ missed = {} /\ refuses \subseteq Task
  BY <1>5 DEF Init
<1>7. TypeOK
  <2>1. leaf \in [Task -> Flags] /\ packet \in [Task -> Packet]
    BY <1>2, <1>4, <1>6
  <2>2. current \in [Thread -> Task \cup {None}] /\ held \in [Thread -> Task \cup {None}]
    BY <1>6
  <2>3. wpc \in [Thread -> {"wait", "loop", "work", "leave"}] /\ kid \in [Thread -> 0..(T + 1)]
    BY <1>1, <1>6
  <2>4. calls \in [Task -> Nat] /\ works \in [Task -> Nat]
    BY <1>6
  <2>5. pending \in Seq(Task) /\ tasks \in Seq(Task)
    BY <1>3, <1>6
  <2>6. sampler \in 0..(K - 1) /\ added \in 0..T
    BY <1>1, <1>6
  <2> QED
    BY <1>6, <2>1, <2>2, <2>3, <2>4, <2>5, <2>6 DEF TypeOK
<1>8. QueueInv
  <2>1. \A t \in Task : Untouched(State, t)
    BY <1>1, <1>2, <1>3, <1>6 DEF Untouched, State
  <2>2. Waits(State, added)
    BY <1>3, <1>6, <2>1 DEF Waits, State
  <2>3. Carries(State) /\ Apart(State)
    BY <1>3, <1>6 DEF Carries, Apart, State
  <2>4. Holds(State)
    BY <1>6 DEF Holds, HeldBy, State
  <2>5. Found(State, added)
    BY <1>6 DEF Found
  <2> QED
    BY <2>2, <2>3, <2>4, <2>5 DEF QueueInv, QueueOf
<1>9. CancelInv
  BY <1>3, <1>6 DEF CancelInv
<1>10. CallInv
  BY <1>2, <1>6 DEF CallInv, NoFlags
<1>11. PlaceInv
  BY <1>6 DEF PlaceInv
<1> QED
  BY <1>7, <1>8, <1>9, <1>10, <1>11 DEF IInv

\* Every step keeps the invariant.
LEMMA StepKeeps ==
  ASSUME IInv, [Next]_vars
  PROVE  IInv'
<1>1. CASE Client
  BY <1>1, AddTaskKeeps, CancelTaskKeeps, CloseQueueKeeps DEF Client
<1>2. CASE Main
  <2>1. CASE JoinFinished \/ JoinComplete \/ CloseCancel \/ CloseRemove \/ CloseEnd
    BY <2>1, JoinFinishedKeeps, JoinCompleteKeeps, CloseCancelKeeps, CloseRemoveKeeps, CloseEndKeeps
  <2>2. CASE BeginUpdate \/ UpdatePacket \/ UpdateKid \/ CallbackReturn
    BY <2>2, BeginUpdateKeeps, UpdatePacketKeeps, UpdateKidKeeps, CallbackReturnKeeps
  <2>3. CASE UpdateFinish \/ UpdateReturn \/ UpdateQueue
    BY <2>3, UpdateFinishKeeps, UpdateReturnKeeps, UpdateQueueKeeps
  <2> QED
    BY <1>2, <2>1, <2>2, <2>3 DEF Main
<1>3. CASE \E h \in Thread : Worker(h)
  BY <1>3, WorkerTakeKeeps, WorkerKidKeeps, WorkerWorkedKeeps, WorkerFinishKeeps, WorkerLeaveKeeps DEF Worker
<1>4. CASE UNCHANGED vars
  <2>1. /\ UNCHANGED <<refuses, leaf, packet, pending, current, sampler, closed, tasks, held, wpc, kid,
                       added, calls, works, missed>>
        /\ pc' = pc /\ idx' = idx /\ lim' = lim /\ sub' = sub /\ arg' = arg
    BY <1>4 DEF vars, queueVars, workerVars, mainVars, history
  <2>2. QueueInv' /\ CallInv'
    BY <2>1, SameQueue DEF IInv
  <2>3. TypeOK'
    BY <2>1 DEF IInv, TypeOK
  <2>4. CancelInv'
    BY <2>1 DEF IInv, CancelInv
  <2>5. PlaceInv'
    BY <2>1 DEF IInv, PlaceInv, Ended
  <2> QED
    BY <2>2, <2>3, <2>4, <2>5 DEF IInv
<1> QED
  BY <1>1, <1>2, <1>3, <1>4 DEF Next

\* In every run the queue, its packets, the threads and the loops of the main thread
\* are where they should be.
THEOREM Inductive == Spec => []IInv
<1>1. Init => IInv
  BY InitKeeps
<1>2. IInv /\ [Next]_vars => IInv'
  BY StepKeeps
<1> QED
  BY <1>1, <1>2, PTL DEF Spec

\* Every variable keeps its type.
THEOREM TypeCorrect == Spec => []TypeOK
<1>1. IInv => TypeOK
  BY DEF IInv
<1> QED
  BY <1>1, Inductive, PTL

\* The list of tasks a thread goes through is not cleared under it.
THEOREM KidsStable == Spec => []KidsAreStable
<1>1. IInv => KidsAreStable
  <2> SUFFICES ASSUME IInv, NEW h \in Thread, wpc[h] \in {"loop", "work"}
               PROVE  /\ packet[held[h]].kids # <<>>
                      /\ ~packet[held[h]].flags.finish /\ ~packet[held[h]].flags.complete
                      /\ kid[h] <= Len(packet[held[h]].kids) + 1
    BY DEF KidsAreStable
  <2>1. HeldBy(State, h) /\ Carries(State)
    BY DEF IInv, QueueInv, QueueOf, Holds
  <2>2. held[h] # None /\ wpc[h] # "leave"
    BY <2>1 DEF HeldBy, State
  <2>3. held[h] \in ToSet(tasks) /\ ~packet[held[h]].flags.finish
    BY <2>2, Holding
  <2> QED
    BY <2>1, <2>3 DEF HeldBy, State, Carries, Carried
<1> QED
  BY <1>1, Inductive, PTL

\* Every packet of the service has one slot of the queue, also while the queue closes.
THEOREM SlotsHold == Spec => []PacketsHaveSlots
<1>1. IInv => PacketsHaveSlots
  <2> SUFFICES ASSUME IInv, NEW p \in ToSet(tasks)
               PROVE  \E i \in Thread : current[i] = p /\ \A k \in Thread \ {i} : current[k] # p
    BY DEF PacketsHaveSlots
  <2>1. /\ Carries(State) /\ Apart(State) /\ State \in QState
    BY StateTyped DEF IInv, QueueInv, QueueOf
  <2>2. p \in Task
    BY <2>1, Members DEF State
  <2>3. p # None
    BY <2>2 DEF Task, None
  <2>4. PICK i \in Thread : current[i] = p
    BY <2>1 DEF Carries, Carried, State
  <2>5. \A k \in Thread \ {i} : current[k] # p
    BY <2>1, <2>3, <2>4 DEF Apart, State
  <2> QED
    BY <2>4, <2>5
<1> QED
  BY <1>1, Inductive, PTL

\* No task is done or told twice, and none is lost: it waits in one place of the queue
\* or is carried by one packet until it ends, is refused or is dropped.
THEOREM NotLost == Spec => []NoTaskIsLost
<1>1. IInv => NoTaskIsLost
  <2> SUFFICES ASSUME IInv, NEW t \in 1..added
               PROVE  /\ works[t] <= 1 /\ calls[t] <= 1
                      /\ calls[t] = 0 /\ ~leaf[t].cancel =>
                           \/ t \in refuses \/ t \in missed
                           \/ \E i \in Places(t) : Places(t) = {i} /\ Carriers(t) = {}
                           \/ \E i \in Carriers(t) : Carriers(t) = {i} /\ Places(t) = {}
    BY DEF NoTaskIsLost
  <2>1. t \in Task
    BY QueueAssumption DEF IInv, TypeOK, Task
  <2>2. /\ Waits(State, added) /\ Carries(State) /\ Apart(State) /\ Found(State, added)
        /\ pending \in Seq(Task) /\ tasks \in Seq(Task)
    BY DEF IInv, QueueInv, QueueOf, TypeOK
  <2>3. /\ DOMAIN pending = 1..Len(pending) /\ DOMAIN tasks = 1..Len(tasks)
        /\ Len(pending) \in Nat /\ Len(tasks) \in Nat
    BY <2>2
  <2>4. works[t] <= 1 /\ calls[t] <= 1 /\ (leaf[t].complete => calls[t] = 1)
    BY <2>1 DEF IInv, CallInv
  <2>5. t \in ToSet(pending) => Carriers(t) = {}
    <3> SUFFICES ASSUME t \in ToSet(pending), NEW i \in 1..Len(tasks), t \in ToSet(packet[tasks[i]].kids)
                 PROVE  FALSE
      BY DEF Carriers
    <3>1. tasks[i] \in ToSet(tasks)
      BY <2>3 DEF ToSet
    <3>2. Untouched(State, t)
      BY <2>1, <2>2 DEF Waits, State
    <3> QED
      BY <3>1, <3>2 DEF Untouched, State
  <2>6. CASE t \in ToSet(pending)
    <3>1. PICK i \in 1..Len(pending) : pending[i] = t
      BY <2>3, <2>6 DEF ToSet
    <3>2. \A k \in 1..Len(pending) : pending[k] = t => k = i
      BY <2>2, <2>3, <3>1 DEF Waits, State, IsInjective
    <3>3. Places(t) = {i} /\ i \in Places(t)
      BY <3>1, <3>2 DEF Places
    <3> QED
      BY <2>4, <2>5, <2>6, <3>3
  <2>7. CASE t \notin ToSet(pending) /\ \E p \in ToSet(tasks) : t \in ToSet(packet[p].kids)
    <3>1. PICK p \in ToSet(tasks) : t \in ToSet(packet[p].kids)
      BY <2>7
    <3>2. PICK i \in 1..Len(tasks) : tasks[i] = p
      BY <2>3 DEF ToSet
    <3>3. ASSUME NEW k \in 1..Len(tasks), t \in ToSet(packet[tasks[k]].kids) PROVE k = i
      <4>1. tasks[k] \in ToSet(tasks)
        BY <2>3 DEF ToSet
      <4>2. tasks[k] = tasks[i]
        BY <2>2, <3>1, <3>2, <3>3, <4>1 DEF Apart, State
      <4> QED
        BY <2>2, <2>3, <4>2 DEF Carries, State, IsInjective
    <3>4. Carriers(t) = {i} /\ i \in Carriers(t)
      BY <3>1, <3>2, <3>3 DEF Carriers
    <3>5. Places(t) = {}
      BY <2>3, <2>7 DEF Places, ToSet
    <3> QED
      BY <2>4, <3>4, <3>5
  <2>8. CASE t \notin ToSet(pending) /\ ~\E p \in ToSet(tasks) : t \in ToSet(packet[p].kids)
    <3>1. Ended(leaf[t]) \/ t \in refuses \/ t \in missed
      BY <2>2, <2>8 DEF Found, State
    <3> QED
      BY <2>4, <3>1 DEF Ended
  <2> QED
    BY <2>6, <2>7, <2>8
<1> QED
  BY <1>1, Inductive, PTL

==============================================================================
