--------------------------- MODULE Services_proofs ---------------------------
(***************************************************************************)
(* Proofs about three services that keep lists of what clients gave them   *)
(* and call the clients back: HttpService for any requests, then           *)
(* NotificationService for any ids and observers, then SoundService for    *)
(* any sounds and slots.                                                   *)
(***************************************************************************)
EXTENDS HttpService, NotificationService, SoundService, TLAPS, SequenceTheorems,
        FiniteSetTheorems, WellFoundedInduction

(* HttpService *)

\* What the stop may still join: only while it joins is there memory behind the
\* receivers, its loop stays inside what it read at first, and none of those it
\* meets was told that it succeeded.
StopInv ==
  /\ pc \notin {"joins", "crashed"} => past = <<>>
  /\ pc = "joins" =>
       /\ at >= 1 /\ end = Len(receivers) + Len(past)
       /\ \A r \in ToSet(receivers) \cup ToSet(past) : told[r] # "ok"

\* A request that was never made is not known, one that refused to run is a download.
MadeInv ==
  /\ \A r \in Request : status[r] = "refused" => kind[r] = "download"
  /\ pc = "run" => \A r \in Request : status[r] = "none" => told[r] = "none" /\ r \notin cancelled

\* The packet tells the end of a task that is listed, so that none completes untold.
CompleteInv ==
  pc = "run" => \A r \in Request : status[r] = "complete" => told[r] # "none"

IInv == StopInv /\ MadeInv /\ CompleteInv /\ ListedAreOwed /\ CancelledIsSettled

------------------------------------------------------------------------------
(* Moving the last one into the gap *)

\* The list without the entry n, into whose place the last one was moved.
Moved(q, n) == Front([q EXCEPT ![n] = Last(q)])

\* Moving the last entry into the gap gives a list that is one shorter.
LEMMA MovedEntries ==
  ASSUME NEW S, NEW q \in Seq(S), NEW n \in 1..Len(q)
  PROVE  /\ Moved(q, n) \in Seq(S)
         /\ Len(Moved(q, n)) = Len(q) - 1
         /\ \A i \in 1..Len(q) - 1 : Moved(q, n)[i] = IF i = n THEN q[Len(q)] ELSE q[i]
<1> DEFINE p == [q EXCEPT ![n] = q[Len(q)]]
<1>1. Len(q) \in Nat /\ Len(q) >= 1 /\ q[Len(q)] \in S
  OBVIOUS
<1>2. p \in Seq(S) /\ Len(p) = Len(q)
  BY <1>1
<1>3. \A i \in 1..Len(q) : p[i] = IF i = n THEN q[Len(q)] ELSE q[i]
  BY <1>1
<1> HIDE DEF p
<1>4. /\ SubSeq(p, 1, Len(q) - 1) \in Seq(S)
      /\ Len(SubSeq(p, 1, Len(q) - 1)) = Len(q) - 1
      /\ \A i \in 1..Len(q) - 1 : SubSeq(p, 1, Len(q) - 1)[i] = p[i]
  BY <1>1, <1>2
<1>5. Moved(q, n) = SubSeq(p, 1, Len(q) - 1)
  BY <1>2 DEF Moved, Front, Last, p
<1> QED
  BY <1>1, <1>3, <1>4, <1>5

\* If it listed nothing twice, it lists the others still, each once, and no more the one taken away.
LEMMA MovedLists ==
  ASSUME NEW S, NEW q \in Seq(S), NEW n \in 1..Len(q), IsInjective(q)
  PROVE  IsInjective(Moved(q, n)) /\ ToSet(Moved(q, n)) = ToSet(q) \ {q[n]}
<1> DEFINE m == Moved(q, n)
<1>1. /\ m \in Seq(S) /\ Len(m) = Len(q) - 1
      /\ \A i \in 1..Len(q) - 1 : m[i] = IF i = n THEN q[Len(q)] ELSE q[i]
  BY MovedEntries
<1> HIDE DEF m
<1>2. DOMAIN m = 1..Len(q) - 1 /\ DOMAIN q = 1..Len(q) /\ Len(q) \in Nat
  BY <1>1
<1>3. \A a, b \in 1..Len(q) : q[a] = q[b] => a = b
  BY <1>2 DEF IsInjective
<1>4. IsInjective(m)
  BY <1>1, <1>2, <1>3 DEF IsInjective
<1>5. ASSUME NEW x \in ToSet(m) PROVE x \in ToSet(q) \ {q[n]}
  <2>1. PICK i \in 1..Len(q) - 1 : x = m[i]
    BY <1>2, <1>5 DEF ToSet
  <2>2. PICK k \in 1..Len(q) : k # n /\ x = q[k]
    BY <2>1, <1>1, <1>2
  <2>3. x # q[n]
    BY <2>2, <1>3
  <2> QED
    BY <2>2, <2>3, <1>2 DEF ToSet
<1>6. ASSUME NEW x \in ToSet(q) \ {q[n]} PROVE x \in ToSet(m)
  <2>1. PICK i \in 1..Len(q) : x = q[i] /\ i # n
    BY <1>2, <1>6 DEF ToSet
  <2>2. CASE i = Len(q)
    BY <2>1, <2>2, <1>1, <1>2 DEF ToSet
  <2>3. CASE i # Len(q)
    BY <2>1, <2>3, <1>1, <1>2 DEF ToSet
  <2> QED
    BY <2>2, <2>3
<1> QED
  BY <1>4, <1>5, <1>6 DEF m

------------------------------------------------------------------------------
(* The ends of a request *)

\* What Unlist() does to the receivers and to the memory behind them.
LEMMA UnlistStep ==
  ASSUME TypeOK, NEW r \in ToSet(receivers), Unlist(r)
  PROVE  /\ receivers' \in Seq(Request) /\ past' \in Seq(Request)
         /\ Len(receivers') = Len(receivers) - 1
         /\ ToSet(receivers') \subseteq ToSet(receivers)
         /\ pc = "run" => past' = past
         /\ pc # "run" => /\ Len(past') = Len(past) + 1
                          /\ ToSet(past') \subseteq ToSet(past) \cup ToSet(receivers)
         /\ IsInjective(receivers) =>
              IsInjective(receivers') /\ ToSet(receivers') = ToSet(receivers) \ {r}
<1> DEFINE n == CHOOSE k \in DOMAIN receivers : receivers[k] = r
<1>1. receivers \in Seq(Request) /\ past \in Seq(Request)
  BY DEF TypeOK
<1>2. n \in 1..Len(receivers) /\ receivers[n] = r
  BY <1>1 DEF ToSet
<1>3. /\ receivers' = Moved(receivers, n)
      /\ past' = IF pc = "run" THEN past ELSE <<Last(receivers)>> \o past
  BY DEF Unlist, Moved
<1> HIDE DEF n
<1>4. /\ receivers' \in Seq(Request) /\ Len(receivers') = Len(receivers) - 1
      /\ \A i \in 1..Len(receivers) - 1 :
           receivers'[i] = IF i = n THEN receivers[Len(receivers)] ELSE receivers[i]
  BY <1>1, <1>2, <1>3, MovedEntries
<1>5. Last(receivers) \in Request /\ Last(receivers) \in ToSet(receivers)
  BY <1>1, <1>2 DEF Last, ToSet
<1>6. ASSUME NEW x \in ToSet(receivers') PROVE x \in ToSet(receivers)
  <2>1. DOMAIN receivers' = 1..Len(receivers) - 1 /\ Len(receivers) \in Nat
    BY <1>1, <1>4
  <2>2. PICK i \in 1..Len(receivers) - 1 : x = receivers'[i]
    BY <2>1, <1>6 DEF ToSet
  <2>3. PICK k \in DOMAIN receivers : x = receivers[k]
    BY <1>1, <1>4, <2>1, <2>2
  <2> QED
    BY <2>3 DEF ToSet
<1>7. ASSUME pc # "run"
      PROVE  /\ past' \in Seq(Request) /\ Len(past') = Len(past) + 1
             /\ ToSet(past') \subseteq ToSet(past) \cup ToSet(receivers)
  <2> DEFINE l == Last(receivers)
  <2> HIDE DEF l
  <2>1. past' = <<l>> \o past /\ l \in Request /\ l \in ToSet(receivers)
    BY <1>3, <1>5, <1>7 DEF l
  <2>2. /\ past' \in Seq(Request) /\ Len(past') = Len(past) + 1
        /\ \A i \in 1..Len(past) + 1 : past'[i] = IF i = 1 THEN l ELSE past[i - 1]
    BY <1>1, <2>1
  <2>3. ASSUME NEW x \in ToSet(past') PROVE x \in ToSet(past) \cup ToSet(receivers)
    <3>1. PICK i \in 1..Len(past) + 1 : x = past'[i]
      BY <2>2, <2>3 DEF ToSet
    <3>2. CASE i = 1
      BY <3>1, <3>2, <2>1, <2>2
    <3>3. CASE i # 1
      <4>1. i - 1 \in 1..Len(past) /\ x = past[i - 1]
        BY <1>1, <3>1, <3>3, <2>2
      <4> QED
        BY <1>1, <4>1 DEF ToSet
    <3> QED
      BY <3>2, <3>3
  <2> QED
    BY <2>2, <2>3
<1>8. IsInjective(receivers) =>
        IsInjective(receivers') /\ ToSet(receivers') = ToSet(receivers) \ {r}
  BY <1>1, <1>2, <1>3, MovedLists
<1> QED
  BY <1>1, <1>3, <1>4, <1>6, <1>7, <1>8

\* What cancel() does: it settles nothing, the program crashes, or the receiver is told.
LEMMA CancelCases ==
  ASSUME NEW r \in Request, Cancel(r)
  PROVE  /\ cancelled' = cancelled \cup {r}
         /\ \/ /\ UNCHANGED <<receivers, past, told, pc>>
               /\ r \in cancelled \/ status[r] \in {"running", "complete"} \/ r \notin ToSet(receivers)
            \/ pc' = "crashed" /\ UNCHANGED <<receivers, past, told>>
            \/ /\ r \in ToSet(receivers) /\ Unlist(r)
               /\ told' = [told EXCEPT ![r] = "failed"] /\ UNCHANGED pc
BY DEF Cancel, Tell

------------------------------------------------------------------------------
(* The inductive invariant *)

\* Every step keeps the types.
LEMMA TypeStep == TypeOK /\ IInv /\ [Next]_vars => TypeOK'
<1> SUFFICES ASSUME TypeOK, IInv, [Next]_vars PROVE TypeOK'
  OBVIOUS
<1> USE DEF stop, Statuses
<1>1. ASSUME NEW r \in Request, NEW a \in {"ok", "failed"}, Tell(r, a)
      PROVE  /\ receivers' \in Seq(Request) /\ past' \in Seq(Request)
             /\ told' \in [Request -> {"none", "ok", "failed"}]
  <2>1. CASE r \in ToSet(receivers)
    BY <1>1, <2>1, UnlistStep DEF Tell, TypeOK
  <2>2. CASE r \notin ToSet(receivers)
    BY <1>1, <2>2 DEF Tell, TypeOK
  <2> QED
    BY <2>1, <2>2
<1>2. ASSUME NEW r \in Request, Cancel(r)
      PROVE  /\ receivers' \in Seq(Request) /\ past' \in Seq(Request) /\ cancelled' \subseteq Request
             /\ told' \in [Request -> {"none", "ok", "failed"}] /\ pc' \in {pc, "crashed"}
  BY <1>1, <1>2 DEF Cancel, TypeOK
<1>3. ASSUME NEW r \in Request, NewRequest(r) PROVE TypeOK'
  <2>1. packet' \in [Request -> Packets]
    BY <1>3 DEF NewRequest, UpdateSlots, Packets, TypeOK
  <2>2. receivers' \in Seq(Request) /\ status' \in [Request -> Statuses]
    BY <1>3 DEF NewRequest, TypeOK
  <2> QED
    BY <1>3, <2>1, <2>2 DEF NewRequest, TypeOK
<1>4. ASSUME NEW r \in Request, CancelRequest(r) PROVE TypeOK'
  BY <1>2, <1>4 DEF CancelRequest, TypeOK
<1>5. ASSUME NEW r \in Request, Start(r) PROVE TypeOK'
  BY <1>5 DEF Start, TypeOK
<1>6. ASSUME NEW r \in Request, Finish(r) PROVE TypeOK'
  BY <1>6 DEF Finish, TypeOK
<1>7. ASSUME NEW r \in Request, Answer(r) PROVE TypeOK'
  BY <1>1, <1>7 DEF Answer, TypeOK
<1>8. CASE Stop
  BY <1>8 DEF Stop, TypeOK
<1>9. CASE StopJoin
  <2>1. at \in 1..Len(receivers \o past) /\ (receivers \o past)[at] \in Request
    BY <1>9 DEF StopJoin, TypeOK, IInv, StopInv
  <2> QED
    BY <1>2, <1>9, <2>1 DEF StopJoin, TypeOK
<1>10. CASE StopClear
  BY <1>10 DEF StopClear, TypeOK
<1>11. CASE StopQueue
  BY <1>11 DEF StopQueue, TypeOK
<1>12. CASE Ended \/ UNCHANGED vars
  BY <1>12 DEF Ended, vars, TypeOK
<1>13. ASSUME NEW r \in Request, PacketEnds(r) PROVE TypeOK'
  BY <1>13 DEF PacketEnds, Packets, TypeOK
<1>14. CASE UpdateQueue
  <2>1. packet' \in [Request -> Packets]
    BY <1>14 DEF UpdateQueue, UpdateSlots, Packets, TypeOK
  <2> QED
    BY <1>14, <2>1 DEF UpdateQueue, TypeOK
<1> QED
  BY <1>3, <1>4, <1>5, <1>6, <1>7, <1>8, <1>9, <1>10, <1>11, <1>12, <1>13, <1>14 DEF Next, Perform

\* Every step keeps the rest, by what became of the list: of those it holds none was
\* told, and those the stop meets were told nothing that cancel() would take back.
LEMMA InvStep == TypeOK /\ IInv /\ [Next]_vars => IInv'
<1> SUFFICES ASSUME TypeOK, IInv, [Next]_vars PROVE IInv'
  OBVIOUS
<1> USE DEF stop
<1>1. ASSUME NEW r \in Request, NewRequest(r) PROVE IInv'
  <2>1. /\ Len(receivers') = Len(receivers) + 1 /\ receivers'[Len(receivers')] = r
        /\ \A i \in 1..Len(receivers) : receivers'[i] = receivers[i]
        /\ Len(receivers) \in Nat /\ DOMAIN receivers = 1..Len(receivers)
        /\ DOMAIN receivers' = 1..Len(receivers')
    BY <1>1 DEF NewRequest, TypeOK
  <2>2. ToSet(receivers') = ToSet(receivers) \cup {r}
    BY <2>1 DEF ToSet
  <2>3. r \notin ToSet(receivers) /\ IsInjective(receivers)
    BY <1>1 DEF NewRequest, IInv, ListedAreOwed
  <2>4. IsInjective(receivers')
    BY <2>1, <2>3 DEF IsInjective, ToSet
  <2> QED
    BY <1>1, <2>2, <2>4
    DEF NewRequest, IInv, StopInv, MadeInv, CompleteInv, ListedAreOwed, CancelledIsSettled, TypeOK
<1>2. ASSUME NEW r \in Request, CancelRequest(r) PROVE IInv'
  <2>1. /\ pc = "run" /\ r \in ToSet(receivers) /\ Cancel(r)
        /\ UNCHANGED <<kind, status, at, end>> /\ cancelled' = cancelled \cup {r}
    BY <1>2, CancelCases DEF CancelRequest
  <2>2. told[r] = "none" /\ status[r] \notin {"none", "complete"}
    BY <2>1 DEF IInv, ListedAreOwed, CompleteInv
  <2>3. CASE UNCHANGED <<receivers, past, told, pc>> /\ (r \in cancelled \/ status[r] = "running")
    BY <2>1, <2>2, <2>3
    DEF IInv, StopInv, MadeInv, CompleteInv, ListedAreOwed, CancelledIsSettled
  <2>4. CASE pc' = "crashed" /\ UNCHANGED told
    BY <2>1, <2>2, <2>4
    DEF IInv, StopInv, MadeInv, CompleteInv, ListedAreOwed, CancelledIsSettled
  <2>5. CASE Unlist(r) /\ told' = [told EXCEPT ![r] = "failed"] /\ UNCHANGED pc
    <3>1. past' = past /\ IsInjective(receivers') /\ ToSet(receivers') = ToSet(receivers) \ {r}
      BY <2>1, <2>5, UnlistStep DEF IInv, ListedAreOwed
    <3> QED
      BY <2>1, <2>2, <2>5, <3>1
      DEF IInv, StopInv, MadeInv, CompleteInv, ListedAreOwed, CancelledIsSettled, TypeOK
  <2> QED
    BY <2>1, <2>2, <2>3, <2>4, <2>5, CancelCases
<1>3. ASSUME NEW r \in Request, Start(r) PROVE IInv'
  BY <1>3 DEF Start, IInv, StopInv, MadeInv, CompleteInv, ListedAreOwed, CancelledIsSettled, TypeOK
<1>4. ASSUME NEW r \in Request, Finish(r) PROVE IInv'
  BY <1>4 DEF Finish, IInv, StopInv, MadeInv, CompleteInv, ListedAreOwed, CancelledIsSettled, TypeOK
<1>5. ASSUME NEW r \in Request, Answer(r) PROVE IInv'
  <2>1. pc = "run" /\ status[r] = "finished" /\ r \notin cancelled /\ Tell(r, "ok")
        /\ status' = [status EXCEPT ![r] = "complete"] /\ UNCHANGED <<kind, cancelled, stop>>
    BY <1>5 DEF Answer
  <2>2. CASE r \in ToSet(receivers)
    <3>1. Unlist(r) /\ told' = [told EXCEPT ![r] = "ok"]
      BY <2>1, <2>2 DEF Tell
    <3>2. past' = past /\ IsInjective(receivers') /\ ToSet(receivers') = ToSet(receivers) \ {r}
      BY <2>1, <2>2, <3>1, UnlistStep DEF IInv, ListedAreOwed
    <3> QED
      BY <2>1, <3>1, <3>2
      DEF IInv, StopInv, MadeInv, CompleteInv, ListedAreOwed, CancelledIsSettled, TypeOK
  <2>3. CASE r \notin ToSet(receivers)
    BY <2>1, <2>3
    DEF Tell, IInv, StopInv, MadeInv, CompleteInv, ListedAreOwed, CancelledIsSettled, TypeOK
  <2> QED
    BY <2>2, <2>3
<1>6. CASE Stop
  <2>1. past = <<>> /\ ToSet(past) = {}
    BY <1>6 DEF Stop, IInv, StopInv, ToSet
  <2> QED
    BY <1>6, <2>1
    DEF Stop, IInv, StopInv, MadeInv, CompleteInv, ListedAreOwed, CancelledIsSettled, TypeOK
<1>7. CASE StopJoin
  <2> DEFINE r == (receivers \o past)[at]
  <2>1. /\ pc = "joins" /\ at \in 1..Len(receivers) + Len(past) /\ at' = at + 1
        /\ UNCHANGED <<kind, status, end>>
        /\ receivers \in Seq(Request) /\ past \in Seq(Request)
    BY <1>7 DEF StopJoin, TypeOK, IInv, StopInv
  <2>2. r \in Request /\ r \in ToSet(receivers) \cup ToSet(past)
    <3>1. CASE at <= Len(receivers)
      <4>1. at \in 1..Len(receivers) /\ r = receivers[at]
        BY <2>1, <3>1
      <4> QED
        BY <2>1, <4>1 DEF ToSet
    <3>2. CASE at > Len(receivers)
      <4>1. at - Len(receivers) \in 1..Len(past) /\ r = past[at - Len(receivers)]
        BY <2>1, <3>2
      <4> QED
        BY <2>1, <4>1 DEF ToSet
    <3> QED
      BY <2>1, <3>1, <3>2
  <2>3. told[r] # "ok"
    BY <2>1, <2>2 DEF IInv, StopInv
  <2> HIDE DEF r
  <2>4. CASE pc' = "crashed" /\ UNCHANGED told /\ (cancelled' = cancelled \/ cancelled' = cancelled \cup {r})
    BY <2>1, <2>3, <2>4
    DEF IInv, StopInv, MadeInv, CompleteInv, ListedAreOwed, CancelledIsSettled
  <2>5. CASE UNCHANGED <<receivers, past, told, pc>> /\ cancelled' = cancelled \cup {r}
    BY <2>1, <2>3, <2>5
    DEF IInv, StopInv, MadeInv, CompleteInv, ListedAreOwed, CancelledIsSettled, TypeOK
  <2>6. CASE /\ r \in ToSet(receivers) /\ Unlist(r) /\ cancelled' = cancelled \cup {r}
             /\ told' = [told EXCEPT ![r] = "failed"] /\ UNCHANGED pc
    <3>1. /\ Len(receivers') = Len(receivers) - 1 /\ Len(past') = Len(past) + 1
          /\ ToSet(receivers') \cup ToSet(past') \subseteq ToSet(receivers) \cup ToSet(past)
      BY <2>1, <2>6, UnlistStep
    <3>2. Len(receivers) \in Nat /\ Len(past) \in Nat
      BY <2>1
    <3>3. StopInv'
      BY <2>1, <2>6, <3>1, <3>2 DEF IInv, StopInv, TypeOK
    <3> QED
      BY <2>1, <2>3, <2>6, <3>3
      DEF IInv, MadeInv, CompleteInv, ListedAreOwed, CancelledIsSettled, TypeOK
  <2>7. \/ Cancel(r)
        \/ pc' = "crashed" /\ UNCHANGED <<receivers, past, told, cancelled>>
    BY <1>7 DEF StopJoin, r
  <2> QED
    BY <2>2, <2>4, <2>5, <2>6, <2>7, CancelCases
<1>8. CASE StopClear
  BY <1>8
  DEF StopClear, IInv, StopInv, MadeInv, CompleteInv, ListedAreOwed, CancelledIsSettled
<1>9. CASE StopQueue
  BY <1>9
  DEF StopQueue, IInv, StopInv, MadeInv, CompleteInv, ListedAreOwed, CancelledIsSettled
<1>10. CASE Ended \/ UNCHANGED vars
  BY <1>10
  DEF Ended, vars, IInv, StopInv, MadeInv, CompleteInv, ListedAreOwed, CancelledIsSettled
<1>11. ASSUME NEW r \in Request, PacketEnds(r) PROVE IInv'
  BY <1>11
  DEF PacketEnds, IInv, StopInv, MadeInv, CompleteInv, ListedAreOwed, CancelledIsSettled
<1>12. CASE UpdateQueue
  BY <1>12
  DEF UpdateQueue, IInv, StopInv, MadeInv, CompleteInv, ListedAreOwed, CancelledIsSettled
<1> QED
  BY <1>1, <1>2, <1>3, <1>4, <1>5, <1>6, <1>7, <1>8, <1>9, <1>10, <1>11, <1>12 DEF Next, Perform

------------------------------------------------------------------------------

\* Every variable keeps its type, and what the stop needs of the list holds throughout.
THEOREM Inductive == Spec => [](TypeOK /\ IInv)
<1>1. Init => TypeOK /\ IInv
  BY DEF Init, TypeOK, IInv, StopInv, MadeInv, CompleteInv, ListedAreOwed, CancelledIsSettled,
         Kinds, Statuses, Packets, IsInjective, ToSet
<1>2. TypeOK /\ IInv /\ [Next]_vars => (TypeOK /\ IInv)'
  BY TypeStep, InvStep
<1> QED
  BY <1>1, <1>2, PTL DEF Spec

\* The variables keep their types, for any set of requests.
THEOREM TypeCorrect == Spec => []TypeOK
BY Inductive, PTL

\* While the service runs it lists the receivers of the requests that are not told
\* yet, each once, in whatever order the requests end.
THEOREM ListIsExact == Spec => []ListedAreOwed
<1>1. IInv => ListedAreOwed
  BY DEF IInv
<1> QED
  BY <1>1, Inductive, PTL

\* A request that was cancelled is never told that it succeeded, and was told that it
\* failed unless its work was under way.
THEOREM CancelSettles == Spec => []CancelledIsSettled
<1>1. IInv => CancelledIsSettled
  BY DEF IInv
<1> QED
  BY <1>1, Inductive, PTL

------------------------------------------------------------------------------
(* NotificationService *)

\* What waits for the end of the visits, of an observer of an id.
Adds(i, o) == {n \in DOMAIN add : add[n].id = i /\ add[n].observer = o}
Removes(i, o) == {n \in DOMAIN remove : remove[n].id = i /\ remove[n].observer = o}

\* Nothing waits between visits, and the visits are inside the lists.
QueueInv == visits = <<>> => add = <<>> /\ remove = <<>>
PlaceInv == \A n \in DOMAIN visits : visits[n].calling => visits[n].pos <= Len(observers[visits[n].id])

\* An observer is listed once at most, and its additions and removals take turns.
CountInv ==
  \A i \in Id, o \in Observer :
    /\ Cardinality(Entries(observers, i, o)) <= 1
    /\ Cardinality(Entries(observers, i, o)) + Cardinality(Adds(i, o))
         = Cardinality(Removes(i, o)) + (IF registered[i][o] = 0 THEN 0 ELSE 1)

\* The last callable of an observer is the one listed, or the last one that waits.
FreshInv ==
  \A i \in Id, o \in Observer : registered[i][o] # 0 =>
    /\ Adds(i, o) = {} /\ <<i, o>> \notin readded =>
         \A k \in Entries(observers, i, o) : observers[i][k].callable = registered[i][o]
    /\ \A n \in Adds(i, o) : (\A m \in Adds(i, o) : m <= n) => add[n].callable = registered[i][o]

NotificationInv == NotificationTypeOK /\ QueueInv /\ PlaceInv /\ CountInv /\ FreshInv

Map == [Id -> Seq(Desc)]
AddDesc == [id : Id, observer : Observer, callable : 1..MaxCallables]
RemoveDesc == [id : Id, observer : Observer]

------------------------------------------------------------------------------
(* Numbers, sets and folds *)

\* A set of numbers has a smallest one.
LEMMA Smallest ==
  ASSUME NEW T \in SUBSET Nat, T # {}
  PROVE  \E x \in T : \A y \in T : x <= y
<1> DEFINE R == {ss \in Nat \X Nat : ss[1] < ss[2]}
<1>1. IsWellFoundedOn(R, Nat)
  BY NatLessThanWellFounded DEF OpToRel
<1>2. \E x \in T : \A y \in T : <<y, x>> \notin R
  <2> HIDE DEF R
  <2> QED
    BY <1>1, WFMin
<1>3. PICK x \in T : \A y \in T : <<y, x>> \notin R
  BY <1>2
<1>4. ASSUME NEW y \in T PROVE x <= y
  <2>1. x \in Nat /\ y \in Nat /\ <<y, x>> \in Nat \X Nat
    OBVIOUS
  <2>2. ~(<<y, x>>[1] < <<y, x>>[2])
    BY <1>3, <2>1
  <2> QED
    BY <2>1, <2>2
<1> QED
  BY <1>4

\* A step for each number up to n, and the function that goes on from base by them.
StepsOn(S, n, step) == step \in [1..n -> [S -> S]]
Goes(S, base, n, step, f) ==
  f \in [0..n -> S] /\ f[0] = base /\ \A k \in 1..n : f[k] = step[k][f[k - 1]]

\* A function that is defined step by step exists.
LEMMA StepByStep ==
  ASSUME NEW S, NEW base \in S, NEW n \in Nat, NEW step, StepsOn(S, n, step)
  PROVE  \E f : Goes(S, base, n, step, f)
<1> DEFINE T == {m \in 0..n : ~\E f : Goes(S, base, m, step, f)}
<1> USE DEF Goes, StepsOn
<1>a. SUFFICES ASSUME T # {} PROVE FALSE
  <2>1. n \in 0..n
    OBVIOUS
  <2> HIDE DEF Goes
  <2> QED
    BY <2>1
<1>1. PICK m \in T : \A y \in T : m <= y
  <2>1. T \in SUBSET Nat
    OBVIOUS
  <2> HIDE DEF T
  <2> QED
    BY <1>a, <2>1, Smallest
<1>2. CASE m = 0
  <2> DEFINE f == [k \in 0..0 |-> base]
  <2>1. Goes(S, base, 0, step, f)
    OBVIOUS
  <2> QED
    BY <1>1, <1>2, <2>1
<1>3. CASE m # 0
  <2>1. m - 1 \in 0..n /\ m - 1 \notin T
    BY <1>1, <1>3
  <2>2. PICK f : Goes(S, base, m - 1, step, f)
    BY <2>1
  <2>3. m \in 1..n /\ f[m - 1] \in S
    BY <1>1, <1>3, <2>2
  <2>4. step[m][f[m - 1]] \in S
    BY <2>3
  <2> DEFINE g == [k \in 0..m |-> IF k < m THEN f[k] ELSE step[m][f[m - 1]]]
  <2>5. g \in [0..m -> S]
    <3>1. \A k \in 0..m : k < m => k \in 0..(m - 1)
      BY <2>3
    <3> QED
      BY <2>2, <2>4, <3>1
  <2>6. ASSUME NEW k \in 0..m PROVE g[k] = IF k = 0 THEN base ELSE step[k][g[k - 1]]
    <3>1. CASE k = m
      BY <3>1, <2>3
    <3>2. CASE k # m
      <4>1. k \in 0..(m - 1) /\ (k # 0 => k - 1 \in 0..(m - 1))
        BY <3>2, <2>3
      <4>2. f[k] = IF k = 0 THEN base ELSE step[k][f[k - 1]]
        BY <2>2, <4>1
      <4> QED
        BY <4>1, <4>2
    <3> QED
      BY <3>1, <3>2
  <2> HIDE DEF g
  <2>7. g[0] = base /\ \A k \in 1..m : g[k] = step[k][g[k - 1]]
    <3>1. 0 \in 0..m /\ \A k \in 1..m : k \in 0..m /\ k # 0
      BY <2>3
    <3> QED
      BY <2>6, <3>1
  <2>8. Goes(S, base, m, step, g)
    BY <2>5, <2>7
  <2> QED
    BY <1>1, <2>8
<1> QED
  BY <1>2, <1>3

\* What holds at first and is kept by every step holds at every step.
LEMMA Steps ==
  ASSUME NEW n \in Nat, NEW good \in SUBSET (0..n), 0 \in good, \A k \in 1..n : k - 1 \in good => k \in good
  PROVE  good = 0..n
<1> DEFINE T == (0..n) \ good
<1> SUFFICES ASSUME T # {} PROVE FALSE
  OBVIOUS
<1>1. PICK m \in T : \A y \in T : m <= y
  <2>1. T \in SUBSET Nat
    OBVIOUS
  <2> HIDE DEF T
  <2> QED
    BY <2>1, Smallest
<1>2. m \in 1..n /\ m - 1 \notin T
  BY <1>1
<1> QED
  BY <1>1, <1>2

\* A set with one element at most.
LEMMA AtMostOne ==
  ASSUME NEW S, IsFiniteSet(S)
  PROVE  /\ Cardinality(S) \in Nat
         /\ Cardinality(S) <= 1 => \A x, y \in S : x = y
         /\ Cardinality(S) = 0 <=> S = {}
<1>1. Cardinality(S) \in Nat /\ (Cardinality(S) = 0 <=> S = {})
  BY FS_CardinalityType, FS_EmptySet
<1>2. ASSUME Cardinality(S) <= 1, NEW x \in S, NEW y \in S, x # y PROVE FALSE
  <2>1. IsFiniteSet(S \ {x}) /\ Cardinality(S \ {x}) = Cardinality(S) - 1
    BY FS_RemoveElement
  <2>2. y \in S \ {x} /\ Cardinality(S \ {x}) = 0
    BY <1>1, <1>2, <2>1, FS_EmptySet
  <2> QED
    BY <2>1, <2>2, FS_EmptySet
<1> QED
  BY <1>1, <1>2

------------------------------------------------------------------------------
(* addObserver_() and removeObserver_() *)

\* The entries of an observer are places of its list.
LEMMA EntriesFinite ==
  ASSUME NEW map \in Map, NEW i \in Id, NEW o
  PROVE  /\ Entries(map, i, o) = {k \in 1..Len(map[i]) : map[i][k].observer = o}
         /\ IsFiniteSet(Entries(map, i, o)) /\ Cardinality(Entries(map, i, o)) \in Nat
<1>1. map[i] \in Seq(Desc) /\ Len(map[i]) \in Nat /\ DOMAIN map[i] = 1..Len(map[i])
  BY DEF Map
<1>2. Entries(map, i, o) = {k \in 1..Len(map[i]) : map[i][k].observer = o}
  BY <1>1 DEF Entries
<1>3. IsFiniteSet(1..Len(map[i]))
  BY <1>1, FS_Interval
<1>4. IsFiniteSet(Entries(map, i, o))
  BY <1>2, <1>3, FS_Subset
<1> QED
  BY <1>2, <1>4, FS_CardinalityType

\* addObserver_() puts an entry at the end of one list.
LEMMA AddToMap ==
  ASSUME NEW map \in Map, NEW q \in AddDesc
  PROVE  LET new == AddTo(map, q)
         IN  /\ new \in Map
             /\ \A i \in Id : \A k \in 1..Len(map[i]) : new[i][k] = map[i][k]
             /\ \A i \in Id : Len(new[i]) = IF i = q.id THEN Len(map[i]) + 1 ELSE Len(map[i])
             /\ new[q.id][Len(map[q.id]) + 1] = [observer |-> q.observer, callable |-> q.callable]
             /\ \A i \in Id, o \in Observer :
                  Entries(new, i, o) = IF i = q.id /\ o = q.observer THEN Entries(map, i, o) \cup {Len(map[i]) + 1}
                                       ELSE Entries(map, i, o)
<1> DEFINE new == AddTo(map, q)
           d == [observer |-> q.observer, callable |-> q.callable]
<1>1. q.id \in Id /\ d \in Desc /\ q.observer \in Observer
  BY DEF AddDesc, Desc
<1>2. new = [map EXCEPT ![q.id] = Append(map[q.id], d)]
  BY DEF AddTo
<1> HIDE DEF new
<1>3. \A i \in Id : new[i] = IF i = q.id THEN Append(map[i], d) ELSE map[i]
  BY <1>2 DEF Map
<1>4. ASSUME NEW i \in Id
      PROVE  /\ map[i] \in Seq(Desc) /\ Len(map[i]) \in Nat
             /\ Append(map[i], d) \in Seq(Desc) /\ Len(Append(map[i], d)) = Len(map[i]) + 1
             /\ \A k \in 1..Len(map[i]) : Append(map[i], d)[k] = map[i][k]
             /\ Append(map[i], d)[Len(map[i]) + 1] = d
  <2>1. map[i] \in Seq(Desc) /\ Len(map[i]) \in Nat
    BY DEF Map
  <2> HIDE DEF d
  <2> QED
    BY <1>1, <2>1, AppendProperties
<1>5. new \in Map
  BY <1>1, <1>2, <1>4 DEF Map
<1>6. ASSUME NEW i \in Id, NEW o \in Observer
      PROVE  Entries(new, i, o) = IF i = q.id /\ o = q.observer THEN Entries(map, i, o) \cup {Len(map[i]) + 1}
                                  ELSE Entries(map, i, o)
  <2>1. /\ Entries(new, i, o) = {k \in 1..Len(new[i]) : new[i][k].observer = o}
        /\ Entries(map, i, o) = {k \in 1..Len(map[i]) : map[i][k].observer = o}
    BY <1>5, EntriesFinite
  <2>2. CASE i # q.id
    BY <1>3, <2>1, <2>2
  <2>3. CASE i = q.id
    <3>1. new[i] = Append(map[i], d) /\ d.observer = q.observer
      BY <1>3, <2>3
    <3> HIDE DEF d
    <3>2. /\ Len(new[i]) = Len(map[i]) + 1 /\ Len(map[i]) \in Nat
          /\ \A k \in 1..Len(map[i]) : new[i][k] = map[i][k]
          /\ new[i][Len(map[i]) + 1].observer = q.observer
      BY <1>4, <3>1
    <3>3. 1..Len(new[i]) = 1..Len(map[i]) \cup {Len(map[i]) + 1}
      BY <3>2
    <3> QED
      BY <2>1, <2>3, <3>2, <3>3
  <2> QED
    BY <2>2, <2>3
<1>7. \A i \in Id : \A k \in 1..Len(map[i]) : new[i][k] = map[i][k]
  BY <1>3, <1>4
<1>8. \A i \in Id : Len(new[i]) = IF i = q.id THEN Len(map[i]) + 1 ELSE Len(map[i])
  BY <1>3, <1>4
<1>9. new[q.id][Len(map[q.id]) + 1] = d
  BY <1>1, <1>3, <1>4
<1> QED
  BY <1>5, <1>6, <1>7, <1>8, <1>9 DEF new

\* removeObserver_() moves the last entry to the place of the first one of the observer.
LEMMA RemoveFromMap ==
  ASSUME NEW map \in Map, NEW q \in RemoveDesc
  PROVE  LET new == RemoveFrom(map, q)
         IN  /\ new \in Map
             /\ \A i \in Id : i # q.id => new[i] = map[i]
             /\ \A i \in Id, o \in Observer : \A j \in Entries(new, i, o) :
                  \E m \in Entries(map, i, o) :
                    /\ new[i][j] = map[i][m]
                    /\ i = q.id /\ o = q.observer => \E n \in Entries(map, i, o) : n < m
             /\ \A i \in Id, o \in Observer :
                  Cardinality(Entries(new, i, o)) =
                    IF i = q.id /\ o = q.observer /\ Entries(map, i, o) # {}
                    THEN Cardinality(Entries(map, i, o)) - 1 ELSE Cardinality(Entries(map, i, o))
<1> DEFINE new == RemoveFrom(map, q)
           ks == Entries(map, q.id, q.observer)
           s == map[q.id]
<1>1. q.id \in Id /\ q.observer \in Observer /\ s \in Seq(Desc) /\ Len(s) \in Nat
  BY DEF RemoveDesc, Map
<1>2. CASE ks = {}
  <2>1. new = map
    BY <1>2 DEF RemoveFrom
  <2>2. \A i \in Id, o \in Observer : i = q.id /\ o = q.observer => Entries(map, i, o) = {}
    BY <1>2
  <2> HIDE DEF new, ks
  <2> QED
    BY <2>1, <2>2 DEF new
<1>3. CASE ks # {}
  <2> DEFINE k == CHOOSE n \in ks : \A m \in ks : n <= m
  <2>1. ks = {m \in 1..Len(s) : s[m].observer = q.observer}
    BY <1>1, EntriesFinite
  <2>2. k \in ks /\ \A m \in ks : k <= m
    <3>1. ks \in SUBSET Nat
      BY <2>1
    <3>2. \E n \in ks : \A m \in ks : n <= m
      BY <1>3, <3>1, Smallest
    <3> QED
      BY <3>2
  <2>3. k \in 1..Len(s) /\ s[k].observer = q.observer
    BY <2>1, <2>2
  <2>4. new = [map EXCEPT ![q.id] = Moved(s, k)]
    BY <1>3 DEF RemoveFrom, Moved
  <2> HIDE DEF new, s, k
  <2> DEFINE t == Moved(s, k)
  <2>5. /\ t \in Seq(Desc) /\ Len(t) = Len(s) - 1
        /\ \A j \in 1..Len(s) - 1 : t[j] = IF j = k THEN s[Len(s)] ELSE s[j]
    BY <1>1, <2>3, MovedEntries
  <2> HIDE DEF t
  <2> USE DEF s
  <2>6. new \in Map
    BY <1>1, <2>4, <2>5 DEF Map, t
  <2>7. \A i \in Id : new[i] = IF i = q.id THEN t ELSE map[i]
    BY <2>4 DEF Map, t
  <2>8. ASSUME NEW o \in Observer
        PROVE  /\ \A j \in Entries(new, q.id, o) :
                    \E m \in Entries(map, q.id, o) :
                      /\ new[q.id][j] = map[q.id][m]
                      /\ o = q.observer => \E n \in Entries(map, q.id, o) : n < m
               /\ Cardinality(Entries(new, q.id, o)) =
                    IF o = q.observer THEN Cardinality(Entries(map, q.id, o)) - 1
                    ELSE Cardinality(Entries(map, q.id, o))
    <3> DEFINE E == Entries(map, q.id, o)
               D == Entries(new, q.id, o)
               L == Len(s)
    <3>1. D = {j \in 1..(L - 1) : t[j].observer = o} /\ E = {j \in 1..L : s[j].observer = o}
      BY <1>1, <2>5, <2>6, <2>7, EntriesFinite
    <3>2. IsFiniteSet(E) /\ Cardinality(E) \in Nat
      BY <1>1, EntriesFinite
    <3>3. k \in E <=> o = q.observer
      BY <2>3, <3>1
    <3>4. /\ k = L => D = E \ {L}
          /\ k # L /\ L \in E => D = (E \ {L}) \cup {k}
          /\ k # L /\ L \notin E => D = E \ {k}
      BY <2>3, <2>5, <3>1
    <3> HIDE DEF E, D
    <3>5. Cardinality(D) = IF o = q.observer THEN Cardinality(E) - 1 ELSE Cardinality(E)
      <4>1. CASE k # L /\ L \in E
        <5>1. IsFiniteSet(E \ {L}) /\ Cardinality(E \ {L}) = Cardinality(E) - 1
          BY <3>2, <4>1, FS_RemoveElement
        <5>2. Cardinality((E \ {L}) \cup {k}) = IF k \in E \ {L} THEN Cardinality(E \ {L}) ELSE Cardinality(E \ {L}) + 1
          BY <5>1, FS_AddElement
        <5>3. D = (E \ {L}) \cup {k} /\ (k \in E \ {L} <=> o = q.observer)
          BY <3>3, <3>4, <4>1
        <5> QED
          BY <3>2, <5>1, <5>2, <5>3
      <4>2. CASE k = L \/ L \notin E
        <5>1. D = E \ {k}
          BY <3>4, <4>2
        <5>2. Cardinality(E \ {k}) = IF k \in E THEN Cardinality(E) - 1 ELSE Cardinality(E)
          BY <3>2, FS_RemoveElement
        <5> QED
          BY <3>3, <5>1, <5>2
      <4> QED
        BY <4>1, <4>2
    <3>6. ASSUME NEW j \in D
          PROVE  \E m \in E : /\ new[q.id][j] = map[q.id][m]
                              /\ o = q.observer => \E n \in E : n < m
      <4> DEFINE m == IF j = k THEN L ELSE j
      <4>1. m \in E /\ t[j] = s[m] /\ m # k
        BY <2>3, <2>5, <3>1
      <4>2. o = q.observer => k \in E /\ k < m
        BY <2>1, <2>2, <3>1, <3>3, <4>1
      <4>3. new[q.id] = t
        BY <1>1, <2>7
      <4> QED
        BY <4>1, <4>2, <4>3
    <3> QED
      BY <3>5, <3>6 DEF D, E
  <2>9. ASSUME NEW i \in Id, NEW o \in Observer, i # q.id
        PROVE  Entries(new, i, o) = Entries(map, i, o) /\ new[i] = map[i]
    BY <2>7, <2>9 DEF Entries
  <2>10. \A i \in Id, o \in Observer : \A j \in Entries(new, i, o) :
           \E m \in Entries(map, i, o) :
             /\ new[i][j] = map[i][m]
             /\ i = q.id /\ o = q.observer => \E n \in Entries(map, i, o) : n < m
    <3> TAKE i \in Id, o \in Observer
    <3>1. CASE i = q.id
      BY <3>1, <2>8
    <3>2. CASE i # q.id
      BY <3>2, <2>9
    <3> QED
      BY <3>1, <3>2
  <2>11. \A i \in Id, o \in Observer :
           Cardinality(Entries(new, i, o)) =
             IF i = q.id /\ o = q.observer /\ Entries(map, i, o) # {}
             THEN Cardinality(Entries(map, i, o)) - 1 ELSE Cardinality(Entries(map, i, o))
    <3> TAKE i \in Id, o \in Observer
    <3>1. CASE i = q.id
      BY <3>1, <1>3, <2>8
    <3>2. CASE i # q.id
      BY <3>2, <2>9
    <3> QED
      BY <3>1, <3>2
  <2> QED
    BY <2>6, <2>7, <2>10, <2>11 DEF new
<1> QED
  BY <1>2, <1>3

------------------------------------------------------------------------------
(* What the end of the outermost visit applies *)

\* Of the first k entries of a queue, those of an observer of an id.
UpTo(q, i, o, k) == {n \in 1..k : q[n].id = i /\ q[n].observer = o}

\* They grow by the last one, if it is of the observer.
LEMMA UpToGrows ==
  ASSUME NEW q, NEW i, NEW o, NEW k \in Nat
  PROVE  /\ UpTo(q, i, o, 0) = {} /\ IsFiniteSet(UpTo(q, i, o, k)) /\ Cardinality(UpTo(q, i, o, k)) \in Nat
         /\ k # 0 =>
              /\ UpTo(q, i, o, k) = IF q[k].id = i /\ q[k].observer = o THEN UpTo(q, i, o, k - 1) \cup {k}
                                    ELSE UpTo(q, i, o, k - 1)
              /\ Cardinality(UpTo(q, i, o, k)) =
                   IF q[k].id = i /\ q[k].observer = o THEN Cardinality(UpTo(q, i, o, k - 1)) + 1
                   ELSE Cardinality(UpTo(q, i, o, k - 1))
<1> DEFINE U(j) == UpTo(q, i, o, j)
<1>1. ASSUME NEW j \in Nat PROVE IsFiniteSet(U(j)) /\ Cardinality(U(j)) \in Nat
  <2>1. IsFiniteSet(1..j) /\ U(j) \subseteq 1..j
    BY FS_Interval DEF UpTo
  <2> QED
    BY <2>1, FS_Subset, FS_CardinalityType
<1>2. U(0) = {}
  BY DEF UpTo
<1>3. ASSUME k # 0
      PROVE  /\ U(k) = IF q[k].id = i /\ q[k].observer = o THEN U(k - 1) \cup {k} ELSE U(k - 1)
             /\ Cardinality(U(k)) = IF q[k].id = i /\ q[k].observer = o THEN Cardinality(U(k - 1)) + 1
                                    ELSE Cardinality(U(k - 1))
  <2>1. k - 1 \in Nat /\ 1..k = 1..(k - 1) \cup {k} /\ k \notin 1..(k - 1)
    BY <1>3
  <2>2. U(k) = IF q[k].id = i /\ q[k].observer = o THEN U(k - 1) \cup {k} ELSE U(k - 1)
    BY <2>1 DEF UpTo
  <2>3. k \notin U(k - 1) /\ IsFiniteSet(U(k - 1))
    BY <1>1, <2>1 DEF UpTo
  <2> HIDE DEF U
  <2>4. Cardinality(U(k - 1) \cup {k}) = Cardinality(U(k - 1)) + 1
    BY <2>3, FS_AddElement
  <2> QED
    BY <2>2, <2>4
<1> QED
  BY <1>1, <1>2, <1>3

\* The maps that m_add leaves, one entry after another.
More(map, more) == more = [k \in 0..Len(add) |-> IF k = 0 THEN map ELSE AddTo(more[k - 1], add[k])]
Less(map, less) == less = [k \in 0..Len(remove) |-> IF k = 0 THEN map ELSE RemoveFrom(less[k - 1], remove[k])]

\* The recursive function over m_add exists.
LEMMA MoreExists ==
  ASSUME NEW map \in Map, add \in Seq(AddDesc)
  PROVE  \E more : More(map, more)
<1> DEFINE n == Len(add)
           step == [k \in 1..n |-> [m \in Map |-> AddTo(m, add[k])]]
<1>1. n \in Nat /\ \A k \in 1..n : add[k] \in AddDesc
  OBVIOUS
<1>2. step \in [1..n -> [Map -> Map]]
  BY <1>1, AddToMap
<1>3. \A k \in 1..n, m \in Map : step[k][m] = AddTo(m, add[k])
  OBVIOUS
<1> HIDE DEF step, n
<1>4. PICK f : Goes(Map, map, n, step, f)
  <2>1. n \in Nat /\ StepsOn(Map, n, step)
    BY <1>1, <1>2 DEF StepsOn
  <2> QED
    BY <2>1, StepByStep
<1>5. ASSUME NEW k \in 0..n PROVE f[k] = IF k = 0 THEN map ELSE AddTo(f[k - 1], add[k])
  <2>1. CASE k = 0
    BY <1>4, <2>1 DEF Goes
  <2>2. CASE k # 0
    <3>1. k \in 1..n /\ k - 1 \in 0..n
      BY <1>1, <2>2
    <3>2. f[k] = step[k][f[k - 1]] /\ f[k - 1] \in Map
      BY <1>4, <2>2, <3>1 DEF Goes
    <3> QED
      BY <1>3, <2>2, <3>1, <3>2
  <2> QED
    BY <2>1, <2>2
<1> QED
  BY <1>4, <1>5 DEF Goes, More, n

\* The recursive function over m_remove exists.
LEMMA LessExists ==
  ASSUME NEW map \in Map, remove \in Seq(RemoveDesc)
  PROVE  \E less : Less(map, less)
<1> DEFINE n == Len(remove)
           step == [k \in 1..n |-> [m \in Map |-> RemoveFrom(m, remove[k])]]
<1>1. n \in Nat /\ \A k \in 1..n : remove[k] \in RemoveDesc
  OBVIOUS
<1>2. step \in [1..n -> [Map -> Map]]
  BY <1>1, RemoveFromMap
<1>3. \A k \in 1..n, m \in Map : step[k][m] = RemoveFrom(m, remove[k])
  OBVIOUS
<1> HIDE DEF step, n
<1>4. PICK f : Goes(Map, map, n, step, f)
  <2>1. n \in Nat /\ StepsOn(Map, n, step)
    BY <1>1, <1>2 DEF StepsOn
  <2> QED
    BY <2>1, StepByStep
<1>5. ASSUME NEW k \in 0..n PROVE f[k] = IF k = 0 THEN map ELSE RemoveFrom(f[k - 1], remove[k])
  <2>1. CASE k = 0
    BY <1>4, <2>1 DEF Goes
  <2>2. CASE k # 0
    <3>1. k \in 1..n /\ k - 1 \in 0..n
      BY <1>1, <2>2
    <3>2. f[k] = step[k][f[k - 1]] /\ f[k - 1] \in Map
      BY <1>4, <2>2, <3>1 DEF Goes
    <3> QED
      BY <1>3, <2>2, <3>1, <3>2
  <2> QED
    BY <2>1, <2>2
<1> QED
  BY <1>4, <1>5 DEF Goes, Less, n

\* What was listed stays where it was, what is added comes behind it.
Grown(map, new, k) ==
  /\ new \in Map
  /\ \A i \in Id : /\ Len(new[i]) >= Len(map[i])
                   /\ \A j \in 1..Len(map[i]) : new[i][j] = map[i][j]
  /\ \A i \in Id, o \in Observer :
       /\ Cardinality(Entries(new, i, o)) = Cardinality(Entries(map, i, o)) + Cardinality(UpTo(add, i, o, k))
       /\ \A j \in Entries(new, i, o) :
            \/ j \in Entries(map, i, o)
            \/ j > Len(map[i]) /\ \E n \in UpTo(add, i, o, k) : new[i][j].callable = add[n].callable

\* Every addition appends to the list of its id.
LEMMA MoreGrows ==
  ASSUME NEW map \in Map, add \in Seq(AddDesc), NEW more, More(map, more)
  PROVE  Grown(map, more[Len(add)], Len(add))
<1> DEFINE n == Len(add)
           good == {k \in 0..n : Grown(map, more[k], k)}
<1>1. n \in Nat /\ \A k \in 1..n : add[k] \in AddDesc
  OBVIOUS
<1>2. \A k \in 0..n : more[k] = IF k = 0 THEN map ELSE AddTo(more[k - 1], add[k])
  BY DEF More
<1> HIDE DEF n
<1>3. Grown(map, more[0], 0)
  <2>1. more[0] = map
    BY <1>1, <1>2
  <2>2. \A i \in Id, o \in Observer : UpTo(add, i, o, 0) = {} /\ Cardinality(UpTo(add, i, o, 0)) = 0
    BY UpToGrows, FS_EmptySet
  <2>3. \A i \in Id : Len(map[i]) \in Nat
    BY DEF Map
  <2>4. \A i \in Id, o \in Observer : Cardinality(Entries(map, i, o)) \in Nat
    BY EntriesFinite
  <2> QED
    BY <2>1, <2>2, <2>3, <2>4 DEF Grown
<1>4. ASSUME NEW k \in 1..n, Grown(map, more[k - 1], k - 1) PROVE Grown(map, more[k], k)
  <2> DEFINE old == more[k - 1]
             q == add[k]
             new == AddTo(old, q)
  <2>1. more[k] = new /\ q \in AddDesc /\ k \in Nat \ {0} /\ q.id \in Id /\ q.observer \in Observer
    BY <1>1, <1>2 DEF AddDesc
  <2>2. old \in Map
    BY <1>4 DEF Grown
  <2>3. /\ new \in Map
        /\ \A i \in Id : \A j \in 1..Len(old[i]) : new[i][j] = old[i][j]
        /\ \A i \in Id : Len(new[i]) = IF i = q.id THEN Len(old[i]) + 1 ELSE Len(old[i])
        /\ new[q.id][Len(old[q.id]) + 1] = [observer |-> q.observer, callable |-> q.callable]
        /\ \A i \in Id, o \in Observer :
             Entries(new, i, o) = IF i = q.id /\ o = q.observer THEN Entries(old, i, o) \cup {Len(old[i]) + 1}
                                  ELSE Entries(old, i, o)
    <3> HIDE DEF old, q
    <3> QED
      BY <2>1, <2>2, AddToMap
  <2> HIDE DEF new
  <2>4. \A i \in Id : Len(old[i]) \in Nat /\ Len(map[i]) \in Nat
    BY <2>2 DEF Map
  <2>5. /\ \A i \in Id : Len(old[i]) >= Len(map[i]) /\ \A j \in 1..Len(map[i]) : old[i][j] = map[i][j]
        /\ \A i \in Id, o \in Observer :
             /\ Cardinality(Entries(old, i, o)) = Cardinality(Entries(map, i, o)) + Cardinality(UpTo(add, i, o, k - 1))
             /\ \A j \in Entries(old, i, o) :
                  \/ j \in Entries(map, i, o)
                  \/ j > Len(map[i]) /\ \E m \in UpTo(add, i, o, k - 1) : old[i][j].callable = add[m].callable
    BY <1>4 DEF Grown
  <2> HIDE DEF old, q
  <2>6. \A i \in Id : /\ Len(new[i]) >= Len(map[i])
                      /\ \A j \in 1..Len(map[i]) : new[i][j] = map[i][j]
    BY <2>3, <2>4, <2>5
  <2>7. ASSUME NEW i \in Id, NEW o \in Observer
        PROVE  /\ Cardinality(Entries(new, i, o)) = Cardinality(Entries(map, i, o)) + Cardinality(UpTo(add, i, o, k))
               /\ \A j \in Entries(new, i, o) :
                    \/ j \in Entries(map, i, o)
                    \/ j > Len(map[i]) /\ \E m \in UpTo(add, i, o, k) : new[i][j].callable = add[m].callable
    <3>1. /\ Entries(old, i, o) = {j \in 1..Len(old[i]) : old[i][j].observer = o}
          /\ IsFiniteSet(Entries(old, i, o)) /\ Cardinality(Entries(old, i, o)) \in Nat
          /\ Cardinality(Entries(map, i, o)) \in Nat
      BY <2>2, EntriesFinite
    <3>2. /\ Cardinality(UpTo(add, i, o, k - 1)) \in Nat
          /\ UpTo(add, i, o, k) = IF q.id = i /\ q.observer = o THEN UpTo(add, i, o, k - 1) \cup {k}
                                  ELSE UpTo(add, i, o, k - 1)
          /\ Cardinality(UpTo(add, i, o, k)) =
               IF q.id = i /\ q.observer = o THEN Cardinality(UpTo(add, i, o, k - 1)) + 1
               ELSE Cardinality(UpTo(add, i, o, k - 1))
      BY <2>1, UpToGrows DEF q
    <3>3. CASE q.id = i /\ q.observer = o
      <4>1. Entries(new, i, o) = Entries(old, i, o) \cup {Len(old[i]) + 1}
        BY <2>3, <3>3
      <4>2. Len(old[i]) + 1 \notin Entries(old, i, o)
        BY <2>4, <3>1
      <4>3. Cardinality(Entries(new, i, o)) = Cardinality(Entries(old, i, o)) + 1
        BY <3>1, <4>1, <4>2, FS_AddElement
      <4>4. new[i][Len(old[i]) + 1].callable = add[k].callable
        BY <2>3, <3>3 DEF q
      <4>5. \A j \in Entries(old, i, o) : new[i][j] = old[i][j]
        BY <2>3, <3>1
      <4>6. k \in UpTo(add, i, o, k) /\ UpTo(add, i, o, k - 1) \subseteq UpTo(add, i, o, k)
        BY <3>2, <3>3
      <4>7. \A j \in Entries(new, i, o) :
              \/ j \in Entries(map, i, o)
              \/ j > Len(map[i]) /\ \E m \in UpTo(add, i, o, k) : new[i][j].callable = add[m].callable
        <5> TAKE j \in Entries(new, i, o)
        <5>1. CASE j = Len(old[i]) + 1
          BY <2>4, <2>5, <4>4, <4>6, <5>1
        <5>2. CASE j \in Entries(old, i, o)
          BY <2>5, <4>5, <4>6, <5>2
        <5> QED
          BY <4>1, <5>1, <5>2
      <4>8. Cardinality(Entries(old, i, o)) = Cardinality(Entries(map, i, o)) + Cardinality(UpTo(add, i, o, k - 1))
        BY <2>5
      <4>9. Cardinality(UpTo(add, i, o, k)) = Cardinality(UpTo(add, i, o, k - 1)) + 1
        BY <3>2, <3>3
      <4>10. Cardinality(Entries(new, i, o)) = Cardinality(Entries(map, i, o)) + Cardinality(UpTo(add, i, o, k))
        BY <3>1, <3>2, <4>3, <4>8, <4>9
      <4> QED
        BY <4>7, <4>10
    <3>4. CASE ~(q.id = i /\ q.observer = o)
      <4>1. Entries(new, i, o) = Entries(old, i, o)
        BY <2>3, <3>4
      <4>2. \A j \in Entries(old, i, o) : new[i][j] = old[i][j]
        BY <2>3, <3>1
      <4> QED
        BY <2>5, <3>2, <3>4, <4>1, <4>2
    <3> QED
      BY <3>3, <3>4
  <2> QED
    BY <2>1, <2>3, <2>6, <2>7 DEF Grown
<1>5. good = 0..n
  <2>1. 0 \in good
    BY <1>1, <1>3
  <2>2. \A k \in 1..n : k - 1 \in good => k \in good
    BY <1>4
  <2>3. good \in SUBSET (0..n)
    OBVIOUS
  <2> HIDE DEF good
  <2> QED
    BY <1>1, <2>1, <2>2, <2>3, Steps
<1> QED
  BY <1>1, <1>5 DEF n

\* Every removal takes one entry, moves others, and of an observer that alone was
\* removed from the list it does not leave the first one.
Shrunk(map, new, k) ==
  /\ new \in Map
  /\ \A i \in Id : (\A n \in 1..k : remove[n].id # i) => new[i] = map[i]
  /\ \A i \in Id, o \in Observer :
       /\ Cardinality(Entries(new, i, o)) = Cardinality(Entries(map, i, o)) - Cardinality(UpTo(remove, i, o, k))
       /\ \A j \in Entries(new, i, o) :
            \E m \in Entries(map, i, o) :
              /\ new[i][j] = map[i][m]
              /\ UpTo(remove, i, o, k) # {} /\ (\A n \in 1..k : remove[n].id = i => remove[n].observer = o) =>
                   \E n \in Entries(map, i, o) : n < m

\* Every removal takes one entry of the list of its id.
LEMMA LessShrinks ==
  ASSUME NEW map \in Map, remove \in Seq(RemoveDesc), NEW less, Less(map, less),
         \A i \in Id, o \in Observer :
           Cardinality(UpTo(remove, i, o, Len(remove))) <= Cardinality(Entries(map, i, o))
  PROVE  Shrunk(map, less[Len(remove)], Len(remove))
<1> DEFINE N == Len(remove)
           good == {k \in 0..N : Shrunk(map, less[k], k)}
<1>1. N \in Nat /\ \A k \in 1..N : remove[k] \in RemoveDesc
  OBVIOUS
<1>2. \A k \in 0..N : less[k] = IF k = 0 THEN map ELSE RemoveFrom(less[k - 1], remove[k])
  BY DEF Less
<1>a. \A i \in Id, o \in Observer : Cardinality(UpTo(remove, i, o, N)) <= Cardinality(Entries(map, i, o))
  OBVIOUS
<1> HIDE DEF N
<1>3. Shrunk(map, less[0], 0)
  <2>1. less[0] = map
    BY <1>1, <1>2
  <2>2. \A i \in Id, o \in Observer : UpTo(remove, i, o, 0) = {} /\ Cardinality(UpTo(remove, i, o, 0)) = 0
    BY UpToGrows, FS_EmptySet
  <2>3. \A i \in Id, o \in Observer : Cardinality(Entries(map, i, o)) \in Nat
    BY EntriesFinite
  <2> QED
    BY <2>1, <2>2, <2>3 DEF Shrunk
<1>4. ASSUME NEW k \in 1..N, Shrunk(map, less[k - 1], k - 1) PROVE Shrunk(map, less[k], k)
  <2> DEFINE old == less[k - 1]
             q == remove[k]
             new == RemoveFrom(old, q)
  <2>1. less[k] = new /\ q \in RemoveDesc /\ k \in Nat \ {0} /\ q.id \in Id /\ q.observer \in Observer
    BY <1>1, <1>2 DEF RemoveDesc
  <2>2. old \in Map
    BY <1>4 DEF Shrunk
  <2>3. /\ new \in Map
        /\ \A i \in Id : i # q.id => new[i] = old[i]
        /\ \A i \in Id, o \in Observer : \A j \in Entries(new, i, o) :
             \E m \in Entries(old, i, o) :
               /\ new[i][j] = old[i][m]
               /\ i = q.id /\ o = q.observer => \E n \in Entries(old, i, o) : n < m
        /\ \A i \in Id, o \in Observer :
             Cardinality(Entries(new, i, o)) =
               IF i = q.id /\ o = q.observer /\ Entries(old, i, o) # {}
               THEN Cardinality(Entries(old, i, o)) - 1 ELSE Cardinality(Entries(old, i, o))
    <3> HIDE DEF old, q
    <3> QED
      BY <2>1, <2>2, RemoveFromMap
  <2> HIDE DEF new
  <2>4. /\ \A i \in Id : (\A n \in 1..(k - 1) : remove[n].id # i) => old[i] = map[i]
        /\ \A i \in Id, o \in Observer :
             /\ Cardinality(Entries(old, i, o)) =
                  Cardinality(Entries(map, i, o)) - Cardinality(UpTo(remove, i, o, k - 1))
             /\ \A j \in Entries(old, i, o) :
                  \E m \in Entries(map, i, o) :
                    /\ old[i][j] = map[i][m]
                    /\ UpTo(remove, i, o, k - 1) # {}
                         /\ (\A n \in 1..(k - 1) : remove[n].id = i => remove[n].observer = o) =>
                         \E n \in Entries(map, i, o) : n < m
    BY <1>4 DEF Shrunk
  <2> HIDE DEF old, q
  <2>5. 1..k = 1..(k - 1) \cup {k}
    BY <2>1
  <2>6. \A i \in Id : (\A n \in 1..k : remove[n].id # i) => new[i] = map[i]
    <3> SUFFICES ASSUME NEW i \in Id, \A n \in 1..k : remove[n].id # i PROVE new[i] = map[i]
      OBVIOUS
    <3>1. i # q.id /\ \A n \in 1..(k - 1) : remove[n].id # i
      BY <2>5 DEF q
    <3> QED
      BY <2>3, <2>4, <3>1
  <2>7. ASSUME NEW i \in Id, NEW o \in Observer
        PROVE  Cardinality(Entries(new, i, o)) =
                 Cardinality(Entries(map, i, o)) - Cardinality(UpTo(remove, i, o, k))
    <3>1. /\ Cardinality(UpTo(remove, i, o, k - 1)) \in Nat
          /\ UpTo(remove, i, o, k) = IF q.id = i /\ q.observer = o THEN UpTo(remove, i, o, k - 1) \cup {k}
                                     ELSE UpTo(remove, i, o, k - 1)
          /\ Cardinality(UpTo(remove, i, o, k)) =
               IF q.id = i /\ q.observer = o THEN Cardinality(UpTo(remove, i, o, k - 1)) + 1
               ELSE Cardinality(UpTo(remove, i, o, k - 1))
      BY <2>1, UpToGrows DEF q
    <3>2. /\ Cardinality(Entries(map, i, o)) \in Nat /\ Cardinality(Entries(old, i, o)) \in Nat
          /\ IsFiniteSet(Entries(old, i, o))
      BY <2>2, EntriesFinite
    <3>3. Cardinality(UpTo(remove, i, o, k)) <= Cardinality(UpTo(remove, i, o, N))
      <4>1. IsFiniteSet(UpTo(remove, i, o, N))
        BY <1>1, UpToGrows
      <4>2. UpTo(remove, i, o, k) \subseteq UpTo(remove, i, o, N)
        <5>1. 1..k \subseteq 1..N
          BY <1>1, <2>1
        <5> QED
          BY <5>1 DEF UpTo
      <4> QED
        BY <4>1, <4>2, FS_Subset
    <3>4. Cardinality(UpTo(remove, i, o, N)) \in Nat /\ Cardinality(UpTo(remove, i, o, k)) \in Nat
      BY <1>1, <2>1, UpToGrows
    <3>5. Cardinality(UpTo(remove, i, o, N)) <= Cardinality(Entries(map, i, o))
      BY <1>a
    <3>6. Cardinality(Entries(old, i, o)) =
            Cardinality(Entries(map, i, o)) - Cardinality(UpTo(remove, i, o, k - 1))
      BY <2>4
    <3>7. Cardinality(Entries(new, i, o)) =
               IF i = q.id /\ o = q.observer /\ Entries(old, i, o) # {}
               THEN Cardinality(Entries(old, i, o)) - 1 ELSE Cardinality(Entries(old, i, o))
      BY <2>3
    <3>8. Cardinality(Entries(old, i, o)) # 0 => Entries(old, i, o) # {}
      BY FS_EmptySet
    <3>9. CASE q.id = i /\ q.observer = o
      <4>1. Cardinality(UpTo(remove, i, o, k)) = Cardinality(UpTo(remove, i, o, k - 1)) + 1
        BY <3>1, <3>9
      <4>2. Cardinality(Entries(old, i, o)) # 0
        BY <3>1, <3>2, <3>3, <3>4, <3>5, <3>6, <4>1
      <4>3. Cardinality(Entries(new, i, o)) = Cardinality(Entries(old, i, o)) - 1
        BY <3>7, <3>8, <3>9, <4>2
      <4> QED
        BY <3>1, <3>2, <3>6, <4>1, <4>3
    <3>10. CASE ~(q.id = i /\ q.observer = o)
      <4>1. Cardinality(UpTo(remove, i, o, k)) = Cardinality(UpTo(remove, i, o, k - 1))
        BY <3>1, <3>10
      <4>2. Cardinality(Entries(new, i, o)) = Cardinality(Entries(old, i, o))
        BY <3>7, <3>10
      <4> QED
        BY <3>6, <4>1, <4>2
    <3> QED
      BY <3>9, <3>10
  <2>8. ASSUME NEW i \in Id, NEW o \in Observer, NEW j \in Entries(new, i, o)
        PROVE  \E m \in Entries(map, i, o) :
                 /\ new[i][j] = map[i][m]
                 /\ UpTo(remove, i, o, k) # {} /\ (\A n \in 1..k : remove[n].id = i => remove[n].observer = o) =>
                      \E n \in Entries(map, i, o) : n < m
    <3>1. PICK p \in Entries(old, i, o) :
            /\ new[i][j] = old[i][p]
            /\ i = q.id /\ o = q.observer => \E n \in Entries(old, i, o) : n < p
      BY <2>3
    <3>2. PICK m \in Entries(map, i, o) :
            /\ old[i][p] = map[i][m]
            /\ UpTo(remove, i, o, k - 1) # {}
                 /\ (\A n \in 1..(k - 1) : remove[n].id = i => remove[n].observer = o) =>
                 \E n \in Entries(map, i, o) : n < m
      BY <2>4
    <3>3. UpTo(remove, i, o, k) = IF q.id = i /\ q.observer = o THEN UpTo(remove, i, o, k - 1) \cup {k}
                                  ELSE UpTo(remove, i, o, k - 1)
      BY <2>1, UpToGrows DEF q
    <3>4. CASE \/ UpTo(remove, i, o, k - 1) # {}
               \/ ~(i = q.id /\ o = q.observer)
               \/ ~\A n \in 1..k : remove[n].id = i => remove[n].observer = o
      BY <2>5, <3>1, <3>2, <3>3, <3>4
    <3>5. CASE /\ UpTo(remove, i, o, k - 1) = {}
               /\ i = q.id /\ o = q.observer
               /\ \A n \in 1..k : remove[n].id = i => remove[n].observer = o
      <4>1. \A n \in 1..(k - 1) : remove[n].id # i
        BY <2>5, <3>5 DEF UpTo
      <4>2. old[i] = map[i]
        BY <2>4, <4>1
      <4>3. Entries(old, i, o) = Entries(map, i, o)
        BY <4>2 DEF Entries
      <4> QED
        BY <3>1, <3>5, <4>2, <4>3
    <3> QED
      BY <3>4, <3>5
  <2> QED
    BY <2>1, <2>3, <2>6, <2>7, <2>8 DEF Shrunk
<1>5. good = 0..N
  <2>1. 0 \in good
    BY <1>1, <1>3
  <2>2. \A k \in 1..N : k - 1 \in good => k \in good
    BY <1>4
  <2>3. good \in SUBSET (0..N)
    OBVIOUS
  <2> HIDE DEF good
  <2> QED
    BY <1>1, <2>1, <2>2, <2>3, Steps
<1> QED
  BY <1>1, <1>5 DEF N

\* Apply goes through m_add, and from there through m_remove.
LEMMA Applied ==
  ASSUME NEW map \in Map, add \in Seq(AddDesc), remove \in Seq(RemoveDesc)
  PROVE  \E more, less : /\ More(map, more) /\ Less(more[Len(add)], less)
                         /\ Apply(map) = less[Len(remove)]
<1> DEFINE more == CHOOSE f : More(map, f)
           less == CHOOSE f : Less(more[Len(add)], f)
<1>1. More(map, more)
  BY MoreExists
<1>2. more[Len(add)] \in Map
  <2> HIDE DEF more
  <2> QED
    BY <1>1, MoreGrows DEF Grown
<1>3. Less(more[Len(add)], less)
  <2> HIDE DEF more
  <2> QED
    BY <1>2, LessExists
<1>4. Apply(map) = less[Len(remove)]
  BY DEF Apply, More, Less
<1> QED
  BY <1>1, <1>3, <1>4

\* What waits is of the types of the queues, and the queues are UpTo their ends.
LEMMA Waiting ==
  ASSUME NotificationTypeOK
  PROVE  /\ observers \in Map /\ add \in Seq(AddDesc) /\ remove \in Seq(RemoveDesc)
         /\ Len(add) \in Nat /\ Len(remove) \in Nat
         /\ \A i, o : /\ Adds(i, o) = UpTo(add, i, o, Len(add)) /\ Removes(i, o) = UpTo(remove, i, o, Len(remove))
                      /\ IsFiniteSet(Adds(i, o)) /\ IsFiniteSet(Removes(i, o))
                      /\ Cardinality(Adds(i, o)) \in Nat /\ Cardinality(Removes(i, o)) \in Nat
<1>1. observers \in Map /\ add \in Seq(AddDesc) /\ remove \in Seq(RemoveDesc)
  BY DEF NotificationTypeOK, Map, AddDesc, RemoveDesc
<1>2. Len(add) \in Nat /\ Len(remove) \in Nat /\ DOMAIN add = 1..Len(add) /\ DOMAIN remove = 1..Len(remove)
  BY <1>1
<1>3. \A i, o : Adds(i, o) = UpTo(add, i, o, Len(add)) /\ Removes(i, o) = UpTo(remove, i, o, Len(remove))
  BY <1>2 DEF Adds, Removes, UpTo
<1> QED
  BY <1>1, <1>2, <1>3, UpToGrows

\* What the end of the outermost visit leaves of the list of an id for one observer.
LEMMA AppliedKeeps ==
  ASSUME NotificationTypeOK, CountInv, FreshInv
  PROVE  /\ Apply(observers) \in Map
         /\ \A i \in Id, o \in Observer :
              /\ Cardinality(Entries(Apply(observers), i, o)) = IF registered[i][o] = 0 THEN 0 ELSE 1
              /\ registered[i][o] # 0 /\ <<i, o>> \notin readded \cup Readded =>
                   \A k \in Entries(Apply(observers), i, o) : Apply(observers)[i][k].callable = registered[i][o]
<1>1. /\ observers \in Map /\ add \in Seq(AddDesc) /\ remove \in Seq(RemoveDesc)
      /\ Len(add) \in Nat /\ Len(remove) \in Nat
  BY Waiting
<1>2. PICK more, less : /\ More(observers, more) /\ Less(more[Len(add)], less)
                        /\ Apply(observers) = less[Len(remove)]
  BY <1>1, Applied
<1> DEFINE M == more[Len(add)]
           new == Apply(observers)
<1>3. Grown(observers, M, Len(add))
  BY <1>1, <1>2, MoreGrows
<1> HIDE DEF M, new
<1>4. M \in Map
  BY <1>3 DEF Grown
<1>5. ASSUME NEW i \in Id, NEW o \in Observer
      PROVE  /\ Cardinality(Entries(M, i, o)) = Cardinality(Entries(observers, i, o)) + Cardinality(Adds(i, o))
             /\ Cardinality(Entries(M, i, o)) = Cardinality(Removes(i, o)) + (IF registered[i][o] = 0 THEN 0 ELSE 1)
  <2>1. Cardinality(Entries(M, i, o)) = Cardinality(Entries(observers, i, o)) + Cardinality(UpTo(add, i, o, Len(add)))
    BY <1>3 DEF Grown
  <2>2. Adds(i, o) = UpTo(add, i, o, Len(add))
    BY Waiting
  <2> QED
    BY <2>1, <2>2 DEF CountInv
<1>6. \A i \in Id, o \in Observer :
        Cardinality(UpTo(remove, i, o, Len(remove))) <= Cardinality(Entries(M, i, o))
  <2> TAKE i \in Id, o \in Observer
  <2>1. Removes(i, o) = UpTo(remove, i, o, Len(remove)) /\ Cardinality(Removes(i, o)) \in Nat
    BY Waiting
  <2> QED
    BY <1>5, <2>1
<1>7. Shrunk(M, new, Len(remove))
  BY <1>1, <1>2, <1>4, <1>6, LessShrinks DEF M, new
<1>8. new \in Map
  BY <1>7 DEF Shrunk
<1>9. ASSUME NEW i \in Id, NEW o \in Observer
      PROVE  /\ Cardinality(Entries(new, i, o)) = IF registered[i][o] = 0 THEN 0 ELSE 1
             /\ registered[i][o] # 0 /\ <<i, o>> \notin readded \cup Readded =>
                  \A k \in Entries(new, i, o) : new[i][k].callable = registered[i][o]
  <2> DEFINE A == Adds(i, o)
             R == Removes(i, o)
             E == Entries(observers, i, o)
             B == Entries(M, i, o)
  <2>1. /\ A = UpTo(add, i, o, Len(add)) /\ R = UpTo(remove, i, o, Len(remove))
        /\ IsFiniteSet(A) /\ IsFiniteSet(R) /\ Cardinality(A) \in Nat /\ Cardinality(R) \in Nat
    BY Waiting
  <2>2. IsFiniteSet(E) /\ Cardinality(E) \in Nat /\ IsFiniteSet(B) /\ Cardinality(B) \in Nat
    BY <1>1, <1>4, EntriesFinite
  <2>3. Cardinality(B) = Cardinality(E) + Cardinality(A)
    BY <1>5
  <2>4. Cardinality(B) = Cardinality(R) + (IF registered[i][o] = 0 THEN 0 ELSE 1)
    BY <1>5
  <2>5. Cardinality(Entries(new, i, o)) = Cardinality(B) - Cardinality(R)
    BY <1>7, <2>1 DEF Shrunk
  <2>6. Cardinality(E) <= 1
    BY DEF CountInv
  <2>7. E = {k \in 1..Len(observers[i]) : observers[i][k].observer = o} /\ Len(observers[i]) \in Nat
    BY <1>1, EntriesFinite DEF Map
  <2>8. \A j \in B : \/ j \in E /\ M[i][j] = observers[i][j]
                     \/ j > Len(observers[i]) /\ \E n \in A : M[i][j].callable = add[n].callable
    BY <1>3, <2>1, <2>7 DEF Grown
  <2>9. B = {k \in 1..Len(M[i]) : M[i][k].observer = o}
    BY <1>4, EntriesFinite
  <2>10. \A x, y \in E : x = y
    BY <2>2, <2>6, AtMostOne
  <2>11. ASSUME registered[i][o] # 0, <<i, o>> \notin readded \cup Readded, NEW k \in Entries(new, i, o)
         PROVE  new[i][k].callable = registered[i][o]
    <3>1. PICK m \in B :
            /\ new[i][k] = M[i][m]
            /\ R # {} /\ (\A n \in 1..Len(remove) : remove[n].id = i => remove[n].observer = o) =>
                 \E n \in B : n < m
      BY <1>7, <2>1 DEF Shrunk
    <3>2. /\ A = {} => \A j \in E : observers[i][j].callable = registered[i][o]
          /\ \A n \in A : (\A p \in A : p <= n) => add[n].callable = registered[i][o]
      BY <2>11 DEF FreshInv
    <3>3. A \subseteq Nat
      <4>1. DOMAIN add = 1..Len(add)
        BY <1>1
      <4> QED
        BY <1>1, <4>1 DEF Adds
    <3>4. CASE R = {}
      <4>1. Cardinality(R) = 0
        BY <3>4, FS_EmptySet
      <4>2. Cardinality(E) + Cardinality(A) = 1
        BY <2>3, <2>4, <2>11, <4>1
      <4>3. CASE m \in E /\ M[i][m] = observers[i][m]
        <5>1. E # {} /\ Cardinality(E) # 0
          BY <2>2, <4>3, AtMostOne
        <5>2. Cardinality(A) = 0
          BY <2>1, <2>2, <4>2, <5>1
        <5>3. A = {}
          BY <2>1, <5>2, AtMostOne
        <5> QED
          BY <3>1, <3>2, <4>3, <5>3
      <4>4. CASE \E n \in A : M[i][m].callable = add[n].callable
        <5>1. PICK n \in A : M[i][m].callable = add[n].callable
          BY <4>4
        <5>2. Cardinality(A) <= 1
          BY <2>1, <2>2, <4>2
        <5>3. \A p \in A : p = n
          BY <2>1, <5>2, AtMostOne
        <5>4. \A p \in A : p <= n
          BY <3>3, <5>3
        <5> QED
          BY <3>1, <3>2, <5>1, <5>4
      <4> QED
        BY <2>8, <4>3, <4>4
    <3>5. CASE R # {}
      <4>1. Cardinality(R) # 0
        BY <2>1, <3>5, AtMostOne
      <4>2. A # {}
        <5>1. SUFFICES ASSUME A = {} PROVE FALSE
          OBVIOUS
        <5>2. Cardinality(A) = 0
          BY <5>1, FS_EmptySet
        <5> QED
          BY <2>1, <2>2, <2>3, <2>4, <2>6, <2>11, <4>1, <5>2
      <4>3. [id |-> i, observer |-> o] \in ToSet(remove)
        <5>1. PICK n \in R : TRUE
          BY <3>5
        <5>2. n \in DOMAIN remove /\ remove[n].id = i /\ remove[n].observer = o
          BY DEF Removes
        <5>3. remove[n] \in RemoveDesc
          BY <1>1, <5>2
        <5>4. remove[n] = [id |-> i, observer |-> o]
          BY <5>2, <5>3 DEF RemoveDesc
        <5> QED
          BY <5>2, <5>4 DEF ToSet
      <4>4. ~(\/ Cardinality(A) > 1
              \/ \E n \in DOMAIN remove : remove[n].id = i /\ remove[n].observer # o)
        <5>1. <<i, o>> \in Id \X Observer /\ <<i, o>>[1] = i /\ <<i, o>>[2] = o
          OBVIOUS
        <5>2. <<i, o>> \notin Readded
          BY <2>11
        <5> QED
          BY <4>2, <4>3, <5>1, <5>2 DEF Readded, Adds
      <4>5. \A x, y \in A : x = y
        <5>1. Cardinality(A) <= 1
          BY <2>1, <4>4
        <5> QED
          BY <2>1, <5>1, AtMostOne
      <4>6. DOMAIN remove = 1..Len(remove)
        BY <1>1
      <4>7. PICK p \in B : p < m
        BY <3>1, <3>5, <4>4, <4>6
      <4>8. m \notin E
        BY <2>7, <2>8, <2>9, <2>10, <4>7
      <4>9. PICK n \in A : M[i][m].callable = add[n].callable
        BY <2>8, <4>8
      <4>10. \A x \in A : x <= n
        BY <3>3, <4>5
      <4> QED
        BY <3>1, <3>2, <4>9, <4>10
    <3> QED
      BY <3>4, <3>5
  <2>12. Cardinality(Entries(new, i, o)) = IF registered[i][o] = 0 THEN 0 ELSE 1
    BY <2>1, <2>2, <2>4, <2>5
  <2> QED
    BY <2>11, <2>12
<1> QED
  BY <1>8, <1>9 DEF new

\* The sequence without its last entry.
LEMMA WithoutLast ==
  ASSUME NEW S, NEW s \in Seq(S), s # <<>>
  PROVE  /\ Len(s) \in Nat /\ Len(s) >= 1
         /\ Front(s) \in Seq(S) /\ Len(Front(s)) = Len(s) - 1 /\ DOMAIN Front(s) = 1..(Len(s) - 1)
         /\ \A n \in 1..(Len(s) - 1) : Front(s)[n] = s[n]
<1>1. Len(s) \in Nat /\ Len(s) >= 1
  OBVIOUS
<1>2. PICK n \in Nat : n = Len(s) - 1
  BY <1>1
<1>3. SubSeq(s, 1, n) \in Seq(S) /\ Len(SubSeq(s, 1, n)) = n
  BY <1>1, <1>2
<1>4. \A i \in 1..n : SubSeq(s, 1, n)[i] = s[i]
  BY <1>1, <1>2
<1>5. Front(s) = SubSeq(s, 1, n)
  BY <1>2 DEF Front
<1>6. DOMAIN SubSeq(s, 1, n) = 1..n
  BY <1>3
<1> QED
  BY <1>1, <1>2, <1>3, <1>4, <1>5, <1>6

\* The service starts with empty lists and no visit.
LEMMA NotificationInitial == NotificationInit => NotificationInv
<1> SUFFICES ASSUME NotificationInit PROVE NotificationInv
  OBVIOUS
<1> USE DEF NotificationInit
<1>1. NotificationTypeOK
  <2>1. /\ observers \in [Id -> Seq(Desc)] /\ add \in Seq([id : Id, observer : Observer, callable : 1..MaxCallables])
        /\ remove \in Seq([id : Id, observer : Observer]) /\ visits \in Seq(Visit) /\ DOMAIN visits = {}
    OBVIOUS
  <2>2. Len(visits) <= MaxDepth
    BY NotificationAssumption
  <2>3. registered \in [Id -> [Observer -> 0..MaxCallables]] /\ callables \in 0..MaxCallables
    BY NotificationAssumption
  <2> QED
    BY <2>1, <2>2, <2>3 DEF NotificationTypeOK
<1>2. QueueInv /\ PlaceInv
  BY DEF QueueInv, PlaceInv
<1>3. \A i \in Id, o \in Observer : Entries(observers, i, o) = {} /\ Adds(i, o) = {} /\ Removes(i, o) = {}
  BY DEF Entries, Adds, Removes
<1>4. Cardinality({}) = 0
  BY FS_EmptySet
<1>5. CountInv
  <2>1. \A i \in Id, o \in Observer : registered[i][o] = 0
    OBVIOUS
  <2> HIDE DEF NotificationInit
  <2>2. ASSUME NEW i \in Id, NEW o \in Observer
        PROVE  /\ Cardinality(Entries(observers, i, o)) = 0
               /\ Cardinality(Adds(i, o)) = 0 /\ Cardinality(Removes(i, o)) = 0
    BY <1>3, <1>4
  <2> QED
    BY <2>1, <2>2 DEF CountInv
<1>6. FreshInv
  BY DEF FreshInv
<1> QED
  BY <1>1, <1>2, <1>5, <1>6 DEF NotificationInv

------------------------------------------------------------------------------
(* addObserver() *)

\* What both ways of adding leave of the clients' knowledge.
LEMMA AddRegisters ==
  ASSUME NotificationInv, NEW i \in Id, NEW o \in Observer, AddObserver(i, o)
  PROVE  /\ callables + 1 \in 1..MaxCallables /\ registered[i][o] = 0
         /\ registered' \in [Id -> [Observer -> 0..MaxCallables]] /\ callables' \in 0..MaxCallables
         /\ \A j \in Id, p \in Observer :
              registered'[j][p] = IF j = i /\ p = o THEN callables + 1 ELSE registered[j][p]
<1>1. /\ callables \in 0..MaxCallables /\ callables < MaxCallables /\ MaxCallables \in Nat
      /\ registered \in [Id -> [Observer -> 0..MaxCallables]] /\ registered[i][o] = 0
  BY NotificationAssumption DEF NotificationInv, NotificationTypeOK, AddObserver
<1>2. registered' = [registered EXCEPT ![i][o] = callables + 1] /\ callables' = callables + 1
  BY DEF AddObserver
<1>3. callables + 1 \in 1..MaxCallables
  BY <1>1
<1> QED
  BY <1>1, <1>2, <1>3

\* addObserver() with no visit in progress appends the observer at once.
LEMMA AddBetweenVisits ==
  ASSUME NotificationInv, NEW i \in Id, NEW o \in Observer, AddObserver(i, o), visits = <<>>
  PROVE  NotificationInv'
<1> DEFINE q == [id |-> i, observer |-> o, callable |-> callables + 1]
           new == AddTo(observers, q)
<1>1. /\ observers \in Map /\ add = <<>> /\ remove = <<>>
      /\ readded \subseteq Id \X Observer /\ visits \in Seq(Visit) /\ Len(visits) <= MaxDepth
      /\ CountInv /\ FreshInv
  BY Waiting DEF NotificationInv, NotificationTypeOK, QueueInv
<1>2. /\ callables + 1 \in 1..MaxCallables /\ registered[i][o] = 0
      /\ registered' \in [Id -> [Observer -> 0..MaxCallables]] /\ callables' \in 0..MaxCallables
      /\ \A j \in Id, p \in Observer :
           registered'[j][p] = IF j = i /\ p = o THEN callables + 1 ELSE registered[j][p]
  BY AddRegisters
<1>3. /\ observers' = new /\ add' = <<>> /\ remove' = <<>> /\ visits' = <<>> /\ readded' = readded
  BY <1>1 DEF AddObserver
<1>4. q \in AddDesc /\ q.id = i /\ q.observer = o /\ q.callable = callables + 1
  BY <1>2 DEF AddDesc
<1> HIDE DEF q
<1>5. /\ new \in Map
      /\ \A j \in Id : \A k \in 1..Len(observers[j]) : new[j][k] = observers[j][k]
      /\ new[q.id][Len(observers[q.id]) + 1] = [observer |-> q.observer, callable |-> q.callable]
      /\ \A j \in Id, p \in Observer :
           Entries(new, j, p) = IF j = q.id /\ p = q.observer THEN Entries(observers, j, p) \cup {Len(observers[j]) + 1}
                                ELSE Entries(observers, j, p)
  BY <1>1, <1>4, AddToMap
<1> HIDE DEF new
<1>6. NotificationTypeOK'
  <2>1. /\ add' \in Seq([id : Id, observer : Observer, callable : 1..MaxCallables])
        /\ remove' \in Seq([id : Id, observer : Observer]) /\ DOMAIN visits' = {}
        /\ visits' \in Seq(Visit) /\ Len(visits') <= MaxDepth
    BY <1>1, <1>3
  <2> QED
    BY <1>1, <1>2, <1>3, <1>5, <2>1 DEF NotificationTypeOK, Map
<1>7. QueueInv' /\ PlaceInv'
  BY <1>3 DEF QueueInv, PlaceInv
<1>8. \A j, p : Adds(j, p) = {} /\ Removes(j, p) = {} /\ Adds(j, p)' = {} /\ Removes(j, p)' = {}
  BY <1>1, <1>3 DEF Adds, Removes
<1>9. Cardinality({}) = 0
  BY FS_EmptySet
<1>10. ASSUME NEW j \in Id, NEW p \in Observer
       PROVE  /\ IsFiniteSet(Entries(observers, j, p)) /\ Cardinality(Entries(observers, j, p)) \in Nat
              /\ Cardinality(Entries(observers, j, p)) = IF registered[j][p] = 0 THEN 0 ELSE 1
              /\ Entries(observers', j, p) = Entries(new, j, p)
              /\ Entries(observers, j, p) \subseteq 1..Len(observers[j])
  <2>1. /\ IsFiniteSet(Entries(observers, j, p)) /\ Cardinality(Entries(observers, j, p)) \in Nat
        /\ Entries(observers, j, p) \subseteq 1..Len(observers[j])
    BY <1>1, EntriesFinite
  <2>2. Cardinality(Entries(observers, j, p)) + Cardinality(Adds(j, p))
          = Cardinality(Removes(j, p)) + (IF registered[j][p] = 0 THEN 0 ELSE 1)
    BY <1>1 DEF CountInv
  <2>3. Cardinality(Adds(j, p)) = 0 /\ Cardinality(Removes(j, p)) = 0
    BY <1>8, <1>9
  <2> QED
    BY <1>3, <2>1, <2>2, <2>3
<1>11. Entries(observers, i, o) = {}
  BY <1>2, <1>10, AtMostOne
<1>12. Entries(new, i, o) = {Len(observers[i]) + 1} /\ Cardinality({Len(observers[i]) + 1}) = 1
  BY <1>4, <1>5, <1>11, FS_Singleton
<1>13. CountInv'
  <2> SUFFICES ASSUME NEW j \in Id, NEW p \in Observer
               PROVE  /\ Cardinality(Entries(observers', j, p)) <= 1
                      /\ Cardinality(Entries(observers', j, p)) + Cardinality(Adds(j, p)')
                           = Cardinality(Removes(j, p)') + (IF registered'[j][p] = 0 THEN 0 ELSE 1)
    BY DEF CountInv
  <2>1. Cardinality(Adds(j, p)') = 0 /\ Cardinality(Removes(j, p)') = 0
    BY <1>8, <1>9
  <2>2. CASE j = i /\ p = o
    <3>1. Cardinality(Entries(observers', j, p)) = 1 /\ registered'[j][p] = callables + 1
      BY <1>2, <1>10, <1>12, <2>2
    <3>2. callables + 1 # 0
      BY <1>2, NotificationAssumption
    <3> QED
      BY <2>1, <3>1, <3>2
  <2>3. CASE ~(j = i /\ p = o)
    <3>1. Entries(new, j, p) = Entries(observers, j, p)
      BY <1>4, <1>5, <2>3
    <3>2. Cardinality(Entries(observers', j, p)) = IF registered[j][p] = 0 THEN 0 ELSE 1
      BY <1>10, <3>1
    <3>3. registered'[j][p] = registered[j][p]
      BY <1>2, <2>3
    <3> QED
      BY <2>1, <3>2, <3>3
  <2> QED
    BY <2>2, <2>3
<1>14. FreshInv'
  <2> SUFFICES ASSUME NEW j \in Id, NEW p \in Observer, registered'[j][p] # 0, <<j, p>> \notin readded
               PROVE  \A k \in Entries(observers', j, p) : observers'[j][k].callable = registered'[j][p]
    BY <1>3, <1>8 DEF FreshInv
  <2>1. CASE j = i /\ p = o
    <3>1. new[i][Len(observers[i]) + 1].callable = callables + 1
      BY <1>4, <1>5
    <3> QED
      BY <1>2, <1>3, <1>12, <2>1, <3>1
  <2>2. CASE ~(j = i /\ p = o)
    <3>1. Entries(observers', j, p) = Entries(observers, j, p) /\ registered'[j][p] = registered[j][p]
      BY <1>2, <1>4, <1>5, <1>10, <2>2
    <3>2. \A k \in Entries(observers, j, p) : observers[j][k].callable = registered[j][p]
      BY <1>1, <1>8, <3>1 DEF FreshInv
    <3> QED
      BY <1>3, <1>5, <1>10, <3>1, <3>2
  <2> QED
    BY <2>1, <2>2
<1> QED
  BY <1>6, <1>7, <1>13, <1>14 DEF NotificationInv

\* addObserver() inside a visit queues the observer.
LEMMA AddInVisit ==
  ASSUME NotificationInv, NEW i \in Id, NEW o \in Observer, AddObserver(i, o), visits # <<>>
  PROVE  NotificationInv'
<1> DEFINE q == [id |-> i, observer |-> o, callable |-> callables + 1]
           L == Len(add)
<1>1. /\ add \in Seq(AddDesc) /\ remove \in Seq(RemoveDesc) /\ L \in Nat
      /\ CountInv /\ FreshInv /\ PlaceInv /\ NotificationTypeOK
  BY Waiting DEF NotificationInv
<1>2. /\ callables + 1 \in 1..MaxCallables /\ registered[i][o] = 0
      /\ registered' \in [Id -> [Observer -> 0..MaxCallables]] /\ callables' \in 0..MaxCallables
      /\ \A j \in Id, p \in Observer :
           registered'[j][p] = IF j = i /\ p = o THEN callables + 1 ELSE registered[j][p]
  BY AddRegisters
<1>3. /\ observers' = observers /\ add' = Append(add, q) /\ remove' = remove /\ visits' = visits
      /\ readded' = readded
  BY DEF AddObserver
<1>4. q \in AddDesc /\ q.id = i /\ q.observer = o /\ q.callable = callables + 1
  BY <1>2 DEF AddDesc
<1> HIDE DEF q
<1>5. /\ add' \in Seq(AddDesc) /\ DOMAIN add' = 1..(L + 1) /\ DOMAIN add = 1..L
      /\ \A n \in 1..L : add'[n] = add[n]
      /\ add'[L + 1] = q
  BY <1>1, <1>3, <1>4, AppendProperties
<1>6. 1..(L + 1) = 1..L \cup {L + 1}
  BY <1>1
<1>7. NotificationTypeOK'
  BY <1>1, <1>2, <1>3, <1>5 DEF NotificationTypeOK, AddDesc
<1>8. QueueInv' /\ PlaceInv'
  BY <1>1, <1>3 DEF QueueInv, PlaceInv
<1>9. ASSUME NEW j, NEW p
      PROVE  /\ Removes(j, p)' = Removes(j, p) /\ Entries(observers', j, p) = Entries(observers, j, p)
             /\ Adds(j, p)' = IF j = i /\ p = o THEN Adds(j, p) \cup {L + 1} ELSE Adds(j, p)
             /\ Adds(j, p) \subseteq 1..L
  <2>1. Adds(j, p) = {n \in 1..L : add[n].id = j /\ add[n].observer = p}
    BY <1>5 DEF Adds
  <2>2. Adds(j, p)' = {n \in 1..(L + 1) : add'[n].id = j /\ add'[n].observer = p}
    BY <1>5 DEF Adds
  <2>3. Removes(j, p)' = Removes(j, p) /\ Entries(observers', j, p) = Entries(observers, j, p)
    BY <1>3 DEF Removes
  <2> QED
    BY <1>4, <1>5, <1>6, <2>1, <2>2, <2>3
<1>10. CountInv'
  <2> SUFFICES ASSUME NEW j \in Id, NEW p \in Observer
               PROVE  /\ Cardinality(Entries(observers', j, p)) <= 1
                      /\ Cardinality(Entries(observers', j, p)) + Cardinality(Adds(j, p)')
                           = Cardinality(Removes(j, p)') + (IF registered'[j][p] = 0 THEN 0 ELSE 1)
    BY DEF CountInv
  <2>1. /\ Cardinality(Entries(observers, j, p)) <= 1
        /\ Cardinality(Entries(observers, j, p)) + Cardinality(Adds(j, p))
             = Cardinality(Removes(j, p)) + (IF registered[j][p] = 0 THEN 0 ELSE 1)
    BY <1>1 DEF CountInv
  <2>2. /\ IsFiniteSet(Adds(j, p)) /\ Cardinality(Adds(j, p)) \in Nat /\ Cardinality(Removes(j, p)) \in Nat
    BY <1>1, Waiting
  <2>3. Cardinality(Entries(observers, j, p)) \in Nat
    BY <1>1, Waiting, EntriesFinite
  <2>4. CASE j = i /\ p = o
    <3>1. L + 1 \notin Adds(j, p) /\ Adds(j, p)' = Adds(j, p) \cup {L + 1}
      BY <1>1, <1>9, <2>4
    <3>2. Cardinality(Adds(j, p)') = Cardinality(Adds(j, p)) + 1
      BY <2>2, <3>1, FS_AddElement
    <3>3. registered'[j][p] # 0 /\ registered[j][p] = 0
      BY <1>2, <2>4, NotificationAssumption
    <3> QED
      BY <1>9, <2>1, <2>2, <2>3, <3>2, <3>3
  <2>5. CASE ~(j = i /\ p = o)
    BY <1>2, <1>9, <2>1, <2>5
  <2> QED
    BY <2>4, <2>5
<1>11. FreshInv'
  <2> SUFFICES ASSUME NEW j \in Id, NEW p \in Observer, registered'[j][p] # 0
               PROVE  /\ Adds(j, p)' = {} /\ <<j, p>> \notin readded =>
                           \A k \in Entries(observers', j, p) : observers'[j][k].callable = registered'[j][p]
                      /\ \A n \in Adds(j, p)' :
                           (\A m \in Adds(j, p)' : m <= n) => add'[n].callable = registered'[j][p]
    BY <1>3 DEF FreshInv
  <2>1. CASE j = i /\ p = o
    <3>1. Adds(j, p)' = Adds(j, p) \cup {L + 1} /\ Adds(j, p) \subseteq 1..L
      BY <1>9, <2>1
    <3>2. registered'[j][p] = callables + 1 /\ add'[L + 1].callable = callables + 1
      BY <1>2, <1>4, <1>5, <2>1
    <3>3. ASSUME NEW n \in Adds(j, p)', \A m \in Adds(j, p)' : m <= n PROVE n = L + 1
      <4>1. n \in 1..L \/ n = L + 1
        BY <3>1
      <4>2. L + 1 <= n
        BY <3>1, <3>3
      <4> QED
        BY <1>1, <4>1, <4>2
    <3> QED
      BY <3>1, <3>2, <3>3
  <2>2. CASE ~(j = i /\ p = o)
    <3>1. registered'[j][p] = registered[j][p] /\ Adds(j, p)' = Adds(j, p) /\ Adds(j, p) \subseteq 1..L
      BY <1>2, <1>9, <2>2
    <3>2. \A n \in Adds(j, p) : add'[n] = add[n]
      BY <1>5, <3>1
    <3>3. /\ Adds(j, p) = {} /\ <<j, p>> \notin readded =>
               \A k \in Entries(observers, j, p) : observers[j][k].callable = registered[j][p]
          /\ \A n \in Adds(j, p) : (\A m \in Adds(j, p) : m <= n) => add[n].callable = registered[j][p]
      BY <1>1, <3>1 DEF FreshInv
    <3>4. Entries(observers', j, p) = Entries(observers, j, p)
      BY <1>9
    <3>5. ASSUME NEW n \in Adds(j, p)', \A m \in Adds(j, p)' : m <= n PROVE add'[n].callable = registered'[j][p]
      <4>1. n \in Adds(j, p) /\ \A m \in Adds(j, p) : m <= n
        BY <3>1, <3>5
      <4> QED
        BY <3>1, <3>2, <3>3, <4>1
    <3> QED
      BY <1>3, <3>1, <3>3, <3>4, <3>5
  <2> QED
    BY <2>1, <2>2
<1> QED
  BY <1>7, <1>8, <1>10, <1>11 DEF NotificationInv

------------------------------------------------------------------------------
(* removeObserver() *)

\* removeObserver() with no visit in progress erases the observer at once.
LEMMA RemoveBetweenVisits ==
  ASSUME NotificationInv, NEW i \in Id, NEW o \in Observer, RemoveObserver(i, o), visits = <<>>
  PROVE  NotificationInv'
<1> DEFINE q == [id |-> i, observer |-> o]
           new == RemoveFrom(observers, q)
<1>1. /\ observers \in Map /\ add = <<>> /\ remove = <<>>
      /\ readded \subseteq Id \X Observer /\ visits \in Seq(Visit) /\ Len(visits) <= MaxDepth
      /\ callables \in 0..MaxCallables /\ registered \in [Id -> [Observer -> 0..MaxCallables]]
      /\ CountInv /\ FreshInv
  BY Waiting DEF NotificationInv, NotificationTypeOK, QueueInv
<1>2. /\ observers' = new /\ add' = <<>> /\ remove' = <<>> /\ visits' = <<>>
      /\ readded' = readded \ {<<i, o>>} /\ callables' = callables
      /\ registered' = [registered EXCEPT ![i][o] = 0] /\ registered[i][o] # 0
  BY <1>1 DEF RemoveObserver
<1>3. /\ registered' \in [Id -> [Observer -> 0..MaxCallables]]
      /\ \A j \in Id, p \in Observer :
           registered'[j][p] = IF j = i /\ p = o THEN 0 ELSE registered[j][p]
  BY <1>1, <1>2, NotificationAssumption
<1>4. q \in RemoveDesc /\ q.id = i /\ q.observer = o
  BY DEF RemoveDesc
<1> HIDE DEF q
<1>5. /\ new \in Map
      /\ \A j \in Id, p \in Observer : \A k \in Entries(new, j, p) :
           \E m \in Entries(observers, j, p) :
             /\ new[j][k] = observers[j][m]
             /\ j = q.id /\ p = q.observer => \E n \in Entries(observers, j, p) : n < m
      /\ \A j \in Id, p \in Observer :
           Cardinality(Entries(new, j, p)) =
             IF j = q.id /\ p = q.observer /\ Entries(observers, j, p) # {}
             THEN Cardinality(Entries(observers, j, p)) - 1 ELSE Cardinality(Entries(observers, j, p))
  BY <1>1, <1>4, RemoveFromMap
<1> HIDE DEF new
<1>6. NotificationTypeOK'
  <2>1. /\ add' \in Seq([id : Id, observer : Observer, callable : 1..MaxCallables])
        /\ remove' \in Seq([id : Id, observer : Observer]) /\ DOMAIN visits' = {}
        /\ visits' \in Seq(Visit) /\ Len(visits') <= MaxDepth
        /\ readded' \subseteq Id \X Observer
    BY <1>1, <1>2
  <2> QED
    BY <1>1, <1>2, <1>3, <1>5, <2>1 DEF NotificationTypeOK, Map
<1>7. QueueInv' /\ PlaceInv'
  BY <1>2 DEF QueueInv, PlaceInv
<1>8. \A j, p : Adds(j, p) = {} /\ Removes(j, p) = {} /\ Adds(j, p)' = {} /\ Removes(j, p)' = {}
  BY <1>1, <1>2 DEF Adds, Removes
<1>9. Cardinality({}) = 0
  BY FS_EmptySet
<1>10. ASSUME NEW j \in Id, NEW p \in Observer
       PROVE  /\ Cardinality(Entries(observers, j, p)) = IF registered[j][p] = 0 THEN 0 ELSE 1
              /\ Entries(observers', j, p) = Entries(new, j, p)
  <2>1. Cardinality(Entries(observers, j, p)) \in Nat
    BY <1>1, EntriesFinite
  <2>2. Cardinality(Entries(observers, j, p)) + Cardinality(Adds(j, p))
          = Cardinality(Removes(j, p)) + (IF registered[j][p] = 0 THEN 0 ELSE 1)
    BY <1>1 DEF CountInv
  <2>3. Cardinality(Adds(j, p)) = 0 /\ Cardinality(Removes(j, p)) = 0
    BY <1>8, <1>9
  <2> QED
    BY <1>2, <2>1, <2>2, <2>3
<1>11. CountInv'
  <2> SUFFICES ASSUME NEW j \in Id, NEW p \in Observer
               PROVE  /\ Cardinality(Entries(observers', j, p)) <= 1
                      /\ Cardinality(Entries(observers', j, p)) + Cardinality(Adds(j, p)')
                           = Cardinality(Removes(j, p)') + (IF registered'[j][p] = 0 THEN 0 ELSE 1)
    BY DEF CountInv
  <2>1. Cardinality(Adds(j, p)') = 0 /\ Cardinality(Removes(j, p)') = 0
    BY <1>8, <1>9
  <2>2. CASE j = i /\ p = o
    <3>1. Cardinality(Entries(observers, j, p)) = 1
      BY <1>2, <1>10, <2>2
    <3>2. Entries(observers, j, p) # {}
      <4> SUFFICES ASSUME Entries(observers, j, p) = {} PROVE FALSE
        OBVIOUS
      <4>1. Cardinality(Entries(observers, j, p)) = 0
        BY <1>9
      <4> QED
        BY <3>1, <4>1
    <3>3. Cardinality(Entries(observers', j, p)) = 0
      BY <1>4, <1>5, <1>10, <2>2, <3>1, <3>2
    <3> QED
      BY <1>3, <2>1, <2>2, <3>3
  <2>3. CASE ~(j = i /\ p = o)
    <3>1. Cardinality(Entries(observers', j, p)) = IF registered[j][p] = 0 THEN 0 ELSE 1
      BY <1>4, <1>5, <1>10, <2>3
    <3> QED
      BY <1>3, <2>1, <2>3, <3>1
  <2> QED
    BY <2>2, <2>3
<1>12. FreshInv'
  <2> SUFFICES ASSUME NEW j \in Id, NEW p \in Observer, registered'[j][p] # 0, <<j, p>> \notin readded',
                      NEW k \in Entries(observers', j, p)
               PROVE  observers'[j][k].callable = registered'[j][p]
    BY <1>8 DEF FreshInv
  <2>1. ~(j = i /\ p = o) /\ registered'[j][p] = registered[j][p]
    BY <1>3
  <2>2. <<j, p>> \notin readded
    <3>1. <<j, p>> # <<i, o>>
      BY <2>1
    <3> QED
      BY <1>2, <3>1
  <2>3. PICK m \in Entries(observers, j, p) : new[j][k] = observers[j][m]
    BY <1>5, <1>10
  <2>4. observers[j][m].callable = registered[j][p]
    BY <1>1, <1>8, <2>1, <2>2 DEF FreshInv
  <2> QED
    BY <1>2, <2>1, <2>3, <2>4
<1> QED
  BY <1>6, <1>7, <1>11, <1>12 DEF NotificationInv

\* removeObserver() inside a visit queues the removal.
LEMMA RemoveInVisit ==
  ASSUME NotificationInv, NEW i \in Id, NEW o \in Observer, RemoveObserver(i, o), visits # <<>>
  PROVE  NotificationInv'
<1> DEFINE q == [id |-> i, observer |-> o]
           L == Len(remove)
<1>1. /\ add \in Seq(AddDesc) /\ remove \in Seq(RemoveDesc) /\ L \in Nat
      /\ registered \in [Id -> [Observer -> 0..MaxCallables]]
      /\ CountInv /\ FreshInv /\ PlaceInv /\ NotificationTypeOK
  BY Waiting DEF NotificationInv, NotificationTypeOK
<1>2. /\ observers' = observers /\ add' = add /\ remove' = Append(remove, q) /\ visits' = visits
      /\ readded' = readded /\ callables' = callables
      /\ registered' = [registered EXCEPT ![i][o] = 0] /\ registered[i][o] # 0
  BY DEF RemoveObserver
<1>3. /\ registered' \in [Id -> [Observer -> 0..MaxCallables]]
      /\ \A j \in Id, p \in Observer :
           registered'[j][p] = IF j = i /\ p = o THEN 0 ELSE registered[j][p]
  BY <1>1, <1>2, NotificationAssumption
<1>4. q \in RemoveDesc /\ q.id = i /\ q.observer = o
  BY DEF RemoveDesc
<1> HIDE DEF q
<1>5. /\ remove' \in Seq(RemoveDesc) /\ DOMAIN remove' = 1..(L + 1) /\ DOMAIN remove = 1..L
      /\ \A n \in 1..L : remove'[n] = remove[n]
      /\ remove'[L + 1] = q
  BY <1>1, <1>2, <1>4, AppendProperties
<1>6. 1..(L + 1) = 1..L \cup {L + 1}
  BY <1>1
<1>7. NotificationTypeOK'
  BY <1>1, <1>2, <1>3, <1>5 DEF NotificationTypeOK, RemoveDesc
<1>8. QueueInv' /\ PlaceInv'
  BY <1>1, <1>2 DEF QueueInv, PlaceInv
<1>9. ASSUME NEW j, NEW p
      PROVE  /\ Adds(j, p)' = Adds(j, p) /\ Entries(observers', j, p) = Entries(observers, j, p)
             /\ Removes(j, p)' = IF j = i /\ p = o THEN Removes(j, p) \cup {L + 1} ELSE Removes(j, p)
             /\ Removes(j, p) \subseteq 1..L
  <2>1. Removes(j, p) = {n \in 1..L : remove[n].id = j /\ remove[n].observer = p}
    BY <1>5 DEF Removes
  <2>2. Removes(j, p)' = {n \in 1..(L + 1) : remove'[n].id = j /\ remove'[n].observer = p}
    BY <1>5 DEF Removes
  <2>3. Adds(j, p)' = Adds(j, p) /\ Entries(observers', j, p) = Entries(observers, j, p)
    BY <1>2 DEF Adds
  <2> QED
    BY <1>4, <1>5, <1>6, <2>1, <2>2, <2>3
<1>10. CountInv'
  <2> SUFFICES ASSUME NEW j \in Id, NEW p \in Observer
               PROVE  /\ Cardinality(Entries(observers', j, p)) <= 1
                      /\ Cardinality(Entries(observers', j, p)) + Cardinality(Adds(j, p)')
                           = Cardinality(Removes(j, p)') + (IF registered'[j][p] = 0 THEN 0 ELSE 1)
    BY DEF CountInv
  <2>1. /\ Cardinality(Entries(observers, j, p)) <= 1
        /\ Cardinality(Entries(observers, j, p)) + Cardinality(Adds(j, p))
             = Cardinality(Removes(j, p)) + (IF registered[j][p] = 0 THEN 0 ELSE 1)
    BY <1>1 DEF CountInv
  <2>2. /\ IsFiniteSet(Removes(j, p)) /\ Cardinality(Adds(j, p)) \in Nat /\ Cardinality(Removes(j, p)) \in Nat
    BY <1>1, Waiting
  <2>3. CASE j = i /\ p = o
    <3>1. L + 1 \notin Removes(j, p) /\ Removes(j, p)' = Removes(j, p) \cup {L + 1}
      BY <1>1, <1>9, <2>3
    <3>2. Cardinality(Removes(j, p)') = Cardinality(Removes(j, p)) + 1
      BY <2>2, <3>1, FS_AddElement
    <3>3. registered'[j][p] = 0 /\ registered[j][p] # 0
      BY <1>2, <1>3, <2>3
    <3> QED
      BY <1>9, <2>1, <2>2, <3>2, <3>3
  <2>4. CASE ~(j = i /\ p = o)
    BY <1>3, <1>9, <2>1, <2>4
  <2> QED
    BY <2>3, <2>4
<1>11. FreshInv'
  <2> SUFFICES ASSUME NEW j \in Id, NEW p \in Observer, registered'[j][p] # 0
               PROVE  /\ Adds(j, p)' = {} /\ <<j, p>> \notin readded =>
                           \A k \in Entries(observers', j, p) : observers'[j][k].callable = registered'[j][p]
                      /\ \A n \in Adds(j, p)' :
                           (\A m \in Adds(j, p)' : m <= n) => add'[n].callable = registered'[j][p]
    BY <1>2 DEF FreshInv
  <2>1. registered'[j][p] = registered[j][p] /\ registered[j][p] # 0
    BY <1>3
  <2>2. /\ Adds(j, p) = {} /\ <<j, p>> \notin readded =>
             \A k \in Entries(observers, j, p) : observers[j][k].callable = registered[j][p]
        /\ \A n \in Adds(j, p) : (\A m \in Adds(j, p) : m <= n) => add[n].callable = registered[j][p]
    BY <1>1, <2>1 DEF FreshInv
  <2>3. Entries(observers', j, p) = Entries(observers, j, p) /\ Adds(j, p)' = Adds(j, p)
    BY <1>9
  <2> QED
    BY <1>2, <2>1, <2>2, <2>3
<1> QED
  BY <1>7, <1>8, <1>10, <1>11 DEF NotificationInv

------------------------------------------------------------------------------
(* The visits *)

\* What does not change keeps what is said of it.
LEMMA ListsKept ==
  ASSUME CountInv, FreshInv, observers' = observers, add' = add, remove' = remove,
         registered' = registered, readded' = readded
  PROVE  CountInv' /\ FreshInv'
<1>1. \A i, o : Adds(i, o)' = Adds(i, o) /\ Removes(i, o)' = Removes(i, o)
  BY DEF Adds, Removes
<1>2. CountInv'
  BY <1>1 DEF CountInv
<1>3. FreshInv'
  BY <1>1 DEF FreshInv
<1> QED
  BY <1>2, <1>3

\* The steps of a visit that leave the lists and the queues alone.
LEMMA VisitKeeps ==
  ASSUME NotificationInv, UNCHANGED <<observers, queues, clients>>, visits' # <<>>,
         visits' \in Seq(Visit), Len(visits') <= MaxDepth,
         \A n \in DOMAIN visits' :
           /\ visits'[n].pos <= Len(observers[visits'[n].id]) + 1
           /\ visits'[n].calling => visits'[n].pos <= Len(observers[visits'[n].id])
  PROVE  NotificationInv'
<1>1. /\ observers' = observers /\ add' = add /\ remove' = remove
      /\ registered' = registered /\ callables' = callables /\ readded' = readded
  BY DEF queues, clients
<1>2. NotificationTypeOK'
  BY <1>1 DEF NotificationInv, NotificationTypeOK
<1>3. QueueInv' /\ PlaceInv'
  BY <1>1 DEF NotificationInv, QueueInv, PlaceInv
<1>4. CountInv' /\ FreshInv'
  BY <1>1, ListsKept DEF NotificationInv
<1> QED
  BY <1>2, <1>3, <1>4 DEF NotificationInv

\* What the invariant says of the innermost visit.
LEMMA Innermost ==
  ASSUME NotificationInv
  PROVE  /\ visits \in Seq(Visit) /\ Len(visits) \in Nat /\ Len(visits) <= MaxDepth /\ MaxDepth \in Nat
         /\ DOMAIN visits = 1..Len(visits)
         /\ \A n \in DOMAIN visits :
              /\ visits[n] \in Visit /\ visits[n].pos <= Len(observers[visits[n].id]) + 1
              /\ visits[n].calling => visits[n].pos <= Len(observers[visits[n].id])
         /\ \A i \in Id : Len(observers[i]) \in Nat
         /\ visits # <<>> => Len(visits) \in DOMAIN visits
<1>1. /\ visits \in Seq(Visit) /\ Len(visits) <= MaxDepth
      /\ \A n \in DOMAIN visits :
              /\ visits[n].pos <= Len(observers[visits[n].id]) + 1
              /\ visits[n].calling => visits[n].pos <= Len(observers[visits[n].id])
  BY DEF NotificationInv, NotificationTypeOK, PlaceInv
<1>2. \A i \in Id : observers[i] \in Seq(Desc)
  BY DEF NotificationInv, NotificationTypeOK
<1>3. \A i \in Id : Len(observers[i]) \in Nat
  BY <1>2
<1>4. /\ Len(visits) \in Nat /\ DOMAIN visits = 1..Len(visits) /\ \A n \in DOMAIN visits : visits[n] \in Visit
      /\ visits # <<>> => Len(visits) \in DOMAIN visits
  BY <1>1
<1> QED
  BY <1>1, <1>3, <1>4, NotificationAssumption

\* The innermost visit goes on inside its list.
LEMMA TopGoesOn ==
  ASSUME NotificationInv, NEW visit \in Visit, visits # <<>>, SetTop(visit),
         UNCHANGED <<observers, queues, clients>>,
         visit.pos <= Len(observers[visit.id]) + 1,
         visit.calling => visit.pos <= Len(observers[visit.id])
  PROVE  NotificationInv'
<1>1. visits' = [visits EXCEPT ![Len(visits)] = visit]
  BY DEF SetTop
<1>2. visits' \in Seq(Visit) /\ Len(visits') = Len(visits) /\ DOMAIN visits' = DOMAIN visits
  BY <1>1, Innermost
<1>3. visits' # <<>>
  BY <1>2, Innermost
<1>4. \A n \in DOMAIN visits' : visits'[n] = IF n = Len(visits) THEN visit ELSE visits[n]
  BY <1>1, <1>2
<1>5. \A n \in DOMAIN visits' :
        /\ visits'[n].pos <= Len(observers[visits'[n].id]) + 1
        /\ visits'[n].calling => visits'[n].pos <= Len(observers[visits'[n].id])
  BY <1>2, <1>4, Innermost
<1> QED
  BY <1>2, <1>3, <1>5, Innermost, VisitKeeps

\* notify() begins a visit of the list of its id.
LEMMA BeginVisitKeeps ==
  ASSUME NotificationInv, NEW i \in Id, BeginVisit(i)
  PROVE  NotificationInv'
<1> DEFINE visit == [id |-> i, pos |-> 1, calling |-> FALSE]
           L == Len(visits)
<1>1. visits' = Append(visits, visit) /\ UNCHANGED <<observers, queues, clients>> /\ L < MaxDepth
  BY DEF BeginVisit
<1>2. visit \in Visit /\ visit.id = i /\ visit.pos = 1 /\ visit.calling = FALSE
  BY DEF Visit
<1> HIDE DEF visit
<1>3. /\ visits' \in Seq(Visit) /\ Len(visits') = L + 1 /\ L \in Nat /\ DOMAIN visits' = 1..(L + 1)
      /\ DOMAIN visits = 1..L
      /\ \A n \in 1..L : visits'[n] = visits[n]
      /\ visits'[L + 1] = visit
  BY <1>1, <1>2, Innermost, AppendProperties
<1>4. \A n \in 1..(L + 1) : n \in 1..L \/ n = L + 1
  BY <1>3
<1>5. 1 <= Len(observers[i]) + 1
  BY Innermost
<1>6. \A n \in DOMAIN visits' :
        /\ visits'[n].pos <= Len(observers[visits'[n].id]) + 1
        /\ visits'[n].calling => visits'[n].pos <= Len(observers[visits'[n].id])
  <2> TAKE n \in DOMAIN visits'
  <2>1. CASE n \in 1..L
    BY <1>3, <2>1, Innermost
  <2>2. CASE n = L + 1
    BY <1>2, <1>3, <1>5, <2>2
  <2> QED
    BY <1>3, <1>4, <2>1, <2>2
<1>7. Len(visits') <= MaxDepth /\ visits' # <<>>
  BY <1>1, <1>3, Innermost
<1> QED
  BY <1>1, <1>3, <1>6, <1>7, VisitKeeps

\* A visit calls its next entry.
LEMMA CallKeeps ==
  ASSUME NotificationInv, Call
  PROVE  NotificationInv'
<1> DEFINE visit == [Top EXCEPT !.calling = TRUE]
<1>1. Top \in Visit /\ Top.pos <= Len(observers[Top.id]) /\ Len(observers[Top.id]) \in Nat /\ visits # <<>>
  BY Innermost DEF Call, Top, Visit
<1>2. visit \in Visit /\ visit.pos = Top.pos /\ visit.id = Top.id
  BY <1>1 DEF Visit
<1>3. SetTop(visit) /\ UNCHANGED <<observers, queues, clients>>
  BY DEF Call
<1>4. Top.pos \in Nat
  BY <1>1 DEF Visit
<1> HIDE DEF visit
<1>5. visit.pos <= Len(observers[visit.id]) + 1
  BY <1>1, <1>2, <1>4
<1> QED
  BY <1>1, <1>2, <1>3, <1>5, TopGoesOn

\* A call returns to the visit that made it.
LEMMA CallReturnsKeeps ==
  ASSUME NotificationInv, CallReturns
  PROVE  NotificationInv'
<1> DEFINE visit == [Top EXCEPT !.calling = FALSE, !.pos = @ + 1]
<1>1. Top \in Visit /\ Top.pos <= Len(observers[Top.id]) /\ Len(observers[Top.id]) \in Nat /\ visits # <<>>
  BY Innermost DEF CallReturns, Top, Visit
<1>2. visit \in Visit /\ visit.pos = Top.pos + 1 /\ visit.id = Top.id /\ visit.calling = FALSE
  <2>1. Top.pos \in Nat \ {0} /\ Top.pos + 1 \in Nat \ {0} /\ Top.id \in Id
    BY <1>1 DEF Visit
  <2>2. PICK p \in Nat \ {0} : p = Top.pos + 1
    BY <2>1
  <2>3. visit = [Top EXCEPT !.calling = FALSE, !.pos = p]
    BY <2>2
  <2>4. visit \in Visit /\ visit.pos = p /\ visit.id = Top.id /\ visit.calling = FALSE
    <3> HIDE DEF Top
    <3> QED
      BY <1>1, <2>2, <2>3 DEF Visit
  <2> QED
    BY <2>2, <2>4
<1>3. SetTop(visit) /\ UNCHANGED <<observers, queues, clients>>
  BY DEF CallReturns
<1>4. Top.pos \in Nat
  BY <1>1 DEF Visit
<1> HIDE DEF visit
<1>5. visit.pos <= Len(observers[visit.id]) + 1
  BY <1>1, <1>2, <1>4
<1> QED
  BY <1>1, <1>2, <1>3, <1>5, TopGoesOn

\* A visit is over, and the outermost one applies what was queued.
LEMMA EndVisitKeeps ==
  ASSUME NotificationInv, EndVisit
  PROVE  NotificationInv'
<1>1. visits' = Front(visits) /\ visits # <<>>
  BY DEF EndVisit
<1>2. /\ visits' \in Seq(Visit) /\ Len(visits') = Len(visits) - 1 /\ DOMAIN visits' = 1..(Len(visits) - 1)
      /\ \A n \in 1..(Len(visits) - 1) : visits'[n] = visits[n]
  BY <1>1, Innermost, WithoutLast
<1>3. \A n \in DOMAIN visits' : n \in DOMAIN visits /\ visits'[n] = visits[n]
  BY <1>2, Innermost
<1>4. Len(visits') <= MaxDepth
  BY <1>2, Innermost
<1>5. CASE visits' # <<>>
  <2>1. UNCHANGED <<observers, queues, clients>>
    BY <1>5 DEF EndVisit, clients
  <2>2. \A n \in DOMAIN visits' :
          /\ visits'[n].pos <= Len(observers[visits'[n].id]) + 1
          /\ visits'[n].calling => visits'[n].pos <= Len(observers[visits'[n].id])
    BY <1>3, Innermost
  <2> QED
    BY <1>1, <1>2, <1>4, <1>5, <2>1, <2>2, VisitKeeps
<1>6. CASE visits' = <<>>
  <2>1. /\ observers' = Apply(observers) /\ add' = <<>> /\ remove' = <<>>
        /\ readded' = readded \cup Readded /\ registered' = registered /\ callables' = callables
    BY <1>6 DEF EndVisit
  <2>2. NotificationTypeOK /\ CountInv /\ FreshInv
    BY DEF NotificationInv
  <2>3. /\ Apply(observers) \in Map
        /\ \A i \in Id, o \in Observer :
             /\ Cardinality(Entries(Apply(observers), i, o)) = IF registered[i][o] = 0 THEN 0 ELSE 1
             /\ registered[i][o] # 0 /\ <<i, o>> \notin readded \cup Readded =>
                  \A k \in Entries(Apply(observers), i, o) : Apply(observers)[i][k].callable = registered[i][o]
    BY <2>2, AppliedKeeps
  <2>4. NotificationTypeOK'
    <3>1. /\ add' \in Seq([id : Id, observer : Observer, callable : 1..MaxCallables])
          /\ remove' \in Seq([id : Id, observer : Observer]) /\ DOMAIN visits' = {}
      BY <1>6, <2>1
    <3>2. readded' \subseteq Id \X Observer
      BY <2>1, <2>2 DEF NotificationTypeOK, Readded
    <3>3. observers' \in [Id -> Seq(Desc)]
      BY <2>1, <2>3 DEF Map
    <3>4. registered' \in [Id -> [Observer -> 0..MaxCallables]] /\ callables' \in 0..MaxCallables
      BY <2>1, <2>2 DEF NotificationTypeOK
    <3> QED
      BY <1>2, <1>4, <3>1, <3>2, <3>3, <3>4 DEF NotificationTypeOK
  <2>5. QueueInv' /\ PlaceInv'
    BY <1>6, <2>1 DEF QueueInv, PlaceInv
  <2>6. \A i, o : Adds(i, o)' = {} /\ Removes(i, o)' = {}
    BY <2>1 DEF Adds, Removes
  <2>7. CountInv'
    <3>1. Cardinality({}) = 0
      BY FS_EmptySet
    <3>2. \A i \in Id, o \in Observer :
            /\ Cardinality(Entries(observers', i, o)) = IF registered'[i][o] = 0 THEN 0 ELSE 1
            /\ Cardinality(Adds(i, o)') = 0 /\ Cardinality(Removes(i, o)') = 0
      BY <2>1, <2>3, <2>6, <3>1
    <3>3. \A i \in Id, o \in Observer :
            /\ Cardinality(Entries(observers', i, o)) <= 1
            /\ Cardinality(Entries(observers', i, o)) + Cardinality(Adds(i, o)')
                 = Cardinality(Removes(i, o)') + (IF registered'[i][o] = 0 THEN 0 ELSE 1)
      BY <3>2
    <3> QED
      BY <3>3 DEF CountInv
  <2>8. FreshInv'
    <3>1. ASSUME NEW i \in Id, NEW o \in Observer, registered'[i][o] # 0
          PROVE  /\ Adds(i, o)' = {}
                 /\ <<i, o>> \notin readded' =>
                      \A k \in Entries(observers', i, o) : observers'[i][k].callable = registered'[i][o]
      BY <2>1, <2>3, <2>6, <3>1
    <3> QED
      BY <3>1 DEF FreshInv
  <2> QED
    BY <2>4, <2>5, <2>7, <2>8 DEF NotificationInv
<1> QED
  BY <1>5, <1>6

------------------------------------------------------------------------------
(* The theorems *)

\* The invariant of the lists and the queues holds for every number of ids,
\* observers, callables and nested visits.
THEOREM NotificationInductive == NotificationSpec => []NotificationInv
<1>1. NotificationInv /\ [NotificationNext]_notificationVars => NotificationInv'
  <2> SUFFICES ASSUME NotificationInv, [NotificationNext]_notificationVars PROVE NotificationInv'
    OBVIOUS
  <2>1. CASE Clients
    <3>1. PICK i \in Id : (\E o \in Observer : AddObserver(i, o) \/ RemoveObserver(i, o)) \/ BeginVisit(i)
      BY <2>1 DEF Clients
    <3>2. ASSUME NEW o \in Observer, AddObserver(i, o) PROVE NotificationInv'
      BY <3>2, AddBetweenVisits, AddInVisit
    <3>3. ASSUME NEW o \in Observer, RemoveObserver(i, o) PROVE NotificationInv'
      BY <3>3, RemoveBetweenVisits, RemoveInVisit
    <3> QED
      BY <3>1, <3>2, <3>3, BeginVisitKeeps
  <2>2. CASE UNCHANGED notificationVars
    <3>1. /\ observers' = observers /\ add' = add /\ remove' = remove /\ visits' = visits
          /\ registered' = registered /\ callables' = callables /\ readded' = readded
      BY <2>2 DEF notificationVars, queues, clients
    <3>2. NotificationTypeOK' /\ QueueInv' /\ PlaceInv'
      BY <3>1 DEF NotificationInv, NotificationTypeOK, QueueInv, PlaceInv
    <3> QED
      BY <3>1, <3>2, ListsKept DEF NotificationInv
  <2> QED
    BY <2>1, <2>2, CallKeeps, CallReturnsKeeps, EndVisitKeeps DEF NotificationNext
<1> QED
  BY <1>1, NotificationInitial, PTL DEF NotificationSpec

\* The state of the service keeps its types.
THEOREM NotificationTypeCorrect == NotificationSpec => []NotificationTypeOK
<1>1. NotificationInv => NotificationTypeOK
  BY DEF NotificationInv
<1> QED
  BY <1>1, NotificationInductive, PTL

\* Between visits an observer is listed once exactly if it was added last, with that
\* callable, and not at all if it was removed last, but for those a visit readded.
THEOREM LastAdded == NotificationSpec => []LastAddedStays
<1>1. NotificationInv => LastAddedStays
  <2> SUFFICES ASSUME NotificationInv, visits = <<>> PROVE LastAddedStays
    BY DEF LastAddedStays
  <2>1. add = <<>> /\ remove = <<>> /\ CountInv /\ FreshInv /\ observers \in Map
    BY Waiting DEF NotificationInv, QueueInv
  <2>2. \A i, o : Adds(i, o) = {} /\ Removes(i, o) = {}
    BY <2>1 DEF Adds, Removes
  <2>3. Cardinality({}) = 0
    BY FS_EmptySet
  <2>4. ASSUME NEW i \in Id, NEW o \in Observer
        PROVE  /\ Cardinality(Entries(observers, i, o)) = IF registered[i][o] = 0 THEN 0 ELSE 1
               /\ <<i, o>> \notin readded =>
                    \A k \in Entries(observers, i, o) : observers[i][k].callable = registered[i][o]
    <3>1. /\ IsFiniteSet(Entries(observers, i, o)) /\ Cardinality(Entries(observers, i, o)) \in Nat
      BY <2>1, EntriesFinite
    <3>2. Cardinality(Entries(observers, i, o)) + Cardinality(Adds(i, o))
            = Cardinality(Removes(i, o)) + (IF registered[i][o] = 0 THEN 0 ELSE 1)
      BY <2>1 DEF CountInv
    <3>3. Cardinality(Adds(i, o)) = 0 /\ Cardinality(Removes(i, o)) = 0
      BY <2>2, <2>3
    <3>4. Cardinality(Entries(observers, i, o)) = IF registered[i][o] = 0 THEN 0 ELSE 1
      BY <3>1, <3>2, <3>3
    <3>5. CASE registered[i][o] = 0
      <4>1. Entries(observers, i, o) = {}
        BY <3>1, <3>4, <3>5, AtMostOne
      <4> QED
        BY <3>4, <4>1
    <3>6. CASE registered[i][o] # 0
      <4>1. <<i, o>> \notin readded =>
              \A k \in Entries(observers, i, o) : observers[i][k].callable = registered[i][o]
        BY <2>1, <2>2, <3>6 DEF FreshInv
      <4> QED
        BY <3>4, <4>1
    <3> QED
      BY <3>5, <3>6
  <2> QED
    BY <2>1, <2>4 DEF LastAddedStays
<1> QED
  BY <1>1, NotificationInductive, PTL

------------------------------------------------------------------------------
(* SoundService *)

------------------------------------------------------------------------------
(* The sounds *)

Identity == [source : {"none", "stop", "play", "pause"}, state : {"stop", "play", "pause"},
             turn : BOOLEAN, looped : BOOLEAN, worker : BOOLEAN, done : BOOLEAN, left : 0..Length,
             told : 0..3, slip : SUBSET Slip]
SlotState == [owner : Sound \cup {Orphan}, status : {"free", "work", "pause", "done"}]
Fine == {"asked", "replayed"}

\* A slot that works for a sound belongs to the worker the identity knows.
SlotOf(s, r, sl) == \A i \in Slot : sl[i].owner = s => r.worker /\ (sl[i].status = "done" => r.done)

\* It works for one that plays, but for the position that was asked and the stop while turned off.
WorkOf(s, r, sl) ==
  \A i \in Slot : sl[i].owner = s =>
    /\ (r.state # "play" \/ ~r.turn) /\ sl[i].status = "work" => "asked" \in r.slip
    /\ r.state = "stop" => "kept" \in r.slip

\* The source follows the identity.
SourceOf(r) ==
  /\ r.source # "none"
  /\ r.state = "stop" => r.source = "stop"
  /\ r.source = "play" => r.turn /\ r.state = "play"

\* One that plays is fed, and one that was started keeps its slot until it is stopped.
FedOf(s, r, sl) ==
  /\ r.state = "play" /\ r.turn /\ r.slip \subseteq Fine =>
       /\ r.source = "play"
       /\ s \in Stream => r.worker /\ (r.done \/ \E i \in Slot : sl[i].owner = s /\ sl[i].status = "work")
  /\ r.state # "stop" /\ r.source # "stop" /\ s \in Stream /\ r.slip \subseteq Fine =>
       r.worker /\ (r.done \/ \E i \in Slot : sl[i].owner = s)

\* What a listener has heard of a play that goes on, and in all: once more when the
\* stop of the service came to the sound, which has no source since.
ToldOf(r) ==
  \/ "replayed" \in r.slip
  \/ r.told = 0
  \/ r.told = 1 /\ (r.state = "stop" \/ r.source = "none")
  \/ r.told = 2 /\ r.state = "stop" /\ r.source = "none"

\* Whose end the tick has still to tell, and what it knows of them.
Due(lp, td) == IF lp = "end" THEN ToSet(td) ELSE IF lp = "ended" THEN ToSet(Tail(td)) ELSE {}
DueOf(r) ==
  \/ "replayed" \in r.slip
  \/ r.state = "stop" /\ r.told = 0
  \/ r.state = "stop" /\ r.told = 1 /\ r.source = "none"

Good(s, r, sl, run, due) ==
  /\ SlotOf(s, r, sl) /\ WorkOf(s, r, sl)
  /\ run => SourceOf(r) /\ FedOf(s, r, sl)
  /\ ToldOf(r) /\ (due => DueOf(r))

FreeOf(sl) == \A i \in Slot : sl[i].status = "free" => sl[i].owner = Orphan
LoopInv ==
  /\ loop \in {"ended", "quitted"} => todo # <<>>
  /\ loop = "resume" => ToSet(todo) \subseteq ToSet(list)
  /\ loop \in {"quit", "quitted"} => life = "stop"
GoodInv == \A s \in ToSet(list) : Good(s, sound[s], slot, life = "run", s \in Due(loop, todo))

SoundInv == SoundTypeOK /\ FreeOf(slot) /\ LoopInv /\ GoodInv

------------------------------------------------------------------------------
(* Lists *)

\* The head of a list without duplicates does not come again.
LEMMA TailOf ==
  ASSUME NEW S, NEW q \in Seq(S), IsInjective(q), q # <<>>
  PROVE  /\ Tail(q) \in Seq(S) /\ IsInjective(Tail(q)) /\ Head(q) \in ToSet(q) /\ Head(q) \in S
         /\ ToSet(Tail(q)) = ToSet(q) \ {Head(q)}
<1> DEFINE t == Tail(q)
           L == Len(q)
<1>1. L \in Nat /\ L >= 1 /\ DOMAIN q = 1..L /\ Head(q) = q[1]
  OBVIOUS
<1>2. t \in Seq(S) /\ Len(t) = L - 1 /\ \A n \in 1..(L - 1) : t[n] = q[n + 1]
  BY HeadTailProperties
<1> HIDE DEF t, L
<1>3. DOMAIN t = 1..(L - 1)
  BY <1>2
<1>4. IsInjective(t)
  <2> SUFFICES ASSUME NEW a \in 1..(L - 1), NEW b \in 1..(L - 1), t[a] = t[b] PROVE a = b
    BY <1>3 DEF IsInjective
  <2>1. a + 1 \in 1..L /\ b + 1 \in 1..L /\ q[a + 1] = q[b + 1]
    BY <1>1, <1>2
  <2>2. a + 1 = b + 1
    BY <1>1, <2>1 DEF IsInjective
  <2> QED
    BY <1>1, <2>2
<1>5. q[1] \in S /\ q[1] \in ToSet(q)
  BY <1>1 DEF ToSet
<1>6. ASSUME NEW x PROVE x \in ToSet(t) <=> x \in ToSet(q) \ {q[1]}
  <2>1. ASSUME x \in ToSet(t) PROVE x \in ToSet(q) \ {q[1]}
    <3>1. PICK n \in 1..(L - 1) : x = t[n]
      BY <1>3, <2>1 DEF ToSet
    <3>2. n + 1 \in 1..L /\ n + 1 # 1 /\ 1 \in 1..L /\ x = q[n + 1]
      BY <1>1, <1>2, <3>1
    <3> QED
      BY <1>1, <3>2 DEF ToSet, IsInjective
  <2>2. ASSUME x \in ToSet(q) \ {q[1]} PROVE x \in ToSet(t)
    <3>1. PICK n \in 1..L : x = q[n]
      BY <1>1, <2>2 DEF ToSet
    <3>2. n # 1
      BY <2>2, <3>1
    <3>3. n - 1 \in 1..(L - 1) /\ n = (n - 1) + 1
      BY <1>1, <3>2
    <3>4. t[n - 1] = q[n]
      BY <1>2, <3>3
    <3> QED
      BY <1>3, <3>1, <3>3, <3>4 DEF ToSet
  <2> QED
    BY <2>1, <2>2
<1> QED
  BY <1>1, <1>2, <1>4, <1>5, <1>6 DEF t

\* One that was not listed may be appended.
LEMMA AppendOf ==
  ASSUME NEW S, NEW q \in Seq(S), IsInjective(q), NEW x \in S, x \notin ToSet(q)
  PROVE  /\ Append(q, x) \in Seq(S) /\ IsInjective(Append(q, x))
         /\ ToSet(Append(q, x)) = ToSet(q) \cup {x}
<1> DEFINE t == Append(q, x)
           L == Len(q)
<1>1. L \in Nat /\ DOMAIN q = 1..L
  OBVIOUS
<1>2. t \in Seq(S) /\ Len(t) = L + 1 /\ (\A n \in 1..L : t[n] = q[n]) /\ t[L + 1] = x
  BY AppendProperties
<1> HIDE DEF t, L
<1>3. DOMAIN t = 1..(L + 1) /\ 1..(L + 1) = 1..L \cup {L + 1}
  BY <1>1, <1>2
<1>4. \A n \in 1..L : q[n] # x
  BY <1>1 DEF ToSet
<1>5. IsInjective(t)
  <2> SUFFICES ASSUME NEW a \in 1..(L + 1), NEW b \in 1..(L + 1), t[a] = t[b] PROVE a = b
    BY <1>3 DEF IsInjective
  <2>1. CASE a \in 1..L /\ b \in 1..L
    BY <1>1, <1>2, <2>1 DEF IsInjective
  <2>2. CASE a = L + 1 \/ b = L + 1
    BY <1>2, <1>3, <1>4, <2>2
  <2> QED
    BY <1>3, <2>1, <2>2
<1>6. ToSet(t) = ToSet(q) \cup {x}
  BY <1>1, <1>2, <1>3 DEF ToSet
<1> QED
  BY <1>2, <1>5, <1>6 DEF t

\* Filtering keeps the order, and nothing twice.
LEMMA ListOfKeeps ==
  ASSUME list \in Seq(Sound), IsInjective(list), NEW S
  PROVE  /\ ListOf(S) \in Seq(Sound) /\ IsInjective(ListOf(S))
         /\ ToSet(ListOf(S)) = ToSet(list) \cap S
<1> DEFINE N == Len(list)
           Kept(f) == f = [n \in 0..N |-> IF n = 0 THEN <<>>
                                          ELSE IF list[n] \in S THEN Append(f[n - 1], list[n]) ELSE f[n - 1]]
           f == CHOOSE g : Kept(g)
           step == [k \in 1..N |-> [q \in Seq(Sound) |-> IF list[k] \in S THEN Append(q, list[k]) ELSE q]]
           First(k) == {list[n] : n \in {m \in 1..k : list[m] \in S}}
           Right(k) == f[k] \in Seq(Sound) /\ IsInjective(f[k]) /\ ToSet(f[k]) = First(k)
           good == {k \in 0..N : Right(k)}
<1>1. ListOf(S) = f[N]
  BY DEF ListOf
<1>2. N \in Nat /\ DOMAIN list = 1..N /\ \A k \in 1..N : list[k] \in Sound
  OBVIOUS
<1>3. \E g : Kept(g)
  <2>1. step \in [1..N -> [Seq(Sound) -> Seq(Sound)]]
    BY <1>2, AppendProperties
  <2>2. \A k \in 1..N, q \in Seq(Sound) : step[k][q] = IF list[k] \in S THEN Append(q, list[k]) ELSE q
    OBVIOUS
  <2> HIDE DEF step, N
  <2>3. <<>> \in Seq(Sound)
    OBVIOUS
  <2>4. PICK g : Goes(Seq(Sound), <<>>, N, step, g)
    <3>1. StepsOn(Seq(Sound), N, step)
      BY <2>1 DEF StepsOn
    <3> QED
      BY <1>2, <2>3, <3>1, StepByStep
  <2>5. ASSUME NEW k \in 0..N
        PROVE  g[k] = IF k = 0 THEN <<>> ELSE IF list[k] \in S THEN Append(g[k - 1], list[k]) ELSE g[k - 1]
    <3>1. CASE k = 0
      BY <2>4, <3>1 DEF Goes
    <3>2. CASE k # 0
      <4>1. k \in 1..N /\ k - 1 \in 0..N
        BY <1>2, <3>2
      <4>2. g[k] = step[k][g[k - 1]] /\ g[k - 1] \in Seq(Sound)
        BY <2>4, <4>1 DEF Goes
      <4> QED
        BY <2>2, <3>2, <4>1, <4>2
    <3> QED
      BY <3>1, <3>2
  <2> QED
    BY <2>4, <2>5 DEF Goes
<1>4. Kept(f)
  BY <1>3
<1> HIDE DEF f, N, step
<1>5. \A n \in 0..N : f[n] = IF n = 0 THEN <<>>
                             ELSE IF list[n] \in S THEN Append(f[n - 1], list[n]) ELSE f[n - 1]
  BY <1>4
<1>6. Right(0)
  <2>1. f[0] = <<>> /\ First(0) = {} /\ ToSet(<<>>) = {} /\ IsInjective(<<>>)
    BY <1>2, <1>5 DEF ToSet, IsInjective
  <2> QED
    BY <2>1
<1>7. ASSUME NEW k \in 1..N, Right(k - 1) PROVE Right(k)
  <2>1. k \in 0..N /\ k # 0 /\ k - 1 \in Nat /\ 1..k = 1..(k - 1) \cup {k} /\ 1..k \subseteq 1..N
    BY <1>2
  <2>2. CASE list[k] \in S
    <3>1. list[k] \notin ToSet(f[k - 1])
      <4>1. \A n \in 1..(k - 1) : list[n] # list[k]
        BY <1>2, <2>1 DEF IsInjective
      <4> QED
        BY <1>7, <4>1
    <3>2. f[k] = Append(f[k - 1], list[k]) /\ list[k] \in Sound
      BY <1>2, <1>5, <2>1, <2>2
    <3>3. First(k) = First(k - 1) \cup {list[k]}
      BY <2>1, <2>2
    <3> HIDE DEF First
    <3> QED
      BY <1>7, <3>1, <3>2, <3>3, AppendOf
  <2>3. CASE list[k] \notin S
    <3>1. f[k] = f[k - 1]
      BY <1>5, <2>1, <2>3
    <3>2. First(k) = First(k - 1)
      BY <2>1, <2>3
    <3> QED
      BY <1>7, <3>1, <3>2
  <2> QED
    BY <2>2, <2>3
<1> HIDE DEF Right
<1>8. good = 0..N
  <2>1. 0 \in good
    BY <1>2, <1>6
  <2>2. \A k \in 1..N : k - 1 \in good => k \in good
    BY <1>7
  <2>3. good \in SUBSET (0..N)
    OBVIOUS
  <2> HIDE DEF good
  <2> QED
    BY <1>2, <2>1, <2>2, <2>3, Steps
<1>9. Right(N)
  BY <1>2, <1>8
<1>10. First(N) = ToSet(list) \cap S
  BY <1>2 DEF ToSet
<1> QED
  BY <1>1, <1>9, <1>10 DEF Right

------------------------------------------------------------------------------
(* Slots and steps *)

\* The types with the names of the proofs.
LEMMA SoundTypes ==
  ASSUME SoundTypeOK
  PROVE  /\ sound \in [Sound -> Identity] /\ slot \in [Slot -> SlotState]
         /\ list \in Seq(Sound) /\ IsInjective(list) /\ todo \in Seq(Sound) /\ IsInjective(todo)
         /\ ToSet(list) \subseteq Sound /\ ToSet(todo) \subseteq Sound
<1>1. /\ sound \in [Sound -> Identity] /\ slot \in [Slot -> SlotState]
      /\ list \in Seq(Sound) /\ IsInjective(list) /\ todo \in Seq(Sound) /\ IsInjective(todo)
  BY DEF SoundTypeOK, Identity, SlotState
<1>2. ASSUME NEW q \in Seq(Sound) PROVE ToSet(q) \subseteq Sound
  BY DEF ToSet
<1> QED
  BY <1>1, <1>2

\* The status a client writes to the slots of a sound.
LEMMA SetStatusOf ==
  ASSUME SoundTypeOK, FreeOf(slot), NEW s \in Sound, NEW st \in {"work", "pause"}
  PROVE  /\ SetStatus(s, st) \in [Slot -> SlotState] /\ FreeOf(SetStatus(s, st))
         /\ \A i \in Slot : /\ SetStatus(s, st)[i].owner = slot[i].owner
                            /\ slot[i].owner = s => SetStatus(s, st)[i].status = st
                            /\ slot[i].owner # s => SetStatus(s, st)[i] = slot[i]
<1> DEFINE sl == SetStatus(s, st)
<1>1. \A i \in Slot : slot[i] \in SlotState /\ sl[i] = IF slot[i].owner = s THEN [slot[i] EXCEPT !.status = st] ELSE slot[i]
  BY SoundTypes DEF SetStatus
<1>2. sl = [i \in Slot |-> sl[i]]
  BY DEF SetStatus
<1> HIDE DEF sl
<1>3. ASSUME NEW i \in Slot
      PROVE  /\ sl[i] \in SlotState /\ sl[i].owner = slot[i].owner
             /\ slot[i].owner = s => sl[i].status = st
             /\ slot[i].owner # s => sl[i] = slot[i]
  <2>1. CASE slot[i].owner = s
    <3>1. sl[i] = [slot[i] EXCEPT !.status = st] /\ slot[i] \in SlotState
      BY <1>1, <2>1
    <3> QED
      BY <2>1, <3>1 DEF SlotState
  <2>2. CASE slot[i].owner # s
    BY <1>1, <2>2
  <2> QED
    BY <2>1, <2>2
<1>4. FreeOf(sl)
  <2> SUFFICES ASSUME NEW i \in Slot, sl[i].status = "free" PROVE sl[i].owner = Orphan
    BY DEF FreeOf
  <2>1. slot[i].owner # s
    BY <1>3
  <2> QED
    BY <1>3, <2>1 DEF FreeOf
<1>5. sl \in [Slot -> SlotState]
  BY <1>2, <1>3
<1> QED
  BY <1>3, <1>4, <1>5 DEF sl

\* The job without the worker of a sound.
LEMMA RemovedOf ==
  ASSUME SoundTypeOK, FreeOf(slot), NEW s \in Sound
  PROVE  /\ Removed(s) \in [Slot -> SlotState] /\ FreeOf(Removed(s))
         /\ \A i \in Slot : /\ Removed(s)[i].owner # s
                            /\ slot[i].owner = s => Removed(s)[i] = FreeSlot
                            /\ slot[i].owner # s => Removed(s)[i] = slot[i]
<1>1. FreeSlot \in SlotState /\ FreeSlot.owner = Orphan /\ Orphan # s
  BY SoundAssumption DEF FreeSlot, SlotState
<1>2. \A i \in Slot : slot[i] \in SlotState
  BY SoundTypes
<1>3. \A i \in Slot : Removed(s)[i] = IF slot[i].owner = s THEN FreeSlot ELSE slot[i]
  BY DEF Removed
<1>4. Removed(s) \in [Slot -> SlotState]
  BY <1>1, <1>2 DEF Removed
<1>5. FreeOf(Removed(s))
  <2> HIDE DEF FreeSlot
  <2> QED
    BY <1>1, <1>3 DEF FreeOf
<1> QED
  BY <1>1, <1>3, <1>4, <1>5

\* The job with a new worker of a sound, if it has a place for it.
LEMMA AddedOf ==
  ASSUME SoundTypeOK, FreeOf(slot), NEW s \in Sound
  PROVE  /\ Added(s) \in [Slot -> SlotState] /\ FreeOf(Added(s))
         /\ Vacant = {} => Added(s) = slot
         /\ Vacant # {} => \E i \in Slot : /\ slot[i].owner = Orphan
                                           /\ Added(s)[i] = [owner |-> s, status |-> "work"]
                                           /\ \A j \in Slot \ {i} : Added(s)[j] = slot[j]
<1>1. CASE Vacant = {}
  BY <1>1, SoundTypes DEF Added
<1>2. CASE Vacant # {}
  <2> DEFINE k == CHOOSE i \in Vacant : \A j \in Vacant : i <= j
             new == [owner |-> s, status |-> "work"]
  <2>1. Vacant \in SUBSET Nat /\ Vacant \subseteq Slot
    BY SoundAssumption DEF Vacant
  <2>2. k \in Vacant
    <3> HIDE DEF Vacant
    <3>1. \E i \in Vacant : \A j \in Vacant : i <= j
      BY <1>2, <2>1, Smallest
    <3> QED
      BY <3>1
  <2>3. Added(s) = [slot EXCEPT ![k] = new]
    BY <1>2 DEF Added
  <2> HIDE DEF k
  <2>4. k \in Slot /\ slot[k].status = "free" /\ slot[k].owner = Orphan
    BY <2>2 DEF Vacant, FreeOf
  <2>5. new \in SlotState /\ new.status # "free"
    BY DEF SlotState
  <2> HIDE DEF new
  <2>6. slot \in [Slot -> SlotState]
    BY SoundTypes
  <2>7. /\ Added(s) \in [Slot -> SlotState] /\ Added(s)[k] = new
        /\ \A j \in Slot \ {k} : Added(s)[j] = slot[j]
    BY <2>3, <2>4, <2>5, <2>6
  <2>8. FreeOf(Added(s))
    BY <2>5, <2>7 DEF FreeOf
  <2> QED
    BY <1>2, <2>4, <2>7, <2>8 DEF new
<1> QED
  BY <1>1, <1>2

\* A step that leaves the other listed sounds, and their slots, as they are.
LEMMA SoundFrame ==
  ASSUME SoundInv, SoundTypeOK', FreeOf(slot)', LoopInv', life' = "run" => life = "run", NEW S,
         \A t \in ToSet(list)' \ S :
           /\ t \in ToSet(list) /\ sound'[t] = sound[t]
           /\ \A i \in Slot : slot[i].owner = t \/ slot'[i].owner = t => slot'[i] = slot[i]
           /\ t \in Due(loop, todo)' => t \in Due(loop, todo),
         \A t \in ToSet(list)' \cap S : Good(t, sound'[t], slot', life' = "run", t \in Due(loop, todo)')
  PROVE  SoundInv'
<1>1. ASSUME NEW t \in ToSet(list)' \ S PROVE Good(t, sound'[t], slot', life' = "run", t \in Due(loop, todo)')
  <2>1. /\ Good(t, sound[t], slot, life = "run", t \in Due(loop, todo)) /\ sound'[t] = sound[t]
        /\ \A i \in Slot : slot[i].owner = t \/ slot'[i].owner = t => slot'[i] = slot[i]
        /\ t \in Due(loop, todo)' => t \in Due(loop, todo)
    BY <1>1 DEF SoundInv, GoodInv
  <2> DEFINE r == sound[t]
  <2> HIDE DEF r
  <2>2. Good(t, r, slot, life = "run", t \in Due(loop, todo)) /\ sound'[t] = r
    BY <2>1 DEF r
  <2>3. SlotOf(t, r, slot') /\ WorkOf(t, r, slot')
    BY <2>1, <2>2 DEF Good, SlotOf, WorkOf
  <2>4. life' = "run" => SourceOf(r) /\ FedOf(t, r, slot')
    <3> HAVE life' = "run"
    <3>1. SourceOf(r) /\ FedOf(t, r, slot)
      BY <2>2 DEF Good
    <3>2. \A i \in Slot : slot[i].owner = t => slot'[i] = slot[i]
      BY <2>1
    <3>3. FedOf(t, r, slot')
      BY <3>1, <3>2 DEF FedOf
    <3> QED
      BY <3>1, <3>3
  <2>5. ToldOf(r) /\ (t \in Due(loop, todo)' => DueOf(r))
    BY <2>1, <2>2 DEF Good
  <2> QED
    BY <2>2, <2>3, <2>4, <2>5 DEF Good
<1>2. \A t \in ToSet(list)' : Good(t, sound'[t], slot', life' = "run", t \in Due(loop, todo)')
  BY <1>1
<1> QED
  BY <1>2 DEF SoundInv, GoodInv

\* A step that changes one sound and its slots.
LEMMA OneSteps ==
  ASSUME SoundInv, NEW s \in Sound, NEW r \in Identity, NEW sl \in [Slot -> SlotState], FreeOf(sl),
         sound' = [sound EXCEPT ![s] = r], slot' = sl,
         \A i \in Slot : \A t \in Sound \ {s} : slot[i].owner = t \/ sl[i].owner = t => sl[i] = slot[i],
         UNCHANGED <<list, life, turnStream>>,
         todo' \in Seq(Sound), IsInjective(todo'),
         loop' \in {"idle", "resume", "end", "ended", "quit", "quitted", "crash"}, LoopInv',
         Due(loop, todo)' \subseteq Due(loop, todo),
         Listed(s) => Good(s, r, sl, life = "run", s \in Due(loop, todo)')
  PROVE  SoundInv'
<1>1. /\ list' = list /\ life' = life /\ turnStream' = turnStream
      /\ ToSet(list)' = ToSet(list) /\ ToSet(list) \subseteq Sound
      /\ SoundTypeOK /\ sound \in [Sound -> Identity]
  BY SoundTypes DEF SoundInv
<1>2. SoundTypeOK'
  <2>1. sound' \in [Sound -> Identity] /\ slot' \in [Slot -> SlotState]
    BY <1>1
  <2> QED
    BY <1>1, <2>1 DEF SoundTypeOK, Identity, SlotState
<1>3. FreeOf(slot)'
  BY DEF FreeOf
<1>4. \A t \in ToSet(list)' \ {s} :
           /\ t \in ToSet(list) /\ sound'[t] = sound[t]
           /\ \A i \in Slot : slot[i].owner = t \/ slot'[i].owner = t => slot'[i] = slot[i]
           /\ t \in Due(loop, todo)' => t \in Due(loop, todo)
  BY <1>1
<1>5. \A t \in ToSet(list)' \cap {s} : Good(t, sound'[t], slot', life' = "run", t \in Due(loop, todo)')
  <2> SUFFICES ASSUME s \in ToSet(list) PROVE Good(s, r, sl, life = "run", s \in Due(loop, todo)')
    BY <1>1
  <2> QED
    BY DEF Listed
<1> QED
  BY <1>1, <1>2, <1>3, <1>4, <1>5, SoundFrame

\* A call of a client that does so.
LEMMA OneChanges ==
  ASSUME SoundInv, NEW s \in Sound, NEW r \in Identity, NEW sl \in [Slot -> SlotState], FreeOf(sl),
         sound' = [sound EXCEPT ![s] = r], slot' = sl,
         \A i \in Slot : \A t \in Sound \ {s} : slot[i].owner = t \/ sl[i].owner = t => sl[i] = slot[i],
         UNCHANGED <<list, todo, life, turnStream>>,
         loop' = loop \/ loop' = "crash",
         Listed(s) => Good(s, r, sl, life = "run", s \in Due(loop, todo))
  PROVE  SoundInv'
<1>1. /\ list' = list /\ todo' = todo /\ life' = life /\ turnStream' = turnStream
      /\ SoundTypeOK /\ LoopInv /\ todo \in Seq(Sound) /\ IsInjective(todo)
  BY SoundTypes DEF SoundInv
<1>2. loop' \in {"idle", "resume", "end", "ended", "quit", "quitted", "crash"}
  BY <1>1 DEF SoundTypeOK
<1>3. LoopInv'
  BY <1>1 DEF LoopInv
<1>4. Due(loop, todo)' \subseteq Due(loop, todo)
  BY <1>1 DEF Due
<1>5. Listed(s) => Good(s, r, sl, life = "run", s \in Due(loop, todo)')
  BY <1>4 DEF Good
<1> QED
  BY <1>1, <1>2, <1>3, <1>4, <1>5, OneSteps

------------------------------------------------------------------------------
(* The calls of the clients *)

\* What the invariant says of a listed sound.
LEMMA ListedSound ==
  ASSUME SoundInv, NEW s \in Sound, Listed(s)
  PROVE  /\ SoundTypeOK /\ FreeOf(slot) /\ sound[s] \in Identity /\ slot \in [Slot -> SlotState]
         /\ SlotOf(s, sound[s], slot) /\ WorkOf(s, sound[s], slot)
         /\ life = "run" => SourceOf(sound[s]) /\ FedOf(s, sound[s], slot)
         /\ ToldOf(sound[s]) /\ (s \in Due(loop, todo) => DueOf(sound[s]))
<1>1. Good(s, sound[s], slot, life = "run", s \in Due(loop, todo)) /\ SoundTypeOK /\ FreeOf(slot)
  BY DEF SoundInv, GoodInv, Listed
<1> QED
  BY <1>1, SoundTypes DEF Good

\* A new identity has no slot that works for it.
LEMMA CreateKeeps ==
  ASSUME SoundInv, NEW s \in Sound, NEW looped \in BOOLEAN, NEW turnSound \in BOOLEAN,
         CreateSoundIdentity(s, looped, turnSound)
  PROVE  SoundInv'
<1> DEFINE r == [NewSound EXCEPT !.source = "stop", !.looped = looped,
                                 !.turn = IF s \in Stream THEN turnStream ELSE turnSound]
<1>1. /\ SoundTypeOK /\ FreeOf(slot) /\ LoopInv /\ s \notin ToSet(list) /\ s \notin ToSet(todo)
      /\ loop \in {"idle", "ended", "quitted"}
      /\ list' = Append(list, s) /\ UNCHANGED <<turnStream, loop, todo, life>>
      /\ sound' = [sound EXCEPT ![s] = r]
      /\ slot' = [i \in Slot |-> IF slot[i].owner = s THEN [slot[i] EXCEPT !.owner = Orphan] ELSE slot[i]]
  BY DEF SoundInv, CreateSoundIdentity, Client, Listed
<1>2. turnStream \in BOOLEAN
  BY <1>1 DEF SoundTypeOK
<1>3. /\ r \in Identity /\ r.source = "stop" /\ r.state = "stop" /\ r.told = 0
  <2>1. {} \in SUBSET Slip /\ 0 \in 0..Length /\ 0 \in 0..3
    BY SoundAssumption
  <2> QED
    BY <1>2, <2>1 DEF NewSound, Identity
<1> HIDE DEF r
<1>4. /\ list' \in Seq(Sound) /\ IsInjective(list') /\ ToSet(list)' = ToSet(list) \cup {s}
  BY <1>1, SoundTypes, AppendOf
<1>5. /\ sound \in [Sound -> Identity] /\ slot \in [Slot -> SlotState]
      /\ todo \in Seq(Sound) /\ IsInjective(todo) /\ ToSet(list) \subseteq Sound
  BY <1>1, SoundTypes
<1>6. ASSUME NEW i \in Slot
      PROVE  /\ slot'[i] \in SlotState /\ slot'[i].owner # s /\ slot'[i].status = slot[i].status
             /\ slot[i].owner # s => slot'[i] = slot[i]
             /\ slot[i].owner = s => slot'[i].owner = Orphan
  <2>1. CASE slot[i].owner = s
    <3>1. slot'[i] = [slot[i] EXCEPT !.owner = Orphan] /\ slot[i] \in SlotState
      BY <1>1, <1>5, <2>1
    <3> QED
      BY <2>1, <3>1, SoundAssumption DEF SlotState
  <2>2. CASE slot[i].owner # s
    <3>1. slot'[i] = slot[i] /\ slot[i] \in SlotState
      BY <1>1, <1>5, <2>2
    <3> QED
      BY <2>2, <3>1
  <2> QED
    BY <2>1, <2>2
<1>7. slot' = [i \in Slot |-> slot'[i]]
  BY <1>1
<1>8. SoundTypeOK'
  <2>1. sound' \in [Sound -> Identity] /\ slot' \in [Slot -> SlotState]
    BY <1>1, <1>3, <1>5, <1>6, <1>7
  <2> QED
    BY <1>1, <1>4, <1>5, <2>1 DEF SoundTypeOK, Identity, SlotState
<1>9. FreeOf(slot)'
  BY <1>1, <1>6 DEF FreeOf
<1>10. LoopInv'
  BY <1>1, <1>4 DEF LoopInv
<1>11. \A t \in ToSet(list)' \ {s} :
         /\ t \in ToSet(list) /\ sound'[t] = sound[t]
         /\ \A i \in Slot : slot[i].owner = t \/ slot'[i].owner = t => slot'[i] = slot[i]
         /\ t \in Due(loop, todo)' => t \in Due(loop, todo)
  <2>1. \A t \in ToSet(list)' \ {s} : t \in Sound /\ t # s /\ t # Orphan /\ t \in ToSet(list) /\ sound'[t] = sound[t]
    BY <1>1, <1>4, <1>5, SoundAssumption
  <2>2. Due(loop, todo)' = Due(loop, todo)
    BY <1>1 DEF Due
  <2> QED
    BY <1>6, <2>1, <2>2
<1>12. Good(s, r, slot', life' = "run", s \in Due(loop, todo)')
  <2>1. SlotOf(s, r, slot') /\ WorkOf(s, r, slot')
    BY <1>6 DEF SlotOf, WorkOf
  <2>2. SourceOf(r) /\ FedOf(s, r, slot') /\ ToldOf(r) /\ DueOf(r)
    BY <1>3 DEF SourceOf, FedOf, ToldOf, DueOf
  <2> QED
    BY <2>1, <2>2 DEF Good
<1>13. \A t \in ToSet(list)' \cap {s} : Good(t, sound'[t], slot', life' = "run", t \in Due(loop, todo)')
  <2>1. sound'[s] = r
    BY <1>1, <1>5
  <2> QED
    BY <1>12, <2>1
<1>14. life' = life
  BY <1>1
<1> QED
  BY <1>8, <1>9, <1>10, <1>11, <1>13, <1>14, SoundFrame

\* A step that only takes sounds out of the lists, and may forget those.
LEMMA ShorterLists ==
  ASSUME SoundInv, list' \in Seq(Sound), IsInjective(list'), todo' \in Seq(Sound), IsInjective(todo'),
         ToSet(list)' \subseteq ToSet(list),
         sound' \in [Sound -> Identity], \A t \in ToSet(list)' : sound'[t] = sound[t],
         slot' = slot, turnStream' \in BOOLEAN, life' = life,
         loop' \in {"idle", "resume", "end", "ended", "quit", "quitted", "crash"}, LoopInv',
         Due(loop, todo)' \cap ToSet(list)' \subseteq Due(loop, todo)
  PROVE  SoundInv'
<1>1. SoundTypeOK'
  BY DEF SoundInv, SoundTypeOK, Identity, SlotState
<1>2. FreeOf(slot)'
  BY DEF SoundInv, FreeOf
<1>3. \A t \in ToSet(list)' \ {} :
         /\ t \in ToSet(list) /\ sound'[t] = sound[t]
         /\ \A i \in Slot : slot[i].owner = t \/ slot'[i].owner = t => slot'[i] = slot[i]
         /\ t \in Due(loop, todo)' => t \in Due(loop, todo)
  OBVIOUS
<1> QED
  BY <1>1, <1>2, <1>3, SoundFrame

\* The identity before its creation has the type of identities.
LEMMA NewSoundType == NewSound \in Identity
<1>1. {} \in SUBSET Slip /\ 0 \in 0..Length /\ 0 \in 0..3
  BY SoundAssumption
<1> QED
  BY <1>1 DEF NewSound, Identity

\* A released identity is forgotten; its worker stays with no one to tell.
LEMMA ReleaseKeeps ==
  ASSUME SoundInv, NEW s \in Sound, ReleaseSoundSource(s)
  PROVE  SoundInv'
<1>1. /\ SoundTypeOK /\ loop \in {"idle", "ended", "quitted"} /\ LoopInv
      /\ list' = ListOf(Sound \ {s}) /\ sound' = [sound EXCEPT ![s] = NewSound]
      /\ UNCHANGED <<slot, turnStream, loop, todo, life>>
  BY DEF SoundInv, ReleaseSoundSource, Client
<1>2. /\ list \in Seq(Sound) /\ IsInjective(list) /\ todo \in Seq(Sound) /\ IsInjective(todo)
      /\ sound \in [Sound -> Identity]
  BY <1>1, SoundTypes
<1>3. /\ list' \in Seq(Sound) /\ IsInjective(list') /\ ToSet(list)' = ToSet(list) \cap (Sound \ {s})
  BY <1>1, <1>2, ListOfKeeps
<1>4. sound' \in [Sound -> Identity] /\ \A t \in ToSet(list)' : sound'[t] = sound[t]
  BY <1>1, <1>2, <1>3, NewSoundType
<1>5. LoopInv' /\ Due(loop, todo)' = Due(loop, todo)
  BY <1>1 DEF LoopInv, Due
<1>6. turnStream' \in BOOLEAN /\ loop' \in {"idle", "resume", "end", "ended", "quit", "quitted", "crash"}
  BY <1>1 DEF SoundTypeOK
<1> QED
  BY <1>1, <1>2, <1>3, <1>4, <1>5, <1>6, ShorterLists

\* playSoundBufferUpdate_() on an identity whose source plays.
LEMMA PlayedOf ==
  ASSUME SoundTypeOK, FreeOf(slot), NEW s \in Sound, NEW r \in Identity,
         r.state = "play", r.turn, r.source = "play",
         SlotOf(s, r, slot), ToldOf(r),
         NEW sl, sl = IF s \in Stream /\ ~r.worker THEN Added(s) ELSE slot
  PROVE  /\ Played(s, r) \in Identity /\ sl \in [Slot -> SlotState] /\ FreeOf(sl)
         /\ \A i \in Slot : \A t \in Sound \ {s} : slot[i].owner = t \/ sl[i].owner = t => sl[i] = slot[i]
         /\ SlotOf(s, Played(s, r), sl) /\ WorkOf(s, Played(s, r), sl)
         /\ SourceOf(Played(s, r)) /\ FedOf(s, Played(s, r), sl)
         /\ ToldOf(Played(s, r)) /\ (DueOf(r) => DueOf(Played(s, r)))
<1> DEFINE w == [r EXCEPT !.worker = TRUE, !.done = FALSE]
           p == Played(s, r)
<1>0. /\ Added(s) \in [Slot -> SlotState] /\ FreeOf(Added(s)) /\ slot \in [Slot -> SlotState]
      /\ Vacant = {} => Added(s) = slot
      /\ Vacant # {} => \E i \in Slot : /\ slot[i].owner = Orphan
                                        /\ Added(s)[i] = [owner |-> s, status |-> "work"]
                                        /\ \A j \in Slot \ {i} : Added(s)[j] = slot[j]
      /\ Orphan \notin Sound
  BY AddedOf, SoundTypes, SoundAssumption
<1>1. /\ w \in Identity /\ w.state = "play" /\ w.turn /\ w.source = "play" /\ w.worker /\ w.slip = r.slip
      /\ w.told = r.told /\ ~w.done
  BY DEF Identity
<1>2. ASSUME NEW v \in Identity, NEW why \in Slip
      PROVE  /\ Slipped(v, why) \in Identity /\ Slipped(v, why).slip = v.slip \cup {why}
             /\ Slipped(v, why).state = v.state /\ Slipped(v, why).turn = v.turn
             /\ Slipped(v, why).source = v.source /\ Slipped(v, why).worker = v.worker
             /\ Slipped(v, why).done = v.done /\ Slipped(v, why).told = v.told
  BY DEF Slipped, Identity
<1>3. "kept" \in Slip /\ "refused" \in Slip /\ "kept" \notin Fine /\ "refused" \notin Fine
  BY DEF Slip, Fine
<1> HIDE DEF w
<1>4. CASE s \notin Stream
  <2>1. p = r /\ sl = slot
    BY <1>4 DEF Played
  <2>2. WorkOf(s, r, slot) /\ SourceOf(r) /\ FedOf(s, r, slot)
    BY <1>4 DEF WorkOf, SourceOf, FedOf
  <2> QED
    BY <1>0, <2>1, <2>2
<1>5. CASE s \in Stream /\ r.worker
  <2>1. p = Slipped(r, "kept") /\ sl = slot
    BY <1>5 DEF Played
  <2>2. /\ p \in Identity /\ p.slip = r.slip \cup {"kept"} /\ p.state = "play" /\ p.turn /\ p.source = "play"
        /\ p.worker /\ p.done = r.done /\ p.told = r.told
    BY <1>2, <1>3, <1>5, <2>1
  <2> HIDE DEF p
  <2>3. SlotOf(s, p, slot) /\ WorkOf(s, p, slot) /\ SourceOf(p)
    BY <2>2 DEF SlotOf, WorkOf, SourceOf
  <2>4. FedOf(s, p, slot)
    BY <1>3, <2>2 DEF FedOf
  <2>5. ToldOf(p) /\ (DueOf(r) => DueOf(p))
    BY <1>5, <2>2 DEF ToldOf, DueOf
  <2> QED
    BY <1>0, <2>1, <2>2, <2>3, <2>4, <2>5 DEF p
<1>6. CASE s \in Stream /\ ~r.worker
  <2>1. sl = Added(s) /\ \A i \in Slot : slot[i].owner # s
    BY <1>6 DEF SlotOf
  <2>2. CASE Vacant = {}
    <3>1. p = Slipped(w, "refused")
      BY <1>6, <2>2 DEF Played, w
    <3>2. /\ p \in Identity /\ p.slip = r.slip \cup {"refused"} /\ p.state = "play" /\ p.turn /\ p.source = "play"
          /\ p.told = r.told
      BY <1>1, <1>2, <1>3, <3>1
    <3> HIDE DEF p
    <3>3. SlotOf(s, p, slot) /\ WorkOf(s, p, slot) /\ SourceOf(p)
      BY <2>1, <3>2 DEF SlotOf, WorkOf, SourceOf
    <3>4. FedOf(s, p, slot)
      BY <1>3, <3>2 DEF FedOf
    <3>5. ToldOf(p) /\ (DueOf(r) => DueOf(p))
      BY <3>2 DEF ToldOf, DueOf
    <3>6. sl = slot
      BY <1>0, <2>1, <2>2
    <3> QED
      BY <1>0, <3>2, <3>3, <3>4, <3>5, <3>6 DEF p
  <2>3. CASE Vacant # {}
    <3>1. p = w
      BY <1>6, <2>3 DEF Played, w
    <3>2. PICK k \in Slot : /\ slot[k].owner = Orphan
                            /\ sl[k] = [owner |-> s, status |-> "work"]
                            /\ \A j \in Slot \ {k} : sl[j] = slot[j]
      BY <1>0, <2>1, <2>3
    <3>3. sl[k].owner = s /\ sl[k].status = "work" /\ \A i \in Slot : sl[i].owner = s => i = k
      BY <2>1, <3>2
    <3>4. SlotOf(s, w, sl) /\ WorkOf(s, w, sl) /\ SourceOf(w) /\ FedOf(s, w, sl)
      BY <1>1, <3>3 DEF SlotOf, WorkOf, SourceOf, FedOf
    <3>5. ToldOf(w) /\ (DueOf(r) => DueOf(w))
      BY <1>1 DEF ToldOf, DueOf
    <3>6. \A i \in Slot : \A t \in Sound \ {s} : slot[i].owner = t \/ sl[i].owner = t => sl[i] = slot[i]
      BY <1>0, <3>2, <3>3
    <3> QED
      BY <1>0, <1>1, <2>1, <3>1, <3>4, <3>5, <3>6
  <2> QED
    BY <2>2, <2>3
<1> QED
  BY <1>4, <1>5, <1>6

\* A slip changes nothing else of the identity.
LEMMA SlippedOf ==
  ASSUME NEW v \in Identity, NEW why \in Slip
  PROVE  /\ Slipped(v, why) \in Identity /\ Slipped(v, why).slip = v.slip \cup {why}
         /\ Slipped(v, why).state = v.state /\ Slipped(v, why).turn = v.turn
         /\ Slipped(v, why).source = v.source /\ Slipped(v, why).worker = v.worker
         /\ Slipped(v, why).done = v.done /\ Slipped(v, why).told = v.told
BY DEF Slipped, Identity

\* A listener that is told changes nothing else either.
LEMMA ToldMore ==
  ASSUME NEW v \in Identity
  PROVE  /\ Told(v) \in Identity /\ Told(v).state = v.state /\ Told(v).slip = v.slip /\ Told(v).turn = v.turn
         /\ Told(v).worker = v.worker /\ Told(v).done = v.done /\ Told(v).source = v.source
         /\ Told(v).told = IF v.told = 3 THEN 3 ELSE v.told + 1
<1>1. v.told \in 0..3
  BY DEF Identity
<1>2. (IF v.told = 3 THEN 3 ELSE v.told + 1) \in 0..3
  BY <1>1
<1> QED
  BY <1>2 DEF Told, Identity

\* A play that starts is fed, and one that does not says why.
LEMMA PlayEmitterKeeps ==
  ASSUME SoundInv, NEW s \in Sound, PlayEmitter(s)
  PROVE  SoundInv'
<1> DEFINE o == sound[s]
           slip == (IF o.worker THEN o.slip ELSE {})
                     \cup (IF loop = "ended" /\ s \in ToSet(Tail(todo)) THEN {"replayed"} ELSE {})
           r == [o EXCEPT !.state = "play", !.left = Length, !.told = 0, !.slip = slip]
           p == [r EXCEPT !.source = "play"]
           due == s \in Due(loop, todo)
           run == life = "run"
<1>1. /\ Listed(s) /\ o.state = "stop" /\ o.source # "none"
      /\ loop \in {"idle", "ended", "quitted"} /\ UNCHANGED <<list, todo, life, turnStream, loop>>
  BY DEF PlayEmitter, Client
<1>2. /\ SoundTypeOK /\ FreeOf(slot) /\ o \in Identity /\ slot \in [Slot -> SlotState]
      /\ SlotOf(s, o, slot) /\ WorkOf(s, o, slot)
      /\ run => SourceOf(o) /\ FedOf(s, o, slot)
  BY <1>1, ListedSound
<1>3. \/ r.turn /\ PlayBuffer(s, p)
      \/ r.turn /\ sound' = [sound EXCEPT ![s] = Slipped(r, "failed")] /\ UNCHANGED slot
      \/ ~r.turn /\ sound' = [sound EXCEPT ![s] = r] /\ UNCHANGED slot
  BY DEF PlayEmitter
<1> HIDE DEF o
<1>4. slip \subseteq Slip /\ (o.worker => o.slip \subseteq slip) /\ (due => "replayed" \in slip)
  BY <1>1, <1>2 DEF Identity, Slip, Due
<1> HIDE DEF slip
<1>5. /\ r \in Identity /\ r.state = "play" /\ r.told = 0 /\ r.slip = slip /\ r.turn = o.turn
      /\ r.worker = o.worker /\ r.done = o.done /\ r.source = o.source
  <2>1. 0 \in 0..3 /\ Length \in 0..Length
    BY SoundAssumption
  <2> QED
    BY <1>2, <1>4, <2>1 DEF Identity
<1> HIDE DEF r
<1>6. /\ p \in Identity /\ p.state = "play" /\ p.told = 0 /\ p.slip = slip /\ p.turn = r.turn
      /\ p.worker = o.worker /\ p.done = o.done /\ p.source = "play"
  BY <1>5 DEF Identity
<1> HIDE DEF p
<1>7. ToldOf(r) /\ (due => DueOf(r)) /\ SlotOf(s, r, slot) /\ SlotOf(s, p, slot) /\ ToldOf(p) /\ (due => DueOf(p))
  BY <1>2, <1>4, <1>5, <1>6 DEF ToldOf, DueOf, SlotOf
<1>8. CASE r.turn /\ PlayBuffer(s, p)
  <2> DEFINE sl == IF s \in Stream /\ ~p.worker THEN Added(s) ELSE slot
  <2>1. sound' = [sound EXCEPT ![s] = Played(s, p)] /\ slot' = sl
    BY <1>8 DEF PlayBuffer
  <2> HIDE DEF sl, due, run
  <2> DEFINE v == Played(s, p)
  <2>2. /\ v \in Identity /\ sl \in [Slot -> SlotState] /\ FreeOf(sl)
        /\ \A i \in Slot : \A t \in Sound \ {s} : slot[i].owner = t \/ sl[i].owner = t => sl[i] = slot[i]
        /\ SlotOf(s, v, sl) /\ WorkOf(s, v, sl) /\ SourceOf(v) /\ FedOf(s, v, sl)
        /\ ToldOf(v) /\ (DueOf(p) => DueOf(v))
    <3>1. /\ SoundTypeOK /\ FreeOf(slot) /\ p \in Identity /\ p.state = "play" /\ p.turn /\ p.source = "play"
          /\ SlotOf(s, p, slot) /\ ToldOf(p) /\ sl = IF s \in Stream /\ ~p.worker THEN Added(s) ELSE slot
      BY <1>2, <1>6, <1>7, <1>8 DEF sl
    <3> QED
      BY <3>1, PlayedOf
  <2>3. sound' = [sound EXCEPT ![s] = v] /\ slot' = sl
    BY <2>1
  <2> HIDE DEF v
  <2>4. Good(s, v, sl, run, due)
    BY <1>7, <2>2 DEF Good
  <2> QED
    BY <1>1, <2>2, <2>3, <2>4, OneChanges DEF run, due
<1>9. CASE r.turn /\ sound' = [sound EXCEPT ![s] = Slipped(r, "failed")] /\ UNCHANGED slot
  <2> DEFINE f == Slipped(r, "failed")
  <2>1. "failed" \in Slip /\ "failed" \notin Fine
    BY DEF Slip, Fine
  <2>2. /\ f \in Identity /\ f.slip = slip \cup {"failed"} /\ f.state = "play" /\ f.turn
        /\ f.source = o.source /\ f.worker = o.worker /\ f.done = o.done /\ f.told = 0
    BY <1>5, <1>9, <2>1, SlippedOf
  <2>3. sound' = [sound EXCEPT ![s] = f] /\ slot' = slot
    BY <1>9
  <2> HIDE DEF f
  <2>4. SlotOf(s, f, slot) /\ WorkOf(s, f, slot)
    BY <1>2, <2>2 DEF SlotOf, WorkOf
  <2>5. run => SourceOf(f) /\ FedOf(s, f, slot)
    BY <1>1, <1>2, <2>1, <2>2 DEF SourceOf, FedOf
  <2>6. ToldOf(f) /\ (due => DueOf(f))
    BY <1>4, <2>2 DEF ToldOf, DueOf
  <2>7. Good(s, f, slot, run, due)
    BY <2>4, <2>5, <2>6 DEF Good
  <2> QED
    BY <1>1, <1>2, <2>2, <2>3, <2>7, OneChanges
<1>10. CASE ~r.turn /\ sound' = [sound EXCEPT ![s] = r] /\ UNCHANGED slot
  <2>1. WorkOf(s, r, slot)
    BY <1>1, <1>2, <1>4, <1>5 DEF WorkOf, SlotOf
  <2>2. run => SourceOf(r) /\ FedOf(s, r, slot)
    BY <1>1, <1>2, <1>5, <1>10 DEF SourceOf, FedOf
  <2>3. Good(s, r, slot, run, due)
    BY <1>7, <2>1, <2>2 DEF Good
  <2>4. slot' = slot /\ sound' = [sound EXCEPT ![s] = r]
    BY <1>10
  <2> QED
    BY <1>1, <1>2, <1>5, <2>3, <2>4, OneChanges
<1> QED
  BY <1>3, <1>8, <1>9, <1>10

\* A resumed sound has its worker working again.
LEMMA ResumeEmitterKeeps ==
  ASSUME SoundInv, NEW s \in Sound, ResumeEmitter(s)
  PROVE  SoundInv'
<1> DEFINE o == sound[s]
           r == [o EXCEPT !.state = "play"]
           p == [r EXCEPT !.source = "play"]
           due == s \in Due(loop, todo)
           run == life = "run"
<1>1. Listed(s) /\ o.state = "pause" /\ UNCHANGED <<list, todo, life, turnStream>>
  BY DEF ResumeEmitter
<1>2. /\ SoundTypeOK /\ FreeOf(slot) /\ o \in Identity /\ slot \in [Slot -> SlotState]
      /\ SlotOf(s, o, slot) /\ WorkOf(s, o, slot)
      /\ run => SourceOf(o) /\ FedOf(s, o, slot)
      /\ ToldOf(o) /\ (due => DueOf(o))
  BY <1>1, ListedSound
<1> HIDE DEF due, run
<1>3. \/ /\ r.source = "none" /\ loop' = "crash" /\ UNCHANGED <<sound, slot>>
      \/ /\ ~r.turn /\ r.source # "none" /\ sound' = [sound EXCEPT ![s] = r] /\ UNCHANGED <<slot, loop>>
      \/ /\ r.source = "stop" /\ r.turn
         /\ sound' = [sound EXCEPT ![s] = Slipped(r, "unstarted")] /\ UNCHANGED <<slot, loop>>
      \/ /\ r.turn /\ r.source \notin {"none", "stop"}
         /\ sound' = [sound EXCEPT ![s] = p] /\ slot' = SetStatus(s, "work") /\ UNCHANGED loop
  <2>1. r.turn \in BOOLEAN
    BY <1>2 DEF Identity
  <2> QED
    BY <2>1 DEF ResumeEmitter
<1>4. sound \in [Sound -> Identity]
  BY <1>2, SoundTypes
<1>5. CASE r.source = "none" /\ loop' = "crash" /\ UNCHANGED <<sound, slot>>
  <2>1. sound' = [sound EXCEPT ![s] = o] /\ slot' = slot
    BY <1>4, <1>5
  <2>2. Good(s, o, slot, run, due)
    BY <1>2 DEF Good
  <2> QED
    BY <1>1, <1>2, <1>5, <2>1, <2>2, OneChanges DEF run, due
<1> HIDE DEF o
<1>6. /\ r \in Identity /\ r.state = "play" /\ r.told = o.told /\ r.slip = o.slip /\ r.turn = o.turn
      /\ r.worker = o.worker /\ r.done = o.done /\ r.source = o.source
  BY <1>2 DEF Identity
<1> HIDE DEF r
<1>7. /\ p \in Identity /\ p.state = "play" /\ p.told = o.told /\ p.slip = o.slip /\ p.turn = o.turn
      /\ p.worker = o.worker /\ p.done = o.done /\ p.source = "play"
  BY <1>6 DEF Identity
<1> HIDE DEF p
<1>8. ASSUME NEW v \in Identity, v.state = "play", v.told = o.told, o.slip \subseteq v.slip, o.source # "none"
      PROVE  ToldOf(v) /\ (due => DueOf(v))
  BY <1>1, <1>2, <1>8 DEF ToldOf, DueOf, o
<1>9. CASE ~r.turn /\ r.source # "none" /\ sound' = [sound EXCEPT ![s] = r] /\ UNCHANGED <<slot, loop>>
  <2>1. SlotOf(s, r, slot) /\ WorkOf(s, r, slot)
    BY <1>1, <1>2, <1>6, <1>9 DEF SlotOf, WorkOf, o
  <2>2. run => SourceOf(r) /\ FedOf(s, r, slot)
    BY <1>1, <1>2, <1>6, <1>9 DEF SourceOf, FedOf, o
  <2>3. Good(s, r, slot, run, due)
    BY <1>6, <1>8, <1>9, <2>1, <2>2 DEF Good
  <2> QED
    BY <1>1, <1>2, <1>6, <1>9, <2>3, OneChanges DEF run, due
<1>10. CASE /\ r.source = "stop" /\ r.turn
            /\ sound' = [sound EXCEPT ![s] = Slipped(r, "unstarted")] /\ UNCHANGED <<slot, loop>>
  <2> DEFINE f == Slipped(r, "unstarted")
  <2>1. "unstarted" \in Slip /\ "unstarted" \notin Fine
    BY DEF Slip, Fine
  <2>2. /\ f \in Identity /\ f.slip = o.slip \cup {"unstarted"} /\ f.state = "play" /\ f.turn
        /\ f.source = "stop" /\ f.worker = o.worker /\ f.done = o.done /\ f.told = o.told
    BY <1>6, <1>10, <2>1, SlippedOf
  <2>3. sound' = [sound EXCEPT ![s] = f] /\ slot' = slot /\ loop' = loop
    BY <1>10
  <2> HIDE DEF f
  <2>4. SlotOf(s, f, slot) /\ WorkOf(s, f, slot) /\ SourceOf(f) /\ FedOf(s, f, slot)
    BY <1>2, <2>1, <2>2 DEF SlotOf, WorkOf, SourceOf, FedOf
  <2>5. Good(s, f, slot, run, due)
    BY <1>6, <1>8, <1>10, <2>2, <2>4 DEF Good
  <2> QED
    BY <1>1, <1>2, <2>2, <2>3, <2>5, OneChanges DEF run, due
<1>11. CASE /\ r.turn /\ r.source \notin {"none", "stop"}
            /\ sound' = [sound EXCEPT ![s] = p] /\ slot' = SetStatus(s, "work") /\ UNCHANGED loop
  <2> DEFINE sl == SetStatus(s, "work")
  <2>1. /\ sl \in [Slot -> SlotState] /\ FreeOf(sl)
        /\ \A i \in Slot : /\ sl[i].owner = slot[i].owner
                           /\ slot[i].owner = s => sl[i].status = "work"
                           /\ slot[i].owner # s => sl[i] = slot[i]
    BY <1>2, SetStatusOf
  <2>2. sound' = [sound EXCEPT ![s] = p] /\ slot' = sl /\ loop' = loop
    BY <1>11
  <2> HIDE DEF sl
  <2>3. SlotOf(s, p, sl) /\ WorkOf(s, p, sl)
    BY <1>2, <1>6, <1>7, <1>11, <2>1 DEF SlotOf, WorkOf
  <2>4. run => SourceOf(p) /\ FedOf(s, p, sl)
    BY <1>1, <1>2, <1>6, <1>7, <1>11, <2>1 DEF SourceOf, FedOf, o
  <2>5. Good(s, p, sl, run, due)
    BY <1>6, <1>7, <1>8, <1>11, <2>3, <2>4 DEF Good
  <2>6. \A i \in Slot : \A t \in Sound \ {s} : slot[i].owner = t \/ sl[i].owner = t => sl[i] = slot[i]
    BY <2>1
  <2> QED
    BY <1>1, <1>7, <2>1, <2>2, <2>5, <2>6, OneChanges DEF run, due
<1> QED
  BY <1>3, <1>5, <1>9, <1>10, <1>11

\* The worker of a paused sound is paused.
LEMMA PauseEmitterKeeps ==
  ASSUME SoundInv, NEW s \in Sound, PauseEmitter(s)
  PROVE  SoundInv'
<1> DEFINE o == sound[s]
           r == [o EXCEPT !.state = "pause", !.source = IF o.source = "play" THEN "pause" ELSE o.source]
           sl == IF o.turn THEN SetStatus(s, "pause") ELSE slot
           due == s \in Due(loop, todo)
           run == life = "run"
<1>1. /\ Listed(s) /\ o.state = "play" /\ UNCHANGED <<list, todo, life, turnStream>>
      /\ slot' = sl /\ (loop' = loop \/ loop' = "crash")
  BY DEF PauseEmitter
<1>2. /\ SoundTypeOK /\ FreeOf(slot) /\ o \in Identity /\ slot \in [Slot -> SlotState]
      /\ SlotOf(s, o, slot) /\ WorkOf(s, o, slot)
      /\ run => SourceOf(o) /\ FedOf(s, o, slot)
      /\ ToldOf(o) /\ (due => DueOf(o))
  BY <1>1, ListedSound
<1>3. sound' = [sound EXCEPT ![s] = r]
  BY <1>2, SoundTypes DEF PauseEmitter
<1>4. /\ sl \in [Slot -> SlotState] /\ FreeOf(sl)
      /\ \A i \in Slot : /\ sl[i].owner = slot[i].owner
                         /\ slot[i].owner = s /\ o.turn => sl[i].status = "pause"
                         /\ slot[i].owner # s \/ ~o.turn => sl[i] = slot[i]
  BY <1>2, SetStatusOf
<1> HIDE DEF due, run, o, sl
<1>5. /\ r \in Identity /\ r.state = "pause" /\ r.told = o.told /\ r.slip = o.slip /\ r.turn = o.turn
      /\ r.worker = o.worker /\ r.done = o.done
      /\ r.source = IF o.source = "play" THEN "pause" ELSE o.source
  BY <1>2 DEF Identity
<1> HIDE DEF r
<1>6. SlotOf(s, r, sl) /\ WorkOf(s, r, sl)
  BY <1>1, <1>2, <1>4, <1>5 DEF SlotOf, WorkOf, o
<1>7. run => SourceOf(r) /\ FedOf(s, r, sl)
  BY <1>1, <1>2, <1>4, <1>5 DEF SourceOf, FedOf, o
<1>8. ToldOf(r) /\ (due => DueOf(r))
  BY <1>1, <1>2, <1>5 DEF ToldOf, DueOf, o
<1>9. Good(s, r, sl, run, due)
  BY <1>6, <1>7, <1>8 DEF Good
<1>10. \A i \in Slot : \A t \in Sound \ {s} : slot[i].owner = t \/ sl[i].owner = t => sl[i] = slot[i]
  BY <1>4
<1> QED
  BY <1>1, <1>3, <1>4, <1>5, <1>9, <1>10, OneChanges DEF run, due

\* A stopped sound loses its worker, unless it was turned off.
LEMMA StopEmitterKeeps ==
  ASSUME SoundInv, NEW s \in Sound, StopEmitter(s)
  PROVE  SoundInv'
<1> DEFINE o == sound[s]
           r == IF HasListener(s) THEN Told(Stopped(o)) ELSE Stopped(o)
           due == s \in Due(loop, todo)
           run == life = "run"
<1>1. Listed(s) /\ o.state # "stop" /\ UNCHANGED <<list, todo, life, turnStream, loop>>
  BY DEF StopEmitter
<1>2. /\ SoundTypeOK /\ FreeOf(slot) /\ o \in Identity /\ slot \in [Slot -> SlotState]
      /\ SlotOf(s, o, slot) /\ WorkOf(s, o, slot)
      /\ run => SourceOf(o) /\ FedOf(s, o, slot)
      /\ ToldOf(o) /\ (due => DueOf(o))
  BY <1>1, ListedSound
<1>3. \/ r.turn /\ sound' = [sound EXCEPT ![s] = Unfed(r)] /\ slot' = Removed(s)
      \/ ~r.turn /\ sound' = [sound EXCEPT ![s] = IF r.worker THEN Slipped(r, "kept") ELSE r] /\ slot' = slot
  BY DEF StopEmitter, StopBuffer
<1> HIDE DEF due, run, o
<1>4. /\ r \in Identity /\ r.state = "stop" /\ r.slip = o.slip /\ r.turn = o.turn
      /\ r.worker = o.worker /\ r.done = o.done /\ r.source = IF o.source = "none" THEN "none" ELSE "stop"
      /\ r.told = o.told \/ r.told = (IF o.told = 3 THEN 3 ELSE o.told + 1)
  <2>1. 0 \in 0..Length
    BY SoundAssumption
  <2> DEFINE q == Stopped(o)
  <2>2. /\ q \in Identity /\ q.state = "stop" /\ q.slip = o.slip /\ q.turn = o.turn
        /\ q.worker = o.worker /\ q.done = o.done /\ q.told = o.told
        /\ q.source = IF o.source = "none" THEN "none" ELSE "stop"
    BY <1>2, <2>1 DEF Stopped, Identity
  <2> HIDE DEF q
  <2>3. /\ Told(q) \in Identity /\ Told(q).state = q.state /\ Told(q).slip = q.slip /\ Told(q).turn = q.turn
        /\ Told(q).worker = q.worker /\ Told(q).done = q.done /\ Told(q).source = q.source
        /\ Told(q).told = IF q.told = 3 THEN 3 ELSE q.told + 1
    BY <2>2, ToldMore
  <2>4. r = q \/ r = Told(q)
    BY DEF q
  <2> HIDE DEF r
  <2> QED
    BY <2>2, <2>3, <2>4
<1> HIDE DEF r
<1>6. \/ "replayed" \in o.slip
      \/ ~due /\ r.told \in {0, 1}
      \/ ~due /\ r.told = 2 /\ r.source = "none"
  BY <1>1, <1>2, <1>4 DEF ToldOf, DueOf, o
<1>7. CASE r.turn /\ sound' = [sound EXCEPT ![s] = Unfed(r)] /\ slot' = Removed(s)
  <2> DEFINE v == Unfed(r)
             sl == Removed(s)
  <2>1. /\ v \in Identity /\ v.state = "stop" /\ v.slip = r.slip \cap {"replayed"} /\ v.told = r.told
        /\ v.source = r.source
    BY <1>4 DEF Unfed, Identity
  <2>2. /\ sl \in [Slot -> SlotState] /\ FreeOf(sl)
        /\ \A i \in Slot : /\ sl[i].owner # s
                           /\ slot[i].owner = s => sl[i] = FreeSlot
                           /\ slot[i].owner # s => sl[i] = slot[i]
    BY <1>2, RemovedOf
  <2>3. sound' = [sound EXCEPT ![s] = v] /\ slot' = sl
    BY <1>7
  <2> HIDE DEF v, sl
  <2>4. FreeSlot.owner = Orphan /\ Orphan \notin Sound
    BY SoundAssumption DEF FreeSlot
  <2>5. \A i \in Slot : \A t \in Sound \ {s} : slot[i].owner = t \/ sl[i].owner = t => sl[i] = slot[i]
    BY <2>2, <2>4
  <2>6. SlotOf(s, v, sl) /\ WorkOf(s, v, sl)
    BY <2>2 DEF SlotOf, WorkOf
  <2>7. run => SourceOf(v) /\ FedOf(s, v, sl)
    BY <1>2, <1>4, <2>1 DEF SourceOf, FedOf
  <2>8. ToldOf(v) /\ (due => DueOf(v))
    BY <1>4, <1>6, <2>1 DEF ToldOf, DueOf
  <2>9. Good(s, v, sl, run, due)
    BY <2>6, <2>7, <2>8 DEF Good
  <2> QED
    BY <1>1, <2>1, <2>2, <2>3, <2>5, <2>9, OneChanges DEF run, due
<1>8. CASE ~r.turn /\ sound' = [sound EXCEPT ![s] = IF r.worker THEN Slipped(r, "kept") ELSE r] /\ slot' = slot
  <2> DEFINE v == IF r.worker THEN Slipped(r, "kept") ELSE r
  <2>1. "kept" \in Slip
    BY DEF Slip
  <2>2. /\ v \in Identity /\ v.state = "stop" /\ o.slip \subseteq v.slip /\ v.told = r.told /\ v.turn = r.turn
        /\ v.source = r.source /\ v.worker = r.worker /\ v.done = r.done
        /\ r.worker => "kept" \in v.slip
    BY <1>4, <2>1, SlippedOf
  <2>3. sound' = [sound EXCEPT ![s] = v]
    BY <1>8
  <2> HIDE DEF v
  <2>4. SlotOf(s, v, slot) /\ WorkOf(s, v, slot)
    BY <1>2, <1>4, <1>8, <2>2 DEF SlotOf, WorkOf
  <2>5. run => SourceOf(v) /\ FedOf(s, v, slot)
    BY <1>2, <1>4, <2>2 DEF SourceOf, FedOf
  <2>6. ToldOf(v) /\ (due => DueOf(v))
    BY <1>4, <1>6, <2>2 DEF ToldOf, DueOf
  <2>7. Good(s, v, slot, run, due)
    BY <2>4, <2>5, <2>6 DEF Good
  <2> QED
    BY <1>1, <1>2, <1>8, <2>2, <2>3, <2>7, OneChanges DEF run, due
<1> QED
  BY <1>3, <1>7, <1>8

\* The position of a sound is asked or set while its worker is paused.
LEMMA PositionKeeps ==
  ASSUME SoundInv, NEW s \in Sound, Position(s)
  PROVE  SoundInv'
<1> DEFINE o == sound[s]
           v == IF o.state = "play" /\ o.turn THEN o ELSE Slipped(o, "asked")
           w == Slipped(o, "position")
           due == s \in Due(loop, todo)
           run == life = "run"
<1>1. Listed(s) /\ UNCHANGED <<list, todo, life, turnStream, loop>>
  BY DEF Position
<1>2. /\ SoundTypeOK /\ FreeOf(slot) /\ o \in Identity /\ slot \in [Slot -> SlotState]
      /\ SlotOf(s, o, slot) /\ WorkOf(s, o, slot)
      /\ run => SourceOf(o) /\ FedOf(s, o, slot)
      /\ ToldOf(o) /\ (due => DueOf(o))
  BY <1>1, ListedSound
<1>3. \/ slot' = SetStatus(s, "work") /\ sound' = [sound EXCEPT ![s] = v]
      \/ slot' = SetStatus(s, "pause") /\ sound' = [sound EXCEPT ![s] = w]
  <2>1. sound \in [Sound -> Identity]
    BY <1>2, SoundTypes
  <2> QED
    BY <2>1 DEF Position
<1> HIDE DEF due, run, o
<1>4. "asked" \in Slip /\ "position" \in Slip /\ "position" \notin Fine /\ "asked" \in Fine
  BY DEF Slip, Fine
<1>5. /\ v \in Identity /\ v.state = o.state /\ v.turn = o.turn /\ v.source = o.source /\ v.worker = o.worker
      /\ v.done = o.done /\ v.told = o.told /\ o.slip \subseteq v.slip /\ v.slip \subseteq o.slip \cup {"asked"}
      /\ o.state # "play" \/ ~o.turn => "asked" \in v.slip
  BY <1>2, <1>4, SlippedOf
<1>6. /\ w \in Identity /\ w.state = o.state /\ w.turn = o.turn /\ w.source = o.source /\ w.worker = o.worker
      /\ w.done = o.done /\ w.told = o.told /\ w.slip = o.slip \cup {"position"}
  BY <1>2, <1>4, SlippedOf
<1> HIDE DEF v, w
<1>7. CASE slot' = SetStatus(s, "work") /\ sound' = [sound EXCEPT ![s] = v]
  <2> DEFINE sl == SetStatus(s, "work")
  <2>1. /\ sl \in [Slot -> SlotState] /\ FreeOf(sl)
        /\ \A i \in Slot : /\ sl[i].owner = slot[i].owner
                           /\ slot[i].owner = s => sl[i].status = "work"
                           /\ slot[i].owner # s => sl[i] = slot[i]
    BY <1>2, SetStatusOf
  <2>2. sound' = [sound EXCEPT ![s] = v] /\ slot' = sl
    BY <1>7
  <2> HIDE DEF sl
  <2>3. SlotOf(s, v, sl) /\ WorkOf(s, v, sl)
    BY <1>2, <1>5, <2>1 DEF SlotOf, WorkOf
  <2>4. run => SourceOf(v) /\ FedOf(s, v, sl)
    <3> HAVE run
    <3>1. SourceOf(o) /\ FedOf(s, o, slot)
      BY <1>2
    <3>2. v.slip \subseteq Fine => o.slip \subseteq Fine
      BY <1>5
    <3> QED
      BY <1>5, <2>1, <3>1, <3>2 DEF SourceOf, FedOf
  <2>5. ToldOf(v) /\ (due => DueOf(v))
    BY <1>2, <1>5 DEF ToldOf, DueOf
  <2>6. Good(s, v, sl, run, due)
    BY <2>3, <2>4, <2>5 DEF Good
  <2>7. \A i \in Slot : \A t \in Sound \ {s} : slot[i].owner = t \/ sl[i].owner = t => sl[i] = slot[i]
    BY <2>1
  <2> QED
    BY <1>1, <1>5, <2>1, <2>2, <2>6, <2>7, OneChanges DEF run, due
<1>8. CASE slot' = SetStatus(s, "pause") /\ sound' = [sound EXCEPT ![s] = w]
  <2> DEFINE sl == SetStatus(s, "pause")
  <2>1. /\ sl \in [Slot -> SlotState] /\ FreeOf(sl)
        /\ \A i \in Slot : /\ sl[i].owner = slot[i].owner
                           /\ slot[i].owner = s => sl[i].status = "pause"
                           /\ slot[i].owner # s => sl[i] = slot[i]
    BY <1>2, SetStatusOf
  <2>2. sound' = [sound EXCEPT ![s] = w] /\ slot' = sl
    BY <1>8
  <2> HIDE DEF sl
  <2>3. SlotOf(s, w, sl) /\ WorkOf(s, w, sl)
    BY <1>2, <1>6, <2>1 DEF SlotOf, WorkOf
  <2>4. run => SourceOf(w) /\ FedOf(s, w, sl)
    BY <1>2, <1>4, <1>6 DEF SourceOf, FedOf
  <2>5. ToldOf(w) /\ (due => DueOf(w))
    BY <1>2, <1>6 DEF ToldOf, DueOf
  <2>6. Good(s, w, sl, run, due)
    BY <2>3, <2>4, <2>5 DEF Good
  <2>7. \A i \in Slot : \A t \in Sound \ {s} : slot[i].owner = t \/ sl[i].owner = t => sl[i] = slot[i]
    BY <2>1
  <2> QED
    BY <1>1, <1>6, <2>1, <2>2, <2>6, <2>7, OneChanges DEF run, due
<1> QED
  BY <1>3, <1>7, <1>8

------------------------------------------------------------------------------
(* The job *)

\* A worker is done, and its identity knows.
LEMMA WorkEndsKeeps ==
  ASSUME SoundInv, NEW k \in Slot, WorkEnds(k)
  PROVE  SoundInv'
<1> DEFINE sl == [slot EXCEPT ![k].status = "done"]
<1>1. /\ SoundTypeOK /\ FreeOf(slot) /\ LoopInv /\ sound \in [Sound -> Identity] /\ slot \in [Slot -> SlotState]
      /\ list \in Seq(Sound) /\ IsInjective(list) /\ todo \in Seq(Sound) /\ IsInjective(todo)
      /\ ToSet(list) \subseteq Sound
  BY SoundTypes DEF SoundInv
<1>2. slot[k].status = "work" /\ slot' = sl /\ UNCHANGED <<list, turnStream, loop, todo, life>>
  BY DEF WorkEnds
<1>3. /\ sl \in [Slot -> SlotState]
      /\ \A i \in Slot : /\ sl[i].owner = slot[i].owner
                         /\ i # k => sl[i] = slot[i]
                         /\ sl[i].status = IF i = k THEN "done" ELSE slot[i].status
  <2>1. slot[k] \in SlotState
    BY <1>1
  <2>2. sl = [slot EXCEPT ![k] = [slot[k] EXCEPT !.status = "done"]]
    BY <1>1
  <2> DEFINE n == [slot[k] EXCEPT !.status = "done"]
  <2>3. n \in SlotState /\ n.owner = slot[k].owner /\ n.status = "done"
    BY <2>1 DEF SlotState
  <2> HIDE DEF n
  <2> QED
    BY <1>1, <2>2, <2>3 DEF n
<1> HIDE DEF sl
<1>4. FreeOf(sl)
  BY <1>1, <1>3 DEF FreeOf
<1>5. CASE slot[k].owner = Orphan
  <2>1. sound' = sound
    BY <1>5 DEF WorkEnds
  <2>2. SoundTypeOK'
    BY <1>1, <1>2, <1>3, <2>1 DEF SoundTypeOK, SlotState, Identity
  <2>3. LoopInv' /\ FreeOf(slot)' /\ Due(loop, todo)' = Due(loop, todo) /\ ToSet(list)' = ToSet(list) /\ life' = life
    BY <1>1, <1>2, <1>4 DEF LoopInv, Due, FreeOf
  <2>4. \A t \in ToSet(list)' \ {} :
         /\ t \in ToSet(list) /\ sound'[t] = sound[t]
         /\ \A i \in Slot : slot[i].owner = t \/ slot'[i].owner = t => slot'[i] = slot[i]
         /\ t \in Due(loop, todo)' => t \in Due(loop, todo)
    <3>1. \A t \in ToSet(list) : t # Orphan
      BY <1>1, SoundAssumption
    <3> QED
      BY <1>2, <1>3, <1>5, <2>1, <2>3, <3>1
  <2>5. \A t \in ToSet(list)' \cap {} : Good(t, sound'[t], slot', life' = "run", t \in Due(loop, todo)')
    OBVIOUS
  <2>6. (life' = "run" => life = "run") /\ LoopInv' /\ FreeOf(slot)'
    BY <2>3
  <2> QED
    BY <2>2, <2>4, <2>5, <2>6, SoundFrame
<1>6. CASE slot[k].owner # Orphan
  <2> DEFINE s == slot[k].owner
             o == sound[s]
             r == [o EXCEPT !.done = TRUE]
             due == s \in Due(loop, todo)
             run == life = "run"
  <2>1. s \in Sound
    BY <1>1, <1>6 DEF SlotState
  <2>2. sound' = [sound EXCEPT ![s] = r]
    BY <1>1, <1>6 DEF WorkEnds
  <2>3. o \in Identity
    BY <1>1, <2>1
  <2> HIDE DEF o
  <2>4. /\ r \in Identity /\ r.state = o.state /\ r.turn = o.turn /\ r.source = o.source /\ r.worker = o.worker
        /\ r.done /\ r.told = o.told /\ r.slip = o.slip
    BY <2>3 DEF Identity
  <2> HIDE DEF r, s, due, run
  <2>5. Listed(s) => Good(s, r, sl, run, due)
    <3> HAVE Listed(s)
    <3>1. /\ SlotOf(s, o, slot) /\ WorkOf(s, o, slot)
          /\ run => SourceOf(o) /\ FedOf(s, o, slot)
          /\ ToldOf(o) /\ (due => DueOf(o))
      BY <2>1, ListedSound DEF o, run, due
    <3>2. SlotOf(s, r, sl) /\ WorkOf(s, r, sl)
      BY <1>3, <2>4, <3>1 DEF SlotOf, WorkOf
    <3>3. run => SourceOf(r) /\ FedOf(s, r, sl)
      BY <1>3, <2>4, <3>1 DEF SourceOf, FedOf
    <3>4. ToldOf(r) /\ (due => DueOf(r))
      BY <2>4, <3>1 DEF ToldOf, DueOf
    <3> QED
      BY <3>2, <3>3, <3>4 DEF Good
  <2>6. \A i \in Slot : \A t \in Sound \ {s} : slot[i].owner = t \/ sl[i].owner = t => sl[i] = slot[i]
    BY <1>3 DEF s
  <2> QED
    BY <1>2, <1>3, <1>4, <2>1, <2>2, <2>4, <2>5, <2>6, OneChanges DEF run, due
<1> QED
  BY <1>5, <1>6

\* The job gives up the slots that are done.
LEMMA JobUpdateKeeps ==
  ASSUME SoundInv, JobUpdate
  PROVE  SoundInv'
<1>1. /\ SoundTypeOK /\ FreeOf(slot) /\ LoopInv /\ slot \in [Slot -> SlotState] /\ ToSet(list) \subseteq Sound
  BY SoundTypes DEF SoundInv
<1>2. /\ slot' = [i \in Slot |-> IF slot[i].status = "done" THEN FreeSlot ELSE slot[i]]
      /\ UNCHANGED <<sound, list, turnStream, loop, todo, life>>
  BY DEF JobUpdate
<1>3. FreeSlot \in SlotState /\ FreeSlot.owner = Orphan /\ Orphan \notin Sound
  BY SoundAssumption DEF FreeSlot, SlotState
<1>4. slot' \in [Slot -> SlotState]
  BY <1>1, <1>2, <1>3
<1>5. SoundTypeOK'
  BY <1>1, <1>2, <1>4 DEF SoundTypeOK, SlotState
<1>6. FreeOf(slot)'
  <2> HIDE DEF FreeSlot
  <2> QED
    BY <1>1, <1>2, <1>3 DEF FreeOf
<1>7. LoopInv' /\ Due(loop, todo)' = Due(loop, todo) /\ life' = life /\ ToSet(list)' = ToSet(list)
  BY <1>1, <1>2 DEF LoopInv, Due
<1>8. ASSUME NEW t \in ToSet(list)
      PROVE  Good(t, sound'[t], slot', life' = "run", t \in Due(loop, todo)')
  <2> DEFINE r == sound[t]
  <2>1. /\ t \in Sound /\ t # Orphan /\ r \in Identity /\ SlotOf(t, r, slot) /\ WorkOf(t, r, slot)
        /\ life = "run" => SourceOf(r) /\ FedOf(t, r, slot)
        /\ ToldOf(r) /\ (t \in Due(loop, todo) => DueOf(r))
    BY <1>1, <1>3, ListedSound DEF Listed
  <2> HIDE DEF r
  <2>2. \A i \in Slot : /\ slot'[i].owner = t => slot'[i] = slot[i] /\ slot[i].status # "done"
                        /\ slot[i].owner = t /\ slot[i].status # "done" => slot'[i] = slot[i]
    <3> HIDE DEF FreeSlot
    <3> QED
      BY <1>2, <1>3, <2>1
  <2>3. SlotOf(t, r, slot') /\ WorkOf(t, r, slot')
    BY <2>1, <2>2 DEF SlotOf, WorkOf
  <2>4. life = "run" => SourceOf(r) /\ FedOf(t, r, slot')
    <3> HAVE life = "run"
    <3>1. SourceOf(r) /\ FedOf(t, r, slot) /\ SlotOf(t, r, slot)
      BY <2>1
    <3>2. \A i \in Slot : slot[i].owner = t => r.done \/ slot'[i] = slot[i]
      BY <2>2, <3>1 DEF SlotOf
    <3> QED
      BY <3>1, <3>2 DEF FedOf
  <2>5. sound'[t] = r /\ life' = life
    BY <1>2 DEF r
  <2> QED
    BY <1>7, <2>1, <2>3, <2>4, <2>5 DEF Good
<1>9. \A t \in ToSet(list)' \cap ToSet(list) : Good(t, sound'[t], slot', life' = "run", t \in Due(loop, todo)')
  BY <1>8
<1>10. ToSet(list)' \ ToSet(list) = {}
  BY <1>7
<1> QED
  BY <1>5, <1>6, <1>7, <1>9, <1>10, SoundFrame

------------------------------------------------------------------------------
(* The loops over the identities *)

\* Turning off pauses every source that plays, and its worker.
LEMMA TurnStreamOffKeeps ==
  ASSUME SoundInv, TurnStreamOff
  PROVE  SoundInv'
<1> DEFINE Off(o, playing) == [o EXCEPT !.turn = FALSE, !.source = IF playing /\ o.source = "play" THEN "pause" ELSE o.source]
           Heard(i) == \E s \in Sound : Playing(s) /\ slot[i].owner = s
<1>1. /\ SoundTypeOK /\ FreeOf(slot) /\ LoopInv /\ sound \in [Sound -> Identity] /\ slot \in [Slot -> SlotState]
      /\ list \in Seq(Sound) /\ IsInjective(list) /\ todo \in Seq(Sound) /\ IsInjective(todo)
      /\ ToSet(list) \subseteq Sound
  BY SoundTypes DEF SoundInv
<1>2. /\ loop = "idle" /\ loop' \in {"idle", "crash"} /\ turnStream' = FALSE
      /\ UNCHANGED <<list, todo, life>>
      /\ slot' = [i \in Slot |-> IF Heard(i) THEN [slot[i] EXCEPT !.status = "pause"] ELSE slot[i]]
      /\ sound' = [s \in Sound |-> IF ~Listed(s) THEN sound[s] ELSE Off(sound[s], Playing(s))]
  BY <1>1 DEF TurnStreamOff
<1>3. ASSUME NEW o \in Identity, NEW playing \in BOOLEAN
      PROVE  /\ Off(o, playing) \in Identity /\ Off(o, playing).turn = FALSE /\ Off(o, playing).state = o.state
             /\ Off(o, playing).source = IF playing /\ o.source = "play" THEN "pause" ELSE o.source
             /\ Off(o, playing).worker = o.worker /\ Off(o, playing).done = o.done
             /\ Off(o, playing).told = o.told /\ Off(o, playing).slip = o.slip
  BY DEF Identity
<1>4. \A s \in Sound : Playing(s) \in BOOLEAN
  BY DEF Playing, Listed
<1> HIDE DEF Off
<1>5. sound' \in [Sound -> Identity]
  BY <1>1, <1>2, <1>3, <1>4
<1>6. ASSUME NEW i \in Slot
      PROVE  /\ slot'[i] \in SlotState /\ slot'[i].owner = slot[i].owner
             /\ ~Heard(i) => slot'[i] = slot[i]
             /\ Heard(i) => slot'[i].status = "pause"
  <2>1. CASE Heard(i)
    <3>1. slot'[i] = [slot[i] EXCEPT !.status = "pause"] /\ slot[i] \in SlotState
      BY <1>1, <1>2, <2>1
    <3> QED
      BY <2>1, <3>1 DEF SlotState
  <2>2. CASE ~Heard(i)
    <3>1. slot'[i] = slot[i] /\ slot[i] \in SlotState
      BY <1>1, <1>2, <2>2
    <3> QED
      BY <2>2, <3>1
  <2> QED
    BY <2>1, <2>2
<1>7. slot' \in [Slot -> SlotState]
  <2>1. slot' = [i \in Slot |-> slot'[i]]
    BY <1>2
  <2> QED
    BY <1>6, <2>1
<1>8. SoundTypeOK'
  <2>1. life' \in {"run", "stop", "final"}
    BY <1>1, <1>2 DEF SoundTypeOK
  <2> QED
    BY <1>1, <1>2, <1>5, <1>7, <2>1 DEF SoundTypeOK, Identity, SlotState
<1>9. FreeOf(slot)'
  <2> SUFFICES ASSUME NEW i \in Slot, slot'[i].status = "free" PROVE slot'[i].owner = Orphan
    BY DEF FreeOf
  <2>1. slot'[i] = slot[i]
    BY <1>6
  <2> QED
    BY <1>1, <2>1 DEF FreeOf
<1>10. LoopInv' /\ Due(loop, todo)' = {} /\ life' = life /\ ToSet(list)' = ToSet(list)
  BY <1>2 DEF LoopInv, Due
<1>11. ASSUME NEW t \in ToSet(list)
       PROVE  Good(t, sound'[t], slot', life' = "run", t \in Due(loop, todo)')
  <2> DEFINE o == sound[t]
             r == Off(o, Playing(t))
  <2>1. /\ t \in Sound /\ Listed(t) /\ o \in Identity /\ SlotOf(t, o, slot) /\ WorkOf(t, o, slot)
        /\ life = "run" => SourceOf(o) /\ FedOf(t, o, slot)
        /\ ToldOf(o)
    BY <1>1, ListedSound DEF Listed
  <2>2. Playing(t) <=> o.state = "play"
    BY <2>1 DEF Playing
  <2>3. sound'[t] = r
    BY <1>2, <2>1
  <2> HIDE DEF o
  <2>4. /\ r.turn = FALSE /\ r.state = o.state
        /\ r.source = IF o.state = "play" /\ o.source = "play" THEN "pause" ELSE o.source
        /\ r.worker = o.worker /\ r.done = o.done /\ r.told = o.told /\ r.slip = o.slip
    BY <1>3, <1>4, <2>1, <2>2
  <2> HIDE DEF r
  <2>5. \A i \in Slot : slot'[i].owner = t /\ slot'[i].status # "pause" => slot'[i] = slot[i] /\ ~Heard(i)
    BY <1>6
  <2>6. SlotOf(t, r, slot')
    BY <1>6, <2>1, <2>4, <2>5 DEF SlotOf
  <2>7. WorkOf(t, r, slot')
    <3> SUFFICES ASSUME NEW i \in Slot, slot'[i].owner = t
                 PROVE  /\ slot'[i].status = "work" => "asked" \in r.slip
                        /\ r.state = "stop" => "kept" \in r.slip
      BY DEF WorkOf
    <3>1. slot[i].owner = t
      BY <1>6
    <3>2. r.state = "stop" => "kept" \in r.slip
      BY <2>1, <2>4, <3>1 DEF WorkOf
    <3>3. ASSUME slot'[i].status = "work" PROVE "asked" \in r.slip
      <4>1. slot'[i] = slot[i] /\ o.state # "play"
        BY <2>1, <2>2, <2>5, <3>1, <3>3
      <4> QED
        BY <2>1, <2>4, <3>1, <3>3, <4>1 DEF WorkOf
    <3> QED
      BY <3>2, <3>3
  <2>8. life = "run" => SourceOf(r) /\ FedOf(t, r, slot')
    <3> HAVE life = "run"
    <3>1. SourceOf(o) /\ FedOf(t, o, slot)
      BY <2>1
    <3>2. SourceOf(r)
      BY <2>4, <3>1 DEF SourceOf
    <3>3. \A i \in Slot : slot'[i].owner = slot[i].owner
      BY <1>6
    <3>4. FedOf(t, r, slot')
      BY <2>4, <3>1, <3>3 DEF FedOf
    <3> QED
      BY <3>2, <3>4
  <2>9. ToldOf(r)
    BY <2>1, <2>4 DEF ToldOf
  <2> QED
    BY <1>10, <2>3, <2>6, <2>7, <2>8, <2>9 DEF Good
<1>12. \A t \in ToSet(list)' \cap ToSet(list) : Good(t, sound'[t], slot', life' = "run", t \in Due(loop, todo)')
  BY <1>11
<1>13. ToSet(list)' \ ToSet(list) = {}
  BY <1>10
<1> QED
  BY <1>8, <1>9, <1>10, <1>12, <1>13, SoundFrame

\* Turning on begins the loop over the list.
LEMMA TurnStreamOnKeeps ==
  ASSUME SoundInv, TurnStreamOn
  PROVE  SoundInv'
<1>1. /\ sound \in [Sound -> Identity] /\ list \in Seq(Sound) /\ IsInjective(list) /\ SoundTypeOK
  BY SoundTypes DEF SoundInv
<1>2. /\ list' = list /\ todo' = list /\ loop' = "resume" /\ turnStream' = TRUE /\ UNCHANGED <<sound, slot, life>>
  BY DEF TurnStreamOn
<1>3. LoopInv' /\ Due(loop, todo)' = {} /\ ToSet(list)' = ToSet(list)
  BY <1>2 DEF LoopInv, Due
<1> QED
  BY <1>1, <1>2, <1>3, ShorterLists

\* The loop turns the next sound on, and resumes or starts what should play.
LEMMA ResumeSoundKeeps ==
  ASSUME SoundInv, NEW s \in Sound, ResumeSound(s)
  PROVE  SoundInv'
<1> DEFINE o == sound[s]
           r == [o EXCEPT !.turn = TRUE]
           p == [r EXCEPT !.source = "play"]
           run == life = "run"
<1>1. /\ loop = "resume" /\ todo # <<>> /\ s = Head(todo) /\ todo' = Tail(todo)
      /\ UNCHANGED <<list, turnStream, life>>
  BY DEF ResumeSound
<1>2. /\ todo \in Seq(Sound) /\ IsInjective(todo) /\ LoopInv /\ sound \in [Sound -> Identity]
  BY SoundTypes DEF SoundInv
<1>3. /\ todo' \in Seq(Sound) /\ IsInjective(todo') /\ s \in ToSet(todo)
      /\ ToSet(todo') \subseteq ToSet(todo)
  BY <1>1, <1>2, TailOf
<1>4. Listed(s)
  BY <1>1, <1>2, <1>3 DEF LoopInv, Listed
<1>5. /\ SoundTypeOK /\ FreeOf(slot) /\ o \in Identity /\ slot \in [Slot -> SlotState]
      /\ SlotOf(s, o, slot) /\ WorkOf(s, o, slot)
      /\ run => SourceOf(o) /\ FedOf(s, o, slot)
      /\ ToldOf(o)
  BY <1>4, ListedSound
<1>6. \/ /\ r.state # "play" \/ r.source = "play"
         /\ sound' = [sound EXCEPT ![s] = r] /\ UNCHANGED <<slot, loop>>
      \/ /\ loop' = "crash" /\ UNCHANGED <<sound, slot>>
      \/ /\ r.state = "play" /\ r.source = "pause" /\ sound' = [sound EXCEPT ![s] = p]
         /\ slot' = SetStatus(s, "work") /\ UNCHANGED loop
      \/ r.state = "play" /\ r.source # "none" /\ PlayBuffer(s, p) /\ UNCHANGED loop
      \/ r.state = "play" /\ sound' = [sound EXCEPT ![s] = Slipped(r, "failed")] /\ UNCHANGED <<slot, loop>>
  BY DEF ResumeSound
<1> HIDE DEF run
<1>7. ASSUME loop' = loop \/ loop' = "crash" PROVE LoopInv' /\ Due(loop, todo)' = {}
  BY <1>1, <1>2, <1>3, <1>7 DEF LoopInv, Due
<1>8. ASSUME NEW v \in Identity, NEW sl \in [Slot -> SlotState], FreeOf(sl),
             sound' = [sound EXCEPT ![s] = v], slot' = sl, loop' = loop \/ loop' = "crash",
             \A i \in Slot : \A t \in Sound \ {s} : slot[i].owner = t \/ sl[i].owner = t => sl[i] = slot[i],
             SlotOf(s, v, sl), WorkOf(s, v, sl), run => SourceOf(v) /\ FedOf(s, v, sl), ToldOf(v)
      PROVE  SoundInv'
  <2>1. loop' \in {"idle", "resume", "end", "ended", "quit", "quitted", "crash"}
    BY <1>1, <1>8
  <2>2. LoopInv' /\ Due(loop, todo)' = {}
    BY <1>7, <1>8
  <2>3. Good(s, v, sl, run, s \in Due(loop, todo)')
    BY <1>8, <2>2 DEF Good
  <2> QED
    BY <1>1, <1>3, <1>8, <2>1, <2>2, <2>3, OneSteps DEF run
<1>9. CASE loop' = "crash" /\ UNCHANGED <<sound, slot>>
  <2>1. sound' = [sound EXCEPT ![s] = o] /\ slot' = slot
    BY <1>2, <1>9
  <2> HIDE DEF o
  <2> QED
    BY <1>5, <1>8, <1>9, <2>1
<1> HIDE DEF o
<1>10. /\ r \in Identity /\ r.state = o.state /\ r.told = o.told /\ r.slip = o.slip /\ r.turn
       /\ r.worker = o.worker /\ r.done = o.done /\ r.source = o.source
  BY <1>5 DEF Identity
<1> HIDE DEF r
<1>11. /\ p \in Identity /\ p.state = o.state /\ p.told = o.told /\ p.slip = o.slip /\ p.turn
       /\ p.worker = o.worker /\ p.done = o.done /\ p.source = "play"
  BY <1>10 DEF Identity
<1> HIDE DEF p
<1>12. CASE /\ r.state # "play" \/ r.source = "play"
            /\ sound' = [sound EXCEPT ![s] = r] /\ UNCHANGED <<slot, loop>>
  <2>1. SlotOf(s, r, slot) /\ WorkOf(s, r, slot) /\ ToldOf(r)
    BY <1>5, <1>10 DEF SlotOf, WorkOf, ToldOf
  <2>2. run => SourceOf(r) /\ FedOf(s, r, slot)
    BY <1>5, <1>10, <1>12 DEF SourceOf, FedOf
  <2> QED
    BY <1>5, <1>8, <1>10, <1>12, <2>1, <2>2
<1>13. CASE /\ r.state = "play" /\ r.source = "pause" /\ sound' = [sound EXCEPT ![s] = p]
            /\ slot' = SetStatus(s, "work") /\ UNCHANGED loop
  <2> DEFINE sl == SetStatus(s, "work")
  <2>1. /\ sl \in [Slot -> SlotState] /\ FreeOf(sl)
        /\ \A i \in Slot : /\ sl[i].owner = slot[i].owner
                           /\ slot[i].owner = s => sl[i].status = "work"
                           /\ slot[i].owner # s => sl[i] = slot[i]
    BY <1>5, SetStatusOf
  <2>2. sound' = [sound EXCEPT ![s] = p] /\ slot' = sl /\ loop' = loop
    BY <1>13
  <2> HIDE DEF sl
  <2>3. SlotOf(s, p, sl) /\ WorkOf(s, p, sl) /\ ToldOf(p)
    BY <1>5, <1>10, <1>11, <1>13, <2>1 DEF SlotOf, WorkOf, ToldOf
  <2>4. run => SourceOf(p) /\ FedOf(s, p, sl)
    BY <1>5, <1>10, <1>11, <1>13, <2>1 DEF SourceOf, FedOf
  <2>5. \A i \in Slot : \A t \in Sound \ {s} : slot[i].owner = t \/ sl[i].owner = t => sl[i] = slot[i]
    BY <2>1
  <2> QED
    BY <1>8, <1>11, <2>1, <2>2, <2>3, <2>4, <2>5
<1>14. CASE r.state = "play" /\ r.source # "none" /\ PlayBuffer(s, p) /\ UNCHANGED loop
  <2> DEFINE sl == IF s \in Stream /\ ~p.worker THEN Added(s) ELSE slot
             v == Played(s, p)
  <2>1. sound' = [sound EXCEPT ![s] = v] /\ slot' = sl /\ loop' = loop
    BY <1>14 DEF PlayBuffer
  <2>2. SlotOf(s, p, slot) /\ ToldOf(p)
    BY <1>5, <1>10, <1>11, <1>14 DEF SlotOf, ToldOf
  <2> HIDE DEF sl
  <2>3. /\ v \in Identity /\ sl \in [Slot -> SlotState] /\ FreeOf(sl)
        /\ \A i \in Slot : \A t \in Sound \ {s} : slot[i].owner = t \/ sl[i].owner = t => sl[i] = slot[i]
        /\ SlotOf(s, v, sl) /\ WorkOf(s, v, sl) /\ SourceOf(v) /\ FedOf(s, v, sl) /\ ToldOf(v)
    <3>1. /\ SoundTypeOK /\ FreeOf(slot) /\ p \in Identity /\ p.state = "play" /\ p.turn /\ p.source = "play"
          /\ SlotOf(s, p, slot) /\ ToldOf(p) /\ sl = IF s \in Stream /\ ~p.worker THEN Added(s) ELSE slot
      BY <1>5, <1>10, <1>11, <1>14, <2>2 DEF sl
    <3> QED
      BY <3>1, PlayedOf
  <2> HIDE DEF v
  <2> QED
    BY <1>8, <2>1, <2>3
<1>15. CASE r.state = "play" /\ sound' = [sound EXCEPT ![s] = Slipped(r, "failed")] /\ UNCHANGED <<slot, loop>>
  <2> DEFINE f == Slipped(r, "failed")
  <2>1. "failed" \in Slip /\ "failed" \notin Fine
    BY DEF Slip, Fine
  <2>2. /\ f \in Identity /\ f.slip = o.slip \cup {"failed"} /\ f.state = "play" /\ f.turn
        /\ f.source = o.source /\ f.worker = o.worker /\ f.done = o.done /\ f.told = o.told /\ o.state = "play"
    BY <1>10, <1>15, <2>1, SlippedOf
  <2>3. sound' = [sound EXCEPT ![s] = f] /\ slot' = slot /\ loop' = loop
    BY <1>15
  <2> HIDE DEF f
  <2>4. SlotOf(s, f, slot) /\ WorkOf(s, f, slot) /\ ToldOf(f)
    BY <1>5, <2>2 DEF SlotOf, WorkOf, ToldOf
  <2>5. run => SourceOf(f) /\ FedOf(s, f, slot)
    BY <1>5, <2>1, <2>2 DEF SourceOf, FedOf
  <2> QED
    BY <1>5, <1>8, <2>2, <2>3, <2>4, <2>5
<1> QED
  BY <1>6, <1>9, <1>12, <1>13, <1>14, <1>15

\* An identity whose worker was stopped.
LEMMA UnfedOf ==
  ASSUME NEW r \in Identity
  PROVE  /\ Unfed(r) \in Identity /\ Unfed(r).slip = r.slip \cap {"replayed"} /\ Unfed(r).state = r.state
         /\ Unfed(r).source = r.source /\ Unfed(r).told = r.told /\ Unfed(r).turn = r.turn
  BY DEF Unfed, Identity

\* The job without the workers of some sounds.
LEMMA FreedOf ==
  ASSUME SoundTypeOK, FreeOf(slot), NEW X \in SUBSET Sound,
         NEW sl, sl = [i \in Slot |-> IF slot[i].owner \in X THEN FreeSlot ELSE slot[i]]
  PROVE  /\ sl \in [Slot -> SlotState] /\ FreeOf(sl)
         /\ \A i \in Slot : /\ sl[i].owner \notin X
                            /\ slot[i].owner \notin X => sl[i] = slot[i]
                            /\ slot[i].owner \in X => sl[i].owner = Orphan
<1>1. FreeSlot \in SlotState /\ FreeSlot.owner = Orphan /\ Orphan \notin X
  BY SoundAssumption DEF FreeSlot, SlotState
<1>2. \A i \in Slot : slot[i] \in SlotState
  BY SoundTypes
<1> HIDE DEF FreeSlot
<1>3. sl \in [Slot -> SlotState]
  BY <1>1, <1>2
<1>4. FreeOf(sl)
  BY <1>1 DEF FreeOf
<1> QED
  BY <1>1, <1>3, <1>4

\* The tick stops what has ended, and owes its listener the news.
LEMMA TickKeeps ==
  ASSUME SoundInv, Tick
  PROVE  SoundInv'
<1> DEFINE X == {s \in Sound : Over(s)}
           Ticks(s) == Playing(s) /\ ~Over(s) /\ sound[s].turn /\ ~sound[s].worker /\ ~sound[s].looped
<1>1. /\ SoundTypeOK /\ FreeOf(slot) /\ LoopInv /\ sound \in [Sound -> Identity] /\ slot \in [Slot -> SlotState]
      /\ list \in Seq(Sound) /\ IsInjective(list) /\ ToSet(list) \subseteq Sound
  BY SoundTypes DEF SoundInv
<1>2. /\ loop' = "end" /\ todo' = ListOf(X) /\ UNCHANGED <<list, turnStream, life>>
  BY DEF Tick
<1>3. /\ todo' \in Seq(Sound) /\ IsInjective(todo') /\ ToSet(todo') = ToSet(list) \cap X
  <2> HIDE DEF X
  <2> QED
    BY <1>1, <1>2, ListOfKeeps
<1>4. slot' = [i \in Slot |-> IF slot[i].owner \in X THEN FreeSlot ELSE slot[i]]
  <2>1. \A i \in Slot : (\E s \in Sound : Over(s) /\ slot[i].owner = s) <=> slot[i].owner \in X
    OBVIOUS
  <2> HIDE DEF X
  <2> QED
    BY <2>1 DEF Tick
<1>5. /\ slot' \in [Slot -> SlotState] /\ FreeOf(slot')
      /\ \A i \in Slot : /\ slot'[i].owner \notin X
                         /\ slot[i].owner \notin X => slot'[i] = slot[i]
                         /\ slot[i].owner \in X => slot'[i].owner = Orphan
  <2>1. X \in SUBSET Sound
    OBVIOUS
  <2> HIDE DEF X
  <2> QED
    BY <1>1, <1>4, <2>1, FreedOf
<1>6. sound' = [s \in Sound |-> sound'[s]]
  BY DEF Tick
<1>7. ASSUME NEW s \in Sound
      PROVE  /\ s \in X => sound'[s] = Unfed(Stopped(sound[s]))
             /\ s \notin X /\ Ticks(s) => sound'[s] = [sound[s] EXCEPT !.left = sound[s].left - 1]
             /\ s \notin X /\ ~Ticks(s) => sound'[s] = sound[s]
  BY DEF Tick
<1>8. ASSUME NEW s \in Sound
      PROVE  /\ sound'[s] \in Identity
             /\ s \in X => /\ sound[s].state = "play" /\ sound'[s].state = "stop"
                           /\ sound'[s].slip = sound[s].slip \cap {"replayed"} /\ sound'[s].told = sound[s].told
                           /\ sound'[s].source = IF sound[s].source = "none" THEN "none" ELSE "stop"
             /\ s \notin X => /\ sound'[s].state = sound[s].state /\ sound'[s].slip = sound[s].slip
                              /\ sound'[s].told = sound[s].told /\ sound'[s].source = sound[s].source
                              /\ sound'[s].turn = sound[s].turn /\ sound'[s].worker = sound[s].worker
                              /\ sound'[s].done = sound[s].done
  <2> DEFINE o == sound[s]
  <2>1. o \in Identity
    BY <1>1
  <2>2. CASE s \in X
    <3> DEFINE q == Stopped(o)
    <3>1. 0 \in 0..Length
      BY SoundAssumption
    <3>2. o.state = "play" /\ sound'[s] = Unfed(q)
      BY <1>7, <2>2 DEF Over, Playing
    <3> HIDE DEF o
    <3>3. /\ q \in Identity /\ q.state = "stop" /\ q.slip = o.slip /\ q.told = o.told
          /\ q.source = IF o.source = "none" THEN "none" ELSE "stop"
      BY <2>1, <3>1 DEF Stopped, Identity
    <3> HIDE DEF q, X
    <3>4. s \in X /\ o = sound[s]
      BY <2>2 DEF o
    <3> QED
      BY <3>2, <3>3, <3>4, UnfedOf
  <2>3. CASE s \notin X /\ Ticks(s)
    <3>1. ~(o.left <= 1)
      BY <2>3 DEF Over
    <3>2. sound'[s] = [o EXCEPT !.left = o.left - 1]
      BY <1>7, <2>3
    <3>3. o.left - 1 \in 0..Length
      BY <2>1, <3>1, SoundAssumption DEF Identity
    <3>4. s \notin X /\ o = sound[s]
      BY <2>3
    <3> HIDE DEF o, X
    <3>5. /\ [o EXCEPT !.left = o.left - 1] \in Identity
      BY <2>1, <3>3 DEF Identity
    <3>6. /\ sound'[s].state = o.state /\ sound'[s].slip = o.slip
          /\ sound'[s].told = o.told /\ sound'[s].source = o.source
          /\ sound'[s].turn = o.turn /\ sound'[s].worker = o.worker
          /\ sound'[s].done = o.done
      BY <2>1, <3>2 DEF Identity
    <3> QED
      BY <3>2, <3>4, <3>5, <3>6
  <2>4. CASE s \notin X /\ ~Ticks(s)
    BY <1>7, <2>1, <2>4
  <2> QED
    BY <2>2, <2>3, <2>4
<1> HIDE DEF X, Ticks
<1>9. sound' \in [Sound -> Identity]
  BY <1>6, <1>8
<1>10. SoundTypeOK'
  <2>1. turnStream \in BOOLEAN /\ life \in {"run", "stop", "final"}
    BY <1>1 DEF SoundTypeOK
  <2> QED
    BY <1>1, <1>2, <1>3, <1>5, <1>9, <2>1 DEF SoundTypeOK, Identity, SlotState
<1>11. /\ LoopInv' /\ FreeOf(slot)' /\ Due(loop, todo)' = ToSet(list) \cap X /\ life' = life
       /\ ToSet(list)' = ToSet(list)
  BY <1>2, <1>3, <1>5 DEF LoopInv, Due, FreeOf
<1>12. ASSUME NEW t \in ToSet(list)
       PROVE  Good(t, sound'[t], slot', life' = "run", t \in Due(loop, todo)')
  <2> DEFINE o == sound[t]
             v == sound'[t]
  <2>1. /\ t \in Sound /\ t # Orphan /\ o \in Identity /\ SlotOf(t, o, slot) /\ WorkOf(t, o, slot)
        /\ life = "run" => SourceOf(o) /\ FedOf(t, o, slot)
        /\ ToldOf(o)
    BY <1>1, ListedSound, SoundAssumption DEF Listed
  <2>2. CASE t \in X
    <3>1. \A i \in Slot : slot'[i].owner # t
      BY <1>5, <2>2
    <3>2. /\ o.state = "play" /\ v.state = "stop" /\ v.slip = o.slip \cap {"replayed"} /\ v.told = o.told
          /\ v.source = IF o.source = "none" THEN "none" ELSE "stop"
      BY <1>8, <2>1, <2>2
    <3> HIDE DEF o, v
    <3>4. SlotOf(t, v, slot') /\ WorkOf(t, v, slot')
      BY <3>1 DEF SlotOf, WorkOf
    <3>5. life = "run" => SourceOf(v) /\ FedOf(t, v, slot')
      BY <2>1, <3>2 DEF SourceOf, FedOf
    <3>6. ToldOf(v) /\ DueOf(v)
      BY <2>1, <3>2 DEF ToldOf, DueOf
    <3>7. Good(t, v, slot', life' = "run", t \in Due(loop, todo)')
      BY <1>11, <3>4, <3>5, <3>6 DEF Good
    <3> QED
      BY <3>7 DEF v
  <2>3. CASE t \notin X
    <3>1. /\ v.state = o.state /\ v.slip = o.slip /\ v.told = o.told /\ v.source = o.source
          /\ v.turn = o.turn /\ v.worker = o.worker /\ v.done = o.done
      BY <1>8, <2>1, <2>3
    <3> HIDE DEF o, v
    <3>2. \A i \in Slot : slot[i].owner = t \/ slot'[i].owner = t => slot'[i] = slot[i]
      BY <1>5, <2>1, <2>3
    <3>3. t \notin Due(loop, todo)'
      BY <1>11, <2>3
    <3>4. SlotOf(t, v, slot') /\ WorkOf(t, v, slot') /\ ToldOf(v)
      BY <2>1, <3>1, <3>2 DEF SlotOf, WorkOf, ToldOf
    <3>5. life = "run" => SourceOf(v) /\ FedOf(t, v, slot')
      <4> HAVE life = "run"
      <4>1. SourceOf(o) /\ FedOf(t, o, slot)
        BY <2>1
      <4>2. \A i \in Slot : slot[i].owner = t => slot'[i] = slot[i]
        BY <3>2
      <4> QED
        BY <3>1, <4>1, <4>2 DEF SourceOf, FedOf
    <3>6. Good(t, v, slot', life' = "run", t \in Due(loop, todo)')
      BY <1>11, <3>3, <3>4, <3>5 DEF Good
    <3> QED
      BY <3>6 DEF v
  <2> QED
    BY <2>2, <2>3
<1>13. \A t \in ToSet(list)' \cap ToSet(list) : Good(t, sound'[t], slot', life' = "run", t \in Due(loop, todo)')
  BY <1>12
<1>14. ToSet(list)' \ ToSet(list) = {}
  BY <1>11
<1> QED
  BY <1>10, <1>11, <1>13, <1>14, SoundFrame

\* The listener of the next sound that ended is told.
LEMMA TellEndKeeps ==
  ASSUME SoundInv, NEW s \in Sound, TellEnd(s)
  PROVE  SoundInv'
<1> DEFINE o == sound[s]
           v == Told(o)
<1>1. /\ loop = "end" /\ todo # <<>> /\ s = Head(todo) /\ UNCHANGED <<list, slot, turnStream, todo, life>>
      /\ \/ Listed(s) /\ loop' = "ended" /\ sound' = [sound EXCEPT ![s] = v]
         \/ ~Listed(s) /\ loop' = "crash" /\ sound' = sound
  BY DEF TellEnd
<1>2. /\ SoundTypeOK /\ FreeOf(slot) /\ LoopInv /\ sound \in [Sound -> Identity] /\ slot \in [Slot -> SlotState]
      /\ todo \in Seq(Sound) /\ IsInjective(todo) /\ o \in Identity
  BY SoundTypes DEF SoundInv
<1>3. /\ s \in ToSet(todo) /\ ToSet(Tail(todo)) = ToSet(todo) \ {s}
  BY <1>1, <1>2, TailOf
<1>4. /\ Due(loop, todo) = ToSet(todo) /\ todo' = todo
      /\ loop' = "ended" => Due(loop, todo)' = ToSet(todo) \ {s}
      /\ loop' = "crash" => Due(loop, todo)' = {}
  BY <1>1, <1>3 DEF Due
<1>5. LoopInv' /\ loop' \in {"idle", "resume", "end", "ended", "quit", "quitted", "crash"}
  BY <1>1, <1>2 DEF LoopInv
<1>6. CASE Listed(s) /\ loop' = "ended" /\ sound' = [sound EXCEPT ![s] = v]
  <2>1. /\ SlotOf(s, o, slot) /\ WorkOf(s, o, slot) /\ (life = "run" => SourceOf(o) /\ FedOf(s, o, slot))
        /\ ToldOf(o) /\ DueOf(o)
    BY <1>3, <1>4, <1>6, ListedSound
  <2> HIDE DEF o
  <2>4. /\ v \in Identity /\ v.state = o.state /\ v.slip = o.slip /\ v.source = o.source /\ v.turn = o.turn
        /\ v.worker = o.worker /\ v.done = o.done /\ v.told = IF o.told = 3 THEN 3 ELSE o.told + 1
    BY <1>2, ToldMore
  <2> HIDE DEF v
  <2>5. SlotOf(s, v, slot) /\ WorkOf(s, v, slot) /\ (life = "run" => SourceOf(v) /\ FedOf(s, v, slot))
    BY <2>1, <2>4 DEF SlotOf, WorkOf, SourceOf, FedOf
  <2>6. ToldOf(v)
    BY <2>1, <2>4 DEF ToldOf, DueOf
  <2>7. s \notin Due(loop, todo)'
    BY <1>4, <1>6
  <2>8. Good(s, v, slot, life = "run", s \in Due(loop, todo)')
    BY <2>5, <2>6, <2>7 DEF Good
  <2>9. /\ slot' = slot /\ UNCHANGED <<list, life, turnStream>> /\ todo' \in Seq(Sound) /\ IsInjective(todo')
        /\ Due(loop, todo)' \subseteq Due(loop, todo)
        /\ \A i \in Slot : \A t \in Sound \ {s} : slot[i].owner = t \/ slot[i].owner = t => slot[i] = slot[i]
    BY <1>1, <1>2, <1>4, <1>6
  <2> QED
    BY <1>2, <1>5, <1>6, <2>4, <2>8, <2>9, OneSteps
<1>7. CASE ~Listed(s) /\ loop' = "crash" /\ sound' = sound
  <2>1. /\ list' \in Seq(Sound) /\ IsInjective(list') /\ list' = list /\ ToSet(list)' = ToSet(list)
        /\ turnStream' \in BOOLEAN
    BY <1>1, <1>2, SoundTypes DEF SoundTypeOK
  <2>2. /\ todo' \in Seq(Sound) /\ IsInjective(todo') /\ slot' = slot /\ life' = life
        /\ sound' \in [Sound -> Identity] /\ \A t \in ToSet(list)' : sound'[t] = sound[t]
        /\ Due(loop, todo)' \cap ToSet(list)' \subseteq Due(loop, todo)
    BY <1>1, <1>2, <1>4, <1>7
  <2> QED
    BY <1>5, <2>1, <2>2, ShorterLists
<1> QED
  BY <1>1, <1>6, <1>7

\* A listener returns, and a loop goes on or is over.
LEMMA LoopKeeps ==
  ASSUME SoundInv, EndReturns \/ QuitReturns \/ LoopEnds
  PROVE  SoundInv'
<1>1. /\ SoundTypeOK /\ LoopInv /\ sound \in [Sound -> Identity]
      /\ list \in Seq(Sound) /\ IsInjective(list) /\ todo \in Seq(Sound) /\ IsInjective(todo)
  BY SoundTypes DEF SoundInv
<1>2. UNCHANGED <<sound, list, slot, turnStream, life>>
  BY DEF EndReturns, QuitReturns, LoopEnds
<1>3. \/ loop = "ended" /\ loop' = "end" /\ todo' = Tail(todo) /\ todo # <<>>
      \/ loop = "quitted" /\ loop' = "quit" /\ todo' = Tail(todo) /\ todo # <<>> /\ life = "stop"
      \/ loop' = "idle" /\ todo' = todo
  BY <1>1 DEF EndReturns, QuitReturns, LoopEnds, LoopInv
<1>4. todo' \in Seq(Sound) /\ IsInjective(todo')
  <2>1. CASE todo' = todo
    BY <1>1, <2>1
  <2>2. CASE todo' = Tail(todo) /\ todo # <<>>
    <3>1. Tail(todo) \in Seq(Sound) /\ IsInjective(Tail(todo))
      BY <1>1, <2>2, TailOf
    <3> QED
      BY <2>2, <3>1
  <2> QED
    BY <1>3, <2>1, <2>2
<1>5. /\ LoopInv' /\ loop' \in {"idle", "resume", "end", "ended", "quit", "quitted", "crash"}
      /\ Due(loop, todo)' \subseteq Due(loop, todo)
  BY <1>2, <1>3 DEF LoopInv, Due
<1>6. /\ list' \in Seq(Sound) /\ IsInjective(list') /\ ToSet(list)' \subseteq ToSet(list) /\ turnStream' \in BOOLEAN
      /\ sound' \in [Sound -> Identity] /\ (\A t \in ToSet(list)' : sound'[t] = sound[t])
      /\ slot' = slot /\ life' = life
      /\ Due(loop, todo)' \cap ToSet(list)' \subseteq Due(loop, todo)
  BY <1>1, <1>2, <1>5 DEF SoundTypeOK
<1> QED
  BY <1>4, <1>5, <1>6, ShorterLists

\* The service stops what plays, and turns every sound off.
LEMMA StopServiceKeeps ==
  ASSUME SoundInv, StopService
  PROVE  SoundInv'
<1> DEFINE X == {s \in Sound : Playing(s)}
           Off(o) == [o EXCEPT !.turn = FALSE]
           Quiet(o) == [Unfed(Off(o)) EXCEPT !.source = "stop"]
<1>1. /\ SoundTypeOK /\ FreeOf(slot) /\ LoopInv /\ sound \in [Sound -> Identity] /\ slot \in [Slot -> SlotState]
      /\ list \in Seq(Sound) /\ IsInjective(list) /\ ToSet(list) \subseteq Sound /\ life = "run"
  BY SoundTypes DEF SoundInv, StopService
<1>2. /\ life' = "stop" /\ loop' = "quit" /\ todo' = list /\ UNCHANGED <<list, turnStream>>
  BY DEF StopService
<1>3. slot' = [i \in Slot |-> IF slot[i].owner \in X THEN FreeSlot ELSE slot[i]]
  <2>1. \A i \in Slot : (\E s \in Sound : Playing(s) /\ slot[i].owner = s) <=> slot[i].owner \in X
    OBVIOUS
  <2> HIDE DEF X
  <2> QED
    BY <2>1 DEF StopService
<1>4. /\ slot' \in [Slot -> SlotState] /\ FreeOf(slot')
      /\ \A i \in Slot : /\ slot'[i].owner \notin X
                         /\ slot[i].owner \notin X => slot'[i] = slot[i]
                         /\ slot[i].owner \in X => slot'[i].owner = Orphan
  <2>1. X \in SUBSET Sound
    OBVIOUS
  <2> HIDE DEF X
  <2> QED
    BY <1>1, <1>3, <2>1, FreedOf
<1>5. sound' = [s \in Sound |-> sound'[s]]
  BY DEF StopService
<1>6. ASSUME NEW s \in Sound
      PROVE  /\ s \in X => sound'[s] = Quiet(sound[s])
             /\ s \notin X /\ Listed(s) => sound'[s] = Off(sound[s])
             /\ ~Listed(s) => sound'[s] = sound[s]
             /\ s \in X => Listed(s)
             /\ Listed(s) => (s \in X <=> sound[s].state = "play")
  BY DEF StopService, Playing
<1>7. ASSUME NEW o \in Identity
      PROVE  /\ Off(o) \in Identity /\ Off(o).state = o.state /\ Off(o).slip = o.slip /\ Off(o).told = o.told
             /\ Off(o).worker = o.worker /\ Off(o).done = o.done
             /\ Quiet(o) \in Identity /\ Quiet(o).state = o.state /\ Quiet(o).slip = o.slip \cap {"replayed"}
             /\ Quiet(o).told = o.told /\ Off(o).source = o.source
  <2> DEFINE p == Off(o)
  <2>1. /\ p \in Identity /\ p.state = o.state /\ p.slip = o.slip /\ p.told = o.told
        /\ p.source = o.source /\ p.worker = o.worker /\ p.done = o.done
    BY DEF Identity
  <2> HIDE DEF p
  <2>2. /\ Unfed(p) \in Identity /\ Unfed(p).slip = p.slip \cap {"replayed"} /\ Unfed(p).state = p.state
        /\ Unfed(p).told = p.told
    BY <2>1, UnfedOf
  <2> DEFINE q == Unfed(p)
  <2> HIDE DEF q
  <2>3. /\ [q EXCEPT !.source = "stop"] \in Identity /\ [q EXCEPT !.source = "stop"].state = q.state
        /\ [q EXCEPT !.source = "stop"].slip = q.slip /\ [q EXCEPT !.source = "stop"].told = q.told
    BY <2>2 DEF Identity, q
  <2> QED
    BY <2>1, <2>2, <2>3 DEF p, q
<1> HIDE DEF X, Off, Quiet
<1>8. sound' \in [Sound -> Identity]
  <2>1. \A s \in Sound : sound'[s] \in Identity
    BY <1>1, <1>6, <1>7
  <2> QED
    BY <1>5, <2>1
<1>9. SoundTypeOK'
  <2>1. turnStream \in BOOLEAN
    BY <1>1 DEF SoundTypeOK
  <2> QED
    BY <1>1, <1>2, <1>4, <1>8, <2>1 DEF SoundTypeOK, Identity, SlotState
<1>10. /\ LoopInv' /\ FreeOf(slot)' /\ Due(loop, todo)' = {} /\ life' # "run" /\ ToSet(list)' = ToSet(list)
  BY <1>2, <1>4 DEF LoopInv, Due, FreeOf
<1>11. ASSUME NEW t \in ToSet(list)
       PROVE  Good(t, sound'[t], slot', life' = "run", t \in Due(loop, todo)')
  <2> DEFINE o == sound[t]
             v == sound'[t]
  <2>1. /\ t \in Sound /\ t # Orphan /\ Listed(t) /\ o \in Identity /\ SlotOf(t, o, slot) /\ WorkOf(t, o, slot)
        /\ ToldOf(o) /\ o.source # "none"
    BY <1>1, ListedSound, SoundAssumption DEF Listed, SourceOf
  <2>2. CASE t \in X
    <3>1. \A i \in Slot : slot'[i].owner # t
      BY <1>4, <2>2
    <3>2. v.state = o.state /\ v.slip = o.slip \cap {"replayed"} /\ v.told = o.told
      BY <1>6, <1>7, <2>1, <2>2
    <3> HIDE DEF o, v
    <3>3. SlotOf(t, v, slot') /\ WorkOf(t, v, slot')
      BY <3>1 DEF SlotOf, WorkOf
    <3>4. ToldOf(v)
      BY <2>1, <3>2 DEF ToldOf
    <3>5. Good(t, v, slot', life' = "run", t \in Due(loop, todo)')
      BY <1>10, <3>3, <3>4 DEF Good
    <3> QED
      BY <3>5 DEF v
  <2>3. CASE t \notin X
    <3>1. /\ v.state = o.state /\ v.slip = o.slip /\ v.told = o.told /\ v.worker = o.worker /\ v.done = o.done
          /\ v.source = o.source /\ o.state # "play"
      BY <1>6, <1>7, <2>1, <2>3
    <3> HIDE DEF o, v
    <3>2. \A i \in Slot : slot'[i].owner = t => slot'[i] = slot[i]
      BY <1>4, <2>1, <2>3
    <3>3. SlotOf(t, v, slot') /\ WorkOf(t, v, slot') /\ ToldOf(v)
      BY <2>1, <3>1, <3>2 DEF SlotOf, WorkOf, ToldOf
    <3>4. Good(t, v, slot', life' = "run", t \in Due(loop, todo)')
      BY <1>10, <3>3 DEF Good
    <3> QED
      BY <3>4 DEF v
  <2> QED
    BY <2>2, <2>3
<1>12. \A t \in ToSet(list)' \cap ToSet(list) : Good(t, sound'[t], slot', life' = "run", t \in Due(loop, todo)')
  BY <1>11
<1>13. ToSet(list)' \ ToSet(list) = {}
  BY <1>10
<1> QED
  BY <1>9, <1>10, <1>12, <1>13, SoundFrame

\* The next sound loses its source and its worker, and its listener hears of the stop.
LEMMA QuitSoundKeeps ==
  ASSUME SoundInv, NEW s \in Sound, QuitSound(s)
  PROVE  SoundInv'
<1> DEFINE o == sound[s]
           n == [o EXCEPT !.source = "none"]
           m == IF HasListener(s) THEN Told(n) ELSE n
           v == Unfed(m)
           sl == Removed(s)
<1>1. /\ loop = "quit" /\ todo # <<>> /\ s = Head(todo) /\ UNCHANGED <<list, turnStream, life>>
      /\ \/ HasListener(s) /\ loop' = "quitted" /\ todo' = todo
         \/ ~HasListener(s) /\ loop' = "quit" /\ todo' = Tail(todo)
      /\ sound' = [sound EXCEPT ![s] = v] /\ slot' = sl
      /\ HasListener(s) <=> o.source # "none"
  BY DEF QuitSound, StopBuffer, HasListener
<1>2. /\ SoundTypeOK /\ FreeOf(slot) /\ LoopInv /\ slot \in [Slot -> SlotState] /\ life = "stop"
      /\ todo \in Seq(Sound) /\ IsInjective(todo) /\ o \in Identity
  BY <1>1, SoundTypes DEF SoundInv, LoopInv
<1>3. Listed(s) => ToldOf(o)
  BY ListedSound
<1> HIDE DEF o
<1>4. n \in Identity /\ n.state = o.state /\ n.slip = o.slip /\ n.told = o.told /\ n.source = "none"
  BY <1>2 DEF Identity
<1> HIDE DEF n
<1>5. /\ m \in Identity /\ m.state = o.state /\ m.slip = o.slip /\ m.source = "none"
      /\ m.told = IF o.source = "none" THEN o.told ELSE IF o.told = 3 THEN 3 ELSE o.told + 1
  BY <1>1, <1>4, ToldMore
<1> HIDE DEF m
<1>6. /\ v \in Identity /\ v.state = o.state /\ v.slip = o.slip \cap {"replayed"} /\ v.source = "none"
      /\ v.told = m.told
  BY <1>5, UnfedOf
<1>7. /\ sl \in [Slot -> SlotState] /\ FreeOf(sl)
      /\ \A i \in Slot : /\ sl[i].owner # s
                         /\ slot[i].owner = s => sl[i] = FreeSlot
                         /\ slot[i].owner # s => sl[i] = slot[i]
  BY <1>2, RemovedOf
<1> HIDE DEF v, sl
<1>8. FreeSlot.owner = Orphan /\ Orphan \notin Sound
  BY SoundAssumption DEF FreeSlot
<1>9. \A i \in Slot : \A t \in Sound \ {s} : slot[i].owner = t \/ sl[i].owner = t => sl[i] = slot[i]
  BY <1>7, <1>8
<1>10. /\ LoopInv' /\ Due(loop, todo)' = {} /\ todo' \in Seq(Sound) /\ IsInjective(todo')
       /\ loop' \in {"idle", "resume", "end", "ended", "quit", "quitted", "crash"}
  <2>1. Tail(todo) \in Seq(Sound) /\ IsInjective(Tail(todo))
    BY <1>1, <1>2, TailOf
  <2> QED
    BY <1>1, <1>2, <2>1 DEF LoopInv, Due
<1>11. SlotOf(s, v, sl) /\ WorkOf(s, v, sl)
  BY <1>7 DEF SlotOf, WorkOf
<1>12. Listed(s) => ToldOf(v)
  BY <1>3, <1>5, <1>6 DEF ToldOf
<1>13. Listed(s) => Good(s, v, sl, life = "run", s \in Due(loop, todo)')
  BY <1>2, <1>10, <1>11, <1>12 DEF Good
<1>14. Due(loop, todo)' \subseteq Due(loop, todo)
  BY <1>10
<1> QED
  BY <1>1, <1>6, <1>7, <1>9, <1>10, <1>13, <1>14, OneSteps

\* Nothing is left of the lists and of the job.
LEMMA FinalizeKeeps ==
  ASSUME SoundInv, FinalizeService
  PROVE  SoundInv'
<1>1. /\ SoundTypeOK /\ LoopInv /\ loop = "idle" /\ life' = "final"
      /\ sound' = [s \in Sound |-> NewSound] /\ list' = <<>> /\ slot' = [i \in Slot |-> FreeSlot]
      /\ UNCHANGED <<turnStream, loop, todo>>
  BY DEF SoundInv, FinalizeService
<1>2. sound' \in [Sound -> Identity]
  <2> HIDE DEF NewSound
  <2> QED
    BY <1>1, NewSoundType
<1>3. slot' \in [Slot -> SlotState] /\ FreeOf(slot)'
  <2>1. FreeSlot \in SlotState /\ FreeSlot.owner = Orphan
    BY DEF FreeSlot, SlotState
  <2> HIDE DEF FreeSlot
  <2> QED
    BY <1>1, <2>1 DEF FreeOf
<1>4. list' \in Seq(Sound) /\ IsInjective(list') /\ ToSet(list)' = {}
  BY <1>1 DEF IsInjective, ToSet
<1>5. SoundTypeOK'
  BY <1>1, <1>2, <1>3, <1>4 DEF SoundTypeOK, Identity, SlotState
<1>6. LoopInv'
  BY <1>1 DEF LoopInv
<1>7. /\ \A t \in ToSet(list)' \ {} :
           /\ t \in ToSet(list) /\ sound'[t] = sound[t]
           /\ \A i \in Slot : slot[i].owner = t \/ slot'[i].owner = t => slot'[i] = slot[i]
           /\ t \in Due(loop, todo)' => t \in Due(loop, todo)
  BY <1>4
<1>8. \A t \in ToSet(list)' \cap {} : Good(t, sound'[t], slot', life' = "run", t \in Due(loop, todo)')
  OBVIOUS
<1> QED
  BY <1>1, <1>3, <1>5, <1>6, <1>7, <1>8, SoundFrame

------------------------------------------------------------------------------
(* The theorems *)

\* The service starts with nothing listed, and with an empty job.
LEMMA SoundInitial == SoundInit => SoundInv
<1> SUFFICES ASSUME SoundInit PROVE SoundInv
  OBVIOUS
<1>1. /\ sound = [s \in Sound |-> NewSound] /\ list = <<>> /\ slot = [i \in Slot |-> FreeSlot]
      /\ turnStream = TRUE /\ loop = "idle" /\ todo = <<>> /\ life = "run"
  BY DEF SoundInit
<1>2. sound \in [Sound -> Identity]
  <2> HIDE DEF NewSound
  <2> QED
    BY <1>1, NewSoundType
<1>3. slot \in [Slot -> SlotState] /\ FreeOf(slot)
  <2>1. FreeSlot \in SlotState /\ FreeSlot.owner = Orphan
    BY DEF FreeSlot, SlotState
  <2> HIDE DEF FreeSlot
  <2> QED
    BY <1>1, <2>1 DEF FreeOf
<1>4. list \in Seq(Sound) /\ IsInjective(list) /\ todo \in Seq(Sound) /\ IsInjective(todo) /\ ToSet(list) = {}
  BY <1>1 DEF IsInjective, ToSet
<1>5. SoundTypeOK
  BY <1>1, <1>2, <1>3, <1>4 DEF SoundTypeOK, Identity, SlotState
<1>6. LoopInv /\ GoodInv
  BY <1>1, <1>4 DEF LoopInv, GoodInv
<1> QED
  BY <1>3, <1>5, <1>6 DEF SoundInv

\* The invariant of the sound service: what the slots of the job, the source and the
\* slips of a listed sound know of each other, and what its listener has heard.
THEOREM SoundInductive == SoundSpec => []SoundInv
<1>1. SoundInv /\ [SoundNext]_soundVars => SoundInv'
  <2> SUFFICES ASSUME SoundInv, [SoundNext]_soundVars PROVE SoundInv'
    OBVIOUS
  <2>1. CASE Main
    BY <2>1, ResumeSoundKeeps, TellEndKeeps, QuitSoundKeeps, LoopKeeps DEF Main
  <2>2. CASE Calls
    BY <2>2, CreateKeeps, ReleaseKeeps, PlayEmitterKeeps, ResumeEmitterKeeps, PauseEmitterKeeps,
       StopEmitterKeeps, PositionKeeps DEF Calls
  <2>3. CASE Works
    BY <2>3, WorkEndsKeeps DEF Works
  <2>4. CASE TurnStreamOff \/ TurnStreamOn \/ Tick \/ JobUpdate \/ StopService \/ FinalizeService
    BY <2>4, TurnStreamOffKeeps, TurnStreamOnKeeps, TickKeeps, JobUpdateKeeps, StopServiceKeeps, FinalizeKeeps
  <2>5. CASE UNCHANGED soundVars
    BY <2>5 DEF soundVars, SoundInv, SoundTypeOK, FreeOf, LoopInv, GoodInv, Good, Due,
       SlotOf, WorkOf, SourceOf, FedOf, ToldOf, DueOf
  <2> QED
    BY <2>1, <2>2, <2>3, <2>4, <2>5 DEF SoundNext
<1> QED
  BY SoundInitial, <1>1, PTL DEF SoundSpec

\* The type invariant of the sound service: its lists never hold an identity twice.
THEOREM SoundTypeCorrect == SoundSpec => []SoundTypeOK
<1>1. SoundInv => SoundTypeOK
  BY DEF SoundInv
<1> QED
  BY SoundInductive, <1>1, PTL

\* Between calls, the job feeds every sound that is heard and works for no other.
THEOREM SoundFed == SoundSpec => []FedWhilePlaying
<1>1. SoundInv => FedWhilePlaying
  <2> SUFFICES ASSUME SoundInv PROVE FedWhilePlaying
    OBVIOUS
  <2>1. ASSUME NEW s \in ToSet(list)
        PROVE  WorkOf(s, sound[s], slot) /\ (life = "run" => FedOf(s, sound[s], slot))
    BY DEF SoundInv, GoodInv, Good
  <2>2. PlayingIsFed
    BY <2>1 DEF PlayingIsFed, FedOf, Fine
  <2>3. WorkIsForPlaying
    BY <2>1 DEF WorkIsForPlaying, WorkOf
  <2> QED
    BY <2>2, <2>3 DEF FedWhilePlaying
<1> QED
  BY SoundInductive, <1>1, PTL

\* A listener is told of the end or the stop of a play once, and once more when the
\* service stops.
THEOREM SoundToldOnce == SoundSpec => []ToldOnce
<1>1. SoundInv => ToldOnce
  <2> SUFFICES ASSUME SoundInv PROVE ToldOnce
    OBVIOUS
  <2>1. ASSUME NEW s \in ToSet(list)
        PROVE  ToldOf(sound[s]) /\ (life = "run" => sound[s].source # "none")
    BY DEF SoundInv, GoodInv, Good, SourceOf
  <2>2. ASSUME NEW s \in ToSet(list), "replayed" \notin sound[s].slip
        PROVE  sound[s].told <= IF Quit(s) THEN 2 ELSE 1
    BY <2>1, <2>2 DEF ToldOf, Quit
  <2>3. ASSUME life = "run", loop = "ended", Listed(Head(todo)), sound[Head(todo)].told > 0
        PROVE  sound[Head(todo)].state = "stop" \/ "replayed" \in sound[Head(todo)].slip
    BY <2>1, <2>3 DEF ToldOf, Listed
  <2> QED
    BY <2>2, <2>3 DEF ToldOnce
<1> QED
  BY SoundInductive, <1>1, PTL
==============================================================================
