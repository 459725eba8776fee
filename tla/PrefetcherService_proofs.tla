----------------------- MODULE PrefetcherService_proofs -----------------------
(***************************************************************************)
(* Proofs about PrefetcherService, for any finite set of files and of      *)
(* batches: how often a file is counted is how many batches hold it, and   *)
(* what the count of an observer and its script tell of the tasks.         *)
(***************************************************************************)
EXTENDS PrefetcherService, FiniteSetTheorems, TLAPS

Holders(k) == {b \in Batch : k \in holds[b]}

\* The types of what is counted.
EntryType ==
  /\ wants \in [Batch -> SUBSET Key \ {{}}]
  /\ entry \in [Key -> {None} \cup [ref : Nat \ {0}, of : Batch]]
  /\ closed \in BOOLEAN
  /\ holds \in [Batch -> SUBSET Key] /\ popped \subseteq Key

\* A batch gives back all that it asked for.
HoldsInv == \A b \in Batch : holds[b] = {} \/ holds[b] = wants[b]

\* A file is never counted more often than it is held, and exactly as often unless
\* popData() or the end of the service took it from its holders.
CountInv ==
  \A k \in Key :
    /\ entry[k].ref <= Cardinality(Holders(k))
    /\ ~closed /\ k \notin popped => entry[k].ref = Cardinality(Holders(k))

IInv == EntryType /\ HoldsInv /\ CountInv

------------------------------------------------------------------------------
(* Counting the holders of a file *)

\* The holders of a file are finitely many.
LEMMA HoldersFinite ==
  ASSUME NEW k
  PROVE  IsFiniteSet(Holders(k)) /\ Cardinality(Holders(k)) \in Nat
<1>1. Holders(k) \in SUBSET Batch
  BY DEF Holders
<1>2. IsFiniteSet(Holders(k))
  BY <1>1, PrefetcherAssumption, FS_Subset
<1> QED
  BY <1>2, FS_CardinalityType

\* The count of an entry is a number, which is 0 when there is no entry.
LEMMA RefType ==
  ASSUME EntryType, NEW k \in Key
  PROVE  /\ entry[k].ref \in Nat
         /\ entry[k] = None <=> entry[k].ref = 0
<1>1. CASE entry[k] = None
  BY <1>1 DEF None
<1>2. CASE entry[k] \in [ref : Nat \ {0}, of : Batch]
  BY <1>2 DEF None
<1> QED
  BY <1>1, <1>2 DEF EntryType

\* A batch that asks is one more holder of the files it wants.
LEMMA AskedHolders ==
  ASSUME EntryType, NEW b \in Batch, holds[b] = {}, NEW k \in Key,
         holds' = [holds EXCEPT ![b] = wants[b]]
  PROVE  Cardinality(Holders(k)') = Cardinality(Holders(k)) + (IF k \in wants[b] THEN 1 ELSE 0)
<1>1. b \notin Holders(k) /\ IsFiniteSet(Holders(k)) /\ Cardinality(Holders(k)) \in Nat
  BY HoldersFinite DEF Holders
<1>2. CASE k \in wants[b]
  <2>1. Holders(k)' = Holders(k) \cup {b}
    BY <1>2 DEF Holders, EntryType
  <2> QED
    BY <1>1, <1>2, <2>1, FS_AddElement
<1>3. CASE k \notin wants[b]
  <2>1. Holders(k)' = Holders(k)
    BY <1>3 DEF Holders, EntryType
  <2> QED
    BY <1>1, <1>3, <2>1
<1> QED
  BY <1>2, <1>3

\* A batch that gives its files back is one holder less of each.
LEMMA LeftHolders ==
  ASSUME EntryType, NEW b \in Batch, holds[b] = wants[b], NEW k \in Key,
         holds' = [holds EXCEPT ![b] = {}]
  PROVE  /\ Cardinality(Holders(k)') = Cardinality(Holders(k)) - (IF k \in wants[b] THEN 1 ELSE 0)
         /\ k \in wants[b] => Cardinality(Holders(k)) >= 1
<1>1. IsFiniteSet(Holders(k)) /\ Cardinality(Holders(k)) \in Nat
  BY HoldersFinite
<1>2. CASE k \in wants[b]
  <2>1. Holders(k)' = Holders(k) \ {b} /\ b \in Holders(k)
    BY <1>2 DEF Holders, EntryType
  <2>2. Cardinality(Holders(k)') = Cardinality(Holders(k)) - 1
    BY <1>1, <2>1, FS_RemoveElement
  <2>3. Cardinality(Holders(k)) # 0
    BY <1>1, <2>1, FS_EmptySet
  <2> QED
    BY <1>1, <1>2, <2>2, <2>3
<1>3. CASE k \notin wants[b]
  <2>1. Holders(k)' = Holders(k)
    BY <1>3 DEF Holders, EntryType
  <2> QED
    BY <1>1, <1>3, <2>1
<1> QED
  BY <1>2, <1>3

------------------------------------------------------------------------------
(* The inductive invariant *)

\* Nothing is held at first.
LEMMA InitInv == Init => IInv
<1> SUFFICES ASSUME Init PROVE IInv
  OBVIOUS
<1>1. EntryType /\ HoldsInv
  BY DEF Init, EntryType, HoldsInv
<1>2. ASSUME NEW k \in Key PROVE entry[k].ref = 0 /\ Cardinality(Holders(k)) = 0
  <2>1. Holders(k) = {}
    BY DEF Init, Holders
  <2> QED
    BY <2>1, <1>2, FS_EmptySet DEF Init, None
<1> QED
  BY <1>1, <1>2 DEF IInv, CountInv

\* Asking keeps it.
LEMMA PrefetchStep ==
  ASSUME IInv, NEW b \in Batch, PrefetchResources(b)
  PROVE  IInv'
<1> DEFINE new == {k \in wants[b] : entry[k] = None}
<1>1. /\ holds[b] = {} /\ ~closed
      /\ entry' = [k \in Key |-> IF k \in new THEN [ref |-> 1, of |-> b]
                                 ELSE IF k \in wants[b] THEN [entry[k] EXCEPT !.ref = @ + 1]
                                 ELSE entry[k]]
      /\ holds' = [holds EXCEPT ![b] = wants[b]]
      /\ UNCHANGED <<wants, closed, popped>>
  BY DEF PrefetchResources, Asked
<1>2. EntryType /\ HoldsInv /\ CountInv
  BY DEF IInv
<1>3. ASSUME NEW k \in Key
      PROVE  /\ entry'[k] \in {None} \cup [ref : Nat \ {0}, of : Batch]
             /\ entry'[k].ref = entry[k].ref + (IF k \in wants[b] THEN 1 ELSE 0)
  <2>1. entry[k].ref \in Nat /\ (entry[k] = None <=> entry[k].ref = 0)
    BY <1>2, RefType
  <2>2. CASE k \in new
    BY <1>1, <2>1, <2>2
  <2>3. CASE k \notin new /\ k \in wants[b]
    <3>1. entry[k] \in [ref : Nat \ {0}, of : Batch]
      BY <1>2, <2>3 DEF EntryType
    <3> QED
      BY <1>1, <2>3, <3>1
  <2>4. CASE k \notin wants[b]
    BY <1>1, <1>2, <2>1, <2>4 DEF EntryType
  <2> QED
    BY <2>2, <2>3, <2>4
<1>4. EntryType' /\ HoldsInv'
  BY <1>1, <1>2, <1>3 DEF EntryType, HoldsInv
<1>5. CountInv'
  <2> SUFFICES ASSUME NEW k \in Key
               PROVE  /\ entry'[k].ref <= Cardinality(Holders(k)')
                      /\ ~closed' /\ k \notin popped' => entry'[k].ref = Cardinality(Holders(k)')
    BY DEF CountInv
  <2>1. /\ entry[k].ref \in Nat /\ Cardinality(Holders(k)) \in Nat
        /\ Cardinality(Holders(k)') = Cardinality(Holders(k)) + (IF k \in wants[b] THEN 1 ELSE 0)
    BY <1>1, <1>2, RefType, HoldersFinite, AskedHolders
  <2>2. /\ entry[k].ref <= Cardinality(Holders(k))
        /\ ~closed /\ k \notin popped => entry[k].ref = Cardinality(Holders(k))
    BY <1>2 DEF CountInv
  <2>3. entry'[k].ref = entry[k].ref + (IF k \in wants[b] THEN 1 ELSE 0)
    BY <1>3
  <2>4. UNCHANGED <<closed, popped>>
    BY <1>1
  <2> QED
    BY <2>1, <2>2, <2>3, <2>4
<1> QED
  BY <1>4, <1>5 DEF IInv

\* Giving back keeps it: a file that nothing counts any more was held by nobody else.
LEMMA UnfetchStep ==
  ASSUME IInv, NEW b \in Batch, UnfetchResources(b)
  PROVE  IInv'
<1> DEFINE known == {k \in wants[b] : entry[k] # None}
           last == {k \in known : IsLast(k)}
<1>1. /\ holds[b] # {}
      /\ entry' = [k \in Key |-> IF k \in last THEN None
                                 ELSE IF k \in known THEN [entry[k] EXCEPT !.ref = @ - 1]
                                 ELSE entry[k]]
      /\ holds' = [holds EXCEPT ![b] = {}]
      /\ UNCHANGED <<wants, closed, popped>>
  BY DEF UnfetchResources
<1>2. EntryType /\ HoldsInv /\ CountInv /\ holds[b] = wants[b]
  BY <1>1 DEF IInv, HoldsInv
<1>3. ASSUME NEW k \in Key
      PROVE  /\ entry'[k] \in {None} \cup [ref : Nat \ {0}, of : Batch]
             /\ entry'[k].ref = entry[k].ref - (IF k \in wants[b] /\ entry[k].ref # 0 THEN 1 ELSE 0)
  <2>1. entry[k].ref \in Nat /\ (entry[k] = None <=> entry[k].ref = 0)
    BY <1>2, RefType
  <2>2. CASE k \in last
    BY <1>1, <2>1, <2>2 DEF IsLast, None
  <2>3. CASE k \in known /\ k \notin last
    <3>1. entry[k] \in [ref : Nat \ {0}, of : Batch] /\ entry[k].ref # 1
      BY <1>2, <2>3 DEF EntryType, IsLast
    <3> QED
      BY <1>1, <2>3, <3>1, <2>1
  <2>4. CASE k \notin known
    BY <1>1, <1>2, <2>1, <2>4 DEF EntryType
  <2> QED
    BY <2>2, <2>3, <2>4
<1>4. EntryType' /\ HoldsInv'
  BY <1>1, <1>2, <1>3 DEF EntryType, HoldsInv
<1>5. CountInv'
  <2> SUFFICES ASSUME NEW k \in Key
               PROVE  /\ entry'[k].ref <= Cardinality(Holders(k)')
                      /\ ~closed' /\ k \notin popped' => entry'[k].ref = Cardinality(Holders(k)')
    BY DEF CountInv
  <2>1. /\ entry[k].ref \in Nat /\ Cardinality(Holders(k)) \in Nat
        /\ Cardinality(Holders(k)') = Cardinality(Holders(k)) - (IF k \in wants[b] THEN 1 ELSE 0)
        /\ k \in wants[b] => Cardinality(Holders(k)) >= 1
    BY <1>1, <1>2, RefType, HoldersFinite, LeftHolders
  <2>2. /\ entry[k].ref <= Cardinality(Holders(k))
        /\ ~closed /\ k \notin popped => entry[k].ref = Cardinality(Holders(k))
    BY <1>2 DEF CountInv
  <2>3. entry'[k].ref = entry[k].ref - (IF k \in wants[b] /\ entry[k].ref # 0 THEN 1 ELSE 0)
    BY <1>3
  <2>4. UNCHANGED <<closed, popped>>
    BY <1>1
  <2> QED
    BY <2>1, <2>2, <2>3, <2>4
<1> QED
  BY <1>4, <1>5 DEF IInv

\* So do popData() and the end of the service, which forget entries whoever holds them.
LEMMA ForgetStep ==
  ASSUME IInv, UNCHANGED <<wants, holds>>,
         NEW gone \in SUBSET Key,
         entry' = [k \in Key |-> IF k \in gone THEN None ELSE entry[k]],
         \/ closed' = closed /\ popped' = popped \cup gone
         \/ closed' = TRUE /\ popped' = popped
  PROVE  IInv'
<1>1. EntryType' /\ HoldsInv'
  BY DEF IInv, EntryType, HoldsInv
<1>2. ASSUME NEW k \in Key PROVE Holders(k)' = Holders(k) /\ Cardinality(Holders(k)) \in Nat
  BY HoldersFinite DEF Holders
<1>3. ASSUME NEW k \in Key PROVE entry'[k].ref = IF k \in gone THEN 0 ELSE entry[k].ref
  BY <1>3 DEF None
<1>4. CountInv'
  BY <1>2, <1>3 DEF IInv, CountInv, EntryType
<1> QED
  BY <1>1, <1>4 DEF IInv

\* Every step keeps it.
LEMMA NextStep == IInv /\ [Next]_vars => IInv'
<1> SUFFICES ASSUME IInv, [Next]_vars PROVE IInv'
  OBVIOUS
<1> DEFINE counted == <<wants, entry, closed, holds, popped>>
<1>1. ASSUME UNCHANGED counted PROVE IInv'
  BY <1>1 DEF IInv, EntryType, HoldsInv, CountInv, Holders
<1>2. CASE \E b \in Batch : PrefetchResources(b) \/ UnfetchResources(b)
  BY <1>2, PrefetchStep, UnfetchStep
<1>3. CASE \E b \in Batch, k \in Key : Run(b, k) \/ Main(b, k) \/ Update(b, k)
  BY <1>1, <1>3 DEF Run, Main, Update, Become, clients
<1>4. CASE \E k \in Key : PopData(k)
  <2>1. PICK k \in Key : PopData(k)
    BY <1>4
  <2>2. /\ UNCHANGED <<wants, holds, closed>> /\ popped' = popped \cup {k}
        /\ entry' = [entry EXCEPT ![k] = None]
    BY <2>1 DEF PopData
  <2>3. entry' = [j \in Key |-> IF j \in {k} THEN None ELSE entry[j]]
    BY <2>2 DEF IInv, EntryType
  <2> QED
    BY <2>2, <2>3, ForgetStep
<1>5. CASE FinalizeService
  <2>1. UNCHANGED <<wants, holds, popped>> /\ closed' = TRUE /\ entry' = [k \in Key |-> None]
    BY <1>5 DEF FinalizeService, clients
  <2>2. entry' = [k \in Key |-> IF k \in Key THEN None ELSE entry[k]]
    BY <2>1
  <2> QED
    BY <2>1, <2>2, ForgetStep
<1>6. CASE UNCHANGED vars
  BY <1>1, <1>6 DEF vars, service, clients
<1> QED
  BY <1>2, <1>3, <1>4, <1>5, <1>6 DEF Next

\* What is counted keeps its type, and no file is counted more often than it is held.
THEOREM Inductive == Spec => []IInv
<1>1. Init => IInv
  BY InitInv
<1>2. IInv /\ [Next]_vars => IInv'
  BY NextStep
<1> QED
  BY <1>1, <1>2, PTL DEF Spec

\* A file is kept as long as a batch holds it and no longer, whichever batch asked first
\* and whatever became of its task, unless popData() took it from its holders.
THEOREM HeldAreKept == Spec => []HeldIsKept
<1>1. IInv => HeldIsKept
  <2> SUFFICES ASSUME IInv, ~closed, NEW k \in Key \ popped
               PROVE  Cardinality({b \in Batch : k \in holds[b]}) = entry[k].ref
    BY DEF HeldIsKept
  <2> QED
    BY DEF IInv, CountInv, Holders
<1> QED
  BY <1>1, Inductive, PTL

------------------------------------------------------------------------------
(* What the observers count *)

\* The tasks whose end was not told to the observer, and among them the cancelled ones.
Untold(b) == {k \in Key : task[b][k] \notin {"none", "loaded", "broken"}}
Gone(b) == {k \in Key : task[b][k] = "cancelled"}

\* The types of what the observers know.
TaskType ==
  /\ task \in [Batch -> [Key -> Statuses]]
  /\ count \in [Batch -> Int]
  /\ told \in [Batch -> {"none", "ok", "failed"}]

\* An entry has the task it was made with.
MadeInv == \A k \in Key : entry[k] # None => task[entry[k].of][k] # "none"

\* A task is counted off once when its end is told, and once or twice when it is cancelled.
BoundInv ==
  \A b \in Batch :
    /\ count[b] <= Cardinality(Untold(b)) - Cardinality(Gone(b))
    /\ count[b] >= Cardinality(Untold(b)) - 2 * Cardinality(Gone(b))

\* The script is told when the count comes to its end, and of a success when all is there.
ToldInv ==
  \A b \in Batch :
    /\ told[b] = "none" <=> Own(b) = {} \/ count[b] > 0
    /\ told[b] = "ok" => \A k \in Own(b) : task[b][k] = "loaded"

EndInv == TaskType /\ MadeInv /\ BoundInv /\ ToldInv

------------------------------------------------------------------------------
(* Counting the tasks of an observer *)

\* The tasks of an observer are finitely many, and the cancelled ones are untold.
LEMMA TasksFinite ==
  ASSUME NEW b
  PROVE  /\ IsFiniteSet(Untold(b)) /\ Cardinality(Untold(b)) \in Nat
         /\ IsFiniteSet(Gone(b)) /\ Cardinality(Gone(b)) \in Nat
         /\ Cardinality(Gone(b)) <= Cardinality(Untold(b))
         /\ Cardinality(Untold(b)) <= Cardinality(Key)
<1>1. Untold(b) \in SUBSET Key /\ Gone(b) \in SUBSET Untold(b)
  BY DEF Untold, Gone
<1>2. IsFiniteSet(Untold(b)) /\ Cardinality(Untold(b)) <= Cardinality(Key)
  BY <1>1, PrefetcherAssumption, FS_Subset
<1>3. IsFiniteSet(Gone(b)) /\ Cardinality(Gone(b)) <= Cardinality(Untold(b))
  BY <1>1, <1>2, FS_Subset
<1> QED
  BY <1>2, <1>3, FS_CardinalityType

\* The tasks of a batch are as many as their files.
LEMMA OfBatch ==
  ASSUME NEW S \in SUBSET (Batch \X Key), NEW b \in Batch
  PROVE  /\ IsFiniteSet({c \in S : c[1] = b})
         /\ IsFiniteSet({k \in Key : <<b, k>> \in S})
         /\ Cardinality({k \in Key : <<b, k>> \in S}) \in Nat
         /\ Cardinality({c \in S : c[1] = b}) = Cardinality({k \in Key : <<b, k>> \in S})
<1> DEFINE K == {k \in Key : <<b, k>> \in S}
           T == {c \in S : c[1] = b}
           f == [k \in K |-> <<b, k>>]
<1>1. IsFiniteSet(K)
  BY PrefetcherAssumption, FS_Subset
<1>2. f \in Bijection(K, T)
  <2>1. f \in [K -> T]
    OBVIOUS
  <2>2. \A x, y \in K : f[x] = f[y] => x = y
    OBVIOUS
  <2>3. \A c \in T : \E k \in K : f[k] = c
    OBVIOUS
  <2> QED
    BY <2>1, <2>2, <2>3 DEF Bijection, Injection, Surjection, IsInjective
<1>3. IsFiniteSet(T) /\ Cardinality(T) = Cardinality(K)
  BY <1>1, <1>2, FS_Bijection DEF ExistsBijection
<1> QED
  BY <1>1, <1>3, FS_CardinalityType

\* Cancelling tasks counts each of those that live once or twice.
LEMMA CancelStep ==
  ASSUME TaskType, BoundInv, ToldInv,
         NEW cs \in SUBSET (Batch \X Key), \A c \in cs : task[c[1]][c[2]] # "none",
         NEW late, CancelAll(cs, late)
  PROVE  /\ TaskType' /\ BoundInv' /\ ToldInv'
         /\ \A b \in Batch, k \in Key : task'[b][k] = "none" <=> task[b][k] = "none"
<1> DEFINE live == {c \in cs : task[c[1]][c[2]] \notin Complete \cup {"cancelled"}}
           calls(b) == Cardinality({c \in live : c[1] = b}) + Cardinality({c \in live \ late : c[1] = b})
           files(b) == {k \in Key : <<b, k>> \in live}
<1>1. /\ task' = [b \in Batch |-> [k \in Key |-> IF <<b, k>> \in live THEN "cancelled" ELSE task[b][k]]]
      /\ count' = [b \in Batch |-> count[b] - calls(b)]
      /\ told' = [b \in Batch |-> IF count[b] > 0 /\ count'[b] <= 0 THEN "failed" ELSE told[b]]
  BY DEF CancelAll
<1>2. live \in SUBSET (Batch \X Key) /\ live \ late \in SUBSET live
  OBVIOUS
<1>3. \A b \in Batch, k \in Key :
        <<b, k>> \in live => task[b][k] \notin Complete \cup {"cancelled", "none"}
  OBVIOUS
<1>4. ASSUME NEW b \in Batch
      PROVE  /\ IsFiniteSet(files(b)) /\ Cardinality(files(b)) \in Nat /\ calls(b) \in Nat
             /\ Cardinality(files(b)) <= calls(b) /\ calls(b) <= 2 * Cardinality(files(b))
  <2> DEFINE all == {c \in live : c[1] = b}
             rest == {c \in live \ late : c[1] = b}
  <2>1. /\ IsFiniteSet(all) /\ IsFiniteSet(files(b)) /\ Cardinality(files(b)) \in Nat
        /\ Cardinality(all) = Cardinality(files(b))
    BY <1>2, OfBatch
  <2>2. rest \in SUBSET all
    OBVIOUS
  <2>3. IsFiniteSet(rest) /\ Cardinality(rest) <= Cardinality(all)
    BY <2>1, <2>2, FS_Subset
  <2>4. Cardinality(rest) \in Nat
    BY <2>3, FS_CardinalityType
  <2>5. calls(b) = Cardinality(all) + Cardinality(rest)
    OBVIOUS
  <2> HIDE DEF all, rest, calls, files
  <2> QED
    BY <2>1, <2>3, <2>4, <2>5
<1>5. ASSUME NEW b \in Batch, NEW k \in Key
      PROVE  task'[b][k] = IF k \in files(b) THEN "cancelled" ELSE task[b][k]
  BY <1>1
<1>6. ASSUME NEW b \in Batch
      PROVE  /\ files(b) \cap Gone(b) = {} /\ files(b) \subseteq Own(b)
             /\ Gone(b)' = Gone(b) \cup files(b)
             /\ Untold(b)' = Untold(b) /\ Own(b)' = Own(b)
  BY <1>3, <1>5 DEF Gone, Untold, Own, Complete
<1>7. ASSUME NEW b \in Batch
      PROVE  Cardinality(Gone(b)') = Cardinality(Gone(b)) + Cardinality(files(b))
  <2>1. Cardinality(Gone(b) \cup files(b))
          = Cardinality(Gone(b)) + Cardinality(files(b)) - Cardinality(Gone(b) \cap files(b))
    BY <1>4, TasksFinite, FS_Union
  <2>2. Gone(b) \cap files(b) = {} /\ Gone(b)' = Gone(b) \cup files(b)
    BY <1>6
  <2>3. Cardinality(Gone(b) \cap files(b)) = 0
    BY <2>2, FS_EmptySet
  <2>4. Cardinality(Gone(b)') = Cardinality(Gone(b) \cup files(b))
    BY <2>2
  <2>5. Cardinality(Gone(b)) \in Nat /\ Cardinality(files(b)) \in Nat
    BY <1>4, TasksFinite
  <2> HIDE DEF files
  <2> QED
    BY <2>1, <2>3, <2>4, <2>5
<1>8. \A b \in Batch, k \in Key : task'[b][k] = "none" <=> task[b][k] = "none"
  BY <1>3, <1>5
<1>9. ASSUME NEW b \in Batch
      PROVE  /\ count[b] \in Int /\ count'[b] = count[b] - calls(b)
             /\ told'[b] = IF count[b] > 0 /\ count'[b] <= 0 THEN "failed" ELSE told[b]
  BY <1>1 DEF TaskType
<1>10. TaskType'
  <2>1. task' \in [Batch -> [Key -> Statuses]]
    BY <1>1 DEF TaskType, Statuses
  <2> HIDE DEF calls, live
  <2>2. count' \in [Batch -> Int]
    <3>1. ASSUME NEW b \in Batch PROVE count[b] - calls(b) \in Int
      <4>1. calls(b) \in Nat /\ count[b] \in Int
        BY <1>4, <1>9
      <4> QED
        BY <4>1
    <3> QED
      BY <1>1, <3>1
  <2>3. told' \in [Batch -> {"none", "ok", "failed"}]
    BY <1>1 DEF TaskType
  <2> QED
    BY <2>1, <2>2, <2>3 DEF TaskType
<1>11. BoundInv'
  <2> SUFFICES ASSUME NEW b \in Batch
               PROVE  /\ count'[b] <= Cardinality(Untold(b)') - Cardinality(Gone(b)')
                      /\ count'[b] >= Cardinality(Untold(b)') - 2 * Cardinality(Gone(b)')
    BY DEF BoundInv
  <2>1. /\ count[b] <= Cardinality(Untold(b)) - Cardinality(Gone(b))
        /\ count[b] >= Cardinality(Untold(b)) - 2 * Cardinality(Gone(b))
    BY DEF BoundInv
  <2>2. Cardinality(Untold(b)') = Cardinality(Untold(b))
    BY <1>6
  <2> HIDE DEF calls, files
  <2> QED
    BY <2>1, <2>2, <1>4, <1>7, <1>9, TasksFinite
<1>12. ToldInv'
  <2> SUFFICES ASSUME NEW b \in Batch
               PROVE  /\ told'[b] = "none" <=> Own(b)' = {} \/ count'[b] > 0
                      /\ told'[b] = "ok" => \A k \in Own(b)' : task'[b][k] = "loaded"
    BY DEF ToldInv
  <2>1. /\ told[b] = "none" <=> Own(b) = {} \/ count[b] > 0
        /\ told[b] = "ok" => \A k \in Own(b) : task[b][k] = "loaded"
    BY DEF ToldInv
  <2>2. Own(b) = {} => calls(b) = 0
    <3>1. Own(b) = {} => Cardinality(files(b)) = 0
      BY <1>6, FS_EmptySet
    <3> HIDE DEF calls, files
    <3> QED
      BY <3>1, <1>4
  <2>3. told'[b] = "none" <=> Own(b)' = {} \/ count'[b] > 0
    <3>1. Own(b)' = Own(b)
      BY <1>6
    <3> HIDE DEF calls, files
    <3> QED
      BY <3>1, <2>1, <2>2, <1>4, <1>9
  <2>4. ASSUME told'[b] = "ok", NEW k \in Own(b)' PROVE task'[b][k] = "loaded"
    <3>1. told[b] = "ok" /\ k \in Own(b)
      BY <2>4, <1>6, <1>9
    <3>2. task[b][k] = "loaded" /\ k \in Key
      BY <3>1, <2>1 DEF Own
    <3> QED
      BY <3>2, <1>3, <1>5 DEF Complete
  <2> QED
    BY <2>3, <2>4
<1> QED
  BY <1>8, <1>10, <1>11, <1>12

\* Asking makes the tasks of an observer that had none.
LEMMA AskedStep ==
  ASSUME IInv, EndInv, NEW b \in Batch, PrefetchResources(b)
  PROVE  EndInv'
<1> DEFINE new == {k \in wants[b] : entry[k] = None}
<1>1. /\ Own(b) = {}
      /\ entry' = [k \in Key |-> IF k \in new THEN [ref |-> 1, of |-> b]
                                 ELSE IF k \in wants[b] THEN [entry[k] EXCEPT !.ref = @ + 1]
                                 ELSE entry[k]]
      /\ task' = [task EXCEPT ![b] = [k \in Key |-> IF k \in new THEN "queued" ELSE "none"]]
      /\ count' = [count EXCEPT ![b] = Cardinality(new)] /\ told' = told
  BY DEF PrefetchResources, Asked, Own
<1>2. EntryType /\ TaskType /\ MadeInv /\ BoundInv /\ ToldInv
  BY DEF IInv, EndInv
<1>3. new \in SUBSET Key /\ IsFiniteSet(new) /\ Cardinality(new) \in Nat
  <2>1. new \in SUBSET Key
    BY <1>2 DEF EntryType
  <2> QED
    BY <2>1, PrefetcherAssumption, FS_Subset, FS_CardinalityType
<1>4. /\ Untold(b)' = new /\ Own(b)' = new /\ Gone(b)' = {}
      /\ count'[b] = Cardinality(new) /\ told'[b] = told[b]
  BY <1>1, <1>2, <1>3 DEF TaskType, Untold, Own, Gone
<1>5. ASSUME NEW c \in Batch, c # b
      PROVE  /\ Untold(c)' = Untold(c) /\ Own(c)' = Own(c) /\ Gone(c)' = Gone(c)
             /\ count'[c] = count[c] /\ told'[c] = told[c] /\ task'[c] = task[c]
  BY <1>1, <1>2, <1>5 DEF TaskType, Untold, Own, Gone
<1>6. TaskType'
  BY <1>1, <1>2, <1>3 DEF TaskType, Statuses
<1>7. MadeInv'
  <2> SUFFICES ASSUME NEW k \in Key, entry'[k] # None PROVE task'[entry'[k].of][k] # "none"
    BY DEF MadeInv
  <2>1. CASE k \in new
    BY <1>1, <1>2, <2>1 DEF TaskType
  <2>2. CASE k \notin new
    <3>1. entry[k] # None
      BY <1>1, <2>2
    <3>2. entry[k] \in [ref : Nat \ {0}, of : Batch]
      BY <1>2, <3>1 DEF EntryType
    <3>3. entry'[k].of = entry[k].of
      BY <1>1, <2>2, <3>2
    <3>4. task[entry[k].of][k] # "none"
      BY <1>2, <3>1 DEF MadeInv
    <3>5. entry[k].of # b
      BY <1>1, <3>4 DEF Own
    <3> QED
      BY <1>5, <3>2, <3>3, <3>4, <3>5
  <2> QED
    BY <2>1, <2>2
<1>8. BoundInv'
  <2> SUFFICES ASSUME NEW c \in Batch
               PROVE  /\ count'[c] <= Cardinality(Untold(c)') - Cardinality(Gone(c)')
                      /\ count'[c] >= Cardinality(Untold(c)') - 2 * Cardinality(Gone(c)')
    BY DEF BoundInv
  <2>1. CASE c = b
    <3>1. Cardinality(Gone(b)') = 0 /\ Cardinality(Untold(b)') = Cardinality(new)
      BY <1>4, FS_EmptySet
    <3> HIDE DEF new
    <3> QED
      BY <2>1, <3>1, <1>3, <1>4
  <2>2. CASE c # b
    BY <2>2, <1>2, <1>5 DEF BoundInv
  <2> QED
    BY <2>1, <2>2
<1>9. ToldInv'
  <2> SUFFICES ASSUME NEW c \in Batch
               PROVE  /\ told'[c] = "none" <=> Own(c)' = {} \/ count'[c] > 0
                      /\ told'[c] = "ok" => \A k \in Own(c)' : task'[c][k] = "loaded"
    BY DEF ToldInv
  <2>1. CASE c = b
    <3>1. told'[b] = "none"
      BY <1>1, <1>2, <1>4 DEF ToldInv
    <3>2. new = {} \/ Cardinality(new) # 0
      BY <1>3, FS_EmptySet
    <3> HIDE DEF new
    <3> QED
      BY <2>1, <3>1, <3>2, <1>3, <1>4
  <2>2. CASE c # b
    BY <2>2, <1>2, <1>5 DEF ToldInv
  <2> QED
    BY <2>1, <2>2
<1> QED
  BY <1>6, <1>7, <1>8, <1>9 DEF EndInv

\* What forgets entries keeps the others with their tasks.
LEMMA MadeStep ==
  ASSUME EntryType, MadeInv,
         \A k \in Key : entry'[k] # None => entry[k] # None /\ entry'[k].of = entry[k].of,
         \A b \in Batch, k \in Key : task'[b][k] = "none" <=> task[b][k] = "none"
  PROVE  MadeInv'
<1> SUFFICES ASSUME NEW k \in Key, entry'[k] # None PROVE task'[entry'[k].of][k] # "none"
  BY DEF MadeInv
<1>1. entry[k] # None /\ entry'[k].of = entry[k].of
  OBVIOUS
<1>2. entry[k].of \in Batch
  BY <1>1 DEF EntryType
<1>3. task[entry[k].of][k] # "none"
  BY <1>1 DEF MadeInv
<1> QED
  BY <1>1, <1>2, <1>3

\* Giving back cancels tasks that were made.
LEMMA GivenBackStep ==
  ASSUME IInv, EndInv, NEW b \in Batch, UnfetchResources(b)
  PROVE  EndInv'
<1> DEFINE known == {k \in wants[b] : entry[k] # None}
           last == {k \in known : IsLast(k)}
           cs == {<<entry[k].of, k>> : k \in last}
<1>1. entry' = [k \in Key |-> IF k \in last THEN None
                              ELSE IF k \in known THEN [entry[k] EXCEPT !.ref = @ - 1]
                              ELSE entry[k]]
  BY DEF UnfetchResources
<1>2. PICK late \in SUBSET AtWork(cs) : CancelAll(cs, late)
  BY DEF UnfetchResources
<1>3. EntryType /\ TaskType /\ MadeInv /\ BoundInv /\ ToldInv
  BY DEF IInv, EndInv
<1>4. ASSUME NEW k \in Key, entry[k] # None
      PROVE  entry[k] \in [ref : Nat \ {0}, of : Batch] /\ task[entry[k].of][k] # "none"
  BY <1>3, <1>4 DEF EntryType, MadeInv
<1>5. last \in SUBSET Key
  BY <1>3 DEF EntryType
<1>6. cs \in SUBSET (Batch \X Key) /\ \A c \in cs : task[c[1]][c[2]] # "none"
  BY <1>4, <1>5
<1>7. ASSUME NEW k \in Key, entry'[k] # None
      PROVE  entry[k] # None /\ entry'[k].of = entry[k].of
  <2>1. entry[k] # None /\ k \notin last
    BY <1>1, <1>7
  <2>2. entry[k] \in [ref : Nat \ {0}, of : Batch]
    BY <1>4, <2>1
  <2> QED
    BY <1>1, <2>1, <2>2
<1> HIDE DEF cs, last, known
<1>8. /\ TaskType' /\ BoundInv' /\ ToldInv'
      /\ \A c \in Batch, k \in Key : task'[c][k] = "none" <=> task[c][k] = "none"
  BY <1>2, <1>3, <1>6, CancelStep
<1>9. MadeInv'
  BY <1>3, <1>7, <1>8, MadeStep
<1> QED
  BY <1>8, <1>9 DEF EndInv

\* popData() cancels the task of its entry, if it is not loaded.
LEMMA PoppedStep ==
  ASSUME IInv, EndInv, NEW k \in Key, PopData(k)
  PROVE  EndInv'
<1> DEFINE cs == IF task[entry[k].of][k] \in Loaded THEN {} ELSE {<<entry[k].of, k>>}
<1>1. entry[k] # None /\ entry' = [entry EXCEPT ![k] = None]
  BY DEF PopData
<1>2. PICK late \in SUBSET AtWork(cs) : CancelAll(cs, late)
  BY DEF PopData
<1>3. EntryType /\ TaskType /\ MadeInv /\ BoundInv /\ ToldInv
  BY DEF IInv, EndInv
<1>4. entry[k].of \in Batch /\ task[entry[k].of][k] # "none"
  BY <1>1, <1>3 DEF EntryType, MadeInv
<1>5. cs \in SUBSET (Batch \X Key) /\ \A c \in cs : task[c[1]][c[2]] # "none"
  BY <1>4
<1>6. ASSUME NEW j \in Key, entry'[j] # None
      PROVE  entry[j] # None /\ entry'[j].of = entry[j].of
  BY <1>1, <1>3, <1>6 DEF EntryType
<1> HIDE DEF cs
<1>7. /\ TaskType' /\ BoundInv' /\ ToldInv'
      /\ \A c \in Batch, j \in Key : task'[c][j] = "none" <=> task[c][j] = "none"
  BY <1>2, <1>3, <1>5, CancelStep
<1>8. MadeInv'
  BY <1>3, <1>6, <1>7, MadeStep
<1> QED
  BY <1>7, <1>8 DEF EndInv

\* The end of the service cancels all tasks that were made.
LEMMA ClosedStep ==
  ASSUME IInv, EndInv, FinalizeService
  PROVE  EndInv'
<1>1. PICK gone \in SUBSET {c \in Batch \X Key : task[c[1]][c[2]] = "refused"} :
        CancelAll({c \in Batch \X Key : task[c[1]][c[2]] # "none"} \ gone, {})
  BY DEF FinalizeService
<1>2. entry' = [k \in Key |-> None]
  BY DEF FinalizeService
<1>3. EntryType /\ TaskType /\ MadeInv /\ BoundInv /\ ToldInv
  BY DEF IInv, EndInv
<1> DEFINE cs == {c \in Batch \X Key : task[c[1]][c[2]] # "none"} \ gone
<1>4. cs \in SUBSET (Batch \X Key) /\ \A c \in cs : task[c[1]][c[2]] # "none"
  OBVIOUS
<1>5. CancelAll(cs, {})
  BY <1>1
<1> HIDE DEF cs
<1>6. /\ TaskType' /\ BoundInv' /\ ToldInv'
      /\ \A b \in Batch, k \in Key : task'[b][k] = "none" <=> task[b][k] = "none"
  BY <1>3, <1>4, <1>5, CancelStep
<1>7. MadeInv'
  BY <1>2 DEF MadeInv
<1> QED
  BY <1>6, <1>7 DEF EndInv

\* A task that moves on without a word to the observer.
LEMMA QuietStep ==
  ASSUME IInv, EndInv, NEW b \in Batch, NEW k \in Key, NEW from, NEW to \in Statuses,
         from \notin {"none", "loaded", "broken", "cancelled"},
         to \notin {"none", "loaded", "broken", "cancelled"},
         Become(b, k, from, to), UNCHANGED observers
  PROVE  EndInv'
<1>1. /\ task[b][k] = from /\ task' = [task EXCEPT ![b][k] = to]
      /\ UNCHANGED <<entry, count, told>>
  BY DEF Become, observers
<1>2. EntryType /\ TaskType /\ MadeInv /\ BoundInv /\ ToldInv
  BY DEF IInv, EndInv
<1>3. ASSUME NEW c \in Batch
      PROVE  Untold(c)' = Untold(c) /\ Gone(c)' = Gone(c) /\ Own(c)' = Own(c)
  BY <1>1, <1>2 DEF TaskType, Untold, Gone, Own
<1>4. ASSUME NEW c \in Batch, NEW j \in Key
      PROVE  /\ task'[c][j] = "none" <=> task[c][j] = "none"
             /\ task'[c][j] = "loaded" <=> task[c][j] = "loaded"
  BY <1>1, <1>2 DEF TaskType
<1>5. TaskType'
  BY <1>1, <1>2 DEF TaskType
<1>6. MadeInv'
  BY <1>1, <1>2, <1>4, MadeStep
<1>7. BoundInv' /\ ToldInv'
  BY <1>1, <1>2, <1>3, <1>4 DEF BoundInv, ToldInv, Own
<1> QED
  BY <1>5, <1>6, <1>7 DEF EndInv

\* A task whose end is told is counted off once.
LEMMA ToldStep ==
  ASSUME IInv, EndInv, NEW b \in Batch, NEW k \in Key, NEW from \in {"finished", "failed"},
         NEW to \in {"loaded", "broken"},
         Become(b, k, from, to), OnPrefetchComplete(b, to)
  PROVE  EndInv'
<1>1. /\ task[b][k] = from /\ task' = [task EXCEPT ![b][k] = to] /\ entry' = entry
      /\ count' = [count EXCEPT ![b] = @ - 1]
      /\ told' = [told EXCEPT ![b] =
           IF count[b] # 1 THEN @
           ELSE IF to = "loaded" /\ \A j \in Key : task[b][j] \notin {"broken", "cancelled"} THEN "ok" ELSE "failed"]
  BY DEF Become, OnPrefetchComplete
<1>2. EntryType /\ TaskType /\ MadeInv /\ BoundInv /\ ToldInv
  BY DEF IInv, EndInv
<1>3. ASSUME NEW c \in Batch, NEW j \in Key
      PROVE  task'[c][j] = IF c = b /\ j = k THEN to ELSE task[c][j]
  BY <1>1, <1>2 DEF TaskType
<1>4. /\ Untold(b)' = Untold(b) \ {k} /\ k \in Untold(b) /\ k \in Own(b)
      /\ Gone(b)' = Gone(b) /\ Own(b)' = Own(b)
  BY <1>1, <1>3 DEF Untold, Gone, Own
<1>5. /\ count[b] \in Int /\ count'[b] = count[b] - 1
      /\ told'[b] = IF count[b] # 1 THEN told[b]
                    ELSE IF to = "loaded" /\ \A j \in Key : task[b][j] \notin {"broken", "cancelled"} THEN "ok" ELSE "failed"
  BY <1>1, <1>2 DEF TaskType
<1>6. ASSUME NEW c \in Batch, c # b
      PROVE  /\ Untold(c)' = Untold(c) /\ Own(c)' = Own(c) /\ Gone(c)' = Gone(c)
             /\ count'[c] = count[c] /\ told'[c] = told[c] /\ \A j \in Key : task'[c][j] = task[c][j]
  BY <1>1, <1>2, <1>3, <1>6 DEF TaskType, Untold, Own, Gone
<1>7. TaskType'
  <2>1. task' \in [Batch -> [Key -> Statuses]]
    BY <1>1, <1>2 DEF TaskType, Statuses, Complete
  <2>2. count' \in [Batch -> Int] /\ told' \in [Batch -> {"none", "ok", "failed"}]
    BY <1>1, <1>2 DEF TaskType
  <2> QED
    BY <2>1, <2>2 DEF TaskType
<1>8. MadeInv'
  BY <1>1, <1>2, <1>3, MadeStep
<1>9. /\ count[b] <= Cardinality(Untold(b)) - Cardinality(Gone(b))
      /\ count[b] >= Cardinality(Untold(b)) - 2 * Cardinality(Gone(b))
      /\ Cardinality(Untold(b)) \in Nat /\ Cardinality(Gone(b)) \in Nat
  BY <1>2, TasksFinite DEF BoundInv
<1>10. Cardinality(Untold(b)') = Cardinality(Untold(b)) - 1 /\ Cardinality(Gone(b)') = Cardinality(Gone(b))
  <2>1. Cardinality(Untold(b) \ {k}) = Cardinality(Untold(b)) - 1
    BY <1>4, TasksFinite, FS_RemoveElement
  <2> QED
    BY <1>4, <2>1
<1>11. BoundInv'
  <2> SUFFICES ASSUME NEW c \in Batch
               PROVE  /\ count'[c] <= Cardinality(Untold(c)') - Cardinality(Gone(c)')
                      /\ count'[c] >= Cardinality(Untold(c)') - 2 * Cardinality(Gone(c)')
    BY DEF BoundInv
  <2>1. CASE c = b
    BY <2>1, <1>5, <1>9, <1>10
  <2>2. CASE c # b
    BY <2>2, <1>2, <1>6 DEF BoundInv
  <2> QED
    BY <2>1, <2>2
<1>12. told'[b] = "none" <=> Own(b)' = {} \/ count'[b] > 0
  <2>1. told[b] = "none" <=> count[b] > 0
    BY <1>2, <1>4 DEF ToldInv
  <2>2. Own(b)' # {}
    BY <1>4
  <2>3. CASE count[b] = 1
    BY <2>2, <2>3, <1>5
  <2>4. CASE count[b] # 1
    <3>1. told'[b] = told[b]
      BY <2>4, <1>5
    <3>2. count'[b] > 0 <=> count[b] > 0
      BY <2>4, <1>5
    <3> QED
      BY <2>1, <2>2, <3>1, <3>2
  <2> QED
    BY <2>3, <2>4
\* The last task of an observer that succeeds: nothing else is untold, nothing is broken.
<1>13. ASSUME told'[b] = "ok", NEW j \in Own(b)' PROVE task'[b][j] = "loaded"
  <2>1. told[b] # "ok"
    BY <1>1, <1>2, <1>4 DEF ToldInv
  <2>2. count[b] = 1 /\ to = "loaded" /\ \A i \in Key : task[b][i] \notin {"broken", "cancelled"}
    BY <1>5, <1>13, <2>1
  <2>3. Gone(b) = {}
    BY <2>2 DEF Gone
  <2>4. Cardinality(Gone(b)) = 0
    BY <2>3, FS_EmptySet
  <2>5. Cardinality(Untold(b)') = 0
    BY <2>2, <2>4, <1>9, <1>10
  <2>6. IsFiniteSet(Untold(b) \ {k})
    BY TasksFinite, FS_RemoveElement
  <2>7. Untold(b)' = {}
    BY <2>5, <2>6, <1>4, FS_EmptySet
  <2>8. j \in Key /\ task[b][j] # "none"
    BY <1>4 DEF Own
  <2>9. j = k \/ task[b][j] = "loaded"
    BY <2>2, <2>7, <2>8, <1>4 DEF Untold
  <2> QED
    BY <2>2, <2>8, <2>9, <1>3
<1>14. ToldInv'
  <2> SUFFICES ASSUME NEW c \in Batch
               PROVE  /\ told'[c] = "none" <=> Own(c)' = {} \/ count'[c] > 0
                      /\ told'[c] = "ok" => \A j \in Own(c)' : task'[c][j] = "loaded"
    BY DEF ToldInv
  <2>1. CASE c = b
    BY <2>1, <1>12, <1>13
  <2>2. CASE c # b
    BY <2>2, <1>2, <1>6 DEF ToldInv, Own
  <2> QED
    BY <2>1, <2>2
<1> QED
  BY <1>7, <1>8, <1>11, <1>14 DEF EndInv

------------------------------------------------------------------------------
(* What the scripts are told *)

\* Nothing is asked for at first.
LEMMA InitEnd == Init => EndInv
<1> SUFFICES ASSUME Init PROVE EndInv
  OBVIOUS
<1>1. TaskType /\ MadeInv
  BY DEF Init, TaskType, MadeInv, Statuses
<1>2. ASSUME NEW b \in Batch
      PROVE  Untold(b) = {} /\ Gone(b) = {} /\ Own(b) = {} /\ count[b] = 0 /\ told[b] = "none"
  BY DEF Init, Untold, Gone, Own
<1>3. BoundInv
  BY <1>2, FS_EmptySet DEF BoundInv
<1>4. ToldInv
  BY <1>2 DEF ToldInv
<1> QED
  BY <1>1, <1>3, <1>4 DEF EndInv

\* Every step keeps it.
LEMMA NextEnd == IInv /\ EndInv /\ [Next]_vars => EndInv'
<1> SUFFICES ASSUME IInv, EndInv, [Next]_vars PROVE EndInv'
  OBVIOUS
<1>1. CASE \E b \in Batch : PrefetchResources(b) \/ UnfetchResources(b)
  BY <1>1, AskedStep, GivenBackStep
<1>2. ASSUME NEW b \in Batch, NEW k \in Key, Run(b, k) PROVE EndInv'
  BY <1>2, QuietStep DEF Run, Statuses
<1>3. ASSUME NEW b \in Batch, NEW k \in Key, Main(b, k) PROVE EndInv'
  BY <1>3, QuietStep DEF Main, Statuses
<1>4. ASSUME NEW b \in Batch, NEW k \in Key, Update(b, k) PROVE EndInv'
  <2>1. CASE Become(b, k, "finished", "loaded") /\ OnPrefetchComplete(b, "loaded")
    BY <2>1, ToldStep
  <2>2. CASE Become(b, k, "failed", "broken") /\ OnPrefetchComplete(b, "broken")
    BY <2>2, ToldStep
  <2>3. CASE Become(b, k, "finished", "silent") /\ UNCHANGED observers
    BY <2>3, QuietStep DEF Statuses, Complete
  <2> QED
    BY <1>4, <2>1, <2>2, <2>3 DEF Update
<1>5. CASE \E k \in Key : PopData(k)
  BY <1>5, PoppedStep
<1>6. CASE FinalizeService
  BY <1>6, ClosedStep
<1>7. CASE UNCHANGED vars
  BY <1>7 DEF vars, service, observers, EndInv, TaskType, MadeInv, BoundInv, ToldInv, Untold, Gone, Own
<1> QED
  BY <1>1, <1>2, <1>3, <1>4, <1>5, <1>6, <1>7 DEF Next

\* What an observer counts lies between the untold tasks with the cancelled ones taken
\* off once, and twice.
THEOREM EndInductive == Spec => []EndInv
<1>1. Init => EndInv
  BY InitEnd
<1>2. IInv /\ EndInv /\ [Next]_vars => EndInv'
  BY NextEnd
<1> QED
  BY <1>1, <1>2, Inductive, PTL DEF Spec

\* Every variable keeps its type: a file is not counted more often than there are batches,
\* and the count of an observer wraps by no more than the files of its batch.
THEOREM TypeCorrect == Spec => []TypeOK
<1>1. IInv /\ EndInv => TypeOK
  <2> SUFFICES ASSUME IInv, EndInv PROVE TypeOK
    OBVIOUS
  <2>1. EntryType /\ CountInv /\ TaskType /\ BoundInv
    BY DEF IInv, EndInv
  <2>2. ASSUME NEW k \in Key
        PROVE  entry[k] \in {None} \cup [ref : 1..Cardinality(Batch), of : Batch]
    <3>1. CASE entry[k] = None
      BY <3>1
    <3>2. CASE entry[k] \in [ref : Nat \ {0}, of : Batch]
      <4>1. Holders(k) \in SUBSET Batch
        BY DEF Holders
      <4>2. Cardinality(Holders(k)) <= Cardinality(Batch) /\ Cardinality(Batch) \in Nat
        BY <4>1, PrefetcherAssumption, FS_Subset, FS_CardinalityType
      <4>3. Cardinality(Holders(k)) \in Nat
        BY HoldersFinite
      <4>4. entry[k].ref <= Cardinality(Holders(k))
        BY <2>1 DEF CountInv
      <4>5. entry[k].ref \in 1..Cardinality(Batch)
        BY <3>2, <4>2, <4>3, <4>4
      <4> QED
        BY <3>2, <4>5
    <3> QED
      BY <2>1, <3>1, <3>2 DEF EntryType
  <2>3. ASSUME NEW b \in Batch
        PROVE  count[b] \in (-Cardinality(Key))..Cardinality(Key)
    <3>1. Cardinality(Key) \in Nat
      BY PrefetcherAssumption, FS_CardinalityType
    <3>2. /\ Cardinality(Untold(b)) \in Nat /\ Cardinality(Gone(b)) \in Nat
          /\ Cardinality(Gone(b)) <= Cardinality(Untold(b))
          /\ Cardinality(Untold(b)) <= Cardinality(Key)
      BY TasksFinite
    <3>3. /\ count[b] <= Cardinality(Untold(b)) - Cardinality(Gone(b))
          /\ count[b] >= Cardinality(Untold(b)) - 2 * Cardinality(Gone(b))
          /\ count[b] \in Int
      BY <2>1 DEF BoundInv, TaskType
    <3> QED
      BY <3>1, <3>2, <3>3
  <2>4. entry \in [Key -> {None} \cup [ref : 1..Cardinality(Batch), of : Batch]]
    BY <2>1, <2>2 DEF EntryType
  <2>5. count \in [Batch -> (-Cardinality(Key))..Cardinality(Key)]
    BY <2>1, <2>3 DEF TaskType
  <2> QED
    BY <2>1, <2>4, <2>5 DEF TypeOK, EntryType, TaskType
<1> QED
  BY <1>1, Inductive, EndInductive, PTL

\* A script is told that its batch succeeded only when every file it loaded itself is
\* there; and unless a task of its own was cancelled or ended without a word, it is told
\* exactly when the last of them has ended.
THEOREM ToldAtTheEnd == Spec => []ToldWhenAllEnded
<1>1. EndInv => ToldWhenAllEnded
  <2> SUFFICES ASSUME EndInv, NEW b \in Batch
               PROVE  LET open == {k \in Own(b) : task[b][k] \notin Complete}
                      IN  /\ told[b] = "ok" => \A k \in Own(b) : task[b][k] = "loaded"
                          /\ (\A k \in Own(b) : task[b][k] \notin {"silent", "cancelled"})
                               => /\ count[b] = Cardinality(open)
                                  /\ told[b] # "none" <=> Own(b) # {} /\ open = {}
    BY DEF ToldWhenAllEnded
  <2> DEFINE open == {k \in Own(b) : task[b][k] \notin Complete}
  <2>1. /\ told[b] = "none" <=> Own(b) = {} \/ count[b] > 0
        /\ told[b] = "ok" => \A k \in Own(b) : task[b][k] = "loaded"
    BY DEF EndInv, ToldInv
  <2>2. ASSUME \A k \in Own(b) : task[b][k] \notin {"silent", "cancelled"}
        PROVE  count[b] = Cardinality(open) /\ (told[b] # "none" <=> Own(b) # {} /\ open = {})
    <3>1. open = Untold(b) /\ Gone(b) = {}
      BY <2>2 DEF Own, Untold, Gone, Complete
    <3>2. Cardinality(Gone(b)) = 0
      BY <3>1, FS_EmptySet
    <3>3. count[b] = Cardinality(Untold(b)) /\ Cardinality(Untold(b)) \in Nat
      <4>1. /\ count[b] <= Cardinality(Untold(b)) - Cardinality(Gone(b))
            /\ count[b] >= Cardinality(Untold(b)) - 2 * Cardinality(Gone(b))
            /\ count[b] \in Int
        BY DEF EndInv, BoundInv, TaskType
      <4> QED
        BY <3>2, <4>1, TasksFinite
    <3>4. Cardinality(Untold(b)) = 0 <=> Untold(b) = {}
      BY TasksFinite, FS_EmptySet
    <3>5. count[b] > 0 <=> Untold(b) # {}
      BY <3>3, <3>4
    <3> HIDE DEF open
    <3> QED
      BY <2>1, <3>1, <3>3, <3>5
  <2> QED
    BY <2>1, <2>2
<1> QED
  BY <1>1, EndInductive, PTL
==============================================================================
