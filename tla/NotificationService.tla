-------------------------- MODULE NotificationService --------------------------
(***************************************************************************)
(* Services/NotificationService: observers register a callable for an id,  *)
(* and a notification of the id visits them in order.  A callable may add  *)
(* and remove observers and notify in turn; while any visit is open adding *)
(* and removing is put off to the end of the outermost one.                *)
(*                                                                         *)
(* The service holds its mutex for the whole of a visit, so that calls of  *)
(* other threads come between outermost visits.                            *)
(***************************************************************************)
EXTENDS Integers, Sequences, FiniteSets, SequencesExt

CONSTANTS
  Id, Observer,
  MaxDepth,     \* a bound: visits inside visits
  MaxCallables  \* a bound: how often an observer is added

ASSUME NotificationAssumption == MaxDepth \in Nat \ {0} /\ MaxCallables \in Nat

VARIABLES
  observers,   \* m_mapObserves
  add, remove, \* m_add and m_remove
  visits,      \* the open visits, innermost last, as many as m_visiting
  \* what the clients know
  registered,  \* the callable each observer of an id was last added with, 0 when it was removed
  callables,   \* how many callables there were
  readded      \* those removed and added again in one visit, twice or beside another removal

queues == <<add, remove>>
clients == <<registered, callables, readded>>
notificationVars == <<observers, queues, visits, clients>>

Desc == [observer : Observer, callable : 1..MaxCallables]
Visit == [id : Id, pos : Nat \ {0}, calling : BOOLEAN]

NotificationTypeOK ==
  /\ observers \in [Id -> Seq(Desc)]
  /\ add \in Seq([id : Id, observer : Observer, callable : 1..MaxCallables])
  /\ remove \in Seq([id : Id, observer : Observer])
  /\ visits \in Seq(Visit) /\ Len(visits) <= MaxDepth
  /\ \A n \in DOMAIN visits : visits[n].pos <= Len(observers[visits[n].id]) + 1
  /\ registered \in [Id -> [Observer -> 0..MaxCallables]]
  /\ callables \in 0..MaxCallables
  /\ readded \subseteq Id \X Observer

NotificationInit ==
  /\ observers = [i \in Id |-> <<>>]
  /\ add = <<>> /\ remove = <<>>
  /\ visits = <<>>
  /\ registered = [i \in Id |-> [o \in Observer |-> 0]]
  /\ callables = 0
  /\ readded = {}

------------------------------------------------------------------------------
(* addObserver_() and removeObserver_(), which the queues are applied with *)

AddTo(map, q) ==
  [map EXCEPT ![q.id] = Append(@, [observer |-> q.observer, callable |-> q.callable])]

Entries(map, i, o) == {k \in DOMAIN map[i] : map[i][k].observer = o}

\* Mutant: the last one of the observer is removed, and not the first.
RemoveFrom_Last(map, q) ==
  LET ks == Entries(map, q.id, q.observer)
      k == CHOOSE n \in ks : \A m \in ks : m <= n
  IN  IF ks = {} THEN map
      ELSE [map EXCEPT ![q.id] = Front([@ EXCEPT ![k] = Last(map[q.id])])]

\* desc = observers.back(); observers.pop_back(); for the first of the observer.
RemoveFrom(map, q) ==
  LET ks == Entries(map, q.id, q.observer)
      k == CHOOSE n \in ks : \A m \in ks : n <= m
  IN  IF ks = {} THEN map
      ELSE [map EXCEPT ![q.id] = Front([@ EXCEPT ![k] = Last(map[q.id])])]

\* What m_add and then m_remove leave of the map, one entry after another.
Apply(map) ==
  LET more[k \in 0..Len(add)] == IF k = 0 THEN map ELSE AddTo(more[k - 1], add[k])
      less[k \in 0..Len(remove)] ==
        IF k = 0 THEN more[Len(add)] ELSE RemoveFrom(less[k - 1], remove[k])
  IN  less[Len(remove)]

------------------------------------------------------------------------------
(* The clients: an observer adds itself once before it removes itself *)

\* Between visits, or inside the callable the innermost visit calls.
MayCall == visits # <<>> => Last(visits).calling

AddObserver(i, o) ==
  /\ MayCall
  /\ registered[i][o] = 0
  /\ callables < MaxCallables
  /\ LET q == [id |-> i, observer |-> o, callable |-> callables + 1]
     IN  IF visits = <<>>
         THEN observers' = AddTo(observers, q) /\ UNCHANGED add
         ELSE add' = Append(add, q) /\ UNCHANGED observers
  /\ callables' = callables + 1
  /\ registered' = [registered EXCEPT ![i][o] = callables + 1]
  /\ UNCHANGED <<remove, visits, readded>>

RemoveObserver(i, o) ==
  /\ MayCall
  /\ registered[i][o] # 0
  /\ LET q == [id |-> i, observer |-> o]
     IN  IF visits = <<>>
         THEN /\ observers' = RemoveFrom(observers, q)
              /\ readded' = readded \ {<<i, o>>}
              /\ UNCHANGED remove
         ELSE remove' = Append(remove, q) /\ UNCHANGED <<observers, readded>>
  /\ registered' = [registered EXCEPT ![i][o] = 0]
  /\ UNCHANGED <<add, visits, callables>>

------------------------------------------------------------------------------
(* visitObservers() *)

BeginVisit(i) ==
  /\ MayCall
  /\ Len(visits) < MaxDepth
  /\ visits' = Append(visits, [id |-> i, pos |-> 1, calling |-> FALSE])
  /\ UNCHANGED <<observers, queues, clients>>

Top == visits[Len(visits)]
SetTop(visit) == visits' = [visits EXCEPT ![Len(visits)] = visit]

Call ==
  /\ visits # <<>> /\ ~Top.calling
  /\ Top.pos <= Len(observers[Top.id])
  /\ SetTop([Top EXCEPT !.calling = TRUE])
  /\ UNCHANGED <<observers, queues, clients>>

\* Mutant: the visit goes on two places further.
CallReturns_Skips ==
  /\ visits # <<>> /\ Top.calling
  /\ SetTop([Top EXCEPT !.calling = FALSE, !.pos = @ + 2])
  /\ UNCHANGED <<observers, queues, clients>>

\* The callable returns, or fails with ExceptionNotificationFailed.
CallReturns ==
  /\ visits # <<>> /\ Top.calling
  /\ SetTop([Top EXCEPT !.calling = FALSE, !.pos = @ + 1])
  /\ UNCHANGED <<observers, queues, clients>>

\* The pairs the end of a visit leaves with a callable that may be the wrong one.
Readded ==
  {p \in Id \X Observer :
     LET as == {n \in DOMAIN add : add[n].id = p[1] /\ add[n].observer = p[2]}
     IN  /\ as # {}
         /\ [id |-> p[1], observer |-> p[2]] \in ToSet(remove)
         /\ \/ Cardinality(as) > 1
            \/ \E n \in DOMAIN remove : remove[n].id = p[1] /\ remove[n].observer # p[2]}

EndVisit ==
  /\ visits # <<>> /\ ~Top.calling
  /\ Top.pos > Len(observers[Top.id])
  /\ visits' = Front(visits)
  /\ IF visits' = <<>>
     THEN /\ observers' = Apply(observers) /\ add' = <<>> /\ remove' = <<>>
          /\ readded' = readded \cup Readded
     ELSE UNCHANGED <<observers, queues, readded>>
  /\ UNCHANGED <<registered, callables>>

------------------------------------------------------------------------------

Clients == \E i \in Id : \/ \E o \in Observer : AddObserver(i, o) \/ RemoveObserver(i, o)
                         \/ BeginVisit(i)

NotificationNext == Clients \/ Call \/ CallReturns \/ EndVisit

NotificationSpec == NotificationInit /\ [][NotificationNext]_notificationVars

------------------------------------------------------------------------------
(* Properties *)

\* Between visits an observer of an id is listed once if it was added last and not at
\* all if it was removed last, though a visit put that off to its end, and it is listed
\* with the callable it was last added with.  The exception is one removed
\* and added again while one visit was open, if that happened twice or another
\* observer of the id was removed then too: removeObserver_() takes the first
\* one it finds, which after a swap with the back may be the one just added.
LastAddedStays ==
  visits = <<>> =>
    /\ add = <<>> /\ remove = <<>>
    /\ \A i \in Id, o \in Observer :
         /\ Cardinality(Entries(observers, i, o)) = IF registered[i][o] = 0 THEN 0 ELSE 1
         /\ <<i, o>> \notin readded =>
              \A k \in Entries(observers, i, o) : observers[i][k].callable = registered[i][o]

==============================================================================
