---------------------------- MODULE Kernel_proofs ----------------------------
(***************************************************************************)
(* Proofs about the two kinds of tasks of the kernel: ThreadTask, for any  *)
(* set of tasks, then ThreadJob, for any number of slots and any set of    *)
(* workers.                                                                *)
(***************************************************************************)
EXTENDS ThreadTask, ThreadJob, TLAPS

(* ThreadTask *)

\* One task, at any moment, between the steps of its two threads.  These parts
\* are inductive only together.
Settling == {"cancel", "join", "joinLock", "joinUnlock", "joinComplete"}
Busy == {"check", "work", "worked", "storeResult", "storeFalse", "finish"}

\* The mutex says which thread is where.
MutexInv(t) ==
  /\ mutex[t] = "worker" <=> wpc[t] \in InMain
  /\ mutex[t] = "main" <=> pc = "joinUnlock" /\ cur = t

\* The worker is in main() of a task that was run and has not finished.
BusyInv(t) ==
  /\ wpc[t] # "out" \/ armed[t] => run[t] \/ finish[t]
  /\ wpc[t] \in Busy => run[t] /\ ~finish[t]
  /\ wpc[t] \in {"work", "worked", "storeResult"} => calls[t] = 0 /\ ~complete[t]
  /\ wpc[t] = "storeFalse" => cancel[t]

\* A thread that settles a cancelled task is the first to do so, and once it
\* holds the mutex the work is over or will never begin.
SettleInv(t) ==
  pc \in Settling /\ cur = t =>
    /\ cancel[t] /\ ~complete[t] /\ calls[t] = 0
    /\ pc # "cancel" => run[t]
    /\ pc \in {"joinUnlock", "joinComplete"} => wpc[t] \notin {"work", "worked", "storeResult"}

\* What the flags say of the calls of _onComplete().
CallsInv(t) ==
  /\ calls[t] \in {0, 1}
  /\ complete[t] => calls[t] = 1 /\ (finish[t] \/ cancel[t])
  /\ calls[t] = 1 => complete[t] \/ cancel[t]
  /\ ~cancel[t] \/ (pc = "cancel" /\ cur = t) <=> cancelled[t] = "never"
  /\ twice[t] => cancel[t] /\ ~(pc \in Settling /\ cur = t)
  /\ cancelled[t] = "false" => calls[t] = 1
  /\ cancel[t] /\ calls[t] = 0 /\ ~(pc \in Settling /\ cur = t) => late[t] \/ cancelled[t] = "true"
  /\ released[t] /\ calls[t] = 0 => late[t] \/ cancelled[t] = "true"

\* What the flags say of the result of the work.
ResultInv(t) ==
  /\ wpc[t] \in {"out", "enter", "check", "work"} => result[t] = "none"
  /\ ~run[t] => result[t] = "none"
  /\ successful[t] => result[t] = "ok"
  /\ wpc[t] \in {"worked", "storeResult"} => result[t] # "none"
  /\ wpc[t] = "finish" \/ (run[t] /\ finish[t]) =>
       cancel[t] \/ (result[t] # "none" /\ (successful[t] <=> result[t] = "ok"))
  /\ complete[t] /\ ~cancel[t] => told[t] # "none" /\ told[t] = result[t]

TaskInv(t) == MutexInv(t) /\ BusyInv(t) /\ SettleInv(t) /\ CallsInv(t) /\ ResultInv(t)

IInv == \A t \in Task : TaskInv(t)

------------------------------------------------------------------------------

\* Every variable stays in its type: each step of either thread, in any order.
THEOREM TypeCorrect == Spec => []TypeOK
<1>1. Init => TypeOK
  BY TaskAssumption DEF Init, TypeOK, MainAt, InMain, Outcomes
<1>2. TypeOK /\ [Next]_vars => TypeOK'
  <2> SUFFICES ASSUME TypeOK, [Next]_vars PROVE TypeOK'
    OBVIOUS
  <2> USE TaskAssumption DEF TypeOK, MainAt, InMain, Outcomes
  <2>0. CASE UNCHANGED vars
    BY <2>0 DEF vars, flags, mainVars, workerVars, observed
  <2>1. ASSUME NEW t \in Task, Run(t) PROVE TypeOK'
    BY <2>1 DEF Run, flags, mainVars, workerVars, observed
  <2>2. ASSUME NEW t \in Task, CancelStore(t) PROVE TypeOK'
    BY <2>2 DEF CancelStore, Goto, Return, flags, mainVars, workerVars, observed
  <2>2a. ASSUME NEW t \in Task, CancelAgain(t) PROVE TypeOK'
    BY <2>2a DEF CancelAgain, flags, mainVars, workerVars, observed
  <2>3. ASSUME NEW t \in Task, CancelSettle(t) PROVE TypeOK'
    BY <2>3 DEF CancelSettle, Goto, Return, OnComplete, flags, mainVars, workerVars, observed
  <2>4. ASSUME NEW t \in Task, CancelRunning(t) PROVE TypeOK'
    BY <2>4 DEF CancelRunning, Goto, Return, flags, mainVars, workerVars, observed
  <2>5. ASSUME NEW t \in Task, UpdateEnded(t) PROVE TypeOK'
    BY <2>5 DEF UpdateEnded, flags, mainVars, workerVars, observed
  <2>6. ASSUME NEW t \in Task, UpdateComplete(t) PROVE TypeOK'
    BY <2>6 DEF UpdateComplete, OnComplete, flags, mainVars, workerVars, observed
  <2>7. ASSUME NEW t \in Task, UpdateTest(t) PROVE TypeOK'
    BY <2>7 DEF UpdateTest, Goto, Return, flags, mainVars, workerVars, observed
  <2>8. ASSUME NEW t \in Task, UpdateReturn(t) PROVE TypeOK'
    BY <2>8 DEF UpdateReturn, Goto, Return, flags, mainVars, workerVars, observed
  <2>9. ASSUME NEW t \in Task, JoinTest(t) PROVE TypeOK'
    BY <2>9 DEF JoinTest, Goto, Return, flags, mainVars, workerVars, observed
  <2>10. ASSUME NEW t \in Task, JoinLock(t) PROVE TypeOK'
    BY <2>10 DEF JoinLock, Goto, Return, flags, mainVars, workerVars, observed
  <2>11. ASSUME NEW t \in Task, JoinUnlock(t) PROVE TypeOK'
    BY <2>11 DEF JoinUnlock, Goto, Return, flags, mainVars, workerVars, observed
  <2>12. ASSUME NEW t \in Task, JoinComplete(t) PROVE TypeOK'
    <3>1. CASE complete[t]
      BY <2>12, <3>1 DEF JoinComplete, Goto, Return, flags, mainVars, workerVars, observed
    <3>2. CASE ~complete[t]
      <4>1. /\ complete' = [complete EXCEPT ![t] = TRUE]
            /\ calls' = [calls EXCEPT ![t] = @ + 1]
            /\ told' = [told EXCEPT ![t] = "failed"]
        BY <2>12, <3>2 DEF JoinComplete, OnComplete
      <4> QED
        BY <2>12, <4>1 DEF JoinComplete, Return, flags, mainVars, workerVars, observed
    <3> QED
      BY <3>1, <3>2
  <2>13. ASSUME NEW t \in Task, MainLock(t) PROVE TypeOK'
    BY <2>13 DEF MainLock, Move, flags, mainVars, workerVars, observed
  <2>14. ASSUME NEW t \in Task, MainEnter(t) PROVE TypeOK'
    BY <2>14 DEF MainEnter, Move, flags, mainVars, workerVars, observed
  <2>15. ASSUME NEW t \in Task, MainCancelled(t) PROVE TypeOK'
    BY <2>15 DEF MainCancelled, Move, flags, mainVars, workerVars, observed
  <2>16. ASSUME NEW t \in Task, MainWork(t) PROVE TypeOK'
    BY <2>16 DEF MainWork, Move, flags, mainVars, workerVars, observed
  <2>17. ASSUME NEW t \in Task, MainWorked(t) PROVE TypeOK'
    BY <2>17 DEF MainWorked, Move, flags, mainVars, workerVars, observed
  <2>18. ASSUME NEW t \in Task, MainResult(t) PROVE TypeOK'
    BY <2>18 DEF MainResult, Move, flags, mainVars, workerVars, observed
  <2>19. ASSUME NEW t \in Task, MainStore(t) PROVE TypeOK'
    BY <2>19 DEF MainStore, Move, flags, mainVars, workerVars, observed
  <2>20. ASSUME NEW t \in Task, MainFinish(t) PROVE TypeOK'
    BY <2>20 DEF MainFinish, Move, flags, mainVars, workerVars, observed
  <2>21. ASSUME NEW t \in Task, MainUnlock(t) PROVE TypeOK'
    BY <2>21 DEF MainUnlock, Move, flags, mainVars, workerVars, observed
  <2> QED
    BY <2>0, <2>1, <2>2, <2>2a, <2>3, <2>4, <2>5, <2>6, <2>7, <2>8, <2>9, <2>10, <2>11, <2>12, <2>13, <2>14, <2>15, <2>16, <2>17, <2>18, <2>19, <2>20, <2>21 DEF Next, Cancel, MainStep, Update, Worker
<1> QED
  BY <1>1, <1>2, PTL DEF Spec

\* The inductive invariant.
THEOREM Inductive == Spec => []IInv
<1>1. Init => IInv
  <2> SUFFICES ASSUME Init, NEW t \in Task PROVE TaskInv(t)
    BY DEF IInv, TaskInv
  <2> QED
    BY DEF Init, TaskInv, MutexInv, BusyInv, SettleInv, CallsInv, ResultInv, InMain, Busy, Settling
<1>2. TypeOK /\ IInv /\ [Next]_vars => IInv'
  <2> SUFFICES ASSUME TypeOK, IInv, [Next]_vars, NEW t \in Task PROVE TaskInv(t)'
    BY DEF IInv, TaskInv
  <2> USE TaskAssumption DEF TypeOK, MainAt, InMain, Outcomes, Busy, Settling, IInv, TaskInv, MutexInv, BusyInv, SettleInv, CallsInv, ResultInv
  <2>0. CASE UNCHANGED vars
    BY <2>0 DEF vars, flags, mainVars, workerVars, observed
  <2>1. ASSUME NEW u \in Task, Run(u) PROVE TaskInv(t)'
    <3>1. PICK ok \in BOOLEAN : /\ run' = [run EXCEPT ![u] = ok]
                               /\ finish' = [finish EXCEPT ![u] = ~ok]
                               /\ successful' = [successful EXCEPT ![u] = @ /\ ok]
      BY <2>1 DEF Run
    <3>2. CASE t = u
      <4>1. wpc[t] = "out" /\ ~armed[t] /\ result[t] = "none" /\ ~successful[t]
        BY <2>1, <3>2 DEF Run
      <4>2. run'[t] = ok /\ finish'[t] = ~ok /\ ~successful'[t]
        BY <3>1, <3>2, <4>1
      <4>3. MutexInv(t)' /\ BusyInv(t)' /\ SettleInv(t)'
        BY <2>1, <3>2, <4>1, <4>2 DEF Run, flags, mainVars, workerVars, observed
      <4>4. CallsInv(t)' /\ ResultInv(t)'
        BY <2>1, <3>2, <4>1, <4>2 DEF Run, flags, mainVars, workerVars, observed
      <4> QED
        BY <4>3, <4>4
    <3>3. CASE t # u
      BY <2>1, <3>1, <3>3 DEF Run, flags, mainVars, workerVars, observed
    <3> QED
      BY <3>2, <3>3
  <2>2. ASSUME NEW u \in Task, CancelStore(u) PROVE TaskInv(t)'
    <3>1. CASE complete[u]
      BY <2>2, <3>1 DEF CancelStore, flags, mainVars, workerVars, observed
    <3>2. CASE ~complete[u]
      BY <2>2, <3>2 DEF CancelStore, Goto, flags, mainVars, workerVars, observed
    <3> QED
      BY <3>1, <3>2
  <2>2a. ASSUME NEW u \in Task, CancelAgain(u) PROVE TaskInv(t)'
    BY <2>2a DEF CancelAgain, flags, mainVars, workerVars, observed
  <2>3. ASSUME NEW u \in Task, CancelSettle(u) PROVE TaskInv(t)'
    BY <2>3 DEF CancelSettle, Goto, Return, OnComplete, flags, mainVars, workerVars, observed
  <2>4. ASSUME NEW u \in Task, CancelRunning(u) PROVE TaskInv(t)'
    <3>1. CASE Return /\ cancelled' = [cancelled EXCEPT ![u] = "true"]
      BY <2>4, <3>1 DEF CancelRunning, Return, flags, mainVars, workerVars, observed
    <3>2. CASE Goto("join", u) /\ cancelled' = [cancelled EXCEPT ![u] = "joined"]
      <4>1. UNCHANGED <<flags, mutex, workerVars, calls, told, released, late, twice>>
        BY <2>4 DEF CancelRunning
      <4>2. pc = "cancel" /\ cur = u /\ run[u] /\ ~finish[u] /\ pc' = "join" /\ cur' = u
        BY <2>4, <3>2 DEF CancelRunning, Goto
      <4>3. MutexInv(t)' /\ BusyInv(t)' /\ SettleInv(t)'
        BY <4>1, <4>2 DEF flags, mainVars, workerVars, observed
      <4>4. cancel[t] /\ calls[t] = 0 => t = u \/ late[t] \/ cancelled[t] = "true"
        BY <4>2
      <4>5. cancelled'[t] = IF t = u THEN "joined" ELSE cancelled[t]
        BY <3>2
      <4>6. CallsInv(t)'
        BY <4>1, <4>2, <4>4, <4>5 DEF flags, mainVars, workerVars, observed
      <4>7. ResultInv(t)'
        BY <4>1 DEF flags, mainVars, workerVars, observed
      <4> QED
        BY <4>3, <4>6, <4>7
    <3> QED
      BY <2>4, <3>1, <3>2 DEF CancelRunning
  <2>5. ASSUME NEW u \in Task, UpdateEnded(u) PROVE TaskInv(t)'
    BY <2>5 DEF UpdateEnded, flags, mainVars, workerVars, observed
  <2>6. ASSUME NEW u \in Task, UpdateComplete(u) PROVE TaskInv(t)'
    BY <2>6 DEF UpdateComplete, OnComplete, flags, mainVars, workerVars, observed
  <2>7. ASSUME NEW u \in Task, UpdateTest(u) PROVE TaskInv(t)'
    BY <2>7 DEF UpdateTest, Goto, Return, flags, mainVars, workerVars, observed
  <2>8. ASSUME NEW u \in Task, UpdateReturn(u) PROVE TaskInv(t)'
    BY <2>8 DEF UpdateReturn, Goto, Return, flags, mainVars, workerVars, observed
  <2>9. ASSUME NEW u \in Task, JoinTest(u) PROVE TaskInv(t)'
    BY <2>9 DEF JoinTest, Goto, Return, flags, mainVars, workerVars, observed
  <2>10. ASSUME NEW u \in Task, JoinLock(u) PROVE TaskInv(t)'
    BY <2>10 DEF JoinLock, Goto, Return, flags, mainVars, workerVars, observed
  <2>11. ASSUME NEW u \in Task, JoinUnlock(u) PROVE TaskInv(t)'
    BY <2>11 DEF JoinUnlock, Goto, Return, flags, mainVars, workerVars, observed
  <2>12. ASSUME NEW u \in Task, JoinComplete(u) PROVE TaskInv(t)'
    BY <2>12 DEF JoinComplete, Goto, Return, OnComplete, flags, mainVars, workerVars, observed
  <2>13. ASSUME NEW u \in Task, MainLock(u) PROVE TaskInv(t)'
    BY <2>13 DEF MainLock, Move, flags, mainVars, workerVars, observed
  <2>14. ASSUME NEW u \in Task, MainEnter(u) PROVE TaskInv(t)'
    BY <2>14 DEF MainEnter, Move, flags, mainVars, workerVars, observed
  <2>15. ASSUME NEW u \in Task, MainCancelled(u) PROVE TaskInv(t)'
    BY <2>15 DEF MainCancelled, Move, flags, mainVars, workerVars, observed
  <2>16. ASSUME NEW u \in Task, MainWork(u) PROVE TaskInv(t)'
    BY <2>16 DEF MainWork, Move, flags, mainVars, workerVars, observed
  <2>17. ASSUME NEW u \in Task, MainWorked(u) PROVE TaskInv(t)'
    BY <2>17 DEF MainWorked, Move, flags, mainVars, workerVars, observed
  <2>18. ASSUME NEW u \in Task, MainResult(u) PROVE TaskInv(t)'
    BY <2>18 DEF MainResult, Move, flags, mainVars, workerVars, observed
  <2>19. ASSUME NEW u \in Task, MainStore(u) PROVE TaskInv(t)'
    BY <2>19 DEF MainStore, Move, flags, mainVars, workerVars, observed
  <2>20. ASSUME NEW u \in Task, MainFinish(u) PROVE TaskInv(t)'
    BY <2>20 DEF MainFinish, Move, flags, mainVars, workerVars, observed
  <2>21. ASSUME NEW u \in Task, MainUnlock(u) PROVE TaskInv(t)'
    BY <2>21 DEF MainUnlock, Move, flags, mainVars, workerVars, observed
  <2> QED
    BY <2>0, <2>1, <2>2, <2>2a, <2>3, <2>4, <2>5, <2>6, <2>7, <2>8, <2>9, <2>10, <2>11, <2>12, <2>13, <2>14, <2>15, <2>16, <2>17, <2>18, <2>19, <2>20, <2>21 DEF Next, Cancel, MainStep, Update, Worker
<1> QED
  BY <1>1, <1>2, TypeCorrect, PTL DEF Spec

------------------------------------------------------------------------------
(* What the inductive invariant says of the task *)

\* The end of a task is told at most once, whichever of update(), cancel() and
\* join() settles it.
THEOREM ToldOnce == Spec => []CompleteOnce
<1>1. IInv => CompleteOnce
  <2> SUFFICES ASSUME IInv, NEW t \in Task PROVE calls[t] <= 1
    BY DEF CompleteOnce
  <2>1. calls[t] \in {0, 1}
    BY DEF IInv, TaskInv, CallsInv
  <2> QED
    BY <2>1
<1> QED
  BY <1>1, Inductive, PTL

\* _onComplete() neither runs nor has run while _onMain() does.
THEOREM WorkIsUndisturbed == Spec => []NoCompleteDuringWork
<1>1. IInv => NoCompleteDuringWork
  BY DEF IInv, TaskInv, BusyInv, NoCompleteDuringWork
<1> QED
  BY <1>1, Inductive, PTL

\* A completion that was not cancelled reports what _onMain() returned.
THEOREM ResultIsFaithful == Spec => []FaithfulResult
<1>1. IInv => FaithfulResult
  BY DEF IInv, TaskInv, ResultInv, FaithfulResult
<1> QED
  BY <1>1, Inductive, PTL

\* After a cancel() that returned false the owner has been told, but for a later
\* one when the first found the work under way and no join() told it since.
THEOREM FalseSettles == Spec => []CancelFalseSettles
<1>1. IInv /\ TypeOK => CancelFalseSettles
  <2> SUFFICES ASSUME IInv, TypeOK, NEW t \in Task, calls[t] = 0
               PROVE  /\ cancelled[t] # "false"
                      /\ twice[t] => cancelled[t] = "true" \/ (cancelled[t] = "joined" /\ late[t])
    BY DEF CancelFalseSettles
  <2>1. CallsInv(t) /\ cancelled[t] \in {"never", "false", "true", "joined"}
    BY DEF IInv, TaskInv, TypeOK
  <2> QED
    BY <2>1 DEF CallsInv, Settling
<1> QED
  BY <1>1, Inductive, TypeCorrect, PTL

\* A task leaves the service untold only by the late read of m_finish, or when a
\* cancel() caught it at work and no join() followed.
THEOREM DropsAreAccounted == Spec => []ReleasedAccounted
<1>1. IInv => ReleasedAccounted
  BY DEF IInv, TaskInv, CallsInv, ReleasedAccounted
<1> QED
  BY <1>1, Inductive, PTL

------------------------------------------------------------------------------
(* ThreadTask implements TaskLifecycle *)

\* The task as its owner sees it, at one moment and after a step.
Phase(t) == IF wpc[t] = "work" THEN "working"
            ELSE IF result[t] # "none" THEN "worked"
            ELSE IF run[t] THEN "started" ELSE "new"

\* A step leaves what the owner sees as it was.
Unseen == /\ \A t \in Task : Phase(t)' = Phase(t)
          /\ UNCHANGED <<result, calls, told>>

\* Such a step is a stuttering step of TaskLifecycle.
LEMMA UnseenStutters ==
  ASSUME Unseen
  PROVE  UNCHANGED Lifecycle!tvars
BY DEF Unseen, Phase, Lifecycle!tvars

\* The steps of TaskLifecycle, and the steps of ThreadTask that implement them:
\* run(), the first test of m_cancel, the return of _onMain(), and any of the
\* three completions.
LEMMA SeenSteps ==
  ASSUME TypeOK, IInv, NEW t \in Task
  PROVE  /\ Run(t) => Lifecycle!Start(t) \/ Unseen
         /\ MainWork(t) => Lifecycle!Work(t)
         /\ MainWorked(t) => Lifecycle!Worked(t)
         /\ CancelSettle(t) => Lifecycle!Tell(t)
         /\ UpdateComplete(t) => Lifecycle!Tell(t)
         /\ JoinComplete(t) => Lifecycle!Tell(t)
<1> USE DEF TypeOK, InMain, Outcomes, Settling, Busy
<1>1. MutexInv(t) /\ BusyInv(t) /\ SettleInv(t) /\ CallsInv(t) /\ ResultInv(t)
  BY DEF IInv, TaskInv
<1>2. ASSUME Run(t) PROVE Lifecycle!Start(t) \/ Unseen
  <2>1. wpc[t] = "out" /\ result[t] = "none" /\ ~run[t]
    BY <1>1, <1>2 DEF Run, BusyInv, ResultInv
  <2>2. UNCHANGED <<wpc, result, calls, told>>
    BY <1>2 DEF Run, observed
  <2>3. PICK ok \in BOOLEAN : run' = [run EXCEPT ![t] = ok]
    BY <1>2 DEF Run
  <2>4. CASE ok
    BY <2>1, <2>2, <2>3, <2>4 DEF Lifecycle!Start
  <2>5. CASE ~ok
    BY <2>1, <2>2, <2>3, <2>5 DEF Unseen, Phase
  <2> QED
    BY <2>4, <2>5
<1>3. ASSUME MainWork(t) PROVE Lifecycle!Work(t)
  <2>1. run[t] /\ calls[t] = 0 /\ result[t] = "none" /\ wpc[t] = "check"
    BY <1>1, <1>3 DEF MainWork, Move, BusyInv, CallsInv, ResultInv
  <2>2. wpc' = [wpc EXCEPT ![t] = "work"] /\ UNCHANGED <<run, result, calls, told>>
    BY <1>3 DEF MainWork, Move, flags, observed
  <2> QED
    BY <2>1, <2>2 DEF Lifecycle!Work
<1>4. ASSUME MainWorked(t) PROVE Lifecycle!Worked(t)
  <2>1. wpc[t] = "work" /\ wpc' = [wpc EXCEPT ![t] = "worked"] /\ UNCHANGED <<run, calls, told>>
    BY <1>4 DEF MainWorked, Move, flags, observed
  <2>2. PICK r \in {"ok", "failed"} : result' = [result EXCEPT ![t] = r]
    BY <1>4 DEF MainWorked
  <2> QED
    BY <2>1, <2>2 DEF Lifecycle!Worked
<1>5. ASSUME calls[t] = 0, wpc[t] # "work", UNCHANGED <<run, wpc, result>>,
             NEW r \in {"failed", result[t]} \ {"none"}, OnComplete(t, r)
      PROVE  Lifecycle!Tell(t)
  <2>1. calls' = [calls EXCEPT ![t] = 1] /\ told' = [told EXCEPT ![t] = r]
    BY <1>5 DEF OnComplete
  <2> QED
    BY <1>5, <2>1 DEF Lifecycle!Tell
<1>6. ASSUME CancelSettle(t) PROVE Lifecycle!Tell(t)
  <2>1. calls[t] = 0 /\ wpc[t] # "work"
    BY <1>1, <1>6 DEF CancelSettle, SettleInv, BusyInv
  <2>2. OnComplete(t, "failed") /\ UNCHANGED <<run, wpc, result>>
    BY <1>6 DEF CancelSettle, workerVars
  <2> QED
    BY <1>5, <2>1, <2>2
<1>7. ASSUME UpdateComplete(t) PROVE Lifecycle!Tell(t)
  <2>1. calls[t] = 0 /\ wpc[t] # "work"
    BY <1>1, <1>7 DEF UpdateComplete, CallsInv, BusyInv
  <2>2. OnComplete(t, IF successful[t] THEN "ok" ELSE "failed") /\ UNCHANGED <<run, wpc, result>>
    BY <1>7 DEF UpdateComplete, workerVars
  <2>3. (IF successful[t] THEN "ok" ELSE "failed") \in {"failed", result[t]} \ {"none"}
    BY <1>1 DEF ResultInv
  <2> QED
    BY <1>5, <2>1, <2>2, <2>3
<1>8. ASSUME JoinComplete(t) PROVE Lifecycle!Tell(t)
  <2>1. calls[t] = 0 /\ wpc[t] # "work" /\ ~complete[t]
    BY <1>1, <1>8 DEF JoinComplete, SettleInv, BusyInv
  <2>2. OnComplete(t, "failed") /\ UNCHANGED <<run, wpc, result>>
    BY <1>8, <2>1 DEF JoinComplete, workerVars
  <2> QED
    BY <1>5, <2>1, <2>2
<1> QED
  BY <1>2, <1>3, <1>4, <1>6, <1>7, <1>8

\* Every other step is not seen.
LEMMA UnseenSteps ==
  ASSUME TypeOK, IInv, NEW t \in Task
  PROVE  /\ Cancel(t) \/ CancelRunning(t) => Unseen
         /\ UpdateEnded(t) \/ UpdateTest(t) \/ UpdateReturn(t) => Unseen
         /\ JoinTest(t) \/ JoinLock(t) \/ JoinUnlock(t) => Unseen
         /\ MainLock(t) \/ MainEnter(t) \/ MainCancelled(t) => Unseen
         /\ MainResult(t) \/ MainStore(t) \/ MainFinish(t) \/ MainUnlock(t) => Unseen
<1> USE DEF TypeOK, Unseen, Phase, flags, workerVars, observed
<1>1. ASSUME UNCHANGED <<run, wpc, result, calls, told>> PROVE Unseen
  BY <1>1
<1>2. Cancel(t) \/ CancelRunning(t) => Unseen
  BY <1>1 DEF Cancel, CancelStore, CancelAgain, CancelRunning
<1>3. UpdateEnded(t) \/ UpdateTest(t) \/ UpdateReturn(t) => Unseen
  BY <1>1 DEF UpdateEnded, UpdateTest, UpdateReturn
<1>4. JoinTest(t) \/ JoinLock(t) \/ JoinUnlock(t) => Unseen
  BY <1>1 DEF JoinTest, JoinLock, JoinUnlock
<1>5. ASSUME NEW from, NEW to, Move(t, from, to), from # "work", to # "work",
             UNCHANGED <<run, result, calls, told>>
      PROVE  Unseen
  BY <1>5 DEF Move
<1>6. MainLock(t) \/ MainEnter(t) \/ MainCancelled(t) => Unseen
  BY <1>5 DEF MainLock, MainEnter, MainCancelled
<1>7. MainResult(t) \/ MainStore(t) \/ MainFinish(t) \/ MainUnlock(t) => Unseen
  BY <1>5 DEF MainResult, MainStore, MainFinish, MainUnlock
<1> QED
  BY <1>2, <1>3, <1>4, <1>6, <1>7

\* Whatever the two threads do, and whatever flags and mutex they use for it, the
\* owner of a task sees no other life than the one TaskLifecycle promises.
THEOREM Refinement == Spec => LifecycleSpec
<1>1. Init => Lifecycle!Init
  BY DEF Init, Lifecycle!Init
<1>2. TypeOK /\ IInv /\ [Next]_vars => [Lifecycle!Next]_(Lifecycle!tvars)
  <2> SUFFICES ASSUME TypeOK, IInv, [Next]_vars
               PROVE  Lifecycle!Next \/ Unseen
    BY UnseenStutters
  <2>1. CASE UNCHANGED vars
    BY <2>1 DEF vars, flags, workerVars, observed, Unseen, Phase
  <2>2. CASE Next
    <3>1. PICK t \in Task : Run(t) \/ Cancel(t) \/ MainStep(t) \/ Update(t) \/ Worker(t)
      BY <2>2 DEF Next
    <3>2. Lifecycle!Start(t) \/ Lifecycle!Work(t) \/ Lifecycle!Worked(t) \/ Lifecycle!Tell(t) \/ Unseen
      BY <3>1, SeenSteps, UnseenSteps DEF MainStep, Update, Worker
    <3> QED
      BY <3>2 DEF Lifecycle!Next
  <2> QED
    BY <2>1, <2>2
<1> QED
  BY <1>1, <1>2, TypeCorrect, Inductive, PTL DEF Spec, LifecycleSpec, Lifecycle!Spec

------------------------------------------------------------------------------
(* ThreadJob *)

\* The mutex of a slot says whether the job is in its onWork(), and while it is
\* no one else changes the slot.
LockInv ==
  /\ jpc \in {"lock", "work"} => at \in Slot
  /\ \A i \in Slot : lock[i] = "job" <=> jpc = "work" /\ at = i
  /\ jpc = "work" => status[at] = "work"
  /\ mpc = "over" => jpc = "stopped"

\* A worker is added before it is told its end, and is in a slot until it is.
AddedInv ==
  /\ \A w \in JobWorker : done[w] \in {0, 1} /\ (w \notin added => done[w] = 0 /\ w \notin ended)
  /\ \A i \in Slot : id[i] # NoWorker => id[i] \in added /\ done[id[i]] = 0
  /\ \A i, k \in Slot : id[i] = id[k] /\ id[i] # NoWorker => i = k

\* A slot where the job may find work holds no worker that ended and was not resumed.
EndedInv ==
  /\ \A i \in Slot : status[i] = "work" /\ id[i] \in ended => id[i] \in revived
  /\ again \subseteq revived

JobIInv == LockInv /\ SlotConsistent /\ AddedInv /\ EndedInv

------------------------------------------------------------------------------

\* A step of either thread keeps the types.  Only a slot that works makes a worker
\* end, so that it needs the rest of the invariant.
LEMMA JobTypeStep == JobTypeOK /\ JobIInv /\ [JobNext]_jobState => JobTypeOK'
<1> SUFFICES ASSUME JobTypeOK, JobIInv, [JobNext]_jobState PROVE JobTypeOK'
  OBVIOUS
<1> USE JobAssumption DEF JobTypeOK, Slot, slots, jobVars, jobMain, jobObserved
<1>0. CASE UNCHANGED jobState
  BY <1>0 DEF jobState
<1>1. ASSUME NEW w \in JobWorker, AddWorker(w) PROVE JobTypeOK'
  BY <1>1 DEF AddWorker
<1>2. ASSUME NEW w \in JobWorker, RemoveWorker(w) PROVE JobTypeOK'
  BY <1>2 DEF RemoveWorker, Free
<1>3. ASSUME NEW w \in JobWorker, PauseWorker(w) PROVE JobTypeOK'
  BY <1>3 DEF PauseWorker
<1>4. ASSUME NEW w \in JobWorker, ResumeWorker(w) PROVE JobTypeOK'
  BY <1>4 DEF ResumeWorker
<1>5. CASE BeginUpdate
  BY <1>5 DEF BeginUpdate
<1>6. CASE UpdatePass
  BY <1>6 DEF UpdatePass
<1>7. CASE UpdateCollect
  <2>1. id[next] \in JobWorker
    BY <1>7 DEF UpdateCollect, JobIInv, SlotConsistent
  <2> QED
    BY <1>7, <2>1 DEF UpdateCollect, Free
<1>8. CASE UpdateEnd
  BY <1>8 DEF UpdateEnd
<1>9. CASE CancelJob
  BY <1>9 DEF CancelJob
<1>10. CASE Finally
  BY <1>10 DEF Finally
<1>11. CASE JobLoop
  BY <1>11 DEF JobLoop
<1>12. CASE JobTest
  BY <1>12 DEF JobTest
<1>13. CASE JobLock
  <2>1. at \in Slot
    BY <1>13 DEF JobLock, JobIInv, LockInv
  <2> QED
    BY <1>13, <2>1 DEF JobLock
<1>14. CASE JobWorked
  <2>1. at \in Slot /\ id[at] \in JobWorker
    BY <1>14 DEF JobWorked, JobIInv, LockInv, SlotConsistent
  <2> QED
    BY <1>14, <2>1 DEF JobWorked
<1> QED
  BY <1>0, <1>1, <1>2, <1>3, <1>4, <1>5, <1>6, <1>7, <1>8, <1>9, <1>10, <1>11, <1>12, <1>13, <1>14
     DEF JobNext, Client, JobUpdate, Job

\* A step of either thread keeps the mutexes, the ids and the ends as they must be.
LEMMA JobInvStep == JobTypeOK /\ JobTypeOK' /\ JobIInv /\ [JobNext]_jobState => JobIInv'
<1> SUFFICES ASSUME JobTypeOK, JobTypeOK', JobIInv, [JobNext]_jobState PROVE JobIInv'
  OBVIOUS
<1> USE JobAssumption DEF JobTypeOK, slots, jobVars, jobMain, jobObserved,
                          JobIInv, LockInv, SlotConsistent, AddedInv, EndedInv
<1>0. CASE UNCHANGED jobState
  BY <1>0 DEF jobState
<1>1. ASSUME NEW w \in JobWorker, AddWorker(w) PROVE JobIInv'
  BY <1>1 DEF AddWorker
<1>2. ASSUME NEW w \in JobWorker, RemoveWorker(w) PROVE JobIInv'
  BY <1>2 DEF RemoveWorker, Free
<1>3. ASSUME NEW w \in JobWorker, PauseWorker(w) PROVE JobIInv'
  BY <1>3 DEF PauseWorker
<1>4. ASSUME NEW w \in JobWorker, ResumeWorker(w) PROVE JobIInv'
  BY <1>4 DEF ResumeWorker
<1>5. CASE BeginUpdate
  BY <1>5 DEF BeginUpdate
<1>6. CASE UpdatePass
  BY <1>6 DEF UpdatePass
<1>7. CASE UpdateCollect
  BY <1>7 DEF UpdateCollect, Free
<1>8. CASE UpdateEnd
  BY <1>8 DEF UpdateEnd
<1>9. CASE CancelJob
  BY <1>9 DEF CancelJob
<1>10. CASE Finally
  BY <1>10 DEF Finally
<1>11. CASE JobLoop
  BY <1>11 DEF JobLoop
<1>12. CASE JobTest
  BY <1>12 DEF JobTest
<1>13. CASE JobLock
  BY <1>13 DEF JobLock
<1>14. CASE JobWorked
  BY <1>14 DEF JobWorked
<1> QED
  BY <1>0, <1>1, <1>2, <1>3, <1>4, <1>5, <1>6, <1>7, <1>8, <1>9, <1>10, <1>11, <1>12, <1>13, <1>14
     DEF JobNext, Client, JobUpdate, Job

\* Every variable stays in its type, and the parts of the invariant hold, whatever
\* the clients of the job and its thread do and in whatever order.
THEOREM JobInductive == JobSpec => [](JobTypeOK /\ JobIInv)
<1>1. JobInit => JobTypeOK /\ JobIInv
  <2> SUFFICES ASSUME JobInit PROVE JobTypeOK /\ JobIInv
    OBVIOUS
  <2>1. JobTypeOK
    <3>1. 1 \in 1..(N + 1)
      BY JobAssumption
    <3>2. done \in [JobWorker -> Nat]
      BY DEF JobInit
    <3> QED
      BY <3>1, <3>2 DEF JobInit, JobTypeOK
  <2>2. JobIInv
    BY JobAssumption DEF JobInit, JobIInv, LockInv, SlotConsistent, AddedInv, EndedInv, Slot
  <2> QED
    BY <2>1, <2>2
<1>2. JobTypeOK /\ JobIInv /\ [JobNext]_jobState => (JobTypeOK /\ JobIInv)'
  BY JobTypeStep, JobInvStep
<1> QED
  BY <1>1, <1>2, PTL DEF JobSpec

------------------------------------------------------------------------------
(* What the inductive invariant says of the job *)

\* Every variable stays in its type.
THEOREM JobTypeCorrect == JobSpec => []JobTypeOK
BY JobInductive, PTL

\* A worker is in one slot until it is told its end, and is told so once.
THEOREM JobToldOnce == JobSpec => []DoneOnce
<1>1. JobTypeOK /\ JobIInv => DoneOnce
  <2> SUFFICES ASSUME JobIInv PROVE \A w \in JobWorker : done[w] <= 1
    BY DEF DoneOnce, JobIInv, AddedInv
  <2>1. \A w \in JobWorker : done[w] \in {0, 1}
    BY DEF JobIInv, AddedInv
  <2> QED
    BY <2>1
<1> QED
  BY <1>1, JobInductive, PTL

\* onWork() runs for the worker of its slot only, and never after its onDone().
THEOREM DoneIsLast == JobSpec => []NoWorkAfterDone
<1>1. JobTypeOK /\ JobIInv => NoWorkAfterDone
  BY DEF JobTypeOK, JobIInv, LockInv, SlotConsistent, AddedInv, NoWorkAfterDone
<1> QED
  BY <1>1, JobInductive, PTL

\* The status of a slot and its id agree, with or without the mutex.
THEOREM SlotsAgree == JobSpec => []SlotConsistent
<1>1. JobTypeOK /\ JobIInv => SlotConsistent
  BY DEF JobIInv
<1> QED
  BY <1>1, JobInductive, PTL

\* Nothing happens to a worker under its own onWork().
THEOREM WorkIsExclusive == JobSpec => []WorkIsLocked
<1>1. JobTypeOK /\ JobIInv => WorkIsLocked
  BY DEF JobIInv, LockInv, WorkIsLocked
<1> QED
  BY <1>1, JobInductive, PTL

\* A worker that ended works again only if it was resumed.
THEOREM EndIsFinal == JobSpec => []EndedStaysEnded
<1>1. JobTypeOK /\ JobIInv => EndedStaysEnded
  BY DEF JobIInv, EndedInv, EndedStaysEnded
<1> QED
  BY <1>1, JobInductive, PTL

==============================================================================
