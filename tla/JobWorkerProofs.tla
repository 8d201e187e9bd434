-------------------------- MODULE JobWorkerProofs ---------------------------
(***************************************************************************)
(* Proofs about JobWorker, for every number of jobs, pollers, dispatch     *)
(* tasks, attempts, crashes and lost transactions.                         *)
(***************************************************************************)
EXTENDS JobWorker, TLAPS

USE DEF jobVars, apiVars, workerVars, faultVars

\* A step keeps every variable in its type.
LEMMA TypeStep == TypeOK /\ [Next]_vars => TypeOK'
<1> SUFFICES ASSUME TypeOK, [Next]_vars PROVE TypeOK'
  OBVIOUS
<1> USE MaxAttemptsAssumption, HandlersAssumption
    DEF TypeOK, JobStatus, Kinds, RunStatus, PC, Executing, Active, Terminal,
        Finished, Workers
<1>1. ASSUME NEW j \in Jobs, NEW k \in Kinds, NEW m \in {1, MaxAttempts}, Enqueue(j, k, m)
      PROVE  TypeOK'
  BY <1>1 DEF Enqueue, Insert, BecomeDue
<1>2. ASSUME NEW src \in Jobs, NEW j \in Jobs, Requeue(src, j) PROVE TypeOK'
  BY <1>2 DEF Requeue, Insert, BecomeDue
<1>3. ASSUME NEW j \in Jobs, CancelRead(j) PROVE TypeOK'
  BY <1>3 DEF CancelRead
<1>4. ASSUME NEW j \in Jobs, CancelWrite(j) PROVE TypeOK'
  BY <1>4 DEF CancelWrite, LeaveQueue
<1>5. ASSUME NEW j \in Jobs, BackoffElapses(j) PROVE TypeOK'
  BY <1>5 DEF BackoffElapses, BecomeDue
<1>6. ASSUME NEW j \in Jobs, LeaseExpires(j) PROVE TypeOK'
  BY <1>6 DEF LeaseExpires
<1>7. ASSUME NEW w \in Workers, LoseTransaction(w) PROVE TypeOK'
  BY <1>7 DEF LoseTransaction, Release
<1>8. ASSUME NEW w \in Workers, LoseBestEffort(w) PROVE TypeOK'
  BY <1>8 DEF LoseBestEffort, Step
<1>9. ASSUME NEW w \in Workers, NEW j \in Jobs, LoseReconcile(w, j) PROVE TypeOK'
  BY <1>9 DEF LoseReconcile
<1>10. ASSUME NEW w \in Workers, Crash(w) PROVE TypeOK'
  BY <1>10 DEF Crash
<1>11. ASSUME ApiCrash PROVE TypeOK'
  BY <1>11 DEF ApiCrash
<1>12. ASSUME NEW w \in Workers, ClaimCommit(w) PROVE TypeOK'
  <2>1. /\ status' \in [Jobs -> JobStatus]
        /\ lease' \in [Jobs -> {"none", "fresh", "stale"}]
        /\ due' \in SUBSET Jobs /\ ahead' \in [Jobs -> SUBSET Jobs]
    BY <1>12 DEF ClaimCommit, LeaveQueue
  <2>2. attempts' \in [Jobs -> Nat]
    <3>1. CASE cur[w] \in Jobs
      BY <1>12, <3>1 DEF ClaimCommit
    <3>2. CASE cur[w] = NoJob
      BY <1>12, <3>2, NoJobAssumption DEF ClaimCommit
    <3> QED
      BY <3>1, <3>2
  <2>3. pc' \in [Workers -> PC]
    BY <1>12 DEF ClaimCommit
  <2> QED
    BY <1>12, <2>1, <2>2, <2>3 DEF ClaimCommit
<1>13. ASSUME NEW w \in Workers, StartRun(w) PROVE TypeOK'
  BY <1>13 DEF StartRun, Step, SetRun
<1>14. ASSUME NEW w \in Workers, HandleWithoutRow(w) PROVE TypeOK'
  BY <1>14 DEF HandleWithoutRow, Step
<1>15. ASSUME NEW w \in Workers, NEW s \in {"passed", "failed"}, ScriptsDone(w, s)
      PROVE  TypeOK'
  BY <1>15 DEF ScriptsDone, Step, SetRun
<1>16. ASSUME NEW w \in Workers, HandlerReturns(w) PROVE TypeOK'
  BY <1>16 DEF HandlerReturns, Step
<1>17. ASSUME NEW w \in Workers, NEW b \in BOOLEAN, HandlerRaises(w, b)
      PROVE  TypeOK'
  BY <1>17 DEF HandlerRaises, EnterFailure
<1>18. ASSUME NEW w \in Workers, NEW b \in BOOLEAN, ScriptsRaise(w, b) PROVE TypeOK'
  BY <1>18 DEF ScriptsRaise, EnterFailure, SetRun
<1>19. ASSUME NEW w \in Workers, MarkSucceeded(w) PROVE TypeOK'
  BY <1>19 DEF MarkSucceeded, Release
<1>20. ASSUME NEW w \in Workers, ReconcileRun(w) PROVE TypeOK'
  BY <1>20 DEF ReconcileRun, Step, Interrupt
<1>21. ASSUME NEW w \in Workers, Finalize(w) PROVE TypeOK'
  BY <1>21 DEF Finalize, Release
<1>22. ASSUME NEW w \in Workers, SweepRuns(w) PROVE TypeOK'
  BY <1>22 DEF SweepRuns, Step, Interrupt
<1>23. ASSUME NEW w \in Workers, ReapAtStartup(w) PROVE TypeOK'
  BY <1>23 DEF ReapAtStartup, Step, Reclaim, RunningJobs
<1>24. ASSUME NEW w \in Workers, NEW j \in Jobs, ReconcileReaped(w, j) PROVE TypeOK'
  BY <1>24 DEF ReconcileReaped, Interrupt
<1>25. ASSUME NEW w \in Workers, EndReap(w) PROVE TypeOK'
  BY <1>25 DEF EndReap, Step
<1>26. ASSUME NEW w \in Workers, Restart(w) PROVE TypeOK'
  BY <1>26 DEF Restart, Step
<1>27. ASSUME NEW w \in Workers, ReapStale(w) PROVE TypeOK'
  BY <1>27 DEF ReapStale, Step, Reclaim, RunningJobs
<1>28. ASSUME NEW w \in Workers, NEW j \in Jobs, ClaimNext(w, j) PROVE TypeOK'
  BY <1>28 DEF ClaimNext, SelectForUpdate
<1>29. ASSUME NEW w \in Workers, NEW j \in Jobs, DispatchJob(w, j) PROVE TypeOK'
  BY <1>29 DEF DispatchJob, SelectForUpdate
<1>30. ASSUME UNCHANGED vars PROVE TypeOK'
  BY <1>30 DEF vars
<1> HIDE DEF TypeOK, JobStatus, Kinds, RunStatus, PC, Executing, Active, Terminal,
             Finished, Workers, jobVars, apiVars, workerVars, faultVars
<1> QED
  BY <1>1, <1>2, <1>3, <1>4, <1>5, <1>6, <1>7, <1>8, <1>9, <1>10, <1>11, <1>12,
     <1>13, <1>14, <1>15, <1>16, <1>17, <1>18, <1>19, <1>20, <1>21, <1>22, <1>23,
     <1>24, <1>25, <1>26, <1>27, <1>28, <1>29, <1>30
  DEF Next, Client, Clock, Fault, Work, Handle

\* Every variable keeps its type (the columns' enums, the worker's program points).
THEOREM TypeCorrect == Spec => []TypeOK
<1>1. Init => TypeOK
  BY MaxAttemptsAssumption, HandlersAssumption
  DEF Init, TypeOK, JobStatus, Kinds, RunStatus, PC, Executing, Active, Terminal,
      Finished
<1> QED
  BY <1>1, TypeStep, PTL DEF Spec

----------------------------------------------------------------------------
(* The inductive invariant *)

\* The inductive invariant but for the types.
Bookkeeping ==
  /\ HeldStatus
  /\ SoleHolder
  /\ DueQueued
  /\ SeenMinted
  /\ AttemptsLeft
  /\ RunProgress
  /\ SucceededRunFinished
  /\ NoLeakWithoutFault

\* No step leaves it.
LEMMA BookkeepingStep == TypeOK /\ TypeOK' /\ Bookkeeping /\ [Next]_vars => Bookkeeping'
<1> SUFFICES ASSUME TypeOK, TypeOK', Bookkeeping, [Next]_vars PROVE Bookkeeping'
  OBVIOUS
<1> USE DEF TypeOK, Bookkeeping, Holds, HeldStatus, SoleHolder, DueQueued, SeenMinted,
            AttemptsLeft, RunProgress, SucceededRunFinished, NoLeakWithoutFault,
            RunningJobs, Executing
<1>1. ASSUME NEW j \in Jobs, NEW k \in Kinds, NEW m \in {1, MaxAttempts}, Enqueue(j, k, m)
      PROVE  Bookkeeping'
  BY <1>1, MaxAttemptsAssumption DEF Enqueue, Insert, BecomeDue
<1>2. ASSUME NEW src \in Jobs, NEW j \in Jobs, Requeue(src, j) PROVE Bookkeeping'
  BY <1>2, MaxAttemptsAssumption DEF Requeue, Insert, BecomeDue
<1>3. ASSUME NEW j \in Jobs, CancelRead(j) PROVE Bookkeeping'
  BY <1>3 DEF CancelRead
<1>4. ASSUME NEW j \in Jobs, CancelWrite(j) PROVE Bookkeeping'
  <2>1. HeldStatus' /\ SoleHolder'
    BY <1>4 DEF CancelWrite, Locked
  <2>2. DueQueued' /\ SeenMinted' /\ AttemptsLeft'
    BY <1>4 DEF CancelWrite, LeaveQueue, Active
  <2>3. RunProgress' /\ SucceededRunFinished' /\ NoLeakWithoutFault'
    BY <1>4 DEF CancelWrite
  <2> QED
    BY <2>1, <2>2, <2>3
<1>5. ASSUME NEW j \in Jobs, BackoffElapses(j) PROVE Bookkeeping'
  BY <1>5 DEF BackoffElapses, BecomeDue
<1>6. ASSUME NEW j \in Jobs, LeaseExpires(j) PROVE Bookkeeping'
  BY <1>6 DEF LeaseExpires
<1>7. ASSUME NEW w \in Workers, LoseTransaction(w) PROVE Bookkeeping'
  BY <1>7 DEF LoseTransaction, Release
<1>8. ASSUME NEW w \in Workers, LoseBestEffort(w) PROVE Bookkeeping'
  BY <1>8 DEF LoseBestEffort, Step
<1>9. ASSUME NEW w \in Workers, NEW j \in Jobs, LoseReconcile(w, j)
      PROVE  Bookkeeping'
  BY <1>9 DEF LoseReconcile
<1>10. ASSUME NEW w \in Workers, Crash(w) PROVE Bookkeeping'
  BY <1>10 DEF Crash
<1>11. ASSUME ApiCrash PROVE Bookkeeping'
  BY <1>11 DEF ApiCrash
<1>12. ASSUME NEW w \in Workers, ClaimCommit(w) PROVE Bookkeeping'
  <2>1. cur[w] \in Jobs /\ status[cur[w]] = "queued"
    BY <1>12 DEF ClaimCommit
  <2>2. HeldStatus' /\ SoleHolder'
    BY <1>12, <2>1 DEF ClaimCommit, HasHandler
  <2>3. DueQueued' /\ SeenMinted' /\ AttemptsLeft'
    BY <1>12, <2>1 DEF ClaimCommit, LeaveQueue
  <2>4. RunProgress' /\ SucceededRunFinished' /\ NoLeakWithoutFault'
    BY <1>12, <2>1 DEF ClaimCommit, HasHandler
  <2> QED
    BY <2>2, <2>3, <2>4
<1>13. ASSUME NEW w \in Workers, StartRun(w) PROVE Bookkeeping'
  BY <1>13 DEF StartRun, Step, SetRun
<1>14. ASSUME NEW w \in Workers, HandleWithoutRow(w) PROVE Bookkeeping'
  BY <1>14 DEF HandleWithoutRow, Step
<1>15. ASSUME NEW w \in Workers, NEW s \in {"passed", "failed"}, ScriptsDone(w, s)
      PROVE  Bookkeeping'
  BY <1>15 DEF ScriptsDone, Step, SetRun
<1>16. ASSUME NEW w \in Workers, HandlerReturns(w) PROVE Bookkeeping'
  BY <1>16 DEF HandlerReturns, Step
<1>17. ASSUME NEW w \in Workers, NEW b \in BOOLEAN, HandlerRaises(w, b)
      PROVE  Bookkeeping'
  BY <1>17 DEF HandlerRaises, EnterFailure
<1>18. ASSUME NEW w \in Workers, NEW b \in BOOLEAN, ScriptsRaise(w, b)
      PROVE  Bookkeeping'
  BY <1>18 DEF ScriptsRaise, EnterFailure, SetRun
<1>19. ASSUME NEW w \in Workers, MarkSucceeded(w) PROVE Bookkeeping'
  BY <1>19 DEF MarkSucceeded, Release
<1>20. ASSUME NEW w \in Workers, ReconcileRun(w) PROVE Bookkeeping'
  BY <1>20 DEF ReconcileRun, Step, Interrupt
<1>21. ASSUME NEW w \in Workers, Finalize(w) PROVE Bookkeeping'
  BY <1>21 DEF Finalize, Release
<1>22. ASSUME NEW w \in Workers, SweepRuns(w) PROVE Bookkeeping'
  BY <1>22 DEF SweepRuns, Step, Interrupt
<1>23. ASSUME NEW w \in Workers, ReapAtStartup(w) PROVE Bookkeeping'
  BY <1>23 DEF ReapAtStartup, Step, Reclaim
<1>24. ASSUME NEW w \in Workers, NEW j \in Jobs, ReconcileReaped(w, j)
      PROVE  Bookkeeping'
  BY <1>24 DEF ReconcileReaped, Interrupt
<1>25. ASSUME NEW w \in Workers, EndReap(w) PROVE Bookkeeping'
  BY <1>25 DEF EndReap, Step
<1>26. ASSUME NEW w \in Workers, Restart(w) PROVE Bookkeeping'
  BY <1>26 DEF Restart, Step
<1>27. ASSUME NEW w \in Workers, ReapStale(w) PROVE Bookkeeping'
  BY <1>27 DEF ReapStale, Step, Reclaim
<1>28. ASSUME NEW w \in Workers, NEW j \in Jobs, ClaimNext(w, j) PROVE Bookkeeping'
  BY <1>28 DEF ClaimNext, SelectForUpdate, Locked
<1>29. ASSUME NEW w \in Workers, NEW j \in Jobs, DispatchJob(w, j)
      PROVE  Bookkeeping'
  <2>1. CASE SelectForUpdate(w, j)
    BY <2>1 DEF SelectForUpdate, Locked
  <2>2. CASE UNCHANGED <<jobVars, run, cancelSeen, workerVars, faultVars>>
    BY <2>2
  <2> QED
    BY <1>29, <2>1, <2>2 DEF DispatchJob
<1>30. ASSUME UNCHANGED vars PROVE Bookkeeping'
  <2>1. HeldStatus' /\ SoleHolder' /\ DueQueued' /\ SeenMinted' /\ AttemptsLeft'
    BY <1>30 DEF vars
  <2>2. RunProgress' /\ SucceededRunFinished' /\ NoLeakWithoutFault'
    BY <1>30 DEF vars
  <2> QED
    BY <2>1, <2>2
<1> HIDE DEF TypeOK, Bookkeeping, Holds, HeldStatus, SoleHolder, DueQueued,
             SeenMinted, AttemptsLeft, RunProgress, SucceededRunFinished,
             NoLeakWithoutFault, RunningJobs, Executing, jobVars, apiVars,
             workerVars, faultVars
<1> QED
  BY <1>1, <1>2, <1>3, <1>4, <1>5, <1>6, <1>7, <1>8, <1>9, <1>10, <1>11, <1>12,
     <1>13, <1>14, <1>15, <1>16, <1>17, <1>18, <1>19, <1>20, <1>21, <1>22, <1>23,
     <1>24, <1>25, <1>26, <1>27, <1>28, <1>29, <1>30
  DEF Next, Client, Clock, Fault, Work, Handle

\* The inductive invariant holds throughout.
THEOREM InvariantHolds == Spec => []IInv
<1>1. Init => IInv
  <2> SUFFICES ASSUME Init PROVE TypeOK /\ Bookkeeping
    BY DEF IInv, Bookkeeping
  <2>1. TypeOK
    BY MaxAttemptsAssumption, HandlersAssumption
    DEF Init, TypeOK, JobStatus, Kinds, RunStatus, PC, Executing, Active, Terminal,
        Finished
  <2>2. Bookkeeping
    BY MaxAttemptsAssumption
       DEF Init, Bookkeeping, Holds, HeldStatus, SoleHolder, DueQueued, SeenMinted,
           AttemptsLeft, RunProgress, SucceededRunFinished, NoLeakWithoutFault,
           RunningJobs, Executing, Workers
  <2> QED
    BY <2>1, <2>2
<1>2. IInv /\ [Next]_vars => IInv'
  BY TypeStep, BookkeepingStep DEF IInv, Bookkeeping
<1> QED
  BY <1>1, <1>2, PTL DEF Spec

\* At most one worker at a time executes a job.
THEOREM SingleExecutorHolds == Spec => []SingleExecutor
<1>1. IInv => SingleExecutor
  BY DEF IInv, SoleHolder, Holds, SingleExecutor
<1> QED
  BY <1>1, InvariantHolds, PTL

\* A worker about to create a run row never finds the job's id taken.
THEOREM NoRunIdCollisionHolds == Spec => []NoRunIdCollision
<1>1. IInv => NoRunIdCollision
  BY DEF IInv, RunProgress, NoRunIdCollision
<1> QED
  BY <1>1, InvariantHolds, PTL

\* One attempt never meets another.
THEOREM AttemptsNeverMeetHolds == Spec => []AttemptsNeverMeet
<1>1. SingleExecutor /\ NoRunIdCollision => AttemptsNeverMeet
  BY DEF AttemptsNeverMeet
<1> QED
  BY <1>1, SingleExecutorHolds, NoRunIdCollisionHolds, PTL

\* A job that succeeded has no run row, or one that finished on its own.
THEOREM SucceededRunFinishedHolds == Spec => []SucceededRunFinished
<1>1. IInv => SucceededRunFinished
  BY DEF IInv
<1> QED
  BY <1>1, InvariantHolds, PTL

\* Without a crash or a lost transaction no job runs without a worker.
THEOREM NoLeakWithoutFaultHolds == Spec => []NoLeakWithoutFault
<1>1. IInv => NoLeakWithoutFault
  BY DEF IInv
<1> QED
  BY <1>1, InvariantHolds, PTL

----------------------------------------------------------------------------
(* What no step may do *)

\* A terminal job keeps its status or is cancelled; a finished run keeps its own.
Verdicts ==
  /\ \A j \in Jobs : status[j] \in Terminal => status'[j] \in {status[j], "cancelled"}
  /\ \A j \in Jobs : run[j] \in Finished => run'[j] = run[j]

\* Every step from a state of the invariant keeps the verdicts.
LEMMA VerdictStep == IInv /\ [Next]_vars => Verdicts
<1> SUFFICES ASSUME TypeOK, HeldStatus, RunProgress, [Next]_vars PROVE Verdicts
  BY DEF IInv
<1> USE DEF TypeOK, HeldStatus, Holds, RunProgress, Executing, Terminal, Finished,
            Verdicts
<1>1. ASSUME NEW j \in Jobs, NEW k \in Kinds, NEW m \in {1, MaxAttempts}, Enqueue(j, k, m)
      PROVE  Verdicts
  BY <1>1 DEF Enqueue, Insert
<1>2. ASSUME NEW src \in Jobs, NEW j \in Jobs, Requeue(src, j) PROVE Verdicts
  BY <1>2 DEF Requeue, Insert
<1>3. ASSUME NEW j \in Jobs, CancelRead(j) PROVE Verdicts
  BY <1>3 DEF CancelRead
<1>4. ASSUME NEW j \in Jobs, CancelWrite(j) PROVE Verdicts
  BY <1>4 DEF CancelWrite
<1>5. ASSUME NEW j \in Jobs, BackoffElapses(j) PROVE Verdicts
  BY <1>5 DEF BackoffElapses
<1>6. ASSUME NEW j \in Jobs, LeaseExpires(j) PROVE Verdicts
  BY <1>6 DEF LeaseExpires
<1>7. ASSUME NEW w \in Workers, LoseTransaction(w) PROVE Verdicts
  BY <1>7 DEF LoseTransaction, Release
<1>8. ASSUME NEW w \in Workers, LoseBestEffort(w) PROVE Verdicts
  BY <1>8 DEF LoseBestEffort, Step
<1>9. ASSUME NEW w \in Workers, NEW j \in Jobs, LoseReconcile(w, j) PROVE Verdicts
  BY <1>9 DEF LoseReconcile
<1>10. ASSUME NEW w \in Workers, Crash(w) PROVE Verdicts
  BY <1>10 DEF Crash
<1>11. ASSUME ApiCrash PROVE Verdicts
  BY <1>11 DEF ApiCrash
<1>12. ASSUME NEW w \in Workers, ClaimCommit(w) PROVE Verdicts
  BY <1>12 DEF ClaimCommit
<1>13. ASSUME NEW w \in Workers, StartRun(w) PROVE Verdicts
  BY <1>13 DEF StartRun, Step, SetRun
<1>14. ASSUME NEW w \in Workers, HandleWithoutRow(w) PROVE Verdicts
  BY <1>14 DEF HandleWithoutRow, Step
<1>15. ASSUME NEW w \in Workers, NEW s \in {"passed", "failed"}, ScriptsDone(w, s)
      PROVE  Verdicts
  BY <1>15 DEF ScriptsDone, Step, SetRun
<1>16. ASSUME NEW w \in Workers, HandlerReturns(w) PROVE Verdicts
  BY <1>16 DEF HandlerReturns, Step
<1>17. ASSUME NEW w \in Workers, NEW b \in BOOLEAN, HandlerRaises(w, b)
      PROVE  Verdicts
  BY <1>17 DEF HandlerRaises, EnterFailure
<1>18. ASSUME NEW w \in Workers, NEW b \in BOOLEAN, ScriptsRaise(w, b)
      PROVE  Verdicts
  BY <1>18 DEF ScriptsRaise, EnterFailure, SetRun
<1>19. ASSUME NEW w \in Workers, MarkSucceeded(w) PROVE Verdicts
  BY <1>19 DEF MarkSucceeded, Release
<1>20. ASSUME NEW w \in Workers, ReconcileRun(w) PROVE Verdicts
  BY <1>20 DEF ReconcileRun, Step, Interrupt
<1>21. ASSUME NEW w \in Workers, Finalize(w) PROVE Verdicts
  BY <1>21 DEF Finalize, Release
<1>22. ASSUME NEW w \in Workers, SweepRuns(w) PROVE Verdicts
  BY <1>22 DEF SweepRuns, Step, Interrupt
<1>23. ASSUME NEW w \in Workers, ReapAtStartup(w) PROVE Verdicts
  BY <1>23 DEF ReapAtStartup, Step, Reclaim, RunningJobs
<1>24. ASSUME NEW w \in Workers, NEW j \in Jobs, ReconcileReaped(w, j)
      PROVE  Verdicts
  BY <1>24 DEF ReconcileReaped, Interrupt
<1>25. ASSUME NEW w \in Workers, EndReap(w) PROVE Verdicts
  BY <1>25 DEF EndReap, Step
<1>26. ASSUME NEW w \in Workers, Restart(w) PROVE Verdicts
  BY <1>26 DEF Restart, Step
<1>27. ASSUME NEW w \in Workers, ReapStale(w) PROVE Verdicts
  BY <1>27 DEF ReapStale, Step, Reclaim, RunningJobs
<1>28. ASSUME NEW w \in Workers, NEW j \in Jobs, ClaimNext(w, j) PROVE Verdicts
  BY <1>28 DEF ClaimNext, SelectForUpdate
<1>29. ASSUME NEW w \in Workers, NEW j \in Jobs, DispatchJob(w, j) PROVE Verdicts
  BY <1>29 DEF DispatchJob, SelectForUpdate
<1>30. ASSUME UNCHANGED vars PROVE Verdicts
  BY <1>30 DEF vars
<1> HIDE DEF TypeOK, HeldStatus, RunProgress, Executing, Terminal, Finished,
             Verdicts, jobVars, apiVars, workerVars, faultVars
<1> QED
  BY <1>1, <1>2, <1>3, <1>4, <1>5, <1>6, <1>7, <1>8, <1>9, <1>10, <1>11, <1>12,
     <1>13, <1>14, <1>15, <1>16, <1>17, <1>18, <1>19, <1>20, <1>21, <1>22, <1>23,
     <1>24, <1>25, <1>26, <1>27, <1>28, <1>29, <1>30
  DEF Next, Client, Clock, Fault, Work, Handle

\* Workers and the reaper never clobber a terminal job.
THEOREM TerminalOnlyCancelledHolds == Spec => TerminalOnlyCancelled
<1>1. IInv /\ [Next]_vars =>
        [\A j \in Jobs : status[j] \in Terminal
           => status'[j] \in {status[j], "cancelled"}]_vars
  BY VerdictStep DEF Verdicts
<1> QED
  BY <1>1, InvariantHolds, PTL DEF Spec, TerminalOnlyCancelled

\* The sweeps and reconciles never overwrite a finished run.
THEOREM FinishedRunIsFinalHolds == Spec => FinishedRunIsFinal
<1>1. IInv /\ [Next]_vars =>
        [\A j \in Jobs : run[j] \in Finished => run'[j] = run[j]]_vars
  BY VerdictStep DEF Verdicts
<1> QED
  BY <1>1, InvariantHolds, PTL DEF Spec, FinishedRunIsFinal

\* What has ended stays as it ended, but for a late cancel.
THEOREM VerdictsAreFinalHolds == Spec => VerdictsAreFinal
  BY TerminalOnlyCancelledHolds, FinishedRunIsFinalHolds DEF VerdictsAreFinal

----------------------------------------------------------------------------
(* The queue implements its abstract lifecycle *)

\* Every step is a step of the lifecycle or leaves it alone.
LEMMA LifecycleStep == IInv /\ [Next]_vars => [Lifecycle!Next]_(Lifecycle!vars)
<1> SUFFICES ASSUME TypeOK, HeldStatus, SeenMinted, AttemptsLeft, [Next]_vars
             PROVE  [Lifecycle!Next]_(Lifecycle!vars)
  BY DEF IInv
<1> USE DEF Lifecycle!vars
<1>1. ASSUME NEW j \in Jobs, NEW k \in Kinds, NEW m \in {1, MaxAttempts}, Enqueue(j, k, m)
      PROVE  [Lifecycle!Next]_(Lifecycle!vars)
  <2>1. Lifecycle!Submit(j, m)
    BY <1>1 DEF Enqueue, Insert, Lifecycle!Submit
  <2> QED
    BY <2>1, MaxAttemptsAssumption DEF Lifecycle!Next
<1>2. ASSUME NEW src \in Jobs, NEW j \in Jobs, Requeue(src, j)
      PROVE  [Lifecycle!Next]_(Lifecycle!vars)
  <2>1. maxAttempts[src] \in 1 .. MaxAttempts
    BY DEF AttemptsLeft
  <2>2. Lifecycle!Submit(j, maxAttempts[src])
    BY <1>2 DEF Requeue, Insert, Lifecycle!Submit
  <2> QED
    BY <2>1, <2>2 DEF Lifecycle!Next
<1>3. ASSUME NEW j \in Jobs, CancelRead(j) PROVE [Lifecycle!Next]_(Lifecycle!vars)
  BY <1>3 DEF CancelRead
<1>4. ASSUME NEW j \in Jobs, CancelWrite(j) PROVE [Lifecycle!Next]_(Lifecycle!vars)
  <2>1. Lifecycle!Cancel(j)
    BY <1>4 DEF CancelWrite, SeenMinted, Active, Lifecycle!Cancel
  <2> QED
    BY <2>1 DEF Lifecycle!Next
<1>5. ASSUME NEW j \in Jobs, BackoffElapses(j)
      PROVE  [Lifecycle!Next]_(Lifecycle!vars)
  BY <1>5 DEF BackoffElapses, BecomeDue
<1>6. ASSUME NEW j \in Jobs, LeaseExpires(j) PROVE [Lifecycle!Next]_(Lifecycle!vars)
  BY <1>6 DEF LeaseExpires
<1>7. ASSUME NEW w \in Workers, LoseTransaction(w)
      PROVE  [Lifecycle!Next]_(Lifecycle!vars)
  BY <1>7 DEF LoseTransaction, Release
<1>8. ASSUME NEW w \in Workers, LoseBestEffort(w)
      PROVE  [Lifecycle!Next]_(Lifecycle!vars)
  BY <1>8 DEF LoseBestEffort, Step
<1>9. ASSUME NEW w \in Workers, NEW j \in Jobs, LoseReconcile(w, j)
      PROVE  [Lifecycle!Next]_(Lifecycle!vars)
  BY <1>9 DEF LoseReconcile
<1>10. ASSUME NEW w \in Workers, Crash(w) PROVE [Lifecycle!Next]_(Lifecycle!vars)
  BY <1>10 DEF Crash
<1>11. ASSUME ApiCrash PROVE [Lifecycle!Next]_(Lifecycle!vars)
  BY <1>11 DEF ApiCrash
<1>12. ASSUME NEW w \in Workers, ClaimCommit(w)
      PROVE  [Lifecycle!Next]_(Lifecycle!vars)
  <2>1. cur[w] \in Jobs /\ status[cur[w]] = "queued"
    BY <1>12 DEF ClaimCommit, HeldStatus, Holds
  <2>2. Lifecycle!Start(cur[w])
    BY <1>12, <2>1 DEF ClaimCommit, AttemptsLeft, Lifecycle!Start
  <2> QED
    BY <2>1, <2>2 DEF Lifecycle!Next
<1>13. ASSUME NEW w \in Workers, StartRun(w) PROVE [Lifecycle!Next]_(Lifecycle!vars)
  BY <1>13 DEF StartRun, Step, SetRun
<1>14. ASSUME NEW w \in Workers, HandleWithoutRow(w)
      PROVE  [Lifecycle!Next]_(Lifecycle!vars)
  BY <1>14 DEF HandleWithoutRow, Step
<1>15. ASSUME NEW w \in Workers, NEW s \in {"passed", "failed"}, ScriptsDone(w, s)
      PROVE  [Lifecycle!Next]_(Lifecycle!vars)
  BY <1>15 DEF ScriptsDone, Step, SetRun
<1>16. ASSUME NEW w \in Workers, HandlerReturns(w)
      PROVE  [Lifecycle!Next]_(Lifecycle!vars)
  BY <1>16 DEF HandlerReturns, Step
<1>17. ASSUME NEW w \in Workers, NEW b \in BOOLEAN, HandlerRaises(w, b)
      PROVE  [Lifecycle!Next]_(Lifecycle!vars)
  BY <1>17 DEF HandlerRaises, EnterFailure
<1>18. ASSUME NEW w \in Workers, NEW b \in BOOLEAN, ScriptsRaise(w, b)
      PROVE  [Lifecycle!Next]_(Lifecycle!vars)
  BY <1>18 DEF ScriptsRaise, EnterFailure, SetRun
<1>19. ASSUME NEW w \in Workers, MarkSucceeded(w)
      PROVE  [Lifecycle!Next]_(Lifecycle!vars)
  <2>1. cur[w] \in Jobs
    BY <1>19 DEF MarkSucceeded, HeldStatus, Holds, Executing
  <2>2. CASE status[cur[w]] = "running"
    <3>1. Lifecycle!Succeed(cur[w])
      BY <1>19, <2>2 DEF MarkSucceeded, Lifecycle!Succeed
    <3> QED
      BY <2>1, <3>1 DEF Lifecycle!Next
  <2>3. CASE status[cur[w]] # "running"
    BY <1>19, <2>3 DEF MarkSucceeded, TypeOK, Lifecycle!vars
  <2> QED
    BY <2>2, <2>3
<1>20. ASSUME NEW w \in Workers, ReconcileRun(w)
      PROVE  [Lifecycle!Next]_(Lifecycle!vars)
  BY <1>20 DEF ReconcileRun, Step, Interrupt
<1>21. ASSUME NEW w \in Workers, Finalize(w) PROVE [Lifecycle!Next]_(Lifecycle!vars)
  <2> DEFINE c == cur[w]
             retry == ~timedOut[w] /\ attempts[c] < maxAttempts[c]
  <2>1. c \in Jobs
    BY <1>21 DEF Finalize, HeldStatus, Holds, Executing
  <2>2. CASE status[c] # "running"
    BY <1>21, <2>2 DEF Finalize, TypeOK, Lifecycle!vars
  <2>3. CASE status[c] = "running" /\ retry
    <3>1. Lifecycle!Retry(c)
      BY <1>21, <2>3 DEF Finalize, Lifecycle!Retry
    <3> QED
      BY <2>1, <3>1 DEF Lifecycle!Next
  <2>4. CASE status[c] = "running" /\ ~retry
    <3>1. Lifecycle!Fail({c})
      BY <1>21, <2>1, <2>4 DEF Finalize, TypeOK, Lifecycle!Fail
    <3> QED
      BY <2>1, <3>1 DEF Lifecycle!Next
  <2> QED
    BY <2>2, <2>3, <2>4
<1>22. ASSUME NEW w \in Workers, SweepRuns(w)
      PROVE  [Lifecycle!Next]_(Lifecycle!vars)
  BY <1>22 DEF SweepRuns, Step, Interrupt
<1>23. ASSUME NEW w \in Workers, ReapAtStartup(w)
      PROVE  [Lifecycle!Next]_(Lifecycle!vars)
  <2> DEFINE S == RunningJobs
  <2>1. S \in SUBSET Jobs
    BY DEF RunningJobs
  <2>2. Lifecycle!Fail(S)
    BY <1>23 DEF ReapAtStartup, Reclaim, RunningJobs, Lifecycle!Fail
  <2> QED
    BY <2>1, <2>2 DEF Lifecycle!Next
<1>24. ASSUME NEW w \in Workers, NEW j \in Jobs, ReconcileReaped(w, j)
      PROVE  [Lifecycle!Next]_(Lifecycle!vars)
  BY <1>24 DEF ReconcileReaped, Interrupt
<1>25. ASSUME NEW w \in Workers, EndReap(w) PROVE [Lifecycle!Next]_(Lifecycle!vars)
  BY <1>25 DEF EndReap, Step
<1>26. ASSUME NEW w \in Workers, Restart(w) PROVE [Lifecycle!Next]_(Lifecycle!vars)
  BY <1>26 DEF Restart, Step
<1>27. ASSUME NEW w \in Workers, ReapStale(w)
      PROVE  [Lifecycle!Next]_(Lifecycle!vars)
  <2> DEFINE S == {j \in RunningJobs : lease[j] = "stale"}
  <2>1. S \in SUBSET Jobs
    BY DEF RunningJobs
  <2>2. Lifecycle!Fail(S)
    BY <1>27 DEF ReapStale, Reclaim, RunningJobs, Lifecycle!Fail
  <2> QED
    BY <2>1, <2>2 DEF Lifecycle!Next
<1>28. ASSUME NEW w \in Workers, NEW j \in Jobs, ClaimNext(w, j)
      PROVE  [Lifecycle!Next]_(Lifecycle!vars)
  BY <1>28 DEF ClaimNext, SelectForUpdate
<1>29. ASSUME NEW w \in Workers, NEW j \in Jobs, DispatchJob(w, j)
      PROVE  [Lifecycle!Next]_(Lifecycle!vars)
  BY <1>29 DEF DispatchJob, SelectForUpdate
<1>30. ASSUME UNCHANGED vars PROVE [Lifecycle!Next]_(Lifecycle!vars)
  BY <1>30 DEF vars, Lifecycle!vars
<1> HIDE DEF Lifecycle!vars, jobVars, apiVars, workerVars, faultVars
<1> QED
  BY <1>1, <1>2, <1>3, <1>4, <1>5, <1>6, <1>7, <1>8, <1>9, <1>10, <1>11, <1>12,
     <1>13, <1>14, <1>15, <1>16, <1>17, <1>18, <1>19, <1>20, <1>21, <1>22, <1>23,
     <1>24, <1>25, <1>26, <1>27, <1>28, <1>29, <1>30
  DEF Next, Client, Clock, Fault, Work, Handle

\* JobWorker implements JobLifecycle: whatever workers, leases, crashes and cancels
\* do, a caller sees a job queued, attempted within its cap, and ended once.
THEOREM ImplementsLifecycle == Spec => Implements
<1>1. Init => Lifecycle!Init
  BY DEF Init, Lifecycle!Init
<1> QED
  BY <1>1, LifecycleStep, InvariantHolds, PTL DEF Spec, Implements, Lifecycle!Spec
=============================================================================
