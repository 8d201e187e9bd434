----------------------------- MODULE JobWorker ------------------------------
(***************************************************************************)
(* The durable job queue and the workers that drain it (ADR-0034, -0036,   *)
(* -0067): services/job_queue.py over the jobs table, services/            *)
(* job_worker.py, the run row a RUN job writes (execution/lifecycle.py and *)
(* repositories/run_repository.py), the API's in-process dispatch hint     *)
(* (api/jobs.py) and its cancel endpoints.                                 *)
(*                                                                         *)
(* One action is one committed transaction, or the span of a worker's code *)
(* between two of them.  The claim alone is split in two, because it holds *)
(* a row lock from SELECT ... FOR UPDATE SKIP LOCKED to COMMIT; and a      *)
(* cancel is split because the endpoint reads the job before it locks it.  *)
(* A job id is also the id of its run row (ADR-0036).                      *)
(***************************************************************************)
EXTENDS Naturals, FiniteSets

CONSTANTS
  Jobs,           \* job ids
  Pollers,        \* processes in JobWorker.run_forever
  Dispatchers,    \* concurrent background tasks of the API process
  Handlers,       \* the job kinds each poller has a handler for
  DispatchKinds,  \* the job kinds the API process can execute itself
  MaxAttempts,    \* max_attempts of a job that opts in to retries
  MaxCrashes,     \* bound: process deaths
  MaxDbLosses,    \* bound: transactions of a worker lost to the database
  NoJob           \* no job in hand

Kinds == {"run", "ingest"}
Workers == Pollers \cup Dispatchers

ASSUME MaxAttemptsAssumption == MaxAttempts \in Nat \ {0}
ASSUME BoundsAssumption == MaxCrashes \in Nat /\ MaxDbLosses \in Nat
ASSUME WorkersAssumption == Pollers \cap Dispatchers = {}
ASSUME NoJobAssumption == NoJob \notin Jobs
ASSUME HandlersAssumption ==
  Handlers \in [Pollers -> SUBSET Kinds] /\ DispatchKinds \in SUBSET Kinds

VARIABLES
  \* the jobs table
  status, kind, attempts, maxAttempts,
  lease,        \* age of locked_at: "none", "fresh", or "stale" past the watchdog
  due,          \* the queued jobs whose available_at has passed
  ahead,        \* ahead[j]: the due jobs whose available_at is before j's
  run,          \* runs.status of the row with the job's id, "none" before it exists
  \* the API process
  hint,         \* dispatch_job tasks not yet started
  cancelSeen,   \* the status a cancel request in flight has read, or "none"
  \* each worker process
  pc,           \* what it does next
  cur,          \* the job it claimed
  timedOut,     \* the failure in hand is the watchdog's: terminal, no retry
  reaped,       \* RUN jobs it reclaimed and has not reconciled yet
  crashes, losses

jobVars == <<status, kind, attempts, maxAttempts, lease, due, ahead>>
apiVars == <<hint, cancelSeen>>
workerVars == <<pc, cur, timedOut, reaped>>
faultVars == <<crashes, losses>>
vars == <<jobVars, run, apiVars, workerVars, faultVars>>

Active == {"queued", "running"}
Terminal == {"succeeded", "failed", "cancelled"}
JobStatus == {"none"} \cup Active \cup Terminal
Finished == {"passed", "failed", "errored"}
RunStatus == {"none", "running", "interrupted"} \cup Finished

\* A worker inside JobWorker._run, on behalf of the job it claimed.
Executing == {"handle", "generate", "report", "succeed", "fail", "finalize"}
PC == {"down", "sweepRuns", "sweepJobs", "reconcile", "idle", "claim"}
        \cup Executing

TypeOK ==
  /\ status \in [Jobs -> JobStatus]
  /\ kind \in [Jobs -> Kinds]
  /\ attempts \in [Jobs -> Nat]
  /\ maxAttempts \in [Jobs -> Nat]
  /\ lease \in [Jobs -> {"none", "fresh", "stale"}]
  /\ due \in SUBSET Jobs
  /\ ahead \in [Jobs -> SUBSET Jobs]
  /\ run \in [Jobs -> RunStatus]
  /\ hint \in SUBSET Jobs
  /\ cancelSeen \in [Jobs -> {"none"} \cup Active]
  /\ pc \in [Workers -> PC]
  /\ cur \in [Workers -> Jobs \cup {NoJob}]
  /\ timedOut \in [Workers -> BOOLEAN]
  /\ reaped \in [Workers -> SUBSET Jobs]
  /\ crashes \in Nat
  /\ losses \in Nat

Init ==
  /\ status = [j \in Jobs |-> "none"]
  /\ kind = [j \in Jobs |-> "ingest"]
  /\ attempts = [j \in Jobs |-> 0]
  /\ maxAttempts = [j \in Jobs |-> 1]
  /\ lease = [j \in Jobs |-> "none"]
  /\ due = {}
  /\ ahead = [j \in Jobs |-> {}]
  /\ run = [j \in Jobs |-> "none"]
  /\ hint = {}
  /\ cancelSeen = [j \in Jobs |-> "none"]
  /\ pc = [w \in Workers |-> IF w \in Pollers THEN "down" ELSE "idle"]
  /\ cur = [w \in Workers |-> NoJob]
  /\ timedOut = [w \in Workers |-> FALSE]
  /\ reaped = [w \in Workers |-> {}]
  /\ crashes = 0
  /\ losses = 0

----------------------------------------------------------------------------
(* The jobs table *)

\* available_at passes: j is now the youngest of the due jobs.
BecomeDue(j) ==
  /\ due' = due \cup {j}
  /\ ahead' = [ahead EXCEPT ![j] = due]

\* j is no longer queued.
LeaveQueue(j) ==
  /\ due' = due \ {j}
  /\ ahead' = [i \in Jobs |-> ahead[i] \ {j}]

\* Mutant: the claim selects without FOR UPDATE.
LockedMutant(j) == FALSE

\* Some claim transaction holds j's row lock.
Locked(j) == \E w \in Workers : pc[w] = "claim" /\ cur[w] = j

\* JobQueue.enqueue, and the commit that makes the row visible.
Insert(j, k, m) ==
  /\ status[j] = "none"
  /\ status' = [status EXCEPT ![j] = "queued"]
  /\ kind' = [kind EXCEPT ![j] = k]
  /\ maxAttempts' = [maxAttempts EXCEPT ![j] = m]
  /\ BecomeDue(j)
  /\ UNCHANGED <<attempts, lease, run, cancelSeen, workerVars, faultVars>>

\* A new run (single attempt: it is not idempotent) or ingest job, dispatched in
\* process when the API carries the executor for it.
Enqueue(j, k, m) ==
  /\ k = "run" => m = 1
  /\ Insert(j, k, m)
  /\ hint' = IF k \in DispatchKinds THEN hint \cup {j} ELSE hint

\* JobQueue.requeue: a fresh job id clones a failed or cancelled one; no hint.
Requeue(src, j) ==
  /\ status[src] \in {"failed", "cancelled"}
  /\ Insert(j, kind[src], maxAttempts[src])
  /\ UNCHANGED hint

\* Mutant: cancel accepts a job in any status.
CancelReadMutant(j) ==
  /\ cancelSeen[j] = "none"
  /\ cancelSeen' = [cancelSeen EXCEPT ![j] = status[j]]
  /\ UNCHANGED <<jobVars, run, hint, workerVars, faultVars>>

\* The cancel endpoint loads the job into its session.  A terminal one is left
\* alone; an active one is remembered with the status it had.
CancelRead(j) ==
  /\ status[j] \in Active
  /\ cancelSeen[j] = "none"
  /\ cancelSeen' = [cancelSeen EXCEPT ![j] = status[j]]
  /\ UNCHANGED <<jobVars, run, hint, workerVars, faultVars>>

\* JobQueue.cancel waits for the row lock, then tests the status of the instance
\* the session already holds: SELECT ... FOR UPDATE does not refresh a loaded
\* object, and nothing has expired it.  _release writes the lease columns only
\* when the loaded copy had a lease.
CancelWrite(j) ==
  /\ cancelSeen[j] \in Active
  /\ ~Locked(j)
  /\ status' = [status EXCEPT ![j] = "cancelled"]
  /\ lease' = [lease EXCEPT ![j] = IF cancelSeen[j] = "running" THEN "none" ELSE @]
  /\ LeaveQueue(j)
  /\ cancelSeen' = [cancelSeen EXCEPT ![j] = "none"]
  /\ UNCHANGED <<kind, attempts, maxAttempts, run, hint, workerVars, faultVars>>

\* The backoff of a retried job runs out.
BackoffElapses(j) ==
  /\ status[j] = "queued"
  /\ j \notin due
  /\ BecomeDue(j)
  /\ UNCHANGED <<status, kind, attempts, maxAttempts, lease, run, apiVars,
                 workerVars, faultVars>>

\* locked_at falls behind the watchdog bound.
LeaseExpires(j) ==
  /\ status[j] = "running"
  /\ lease[j] = "fresh"
  /\ lease' = [lease EXCEPT ![j] = "stale"]
  /\ UNCHANGED <<status, kind, attempts, maxAttempts, due, ahead, run, apiVars,
                 workerVars, faultVars>>

----------------------------------------------------------------------------
(* Claiming *)

\* w selects j FOR UPDATE and holds its row lock until it commits.
SelectForUpdate(w, j) ==
  /\ pc[w] = "idle"
  /\ j \in due
  /\ ~Locked(j)
  /\ pc' = [pc EXCEPT ![w] = "claim"]
  /\ cur' = [cur EXCEPT ![w] = j]
  /\ UNCHANGED <<jobVars, run, cancelSeen, timedOut, reaped, faultVars>>

\* JobQueue.claim_next: the oldest due job, skipping rows locked by others.
ClaimNext(w, j) ==
  /\ w \in Pollers
  /\ \A i \in ahead[j] : Locked(i)
  /\ SelectForUpdate(w, j)
  /\ UNCHANGED hint

\* JobWorker.process_job: the hinted job, or nothing if it is not claimable.
DispatchJob(w, j) ==
  /\ w \in Dispatchers
  /\ pc[w] = "idle"
  /\ j \in hint
  /\ hint' = hint \ {j}
  /\ \/ SelectForUpdate(w, j)
     \/ /\ j \notin due \/ Locked(j)
        /\ UNCHANGED <<jobVars, run, cancelSeen, workerVars, faultVars>>

HasHandler(w, k) == w \in Dispatchers \/ k \in Handlers[w]

\* JobQueue._take and the commit.  A kind without a handler goes straight to
\* _finalize_failure.
ClaimCommit(w) ==
  LET j == cur[w] IN
  /\ pc[w] = "claim"
  /\ status' = [status EXCEPT ![j] = "running"]
  /\ attempts' = [attempts EXCEPT ![j] = @ + 1]
  /\ lease' = [lease EXCEPT ![j] = "fresh"]
  /\ LeaveQueue(j)
  /\ pc' = [pc EXCEPT ![w] = IF HasHandler(w, kind[j]) THEN "handle" ELSE "finalize"]
  /\ UNCHANGED <<kind, maxAttempts, run, apiVars, cur, timedOut, reaped, faultVars>>

----------------------------------------------------------------------------
(* Executing the claimed job: JobWorker._run *)

Step(w, from, to) == pc[w] = from /\ pc' = [pc EXCEPT ![w] = to]

SetRun(j, s) == run' = [run EXCEPT ![j] = s]

\* The worker is done with its job.
Release(w) ==
  /\ pc' = [pc EXCEPT ![w] = "idle"]
  /\ cur' = [cur EXCEPT ![w] = NoJob]
  /\ timedOut' = [timedOut EXCEPT ![w] = FALSE]

\* RunLifecycle.start: the run row is committed before any generation, under the
\* job's id; an id already taken makes the insert raise (HandlerRaises).
StartRun(w) ==
  /\ Step(w, "handle", "generate")
  /\ kind[cur[w]] = "run"
  /\ run[cur[w]] = "none"
  /\ SetRun(cur[w], "running")
  /\ UNCHANGED <<jobVars, apiVars, cur, timedOut, reaped, faultVars>>

\* An ingest handler, or a run that only authors cases: no run row.
HandleWithoutRow(w) ==
  /\ Step(w, "handle", "report")
  /\ UNCHANGED <<jobVars, run, apiVars, cur, timedOut, reaped, faultVars>>

\* RunLifecycle.run_scripts: results and final status, written whatever the row
\* says by then.
ScriptsDone(w, s) ==
  /\ Step(w, "generate", "report")
  /\ SetRun(cur[w], s)
  /\ UNCHANGED <<jobVars, apiVars, cur, timedOut, reaped, faultVars>>

\* Reporting is complete: the handler returns and its session commits.
HandlerReturns(w) ==
  /\ Step(w, "report", "succeed")
  /\ UNCHANGED <<jobVars, run, apiVars, cur, timedOut, reaped, faultVars>>

\* The watchdog can only fire once the lease has outlived it; a job that lost
\* its lease gives no bound on its worker's clock.
MayTimeOut(w) == lease[cur[w]] # "fresh"

\* _on_job_failure begins: the run row is reconciled first, for a RUN job.
EnterFailure(w, byWatchdog) ==
  /\ byWatchdog => MayTimeOut(w)
  /\ pc' = [pc EXCEPT ![w] = IF kind[cur[w]] = "run" THEN "fail" ELSE "finalize"]
  /\ timedOut' = [timedOut EXCEPT ![w] = byWatchdog]

\* Mutant: a watchdog timeout returns without finalizing the job.
HandlerRaisesMutant(w, byWatchdog) ==
  /\ pc[w] \in {"handle", "generate", "report"}
  /\ IF byWatchdog THEN MayTimeOut(w) /\ Release(w)
                   ELSE EnterFailure(w, FALSE) /\ UNCHANGED cur
  /\ UNCHANGED <<jobVars, run, apiVars, reaped, faultVars>>

\* The handler raises, or the watchdog cancels it, and the run row is not touched.
HandlerRaises(w, byWatchdog) ==
  /\ pc[w] \in {"handle", "generate", "report"}
  /\ EnterFailure(w, byWatchdog)
  /\ UNCHANGED <<jobVars, run, apiVars, cur, reaped, faultVars>>

\* Mutant: the finally block of run_scripts swallows the exception.
ScriptsRaiseMutant(w, byWatchdog) ==
  /\ Step(w, "generate", "report")
  /\ SetRun(cur[w], "errored")
  /\ UNCHANGED <<jobVars, apiVars, cur, timedOut, reaped, faultVars>>

\* run_scripts raises, or is cancelled: its finally block records "errored".
ScriptsRaise(w, byWatchdog) ==
  /\ pc[w] = "generate"
  /\ SetRun(cur[w], "errored")
  /\ EnterFailure(w, byWatchdog)
  /\ UNCHANGED <<jobVars, apiVars, cur, reaped, faultVars>>

\* Mutant: mark_succeeded does not compare before it sets.
MarkSucceededMutant(w) ==
  /\ pc[w] = "succeed"
  /\ status' = [status EXCEPT ![cur[w]] = "succeeded"]
  /\ lease' = [lease EXCEPT ![cur[w]] = "none"]
  /\ Release(w)
  /\ UNCHANGED <<kind, attempts, maxAttempts, due, ahead, run, apiVars, reaped,
                 faultVars>>

\* JobQueue.mark_succeeded: compare-and-set against running.
MarkSucceeded(w) ==
  LET j == cur[w]
      holds == status[j] = "running" IN
  /\ pc[w] = "succeed"
  /\ status' = [status EXCEPT ![j] = IF holds THEN "succeeded" ELSE @]
  /\ lease' = [lease EXCEPT ![j] = IF holds THEN "none" ELSE @]
  /\ Release(w)
  /\ UNCHANGED <<kind, attempts, maxAttempts, due, ahead, run, apiVars, reaped,
                 faultVars>>

\* RunRepository.mark_interrupted: compare-and-set against running.
Interrupt(S) ==
  run' = [j \in Jobs |-> IF j \in S /\ run[j] = "running" THEN "interrupted"
                                                          ELSE run[j]]

\* Mutant: a failed job leaves its run row to the next startup sweep.
ReconcileRunMutant(w) ==
  /\ Step(w, "fail", "finalize")
  /\ UNCHANGED <<jobVars, run, apiVars, cur, timedOut, reaped, faultVars>>

\* JobWorker._reconcile_run for the job that just failed.
ReconcileRun(w) ==
  /\ Step(w, "fail", "finalize")
  /\ Interrupt({cur[w]})
  /\ UNCHANGED <<jobVars, apiVars, cur, timedOut, reaped, faultVars>>

\* Mutant: the cap is compared with <=.
FinalizeMutant(w) ==
  LET j == cur[w]
      holds == status[j] = "running"
      retry == ~timedOut[w] /\ attempts[j] <= maxAttempts[j] IN
  /\ pc[w] = "finalize"
  /\ status' = [status EXCEPT ![j] =
                  IF ~holds THEN @ ELSE IF retry THEN "queued" ELSE "failed"]
  /\ lease' = [lease EXCEPT ![j] = IF holds THEN "none" ELSE @]
  /\ Release(w)
  /\ UNCHANGED <<kind, attempts, maxAttempts, due, ahead, run, apiVars, reaped,
                 faultVars>>

\* JobQueue.mark_failed_or_retry: compare-and-set against running; back to the
\* queue with a backoff while attempts remain, unless the watchdog ended it.
Finalize(w) ==
  LET j == cur[w]
      holds == status[j] = "running"
      retry == ~timedOut[w] /\ attempts[j] < maxAttempts[j] IN
  /\ pc[w] = "finalize"
  /\ status' = [status EXCEPT ![j] =
                  IF ~holds THEN @ ELSE IF retry THEN "queued" ELSE "failed"]
  /\ lease' = [lease EXCEPT ![j] = IF holds THEN "none" ELSE @]
  /\ Release(w)
  /\ UNCHANGED <<kind, attempts, maxAttempts, due, ahead, run, apiVars, reaped,
                 faultVars>>

----------------------------------------------------------------------------
(* Startup and the reaper: JobWorker.run_forever *)

Restart(w) ==
  /\ w \in Pollers
  /\ Step(w, "down", "sweepRuns")
  /\ UNCHANGED <<jobVars, run, apiVars, cur, timedOut, reaped, faultVars>>

\* _reconcile_orphan_runs: every running run row, whoever is executing it.
SweepRuns(w) ==
  /\ Step(w, "sweepRuns", "sweepJobs")
  /\ Interrupt(Jobs)
  /\ UNCHANGED <<jobVars, apiVars, cur, timedOut, reaped, faultVars>>

\* JobQueue.reclaim_stale_running fails the running jobs in S for good.
Reclaim(w, S) ==
  /\ status' = [j \in Jobs |-> IF j \in S THEN "failed" ELSE status[j]]
  /\ lease' = [j \in Jobs |-> IF j \in S THEN "none" ELSE lease[j]]
  /\ reaped' = [reaped EXCEPT ![w] = {j \in S : kind[j] = "run"}]
  /\ UNCHANGED <<kind, attempts, maxAttempts, due, ahead, run, apiVars, cur,
                 timedOut, faultVars>>

RunningJobs == {j \in Jobs : status[j] = "running"}

\* At startup (older_than_seconds = 0) every running job is taken for an orphan.
ReapAtStartup(w) ==
  /\ Step(w, "sweepJobs", "reconcile")
  /\ Reclaim(w, RunningJobs)

\* Mutant: the age comparison is inverted.
ReapStaleMutant(w) ==
  LET young == {j \in RunningJobs : lease[j] = "fresh"} IN
  /\ w \in Pollers
  /\ Step(w, "idle", "reconcile")
  /\ young # {}
  /\ Reclaim(w, young)

\* In the loop, only those whose lease outlived the watchdog bound.
ReapStale(w) ==
  LET stale == {j \in RunningJobs : lease[j] = "stale"} IN
  /\ w \in Pollers
  /\ Step(w, "idle", "reconcile")
  /\ stale # {}
  /\ Reclaim(w, stale)

\* _reconcile_run for each reclaimed RUN job, a transaction each.
ReconcileReaped(w, j) ==
  /\ pc[w] = "reconcile"
  /\ j \in reaped[w]
  /\ Interrupt({j})
  /\ reaped' = [reaped EXCEPT ![w] = @ \ {j}]
  /\ UNCHANGED <<jobVars, apiVars, pc, cur, timedOut, faultVars>>

EndReap(w) ==
  /\ Step(w, "reconcile", "idle")
  /\ reaped[w] = {}
  /\ UNCHANGED <<jobVars, run, apiVars, cur, timedOut, reaped, faultVars>>

----------------------------------------------------------------------------
(* Faults *)

\* A claim or a finalization fails: the exception reaches the poll loop, or ends
\* the dispatch task, and the job stays as it is.
LoseTransaction(w) ==
  /\ losses < MaxDbLosses
  /\ pc[w] \in {"claim", "succeed", "finalize"}
  /\ Release(w)
  /\ losses' = losses + 1
  /\ UNCHANGED <<jobVars, run, apiVars, reaped, crashes>>

\* A reconcile or a startup sweep fails: best-effort, the worker goes on.
LoseBestEffort(w) ==
  /\ losses < MaxDbLosses
  /\ \/ Step(w, "fail", "finalize")
     \/ Step(w, "sweepRuns", "sweepJobs")
     \/ Step(w, "sweepJobs", "idle")
  /\ losses' = losses + 1
  /\ UNCHANGED <<jobVars, run, apiVars, cur, timedOut, reaped, crashes>>

\* The reconcile of one reaped run is lost; the others are still made.
LoseReconcile(w, j) ==
  /\ losses < MaxDbLosses
  /\ pc[w] = "reconcile"
  /\ j \in reaped[w]
  /\ reaped' = [reaped EXCEPT ![w] = @ \ {j}]
  /\ losses' = losses + 1
  /\ UNCHANGED <<jobVars, run, apiVars, pc, cur, timedOut, crashes>>

\* A worker process dies (or is stopped mid-job); an open transaction rolls back.
Crash(w) ==
  /\ w \in Pollers
  /\ crashes < MaxCrashes
  /\ pc[w] # "down"
  /\ pc' = [pc EXCEPT ![w] = "down"]
  /\ cur' = [cur EXCEPT ![w] = NoJob]
  /\ timedOut' = [timedOut EXCEPT ![w] = FALSE]
  /\ reaped' = [reaped EXCEPT ![w] = {}]
  /\ crashes' = crashes + 1
  /\ UNCHANGED <<jobVars, run, apiVars, losses>>

\* The API process dies: its background tasks, dispatch hints and requests go.
ApiCrash ==
  /\ crashes < MaxCrashes
  /\ pc' = [w \in Workers |-> IF w \in Dispatchers THEN "idle" ELSE pc[w]]
  /\ cur' = [w \in Workers |-> IF w \in Dispatchers THEN NoJob ELSE cur[w]]
  /\ timedOut' = [w \in Workers |-> timedOut[w] /\ w \notin Dispatchers]
  /\ hint' = {}
  /\ cancelSeen' = [j \in Jobs |-> "none"]
  /\ crashes' = crashes + 1
  /\ UNCHANGED <<jobVars, run, reaped, losses>>

----------------------------------------------------------------------------
Handle(w) ==
  \/ StartRun(w)
  \/ HandleWithoutRow(w)
  \/ \E s \in {"passed", "failed"} : ScriptsDone(w, s)
  \/ HandlerReturns(w)
  \/ \E byWatchdog \in BOOLEAN :
       HandlerRaises(w, byWatchdog) \/ ScriptsRaise(w, byWatchdog)

Work(w) ==
  \/ ClaimCommit(w)
  \/ Handle(w)
  \/ MarkSucceeded(w)
  \/ ReconcileRun(w)
  \/ Finalize(w)
  \/ SweepRuns(w)
  \/ ReapAtStartup(w)
  \/ \E j \in Jobs : ReconcileReaped(w, j)
  \/ EndReap(w)

Client ==
  \E j \in Jobs :
    \/ \E k \in Kinds, m \in {1, MaxAttempts} : Enqueue(j, k, m)
    \/ \E src \in Jobs : Requeue(src, j)
    \/ CancelRead(j)
    \/ CancelWrite(j)

Clock == \E j \in Jobs : BackoffElapses(j) \/ LeaseExpires(j)

Fault ==
  \/ \E w \in Workers :
       \/ LoseTransaction(w)
       \/ LoseBestEffort(w)
       \/ \E j \in Jobs : LoseReconcile(w, j)
       \/ Crash(w)
  \/ ApiCrash

Next ==
  \/ Client
  \/ Clock
  \/ Fault
  \/ \E w \in Workers :
       \/ Work(w)
       \/ Restart(w)
       \/ ReapStale(w)
       \/ \E j \in Jobs : ClaimNext(w, j) \/ DispatchJob(w, j)

Spec == Init /\ [][Next]_vars

----------------------------------------------------------------------------
(* Properties *)

\* At most one worker at a time executes a job, across claims, retries, crashes
\* and the reaper: SKIP LOCKED, the commit of the claim and the terminal reclaim.
SingleExecutor ==
  \A v, w \in Workers :
    pc[v] \in Executing /\ pc[w] \in Executing /\ cur[v] = cur[w] => v = w

\* A worker about to create a run row never finds the job's id taken: RUN jobs
\* get a single attempt and requeue mints a fresh id (ADR-0036, -0067).
NoRunIdCollision ==
  \A w \in Workers :
    pc[w] = "handle" /\ kind[cur[w]] = "run" => run[cur[w]] = "none"

\* One attempt never meets another, in a worker or in the database.
AttemptsNeverMeet == SingleExecutor /\ NoRunIdCollision

\* A job that succeeded with a run row has a run that finished on its own: never
\* one still running, interrupted by a sweep, or errored.
SucceededRunFinished ==
  \A j \in Jobs :
    status[j] = "succeeded" => run[j] \in {"none", "passed", "failed"}

\* As long as nothing crashes and no transaction is lost, a running job is in the
\* hands of a worker: every path through _run ends in a finalization.
NoLeakWithoutFault ==
  crashes = 0 /\ losses = 0 =>
    \A j \in RunningJobs : \E w \in Workers : pc[w] \in Executing /\ cur[w] = j

\* Workers and the reaper never clobber a terminal job: the one status a terminal
\* job can still take is cancelled, and nothing leaves that.
TerminalOnlyCancelled ==
  [][\A j \in Jobs : status[j] \in Terminal => status'[j] \in {status[j], "cancelled"}]_vars

\* A run that finished keeps its verdict: the sweeps and reconciles are
\* compare-and-set on running (run_repository.mark_interrupted).
FinishedRunIsFinal ==
  [][\A j \in Jobs : run[j] \in Finished => run'[j] = run[j]]_vars

\* What has ended stays as it ended, but for a late cancel.
VerdictsAreFinal == TerminalOnlyCancelled /\ FinishedRunIsFinal

\* What cancel_run's docstring promises of a cancel that races the end of a run:
\* "Already-finished runs are unchanged".
TerminalIsFinal ==
  [][\A j \in Jobs : status[j] \in Terminal => status'[j] = status[j]]_vars

\* The queue as its callers see it.
Lifecycle == INSTANCE JobLifecycle WITH
  status <- status, attempts <- attempts, maxAttempts <- maxAttempts
Implements == Lifecycle!Spec

----------------------------------------------------------------------------
(* The inductive invariant behind the safety properties *)

\* A worker with a job in hand, by row lock or by lease.
Holds(w) == pc[w] = "claim" \/ pc[w] \in Executing

\* A claim locks a queued job; an executed job is out of the queue with an attempt
\* used, and only the worker that executes it makes it succeed.
HeldStatus ==
  \A w \in Workers :
    /\ Holds(w) => cur[w] \in Jobs
    /\ pc[w] = "claim" => status[cur[w]] = "queued"
    /\ pc[w] \in Executing =>
         /\ status[cur[w]] \in {"running", "failed", "cancelled"}
         /\ attempts[cur[w]] > 0

\* Nobody else holds the job a worker holds.
SoleHolder == \A v, w \in Workers : Holds(v) /\ Holds(w) /\ cur[v] = cur[w] => v = w

DueQueued == \A j \in due : status[j] = "queued"

\* A cancel request is about a job that exists.
SeenMinted == \A j \in Jobs : cancelSeen[j] # "none" => status[j] # "none"

\* A queued job has an attempt left, a RUN job has one in all, and a run row means
\* that it was used.
AttemptsLeft ==
  \A j \in Jobs :
    /\ maxAttempts[j] \in 1 .. MaxAttempts
    /\ status[j] = "none" => attempts[j] = 0
    /\ status[j] = "queued" => attempts[j] < maxAttempts[j]
    /\ kind[j] = "run" /\ status[j] # "none" => maxAttempts[j] = 1
    /\ run[j] # "none" => kind[j] = "run" /\ attempts[j] > 0

\* How far the run row has come at each point of its job's handler.
RunProgress ==
  \A w \in Workers :
    /\ pc[w] = "handle" => run[cur[w]] = "none"
    /\ pc[w] = "generate" => run[cur[w]] \in {"running", "interrupted"}
    /\ pc[w] \in {"report", "succeed"} => run[cur[w]] \in {"none", "passed", "failed"}

IInv ==
  /\ TypeOK
  /\ HeldStatus
  /\ SoleHolder
  /\ DueQueued
  /\ SeenMinted
  /\ AttemptsLeft
  /\ RunProgress
  /\ SucceededRunFinished
  /\ NoLeakWithoutFault

----------------------------------------------------------------------------
(* Liveness *)

\* A live process keeps taking steps, the supervisor restarts a dead one, time
\* passes, and a request in flight is served.
Fairness ==
  /\ \A w \in Workers :
       /\ WF_vars(Work(w))
       /\ WF_vars(Restart(w))
       /\ WF_vars(ReapStale(w))
       /\ WF_vars(\E j \in Jobs : ClaimNext(w, j))
       /\ WF_vars(\E j \in Jobs : DispatchJob(w, j))
  /\ \A j \in Jobs :
       /\ WF_vars(BackoffElapses(j))
       /\ WF_vars(LeaseExpires(j))
       /\ WF_vars(CancelWrite(j))

FairSpec == Spec /\ Fairness

\* Every job ends, through crashes, lost dispatch hints, leaked leases and
\* retries: no perpetual "ongoing run" (ADR-0067).
JobsSettle == \A j \in Jobs : status[j] \in Active ~> status[j] \in Terminal

\* Every run row leaves running, so a crashed run is reconciled to interrupted.
RunsSettle == \A j \in Jobs : []<>(run[j] # "running")
=============================================================================
