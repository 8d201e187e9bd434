------------------------------ MODULE ModeBRun ------------------------------
(***************************************************************************)
(* One project's autonomous runs, one after the other (modes/mode_b.py):   *)
(* crawl, select, ensure a case for each target, execute, review, report.  *)
(* A run works in one database session; what it did since the last commit  *)
(* is lost when it fails, and a failed flush leaves the session unusable   *)
(* until somebody rolls it back.                                           *)
(***************************************************************************)
EXTENDS Naturals, Sequences, FiniteSets

CONSTANTS Endpoints, Pages,  \* testable nodes; pages are found by crawling
          Order,             \* their deterministic order, a sequence of all
          MaxTargets,        \* the run's count bound
          MaxRuns            \* bound: runs of the project

VARIABLES
  pc,        \* where the run is
  brain,     \* nodes of the Brain
  crawled,   \* nodes the crawl added since the last commit
  cases,     \* nodes with a current, runnable, committed case
  layers,    \* the run's layer scope
  uncertain, \* whether the strategy's own selection was uncertain
  targets,   \* the selected targets
  ensured,   \* the targets with a script so far
  inFlight,  \* the node of the case generated but not committed, if there is one
  session,   \* "ok" or "poisoned"
  late,      \* the time budget is used up
  row,       \* the run's row
  verdict,   \* what the executed tests say: "none", "pass" or "fail"
  findings,  \* "none", "flushed" or "committed"
  job,       \* the run's job
  ended,     \* the terminal events emitted
  cause,     \* why the job failed, as a post-mortem would name it
  overrun,   \* targets ensured after the cancel
  count      \* runs so far

modeVars == <<pc, brain, crawled, cases, layers, uncertain, targets, ensured, inFlight, session,
              late, row, verdict, findings, job, ended, cause, overrun, count>>

Nodes == Endpoints \union Pages
Layers == (SUBSET {"ui", "api", "db"}) \ {{}}
LayerOf(n) == IF n \in Pages THEN "ui" ELSE "api"
FullSweep == brain
\* The nodes of S in the deterministic order.
Ordered(S) ==
  LET kept[n \in 0 .. Len(Order)] ==
        IF n = 0 THEN << >>
        ELSE IF Order[n] \in S THEN Append(kept[n - 1], Order[n]) ELSE kept[n - 1]
  IN kept[Len(Order)]

ModeBTypeOK ==
  /\ pc \in {"idle", "crawl", "select", "start", "ensure", "commit", "execute",
             "review", "score", "report", "save", "raise"}
  /\ brain \subseteq Nodes /\ crawled \subseteq brain
  /\ layers \in Layers /\ uncertain \in BOOLEAN
  /\ cases \subseteq Nodes /\ targets \in Seq(Nodes) /\ Len(targets) <= MaxTargets
  /\ Len(ensured) <= Len(targets) /\ ensured = SubSeq(targets, 1, Len(ensured))
  /\ inFlight \in SUBSET Nodes /\ Cardinality(inFlight) <= 1
  /\ session \in {"ok", "poisoned"} /\ late \in BOOLEAN
  /\ row \in {"none", "running", "passed", "failed", "errored"}
  /\ verdict \in {"none", "pass", "fail"}
  /\ findings \in {"none", "flushed", "committed"}
  /\ job \in {"none", "running", "succeeded", "failed", "cancelled"}
  /\ ended \in Seq({"passed", "failed"})
  /\ cause \in {"none", "crawl", "db_state", "generate", "execute", "save", "crash"}
  /\ overrun \in Nat /\ count \in 0 .. MaxRuns

Init ==
  /\ pc = "idle" /\ brain = Endpoints /\ crawled = {} /\ cases = {}
  /\ layers = {"ui", "api", "db"} /\ uncertain = FALSE
  /\ targets = << >> /\ ensured = << >> /\ inFlight = {}
  /\ session = "ok" /\ late = FALSE
  /\ row = "none" /\ verdict = "none" /\ findings = "none"
  /\ job = "none" /\ ended = << >> /\ cause = "none" /\ overrun = 0 /\ count = 0

\* The handler of a run job begins: its start event, then the crawl if UI is in scope.
Begin(scope) ==
  /\ pc = "idle" /\ count < MaxRuns
  /\ count' = count + 1
  /\ layers' = scope /\ pc' = IF "ui" \in scope THEN "crawl" ELSE "select"
  /\ job' = "running" /\ session' = "ok" /\ late' = FALSE
  /\ targets' = << >> /\ ensured' = << >> /\ inFlight' = {}
  /\ row' = "none" /\ verdict' = "none" /\ findings' = "none"
  /\ uncertain' = FALSE /\ ended' = << >> /\ cause' = "none" /\ overrun' = 0
  /\ crawled' = {}
  /\ UNCHANGED <<brain, cases>>

\* _run_crawl_phase catches everything, but it does not roll the session back.
Crawl(result) ==
  /\ pc = "crawl" /\ pc' = "select"
  /\ brain' = IF result = "found" THEN Nodes ELSE brain
  /\ crawled' = brain' \ brain
  /\ session' = IF result = "flush_failed" THEN "poisoned" ELSE session
  /\ cause' = IF result = "flush_failed" THEN "crawl" ELSE cause
  /\ UNCHANGED <<cases, layers, uncertain, targets, ensured, inFlight, late, row,
                 verdict, findings, job, ended, overrun, count>>

InScope(S) == {n \in S : LayerOf(n) \in layers}
Bounded(seq) == SubSeq(seq, 1, IF Len(seq) < MaxTargets THEN Len(seq) ELSE MaxTargets)

Widen(selected, unsure) == IF unsure THEN FullSweep ELSE selected

\* A strategy selects covered nodes (change impact) or sweeps everything; then the
\* layer scope and the count bound apply.
Select(selected, unsure) ==
  /\ pc = "select" /\ session = "ok" /\ pc' = "start"
  /\ uncertain' = unsure
  /\ targets' = Bounded(Ordered(InScope(Widen(selected, unsure))))
  /\ UNCHANGED <<brain, crawled, cases, layers, ensured, inFlight, session, late, row, verdict,
                 findings, job, ended, cause, overrun, count>>

\* lifecycle.start inserts the row and commits.
StartRun ==
  /\ pc = "start" /\ pc' = "ensure" /\ row' = "running" /\ crawled' = {}
  /\ UNCHANGED <<brain, cases, layers, uncertain, targets, ensured, inFlight, session,
                 late, verdict, findings, job, ended, cause, overrun, count>>

-----------------------------------------------------------------------------
(* _ensure_cases.                                                          *)

NextTarget == targets[Len(ensured) + 1]

\* Mutant: the cancel is noticed only before the first target.
StopsEnsuringMutant ==
  Len(ensured) = Len(targets) \/ late \/ (job = "cancelled" /\ ensured = << >>)
StopsEnsuring == Len(ensured) = Len(targets) \/ late \/ job = "cancelled"

EnsureDone ==
  /\ pc = "ensure" /\ StopsEnsuring /\ pc' = "execute"
  /\ UNCHANGED <<brain, crawled, cases, layers, uncertain, targets, ensured, inFlight, session,
                 late, row, verdict, findings, job, ended, cause, overrun, count>>

Reuse(n) == n \in cases

\* A generator that raises fails the run.
EnsureTarget ==
  /\ pc = "ensure" /\ ~StopsEnsuring
  /\ \/ Reuse(NextTarget) /\ inFlight' = {} /\ pc' = "commit" /\ cause' = cause
     \/ ~Reuse(NextTarget) /\ inFlight' = {NextTarget} /\ pc' = "commit" /\ cause' = cause
     \/ ~Reuse(NextTarget) /\ inFlight' = {} /\ pc' = "raise" /\ cause' = "generate"
  /\ UNCHANGED <<brain, crawled, cases, layers, uncertain, targets, ensured, session, late, row,
                 verdict, findings, job, ended, overrun, count>>

CommitTarget ==
  /\ pc = "commit" /\ pc' = "ensure"
  /\ cases' = cases \union inFlight
  /\ ensured' = Append(ensured, NextTarget) /\ inFlight' = {}
  /\ overrun' = IF job = "cancelled" THEN overrun + 1 ELSE overrun
  /\ UNCHANGED <<brain, crawled, layers, uncertain, targets, session, late, row,
                 verdict, findings, job, ended, cause, count>>

-----------------------------------------------------------------------------
(* Execution and review.                                                   *)

\* Mutant: the runner's failure is logged and the run goes on.
ExecuteFailedMutant ==
  /\ pc = "execute" /\ row' = "errored" /\ pc' = "review" /\ cause' = cause
  /\ UNCHANGED <<brain, crawled, cases, layers, uncertain, targets, ensured, inFlight, session,
                 late, verdict, findings, job, ended, overrun, count>>

\* run_scripts commits the row as errored and lets the runner's error through.
ExecuteFailed ==
  /\ pc = "execute" /\ row' = "errored" /\ pc' = "raise" /\ cause' = "execute"
  /\ UNCHANGED <<brain, crawled, cases, layers, uncertain, targets, ensured, inFlight, session,
                 late, verdict, findings, job, ended, overrun, count>>

\* It commits the results and the verdict.  No script, or no runner, is a pass.
Execute(v) ==
  /\ pc = "execute" /\ (ensured = << >> => v = "pass")
  /\ verdict' = v /\ row' = IF v = "fail" THEN "failed" ELSE "passed"
  /\ pc' = "review"
  /\ UNCHANGED <<brain, crawled, cases, layers, uncertain, targets, ensured, inFlight, session,
                 late, findings, job, ended, cause, overrun, count>>

\* Assemble, then the database-state phase when it is in scope.  Usage and triage
\* are caught in a savepoint or around a call without a statement.
Review(result) ==
  /\ pc = "review" /\ pc' = "score"
  /\ findings' = IF verdict = "fail" THEN "flushed" ELSE "none"
  /\ result = "flush_failed" => "db" \in layers
  /\ session' = IF result = "flush_failed" THEN "poisoned" ELSE session
  /\ cause' = IF result = "flush_failed" THEN "db_state" ELSE cause
  /\ UNCHANGED <<brain, crawled, cases, layers, uncertain, targets, ensured, inFlight, late, row,
                 verdict, job, ended, overrun, count>>

\* score_run, classify_run and the ranking; the terminal event; the report.
Score ==
  /\ pc = "score" /\ session = "ok" /\ pc' = "save"
  /\ ended' = Append(ended, IF row = "passed" THEN "passed" ELSE "failed")
  /\ UNCHANGED <<brain, crawled, cases, layers, uncertain, targets, ensured, inFlight, session,
                 late, row, verdict, findings, job, cause, overrun, count>>

\* A statement on a poisoned session raises.
Poisoned ==
  /\ pc \in {"select", "score"} /\ session = "poisoned" /\ pc' = "raise"
  /\ UNCHANGED <<brain, crawled, cases, layers, uncertain, targets, ensured, inFlight, session,
                 late, row, verdict, findings, job, ended, cause, overrun, count>>

\* The handler commits, and the worker marks the job unless it was cancelled.
Save ==
  /\ pc = "save" /\ pc' = "idle"
  /\ findings' = IF findings = "flushed" THEN "committed" ELSE findings
  /\ job' = IF job = "running" THEN "succeeded" ELSE job
  /\ UNCHANGED <<brain, crawled, cases, layers, uncertain, targets, ensured, inFlight, session,
                 late, row, verdict, ended, cause, overrun, count>>

SaveFailed ==
  /\ pc = "save" /\ pc' = "raise" /\ cause' = "save"
  /\ UNCHANGED <<brain, crawled, cases, layers, uncertain, targets, ensured, inFlight, session,
                 late, row, verdict, findings, job, ended, overrun, count>>

\* The worker's failure path: roll back, fail the job, tell the stream.
Raise ==
  /\ pc = "raise" /\ pc' = "idle"
  /\ findings' = "none" /\ inFlight' = {} /\ session' = "ok"
  /\ brain' = brain \ crawled /\ crawled' = {}
  /\ job' = IF job = "running" THEN "failed" ELSE job
  /\ ended' = Append(ended, "failed")
  /\ UNCHANGED <<cases, layers, uncertain, targets, ensured, late, row, verdict, cause,
                 overrun, count>>

-----------------------------------------------------------------------------
(* The environment.                                                        *)

TimeOut ==
  /\ pc \in {"ensure", "commit"} /\ ~late /\ late' = TRUE
  /\ UNCHANGED <<pc, brain, crawled, cases, layers, uncertain, targets, ensured, inFlight,
                 session, row, verdict, findings, job, ended, cause, overrun, count>>

Cancel ==
  /\ job = "running" /\ job' = "cancelled"
  /\ UNCHANGED <<pc, brain, crawled, cases, layers, uncertain, targets, ensured, inFlight,
                 session, late, row, verdict, findings, ended, cause, overrun, count>>

\* The process dies; the next start's sweep fails the job (JobWorker).
Crash ==
  /\ pc \notin {"idle", "raise"} /\ pc' = "idle"
  /\ findings' = "none" /\ inFlight' = {}
  /\ brain' = brain \ crawled /\ crawled' = {}
  /\ job' = IF job = "running" THEN "failed" ELSE job
  /\ cause' = "crash"
  /\ UNCHANGED <<cases, layers, uncertain, targets, ensured, session, late, row, verdict,
                 ended, overrun, count>>

Next ==
  \/ \E scope \in Layers : Begin(scope)
  \/ \E result \in {"found", "failed", "flush_failed"} : Crawl(result)
  \/ Select(FullSweep, FALSE)
  \/ \E covered \in SUBSET cases, unsure \in BOOLEAN : Select(covered, unsure)
  \/ StartRun
  \/ EnsureDone \/ EnsureTarget \/ CommitTarget
  \/ ExecuteFailed \/ \E v \in {"pass", "fail"} : Execute(v)
  \/ \E result \in {"done", "failed", "flush_failed"} : Review(result)
  \/ Score \/ Poisoned \/ Save \/ SaveFailed \/ Raise
  \/ TimeOut \/ Cancel \/ Crash

Spec == Init /\ [][Next]_modeVars

-----------------------------------------------------------------------------
(* What a run promises.                                                    *)

(***************************************************************************)
(* A run never tests a narrowed set when its scope is uncertain: it drives *)
(* the full sweep, within its layers and its bound.                        *)
(***************************************************************************)
WidensWhenUncertain ==
  pc = "start" /\ uncertain => targets = Bounded(Ordered(InScope(FullSweep)))

(***************************************************************************)
(* Whatever happens next (a crash, a failure, a cancel), the case of every *)
(* target ensured so far is there for the next run to reuse: at most the   *)
(* target in flight is lost.                                               *)
(***************************************************************************)
DurableProgress == \A i \in DOMAIN ensured : ensured[i] \in cases

\* A node that has a case keeps it: no run generates another (never clobber).
NeverRegenerates == inFlight \intersect cases = {}

\* Generation is paid for once.
ProgressIsKept == DurableProgress /\ NeverRegenerates

\* A cancelled run finishes at most the target it was at.
CancelFreesWorker == overrun <= 1

(***************************************************************************)
(* A job that succeeded stands for a whole run: a verdict in its row that  *)
(* its tests gave, its findings stored, and one terminal event that says   *)
(* the same.                                                               *)
(***************************************************************************)
SucceededIsWhole ==
  pc = "idle" /\ job = "succeeded" =>
    /\ row = IF verdict = "fail" THEN "failed" ELSE "passed"
    /\ verdict = "fail" <=> findings = "committed"
    /\ ended = <<row>>

\* What a run reports is what it did, and what it did is kept.
RunIsHonest == WidensWhenUncertain /\ SucceededIsWhole /\ ProgressIsKept
=============================================================================
