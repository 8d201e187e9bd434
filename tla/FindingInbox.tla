---------------------------- MODULE FindingInbox ----------------------------
(***************************************************************************)
(* The findings of a project's runs (reporting/): how a run's failures are *)
(* grouped and classified against the runs before it, and what the inbox   *)
(* shows of them after triage and healing.                                 *)
(*                                                                         *)
(* A run commits its results and its verdict first (run_scripts) and its   *)
(* findings later (the handler), so it can end between the two.            *)
(***************************************************************************)
EXTENDS Naturals, Sequences, FiniteSets

CONSTANTS Cases,
          Node,         \* where on the stack each case fails: its anchor
          Outcomes,     \* what the application may make a case do, see Failing
          MaxRuns,      \* bound on the number of runs
          RunsAtOnce,   \* bound on the runs that overlap
          Window        \* the runs a classification looks back at (10 in the code)

VARIABLES runs,    \* the runs by creation
          triage,  \* the dispositions of the issues, by root cause
          healed   \* the run whose failure of the case has a confirmed heal, or 0

inboxVars == <<runs, triage, healed>>

\* Outcomes a case may have; "none" is a case out of the run's scope, "drifted"
\* and "wrong" are FAIL with a message of the location and the assertion class.
Failing == {"drifted", "wrong", "error"}
NoResults == [c \in Cases |-> "none"]

\* The root cause of a failure: the anchor and the failure's signature.
RootCauseKey(c, o) == <<Node[c], IF o = "error" THEN "error" ELSE "fail">>
Keys == {<<Node[c], s>> : c \in Cases, s \in {"error", "fail"}}
Dispositions == {"open", "resolved"}
Muted == {"resolved"}

Verdicts == {"passed", "failed", "errored", "interrupted"}
History == {"new", "known", "regression", "flaky"}
Findings == [key : Keys, rep : Cases, members : SUBSET Cases, status : History]

InboxTypeOK ==
  /\ runs \in Seq([status : {"running"} \union Verdicts,
                   results : [Cases -> Outcomes \union {"none"}],
                   findings : SUBSET Findings,
                   report : {"due", "done", "lost"}])
  /\ triage \in [Keys -> Dispositions]
  /\ healed \in [Cases -> 0 .. MaxRuns]

Init ==
  /\ runs = << >>
  /\ triage = [k \in Keys |-> "open"]
  /\ healed = [c \in Cases |-> 0]

-----------------------------------------------------------------------------
(* Runs.                                                                   *)

Live == {r \in DOMAIN runs : runs[r].report = "due"}

Start ==
  /\ Len(runs) < MaxRuns /\ Cardinality(Live) < RunsAtOnce
  /\ runs' = Append(runs, [status |-> "running", results |-> NoResults,
                           findings |-> {}, report |-> "due"])
  /\ UNCHANGED <<triage, healed>>

\* run_scripts: only a failure or an error fails a run.
Execute(r, results) ==
  /\ runs[r].status = "running" /\ results # NoResults
  /\ runs' = [runs EXCEPT
       ![r].status = IF \E c \in Cases : results[c] \in Failing
                       THEN "failed" ELSE "passed",
       ![r].results = results,
       ![r].report = IF \E c \in Cases : results[c] \in Failing
                       THEN "due" ELSE "done"]
  /\ UNCHANGED <<triage, healed>>

\* The runner raised, or the worker died: the run ends without results.
Stop(r, verdict) ==
  /\ runs[r].status = "running"
  /\ runs' = [runs EXCEPT ![r].status = verdict, ![r].report = "lost"]
  /\ UNCHANGED <<triage, healed>>

\* The handler fails after run_scripts committed: no finding is ever stored.
LoseReport(r) ==
  /\ runs[r].status = "failed" /\ runs[r].report = "due"
  /\ runs' = [runs EXCEPT ![r].report = "lost"]
  /\ UNCHANGED <<triage, healed>>

-----------------------------------------------------------------------------
(* Classification against the runs before, whatever became of them.        *)

PriorRuns(r) == {q \in 1 .. (r - 1) : q + Window >= r}

Present(k, q) == \E f \in runs[q].findings : f.key = k
Flips(k, r) ==
  Cardinality({q \in PriorRuns(r) :
    q + 1 \in PriorRuns(r) /\ Present(k, q) # Present(k, q + 1)})
Seen(k, r) == \E q \in PriorRuns(r) : Present(k, q)
Last(k, r) == r - 1 \in PriorRuns(r) /\ Present(k, r - 1)

ClassifyHistory(k, r) ==
  CASE Seen(k, r) /\ ~Last(k, r) -> "regression"
    [] Last(k, r) /\ Flips(k, r) >= 2 -> "flaky"
    [] Last(k, r) /\ Flips(k, r) < 2 -> "known"
    [] OTHER -> "new"

Group(r, k) ==
  {c \in Cases : /\ runs[r].results[c] \in Failing
                 /\ RootCauseKey(c, runs[r].results[c]) = k}
Groups(r) == {k \in Keys : Group(r, k) # {}}

\* assemble and classify_run.  The representative is the member whose result has
\* the smallest id, a random one.
Report(r) ==
  /\ runs[r].status = "failed" /\ runs[r].report = "due"
  /\ \E rep \in [Groups(r) -> Cases] :
       /\ \A k \in Groups(r) : rep[k] \in Group(r, k)
       /\ runs' = [runs EXCEPT
            ![r].report = "done",
            ![r].findings = {[key |-> k, rep |-> rep[k], members |-> Group(r, k),
                              status |-> ClassifyHistory(k, r)] : k \in Groups(r)}]
  /\ UNCHANGED <<triage, healed>>

-----------------------------------------------------------------------------
(* What people do with findings.                                           *)

\* bulk_triage: one upsert for each issue the ids stand for.
Triage(issues, disposition) ==
  /\ issues # {}
  /\ \A k \in issues : \E r \in DOMAIN runs : Present(k, r)
  /\ triage' = [k \in Keys |-> IF k \in issues THEN disposition ELSE triage[k]]
  /\ UNCHANGED <<runs, healed>>

\* triage_finding: the issue of one finding, reached through its run.
TriageFinding(r, k, disposition) == Present(k, r) /\ Triage({k}, disposition)

PassedBefore(c, r) == \E q \in PriorRuns(r) : runs[q].results[c] = "pass"

\* A scan of the run and the confirmation of its heal (HealLifecycle has both).
ConfirmHeal(r, c) ==
  /\ healed[c] = 0 /\ runs[r].results[c] = "drifted" /\ PassedBefore(c, r)
  /\ healed' = [healed EXCEPT ![c] = r]
  /\ UNCHANGED <<runs, triage>>

\* Mutant: the run of the heal is not compared.
SupersededMutant(f, r) == healed[f.rep] # 0
Superseded(f, r) == healed[f.rep] = r

LatestRun == Len(runs)
Inbox ==
  IF runs = << >> THEN {}
  ELSE {f \in runs[LatestRun].findings :
          triage[f.key] \notin Muted /\ ~Superseded(f, LatestRun)}

\* history_payload counts again whenever it is read; it counts the run itself.
OccurrenceCount(f, r) == 1 + Cardinality({q \in PriorRuns(r) : Present(f.key, q)})

Next ==
  \/ Start
  \/ \E r \in DOMAIN runs :
       \/ \E results \in [Cases -> Outcomes \union {"none"}] : Execute(r, results)
       \/ Stop(r, "errored") \/ Stop(r, "interrupted")
       \/ LoseReport(r)
       \/ Report(r)
       \/ \E c \in Cases : ConfirmHeal(r, c)
       \/ \E k \in Keys, d \in Dispositions : TriageFinding(r, k, d)
  \/ \E issues \in SUBSET Keys, d \in Dispositions : Triage(issues, d)

Spec == Init /\ [][Next]_inboxVars

-----------------------------------------------------------------------------
(* What the inbox promises.                                                *)

(***************************************************************************)
(* Nothing is hidden that nobody asked to hide: a failure of the latest    *)
(* run, once reported, is explained by a finding in the inbox, unless its  *)
(* issue was triaged away or a test that failed with it in that very run   *)
(* has been healed (open_findings).                                        *)
(***************************************************************************)
HiddenOnlyOnRequest ==
  \A r \in DOMAIN runs :
    r = LatestRun /\ runs[r].status = "failed" /\ runs[r].report = "done" =>
      \A c \in Cases : runs[r].results[c] \in Failing =>
        LET k == RootCauseKey(c, runs[r].results[c])
        IN \/ \E f \in Inbox : c \in f.members
           \/ triage[k] \in Muted
           \/ \E d \in Group(r, k) : healed[d] = r

\* "An assertion finding can never be superseded" (heal_reconciliation): one that explains
\* a single test.
LoneAssertionNeverMasked ==
  \A r \in DOMAIN runs : \A f \in runs[r].findings :
    Superseded(f, r) /\ Cardinality(f.members) = 1
      => \A c \in f.members : runs[r].results[c] # "wrong"

\* The inbox hides nothing it should show.
InboxIsHonest == HiddenOnlyOnRequest /\ LoneAssertionNeverMasked

\* A regression "was cleared" and "has now returned" (classify_history), when the runs before
\* it took turns and reported: no failure of the run before has its root cause, and one of an
\* earlier run has.  (The run before need not have passed, as the docstring says it did: the
\* same test may have failed there in another way, which is another root cause.)
RegressionMeansClearedInTurn ==
  RunsAtOnce = 1 =>
    \A r \in DOMAIN runs :
      (\A q \in PriorRuns(r) : runs[q].report = "done") =>
        \A f \in runs[r].findings : f.status = "regression" =>
          /\ Group(r - 1, f.key) = {}
          /\ \E q \in PriorRuns(r) : Group(q, f.key) # {}

\* While runs take turns the stored classification agrees with the history that
\* is counted when it is read: new is what occurred once, and only that.
NewIsFirstInTurn ==
  RunsAtOnce = 1 =>
    \A r \in DOMAIN runs : \A f \in runs[r].findings :
      f.status = "new" <=> OccurrenceCount(f, r) = 1

\* A finding's status says what its history says, while runs take turns.
HistoryIsHonestInTurn == RegressionMeansClearedInTurn /\ NewIsFirstInTurn
=============================================================================
