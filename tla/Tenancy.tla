------------------------------ MODULE Tenancy -------------------------------
(***************************************************************************)
(* What one organization may start: the gate of api/quota.py between a     *)
(* member's request and the job queue, beside the staff who suspend it and *)
(* change its plan (api/admin.py) and the routes that enqueue (api/runs.py *)
(* create_run and rerun_run, api/projects.py).                             *)
(*                                                                         *)
(* A request is authorized, then asks the gate, then inserts its job and   *)
(* commits; the gate counts rows and locks none, so the three are actions. *)
(***************************************************************************)
EXTENDS Naturals, FiniteSets

CONSTANTS
  Projects,
  Jobs,   \* bound: jobs ever enqueued, in their order
  Lanes,  \* requests that may overlap
  NoProject

VARIABLES
  plan,       \* the organization's plan_key
  suspended,  \* suspended_at is set
  liveProjects,
  job,        \* the jobs table
  asking,     \* the request in each lane, or Nothing
  lanesOpen,  \* how many requests may overlap; with 1 they take turns
  peak,       \* the largest allowance that was ever in force
  slipped     \* gated jobs inserted since the organization was suspended

vars == <<plan, suspended, liveProjects, job, asking, lanesOpen, peak, slipped>>

Plans == {"free", "team", "enterprise", "retired"}
Kinds == {"run", "ingest"}

\* "down" is a job that failed or was cancelled; "gated" tells the jobs that passed the
\* gate from those that never met it, and "fresh" those of this calendar month.
Job == [made : BOOLEAN, kind : Kinds, project : {NoProject} \cup Projects,
        down : BOOLEAN, gated : BOOLEAN, fresh : BOOLEAN]
NoJob == [made |-> FALSE, kind |-> "run", project |-> NoProject,
          down |-> FALSE, gated |-> FALSE, fresh |-> FALSE]

Asking == [doing : {"nothing", "run", "ingest", "rerun"},
           project : {NoProject} \cup Projects, admitted : BOOLEAN]
Nothing == [doing |-> "nothing", project |-> NoProject, admitted |-> FALSE]

\* included_run_credits_monthly, in small: enterprise is unlimited, and a key that is
\* not in the catalog falls back to free (effective_for).
Allowance(p) ==
  CASE p = "team" -> 2 [] p = "enterprise" -> Cardinality(Jobs) [] OTHER -> 1

TypeOK ==
  /\ plan \in Plans /\ suspended \in BOOLEAN
  /\ liveProjects \subseteq Projects
  /\ job \in [Jobs -> Job]
  /\ asking \in [Lanes -> Asking]
  /\ lanesOpen \in 1 .. Cardinality(Lanes)
  /\ peak \in Nat /\ slipped \in Nat
  /\ \A j \in Jobs : job[j].made => job[j].project # NoProject

Init ==
  /\ plan = "free" /\ suspended = FALSE
  /\ liveProjects = Projects
  /\ job = [j \in Jobs |-> NoJob]
  /\ asking = [l \in Lanes |-> Nothing]
  /\ lanesOpen \in 1 .. Cardinality(Lanes)
  /\ peak = 1
  /\ slipped = 0

----------------------------------------------------------------------------
(* Starting work *)

RoomToAsk == Cardinality({l \in Lanes : asking[l] # Nothing}) < lanesOpen

\* The bound on jobs is not used up.
JobsLeft == \E j \in Jobs : ~job[j].made

\* authorize_project: the project is live and the caller may RUN.
Ask(l, what, p) ==
  /\ asking[l] = Nothing /\ RoomToAsk /\ JobsLeft
  /\ p \in liveProjects
  /\ asking' = [asking EXCEPT ![l] = [doing |-> what, project |-> p,
                                      admitted |-> (what = "rerun")]]
  /\ UNCHANGED <<plan, suspended, liveProjects, job, lanesOpen, peak, slipped>>

\* A rerun is of a run job of the project, whatever became of it.
AskRerun(l, j) ==
  /\ job[j].made /\ job[j].kind = "run"
  /\ Ask(l, "rerun", job[j].project)

\* _runs_this_calendar_month: every run job, those of deleted projects included.
RunsThisMonth == {j \in Jobs : job[j].made /\ job[j].kind = "run" /\ job[j].fresh}

\* Mutant: the last credit can be spent twice.
CreditLeftMutant == Cardinality(RunsThisMonth) <= Allowance(plan)

CreditLeft == plan = "enterprise" \/ Cardinality(RunsThisMonth) < Allowance(plan)

\* enforce_org_can_run and, for an ingest, enforce_org_not_suspended: the request goes
\* on or is refused (403, 402).
Gate(l) ==
  /\ asking[l].doing \in Kinds /\ ~asking[l].admitted
  /\ asking' = [asking EXCEPT ![l] =
       IF ~suspended /\ (asking[l].doing = "run" => CreditLeft)
         THEN [@ EXCEPT !.admitted = TRUE] ELSE Nothing]
  /\ UNCHANGED <<plan, suspended, liveProjects, job, lanesOpen, peak, slipped>>

\* JobQueue.enqueue.
Inserted(j, kind, p, gated) ==
  /\ ~job[j].made /\ \A i \in Jobs : i < j => job[i].made
  /\ job' = [job EXCEPT ![j] = [made |-> TRUE, kind |-> kind, project |-> p,
                                down |-> FALSE, gated |-> gated, fresh |-> TRUE]]

\* The job is inserted and committed.
Enqueue(l, j) ==
  LET r == asking[l] IN
  /\ r.admitted
  /\ Inserted(j, IF r.doing = "ingest" THEN "ingest" ELSE "run", r.project,
              r.doing # "rerun")
  /\ slipped' = IF suspended /\ r.doing # "rerun" THEN slipped + 1 ELSE slipped
  /\ asking' = [asking EXCEPT ![l] = Nothing]
  /\ UNCHANGED <<plan, suspended, liveProjects, lanesOpen, peak>>

\* requeue_job: staff clone a failed or cancelled job.
Requeue(src, j) ==
  /\ job[src].made /\ job[src].down
  /\ Inserted(j, job[src].kind, job[src].project, FALSE)
  /\ UNCHANGED <<plan, suspended, liveProjects, asking, lanesOpen, peak, slipped>>

----------------------------------------------------------------------------
(* What goes on around it *)

\* A job fails, or cancel_run ends it; one that succeeds never goes down.  (Only a requeue
\* asks for it, and there is none beyond the bound.)
GoDown(j) ==
  /\ job[j].made /\ JobsLeft
  /\ job' = [job EXCEPT ![j].down = TRUE]
  /\ UNCHANGED <<plan, suspended, liveProjects, asking, lanesOpen, peak, slipped>>

\* delete_project is soft: the jobs stay.
DeleteProject(p) ==
  /\ RoomToAsk
  /\ liveProjects' = liveProjects \ {p}
  /\ UNCHANGED <<plan, suspended, job, asking, lanesOpen, peak, slipped>>

\* suspend_org and reactivate_org.
SetSuspended(to) ==
  /\ RoomToAsk
  /\ suspended' = to
  /\ slipped' = 0
  /\ UNCHANGED <<plan, liveProjects, job, asking, lanesOpen, peak>>

\* set_org_plan; a plan may leave the catalog as well.
SetPlan(p) ==
  /\ RoomToAsk
  /\ plan' = p
  /\ peak' = IF Allowance(p) > peak THEN Allowance(p) ELSE peak
  /\ UNCHANGED <<suspended, liveProjects, job, asking, lanesOpen, slipped>>

NewMonth ==
  /\ job' = [j \in Jobs |-> [job[j] EXCEPT !.fresh = FALSE]]
  /\ UNCHANGED <<plan, suspended, liveProjects, asking, lanesOpen, peak, slipped>>

Next ==
  \/ \E l \in Lanes :
       \/ \E what \in Kinds, p \in Projects : Ask(l, what, p)
       \/ \E j \in Jobs : AskRerun(l, j)
       \/ Gate(l)
       \/ \E j \in Jobs : Enqueue(l, j)
  \/ \E src, j \in Jobs : Requeue(src, j)
  \/ \E j \in Jobs : GoDown(j)
  \/ \E p \in Projects : DeleteProject(p)
  \/ \E to \in BOOLEAN : SetSuspended(to)
  \/ \E p \in Plans : SetPlan(p)
  \/ NewMonth

Spec == Init /\ [][Next]_vars

----------------------------------------------------------------------------
(* Properties *)

\* The runs of this month that passed the gate.
GatedRuns == {j \in RunsThisMonth : job[j].gated}

\* "The single choke point" (quota): the runs that passed the gate this month exceed
\* the largest allowance in force by no more than the requests that overlapped, and
\* no more jobs than that slip past a suspension; with requests that take turns, by
\* none.  (Reruns and requeues never meet the gate: they spend credits, and a
\* suspended organization can start them.)
GateHolds ==
  /\ Cardinality(GatedRuns) <= peak + (lanesOpen - 1)
  /\ slipped <= lanesOpen - 1
=============================================================================
