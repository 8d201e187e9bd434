---------------------------- MODULE TestExecution ----------------------------
(***************************************************************************)
(* How runs execute their scripts (execution/).  Every run of the          *)
(* installation shares one checkout of a PHP target (app_path), one        *)
(* directory of generated tests and one evidence directory, where the      *)
(* framework writes its report and the runner reads it.                    *)
(* Inside one process provisioning and running a framework block the event *)
(* loop; between processes nothing is excluded.                            *)
(***************************************************************************)
EXTENDS Naturals, Sequences, FiniteSets

CONSTANTS Projects,
          Scripts,     \* the scripts of a project, each with a file of its own
          Tellings,    \* what a script's tests may report: sets of outcomes
          Slots,       \* bound: the runs that may overlap
          ProcessOf    \* [Slots -> the process that executes them: the API's or a worker]

VARIABLES
  framework, \* of each project
  runs,      \* the runs being executed, and free slots for more
  checkout,  \* the project whose source is at app_path, or "none"
  vendor,    \* the project whose dependencies are installed there, "mixed" or "none"
  marker,    \* the lock file the marker names, as its project, or "none"
  files,     \* the generated test files, see FileOf
  report,    \* for each framework, the report in the evidence directory
  died,      \* a process died since the files were last removed
  spoiled,   \* the marker has named what is not installed
  lone       \* history: how the run executed that no other overlapped so far

disk == <<checkout, vendor, marker, files, report>>
execVars == <<framework, runs, disk, died, spoiled, lone>>

Frameworks == {"pest", "playwright"}
Outcome == {"pass", "fail", "error", "skipped"}
Absent == [s \in Scripts |-> {}]
NoResults == [s \in Scripts |-> "none"]
NoReport == [of |-> "none", cases |-> Absent]

Run == [project : Projects \union {"none"},
        pc : {"free", "resolve", "deps", "write", "spawn", "running", "parse", "finish"},
        scripts : SUBSET Scripts,
        told : [Scripts -> Tellings],   \* what its own process finds
        results : [Scripts -> Outcome \union {"none"}],
        status : {"running", "passed", "failed", "errored"}]

ExecTypeOK ==
  /\ \A r \in Slots : runs[r] \in Run
  /\ checkout \in Projects \union {"none"} /\ marker \in Projects \union {"none"}
  /\ vendor \in Projects \union {"mixed", "none"}
  /\ \A f \in files : f[2] \in Projects /\ f[3] \in Scripts
  /\ \A f \in Frameworks : report[f].cases \in [Scripts -> Tellings]

Fresh(p) == [project |-> p, pc |-> "resolve", scripts |-> {}, told |-> Absent,
             results |-> NoResults, status |-> "running"]
Free == [Fresh("none") EXCEPT !.pc = "free"]
NoLone == [run |-> "none", app |-> "none", lib |-> "none", told |-> Absent,
           wrote |-> FALSE, provisioned |-> FALSE]
\* What the history records of r, if r is alone.
Note(r, entry) == IF lone.run = r THEN entry ELSE lone

Init ==
  /\ framework \in [Projects -> Frameworks]
  /\ runs = [r \in Slots |-> Free] /\ checkout = "none" /\ vendor = "none" /\ marker = "none"
  /\ files = {} /\ report = [f \in Frameworks |-> NoReport]
  /\ died = FALSE /\ spoiled = FALSE /\ lone = NoLone

Live(r) == runs[r].pc # "free"
\* A blocking call is being made in the process of r, by another run.
Blocked(r) ==
  \E q \in Slots \ {r} :
    /\ ProcessOf[q] = ProcessOf[r]
    /\ runs[q].pc \in {"deps", "spawn", "running", "parse"}
At(r, pc) == runs[r].pc = pc /\ ~Blocked(r)
Of(r) == framework[runs[r].project]

Start(r, p) ==
  /\ ~Live(r) /\ runs' = [runs EXCEPT ![r] = Fresh(p)]
  /\ lone' = IF \E q \in Slots : Live(q) THEN NoLone ELSE [NoLone EXCEPT !.run = r]
  /\ UNCHANGED <<framework, disk, died, spoiled>>

-----------------------------------------------------------------------------
(* Provisioning, when the run resolves its target.                         *)

\* sync_into.  A browser run needs no checkout.
Sync(r) ==
  /\ At(r, "resolve")
  /\ IF Of(r) = "pest"
       THEN /\ checkout' = runs[r].project /\ runs' = [runs EXCEPT ![r].pc = "deps"]
            /\ lone' = lone
       ELSE /\ checkout' = checkout /\ runs' = [runs EXCEPT ![r].pc = "write"]
            /\ lone' = Note(r, [lone EXCEPT !.provisioned = TRUE])
  /\ UNCHANGED <<framework, vendor, marker, files, report, died, spoiled>>

\* A git command failed: a warning, and the run goes on.
SyncFailed(r) ==
  /\ At(r, "resolve") /\ Of(r) = "pest"
  /\ runs' = [runs EXCEPT ![r].pc = "write"]
  /\ UNCHANGED <<framework, disk, died, spoiled, lone>>

\* Mutant: any marker will do.
CachedMutant == vendor # "none" /\ marker # "none"
Cached == vendor # "none" /\ marker = checkout

\* _composer_install_if_needed; the marker may fail to be written.
Deps(r) ==
  /\ At(r, "deps") /\ runs' = [runs EXCEPT ![r].pc = "write"]
  /\ \/ Cached /\ UNCHANGED <<vendor, marker>>
     \/ ~Cached /\ vendor' = checkout /\ marker' \in {checkout, marker}
  /\ spoiled' = (spoiled \/ marker' \notin {"none", vendor'})
  /\ lone' = Note(r, [lone EXCEPT !.provisioned = TRUE])
  /\ UNCHANGED <<framework, checkout, files, report, died>>

\* composer exits with an error, with or without having touched vendor/.
DepsFailed(r) ==
  /\ At(r, "deps") /\ ~Cached /\ runs' = [runs EXCEPT ![r].pc = "write"]
  /\ vendor' \in {vendor, "mixed"} /\ spoiled' = (spoiled \/ marker \notin {"none", vendor'})
  /\ UNCHANGED <<framework, checkout, marker, files, report, died, lone>>

-----------------------------------------------------------------------------
(* run_scripts.                                                            *)

\* Pest's files have fixed names, a Playwright project is the run's own.
FileOf(r, s) == <<IF Of(r) = "pest" THEN {} ELSE {r}, runs[r].project, s>>

\* After generation: no script, or no test binary, gives no results; otherwise the
\* files are written.
Write(r, scripts) ==
  /\ At(r, "write")
  /\ LET runnable == scripts # {} /\ (Of(r) = "pest" => vendor # "none")
     IN /\ runs' = [runs EXCEPT ![r].scripts = IF runnable THEN scripts ELSE {},
                                ![r].pc = IF runnable THEN "spawn" ELSE "finish",
                                ![r].status = IF runnable THEN @ ELSE "passed"]
        /\ files' = IF runnable THEN files \union {FileOf(r, s) : s \in scripts} ELSE files
  /\ UNCHANGED <<framework, checkout, vendor, marker, report, died, spoiled, lone>>

\* The framework loads its files and runs them against the application.  It stops
\* at once if one is missing; it may report on some scripts only.
Spawn(r, told) ==
  /\ At(r, "spawn")
  /\ \A s \in Scripts : told[s] # {} =>
       s \in runs[r].scripts /\ \A other \in runs[r].scripts : FileOf(r, other) \in files
  /\ runs' = [runs EXCEPT ![r].pc = "running", ![r].told = told]
  /\ lone' = Note(r, [lone EXCEPT !.told = told,
                         !.app = IF Of(r) = "pest" THEN checkout ELSE runs[r].project,
                         !.lib = IF Of(r) = "pest" THEN vendor ELSE runs[r].project])
  /\ UNCHANGED <<framework, disk, died, spoiled>>

\* It exits after writing its report, or crashes and writes none.
Exit(r, writes) ==
  /\ runs[r].pc = "running"
  /\ report' = IF writes THEN [report EXCEPT ![Of(r)] =
                                 [of |-> runs[r].project, cases |-> runs[r].told]]
               ELSE report
  /\ runs' = [runs EXCEPT ![r].pc = "parse", ![r].told = Absent]
  /\ lone' = Note(r, [lone EXCEPT !.wrote = writes])
  /\ UNCHANGED <<framework, checkout, vendor, marker, files, died, spoiled>>

\* RunnerTimeout, or a process that cannot be spawned, is let through.
RunnerFailed(r) ==
  /\ runs[r].pc = "running"
  /\ runs' = [runs EXCEPT ![r].pc = "finish", ![r].status = "errored", ![r].told = Absent]
  /\ UNCHANGED <<framework, disk, died, spoiled, lone>>

\* The outcome of a script from those of its tests.
Aggregate(outcomes) ==
  CASE "error" \in outcomes -> "error"
    [] "fail" \in outcomes /\ "error" \notin outcomes -> "fail"
    [] "pass" \in outcomes /\ outcomes \intersect {"error", "fail"} = {} -> "pass"
    [] OTHER -> "skipped"

\* Mutant: a report without outcomes is stored as such.
MapResultsTypeMutant(r, rep) ==
  [s \in Scripts |->
    IF s \notin runs[r].scripts THEN "none"
    ELSE IF rep.of # runs[r].project THEN "unreported" ELSE Aggregate(rep.cases[s])]
\* The report's cases by the names of their files; none at all is an error.
MapResults(r, rep) ==
  [s \in Scripts |->
    IF s \notin runs[r].scripts THEN "none"
    ELSE IF rep.of # runs[r].project \/ rep.cases[s] = {} THEN "error"
    ELSE Aggregate(rep.cases[s])]

Parse(r) ==
  /\ runs[r].pc = "parse"
  /\ LET results == MapResults(r, report[Of(r)])
     IN runs' = [runs EXCEPT ![r].pc = "finish", ![r].results = results,
          ![r].status = IF \E s \in Scripts : results[s] \in {"fail", "error"}
                          THEN "failed" ELSE "passed"]
  /\ UNCHANGED <<framework, disk, died, spoiled, lone>>

\* The directory goes, whoever wrote into it.
Teardown(r) == {f \in files : framework[f[2]] # Of(r)}

\* The results are stored, the directory is removed, the verdict is committed.
Finish(r) ==
  /\ At(r, "finish")
  /\ files' = Teardown(r) /\ runs' = [runs EXCEPT ![r] = Free]
  /\ died' = (died /\ files' # {}) /\ lone' = Note(r, NoLone)
  /\ UNCHANGED <<framework, checkout, vendor, marker, report, spoiled>>

\* A process dies, and its runs with it.
ProcessDies(w) ==
  /\ \E r \in Slots : ProcessOf[r] = w /\ Live(r)
  /\ runs' = [r \in Slots |-> IF ProcessOf[r] = w THEN Free ELSE runs[r]]
  /\ died' = (files # {})
  /\ lone' = IF lone.run # "none" /\ ProcessOf[lone.run] = w THEN NoLone ELSE lone
  /\ UNCHANGED <<framework, disk, spoiled>>

Next ==
  \/ \E r \in Slots :
       \/ \E p \in Projects : Start(r, p)
       \/ Sync(r) \/ SyncFailed(r) \/ Deps(r) \/ DepsFailed(r)
       \/ \E scripts \in SUBSET Scripts : Write(r, scripts)
       \/ \E told \in [Scripts -> Tellings] : Spawn(r, told)
       \/ \E writes \in BOOLEAN : Exit(r, writes)
       \/ RunnerFailed(r) \/ Parse(r) \/ Finish(r)
  \/ \E w \in {ProcessOf[r] : r \in Slots} : ProcessDies(w)

Spec == Init /\ [][Next]_execVars

-----------------------------------------------------------------------------
(* What an execution promises.                                             *)

Judged(r) == lone.run = r /\ runs[r].results # NoResults

(***************************************************************************)
(* A verdict is the run's own: of a run that no other overlapped, and      *)
(* whose framework wrote its report, each script has the worst outcome of  *)
(* its tests in this very execution, and an error if there was none        *)
(* (map_results).                                                          *)
(***************************************************************************)
OwnVerdictsInTurn ==
  \A r \in Slots : Judged(r) /\ lone.wrote =>
    \A s \in runs[r].scripts :
      /\ runs[r].results[s] = "error" <=> (lone.told[s] = {} \/ "error" \in lone.told[s])
      /\ runs[r].results[s] \in {"pass", "skipped"} => "fail" \notin lone.told[s]

\* ... and it is of the project's own application with its own dependencies, when
\* provisioning worked and the marker never came to name what is not installed.
OwnApplicationInTurn ==
  \A r \in Slots : Judged(r) /\ lone.provisioned =>
    lone.app = runs[r].project /\ (~spoiled => lone.lib = runs[r].project)

\* No generated test outlives the runs (teardown), unless a process died.
NothingLeftBehind == (\A r \in Slots : ~Live(r)) /\ ~died => files = {}

\* A run that is alone is on its own ground.
AloneIsItsOwn == OwnVerdictsInTurn /\ OwnApplicationInTurn /\ NothingLeftBehind
=============================================================================
