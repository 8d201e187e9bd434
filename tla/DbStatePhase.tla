---------------------------- MODULE DbStatePhase ----------------------------
(***************************************************************************)
(* Database-state testing (db_state/): the phase of a run that compares    *)
(* the target's tables with what the Brain expects of them, and the        *)
(* disposable database that can be built for it.  What a database may be   *)
(* used for depends on the project's tier and on a gate that is to keep    *)
(* real databases from being written.                                      *)
(***************************************************************************)
EXTENDS Naturals, Sequences, FiniteSets, SequencesExt

CONSTANTS
  Targets,  \* [flagged, prod, local, marked : BOOLEAN]: what a URL looks like
  Writes,   \* the endpoint -> table edges in the Brain, ordered by their names
  Deletes,  \* endpoints whose method is DELETE
  Soft      \* tables with a deleted_at column

VARIABLES
  tier,      \* the project's tier
  target,    \* the run's target
  pc,
  inForce,   \* the tier this phase goes by
  anchored,  \* the run has a result to tie findings to
  conn,      \* "none", "ro", "rw"
  rows,      \* the table's contents: "empty", "live" or "flagged"
  next,      \* the next check
  observed,  \* what the checks saw, in order
  findings,  \* the findings added to the run's session, in order
  outcome,   \* the phase's report
  db         \* the disposable database: "other", "absent", "empty", "migrated"

dbVars == <<tier, target, pc, inForce, anchored, conn, rows, next, observed, findings, outcome, db>>

Tiers == {"off", "read_only", "full"}
Tables == {e[2] : e \in ToSet(Writes)}
Contents == {"empty", "live", "flagged"}

\* ensure_disposable: flagged, nothing in the URL looks like a real database, and
\* the host is local or the name says that it is throwaway.
Disposable(t) == t.flagged /\ ~t.prod /\ (t.local \/ t.marked)

\* Mutant: a DELETE is always taken for a soft one.
CheckForMutant(e) ==
  IF e[1] \in Deletes
    THEN [table |-> e[2], predicate |-> "soft_deleted", oracle |-> "rule_derived"]
    ELSE [table |-> e[2], predicate |-> "row_present", oracle |-> "characterization"]
\* derive_checks, _check_for.
CheckFor(e) ==
  IF e[1] \in Deletes /\ e[2] \in Soft
    THEN [table |-> e[2], predicate |-> "soft_deleted", oracle |-> "rule_derived"]
    ELSE [table |-> e[2], predicate |-> "row_present", oracle |-> "characterization"]
Checks == [i \in DOMAIN Writes |-> CheckFor(Writes[i])]

\* _evaluate, of the row that the SELECT returns.
Holds(check, seen) ==
  IF check.predicate = "row_present" THEN seen # "empty" ELSE seen = "flagged"

Finding == [table : Tables, predicate : {"row_present", "soft_deleted"},
            oracle : {"rule_derived", "characterization"}]

DbTypeOK ==
  /\ tier \in Tiers /\ inForce \in Tiers /\ target \in Targets /\ anchored \in BOOLEAN
  /\ pc \in {"idle", "gate", "connect", "assert", "close", "done"}
  /\ conn \in {"none", "ro", "rw"} /\ (conn # "none" => pc \in {"assert", "close"})
  /\ rows \in [Tables -> Contents]
  /\ next \in 1 .. Len(Writes) + 1
  /\ observed \in Seq(Contents) /\ Len(observed) = next - 1
  /\ outcome \in {"none", "skipped", "refused", "refused_mid", "completed", "raised"}
  /\ db \in {"other", "absent", "empty", "migrated"}
  /\ findings \in Seq(Finding) /\ Len(findings) < next

Init ==
  /\ tier = "off" /\ target \in Targets /\ pc = "idle" /\ inForce = "off"
  /\ anchored = FALSE /\ conn = "none" /\ rows \in [Tables -> Contents]
  /\ next = 1 /\ observed = << >> /\ findings = << >> /\ outcome = "none"
  /\ db \in {"other", "absent"}

SetTier(t) ==
  /\ tier' = t
  /\ UNCHANGED <<target, pc, inForce, anchored, conn, rows, next, observed, findings, outcome, db>>

\* The application under test writes its tables.
Application(table, contents) ==
  /\ rows' = [rows EXCEPT ![table] = contents]
  /\ UNCHANGED <<tier, target, pc, inForce, anchored, conn, next, observed, findings, outcome, db>>

-----------------------------------------------------------------------------
(* DbStateRunPhase.run.                                                    *)

\* It reads the tier once.
BeginPhase(hasResults) ==
  /\ pc = "idle" /\ inForce' = tier /\ anchored' = hasResults
  /\ IF tier = "off" THEN pc' = "done" /\ outcome' = "skipped"
     ELSE pc' = "gate" /\ outcome' = outcome
  /\ UNCHANGED <<tier, target, conn, rows, next, observed, findings, db>>

\* Mutant: the gate is for the disposable database, not for the phase.
AdmitsMutant(t) == TRUE
\* Only the tier that may write passes through the gate.
Admits(t) == inForce = "full" => Disposable(t)

Gate ==
  /\ pc = "gate"
  /\ CASE ~Admits(target) -> pc' = "done" /\ outcome' = "refused"
       [] Admits(target) /\ ~anchored -> pc' = "done" /\ outcome' = "completed"
       [] OTHER -> pc' = "connect" /\ outcome' = outcome
  /\ UNCHANGED <<tier, target, inForce, anchored, conn, rows, next, observed, findings, db>>

Connect ==
  /\ pc = "connect" /\ pc' = "assert"
  /\ conn' = IF inForce = "read_only" THEN "ro" ELSE "rw"
  /\ UNCHANGED <<tier, target, inForce, anchored, rows, next, observed, findings, outcome, db>>

\* The target cannot be reached, or (read_only) does not know the statement.
ConnectFailed ==
  /\ pc = "connect" /\ pc' = "done" /\ outcome' = "raised"
  /\ UNCHANGED <<tier, target, inForce, anchored, conn, rows, next, observed, findings, db>>

\* One turn of the loop: assert_state, and _emit if the check does not hold.
AssertState ==
  /\ pc = "assert" /\ next <= Len(Checks) /\ next' = next + 1
  /\ LET check == Checks[next]
         seen == rows[check.table]
     IN /\ observed' = Append(observed, seen)
        /\ findings' = IF Holds(check, seen) THEN findings ELSE Append(findings, check)
  /\ UNCHANGED <<tier, target, pc, inForce, anchored, conn, rows, outcome, db>>

\* A name that is no identifier (refused), or a statement the target rejects (let
\* through): the connection is rolled back and the findings so far stay.
AssertFailed(result) ==
  /\ pc = "assert" /\ next <= Len(Checks)
  /\ pc' = "close" /\ outcome' = result
  /\ UNCHANGED <<tier, target, inForce, anchored, conn, rows, next, observed, findings, db>>

AllAsserted ==
  /\ pc = "assert" /\ next > Len(Checks) /\ pc' = "close" /\ outcome' = "completed"
  /\ UNCHANGED <<tier, target, inForce, anchored, conn, rows, next, observed, findings, db>>

\* The transaction is rolled back, whatever happened.
Close ==
  /\ pc = "close" /\ pc' = "done" /\ conn' = "none"
  /\ UNCHANGED <<tier, target, inForce, anchored, rows, next, observed, findings, outcome, db>>

-----------------------------------------------------------------------------
(* DisposableDatabase: its URL is flagged by construction.                 *)

MayProvision == Disposable([target EXCEPT !.flagged = TRUE])

\* drop-if-exists and create, each a statement of its own; then the migrations in
\* one transaction.
DropAndCreate ==
  /\ MayProvision /\ db # "empty" /\ db' = "empty"
  /\ UNCHANGED <<tier, target, pc, inForce, anchored, conn, rows, next, observed, findings, outcome>>
CreateFailed ==
  /\ MayProvision /\ db # "absent" /\ db' = "absent"
  /\ UNCHANGED <<tier, target, pc, inForce, anchored, conn, rows, next, observed, findings, outcome>>
Migrate ==
  /\ db = "empty" /\ db' = "migrated"
  /\ UNCHANGED <<tier, target, pc, inForce, anchored, conn, rows, next, observed, findings, outcome>>

Next ==
  \/ \E t \in Tiers : SetTier(t)
  \/ \E table \in Tables, c \in Contents : Application(table, c)
  \/ \E hasResults \in BOOLEAN : BeginPhase(hasResults)
  \/ Gate \/ Connect \/ ConnectFailed \/ AssertState
  \/ \E result \in {"refused_mid", "raised"} : AssertFailed(result)
  \/ AllAsserted \/ Close
  \/ DropAndCreate \/ CreateFailed \/ Migrate

Spec == Init /\ [][Next]_dbVars

-----------------------------------------------------------------------------
(* What database-state testing promises.                                   *)

Real(t) == t.prod \/ ~(t.local \/ t.marked)

(***************************************************************************)
(* A database that may be a real one is never opened for writing, never    *)
(* created over and never dropped, whatever its flag says (ADR-0043).      *)
(***************************************************************************)
RealIsUntouched ==
  [][/\ conn' = "rw" => ~Real(target) /\ target.flagged
     /\ db' # db => ~Real(target)]_dbVars

(***************************************************************************)
(* The findings are the failures: those of the checks that were evaluated, *)
(* in their order, whether or not the phase got through; of a DELETE only  *)
(* a table with a soft-delete column is held to the rule.                  *)
(***************************************************************************)
IsSoft(i) == Writes[i][1] \in Deletes /\ Writes[i][2] \in Soft
Failed(i) == observed[i] = "empty" \/ (IsSoft(i) /\ observed[i] = "live")
FindingsAreFailures ==
  \E at \in [DOMAIN findings -> DOMAIN observed] :
    /\ \A i \in DOMAIN observed : Failed(i) <=> \E k \in DOMAIN findings : at[k] = i
    /\ \A j, k \in DOMAIN findings : j < k => at[j] < at[k]
    /\ \A k \in DOMAIN findings :
         /\ findings[k].table = Writes[at[k]][2]
         /\ findings[k].oracle = "rule_derived" <=> IsSoft(at[k])
=============================================================================
