---------------------------- MODULE MCExecution ----------------------------
(***************************************************************************)
(* What an organization may start, how a run logs in and how its scripts   *)
(* are executed, its database phase and its findings, and documents,       *)
(* checked by one run: a behaviour is a behaviour of the one in focus.     *)
(***************************************************************************)
EXTENDS Naturals, Sequences, FiniteSets, TLC

VARIABLE focus

\* Test execution: each slot is a worker of its own.
CONSTANTS Projects, Scripts, Slots, Tellings
ASSUME ExecutionAssumption == "none" \notin Slots \cup Projects /\ {} \in Tellings
VARIABLES framework, slots, checkout, vendor, marker, files, report, died, spoiled, lone
execVars == <<framework, slots, checkout, vendor, marker, files, report, died, spoiled, lone>>
MCProcessOf == [s \in Slots |-> s]
Exec == INSTANCE TestExecution WITH ProcessOf <- MCProcessOf, runs <- slots

\* The database phase, for every kind of target.
CONSTANTS Deletes, Soft
VARIABLES tier, target, pc, inForce, anchored, conn, rows, next, observed, dbFindings, outcome, db
dbVars ==
  <<tier, target, pc, inForce, anchored, conn, rows, next, observed, dbFindings, outcome, db>>
MCWrites == <<<<"delete", "orders">>, <<"delete", "items">>, <<"store", "orders">>>>
MCTargets == [flagged : BOOLEAN, prod : BOOLEAN, local : BOOLEAN, marked : BOOLEAN]
DbState == INSTANCE DbStatePhase WITH Writes <- MCWrites, Targets <- MCTargets,
             findings <- dbFindings

\* Findings: the cases, which permute with the projects, fail at one place.
CONSTANTS Cases, Outcomes, MaxRuns, RunsAtOnce, Window
ASSUME InboxBoundsAssumption ==
  /\ MaxRuns \in Nat \ {0} /\ RunsAtOnce \in Nat \ {0} /\ Window \in Nat \ {0}
  /\ IsFiniteSet(Cases)
VARIABLES runs, triage, healed
inboxVars == <<runs, triage, healed>>
MCNode == [c \in Cases |-> "n"]
Inbox == INSTANCE FindingInbox WITH Node <- MCNode

\* The gate, for one project, and the limiter, for one client.
CONSTANTS Jobs, NoProject
VARIABLES plan, suspended, liveProjects, job, asking, lanesOpen, peak, slipped
tenancyVars ==
  <<plan, suspended, liveProjects, job, asking, lanesOpen, peak, slipped>>
Tenant == INSTANCE Tenancy WITH Lanes <- Slots, Projects <- {"project"}

CONSTANTS Limit, WindowTicks, Second, Horizon
ASSUME LimitsAssumption ==
  /\ IsFiniteSet(Jobs) /\ IsFiniteSet(Slots) /\ NoProject # "project"
  /\ Limit \in Nat /\ WindowTicks \in Nat \ {0} /\ Second \in Nat \ {0} /\ Horizon \in Nat
VARIABLES now, window, allowed, told
limiterVars == <<now, window, allowed, told>>
Rate == INSTANCE RateLimit WITH Clients <- {"client"}, Window <- WindowTicks

\* The login at the target, of the account "a" behind a one-time code, or "b" without one.
CONSTANTS Accounts, Challenged, Passwords, VaultKeys, SessionTtl, MaxEdits, MaxLogins
ASSUME LoginAssumption ==
  /\ "nobody" \notin Accounts
  /\ SessionTtl \in Nat \ {0} /\ MaxEdits \in Nat /\ MaxLogins \in Nat
VARIABLES key, vault, config, password, run, cache, written, clock, edits, moved
loginVars == <<key, vault, config, password, run, cache, written, clock, edits, moved>>
Login == INSTANCE TargetLogin WITH now <- clock, Keys <- VaultKeys

\* Documents: texts of up to five letters, words that fit a chunk and words that do not.
CONSTANTS MaxChars, TopK, MaxDocs
VARIABLES brain, documents, chunks, divergences, request, grounded, absent, settled
docVars == <<brain, documents, chunks, divergences, request, grounded, absent, settled>>
MCTexts == UNION {[1 .. n -> {"a", "b", " ", "P"}] : n \in 0 .. 5}
MCRoutes == [method : {"GET", "POST"}, path : {"users"}]
Ref(verb, path) == [verb |-> verb, path |-> path]
MCContents ==
  {[text |-> <<"a", "b", " ", "b">>, refs |-> {Ref("POST", "users"), Ref("GET", "")}],
   [text |-> <<"b", "P", "a", "b", "a">>,
    refs |-> {Ref("post", "users"), Ref("GET", "users"), Ref("DELETE", "users")}],
   [text |-> <<" ">>, refs |-> {}]}
MCFields == {<<"a">>, <<"a", "b">>}
Docs == INSTANCE Documents WITH Contents <- MCContents, Texts <- MCTexts, Routes <- MCRoutes,
          Fields <- MCFields
ASSUME DocumentsAssumption == MaxDocs \in Nat /\ Docs!ChunksKeepWords

vars == <<focus, execVars, dbVars, inboxVars, tenancyVars, limiterVars, loginVars, docVars>>

Init ==
  /\ focus \in {"exec", "db", "inbox", "tenancy", "limiter", "login", "documents"}
  /\ Exec!Init /\ (focus # "exec" => \A p \in Projects : framework[p] = "pest")
  /\ DbState!Init
  /\ (focus # "db" => /\ \A t \in DOMAIN rows : rows[t] = "empty"
                      /\ db = "absent" /\ target = [flagged |-> TRUE, prod |-> FALSE,
                                                    local |-> TRUE, marked |-> TRUE])
  /\ Inbox!Init
  /\ Tenant!Init /\ (focus # "tenancy" => lanesOpen = 1)
  /\ Rate!Init
  /\ Login!Init
  /\ key = 1 /\ password = "old" /\ (focus # "login" => config = "absent")
  /\ Docs!Init

Next ==
  \/ /\ focus = "exec" /\ Exec!Next
     /\ UNCHANGED <<focus, dbVars, inboxVars, tenancyVars, limiterVars, loginVars, docVars>>
  \/ /\ focus = "db" /\ DbState!Next
     /\ UNCHANGED <<focus, execVars, inboxVars, tenancyVars, limiterVars, loginVars, docVars>>
  \/ /\ focus = "inbox" /\ Inbox!Next
     /\ UNCHANGED <<focus, execVars, dbVars, tenancyVars, limiterVars, loginVars, docVars>>
  \/ /\ focus = "tenancy" /\ Tenant!Next
     /\ UNCHANGED <<focus, execVars, dbVars, inboxVars, limiterVars, loginVars, docVars>>
  \/ /\ focus = "limiter" /\ Rate!Next
     /\ UNCHANGED <<focus, execVars, dbVars, inboxVars, tenancyVars, loginVars, docVars>>
  \/ /\ focus = "login" /\ Login!Next
     /\ UNCHANGED <<focus, execVars, dbVars, inboxVars, tenancyVars, limiterVars, docVars>>
  \/ /\ focus = "documents" /\ Docs!Next
     /\ UNCHANGED <<focus, execVars, dbVars, inboxVars, tenancyVars, limiterVars, loginVars>>

Spec == Init /\ [][Next]_vars

MCSymmetry == Permutations(Projects) \cup Permutations(Slots)

\* The types of all, and the properties of each.
TypesOK ==
  /\ focus = "exec" => Exec!ExecTypeOK
  /\ focus = "db" => DbState!DbTypeOK
  /\ focus = "inbox" => Inbox!InboxTypeOK
  /\ focus = "tenancy" => Tenant!TypeOK
  /\ focus = "limiter" => Rate!TypeOK
  /\ focus = "login" => Login!TypeOK
  /\ focus = "documents" => Docs!TypeOK
AloneIsItsOwn == focus = "exec" => Exec!AloneIsItsOwn
RealIsUntouched == DbState!RealIsUntouched
FindingsAreFailures == focus = "db" => DbState!FindingsAreFailures
InboxIsHonest == focus = "inbox" => Inbox!InboxIsHonest /\ Inbox!HistoryIsHonestInTurn
LoginIsHonest == Login!LoginIsHonest
DocumentsAreFaithful == focus = "documents" => Docs!DocumentsAreFaithful
LimitsHold == Tenant!GateHolds /\ Rate!LimiterHolds
=============================================================================
