--------------------------- MODULE HealLifecycle ----------------------------
(***************************************************************************)
(* Self-healing of one test case (healing/): a run fails because its route *)
(* moved, a scan proposes to re-address the script, a human confirms or    *)
(* rejects.  The test was written for the address Home.                    *)
(*                                                                         *)
(* A script is the address it calls: its assertions are never rewritten.   *)
(* A heal is known by the address it moves the test to, because the        *)
(* address it moves it from is read from the case's preconditions, which   *)
(* no operation updates.                                                   *)
(***************************************************************************)
EXTENDS Naturals, Sequences, FiniteSets

CONSTANTS Addrs, Home,       \* the URIs the route may have; the first one
          Reviewers,         \* requests that confirm or reject
          MaxRuns,           \* bound on the number of runs
          Window             \* runs of history a scan looks at (10 in the code)

VARIABLES
  route,     \* where the route is in the application
  answers,   \* what it answers: as expected, wrongly, or 404 for a lost record
  nodes,     \* addresses of the Brain's endpoint nodes that carry its name
  script,    \* the address the live script calls
  outcomes,  \* the case's result in each run
  heals,     \* test_heals by after_addr
  reviews,   \* what each reviewer's request has loaded
  width      \* how many reviews may overlap

healVars == <<route, answers, nodes, script, outcomes, heals, reviews, width>>

NoHeal == [status |-> "none", run |-> 0]
NoReview == [verdict |-> "none", heal |-> Home]
Verdicts == {"confirmed", "rejected"}
Targets == Addrs \ {Home}

\* The columns' types; a heal belongs to a run.
TypeOK ==
  /\ route \in Addrs /\ script \in Addrs /\ nodes \subseteq Addrs
  /\ answers \in {"ok", "wrong", "gone"}
  /\ outcomes \in Seq({"pass", "assertion", "location"})
  /\ heals \in [Targets -> [status : {"none", "proposed"} \union Verdicts,
                            run : 0 .. MaxRuns]]
  /\ \A a \in Targets : heals[a].status = "none" <=> heals[a].run = 0
  /\ reviews \in [Reviewers -> [verdict : Verdicts \union {"none"}, heal : Addrs]]

Init ==
  /\ route = Home /\ answers = "ok" /\ nodes = {Home} /\ script = Home
  /\ outcomes = << >>
  /\ heals = [a \in Targets |-> NoHeal]
  /\ reviews = [s \in Reviewers |-> NoReview]
  /\ width \in 1 .. Cardinality(Reviewers)

-----------------------------------------------------------------------------
(* The application under test.                                             *)

MoveRoute(a) ==
  /\ a # route /\ route' = a
  /\ UNCHANGED <<answers, nodes, script, outcomes, heals, reviews, width>>

Answer(kind) ==
  /\ kind # answers /\ answers' = kind
  /\ UNCHANGED <<route, nodes, script, outcomes, heals, reviews, width>>

\* Re-ingestion upserts the nodes it finds and never deletes one.
Ingest ==
  /\ nodes' = nodes \union {route}
  /\ UNCHANGED <<route, answers, script, outcomes, heals, reviews, width>>

-----------------------------------------------------------------------------
(* Runs.  A result's class is what classify_failure makes of its message:  *)
(* a received 404 is a location failure whatever its cause.                *)

Outcome ==
  CASE script # route \/ answers = "gone" -> "location"
    [] script = route /\ answers = "wrong" -> "assertion"
    [] OTHER -> "pass"

Run ==
  /\ Len(outcomes) < MaxRuns
  /\ outcomes' = Append(outcomes, Outcome)
  /\ UNCHANGED <<route, answers, nodes, script, heals, reviews, width>>

PriorRuns(r) == {q \in 1 .. (r - 1) : q + Window >= r}
PassingBefore(r) == \E q \in PriorRuns(r) : outcomes[q] = "pass"
CandidateMutant(r) == outcomes[r] # "pass"
Candidate(r) == outcomes[r] # "pass" /\ PassingBefore(r)

\* The addresses the named route may have moved to; confident if there is one.
Moved == nodes \ {Home}
Confident(a) == Moved = {a}

(***************************************************************************)
(* scan_run.  The healed code is the script with Home replaced, so there   *)
(* is one only while the script still calls Home.  A heal of the same move *)
(* is found and returned as it is; of two scans that insert it together    *)
(* the unique constraint refuses one, which changes nothing.               *)
(***************************************************************************)
Scan(r) ==
  /\ r \in DOMAIN outcomes
  /\ Candidate(r) /\ outcomes[r] = "location"
  /\ \E a \in Targets :
       /\ Confident(a) /\ script = Home
       /\ heals[a].status = "none"
       /\ heals' = [heals EXCEPT ![a] = [status |-> "proposed", run |-> r]]
  /\ UNCHANGED <<route, answers, nodes, script, outcomes, reviews, width>>

-----------------------------------------------------------------------------
(* Reviews.  The status is tested on the row as it was loaded; the UPDATE  *)
(* that follows does not test it again.                                    *)

Reviewing == {s \in Reviewers : reviews[s] # NoReview}

ReviewRead(s, a, v) ==
  /\ s \notin Reviewing /\ Cardinality(Reviewing) < width
  /\ heals[a].status = "proposed"
  /\ reviews' = [reviews EXCEPT ![s] = [verdict |-> v, heal |-> a]]
  /\ UNCHANGED <<route, answers, nodes, script, outcomes, heals, width>>

ConfirmHeal(s) ==
  /\ reviews[s].verdict = "confirmed"
  /\ script' = reviews[s].heal
  /\ heals' = [heals EXCEPT ![reviews[s].heal].status = "confirmed"]
  /\ reviews' = [reviews EXCEPT ![s] = NoReview]
  /\ UNCHANGED <<route, answers, nodes, outcomes, width>>

RejectHealMutant(s) ==
  /\ reviews[s].verdict = "rejected"
  /\ heals' = [heals EXCEPT ![reviews[s].heal].status = "rejected"]
  /\ script' = reviews[s].heal
  /\ reviews' = [reviews EXCEPT ![s] = NoReview]
  /\ UNCHANGED <<route, answers, nodes, outcomes, width>>

RejectHeal(s) ==
  /\ reviews[s].verdict = "rejected"
  /\ heals' = [heals EXCEPT ![reviews[s].heal].status = "rejected"]
  /\ reviews' = [reviews EXCEPT ![s] = NoReview]
  /\ UNCHANGED <<route, answers, nodes, script, outcomes, width>>

Next ==
  \/ \E a \in Addrs : MoveRoute(a)
  \/ \E kind \in {"ok", "wrong", "gone"} : Answer(kind)
  \/ Ingest
  \/ Run
  \/ \E r \in 1 .. MaxRuns : Scan(r)
  \/ \E s \in Reviewers, a \in Targets, v \in Verdicts : ReviewRead(s, a, v)
  \/ \E s \in Reviewers : ConfirmHeal(s) \/ RejectHeal(s)

Spec == Init /\ [][Next]_healVars

-----------------------------------------------------------------------------
(* What healing promises.                                                  *)

(***************************************************************************)
(* A heal exists only for a location failure of a test that had passed in  *)
(* the window before it: an assertion failure, or a test that never        *)
(* passed, is a finding and is never healed (scan_run's load-bearing rule).*)
(***************************************************************************)
HealsAreEarned ==
  \A a \in Targets : heals[a].status # "none" =>
    /\ outcomes[heals[a].run] = "location"
    /\ \E q \in 1 .. (heals[a].run - 1) :
         outcomes[q] = "pass" /\ heals[a].run - q <= Window

\* "The live test is left exactly as it was" by a rejected heal (reject_heal).
RejectedUntouched ==
  \A a \in Targets : heals[a].status = "rejected" => script # a

(***************************************************************************)
(* The review decides.  Flagged, never silent: the live script changes     *)
(* only when a heal that was proposed to a human is confirmed, and becomes *)
(* what that heal proposed.  While reviews take turns a resolved heal      *)
(* stays as it was resolved, and a rejected one leaves the script alone.   *)
(***************************************************************************)
ReviewDecides ==
  [][/\ script' # script => /\ heals[script'].status # "none"
                            /\ heals'[script'].status = "confirmed"
     /\ width = 1 =>
          /\ \A a \in Targets : heals[a].status \in Verdicts => heals'[a] = heals[a]
          /\ RejectedUntouched']_healVars
=============================================================================
