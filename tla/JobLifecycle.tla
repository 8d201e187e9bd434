---------------------------- MODULE JobLifecycle ----------------------------
(***************************************************************************)
(* What the durable job queue promises its callers (ADR-0034, ADR-0067),   *)
(* with no workers, leases, locks or clocks in sight:                      *)
(*                                                                         *)
(*     queued -> running -> succeeded | failed | cancelled                 *)
(*                                                                         *)
(* A job is attempted at most as often as its max_attempts allows, a       *)
(* failed attempt may put it back in the queue while attempts remain, and  *)
(* a job that ended is never run again.  JobWorker is shown to implement   *)
(* this specification.                                                     *)
(***************************************************************************)
EXTENDS Naturals

CONSTANTS
  Jobs,          \* job ids
  MaxAttempts    \* the retry cap of a job that opts in to retries

VARIABLES
  status,        \* jobs.status, "none" while the id is not minted
  attempts,      \* jobs.attempts
  maxAttempts    \* jobs.max_attempts

vars == <<status, attempts, maxAttempts>>

Terminal == {"succeeded", "failed", "cancelled"}
Active == {"queued", "running"}
JobStatus == {"none"} \cup Active \cup Terminal

TypeOK ==
  /\ status \in [Jobs -> JobStatus]
  /\ attempts \in [Jobs -> Nat]
  /\ maxAttempts \in [Jobs -> Nat]

Init ==
  /\ status = [j \in Jobs |-> "none"]
  /\ attempts = [j \in Jobs |-> 0]
  /\ maxAttempts = [j \in Jobs |-> 1]

\* A new job is queued with its own cap.
Submit(j, m) ==
  /\ status[j] = "none"
  /\ status' = [status EXCEPT ![j] = "queued"]
  /\ maxAttempts' = [maxAttempts EXCEPT ![j] = m]
  /\ UNCHANGED attempts

\* An attempt begins, and there is an attempt left to begin.
Start(j) ==
  /\ status[j] = "queued"
  /\ attempts[j] < maxAttempts[j]
  /\ status' = [status EXCEPT ![j] = "running"]
  /\ attempts' = [attempts EXCEPT ![j] = @ + 1]
  /\ UNCHANGED maxAttempts

Succeed(j) ==
  /\ status[j] = "running"
  /\ status' = [status EXCEPT ![j] = "succeeded"]
  /\ UNCHANGED <<attempts, maxAttempts>>

\* A failed attempt with attempts to spare goes back to the queue.
Retry(j) ==
  /\ status[j] = "running"
  /\ attempts[j] < maxAttempts[j]
  /\ status' = [status EXCEPT ![j] = "queued"]
  /\ UNCHANGED <<attempts, maxAttempts>>

\* One or several running jobs fail for good.
Fail(S) ==
  /\ \A j \in S : status[j] = "running"
  /\ status' = [j \in Jobs |-> IF j \in S THEN "failed" ELSE status[j]]
  /\ UNCHANGED <<attempts, maxAttempts>>

\* A cancel stops a job that is active and, because the request reads the job
\* before it locks it, may still land on one that has just ended.
Cancel(j) ==
  /\ status[j] # "none"
  /\ status' = [status EXCEPT ![j] = "cancelled"]
  /\ UNCHANGED <<attempts, maxAttempts>>

Next ==
  \/ \E j \in Jobs :
       \/ \E m \in 1 .. MaxAttempts : Submit(j, m)
       \/ Start(j)
       \/ Succeed(j)
       \/ Retry(j)
       \/ Cancel(j)
  \/ \E S \in SUBSET Jobs : Fail(S)

Spec == Init /\ [][Next]_vars
=============================================================================
