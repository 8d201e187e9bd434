---------------------------- MODULE ClaudeBridge ----------------------------
(***************************************************************************)
(* How the cases of a run get their scripts from the one Claude login of   *)
(* the host: a thread per case in the runner retries its call              *)
(* (ai/claude_cli.py, ai/retry.py) over HTTP (ai/claude_bridge.py), and    *)
(* the daemon answers each request in a thread of its own behind the       *)
(* ConcurrencyGate (bridge/server.py).  A request lives on when the runner *)
(* stops waiting for it.                                                   *)
(*                                                                         *)
(* The login's token can be refreshed once: the CLI does it at the start   *)
(* of a call that finds it expired, and two calls that do it at once log   *)
(* the host out.                                                           *)
(***************************************************************************)
EXTENDS Naturals, FiniteSets

CONSTANTS
  Callers,      \* cases rendered at the same time
  MaxAttempts,  \* ai_max_attempts
  Concurrency,  \* CLAUDE_BRIDGE_CONCURRENCY
  MaxLapses     \* bound: how often the warm window ends

Requests == Callers \X (1 .. MaxAttempts)

VARIABLES
  caller,     \* what each caller is at: its attempt, and its answer in the end
  request,    \* where each request is in the daemon
  refreshing, \* the requests whose call is refreshing the token
  warming,    \* _warming
  window,     \* "cold" before the first warm-up, then "warm", and "stale" in time
  token,      \* of the host's login
  lapses,
  sure        \* the gate's premises hold: a warm-up reaches the refresh, the token lasts
              \* as long as its window, and no window ends before its readers start

vars == <<caller, request, refreshing, warming, window, token, lapses, sure>>

Caller == [attempt : 1 .. MaxAttempts, state : {"waiting", "backoff", "answered", "failed"}]

TypeOK ==
  /\ caller \in [Callers -> Caller]
  /\ request \in [Requests -> {"none", "arrived", "draining", "held", "admitted",
                               "running", "exclusive", "ok", "error"}]
  /\ refreshing \in SUBSET Requests
  /\ warming \in BOOLEAN
  /\ window \in {"cold", "warm", "stale"}
  /\ token \in {"good", "expired"}
  /\ lapses \in 0 .. MaxLapses
  /\ sure \in BOOLEAN

In(states) == {r \in Requests : request[r] \in states}
Calling == In({"running", "exclusive"})

\* Readers past the gate, running or queued on a slot.
Active == In({"admitted", "running"})

Init ==
  /\ caller = [c \in Callers |-> [attempt |-> 1, state |-> "backoff"]]
  /\ request = [r \in Requests |-> "none"]
  /\ refreshing = {}
  /\ warming = FALSE
  /\ window = "cold"
  /\ token \in {"good", "expired"}
  /\ lapses = 0
  /\ sure \in BOOLEAN

Move(r, to) == request' = [request EXCEPT ![r] = to]
gateVars == <<refreshing, warming, window, token, lapses, sure>>

----------------------------------------------------------------------------
(* The runner *)

\* make_bridge_runner posts the request, first or again.
Post(c) ==
  LET r == <<c, caller[c].attempt>> IN
  /\ caller[c].state = "backoff"
  /\ caller' = [caller EXCEPT ![c].state = "waiting"]
  /\ Move(r, "arrived")
  /\ UNCHANGED gateVars

\* with_retries: another attempt, or the last error.
Retry(c) ==
  caller' = [caller EXCEPT ![c] =
    IF @.attempt < MaxAttempts THEN [attempt |-> @.attempt + 1, state |-> "backoff"]
                               ELSE [@ EXCEPT !.state = "failed"]]

\* The daemon's answer to the request it waits for.
Answer(c) ==
  LET r == <<c, caller[c].attempt>> IN
  /\ caller[c].state = "waiting"
  /\ \/ request[r] = "ok" /\ caller' = [caller EXCEPT ![c].state = "answered"]
     \/ request[r] = "error" /\ Retry(c)
  /\ UNCHANGED <<request, gateVars>>

\* The HTTP read times out: the call is given a headroom over its own timeout, but it
\* may have waited for the gate, or the connection may break.
GiveUp(c) ==
  /\ caller[c].state = "waiting"
  /\ request[<<c, caller[c].attempt>>] \notin {"ok", "error"}
  /\ Retry(c)
  /\ UNCHANGED <<request, gateVars>>

----------------------------------------------------------------------------
(* The gate *)

Stale == window # "warm"

\* _claim_writer up to its first wait: the first call of a stale window will run alone.
Claim(r) ==
  /\ request[r] = "arrived"
  /\ IF Concurrency = 1 THEN Move(r, "admitted") /\ UNCHANGED warming
     ELSE IF warming THEN Move(r, "held") /\ UNCHANGED warming
     ELSE IF Stale THEN Move(r, "draining") /\ warming' = TRUE
     ELSE Move(r, "admitted") /\ UNCHANGED warming
  /\ UNCHANGED <<caller, refreshing, window, token, lapses, sure>>

\* A held call wakes up after the warm-up; it does not look at the window again.
Admit(r) ==
  /\ request[r] = "held" /\ ~warming
  /\ Move(r, "admitted")
  /\ UNCHANGED <<caller, gateVars>>

\* A call starts, and finds the token good or not.
Start(r, lane) ==
  /\ Move(r, lane)
  /\ refreshing' = IF token = "expired" THEN refreshing \union {r} ELSE refreshing
  /\ UNCHANGED <<caller, warming, window, token, lapses, sure>>

\* Mutant: the writer does not wait for the readers.
StartExclusiveMutant(r) == request[r] = "draining" /\ Start(r, "exclusive")

\* The readers have drained.
StartExclusive(r) ==
  /\ request[r] = "draining" /\ Active = {}
  /\ Start(r, "exclusive")

\* A slot is free.
StartShared(r) ==
  /\ request[r] = "admitted"
  /\ Cardinality(In({"running"})) < Concurrency
  /\ Start(r, "running")

\* The CLI has the new token.
Refresh(r) ==
  /\ r \in refreshing
  /\ refreshing' = refreshing \ {r}
  /\ token' = "good"
  /\ UNCHANGED <<caller, request, warming, window, lapses, sure>>

\* Mutant: a warm-up that fails keeps the gate.
FinishMutant(r, how) ==
  /\ r \in Calling
  /\ how = "ok" => r \notin refreshing
  /\ sure /\ request[r] = "exclusive" => r \notin refreshing
  /\ Move(r, how)
  /\ refreshing' = refreshing \ {r}
  /\ IF request[r] = "exclusive" /\ how = "ok"
       THEN warming' = FALSE /\ window' = "warm" ELSE UNCHANGED <<warming, window>>
  /\ UNCHANGED <<caller, token, lapses, sure>>

\* The call ends, well or not, or is killed at its timeout, perhaps before the token
\* was refreshed.  A warm-up counts as one however it ends.
Finish(r, how) ==
  /\ r \in Calling
  /\ how = "ok" => r \notin refreshing
  /\ sure /\ request[r] = "exclusive" => r \notin refreshing
  /\ Move(r, how)
  /\ refreshing' = refreshing \ {r}
  /\ IF request[r] = "exclusive" THEN warming' = FALSE /\ window' = "warm"
                                 ELSE UNCHANGED <<warming, window>>
  /\ UNCHANGED <<caller, token, lapses, sure>>

\* The warm interval passes ...
Lapse ==
  /\ window = "warm" /\ lapses < MaxLapses
  /\ sure => In({"held", "admitted"}) = {}
  /\ window' = "stale"
  /\ lapses' = lapses + 1
  /\ UNCHANGED <<caller, request, refreshing, warming, token, sure>>

\* ... and the token expires, at any time.
Expire ==
  /\ token = "good"
  /\ sure => window = "stale" /\ In({"exclusive"}) = {}
  /\ token' = "expired"
  /\ UNCHANGED <<caller, request, refreshing, warming, window, lapses, sure>>

----------------------------------------------------------------------------
Run(c) == Post(c) \/ Answer(c)

Serve(r) ==
  \/ Refresh(r)
  \/ Claim(r) \/ Admit(r) \/ StartExclusive(r) \/ StartShared(r)
  \/ \E how \in {"ok", "error"} : Finish(r, how)

Next ==
  \/ \E c \in Callers : Run(c) \/ GiveUp(c)
  \/ \E r \in Requests : Serve(r)
  \/ Lapse \/ Expire

Spec == Init /\ [][Next]_vars

\* A thread of the runner and of the daemon goes on, a CLI call ends or is killed at its
\* timeout.  Nothing needs a request to be given up, or a window to end.
FairSpec ==
  /\ Spec
  /\ \A c \in Callers : WF_vars(Run(c))
  /\ \A r \in Requests : WF_vars(Serve(r))

----------------------------------------------------------------------------
(* Properties *)

\* "So no concurrent call ever triggers a refresh" (ConcurrencyGate): one call at a
\* time refreshes the token.
RefreshIsSerial == Cardinality(refreshing) <= 1

\* The gate: a warm-up is alone, the readers are within the concurrency, and refreshes
\* are serial as long as the gate's premises hold.
GateIsSafe ==
  /\ \A r \in In({"exclusive"}) : Calling = {r}
  /\ Cardinality(In({"running"})) <= Concurrency
  /\ sure => RefreshIsSerial

\* Every call ends: no caller, and no request its caller has left behind, waits at the
\* gate for ever.
CallsEnd ==
  []<>(/\ \A c \in Callers : caller[c].state \in {"answered", "failed"}
       /\ \A r \in Requests : request[r] \in {"none", "ok", "error"})
=============================================================================
