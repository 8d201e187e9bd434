------------------------------ MODULE MCSettle ------------------------------
(***************************************************************************)
(* What must end, checked by one run: the runs of a runner that may die,   *)
(* the viewer of a run's events, and the AI calls behind the bridge.  A    *)
(* behaviour is a behaviour of the one in focus, under its fairness.       *)
(***************************************************************************)
EXTENDS Naturals, FiniteSets, Sequences

VARIABLE focus

\* The job queue and one runner.
CONSTANTS Jobs, Pollers, MaxCrashes, NoJob
ASSUME QueueAssumption == MaxCrashes \in Nat /\ NoJob \notin Jobs
VARIABLES status, kind, attempts, maxAttempts, lease, due, ahead, run, hint, cancelSeen,
          pc, cur, timedOut, reaped, crashes, dbLosses
workerVars == <<status, kind, attempts, maxAttempts, lease, due, ahead, run, hint,
                cancelSeen, pc, cur, timedOut, reaped, crashes, dbLosses>>
MCHandlers == [w \in Pollers |-> {"run", "ingest"}]
Queue == INSTANCE JobWorker WITH Handlers <- MCHandlers, DispatchKinds <- {},
           Dispatchers <- {}, MaxAttempts <- 1, MaxDbLosses <- 0, losses <- dbLosses

\* One run and one viewer.
CONSTANTS MaxEvents, MaxPolls, MaxLosses, MaxNetFailures
ASSUME StreamBoundsAssumption ==
  /\ MaxEvents \in Nat /\ MaxEvents >= 3
  /\ MaxPolls \in Nat \ {0} /\ MaxLosses \in Nat /\ MaxNetFailures \in Nat
VARIABLES job, work, seq, log, server, after, polls, batch, pipe, hook, seen, sawTerminal,
          losses, netFailures
streamVars == <<job, work, seq, log, server, after, polls, batch, pipe, hook, seen,
                sawTerminal, losses, netFailures>>
Stream == INSTANCE RunStream

\* The bridge.
CONSTANTS Callers, MaxAttempts, Concurrency, MaxLapses
\* ConcurrencyGate takes max(1, concurrency).
ASSUME BridgeAssumption ==
  /\ IsFiniteSet(Callers) /\ MaxLapses \in Nat
  /\ MaxAttempts \in Nat \ {0} /\ Concurrency \in Nat \ {0}
VARIABLES caller, request, refreshing, warming, window, token, lapses, sure
bridgeVars == <<caller, request, refreshing, warming, window, token, lapses, sure>>
Bridge == INSTANCE ClaudeBridge

vars == <<focus, workerVars, streamVars, bridgeVars>>

OfQueue(A) == focus = "queue" /\ A /\ UNCHANGED <<focus, streamVars, bridgeVars>>
OfStream(A) == focus = "stream" /\ A /\ UNCHANGED <<focus, workerVars, bridgeVars>>
OfBridge(A) == focus = "bridge" /\ A /\ UNCHANGED <<focus, workerVars, streamVars>>

Init ==
  /\ focus \in {"queue", "stream", "bridge"}
  /\ Queue!Init /\ Stream!Init
  /\ Bridge!Init /\ (focus # "bridge" => token = "good" /\ sure)

Next == OfQueue(Queue!Next) \/ OfStream(Stream!Next) \/ OfBridge(Bridge!Next)

Spec == Init /\ [][Next]_vars

\* The fairness of each, and why, is stated beside its specification.
QueueFairness ==
  /\ \A w \in Queue!Workers :
       /\ WF_vars(OfQueue(Queue!Work(w)))
       /\ WF_vars(OfQueue(Queue!Restart(w)))
       /\ WF_vars(OfQueue(Queue!ReapStale(w)))
       /\ WF_vars(OfQueue(\E j \in Jobs : Queue!ClaimNext(w, j)))
       /\ WF_vars(OfQueue(\E j \in Jobs : Queue!DispatchJob(w, j)))
  /\ \A j \in Jobs :
       /\ WF_vars(OfQueue(Queue!BackoffElapses(j)))
       /\ WF_vars(OfQueue(Queue!LeaseExpires(j)))
       /\ WF_vars(OfQueue(Queue!CancelWrite(j)))

StreamFairness ==
  /\ WF_vars(OfStream(Stream!Work))
  /\ WF_vars(OfStream(work = "end" /\ Stream!Reap))
  /\ WF_vars(OfStream(Stream!Serve))
  /\ WF_vars(OfStream(Stream!View))
  /\ WF_vars(OfStream(hook = "wait" /\ Stream!Reconnect))

BridgeFairness ==
  /\ \A c \in Callers : WF_vars(OfBridge(Bridge!Run(c)))
  /\ \A r \in Bridge!Requests : WF_vars(OfBridge(Bridge!Serve(r)))

FairSpec == Spec /\ QueueFairness /\ StreamFairness /\ BridgeFairness

\* The types of all, and the properties of each.
TypesOK == Queue!TypeOK /\ Stream!TypeOK /\ Bridge!TypeOK
ViewIsFaithful == Stream!ViewIsFaithful
GateIsSafe == Bridge!GateIsSafe
RunsSettle == focus = "queue" => Queue!RunsSettle
ViewerSettles == focus = "stream" => Stream!ViewerSettles
CallsEnd == focus = "bridge" => Bridge!CallsEnd
=============================================================================
