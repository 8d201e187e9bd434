------------------------------ MODULE RunStream ------------------------------
(***************************************************************************)
(* How one run narrates itself to one viewer (ADR-0050): the emitter that  *)
(* commits each progress event on its own (progress/emitter.py, installed  *)
(* by services/job_worker.py), the server's event stream (_run_event_sse   *)
(* and get_run_events in api/runs.py) and the browser's hook               *)
(* (frontend features/runs/useRunEvents.ts, runEventsStream.ts).           *)
(*                                                                         *)
(* The three run concurrently: the server polls the committed events and   *)
(* the job row in two statements, each on its own snapshot, and the hook   *)
(* combines a replay, a stream that may break, and the job's status.       *)
(***************************************************************************)
EXTENDS Integers, Sequences, FiniteSetsExt

CONSTANTS
  MaxEvents,      \* bound: events one run emits, its last two places for run/...
  MaxPolls,       \* _STREAM_MAX_POLLS, the stream's safety cap
  MaxLosses,      \* bound: emissions that fail (they are logged and swallowed)
  MaxNetFailures  \* bound: browser requests that fail or streams that break

VARIABLES
  job,            \* jobs.status of the run's job
  work,           \* where its worker is
  seq,            \* the emitter's counter
  log,            \* run_events: "step", the terminal "end", or "none" at each seq
  server,         \* where the stream's generator is
  after, polls,   \* its cursor, and the rounds it has made
  batch,          \* the events it read in this round and has not yielded
  pipe,           \* frames on their way to the browser
  hook,           \* where the browser's hook is
  seen,           \* the events it has
  sawTerminal,    \* one of them was terminal
  losses, netFailures

jobVars == <<job, work>>
logVars == <<seq, log, losses>>
serverVars == <<server, after, polls, batch>>
hookVars == <<hook, seen, sawTerminal>>
vars == <<jobVars, logVars, serverVars, pipe, hookVars, netFailures>>

Seqs == 0 .. MaxEvents - 1
JobTerminal == {"succeeded", "failed", "cancelled"}
Committed == {s \in Seqs : log[s] # "none"}

TypeOK ==
  /\ job \in {"queued", "running"} \cup JobTerminal
  /\ work \in {"queued", "run", "commit", "fail", "finalize", "end"}
  /\ seq \in 0 .. MaxEvents
  /\ log \in [Seqs -> {"none", "step", "end"}]
  /\ server \in {"closed", "events", "job", "yield"}
  /\ after \in -1 .. MaxEvents - 1
  /\ polls \in 0 .. MaxPolls
  /\ batch \in SUBSET Seqs
  /\ pipe \in Seq(Seqs)
  /\ hook \in {"replay", "open", "live", "reconcile", "settle", "wait", "done", "error"}
  /\ seen \in SUBSET Seqs
  /\ sawTerminal \in BOOLEAN
  /\ losses \in 0 .. MaxLosses
  /\ netFailures \in 0 .. MaxNetFailures

Init ==
  /\ job = "queued" /\ work = "queued"
  /\ seq = 0 /\ log = [s \in Seqs |-> "none"] /\ losses = 0
  /\ server = "closed" /\ after = -1 /\ polls = 0 /\ batch = {}
  /\ pipe = << >>
  /\ hook = "replay" /\ seen = {} /\ sawTerminal = FALSE
  /\ netFailures = 0

----------------------------------------------------------------------------
(* The worker and its emitter *)

\* RunProgressEmitter.emit: the counter moves first, the write is best-effort.
Emit(kind) ==
  /\ seq < MaxEvents
  /\ seq' = seq + 1
  /\ \/ log' = [log EXCEPT ![seq] = kind] /\ UNCHANGED losses
     \/ losses < MaxLosses /\ losses' = losses + 1 /\ UNCHANGED log

StartJob ==
  /\ job = "queued"
  /\ work = "queued"
  /\ job' = "running"
  /\ work' = "run"
  /\ UNCHANGED <<logVars, serverVars, pipe, hookVars, netFailures>>

EmitStep ==
  /\ work = "run"
  /\ seq < MaxEvents - 2
  /\ Emit("step")
  /\ UNCHANGED <<jobVars, serverVars, pipe, hookVars, netFailures>>

\* The run's own terminal event, before the handler's session commits.
EmitTerminal ==
  /\ work = "run"
  /\ Emit("end")
  /\ work' = "commit"
  /\ UNCHANGED <<job, serverVars, pipe, hookVars, netFailures>>

\* An authoring run narrates nothing.
ReturnSilently ==
  /\ work = "run"
  /\ work' = "commit"
  /\ UNCHANGED <<job, logVars, serverVars, pipe, hookVars, netFailures>>

\* The handler raises, its final commit fails, or the watchdog cancels it.
HandlerRaises ==
  /\ work \in {"run", "commit"}
  /\ work' = "fail"
  /\ UNCHANGED <<job, logVars, serverVars, pipe, hookVars, netFailures>>

\* _on_job_failure narrates the failure before it finalizes the job.
EmitFailure ==
  /\ work = "fail"
  /\ Emit("end")
  /\ work' = "finalize"
  /\ UNCHANGED <<job, serverVars, pipe, hookVars, netFailures>>

\* mark_succeeded, or mark_failed_or_retry of a single-attempt job: both are
\* compare-and-set against running.
Finalize ==
  /\ work \in {"commit", "finalize"}
  /\ work' = "end"
  /\ job' = IF job # "running" THEN job
            ELSE IF work = "commit" THEN "succeeded" ELSE "failed"
  /\ UNCHANGED <<logVars, serverVars, pipe, hookVars, netFailures>>

\* The worker dies; its job stays running until the reaper finds it.
Crash ==
  /\ work \in {"run", "commit", "fail", "finalize"}
  /\ work' = "end"
  /\ UNCHANGED <<job, logVars, serverVars, pipe, hookVars, netFailures>>

\* reclaim_stale_running, or the startup sweep of a sibling: the worker, if it
\* lives, goes on narrating.
Reap ==
  /\ job = "running"
  /\ job' = "failed"
  /\ UNCHANGED <<work, logVars, serverVars, pipe, hookVars, netFailures>>

\* JobQueue.cancel: a worker in the run is not stopped by it.
Cancel ==
  /\ job \in {"queued", "running"}
  /\ job' = "cancelled"
  /\ UNCHANGED <<work, logVars, serverVars, pipe, hookVars, netFailures>>

----------------------------------------------------------------------------
(* The server's stream: _run_event_sse *)

\* Mutant: the cursor is compared with an off-by-one.
EventsAfterMutant(a) == {s \in Committed : s > a + 1}

\* RunEventRepository.list_for_run.
EventsAfter(a) == {s \in Committed : s > a}

\* Mutant: the loop has no cap.
ReadEventsMutant ==
  /\ server = "events"
  /\ server' = "job"
  /\ batch' = EventsAfter(after)
  /\ UNCHANGED <<jobVars, logVars, after, polls, pipe, hookVars, netFailures>>

\* The first statement of a round; the loop ends at the cap.
ReadEvents ==
  /\ server = "events"
  /\ IF polls = MaxPolls
       THEN server' = "closed" /\ UNCHANGED batch
       ELSE server' = "job" /\ batch' = EventsAfter(after)
  /\ UNCHANGED <<jobVars, logVars, after, polls, pipe, hookVars, netFailures>>

\* The second statement: the job's status, which only matters to a round without
\* events.  Then the events are yielded, or the generator sleeps.
ReadJob ==
  /\ server = "job"
  /\ \/ batch # {} /\ server' = "yield" /\ UNCHANGED polls
     \/ batch = {} /\ job \in JobTerminal /\ server' = "closed" /\ UNCHANGED polls
     \/ batch = {} /\ job \notin JobTerminal /\ server' = "events" /\ polls' = polls + 1
  /\ UNCHANGED <<jobVars, logVars, after, batch, pipe, hookVars, netFailures>>

\* One frame, in seq order; the terminal one ends the stream.
YieldFrame ==
  /\ server = "yield"
  /\ after' = Min(batch)
  /\ batch' = batch \ {after'}
  /\ pipe' = Append(pipe, after')
  /\ IF log[after'] = "end" THEN server' = "closed" /\ UNCHANGED polls
     ELSE IF batch' # {} THEN UNCHANGED <<server, polls>>
     ELSE server' = "events" /\ polls' = polls + 1
  /\ UNCHANGED <<jobVars, logVars, hookVars, netFailures>>

CloseStream == server' = "closed" /\ UNCHANGED <<after, polls, batch>>

----------------------------------------------------------------------------
(* The browser: useRunEvents *)

NetFails == netFailures < MaxNetFailures /\ netFailures' = netFailures + 1

\* ingest: de-duplicated by seq; the terminal event settles the view at once,
\* anything else continues at next.
Ingest(S, next) ==
  /\ seen' = seen \cup S
  /\ sawTerminal' = (sawTerminal \/ \E s \in S : log[s] = "end")
  /\ hook' = IF sawTerminal' THEN "done" ELSE next

\* The catch-up replay; a failed one is skipped.
Replay ==
  /\ hook = "replay"
  /\ \/ Ingest(Committed, "open") /\ UNCHANGED netFailures
     \/ NetFails /\ Ingest({}, "open")
  /\ UNCHANGED <<jobVars, logVars, serverVars, pipe>>

\* The stream starts over from the first event.
OpenStream ==
  /\ hook = "open"
  /\ \/ /\ hook' = "live"
        /\ server' = "events" /\ after' = -1 /\ polls' = 0 /\ batch' = {}
        /\ pipe' = << >>
        /\ UNCHANGED netFailures
     \/ NetFails /\ hook' = "reconcile" /\ UNCHANGED <<serverVars, pipe>>
  /\ UNCHANGED <<jobVars, logVars, seen, sawTerminal>>

\* A frame arrives; on the terminal event the hook aborts the stream.
ReceiveFrame ==
  /\ hook = "live"
  /\ pipe # << >>
  /\ Ingest({Head(pipe)}, "live")
  /\ pipe' = Tail(pipe)
  /\ IF sawTerminal' THEN CloseStream ELSE UNCHANGED serverVars
  /\ UNCHANGED <<jobVars, logVars, netFailures>>

\* The server closed the stream and nothing is left to read.
StreamEnds ==
  /\ hook = "live"
  /\ server = "closed"
  /\ pipe = << >>
  /\ hook' = "settle"
  /\ UNCHANGED <<jobVars, logVars, serverVars, pipe, seen, sawTerminal, netFailures>>

\* The connection breaks: what was on its way is gone.
StreamBreaks ==
  /\ hook = "live"
  /\ NetFails
  /\ CloseStream
  /\ pipe' = << >>
  /\ hook' = "reconcile"
  /\ UNCHANGED <<jobVars, logVars, seen, sawTerminal>>

\* One poll past the last event it has.
Reconcile ==
  /\ hook = "reconcile"
  /\ \/ /\ Ingest(EventsAfter(IF seen = {} THEN -1 ELSE Max(seen)), "settle")
        /\ UNCHANGED netFailures
     \/ NetFails /\ Ingest({}, "settle")
  /\ UNCHANGED <<jobVars, logVars, serverVars, pipe>>

\* Mutant: a view without a terminal event always reconnects.
SettleLoopMutant ==
  /\ hook = "settle"
  /\ \/ hook' = "wait" /\ UNCHANGED netFailures
     \/ hook' = "error" /\ NetFails
  /\ UNCHANGED <<jobVars, logVars, serverVars, pipe, seen, sawTerminal>>

\* settleOrReconnect: the job's status tells the cap from the end of the run.
Settle ==
  /\ hook = "settle"
  /\ \/ hook' = (IF job \in JobTerminal THEN "done" ELSE "wait") /\ UNCHANGED netFailures
     \/ hook' = "error" /\ NetFails
  /\ UNCHANGED <<jobVars, logVars, serverVars, pipe, seen, sawTerminal>>

\* The reconnect timer, or the user's Reconnect after an error: the effect starts
\* again from nothing.
Reconnect ==
  /\ hook \in {"wait", "error"}
  /\ hook' = "replay"
  /\ seen' = {}
  /\ sawTerminal' = FALSE
  /\ UNCHANGED <<jobVars, logVars, serverVars, pipe, netFailures>>

----------------------------------------------------------------------------
Work ==
  \/ StartJob \/ EmitTerminal \/ ReturnSilently \/ EmitFailure \/ Finalize

Serve == ReadEvents \/ ReadJob \/ YieldFrame

View == Replay \/ OpenStream \/ ReceiveFrame \/ StreamEnds \/ Reconcile \/ Settle

Next ==
  \/ Work \/ EmitStep \/ HandlerRaises \/ Crash \/ Reap \/ Cancel
  \/ Serve
  \/ View \/ StreamBreaks \/ Reconnect

Spec == Init /\ [][Next]_vars

\* The job ends (JobWorker's JobsSettle), the server and the browser make progress,
\* and the timer fires.  A viewer shown an error need not press Reconnect.
FairSpec ==
  /\ Spec
  /\ WF_vars(Work)
  /\ WF_vars(work = "end" /\ Reap)
  /\ WF_vars(Serve)
  /\ WF_vars(View)
  /\ WF_vars(hook = "wait" /\ Reconnect)

----------------------------------------------------------------------------
(* Properties *)

Received == seen \cup {pipe[i] : i \in DOMAIN pipe}

\* The cursor never passes an event: whatever is committed at or below it has been
\* sent on this connection.  It needs the seq order of list_for_run and commits
\* that happen in the order the seqs were drawn.
CursorSkipsNothing ==
  hook = "live" => \A s \in Committed : s <= after => s \in Received

\* A view settled by a terminal event shows the whole journey up to it, whichever
\* of the replay, a stream, and the reconcile poll each event came from.
FinishedViewIsComplete ==
  hook = "done" /\ sawTerminal =>
    \E e \in seen : log[e] = "end" /\ \A s \in Committed : s <= e => s \in seen

\* "A long run must never read as ended": without a terminal event the view is done
\* only when the job is over, however often the stream hit its cap or broke.
NeverEndsEarly == hook = "done" /\ ~sawTerminal => job \in JobTerminal

\* The view is a faithful one: nothing is skipped, nothing is missing from a finished
\* one, and it never ends before its run.
ViewIsFaithful == CursorSkipsNothing /\ FinishedViewIsComplete /\ NeverEndsEarly

\* Every viewer settles, through caps, broken streams and lost terminal events.
ViewerSettles == []<>(hook \in {"done", "error"})
=============================================================================
