---------------------------- MODULE PipelineProofs ----------------------------
(***************************************************************************)
(* Proofs about the stages of a run and of an ingestion, the chain of      *)
(* models, the Brain and the parser, as the run of the pipeline checks     *)
(* them, for every number of nodes, targets, runs, routes, threads, models *)
(* and days, every budget of a prompt, every set of sites, their pages and *)
(* paths, and every set of routes files.                                   *)
(*                                                                         *)
(* While a crawl asks for pages, the queue is in order of distance, and    *)
(* whatever is nearer than its head was asked for or is of the last level  *)
(* (CrawlInv); what it then writes is what it has seen last of each page,  *)
(* and what changed is what has no vector yet (PagesInv).                  *)
(*                                                                         *)
(* The parser's stack stands for the groups the cursor is in: some         *)
(* sequence of statements, outermost first, has exactly its prefixes and   *)
(* its middleware (OpenAre, ParserInv).                                    *)
(***************************************************************************)
EXTENDS MCPipeline, FiniteSetTheorems, SequenceTheorems, Integers, WellFoundedInduction, TLAPS

\* A set of numbers that is not empty has a least one.
LEMMA NatLeast ==
  ASSUME NEW S, S \subseteq Nat, S # {}
  PROVE  \E x \in S : \A y \in S : x <= y
<1> DEFINE R == {ss \in Nat \X Nat : ss[1] < ss[2]}
<1>1. IsWellFoundedOn(R, Nat)
  BY NatLessThanWellFounded DEF OpToRel
<1>2. \A x, y \in Nat : y < x => <<y, x>> \in R
  OBVIOUS
<1> HIDE DEF R
<1>3. \E x \in S : \A y \in S : ~ (<<y, x>> \in R)
  BY <1>1, WFMin, ZenonT(30)
<1>4. PICK x \in S : \A y \in S : ~ (<<y, x>> \in R)
  BY <1>3
<1>5. ASSUME NEW y \in S PROVE x <= y
  <2>1. ~(y < x)
    BY <1>2, <1>4, Zenon
  <2> QED
    BY <2>1
<1> QED
  BY <1>5

\* Where a run is says what it has done of its row, its findings and its events.
ModeStages ==
  /\ pc # "idle" => job \in {"running", "cancelled"}
  /\ pc \in {"review", "score", "save"} => row = IF verdict = "fail" THEN "failed" ELSE "passed"
  /\ pc \in {"score", "save"} => findings = IF verdict = "fail" THEN "flushed" ELSE "none"
  /\ pc \in {"crawl", "select", "start", "ensure", "commit", "execute", "review", "score"} =>
       ended = << >>
  /\ pc = "save" => ended = <<row>>

\* A target is done when its case is committed; at most one case is in flight, of a target
\* that has none.
ModeCases ==
  /\ ensured \in Seq(cases)
  /\ pc # "commit" => inFlight = {}
  /\ pc = "commit" =>
       \/ inFlight = {} /\ Mode!NextTarget \in cases
       \/ inFlight = {Mode!NextTarget} /\ Mode!NextTarget \notin cases

\* Only the target that was being written when the cancel came is done after it.
ModeCancel ==
  /\ overrun \in {0, 1}
  /\ job = "running" \/ pc = "commit" => overrun = 0

ModeInv ==
  /\ ModeStages /\ ModeCases /\ ModeCancel
  /\ Mode!WidensWhenUncertain /\ Mode!SucceededIsWhole

\* What an ingestion has written of its session's nodes; only a live one has a checkout.
IngestInv ==
  /\ DOMAIN source \subseteq Routes /\ DOMAIN declaredFacts \subseteq Routes
  /\ ing \in {"idle", "cloned", "written"}
  /\ ing \in {"cloned", "written"} => \A r \in Routes : nodes[r].vec = nodes[r].sha
  /\ ing = "cloned" => nodes = ingested
  /\ ing = "written" => \A r \in DOMAIN declaredFacts : nodes[r].sha = declaredFacts[r]
  /\ ing = "written" =>
       \A r \in Routes \ DOMAIN declaredFacts : nodes[r] = ingested[r]
  /\ Brain!IngestIsWhole

\* A model that was refused for the day, as a call that began on some day sees it.
ChainRefused(m, c, refusals) == refusals[m] > 0 /\ refusals[m] >= c.since - 1

\* A call of the chain that met no transient failure was refused by each model it left.
ChainCall(c, refusals, day) ==
  /\ c.since <= day
  /\ c.state \in {"look", "clear", "mark"} => c.chain
  /\ c.state \in {"look", "clear", "ask", "mark"} =>
       /\ c.outcome = "none" /\ c.model <= ChainLength
       /\ c.chain /\ ~c.transient =>
            \A m \in Chain!Models : m < c.model => ChainRefused(m, c, refusals)
  /\ c.state = "mark" => refusals[c.model] > 0 /\ refusals[c.model] >= day - 1
  /\ c.outcome = "exhausted" =>
       ~c.transient /\ \A m \in Chain!Models : ChainRefused(m, c, refusals)

\* A mark is of a refusal, and ends the second midnight after it at the latest.
ChainInv ==
  /\ Chain!TypeOK
  /\ \A m \in Chain!Models :
       /\ refusedOn[m] <= today
       /\ registry[m] # 0 => refusedOn[m] > 0 /\ registry[m] <= refusedOn[m] + 2
  /\ \A t \in Threads : ChainCall(call[t], refusedOn, today)

-----------------------------------------------------------------------------
\* What the actions name of the other variables does not matter to the scope of a sweep.
LEMMA ModeScope ==
  ASSUME Mode!WidensWhenUncertain, pc' # "start" \/ UNCHANGED <<pc, uncertain, targets>>,
         UNCHANGED <<brain, layers>>
  PROVE  Mode!WidensWhenUncertain'
<1>1. Mode!InScope(Mode!FullSweep)' = Mode!InScope(Mode!FullSweep)
  BY DEF Mode!InScope, Mode!FullSweep, Mode!LayerOf
<1>2. Mode!Ordered(Mode!InScope(Mode!FullSweep))' = Mode!Ordered(Mode!InScope(Mode!FullSweep))
  BY <1>1
<1> QED
  BY <1>2 DEF Mode!WidensWhenUncertain, Mode!Bounded

LEMMA ModeParts ==
  ASSUME ModeInv
  PROVE  ModeStages /\ ModeCases /\ ModeCancel /\ Mode!WidensWhenUncertain
         /\ Mode!SucceededIsWhole
BY DEF ModeInv

\* The run begins, crawls and selects.
LEMMA ModeBeginStep ==
  ASSUME ModeInv,
         \/ \E scope \in Mode!Layers : Mode!Begin(scope)
         \/ \E result \in {"found", "failed", "flush_failed"} : Mode!Crawl(result)
         \/ Mode!StartRun
  PROVE  ModeInv'
<1> USE ModeParts
<1>1. CASE \E scope \in Mode!Layers : Mode!Begin(scope)
  <2>1. /\ pc' \in {"crawl", "select"} /\ job' = "running" /\ ended' = << >> /\ overrun' = 0
        /\ ensured' = << >> /\ inFlight' = {} /\ cases' = cases
    BY <1>1 DEF Mode!Begin
  <2>2. ModeStages' /\ ModeCancel'
    BY <2>1 DEF ModeStages, ModeCancel
  <2>3. ModeCases'
    BY <2>1 DEF ModeCases
  <2>4. Mode!WidensWhenUncertain' /\ Mode!SucceededIsWhole'
    BY <2>1 DEF Mode!WidensWhenUncertain, Mode!SucceededIsWhole
  <2> QED
    BY <2>2, <2>3, <2>4 DEF ModeInv
<1>2. CASE \E result \in {"found", "failed", "flush_failed"} : Mode!Crawl(result)
  <2>1. /\ pc = "crawl" /\ pc' = "select"
        /\ UNCHANGED <<cases, ensured, inFlight, row, verdict, findings, job, ended, overrun>>
    BY <1>2 DEF Mode!Crawl
  <2>2. ModeStages' /\ ModeCancel'
    BY <2>1 DEF ModeStages, ModeCancel
  <2>3. ModeCases'
    BY <2>1 DEF ModeCases
  <2>4. Mode!WidensWhenUncertain' /\ Mode!SucceededIsWhole'
    BY <2>1 DEF Mode!WidensWhenUncertain, Mode!SucceededIsWhole
  <2> QED
    BY <2>2, <2>3, <2>4 DEF ModeInv
<1>3. CASE Mode!StartRun
  <2>1. /\ pc = "start" /\ pc' = "ensure" /\ row' = "running"
        /\ UNCHANGED <<cases, ensured, inFlight, verdict, findings, job, ended, overrun>>
    BY <1>3 DEF Mode!StartRun
  <2>2. ModeStages' /\ ModeCancel'
    BY <2>1 DEF ModeStages, ModeCancel
  <2>3. ModeCases'
    BY <2>1 DEF ModeCases
  <2>4. Mode!WidensWhenUncertain' /\ Mode!SucceededIsWhole'
    BY <2>1 DEF Mode!WidensWhenUncertain, Mode!SucceededIsWhole
  <2> QED
    BY <2>2, <2>3, <2>4 DEF ModeInv
<1> QED
  BY <1>1, <1>2, <1>3

\* An uncertain selection sweeps everything.
LEMMA ModeSelectStep ==
  ASSUME ModeInv, NEW selected, NEW unsure \in BOOLEAN, Mode!Select(selected, unsure)
  PROVE  ModeInv'
<1> USE ModeParts
<1>1. /\ pc = "select" /\ pc' = "start" /\ uncertain' = unsure
      /\ targets' = Mode!Bounded(Mode!Ordered(Mode!InScope(Mode!Widen(selected, unsure))))
      /\ UNCHANGED <<brain, layers, cases, ensured, inFlight, row, verdict, findings, job,
                     ended, overrun>>
  BY DEF Mode!Select
<1>2. ModeStages' /\ ModeCancel' /\ Mode!SucceededIsWhole'
  BY <1>1 DEF ModeStages, ModeCancel, Mode!SucceededIsWhole
<1>3. ModeCases'
  BY <1>1 DEF ModeCases
<1>4. Mode!InScope(Mode!FullSweep)' = Mode!InScope(Mode!FullSweep)
  BY <1>1 DEF Mode!InScope, Mode!FullSweep, Mode!LayerOf
<1>5. Mode!Ordered(Mode!InScope(Mode!FullSweep))' = Mode!Ordered(Mode!InScope(Mode!FullSweep))
  BY <1>4
<1>6. unsure => targets' = Mode!Bounded(Mode!Ordered(Mode!InScope(Mode!FullSweep)))
  BY <1>1 DEF Mode!Widen
<1>7. Mode!WidensWhenUncertain'
  BY <1>1, <1>5, <1>6 DEF Mode!WidensWhenUncertain, Mode!Bounded
<1> QED
  BY <1>2, <1>3, <1>7 DEF ModeInv

\* The cases of the targets, one after the other.
LEMMA ModeEnsureStep ==
  ASSUME ModeInv, Mode!EnsureDone \/ Mode!EnsureTarget \/ Mode!CommitTarget
  PROVE  ModeInv'
<1> USE ModeParts
<1>1. CASE Mode!EnsureDone
  <2>1. /\ pc = "ensure" /\ pc' = "execute"
        /\ UNCHANGED <<cases, ensured, inFlight, row, verdict, findings, job, ended, overrun>>
    BY <1>1 DEF Mode!EnsureDone
  <2>2. ModeStages' /\ ModeCancel'
    BY <2>1 DEF ModeStages, ModeCancel
  <2>3. ModeCases'
    BY <2>1 DEF ModeCases
  <2>4. Mode!WidensWhenUncertain' /\ Mode!SucceededIsWhole'
    BY <2>1 DEF Mode!WidensWhenUncertain, Mode!SucceededIsWhole
  <2> QED
    BY <2>2, <2>3, <2>4 DEF ModeInv
<1>2. CASE Mode!EnsureTarget
  <2>1. /\ pc = "ensure" /\ job # "cancelled"
        /\ \/ Mode!NextTarget \in cases /\ inFlight' = {} /\ pc' = "commit"
           \/ Mode!NextTarget \notin cases /\ inFlight' = {Mode!NextTarget} /\ pc' = "commit"
           \/ inFlight' = {} /\ pc' = "raise"
        /\ UNCHANGED <<cases, targets, ensured, row, verdict, findings, job, ended, overrun>>
    BY <1>2 DEF Mode!EnsureTarget, Mode!StopsEnsuring, Mode!Reuse
  <2>2. ModeStages'
    BY <2>1 DEF ModeStages
  <2>3. ModeCancel'
    BY <2>1 DEF ModeCancel, ModeStages
  <2>4. Mode!NextTarget' = Mode!NextTarget
    BY <2>1 DEF Mode!NextTarget
  <2>5. ModeCases'
    BY <2>1, <2>4 DEF ModeCases
  <2>6. Mode!WidensWhenUncertain' /\ Mode!SucceededIsWhole'
    BY <2>1 DEF Mode!WidensWhenUncertain, Mode!SucceededIsWhole
  <2> QED
    BY <2>2, <2>3, <2>5, <2>6 DEF ModeInv
<1>3. CASE Mode!CommitTarget
  <2>1. /\ pc = "commit" /\ pc' = "ensure" /\ cases' = cases \cup inFlight
        /\ ensured' = Append(ensured, Mode!NextTarget) /\ inFlight' = {}
        /\ overrun' = IF job = "cancelled" THEN overrun + 1 ELSE overrun
        /\ UNCHANGED <<row, verdict, findings, job, ended>>
    BY <1>3 DEF Mode!CommitTarget
  <2>2. ModeStages'
    BY <2>1 DEF ModeStages
  <2>3. ModeCancel'
    BY <2>1 DEF ModeCancel
  <2>4. Mode!NextTarget \in cases'
    BY <2>1 DEF ModeCases
  <2>5. ensured \in Seq(cases')
    BY <2>1 DEF ModeCases
  <2>6. ensured' \in Seq(cases')
    BY <2>1, <2>4, <2>5
  <2>7. ModeCases'
    BY <2>1, <2>6 DEF ModeCases
  <2>8. Mode!WidensWhenUncertain' /\ Mode!SucceededIsWhole'
    BY <2>1 DEF Mode!WidensWhenUncertain, Mode!SucceededIsWhole
  <2> QED
    BY <2>2, <2>3, <2>7, <2>8 DEF ModeInv
<1> QED
  BY <1>1, <1>2, <1>3

\* The execution, the review and the end of the run.
LEMMA ModeFinishStep ==
  ASSUME ModeInv,
         \/ Mode!ExecuteFailed \/ \E v \in {"pass", "fail"} : Mode!Execute(v)
         \/ \E result \in {"done", "failed", "flush_failed"} : Mode!Review(result)
         \/ Mode!Score \/ Mode!Poisoned \/ Mode!Save \/ Mode!SaveFailed \/ Mode!Raise
         \/ Mode!Crash
  PROVE  ModeInv'
<1> USE ModeParts
<1>1. /\ pc # "commit" \/ Mode!Crash
      /\ pc' \in {"raise", "review", "score", "save", "idle"}
      /\ inFlight' \in {inFlight, {}} /\ UNCHANGED <<cases, ensured, overrun>>
      /\ pc # "commit" \/ inFlight' = {}
      /\ job' = job \/ (pc' = "idle" /\ job' \in {"succeeded", "failed"})
  BY DEF Mode!ExecuteFailed, Mode!Execute, Mode!Review, Mode!Score, Mode!Poisoned, Mode!Save,
     Mode!SaveFailed, Mode!Raise, Mode!Crash
<1>2. ModeCases'
  BY <1>1 DEF ModeCases
<1>3. ModeCancel'
  BY <1>1 DEF ModeCancel
<1>4. Mode!WidensWhenUncertain'
  BY <1>1 DEF Mode!WidensWhenUncertain
<1>5. ModeStages' /\ Mode!SucceededIsWhole'
  <2>1. CASE Mode!ExecuteFailed
    BY <2>1 DEF Mode!ExecuteFailed, ModeStages, Mode!SucceededIsWhole
  <2>2. CASE \E v \in {"pass", "fail"} : Mode!Execute(v)
    BY <2>2 DEF Mode!Execute, ModeStages, Mode!SucceededIsWhole
  <2>3. CASE \E result \in {"done", "failed", "flush_failed"} : Mode!Review(result)
    BY <2>3 DEF Mode!Review, ModeStages, Mode!SucceededIsWhole
  <2>4. CASE Mode!Score
    <3>1. /\ pc = "score" /\ pc' = "save" /\ UNCHANGED <<row, verdict, findings, job>>
          /\ ended = << >>
          /\ ended' = Append(ended, IF row = "passed" THEN "passed" ELSE "failed")
          /\ row \in {"passed", "failed"}
      BY <2>4 DEF Mode!Score, ModeStages
    <3>2. ended' = <<row>>
      BY <3>1
    <3> QED
      BY <3>1, <3>2 DEF ModeStages, Mode!SucceededIsWhole
  <2>5. CASE Mode!Poisoned \/ Mode!SaveFailed
    BY <2>5 DEF Mode!Poisoned, Mode!SaveFailed, ModeStages, Mode!SucceededIsWhole
  <2>6. CASE Mode!Save
    BY <2>6 DEF Mode!Save, ModeStages, Mode!SucceededIsWhole
  <2>7. CASE Mode!Raise
    <3>1. pc = "raise" /\ pc' = "idle" /\ job' # "succeeded"
      BY <2>7 DEF Mode!Raise, ModeStages
    <3> QED
      BY <3>1 DEF ModeStages, Mode!SucceededIsWhole
  <2>8. CASE Mode!Crash
    <3>1. pc # "idle" /\ pc' = "idle" /\ job' # "succeeded"
      BY <2>8 DEF Mode!Crash, ModeStages
    <3> QED
      BY <3>1 DEF ModeStages, Mode!SucceededIsWhole
  <2> QED
    BY <2>1, <2>2, <2>3, <2>4, <2>5, <2>6, <2>7, <2>8
<1> QED
  BY <1>2, <1>3, <1>4, <1>5 DEF ModeInv

\* The budget runs out or the run is cancelled, wherever it is.
LEMMA ModeInterruptStep ==
  ASSUME ModeInv, Mode!TimeOut \/ Mode!Cancel
  PROVE  ModeInv'
<1> USE ModeParts
<1>1. /\ UNCHANGED <<pc, brain, layers, uncertain, targets, cases, ensured, inFlight, row,
                     verdict, findings, ended, overrun>>
      /\ job' = job \/ (job = "running" /\ job' = "cancelled")
  BY DEF Mode!TimeOut, Mode!Cancel
<1>2. Mode!WidensWhenUncertain'
  BY <1>1, ModeScope
<1>3. ModeStages' /\ ModeCancel' /\ Mode!SucceededIsWhole'
  BY <1>1 DEF ModeStages, ModeCancel, Mode!SucceededIsWhole
<1>4. ModeCases'
  BY <1>1 DEF ModeCases, Mode!NextTarget
<1> QED
  BY <1>2, <1>3, <1>4 DEF ModeInv

\* The invariant of a run of Mode B: the other stages leave it alone.
THEOREM ModeInvariantHolds == Spec => []ModeInv
<1>1. Init => ModeInv
  BY DEF Init, Mode!Init, ModeInv, ModeStages, ModeCases, ModeCancel,
     Mode!WidensWhenUncertain, Mode!SucceededIsWhole
<1>2. ModeInv /\ UNCHANGED modeVars => ModeInv'
  <2> SUFFICES ASSUME ModeInv, UNCHANGED modeVars PROVE ModeInv'
    OBVIOUS
  <2>1. UNCHANGED <<pc, uncertain, targets, brain, layers>>
    BY DEF modeVars
  <2>2. Mode!WidensWhenUncertain'
    BY <2>1, ModeParts, ModeScope
  <2>3. (ModeStages /\ ModeCases /\ ModeCancel /\ Mode!SucceededIsWhole)'
    BY ModeParts DEF modeVars, ModeStages, ModeCases, ModeCancel, Mode!SucceededIsWhole,
       Mode!NextTarget
  <2> QED
    BY <2>2, <2>3 DEF ModeInv
<1>3. ModeInv /\ [Next]_vars => ModeInv'
  <2> SUFFICES ASSUME ModeInv, [Next]_vars PROVE ModeInv'
    OBVIOUS
  <2>1. CASE UNCHANGED modeVars
    BY <1>2, <2>1
  <2>2. CASE Mode!Next
    <3>1. CASE Mode!Select(Mode!FullSweep, FALSE)
      BY <3>1, ModeSelectStep
    <3>2. CASE \E covered \in SUBSET cases, unsure \in BOOLEAN : Mode!Select(covered, unsure)
      BY <3>2, ModeSelectStep
    <3> QED
      BY <2>2, <3>1, <3>2, ModeBeginStep, ModeEnsureStep, ModeFinishStep, ModeInterruptStep
      DEF Mode!Next
  <2> QED
    BY <2>1, <2>2 DEF Next, vars
<1> QED
  BY <1>1, <1>3, PTL DEF Spec

\* A run reports what it did (modes/mode_b.py): an uncertain scope is swept, a job that
\* succeeded stands for a whole run, and what a run paid for is kept.
THEOREM RunIsHonestHolds == Spec => []RunIsHonest
<1>1. ModeInv => RunIsHonest
  <2> SUFFICES ASSUME ModeInv PROVE Mode!DurableProgress /\ Mode!NeverRegenerates
    BY ModeParts DEF RunIsHonest, Mode!RunIsHonest, Mode!ProgressIsKept
  <2>1. Mode!DurableProgress
    BY ModeParts DEF ModeCases, Mode!DurableProgress
  <2>2. Mode!NeverRegenerates
    BY ModeParts DEF ModeCases, Mode!NeverRegenerates
  <2> QED
    BY <2>1, <2>2
<1> QED
  BY <1>1, ModeInvariantHolds, PTL

\* A cancelled run gives its worker back after at most the target it was at
\* (_is_cancelled in _ensure_cases).
THEOREM CancelFreesWorkerHolds == Spec => []CancelFreesWorker
<1>1. ModeInv => CancelFreesWorker
  BY ModeParts DEF ModeCancel, CancelFreesWorker, Mode!CancelFreesWorker
<1> QED
  BY <1>1, ModeInvariantHolds, PTL

-----------------------------------------------------------------------------
\* The ingestion, step by step; what a step does not touch it leaves as it was.
LEMMA IngestStep ==
  ASSUME IngestInv, Brain!Next
  PROVE  IngestInv'
<1> USE DEF IngestInv, Brain!IngestIsWhole, Brain!ingestVars, Brain!crawlVars
<1>1. CASE \E declared \in SUBSET Routes : Brain!Checkout([r \in declared |-> version])
  <2>1. PICK declared \in SUBSET Routes : Brain!Checkout([r \in declared |-> version])
    BY <1>1
  <2>2. /\ ing' = "cloned" /\ clone' = "live" /\ nodes' = ingested
        /\ declaredFacts' = [r \in declared |-> version] /\ UNCHANGED <<ingested, source>>
    BY <2>1 DEF Brain!Checkout
  <2> QED
    BY <2>2
<1>2. CASE Brain!Write
  <2>1. /\ ing = "cloned" /\ ing' = "written" /\ UNCHANGED <<clone, declaredFacts, ingested, source>>
        /\ nodes' = [r \in Routes |->
             IF r \notin DOMAIN declaredFacts THEN nodes[r]
             ELSE [sha |-> declaredFacts[r],
                   vec |-> IF Brain!CacheHit(nodes[r], declaredFacts[r]) THEN nodes[r].vec
                           ELSE declaredFacts[r]]]
    BY <1>2 DEF Brain!Write
  <2>2. ASSUME NEW r \in Routes \ DOMAIN declaredFacts
        PROVE  nodes'[r] = ingested[r] /\ nodes'[r].vec = nodes'[r].sha
    BY <2>1, <2>2
  <2>3. ASSUME NEW r \in DOMAIN declaredFacts
        PROVE  nodes'[r].sha = declaredFacts[r] /\ nodes'[r].vec = nodes'[r].sha
    <3>1. r \in Routes
      BY <2>3
    <3>2. nodes'[r] = [sha |-> declaredFacts[r],
                       vec |-> IF Brain!CacheHit(nodes[r], declaredFacts[r]) THEN nodes[r].vec
                               ELSE declaredFacts[r]]
      BY <2>1, <2>3, <3>1
    <3>3. nodes[r].vec = nodes[r].sha
      BY <2>1, <3>1
    <3> QED
      BY <3>2, <3>3 DEF Brain!CacheHit
  <2> QED
    BY <2>1, <2>2, <2>3
<1>3. CASE Brain!CommitIngest
  BY <1>3 DEF Brain!CommitIngest
<1>4. CASE Brain!IngestFailed \/ Brain!IngestCrash
  BY <1>4 DEF Brain!IngestFailed, Brain!IngestCrash
<1>5. CASE UNCHANGED <<ing, clone, declaredFacts, nodes, ingested, source>>
  BY <1>5
<1>6. CASE \/ Brain!Publish \/ Brain!BeginCrawl \/ Brain!Visit \/ Brain!CrawlTimeOut
           \/ Brain!EndDiscover \/ Brain!FetchFailed \/ Brain!Persist \/ Brain!Embed
           \/ Brain!EmbedFailed \/ Brain!CommitCrawl \/ Brain!RunFailed
  <2>1. UNCHANGED <<ing, clone, declaredFacts, nodes, ingested, source>>
    BY <1>6 DEF Brain!Publish, Brain!BeginCrawl, Brain!Visit, Brain!CrawlTimeOut,
       Brain!EndDiscover, Brain!FetchFailed, Brain!Persist, Brain!Embed, Brain!EmbedFailed,
       Brain!CommitCrawl, Brain!RunFailed
  <2> QED
    BY <1>5, <2>1
<1> QED
  BY <1>1, <1>2, <1>3, <1>4, <1>6 DEF Brain!Next

\* What an ingestion has written, read and committed.
THEOREM IngestInvariantHolds == Spec => []IngestInv
<1>1. Init => IngestInv
  BY DEF Init, Brain!Init, IngestInv, Brain!IngestIsWhole, Brain!Unknown
<1>2. IngestInv /\ [Next]_vars => IngestInv'
  <2>1. IngestInv /\ UNCHANGED brainVars => IngestInv'
    BY DEF IngestInv, Brain!IngestIsWhole, brainVars
  <2> QED
    BY <2>1, IngestStep DEF Next, vars
<1> QED
  BY <1>1, <1>2, PTL DEF Spec

\* An ingestion counts as a whole or not at all (ingestion/laravel, services/ingestion): the
\* part of BrainIsFaithful that is not about the crawl.
THEOREM IngestIsWholeHolds == Spec => []Brain!IngestIsWhole
<1>1. IngestInv => Brain!IngestIsWhole
  BY DEF IngestInv
<1> QED
  BY <1>1, IngestInvariantHolds, PTL

-----------------------------------------------------------------------------
\* The fields of a call, and of what a step makes of it.
LEMMA ChainCallFields ==
  ASSUME NEW c \in Chain!Call
  PROVE  /\ c.state \in {"none", "look", "clear", "ask", "mark", "done"}
         /\ c.chain \in BOOLEAN /\ c.transient \in BOOLEAN
         /\ c.model \in 1 .. ChainLength + 1 /\ c.model \in Nat
         /\ c.attempt \in 1 .. MaxAttempts /\ c.minute \in 1 .. MaxMinuteRetries
         /\ c.since \in 1 .. MaxDay /\ c.since \in Nat
         /\ c.outcome \in {"none"} \cup Chain!Outcomes
BY ChainBoundsAssumption DEF Chain!Call

LEMMA ChainCallMade ==
  ASSUME NEW c \in Chain!Call
  PROVE  /\ \A state \in {"look", "clear", "ask", "mark", "done"} :
              [c EXCEPT !.state = state] \in Chain!Call
         /\ \A outcome \in Chain!Outcomes :
              [c EXCEPT !.state = "done", !.outcome = outcome] \in Chain!Call
         /\ c.attempt < MaxAttempts => [c EXCEPT !.attempt = @ + 1] \in Chain!Call
         /\ c.minute < MaxMinuteRetries =>
              [c EXCEPT !.minute = @ + 1, !.attempt = 1] \in Chain!Call
         /\ c.model <= ChainLength =>
              [c EXCEPT !.model = @ + 1, !.attempt = 1, !.minute = 1] \in Chain!Call
         /\ [c EXCEPT !.transient = TRUE] \in Chain!Call
<1> USE ChainBoundsAssumption DEF Chain!Call
<1>1. \A state \in {"look", "clear", "ask", "mark", "done"} :
        [c EXCEPT !.state = state] \in Chain!Call
  OBVIOUS
<1>2. \A outcome \in Chain!Outcomes :
        [c EXCEPT !.state = "done", !.outcome = outcome] \in Chain!Call
  OBVIOUS
<1>3. c.attempt < MaxAttempts => [c EXCEPT !.attempt = @ + 1] \in Chain!Call
  <2>1. c.attempt < MaxAttempts => c.attempt + 1 \in 1 .. MaxAttempts
    OBVIOUS
  <2> QED
    BY <2>1
<1>4. c.minute < MaxMinuteRetries => [c EXCEPT !.minute = @ + 1, !.attempt = 1] \in Chain!Call
  <2>1. c.minute < MaxMinuteRetries => c.minute + 1 \in 1 .. MaxMinuteRetries
    OBVIOUS
  <2>2. 1 \in 1 .. MaxAttempts
    OBVIOUS
  <2> QED
    BY <2>1, <2>2
<1>5. c.model <= ChainLength =>
        [c EXCEPT !.model = @ + 1, !.attempt = 1, !.minute = 1] \in Chain!Call
  <2>1. c.model <= ChainLength => c.model + 1 \in 1 .. ChainLength + 1
    OBVIOUS
  <2>2. 1 \in 1 .. MaxAttempts /\ 1 \in 1 .. MaxMinuteRetries
    OBVIOUS
  <2> QED
    BY <2>1, <2>2
<1>6. [c EXCEPT !.transient = TRUE] \in Chain!Call
  OBVIOUS
<1> QED
  BY <1>1, <1>2, <1>3, <1>4, <1>5, <1>6

\* What a later refusal adds is not lost.
LEMMA ChainLater ==
  ASSUME NEW c \in Chain!Call, NEW r \in [Chain!Models -> Nat], NEW q \in [Chain!Models -> Nat],
         NEW day \in Nat, ChainCall(c, r, day), \A m \in Chain!Models : r[m] <= q[m]
  PROVE  ChainCall(c, q, day)
<1>1. c.model \in Nat \ {0} /\ c.since \in Nat
  BY ChainCallFields
<1>2. \A m \in Chain!Models : ChainRefused(m, c, r) => ChainRefused(m, c, q)
  BY <1>1 DEF ChainRefused
<1>3. c.state \in {"look", "clear", "ask", "mark"} => c.model \in Chain!Models
  BY <1>1, ChainBoundsAssumption DEF ChainCall, Chain!Models
<1>4. c.state = "mark" => q[c.model] > 0 /\ q[c.model] >= day - 1
  <2>1. c.state = "mark" => r[c.model] <= q[c.model] /\ r[c.model] > 0 /\ r[c.model] >= day - 1
    BY <1>3 DEF ChainCall
  <2>2. c.state = "mark" => r[c.model] \in Nat /\ q[c.model] \in Nat
    BY <1>3
  <2> QED
    BY <2>1, <2>2
<1> QED
  BY <1>2, <1>4 DEF ChainCall

\* The chain goes on from a model that refused the call, or failed it for now.
ChainNext(c) ==
  LET d == [c EXCEPT !.model = @ + 1, !.attempt = 1, !.minute = 1] IN
  IF d.model <= ChainLength THEN [d EXCEPT !.state = "look"]
  ELSE [d EXCEPT !.state = "done", !.outcome = Chain!EndOfChain(c)]

LEMMA ChainGoesOn ==
  ASSUME NEW c \in Chain!Call, NEW r \in [Chain!Models -> Nat], NEW day \in Nat,
         c.chain, c.outcome = "none", c.model <= ChainLength, c.since <= day,
         ~c.transient =>
           \A m \in Chain!Models : m <= c.model => ChainRefused(m, c, r)
  PROVE  ChainNext(c) \in Chain!Call /\ ChainCall(ChainNext(c), r, day)
<1> DEFINE d == [c EXCEPT !.model = @ + 1, !.attempt = 1, !.minute = 1]
<1> USE ChainCallFields
<1>1. d \in Chain!Call
  BY ChainCallMade
<1>2. /\ d.model = c.model + 1 /\ d.chain = c.chain /\ d.transient = c.transient
      /\ d.since = c.since /\ d.outcome = c.outcome
  BY DEF Chain!Call
<1>3. CASE d.model <= ChainLength
  <2> DEFINE e == [d EXCEPT !.state = "look"]
  <2>1. ChainNext(c) = e
    BY <1>3 DEF ChainNext
  <2>2. e \in Chain!Call
    BY <1>1, ChainCallMade
  <2>3. /\ e.state = "look" /\ e.model = c.model + 1 /\ e.chain = c.chain
        /\ e.transient = c.transient /\ e.since = c.since /\ e.outcome = "none"
        /\ e.model <= ChainLength
    BY <1>1, <1>2, <1>3 DEF Chain!Call
  <2> HIDE DEF e, d
  <2>4. ~e.transient => \A m \in Chain!Models : m < e.model => ChainRefused(m, e, r)
    BY <2>3 DEF ChainRefused, Chain!Models
  <2>5. ChainCall(e, r, day)
    BY <2>3, <2>4 DEF ChainCall
  <2> QED
    BY <2>1, <2>2, <2>5
<1>4. CASE ~(d.model <= ChainLength)
  <2> DEFINE o == Chain!EndOfChain(c)
  <2> DEFINE e == [d EXCEPT !.state = "done", !.outcome = o]
  <2>1. ChainNext(c) = e
    BY <1>4 DEF ChainNext
  <2>2. o \in Chain!Outcomes /\ (o = "exhausted" => ~c.transient)
    BY DEF Chain!EndOfChain, Chain!Outcomes
  <2>3. e \in Chain!Call
    BY <1>1, <2>2, ChainCallMade
  <2>4. /\ e.state = "done" /\ e.transient = c.transient /\ e.since = c.since
        /\ e.outcome = o
    BY <1>1, <1>2 DEF Chain!Call
  <2>5. c.model = ChainLength
    BY <1>2, <1>4, ChainBoundsAssumption
  <2> HIDE DEF e, d, o
  <2>6. ~e.transient => \A m \in Chain!Models : ChainRefused(m, e, r)
    BY <2>4, <2>5 DEF ChainRefused, Chain!Models
  <2>7. ChainCall(e, r, day)
    BY <2>2, <2>4, <2>6 DEF ChainCall
  <2> QED
    BY <2>1, <2>3, <2>7
<1> QED
  BY <1>3, <1>4

\* The shape of a thread's step: its call becomes d, the registry and the refusals move on.
LEMMA ChainThread ==
  ASSUME ChainInv, NEW t \in Threads, NEW d \in Chain!Call,
         call' = [call EXCEPT ![t] = d], ChainCall(d, refusedOn', today),
         today' = today, registry' \in [Chain!Models -> 0 .. MaxDay + 1],
         refusedOn' \in [Chain!Models -> 0 .. MaxDay],
         \A m \in Chain!Models :
           /\ refusedOn[m] <= refusedOn'[m] /\ refusedOn'[m] <= today
           /\ registry'[m] # 0 => refusedOn'[m] > 0 /\ registry'[m] <= refusedOn'[m] + 2
  PROVE  ChainInv'
<1>1. /\ call \in [Threads -> Chain!Call] /\ today \in Nat
      /\ refusedOn \in [Chain!Models -> Nat] /\ refusedOn' \in [Chain!Models -> Nat]
  BY ChainBoundsAssumption DEF ChainInv, Chain!TypeOK
<1>2. Chain!TypeOK'
  BY <1>1 DEF ChainInv, Chain!TypeOK
<1>3. ASSUME NEW u \in Threads PROVE ChainCall(call'[u], refusedOn', today')
  <2>1. CASE u = t
    BY <1>1, <2>1
  <2>2. CASE u # t
    <3>1. call'[u] = call[u] /\ call[u] \in Chain!Call
      BY <1>1, <2>2
    <3>2. ChainCall(call[u], refusedOn, today)
      BY DEF ChainInv
    <3>3. ChainCall(call[u], refusedOn', today)
      BY <1>1, <3>1, <3>2, ChainLater
    <3> QED
      BY <3>1, <3>3
  <2> QED
    BY <2>1, <2>2
<1> QED
  BY <1>2, <1>3 DEF ChainInv

LEMMA ChainStays ==
  ASSUME ChainInv, NEW t \in Threads, NEW d \in Chain!Call,
         call' = [call EXCEPT ![t] = d], ChainCall(d, refusedOn, today),
         UNCHANGED <<today, registry, refusedOn>>
  PROVE  ChainInv'
<1>1. /\ registry' \in [Chain!Models -> 0 .. MaxDay + 1]
      /\ refusedOn' \in [Chain!Models -> 0 .. MaxDay]
      /\ \A m \in Chain!Models :
           /\ refusedOn[m] <= refusedOn'[m] /\ refusedOn'[m] <= today
           /\ registry'[m] # 0 => refusedOn'[m] > 0 /\ registry'[m] <= refusedOn'[m] + 2
  BY ChainBoundsAssumption DEF ChainInv, Chain!TypeOK
<1> QED
  BY <1>1, ChainThread

\* What is known of the call a step is about.
LEMMA ChainKnown ==
  ASSUME ChainInv, NEW t \in Threads
  PROVE  /\ call[t] \in Chain!Call /\ ChainCall(call[t], refusedOn, today)
         /\ today \in 1 .. MaxDay /\ today \in Nat
         /\ refusedOn \in [Chain!Models -> Nat] /\ refusedOn \in [Chain!Models -> 0 .. MaxDay]
         /\ registry \in [Chain!Models -> 0 .. MaxDay + 1]
         /\ call[t].state \in {"look", "clear", "ask", "mark"} => call[t].model \in Chain!Models
<1>1. /\ call \in [Threads -> Chain!Call] /\ today \in 1 .. MaxDay
      /\ refusedOn \in [Chain!Models -> 0 .. MaxDay]
      /\ registry \in [Chain!Models -> 0 .. MaxDay + 1]
  BY DEF ChainInv, Chain!TypeOK
<1>2. call[t] \in Chain!Call
  BY <1>1
<1>3. ChainCall(call[t], refusedOn, today)
  BY DEF ChainInv
<1>4. call[t].model \in 1 .. ChainLength + 1
  BY <1>2, ChainCallFields
<1>5. call[t].state \in {"look", "clear", "ask", "mark"} => call[t].model \in Chain!Models
  BY <1>3, <1>4, ChainBoundsAssumption DEF ChainCall, Chain!Models
<1> QED
  BY <1>1, <1>2, <1>3, <1>5, ChainBoundsAssumption

\* A call that ends otherwise than in exhaustion claims nothing.
LEMMA ChainEnds ==
  ASSUME ChainInv, NEW t \in Threads, NEW o \in Chain!Outcomes \ {"exhausted"},
         Chain!Ended(t, o)
  PROVE  \E d \in Chain!Call : /\ call' = [call EXCEPT ![t] = d]
                               /\ d.state = "done" /\ d.outcome = o /\ d.since = call[t].since
                               /\ \A r : ChainCall(d, r, today)
<1> DEFINE d == [call[t] EXCEPT !.state = "done", !.outcome = o]
<1>1. call[t] \in Chain!Call /\ call[t].since <= today
  BY ChainKnown DEF ChainCall
<1>2. d \in Chain!Call
  BY <1>1, ChainCallMade
<1>3. d.state = "done" /\ d.outcome = o /\ d.since = call[t].since
  BY <1>1 DEF Chain!Call
<1>4. call' = [call EXCEPT ![t] = d]
  BY DEF Chain!Ended, Chain!Set
<1> HIDE DEF d
<1>5. \A r : ChainCall(d, r, today)
  BY <1>1, <1>3 DEF ChainCall
<1> QED
  BY <1>2, <1>3, <1>4, <1>5

\* A call begins, looks a model up, clears a mark that midnight has overtaken.
LEMMA ChainBeginStep ==
  ASSUME ChainInv, NEW t \in Threads, NEW chain \in BOOLEAN, NEW truncate \in BOOLEAN,
         NEW n, Chain!Begin(t, chain, n, truncate)
  PROVE  ChainInv'
<1> USE ChainBoundsAssumption
<1>1. today \in 1 .. MaxDay /\ today \in Nat
  BY ChainKnown
<1> DEFINE d == [Chain!NoCall EXCEPT !.state = IF chain THEN "look" ELSE "ask",
                                      !.chain = chain, !.since = today]
           e == [Chain!NoCall EXCEPT !.state = "done", !.outcome = "over budget"]
<1>2. /\ call' = [call EXCEPT ![t] = d] \/ call' = [call EXCEPT ![t] = e]
      /\ UNCHANGED <<today, registry, refusedOn>>
  BY DEF Chain!Begin, Chain!Set
<1>3. d \in Chain!Call /\ e \in Chain!Call
  <2>1. /\ 1 \in 1 .. ChainLength + 1 /\ 1 \in 1 .. MaxAttempts /\ 1 \in 1 .. MaxMinuteRetries
        /\ 1 \in 1 .. MaxDay
    OBVIOUS
  <2> QED
    BY <1>1, <2>1 DEF Chain!Call, Chain!NoCall, Chain!Outcomes
<1>4. /\ d.state \in {"look", "ask"} /\ (d.state = "look" => d.chain) /\ d.since = today
      /\ d.model = 1 /\ d.outcome = "none"
  BY DEF Chain!NoCall
<1>5. e.state = "done" /\ e.outcome = "over budget" /\ e.since = 1
  BY DEF Chain!NoCall
<1> HIDE DEF d, e
<1>6. ChainCall(d, refusedOn, today)
  <2>1. 1 <= ChainLength /\ \A m \in Chain!Models : ~(m < 1)
    BY DEF Chain!Models
  <2> QED
    BY <1>1, <1>4, <2>1 DEF ChainCall
<1>7. ChainCall(e, refusedOn, today)
  <2>1. 1 <= today
    BY <1>1
  <2> QED
    BY <1>5, <2>1 DEF ChainCall
<1> QED
  BY <1>2, <1>3, <1>6, <1>7, ChainStays

LEMMA ChainLookStep ==
  ASSUME ChainInv, NEW t \in Threads, Chain!LookUp(t)
  PROVE  ChainInv'
<1> DEFINE c == call[t]
<1>1. /\ c \in Chain!Call /\ ChainCall(c, refusedOn, today) /\ today \in Nat
      /\ refusedOn \in [Chain!Models -> Nat] /\ registry \in [Chain!Models -> 0 .. MaxDay + 1]
      /\ c.state = "look" /\ c.model \in Chain!Models
      /\ UNCHANGED <<today, registry, refusedOn>>
  BY ChainKnown DEF Chain!LookUp
<1>2. /\ c.chain /\ c.outcome = "none" /\ c.model <= ChainLength /\ c.since <= today
      /\ c.since \in Nat /\ c.model \in Nat
      /\ ~c.transient => \A m \in Chain!Models : m < c.model => ChainRefused(m, c, refusedOn)
  BY <1>1, ChainCallFields DEF ChainCall
<1>3. \/ \E state \in {"ask", "clear"} : call' = [call EXCEPT ![t] = [c EXCEPT !.state = state]]
      \/ /\ registry[c.model] # 0 /\ ~(today >= registry[c.model])
         /\ call' = [call EXCEPT ![t] = ChainNext(c)]
  BY DEF Chain!LookUp, Chain!Set, Chain!Advance, ChainNext
<1>4. CASE \E state \in {"ask", "clear"} : call' = [call EXCEPT ![t] = [c EXCEPT !.state = state]]
  <2>1. PICK state \in {"ask", "clear"} : call' = [call EXCEPT ![t] = [c EXCEPT !.state = state]]
    BY <1>4
  <2> DEFINE d == [c EXCEPT !.state = state]
  <2>2. d \in Chain!Call
    BY <1>1, ChainCallMade
  <2>3. /\ d.state = state /\ d.chain = c.chain /\ d.model = c.model /\ d.since = c.since
        /\ d.outcome = c.outcome /\ d.transient = c.transient
    BY <1>1 DEF Chain!Call
  <2> HIDE DEF d, c
  <2>4. ChainCall(d, refusedOn, today)
    BY <1>2, <2>3 DEF ChainCall, ChainRefused
  <2> QED
    BY <1>1, <2>1, <2>2, <2>4, ChainStays DEF d
<1>5. CASE /\ registry[c.model] # 0 /\ ~(today >= registry[c.model])
           /\ call' = [call EXCEPT ![t] = ChainNext(c)]
  <2>1. /\ refusedOn[c.model] > 0 /\ registry[c.model] <= refusedOn[c.model] + 2
        /\ registry[c.model] \in Nat /\ refusedOn[c.model] \in Nat
    BY <1>1, <1>5, ChainBoundsAssumption DEF ChainInv
  <2> HIDE DEF c
  <2>2. ChainRefused(c.model, c, refusedOn)
    BY <1>1, <1>2, <1>5, <2>1 DEF ChainRefused
  <2>3. ~c.transient => \A m \in Chain!Models : m <= c.model => ChainRefused(m, c, refusedOn)
    BY <1>2, <2>2 DEF Chain!Models
  <2>4. ChainNext(c) \in Chain!Call /\ ChainCall(ChainNext(c), refusedOn, today)
    BY <1>1, <1>2, <2>3, ChainGoesOn
  <2> QED
    BY <1>1, <1>5, <2>4, ChainStays
<1> QED
  BY <1>3, <1>4, <1>5

LEMMA ChainClearStep ==
  ASSUME ChainInv, NEW t \in Threads, Chain!Clear(t)
  PROVE  ChainInv'
<1> DEFINE c == call[t]
<1>1. /\ c \in Chain!Call /\ ChainCall(c, refusedOn, today) /\ today \in Nat
      /\ refusedOn \in [Chain!Models -> Nat] /\ registry \in [Chain!Models -> 0 .. MaxDay + 1]
      /\ c.state = "clear" /\ c.model \in Chain!Models
      /\ UNCHANGED <<today, refusedOn>>
  BY ChainKnown DEF Chain!Clear
<1>2. CASE registry[c.model] = 0
  <2>1. Chain!Ended(t, "key error") /\ UNCHANGED registry
    BY <1>2 DEF Chain!Clear
  <2> QED
    BY <1>1, <2>1, ChainEnds, ChainStays DEF Chain!Outcomes
<1>3. CASE registry[c.model] # 0
  <2> DEFINE d == [c EXCEPT !.state = "ask"]
  <2>1. registry' = [registry EXCEPT ![c.model] = 0] /\ call' = [call EXCEPT ![t] = d]
    BY <1>3 DEF Chain!Clear, Chain!Set
  <2>2. d \in Chain!Call
    BY <1>1, ChainCallMade
  <2>3. /\ d.state = "ask" /\ d.chain = c.chain /\ d.model = c.model /\ d.since = c.since
        /\ d.outcome = c.outcome /\ d.transient = c.transient
    BY <1>1 DEF Chain!Call
  <2>4. /\ registry' \in [Chain!Models -> 0 .. MaxDay + 1]
        /\ \A m \in Chain!Models : registry'[m] # 0 => registry'[m] = registry[m]
    BY <1>1, <2>1, ChainBoundsAssumption
  <2> HIDE DEF d, c
  <2>5. ChainCall(d, refusedOn, today)
    BY <1>1, <2>3 DEF ChainCall, ChainRefused
  <2>6. refusedOn' \in [Chain!Models -> 0 .. MaxDay]
    BY <1>1, ChainKnown
  <2>7. \A m \in Chain!Models :
          /\ refusedOn[m] <= refusedOn'[m] /\ refusedOn'[m] <= today
          /\ registry'[m] # 0 => refusedOn'[m] > 0 /\ registry'[m] <= refusedOn'[m] + 2
    BY <1>1, <2>4 DEF ChainInv
  <2> QED
    BY <1>1, <2>1, <2>2, <2>4, <2>5, <2>6, <2>7, ChainThread
<1> QED
  BY <1>2, <1>3

\* The API answers; a refusal for the day is of the model that was asked.
LEMMA ChainAskStep ==
  ASSUME ChainInv, NEW t \in Threads, NEW reply \in Chain!Answers, Chain!Ask(t, reply)
  PROVE  ChainInv'
<1> DEFINE c == call[t]
<1>1. /\ c \in Chain!Call /\ ChainCall(c, refusedOn, today)
      /\ today \in 1 .. MaxDay /\ today \in Nat
      /\ refusedOn \in [Chain!Models -> Nat] /\ refusedOn \in [Chain!Models -> 0 .. MaxDay]
      /\ registry \in [Chain!Models -> 0 .. MaxDay + 1]
      /\ c.state = "ask" /\ c.model \in Chain!Models
  BY ChainKnown DEF Chain!Ask
<1>2. /\ refusedOn' = IF reply = "day" THEN [refusedOn EXCEPT ![c.model] = today]
                      ELSE refusedOn
      /\ UNCHANGED <<today, registry>>
  BY DEF Chain!Ask
<1>3. c.outcome = "none" /\ c.model <= ChainLength /\ c.since <= today
  BY <1>1 DEF ChainCall
<1>4. \/ \E o \in Chain!Outcomes \ {"exhausted"} : Chain!Ended(t, o)
      \/ /\ c.attempt < MaxAttempts
         /\ call' = [call EXCEPT ![t] = [c EXCEPT !.attempt = @ + 1]]
      \/ /\ c.minute < MaxMinuteRetries
         /\ call' = [call EXCEPT ![t] = [c EXCEPT !.minute = @ + 1, !.attempt = 1]]
      \/ reply = "day" /\ c.chain /\ call' = [call EXCEPT ![t] = [c EXCEPT !.state = "mark"]]
      \/ c.chain /\ call' = [call EXCEPT ![t] = ChainNext([c EXCEPT !.transient = TRUE])]
  <2>1. CASE c.chain
    <3>1. Chain!AskInChain(t, c, reply)
      BY <2>1 DEF Chain!Ask
    <3> QED
      BY <2>1, <3>1 DEF Chain!AskInChain, Chain!Again, Chain!GiveUp, Chain!Advance, Chain!Set,
         ChainNext, Chain!Outcomes
  <2>2. CASE ~c.chain
    <3>1. Chain!AskAlone(t, c, reply)
      BY <2>2 DEF Chain!Ask
    <3> QED
      BY <3>1 DEF Chain!AskAlone, Chain!Again, Chain!Set, Chain!Outcomes
  <2> QED
    BY <2>1, <2>2
<1> HIDE DEF c
<1>5. /\ refusedOn' \in [Chain!Models -> 0 .. MaxDay] /\ refusedOn' \in [Chain!Models -> Nat]
      /\ \A m \in Chain!Models : refusedOn'[m] \in {refusedOn[m], today}
  BY <1>1, <1>2, ChainBoundsAssumption
<1>6. \A m \in Chain!Models :
        /\ refusedOn[m] <= refusedOn'[m] /\ refusedOn'[m] <= today
        /\ registry'[m] # 0 => refusedOn'[m] > 0 /\ registry'[m] <= refusedOn'[m] + 2
  <2> SUFFICES ASSUME NEW m \in Chain!Models
               PROVE  /\ refusedOn[m] <= refusedOn'[m] /\ refusedOn'[m] <= today
                      /\ registry[m] # 0 =>
                           refusedOn'[m] > 0 /\ registry[m] <= refusedOn'[m] + 2
    BY <1>2
  <2>1. /\ refusedOn[m] <= today /\ refusedOn[m] \in Nat /\ registry[m] \in Nat
        /\ registry[m] # 0 => refusedOn[m] > 0 /\ registry[m] <= refusedOn[m] + 2
    BY <1>1, ChainBoundsAssumption DEF ChainInv
  <2>2. refusedOn'[m] = refusedOn[m] \/ refusedOn'[m] = today
    BY <1>5
  <2> QED
    BY <1>1, <2>1, <2>2
<1>7. registry' \in [Chain!Models -> 0 .. MaxDay + 1] /\ today' = today
  BY <1>1, <1>2
<1>8. ASSUME NEW d \in Chain!Call, call' = [call EXCEPT ![t] = d],
             ChainCall(d, refusedOn', today)
      PROVE  ChainInv'
  BY <1>5, <1>6, <1>7, <1>8, ChainThread
<1>9. ASSUME NEW d \in Chain!Call, call' = [call EXCEPT ![t] = d],
             ChainCall(d, refusedOn, today)
      PROVE  ChainInv'
  <2>1. ChainCall(d, refusedOn', today)
    BY <1>1, <1>5, <1>6, <1>9, ChainLater
  <2> QED
    BY <1>8, <1>9, <2>1
<1>10. CASE \E o \in Chain!Outcomes \ {"exhausted"} : Chain!Ended(t, o)
  BY <1>9, <1>10, ChainEnds
<1>11. CASE /\ c.attempt < MaxAttempts
            /\ call' = [call EXCEPT ![t] = [c EXCEPT !.attempt = @ + 1]]
  <2> DEFINE d == [c EXCEPT !.attempt = @ + 1]
  <2>1. d \in Chain!Call
    BY <1>1, <1>11, ChainCallMade
  <2>2. /\ d.state = c.state /\ d.chain = c.chain /\ d.model = c.model /\ d.since = c.since
        /\ d.outcome = c.outcome /\ d.transient = c.transient
    BY <1>1 DEF Chain!Call
  <2> HIDE DEF d
  <2>3. ChainCall(d, refusedOn, today)
    BY <1>1, <2>2 DEF ChainCall, ChainRefused
  <2> QED
    BY <1>9, <1>11, <2>1, <2>3 DEF d
<1>12. CASE /\ c.minute < MaxMinuteRetries
            /\ call' = [call EXCEPT ![t] = [c EXCEPT !.minute = @ + 1, !.attempt = 1]]
  <2> DEFINE d == [c EXCEPT !.minute = @ + 1, !.attempt = 1]
  <2>1. d \in Chain!Call
    BY <1>1, <1>12, ChainCallMade
  <2>2. /\ d.state = c.state /\ d.chain = c.chain /\ d.model = c.model /\ d.since = c.since
        /\ d.outcome = c.outcome /\ d.transient = c.transient
    BY <1>1 DEF Chain!Call
  <2> HIDE DEF d
  <2>3. ChainCall(d, refusedOn, today)
    BY <1>1, <2>2 DEF ChainCall, ChainRefused
  <2> QED
    BY <1>9, <1>12, <2>1, <2>3 DEF d
<1>13. CASE /\ reply = "day" /\ c.chain
            /\ call' = [call EXCEPT ![t] = [c EXCEPT !.state = "mark"]]
  <2> DEFINE d == [c EXCEPT !.state = "mark"]
  <2>1. d \in Chain!Call
    BY <1>1, ChainCallMade
  <2>2. /\ d.state = "mark" /\ d.chain = c.chain /\ d.model = c.model /\ d.since = c.since
        /\ d.outcome = c.outcome /\ d.transient = c.transient
    BY <1>1 DEF Chain!Call
  <2> HIDE DEF d
  <2>3. ChainCall(c, refusedOn', today)
    BY <1>1, <1>5, <1>6, ChainLater
  <2>4. refusedOn'[c.model] = today
    BY <1>1, <1>2, <1>13
  <2>5. today > 0 /\ today >= today - 1
    BY <1>1
  <2>6. ChainCall(d, refusedOn', today)
    BY <1>1, <1>13, <2>2, <2>3, <2>4, <2>5 DEF ChainCall, ChainRefused
  <2> QED
    BY <1>8, <1>13, <2>1, <2>6 DEF d
<1>14. CASE /\ c.chain
            /\ call' = [call EXCEPT ![t] = ChainNext([c EXCEPT !.transient = TRUE])]
  <2> DEFINE d == [c EXCEPT !.transient = TRUE]
  <2>1. d \in Chain!Call
    BY <1>1, ChainCallMade
  <2>2. /\ d.chain = c.chain /\ d.model = c.model /\ d.since = c.since
        /\ d.outcome = c.outcome /\ d.transient
    BY <1>1 DEF Chain!Call
  <2> HIDE DEF d
  <2>3. ChainNext(d) \in Chain!Call /\ ChainCall(ChainNext(d), refusedOn, today)
    BY <1>1, <1>3, <1>14, <2>1, <2>2, ChainGoesOn
  <2> QED
    BY <1>9, <1>14, <2>3 DEF d
<1> QED
  BY <1>4, <1>10, <1>11, <1>12, <1>13, <1>14

\* The refusal is marked, at the latest on the day after it.
LEMMA ChainMarkStep ==
  ASSUME ChainInv, NEW t \in Threads, Chain!Mark(t)
  PROVE  ChainInv'
<1> DEFINE c == call[t]
<1>1. /\ c \in Chain!Call /\ ChainCall(c, refusedOn, today)
      /\ today \in 1 .. MaxDay /\ today \in Nat
      /\ refusedOn \in [Chain!Models -> Nat] /\ refusedOn \in [Chain!Models -> 0 .. MaxDay]
      /\ registry \in [Chain!Models -> 0 .. MaxDay + 1]
      /\ c.state = "mark" /\ c.model \in Chain!Models
      /\ registry' = [registry EXCEPT ![c.model] = today + 1]
      /\ UNCHANGED <<today, refusedOn>>
  BY ChainKnown DEF Chain!Mark
<1>2. call' = [call EXCEPT ![t] = ChainNext(c)]
  BY DEF Chain!Mark, Chain!Advance, Chain!Set, ChainNext
<1>3. /\ c.chain /\ c.outcome = "none" /\ c.model <= ChainLength /\ c.since <= today
      /\ c.since \in Nat /\ c.model \in Nat
      /\ ~c.transient => \A m \in Chain!Models : m < c.model => ChainRefused(m, c, refusedOn)
      /\ refusedOn[c.model] > 0 /\ refusedOn[c.model] >= today - 1
      /\ refusedOn[c.model] \in Nat
  BY <1>1, ChainCallFields DEF ChainCall
<1> HIDE DEF c
<1>4. ChainRefused(c.model, c, refusedOn)
  BY <1>1, <1>3 DEF ChainRefused
<1>5. ~c.transient => \A m \in Chain!Models : m <= c.model => ChainRefused(m, c, refusedOn)
  BY <1>3, <1>4 DEF Chain!Models
<1>6. ChainNext(c) \in Chain!Call /\ ChainCall(ChainNext(c), refusedOn, today)
  BY <1>1, <1>3, <1>5, ChainGoesOn
<1>7. registry' \in [Chain!Models -> 0 .. MaxDay + 1]
  <2>1. today + 1 \in 0 .. MaxDay + 1
    BY <1>1, ChainBoundsAssumption
  <2> QED
    BY <1>1, <2>1
<1>8. \A m \in Chain!Models :
        /\ refusedOn[m] <= refusedOn'[m] /\ refusedOn'[m] <= today
        /\ registry'[m] # 0 => refusedOn'[m] > 0 /\ registry'[m] <= refusedOn'[m] + 2
  <2> SUFFICES ASSUME NEW m \in Chain!Models
               PROVE  /\ refusedOn[m] <= refusedOn[m] /\ refusedOn[m] <= today
                      /\ registry'[m] # 0 =>
                           refusedOn[m] > 0 /\ registry'[m] <= refusedOn[m] + 2
    BY <1>1
  <2>1. /\ refusedOn[m] <= today /\ refusedOn[m] \in Nat
        /\ registry[m] # 0 => refusedOn[m] > 0 /\ registry[m] <= refusedOn[m] + 2
    BY <1>1 DEF ChainInv
  <2>2. CASE m = c.model
    <3>1. registry'[m] = today + 1
      BY <1>1, <2>2
    <3> QED
      BY <1>1, <1>3, <2>1, <2>2, <3>1
  <2>3. CASE m # c.model
    <3>1. registry'[m] = registry[m]
      BY <1>1, <2>3
    <3> QED
      BY <2>1, <3>1
  <2> QED
    BY <2>2, <2>3
<1> QED
  BY <1>1, <1>2, <1>6, <1>7, <1>8, ChainThread

\* A day ends: what was refused on it, and is not marked yet, was refused the day before.
LEMMA ChainMidnightStep ==
  ASSUME ChainInv, Chain!Midnight
  PROVE  ChainInv'
<1>1. /\ today < MaxDay /\ today' = today + 1 /\ UNCHANGED <<registry, call, refusedOn>>
      /\ \A t \in Threads : call[t].state = "mark" => refusedOn[call[t].model] = today
      /\ today \in 1 .. MaxDay /\ today \in Nat
  BY ChainBoundsAssumption DEF Chain!Midnight, ChainInv, Chain!TypeOK
<1>2. Chain!TypeOK'
  <2>1. today + 1 \in 1 .. MaxDay
    BY <1>1, ChainBoundsAssumption
  <2> QED
    BY <1>1, <2>1 DEF ChainInv, Chain!TypeOK
<1>3. ASSUME NEW m \in Chain!Models
      PROVE  /\ refusedOn[m] <= today + 1
             /\ registry[m] # 0 => refusedOn[m] > 0 /\ registry[m] <= refusedOn[m] + 2
  <2>1. refusedOn[m] \in Nat /\ refusedOn[m] <= today
    BY ChainBoundsAssumption DEF ChainInv, Chain!TypeOK
  <2> QED
    BY <1>1, <2>1 DEF ChainInv
<1>4. ASSUME NEW t \in Threads PROVE ChainCall(call[t], refusedOn, today + 1)
  <2>1. /\ ChainCall(call[t], refusedOn, today) /\ call[t] \in Chain!Call
    BY ChainKnown
  <2>2. call[t].since <= today + 1
    BY <1>1, <2>1, ChainCallFields DEF ChainCall
  <2>3. call[t].state = "mark" =>
          refusedOn[call[t].model] > 0 /\ refusedOn[call[t].model] >= (today + 1) - 1
    BY <1>1
  <2> QED
    BY <2>1, <2>2, <2>3 DEF ChainCall
<1> QED
  BY <1>1, <1>2, <1>3, <1>4 DEF ChainInv

\* The invariant of the chain of models and of what its threads share.
THEOREM ChainInvariantHolds == Spec => []ChainInv
<1>1. Init => ChainInv
  <2> SUFFICES ASSUME Init PROVE ChainInv
    OBVIOUS
  <2>1. /\ today = 1 /\ registry = [m \in Chain!Models |-> 0]
        /\ call = [t \in Threads |-> Chain!NoCall] /\ refusedOn = [m \in Chain!Models |-> 0]
    BY DEF Init, Chain!Init
  <2>2. Chain!NoCall \in Chain!Call
    <3>1. /\ 1 \in 1 .. ChainLength + 1 /\ 1 \in 1 .. MaxAttempts
          /\ 1 \in 1 .. MaxMinuteRetries /\ 1 \in 1 .. MaxDay
      BY ChainBoundsAssumption
    <3> QED
      BY <3>1 DEF Chain!Call, Chain!NoCall
  <2>3. Chain!TypeOK
    <3>1. today \in 1 .. MaxDay /\ 0 \in 0 .. MaxDay + 1 /\ 0 \in 0 .. MaxDay
      BY <2>1, ChainBoundsAssumption
    <3> QED
      BY <2>1, <2>2, <3>1 DEF Chain!TypeOK
  <2>4. ChainCall(Chain!NoCall, refusedOn, today)
    BY <2>1 DEF ChainCall, Chain!NoCall
  <2> QED
    BY <2>1, <2>3, <2>4 DEF ChainInv
<1>2. ChainInv /\ UNCHANGED chainVars => ChainInv'
  BY DEF chainVars, ChainInv, Chain!TypeOK
<1>3. ChainInv /\ [Next]_vars => ChainInv'
  <2> SUFFICES ASSUME ChainInv, [Next]_vars PROVE ChainInv'
    OBVIOUS
  <2>1. CASE Chain!Next
    BY <2>1, ChainBeginStep, ChainLookStep, ChainClearStep, ChainAskStep, ChainMarkStep,
       ChainMidnightStep DEF Chain!Next
  <2>2. CASE UNCHANGED chainVars
    BY <1>2, <2>2
  <2> QED
    BY <2>1, <2>2 DEF Next, vars
<1> QED
  BY <1>1, <1>3, PTL DEF Spec

\* AllModelsExhausted (ai/gemini.py) is the truth: the terminal failure of a call was a
\* refusal for the day by every model, and nothing that may be tried again.
THEOREM ExhaustedIsTerminalHolds == Spec => []Chain!ExhaustedIsTerminal
<1>1. ChainInv => Chain!ExhaustedIsTerminal
  BY DEF ChainInv, ChainCall, ChainRefused, Chain!ExhaustedIsTerminal
<1> QED
  BY <1>1, ChainInvariantHolds, PTL

-----------------------------------------------------------------------------
(* The chain of models: the prompt cut to its budget. *)

\* What the next attempt to fit leaves of n characters.
Shorter(n) == n - (IF n >= 16 THEN n \div 8 ELSE 1)

LEMMA ShorterIsLess ==
  ASSUME NEW n \in Nat, n # 0
  PROVE  Shorter(n) \in Nat /\ Shorter(n) < n /\ (n >= 16 => 8 * Shorter(n) >= 7 * n)
                            /\ (n < 16 => Shorter(n) = n - 1)
<1>1. CASE n >= 16
  <2>1. n \div 8 \in Nat /\ 8 * (n \div 8) <= n /\ n \div 8 >= 1
    BY <1>1
  <2> QED
    BY <1>1, <2>1 DEF Shorter
<1>2. CASE n < 16
  BY <1>2 DEF Shorter
<1> QED
  BY <1>1, <1>2

\* The loop defines a size for every context: no attempt asks for a longer one.
CutBody(f, n) ==
  IF n = 0 THEN Fixed + Chain!Marker
  ELSE IF Chain!Tokens(Fixed + n + Chain!Marker) <= Budget THEN Fixed + n + Chain!Marker
  ELSE f[Shorter(n)]

LEMMA CutUpTo ==
  ASSUME NEW m \in Nat
  PROVE  \E f : f = [n \in 0 .. m |-> CutBody(f, n)]
<1> DEFINE Bad == {k \in Nat : ~ \E f : f = [n \in 0 .. k |-> CutBody(f, n)]}
<1> SUFFICES ASSUME Bad # {} PROVE FALSE
  OBVIOUS
<1>1. PICK k \in Bad : \A j \in Bad : k <= j
  BY NatLeast
<1>2. k # 0
  <2> SUFFICES ASSUME k = 0 PROVE FALSE
    OBVIOUS
  <2> DEFINE f == [n \in 0 .. 0 |-> Fixed + Chain!Marker]
  <2>1. f = [n \in 0 .. 0 |-> CutBody(f, n)]
    BY DEF CutBody
  <2> QED
    BY <2>1, <1>1
<1>3. k - 1 \in Nat /\ k - 1 \notin Bad
  BY <1>1, <1>2
<1>4. PICK g : g = [n \in 0 .. k - 1 |-> CutBody(g, n)]
  BY <1>3
<1> DEFINE f == [n \in 0 .. k |-> IF n < k THEN g[n] ELSE CutBody(g, k)]
<1>5. \A n \in 0 .. k : CutBody(f, n) = CutBody(g, n)
  <2> SUFFICES ASSUME NEW n \in 0 .. k, n # 0 PROVE f[Shorter(n)] = g[Shorter(n)]
    BY DEF CutBody
  <2>1. Shorter(n) \in 0 .. k /\ Shorter(n) < k
    BY ShorterIsLess
  <2> QED
    BY <2>1
<1>6. \A n \in 0 .. k : f[n] = CutBody(g, n)
  <2> SUFFICES ASSUME NEW n \in 0 .. k PROVE f[n] = CutBody(g, n)
    OBVIOUS
  <2>1. CASE n < k
    <3>1. n \in 0 .. k - 1
      BY <2>1
    <3> QED
      BY <2>1, <3>1, <1>4
  <2>2. CASE n = k
    BY <2>2
  <2> QED
    BY <2>1, <2>2
<1>7. f = [n \in 0 .. k |-> CutBody(f, n)]
  BY <1>5, <1>6
<1> QED
  BY <1>1, <1>7

LEMMA CutIsDefined ==
  Chain!Cut = [n \in 0 .. MaxContext |-> CutBody(Chain!Cut, n)]
<1>1. MaxContext \in Nat
  BY ChainBoundsAssumption
<1>2. \E f : f = [n \in 0 .. MaxContext |-> CutBody(f, n)]
  BY <1>1, CutUpTo
<1>3. \E f : f = [n \in 0 .. MaxContext |->
        IF n = 0 THEN Fixed + Chain!Marker
        ELSE IF Chain!Tokens(Fixed + n + Chain!Marker) <= Budget THEN Fixed + n + Chain!Marker
        ELSE f[n - (IF n >= 16 THEN n \div 8 ELSE 1)]]
  BY <1>2, Zenon DEF CutBody, Shorter
<1>4. Chain!Cut = [n \in 0 .. MaxContext |->
        IF n = 0 THEN Fixed + Chain!Marker
        ELSE IF Chain!Tokens(Fixed + n + Chain!Marker) <= Budget THEN Fixed + n + Chain!Marker
        ELSE Chain!Cut[n - (IF n >= 16 THEN n \div 8 ELSE 1)]]
  BY <1>3, Zenon DEF Chain!Cut
<1> QED
  BY <1>4, Zenon DEF CutBody, Shorter

\* The room left for context.
Room == 4 * Budget - Fixed - Chain!Marker

LEMMA TokensFit ==
  ASSUME NEW x \in Nat
  PROVE  Chain!Tokens(x) <= Budget <=> x <= 4 * Budget
BY ChainBoundsAssumption DEF Chain!Tokens

\* A context that is too long, or fills its room to seven eighths, is cut to what fits and
\* still fills it.
WellCut(n) ==
  LET kept == Chain!Cut[n] - Fixed - Chain!Marker
  IN Chain!Cut[n] \in Nat /\ kept \in Nat /\ kept <= Room /\ 8 * kept >= 7 * Room

LEMMA CutKeeps ==
  ASSUME Room >= 0, NEW n \in 0 .. MaxContext, n > Room \/ 8 * n >= 7 * Room
  PROVE  WellCut(n)
<1> DEFINE Bad == {k \in 0 .. MaxContext : (k > Room \/ 8 * k >= 7 * Room) /\ ~WellCut(k)}
<1> SUFFICES ASSUME Bad # {} PROVE FALSE
  OBVIOUS
<1>b. MaxContext \in Nat /\ Budget \in Nat /\ Fixed \in Nat /\ Chain!Marker = 4 /\ Room \in Nat
  BY ChainBoundsAssumption DEF Chain!Marker, Room
<1>1. Bad \subseteq Nat
  BY <1>b
<1>2. PICK k \in Bad : \A j \in Bad : k <= j
  BY <1>1, NatLeast
<1>c. k \in 0 .. MaxContext /\ k \in Nat
  BY <1>2, <1>b
<1>3. Chain!Cut[k] = CutBody(Chain!Cut, k)
  <2> HIDE DEF Bad
  <2> QED
    BY <1>c, CutIsDefined
<1>4. CASE k = 0
  <2>1. Chain!Cut[k] = Fixed + 4
    BY <1>3, <1>4, <1>b DEF CutBody
  <2>2. 0 >= 7 * Room
    BY <1>2, <1>4, <1>b
  <2> QED
    BY <1>2, <1>4, <1>b, <2>1, <2>2 DEF WellCut
<1>5. CASE k # 0 /\ k <= Room
  <2>1. Chain!Tokens(Fixed + k + Chain!Marker) <= Budget
    BY <1>5, <1>b, <1>c, TokensFit DEF Room
  <2>2. Chain!Cut[k] = Fixed + k + 4
    BY <1>3, <1>5, <1>b, <2>1 DEF CutBody
  <2> QED
    BY <1>2, <1>5, <1>b, <1>c, <2>2 DEF WellCut
<1>6. CASE k # 0 /\ k > Room
  <2>1. ~(Chain!Tokens(Fixed + k + Chain!Marker) <= Budget)
    BY <1>6, <1>b, <1>c, TokensFit DEF Room
  <2>2. Chain!Cut[k] = Chain!Cut[Shorter(k)]
    BY <1>3, <1>6, <2>1 DEF CutBody
  <2>3. /\ Shorter(k) \in 0 .. MaxContext /\ Shorter(k) < k
        /\ (k >= 16 => 8 * Shorter(k) >= 7 * k) /\ (k < 16 => Shorter(k) = k - 1)
    BY <1>6, <1>b, <1>c, ShorterIsLess
  <2>4. 8 * Shorter(k) >= 7 * Room
    BY <1>6, <1>b, <1>c, <2>3
  <2>5. Shorter(k) \notin Bad
    BY <1>2, <1>b, <1>c, <2>3
  <2>6. WellCut(Shorter(k))
    BY <2>3, <2>4, <2>5
  <2>7. WellCut(k)
    BY <2>2, <2>6 DEF WellCut
  <2> QED
    BY <1>2, <2>7
<1> QED
  BY <1>4, <1>5, <1>6, <1>b, <1>c

LEMMA CutFitsHolds == Chain!CutFits
<1> SUFFICES ASSUME NEW n \in 0 .. MaxContext,
                    Chain!Tokens(Fixed + n) > Budget, Chain!CanAssemble(n, TRUE)
             PROVE  /\ Chain!Tokens(Chain!Assembled(n)) <= Budget
                    /\ 8 * (Chain!Assembled(n) - Fixed - Chain!Marker) >= 7 * Room
  BY DEF Chain!CutFits, Room
<1>1. MaxContext \in Nat /\ Budget \in Nat /\ Fixed \in Nat /\ Chain!Marker = 4 /\ n \in Nat
  BY ChainBoundsAssumption DEF Chain!Marker
<1>2. ~(Chain!Tokens(Fixed + n) <= Budget)
  <2>1. Chain!Tokens(Fixed + n) \in Nat
    BY <1>1 DEF Chain!Tokens
  <2> QED
    BY <1>1, <2>1
<1>3. Chain!Tokens(Fixed + Chain!Marker) <= Budget
  BY <1>2 DEF Chain!CanAssemble
<1>4. Room >= 0 /\ Room \in Nat
  BY <1>1, <1>3, TokensFit DEF Room
<1>5. n > Room
  BY <1>1, <1>2, TokensFit DEF Room
<1>6. WellCut(n)
  BY <1>4, <1>5, CutKeeps
<1>7. Chain!Assembled(n) = Chain!Cut[n]
  BY <1>2 DEF Chain!Assembled
<1>8. Chain!Tokens(Chain!Cut[n]) <= Budget
  <2>1. /\ Chain!Cut[n] - Fixed - Chain!Marker \in Nat
        /\ Chain!Cut[n] - Fixed - Chain!Marker <= Room
    BY <1>6 DEF WellCut
  <2>2. Chain!Cut[n] \in Nat
    BY <1>6 DEF WellCut
  <2> QED
    BY <1>1, <1>4, <2>1, <2>2, TokensFit DEF Room
<1> QED
  BY <1>6, <1>7, <1>8 DEF WellCut

\* The chain ends as it says and no prompt is over its budget (ai/gemini.py,
\* ai/budget.py), whatever is asked, refused and waited for.
THEOREM ChainIsHonestHolds == Spec => []ChainIsHonest
<1>1. Chain!ExhaustedIsTerminal => ChainIsHonest
  BY CutFitsHolds DEF ChainIsHonest, Chain!ChainIsHonest
<1> QED
  BY <1>1, ExhaustedIsTerminalHolds, PTL

-----------------------------------------------------------------------------
(* The crawl: the queue and what a page adds to it. *)

LEMMA AppendFacts ==
  ASSUME NEW S, NEW s \in Seq(S), NEW e \in S
  PROVE  /\ Append(s, e) \in Seq(S) /\ Len(Append(s, e)) = Len(s) + 1
         /\ \A i \in 1 .. Len(s) : Append(s, e)[i] = s[i]
         /\ Append(s, e)[Len(s) + 1] = e
OBVIOUS

LEMMA JoinFacts ==
  ASSUME NEW S, NEW s \in Seq(S), NEW t \in Seq(S)
  PROVE  /\ s \o t \in Seq(S) /\ Len(s \o t) = Len(s) + Len(t)
         /\ \A i \in 1 .. Len(s) : (s \o t)[i] = s[i]
         /\ \A i \in 1 .. Len(t) : (s \o t)[Len(s) + i] = t[i]
OBVIOUS

\* popleft: the rest of the queue keeps its order.
LEMMA PopFacts ==
  ASSUME NEW S, NEW q \in Seq(S), q # << >>
  PROVE  /\ Brain!RemoveAt(q, Brain!NextIn) \in Seq(S)
         /\ Len(Brain!RemoveAt(q, Brain!NextIn)) = Len(q) - 1 /\ Len(q) >= 1
         /\ \A i \in 1 .. Len(q) - 1 : Brain!RemoveAt(q, Brain!NextIn)[i] = q[i + 1]
<1>1. Len(q) \in Nat /\ Len(q) >= 1
  OBVIOUS
<1>2. SubSeq(q, 1, 0) = << >> /\ SubSeq(q, 1, 0) \in Seq(S)
  OBVIOUS
<1>3. /\ SubSeq(q, 2, Len(q)) \in Seq(S) /\ Len(SubSeq(q, 2, Len(q))) = Len(q) - 1
      /\ \A i \in 1 .. Len(q) - 1 : SubSeq(q, 2, Len(q))[i] = q[i + 1]
  <2>1. \A i \in 2 .. Len(q) : q[i] \in S
    BY <1>1
  <2>i. 2 \in Int /\ Len(q) \in Int
    BY <1>1
  <2>2. /\ SubSeq(q, 2, Len(q)) \in Seq(S)
        /\ Len(SubSeq(q, 2, Len(q))) = IF 2 <= Len(q) THEN Len(q) - 2 + 1 ELSE 0
        /\ \A i \in 1 .. Len(q) - 2 + 1 : SubSeq(q, 2, Len(q))[i] = q[2 + i - 1]
    BY <1>1, <2>1, <2>i, SubSeqProperties
  <2>3. Len(q) - 2 + 1 = Len(q) - 1
    BY <1>1
  <2>4. \A i \in 1 .. Len(q) - 1 : q[2 + i - 1] = q[i + 1]
    BY <1>1
  <2> QED
    BY <1>1, <2>2, <2>3, <2>4
<1>4. Brain!RemoveAt(q, Brain!NextIn) = SubSeq(q, 2, Len(q))
  <2>1. Brain!RemoveAt(q, Brain!NextIn) = SubSeq(q, 1, 0) \o SubSeq(q, 2, Len(q))
    BY DEF Brain!RemoveAt, Brain!NextIn
  <2> QED
    BY <1>2, <1>3, <2>1
<1> QED
  BY <1>1, <1>3, <1>4

\* The loop over the links of a page, as far as it has gone.
LinkBody(f, n, links, known, depth) ==
  IF n = 0 THEN << >>
  ELSE IF links[n] \in known THEN f[n - 1]
  ELSE Append(f[n - 1], <<links[n], depth + 1>>)

LinkLoop(m, links, known, depth) ==
  \E f : f = [n \in 0 .. m |-> LinkBody(f, n, links, known, depth)]

LEMMA LinkLoopExists ==
  ASSUME NEW links, NEW known, NEW depth, NEW m \in Nat
  PROVE  LinkLoop(m, links, known, depth)
<1> USE DEF LinkLoop
<1> DEFINE Bad == {k \in Nat : ~ \E f : f = [n \in 0 .. k |-> LinkBody(f, n, links, known, depth)]}
<1> SUFFICES ASSUME Bad # {} PROVE FALSE
  OBVIOUS
<1>1. PICK k \in Bad : \A j \in Bad : k <= j
  BY NatLeast
<1>2. k # 0
  <2> SUFFICES ASSUME k = 0 PROVE FALSE
    OBVIOUS
  <2> DEFINE f == [n \in 0 .. 0 |-> << >>]
  <2>1. f = [n \in 0 .. 0 |-> LinkBody(f, n, links, known, depth)]
    BY DEF LinkBody
  <2> QED
    BY <2>1, <1>1
<1>3. k - 1 \in Nat /\ k - 1 \notin Bad
  BY <1>1, <1>2
<1>4. PICK g : g = [n \in 0 .. k - 1 |-> LinkBody(g, n, links, known, depth)]
  BY <1>3
<1> DEFINE f == [n \in 0 .. k |-> IF n < k THEN g[n] ELSE LinkBody(g, k, links, known, depth)]
<1>5. \A n \in 0 .. k : LinkBody(f, n, links, known, depth) = LinkBody(g, n, links, known, depth)
  <2> SUFFICES ASSUME NEW n \in 0 .. k, n # 0 PROVE f[n - 1] = g[n - 1]
    BY DEF LinkBody
  <2> QED
    OBVIOUS
<1>6. \A n \in 0 .. k : f[n] = LinkBody(g, n, links, known, depth)
  <2> SUFFICES ASSUME NEW n \in 0 .. k PROVE f[n] = LinkBody(g, n, links, known, depth)
    OBVIOUS
  <2>1. CASE n < k
    <3>1. n \in 0 .. k - 1
      BY <2>1
    <3> QED
      BY <2>1, <3>1, <1>4
  <2>2. CASE n = k
    BY <2>2
  <2> QED
    BY <2>1, <2>2
<1>7. f = [n \in 0 .. k |-> LinkBody(f, n, links, known, depth)]
  BY <1>5, <1>6
<1> QED
  BY <1>1, <1>7

\* What the loop has queued after n links: each link that is not known, one level down.
Queued(s, n, links, known, depth) ==
  /\ s \in Seq(Urls \X {depth + 1})
  /\ \A i \in 1 .. n : links[i] \notin known => \E j \in 1 .. Len(s) : s[j] = <<links[i], depth + 1>>
  /\ \A j \in 1 .. Len(s) : \E i \in 1 .. n : links[i] \notin known /\ s[j] = <<links[i], depth + 1>>

LEMMA QueuedMore ==
  ASSUME NEW links \in Seq(Urls), NEW known, NEW depth \in Nat, NEW n \in 1 .. Len(links), NEW s,
         Queued(s, n - 1, links, known, depth), links[n] \notin known
  PROVE  Queued(Append(s, <<links[n], depth + 1>>), n, links, known, depth)
<1> DEFINE e == <<links[n], depth + 1>>
           S == Urls \X {depth + 1}
<1>1. e \in S /\ s \in Seq(S)
  BY DEF Queued
<1>2. /\ Append(s, e) \in Seq(S) /\ Len(Append(s, e)) = Len(s) + 1 /\ Len(s) \in Nat
      /\ \A i \in 1 .. Len(s) : Append(s, e)[i] = s[i]
      /\ Append(s, e)[Len(s) + 1] = e
  <2> HIDE DEF e, S
  <2> QED
    BY <1>1, AppendFacts
<1> DEFINE t == Append(s, e)
<1> HIDE DEF t
<1>3. \A i \in 1 .. n : links[i] \notin known => \E j \in 1 .. Len(t) : t[j] = <<links[i], depth + 1>>
  <2> SUFFICES ASSUME NEW i \in 1 .. n, links[i] \notin known
               PROVE  \E j \in 1 .. Len(t) : t[j] = <<links[i], depth + 1>>
    OBVIOUS
  <2>1. CASE i = n
    <3>1. t[Len(s) + 1] = <<links[i], depth + 1>> /\ Len(s) + 1 \in 1 .. Len(t)
      BY <2>1, <1>2 DEF t
    <3> QED
      BY <3>1
  <2>2. CASE i # n
    <3>1. i \in 1 .. n - 1
      BY <2>2
    <3>2. PICK j \in 1 .. Len(s) : s[j] = <<links[i], depth + 1>>
      BY <3>1 DEF Queued
    <3>3. j \in 1 .. Len(t) /\ t[j] = s[j]
      BY <1>2 DEF t
    <3> QED
      BY <3>2, <3>3
  <2> QED
    BY <2>1, <2>2
<1>4. \A j \in 1 .. Len(t) : \E i \in 1 .. n : links[i] \notin known /\ t[j] = <<links[i], depth + 1>>
  <2> SUFFICES ASSUME NEW j \in 1 .. Len(t)
               PROVE  \E i \in 1 .. n : links[i] \notin known /\ t[j] = <<links[i], depth + 1>>
    OBVIOUS
  <2>1. CASE j = Len(s) + 1
    BY <2>1, <1>2 DEF t
  <2>2. CASE j # Len(s) + 1
    <3>1. j \in 1 .. Len(s) /\ t[j] = s[j]
      BY <2>2, <1>2 DEF t
    <3>2. PICK i \in 1 .. n - 1 : links[i] \notin known /\ s[j] = <<links[i], depth + 1>>
      BY <3>1 DEF Queued
    <3> QED
      BY <3>1, <3>2
  <2> QED
    BY <2>1, <2>2
<1>5. t \in Seq(S)
  BY <1>2 DEF t
<1>6. Queued(t, n, links, known, depth)
  BY <1>3, <1>4, <1>5 DEF Queued
<1> QED
  BY <1>6 DEF t

LEMMA LinkLoopQueues ==
  ASSUME NEW links \in Seq(Urls), NEW known, NEW depth \in Nat, NEW f,
         f = [n \in 0 .. Len(links) |-> LinkBody(f, n, links, known, depth)]
  PROVE  Queued(f[Len(links)], Len(links), links, known, depth)
<1> DEFINE Bad == {k \in 0 .. Len(links) : ~Queued(f[k], k, links, known, depth)}
<1> SUFFICES ASSUME Bad # {} PROVE FALSE
  OBVIOUS
<1>1. PICK k \in Bad : \A j \in Bad : k <= j
  <2>1. Bad \subseteq Nat
    OBVIOUS
  <2> QED
    BY <2>1, NatLeast
<1>2. f[k] = LinkBody(f, k, links, known, depth)
  OBVIOUS
<1>3. CASE k = 0
  <2>1. f[k] = << >>
    BY <1>2, <1>3 DEF LinkBody
  <2>2. Queued(<< >>, 0, links, known, depth)
    BY DEF Queued
  <2> QED
    BY <1>1, <1>3, <2>1, <2>2
<1>4. CASE k # 0
  <2>1. k \in 1 .. Len(links) /\ k - 1 \in 0 .. Len(links) /\ k - 1 \notin Bad
    BY <1>1, <1>4
  <2>2. Queued(f[k - 1], k - 1, links, known, depth)
    BY <2>1
  <2>3. CASE links[k] \in known
    <3>1. f[k] = f[k - 1]
      BY <1>2, <1>4, <2>3 DEF LinkBody
    <3>2. \A i \in 1 .. k : i \in 1 .. k - 1 \/ i = k
      BY <2>1
    <3>3. \A i \in 1 .. k - 1 : i \in 1 .. k
      BY <2>1
    <3>4. Queued(f[k - 1], k, links, known, depth)
      BY <2>2, <2>3, <3>2, <3>3, Zenon DEF Queued
    <3> QED
      BY <1>1, <3>1, <3>4
  <2>4. CASE links[k] \notin known
    <3>1. f[k] = Append(f[k - 1], <<links[k], depth + 1>>)
      BY <1>2, <1>4, <2>4 DEF LinkBody
    <3>2. Queued(Append(f[k - 1], <<links[k], depth + 1>>), k, links, known, depth)
      BY <2>1, <2>2, <2>4, QueuedMore
    <3> QED
      BY <1>1, <3>1, <3>2
  <2> QED
    BY <2>3, <2>4
<1> QED
  BY <1>3, <1>4

\* The links of a page, and those that a page that is visited adds to the queue.
LinksOf(st, u) == st.links[st.lands[u]]
OnSite(st, u) == Brain!ToSet(LinksOf(st, u)) \ OffOrigin

LEMMA SiteFacts ==
  ASSUME site \in Sites, NEW u \in Urls
  PROVE  /\ LinksOf(site, u) \in Seq(Urls) /\ site.lands[u] \in Urls /\ OnSite(site, u) \subseteq Urls
         /\ site.calls[u] \subseteq Routes /\ site.links[u] \in Seq(Urls)
BY SitesAssumption DEF LinksOf, OnSite, Brain!ToSet

LEMMA FoundFacts ==
  ASSUME site \in Sites, NEW u \in Urls, NEW depth \in Nat
  PROVE  /\ Brain!Found(u, depth) \in Seq(Urls \X {depth + 1})
         /\ depth < MaxDepth => \A l \in OnSite(site, u) :
              \/ l \in seen \union {u}
              \/ \E j \in 1 .. Len(Brain!Found(u, depth)) : Brain!Found(u, depth)[j] = <<l, depth + 1>>
         /\ \A j \in 1 .. Len(Brain!Found(u, depth)) :
              depth < MaxDepth /\ Brain!Found(u, depth)[j][1] \in OnSite(site, u)
<1> DEFINE known == seen \union {u} \union OffOrigin
           links == LinksOf(site, u)
<1>1. links \in Seq(Urls) /\ Len(links) \in Nat /\ DOMAIN links = 1 .. Len(links)
  BY SiteFacts
<1>4. \E ff : ff = [n \in 0 .. Len(links) |-> LinkBody(ff, n, links, known, depth)]
  <2>1. LinkLoop(Len(links), links, known, depth)
    BY <1>1, LinkLoopExists
  <2> HIDE DEF known, links
  <2> QED
    BY <2>1, Zenon DEF LinkLoop
<1>2. CASE depth < MaxDepth
  <2> DEFINE f == CHOOSE f : f = [n \in 0 .. Len(links) |->
                    IF n = 0 THEN << >>
                    ELSE IF links[n] \in known THEN f[n - 1]
                    ELSE Append(f[n - 1], <<links[n], depth + 1>>)]
  <2>1. Brain!Found(u, depth) = f[Len(links)]
    BY <1>2, Zenon DEF Brain!Found, Brain!Follows, LinksOf
  <2>3. \E ff : ff = [n \in 0 .. Len(links) |->
                    IF n = 0 THEN << >>
                    ELSE IF links[n] \in known THEN ff[n - 1]
                    ELSE Append(ff[n - 1], <<links[n], depth + 1>>)]
    BY <1>4, Zenon DEF LinkBody
  <2>4. f = [n \in 0 .. Len(links) |->
                    IF n = 0 THEN << >>
                    ELSE IF links[n] \in known THEN f[n - 1]
                    ELSE Append(f[n - 1], <<links[n], depth + 1>>)]
    BY <2>3, Zenon
  <2> HIDE DEF f, links, known
  <2>5. f = [n \in 0 .. Len(links) |-> LinkBody(f, n, links, known, depth)]
    BY <2>4, Zenon DEF LinkBody
  <2>6. Queued(f[Len(links)], Len(links), links, known, depth)
    BY <1>1, <2>5, LinkLoopQueues
  <2> DEFINE s == Brain!Found(u, depth)
  <2>7. Queued(s, Len(links), links, known, depth)
    BY <2>1, <2>6
  <2> HIDE DEF s
  <2>8. \A l \in OnSite(site, u) : \/ l \in seen \union {u}
                             \/ \E j \in 1 .. Len(s) : s[j] = <<l, depth + 1>>
    <3> SUFFICES ASSUME NEW l \in OnSite(site, u), l \notin seen \union {u}
                 PROVE  \E j \in 1 .. Len(s) : s[j] = <<l, depth + 1>>
      OBVIOUS
    <3>1. PICK i \in 1 .. Len(links) : links[i] = l
      BY <1>1 DEF OnSite, Brain!ToSet, links
    <3>2. links[i] \notin known
      BY <3>1 DEF OnSite, known
    <3> QED
      BY <2>7, <3>1, <3>2 DEF Queued
  <2>9. \A j \in 1 .. Len(s) : s[j][1] \in OnSite(site, u)
    <3> SUFFICES ASSUME NEW j \in 1 .. Len(s) PROVE s[j][1] \in OnSite(site, u)
      OBVIOUS
    <3>1. PICK i \in 1 .. Len(links) : links[i] \notin known /\ s[j] = <<links[i], depth + 1>>
      BY <2>7 DEF Queued
    <3> QED
      BY <3>1, <1>1 DEF OnSite, Brain!ToSet, known, links
  <2> QED
    BY <1>2, <2>7, <2>8, <2>9 DEF Queued, s
<1>3. CASE ~(depth < MaxDepth)
  <2>1. Brain!Found(u, depth) = << >>
    BY <1>3 DEF Brain!Found, Brain!Follows
  <2> QED
    BY <1>3, <2>1
<1> QED
  BY <1>2, <1>3

\* The pages within a distance are defined for every distance.
WithinBody(f, d) ==
  IF d = 0 THEN {StartUrl}
  ELSE f[d - 1] \union UNION {OnSite(site, u) : u \in f[d - 1]}

LEMMA WithinUpTo ==
  ASSUME NEW m \in Nat
  PROVE  \E f : f = [d \in 0 .. m |-> WithinBody(f, d)]
<1> DEFINE Bad == {k \in Nat : ~ \E f : f = [d \in 0 .. k |-> WithinBody(f, d)]}
<1> SUFFICES ASSUME Bad # {} PROVE FALSE
  OBVIOUS
<1>1. PICK k \in Bad : \A j \in Bad : k <= j
  BY NatLeast
<1>2. k # 0
  <2> SUFFICES ASSUME k = 0 PROVE FALSE
    OBVIOUS
  <2> DEFINE f == [d \in 0 .. 0 |-> {StartUrl}]
  <2>1. f = [d \in 0 .. 0 |-> WithinBody(f, d)]
    BY DEF WithinBody
  <2> QED
    BY <2>1, <1>1
<1>3. k - 1 \in Nat /\ k - 1 \notin Bad
  BY <1>1, <1>2
<1>4. PICK g : g = [d \in 0 .. k - 1 |-> WithinBody(g, d)]
  BY <1>3
<1> DEFINE f == [d \in 0 .. k |-> IF d < k THEN g[d] ELSE WithinBody(g, k)]
<1>5. \A d \in 0 .. k : WithinBody(f, d) = WithinBody(g, d)
  <2> SUFFICES ASSUME NEW d \in 0 .. k, d # 0 PROVE f[d - 1] = g[d - 1]
    BY DEF WithinBody
  <2> QED
    OBVIOUS
<1>6. \A d \in 0 .. k : f[d] = WithinBody(g, d)
  <2> SUFFICES ASSUME NEW d \in 0 .. k PROVE f[d] = WithinBody(g, d)
    OBVIOUS
  <2>1. CASE d < k
    <3>1. d \in 0 .. k - 1
      BY <2>1
    <3> QED
      BY <2>1, <3>1, <1>4
  <2>2. CASE d = k
    BY <2>2
  <2> QED
    BY <2>1, <2>2
<1>7. f = [d \in 0 .. k |-> WithinBody(f, d)]
  BY <1>5, <1>6
<1> QED
  BY <1>1, <1>7

LEMMA WithinIsDefined ==
  Brain!Within = [d \in 0 .. MaxDepth |-> WithinBody(Brain!Within, d)]
<1>1. MaxDepth \in Nat
  BY BrainBoundsAssumption
<1>2. \E f : f = [d \in 0 .. MaxDepth |-> WithinBody(f, d)]
  BY <1>1, WithinUpTo
<1>3. \E f : f = [d \in 0 .. MaxDepth |->
        IF d = 0 THEN {StartUrl}
        ELSE f[d - 1] \union
             UNION {Brain!ToSet(site.links[site.lands[u]]) \ OffOrigin : u \in f[d - 1]}]
  BY <1>2, Zenon DEF WithinBody, OnSite, LinksOf
<1>4. Brain!Within = [d \in 0 .. MaxDepth |->
        IF d = 0 THEN {StartUrl}
        ELSE Brain!Within[d - 1] \union
             UNION {Brain!ToSet(site.links[site.lands[u]]) \ OffOrigin : u \in Brain!Within[d - 1]}]
  BY <1>3, Zenon DEF Brain!Within
<1> QED
  BY <1>4, Zenon DEF WithinBody, OnSite, LinksOf

LEMMA WithinFacts ==
  /\ Brain!Within[0] = {StartUrl}
  /\ \A d \in 0 .. MaxDepth : d < MaxDepth =>
       /\ \A l \in Brain!Within[d] : l \in Brain!Within[d + 1]
       /\ \A u \in Brain!Within[d] : \A l \in OnSite(site, u) : l \in Brain!Within[d + 1]
       /\ \A l \in Brain!Within[d + 1] : l \in Brain!Within[d] \/ \E u \in Brain!Within[d] : l \in OnSite(site, u)
<1>1. MaxDepth \in Nat
  BY BrainBoundsAssumption
<1>2. Brain!Within[0] = {StartUrl}
  <2>1. 0 \in 0 .. MaxDepth
    BY <1>1
  <2>2. Brain!Within[0] = WithinBody(Brain!Within, 0)
    BY <2>1, WithinIsDefined
  <2> QED
    BY <2>2 DEF WithinBody
<1>3. ASSUME NEW d \in 0 .. MaxDepth, d < MaxDepth
      PROVE  Brain!Within[d + 1] = Brain!Within[d] \union UNION {OnSite(site, u) : u \in Brain!Within[d]}
  <2>1. d + 1 \in 0 .. MaxDepth /\ d + 1 # 0 /\ (d + 1) - 1 = d
    BY <1>1, <1>3
  <2>2. Brain!Within[d + 1] = WithinBody(Brain!Within, d + 1)
    BY <2>1, WithinIsDefined
  <2> QED
    BY <2>1, <2>2 DEF WithinBody
<1> QED
  BY <1>2, <1>3

\* What is nearer is within every greater distance.
LEMMA WithinGrows ==
  ASSUME NEW d \in 0 .. MaxDepth, NEW e \in 0 .. MaxDepth, d <= e
  PROVE  Brain!Within[d] \subseteq Brain!Within[e]
<1> DEFINE Bad == {k \in 0 .. MaxDepth : d <= k /\ ~(Brain!Within[d] \subseteq Brain!Within[k])}
<1> SUFFICES ASSUME Bad # {} PROVE FALSE
  OBVIOUS
<1>1. MaxDepth \in Nat
  BY BrainBoundsAssumption
<1>2. PICK k \in Bad : \A j \in Bad : k <= j
  <2>1. Bad \subseteq Nat
    BY <1>1
  <2> QED
    BY <2>1, NatLeast
<1>3. k # d
  BY <1>2
<1>4. k - 1 \in 0 .. MaxDepth /\ d <= k - 1 /\ k - 1 < MaxDepth /\ (k - 1) + 1 = k /\ k - 1 \notin Bad
  BY <1>1, <1>2, <1>3
<1>5. Brain!Within[d] \subseteq Brain!Within[k - 1]
  BY <1>4
<1>6. Brain!Within[k - 1] \subseteq Brain!Within[k]
  BY <1>4, WithinFacts
<1> QED
  BY <1>2, <1>5, <1>6

-----------------------------------------------------------------------------
(* The crawl: a breadth-first search. *)

\* The queue goes from near to far, at most one level down, and no page that was asked for
\* is farther than what is queued.
NearFirst(q, asked) ==
  /\ \A i, j \in DOMAIN q : i <= j => q[i][2] <= q[j][2] /\ q[j][2] <= q[i][2] + 1
  /\ \A i \in DOMAIN asked, j \in DOMAIN q : asked[i].depth <= q[j][2]

\* A page was asked for no farther than a level, or is queued to be.
Reached(q, asked, l, e) ==
  \/ \E i \in DOMAIN asked : asked[i].asked = l /\ asked[i].depth <= e
  \/ \E j \in DOMAIN q : q[j][1] = l /\ q[j][2] <= e

Snapshot == [asked : Urls, url : Urls, depth : 0 .. MaxDepth, v : Brain!Contents]

\* What is so of a crawl: a page that is queued lies within its distance, and a link of a page
\* that was asked for was reached one step farther.
CrawlTypes ==
  /\ site \in Sites /\ version \in Brain!Contents /\ crawlLate \in BOOLEAN
  /\ crawlPc \in {"idle", "discover", "persist", "embed", "commit"}
  /\ queue \in Seq(Urls \X (0 .. MaxDepth)) /\ seen \subseteq Urls
  /\ snaps \in Seq(Snapshot) /\ Len(snaps) <= MaxPages

\* Every link of a page that was asked for is reached one level below it.
CrawlInv ==
  /\ CrawlTypes
  /\ crawlPc \in {"idle", "embed", "commit"} => queue = << >> /\ seen = {} /\ snaps = << >>
  /\ NearFirst(queue, snaps)
  /\ seen = {snaps[i].asked : i \in DOMAIN snaps}
  /\ \A j \in DOMAIN queue : queue[j][1] \in Brain!Within[queue[j][2]]
  /\ crawlPc = "discover" => Reached(queue, snaps, StartUrl, 0)
  /\ \A i \in DOMAIN snaps : snaps[i].depth < MaxDepth =>
       \A l \in OnSite(site, snaps[i].asked) : Reached(queue, snaps, l, snaps[i].depth + 1)
  /\ \A i \in DOMAIN snaps : snaps[i].url = site.lands[snaps[i].asked]
  /\ Brain!CrawlIsBreadthFirst

LEMMA SnapFacts ==
  ASSUME NEW r \in Snapshot
  PROVE  r.asked \in Urls /\ r.url \in Urls /\ r.depth \in 0 .. MaxDepth /\ r.depth \in Nat
         /\ r.v \in Brain!Contents
BY BrainBoundsAssumption DEF Snapshot

\* What lies nearer than the queue was asked for, no farther than it lies.
LEMMA NearerIsAsked ==
  ASSUME CrawlInv, crawlPc = "discover", NEW d \in 0 .. MaxDepth,
         \A j \in DOMAIN queue : d < queue[j][2]
  PROVE  \A l \in Brain!Within[d] : \E i \in DOMAIN snaps : snaps[i].asked = l /\ snaps[i].depth <= d
<1> DEFINE Near(k) == \A l \in Brain!Within[k] :
                        \E i \in DOMAIN snaps : snaps[i].asked = l /\ snaps[i].depth <= k
           Bad == {k \in 0 .. d : ~Near(k)}
<1> SUFFICES ASSUME Bad # {} PROVE FALSE
  OBVIOUS
<1>1. MaxDepth \in Nat /\ d \in Nat
  BY BrainBoundsAssumption
<1>2. PICK k \in Bad : \A j \in Bad : k <= j
  <2>1. Bad \subseteq Nat
    BY <1>1
  <2> QED
    BY <2>1, NatLeast
<1>3. k \in 0 .. MaxDepth /\ k <= d
  BY <1>1, <1>2
<1>4. \A j \in DOMAIN queue : queue[j][2] \in Nat
  <2>1. queue \in Seq(Urls \X (0 .. MaxDepth))
    BY DEF CrawlInv, CrawlTypes
  <2> QED
    BY <1>1, <2>1
<1>5. ASSUME NEW l, NEW e \in Nat, e <= d, Reached(queue, snaps, l, e)
      PROVE  \E i \in DOMAIN snaps : snaps[i].asked = l /\ snaps[i].depth <= e
  <2>1. ~\E j \in DOMAIN queue : queue[j][1] = l /\ queue[j][2] <= e
    BY <1>1, <1>4, <1>5
  <2> QED
    BY <1>5, <2>1 DEF Reached
<1>6. CASE k = 0
  <2>1. Reached(queue, snaps, StartUrl, 0)
    BY DEF CrawlInv
  <2>2. \E i \in DOMAIN snaps : snaps[i].asked = StartUrl /\ snaps[i].depth <= 0
    BY <1>1, <1>5, <2>1
  <2>3. Near(0)
    BY <2>2, WithinFacts
  <2> QED
    BY <1>2, <1>6, <2>3
<1>7. CASE k # 0
  <2> DEFINE h == k - 1
  <2>1. h \in 0 .. d /\ h \in 0 .. MaxDepth /\ h < MaxDepth /\ h + 1 = k /\ h \notin Bad /\ k \in Nat /\ h \in Nat
    BY <1>1, <1>2, <1>3, <1>7
  <2>2. Near(h)
    BY <2>1
  <2> HIDE DEF h
  <2>3. ASSUME NEW l \in Brain!Within[k]
        PROVE  \E i \in DOMAIN snaps : snaps[i].asked = l /\ snaps[i].depth <= k
    <3>0. \A i \in DOMAIN snaps : snaps[i].depth \in Nat
      <4>1. snaps \in Seq(Snapshot)
        BY DEF CrawlInv, CrawlTypes
      <4> QED
        BY <4>1, SnapFacts
    <3>1. CASE l \in Brain!Within[h]
      <4>1. PICK i \in DOMAIN snaps : snaps[i].asked = l /\ snaps[i].depth <= h
        BY <2>2, <3>1
      <4> QED
        BY <2>1, <3>0, <4>1
    <3>2. CASE \E u \in Brain!Within[h] : l \in OnSite(site, u)
      <4>1. PICK u \in Brain!Within[h] : l \in OnSite(site, u)
        BY <3>2
      <4>2. PICK i \in DOMAIN snaps : snaps[i].asked = u /\ snaps[i].depth <= h
        BY <2>2
      <4>3. snaps[i].depth < MaxDepth /\ snaps[i].depth + 1 \in Nat /\ snaps[i].depth + 1 <= k
        BY <1>1, <2>1, <3>0, <4>2
      <4>4. Reached(queue, snaps, l, snaps[i].depth + 1)
        BY <4>1, <4>2, <4>3 DEF CrawlInv
      <4>5. PICK ii \in DOMAIN snaps : snaps[ii].asked = l /\ snaps[ii].depth <= snaps[i].depth + 1
        BY <1>1, <1>3, <1>5, <2>1, <4>3, <4>4
      <4> QED
        BY <2>1, <3>0, <4>3, <4>5
    <3> QED
      BY <2>1, <2>3, <3>1, <3>2, WithinFacts
  <2> QED
    BY <1>2, <2>3
<1> QED
  BY <1>6, <1>7

\* The distances are those of the site.
WithinOf(st) ==
  CHOOSE f : f = [d \in 0 .. MaxDepth |->
    IF d = 0 THEN {StartUrl}
    ELSE f[d - 1] \union UNION {Brain!ToSet(st.links[st.lands[u]]) \ OffOrigin : u \in f[d - 1]}]

LEMMA WithinStays ==
  ASSUME site' = site
  PROVE  Brain!Within' = Brain!Within
<1>1. Brain!Within = WithinOf(site)
  BY Zenon DEF Brain!Within, WithinOf
<1>2. Brain!Within' = WithinOf(site')
  BY Zenon DEF Brain!Within, WithinOf
<1> QED
  BY <1>1, <1>2

\* The pages were asked for at their distance.
AtDistance(asked) ==
  \A i \in DOMAIN asked : /\ asked[i].asked \in Brain!Within[asked[i].depth]
                          /\ asked[i].depth > 0 => asked[i].asked \notin Brain!Within[asked[i].depth - 1]

LEMMA BreadthFirstParts ==
  Brain!CrawlIsBreadthFirst <=>
    /\ AtDistance(snaps)
    /\ crawlPc = "persist" /\ ~crawlLate /\ Len(snaps) < MaxPages => seen = Brain!Within[MaxDepth]
BY DEF Brain!CrawlIsBreadthFirst, AtDistance

\* A step that leaves the search alone keeps what is known of it.
LEMMA CrawlKept ==
  ASSUME CrawlInv, UNCHANGED <<site, queue, seen, snaps>>,
         version' \in Brain!Contents, crawlLate' \in BOOLEAN,
         crawlPc' \in {"idle", "discover", "persist", "embed", "commit"},
         crawlPc' = "discover" => crawlPc = "discover",
         crawlPc' \in {"idle", "embed", "commit"} => crawlPc \in {"idle", "embed", "commit"},
         crawlPc' = "persist" /\ ~crawlLate' /\ Len(snaps) < MaxPages => seen = Brain!Within[MaxDepth]
  PROVE  CrawlInv'
<1>1. Brain!Within' = Brain!Within
  BY WithinStays
<1>2. CrawlTypes'
  BY DEF CrawlInv, CrawlTypes
<1>3. (Brain!CrawlIsBreadthFirst)'
  <2>1. AtDistance(snaps)
    BY BreadthFirstParts DEF CrawlInv
  <2> QED
    BY <1>1, <2>1 DEF Brain!CrawlIsBreadthFirst, AtDistance
<1>4. NearFirst(queue, snaps)'
  BY DEF CrawlInv, NearFirst
<1>5. /\ (crawlPc' = "discover" => Reached(queue', snaps', StartUrl, 0))
      /\ \A i \in DOMAIN snaps' : snaps'[i].depth < MaxDepth =>
           \A l \in OnSite(site', snaps'[i].asked) : Reached(queue', snaps', l, snaps'[i].depth + 1)
  BY <1>1 DEF CrawlInv
<1>6. /\ \A j \in DOMAIN queue' : queue'[j][1] \in Brain!Within'[queue'[j][2]]
      /\ \A i \in DOMAIN snaps' : snaps'[i].url = site'.lands[snaps'[i].asked]
      /\ seen' = {snaps'[i].asked : i \in DOMAIN snaps'}
  BY <1>1 DEF CrawlInv
<1>7. crawlPc' \in {"idle", "embed", "commit"} => queue' = << >> /\ seen' = {} /\ snaps' = << >>
  BY DEF CrawlInv
<1> QED
  BY <1>2, <1>3, <1>4, <1>5, <1>6, <1>7 DEF CrawlInv, Reached

\* A search that is over is forgotten.
LEMMA CrawlForgotten ==
  ASSUME CrawlInv, site' = site, version' \in Brain!Contents, crawlLate' \in BOOLEAN,
         crawlPc' \in {"idle", "embed", "commit"}, queue' = << >>, seen' = {}, snaps' = << >>
  PROVE  CrawlInv'
<1>1. CrawlTypes'
  <2>1. /\ << >> \in Seq(Urls \X (0 .. MaxDepth)) /\ << >> \in Seq(Snapshot) /\ Len(<< >>) <= MaxPages
    BY BrainBoundsAssumption
  <2> QED
    BY <2>1 DEF CrawlInv, CrawlTypes
<1>2. DOMAIN queue' = {} /\ DOMAIN snaps' = {}
  OBVIOUS
<1>3. (Brain!CrawlIsBreadthFirst)'
  BY <1>2 DEF Brain!CrawlIsBreadthFirst
<1> QED
  BY <1>1, <1>2, <1>3 DEF CrawlInv, NearFirst

LEMMA CrawlBeginStep ==
  ASSUME CrawlInv, Brain!BeginCrawl
  PROVE  CrawlInv'
<1> USE DEF Brain!BeginCrawl
<1>1. MaxDepth \in Nat /\ StartUrl \in Urls
  BY BrainBoundsAssumption
<1>2. seen = {} /\ snaps = << >> /\ DOMAIN snaps' = {}
  BY DEF CrawlInv
<1>3. <<StartUrl, 0>> \in Urls \X (0 .. MaxDepth)
  BY <1>1
<1>4. queue' \in Seq(Urls \X (0 .. MaxDepth)) /\ DOMAIN queue' = {1} /\ queue'[1] = <<StartUrl, 0>>
  BY <1>3
<1>5. CrawlTypes'
  BY <1>4 DEF CrawlInv, CrawlTypes
<1>6. NearFirst(queue, snaps)'
  BY <1>2, <1>4 DEF NearFirst
<1>7. \A j \in DOMAIN queue' : queue'[j][1] \in Brain!Within'[queue'[j][2]]
  BY <1>4, WithinStays, WithinFacts
<1>8. Reached(queue', snaps', StartUrl, 0)
  BY <1>4 DEF Reached
<1>9. (Brain!CrawlIsBreadthFirst)'
  BY <1>2 DEF Brain!CrawlIsBreadthFirst
<1> QED
  BY <1>2, <1>5, <1>6, <1>7, <1>8, <1>9 DEF CrawlInv, Reached

\* A page that is asked for joins the pages that were.
LEMMA AskedFacts ==
  ASSUME NEW s \in Seq(Snapshot), NEW r \in Snapshot
  PROVE  /\ Append(s, r) \in Seq(Snapshot) /\ Len(Append(s, r)) = Len(s) + 1 /\ Len(s) \in Nat
         /\ DOMAIN s = 1 .. Len(s) /\ DOMAIN Append(s, r) = 1 .. Len(s) + 1
         /\ \A i \in DOMAIN s : i \in DOMAIN Append(s, r) /\ Append(s, r)[i] = s[i]
         /\ Len(s) + 1 \in DOMAIN Append(s, r) /\ Append(s, r)[Len(s) + 1] = r
         /\ \A i \in DOMAIN Append(s, r) : i \in DOMAIN s \/ i = Len(s) + 1
BY AppendFacts

\* The queue after a page was taken from it: what was behind, then one level down.
QueueAfter(q2, q, u, d) ==
  /\ \A j \in 1 .. Len(q) - 1 : j \in DOMAIN q2 /\ q2[j] = q[j + 1]
  /\ \A j \in DOMAIN q2 : j \in 1 .. Len(q) - 1 \/
       (j > Len(q) - 1 /\ d < MaxDepth /\ q2[j][1] \in OnSite(site, u) /\ q2[j][2] = d + 1)

QueueType == Seq(Urls \X (0 .. MaxDepth))

LEMMA QueueFacts ==
  ASSUME NEW q \in QueueType
  PROVE  /\ DOMAIN q = 1 .. Len(q) /\ Len(q) \in Nat
         /\ \A j \in DOMAIN q : q[j][1] \in Urls /\ q[j][2] \in 0 .. MaxDepth /\ q[j][2] \in Nat
                                /\ q[j] = <<q[j][1], q[j][2]>>
         /\ q # << >> => 1 \in DOMAIN q
BY BrainBoundsAssumption DEF QueueType

\* A queue that only lost its first keeps its order; what is added to it is farther.
LEMMA NearFirstStays ==
  ASSUME NEW q \in QueueType, NEW q2 \in QueueType, NEW s, NEW u, q # << >>,
         NearFirst(q, s), QueueAfter(q2, q, u, q[1][2]),
         \A i \in DOMAIN s : s[i].depth \in Nat
  PROVE  NearFirst(q2, s) /\ \A j \in DOMAIN q2 : q[1][2] <= q2[j][2]
<1> DEFINE d == q[1][2]
<1>1. 1 \in DOMAIN q /\ d \in Nat /\ DOMAIN q = 1 .. Len(q) /\ Len(q) \in Nat
  BY QueueFacts
<1>2. DOMAIN q2 = 1 .. Len(q2) /\ Len(q2) \in Nat /\ \A j \in DOMAIN q2 : q2[j][2] \in Nat
  BY QueueFacts
<1>3. \A j \in DOMAIN q : q[j][2] \in Nat /\ d <= q[j][2] /\ q[j][2] <= d + 1
  <2>1. \A j \in DOMAIN q : q[j][2] \in Nat /\ 1 <= j
    BY <1>1, QueueFacts
  <2> QED
    BY <1>1, <2>1 DEF NearFirst
<1>4. \A j \in DOMAIN q2 : IF j <= Len(q) - 1 THEN j + 1 \in DOMAIN q /\ q2[j] = q[j + 1]
                           ELSE q2[j][2] = d + 1
  BY <1>1, <1>2 DEF QueueAfter
<1>5. \A j \in DOMAIN q2 : d <= q2[j][2] /\ q2[j][2] <= d + 1
  <2> SUFFICES ASSUME NEW j \in DOMAIN q2 PROVE d <= q2[j][2] /\ q2[j][2] <= d + 1
    OBVIOUS
  <2>1. CASE j <= Len(q) - 1
    BY <1>3, <1>4, <2>1
  <2>2. CASE ~(j <= Len(q) - 1)
    BY <1>1, <1>4, <2>2
  <2> QED
    BY <2>1, <2>2
<1>6. ASSUME NEW i \in DOMAIN q2, NEW j \in DOMAIN q2, i <= j
      PROVE  q2[i][2] <= q2[j][2] /\ q2[j][2] <= q2[i][2] + 1
  <2>1. i \in Nat /\ j \in Nat
    BY <1>2
  <2>2. CASE j <= Len(q) - 1
    <3>1. i <= Len(q) - 1 /\ i + 1 <= j + 1
      BY <1>1, <1>6, <2>1, <2>2
    <3>2. i + 1 \in DOMAIN q /\ j + 1 \in DOMAIN q /\ q2[i] = q[i + 1] /\ q2[j] = q[j + 1]
      BY <1>4, <2>2, <3>1
    <3> QED
      BY <3>1, <3>2 DEF NearFirst
  <2>3. CASE ~(j <= Len(q) - 1)
    BY <1>1, <1>2, <1>4, <1>5, <2>3
  <2> QED
    BY <2>2, <2>3
<1>7. ASSUME NEW i \in DOMAIN s, NEW j \in DOMAIN q2 PROVE s[i].depth <= q2[j][2]
  <2>1. s[i].depth <= d
    BY <1>1 DEF NearFirst
  <2> QED
    BY <1>1, <1>2, <1>5, <2>1
<1>8. NearFirst(q2, s)
  BY <1>6, <1>7 DEF NearFirst
<1> QED
  BY <1>5, <1>8

LEMMA QueueSkips ==
  ASSUME NEW q \in QueueType, q # << >>, NEW u, NEW d
  PROVE  /\ Brain!RemoveAt(q, Brain!NextIn) \in QueueType
         /\ QueueAfter(Brain!RemoveAt(q, Brain!NextIn), q, u, d)
<1> DEFINE rest == Brain!RemoveAt(q, Brain!NextIn)
<1>1. /\ rest \in QueueType /\ Len(rest) = Len(q) - 1 /\ Len(q) >= 1
      /\ \A i \in 1 .. Len(q) - 1 : rest[i] = q[i + 1]
  BY PopFacts DEF QueueType
<1> HIDE DEF rest
<1>2. DOMAIN rest = 1 .. Len(q) - 1
  BY <1>1 DEF QueueType
<1>3. QueueAfter(rest, q, u, d)
  BY <1>1, <1>2 DEF QueueAfter
<1> QED
  BY <1>1, <1>3 DEF rest

\* What a page adds may be queued.
LEMMA FoundIsQueued ==
  ASSUME site \in Sites, NEW u \in Urls, NEW d \in 0 .. MaxDepth
  PROVE  /\ Brain!Found(u, d) \in QueueType
         /\ d < MaxDepth => \A l \in OnSite(site, u) :
              \/ l \in seen \union {u}
              \/ \E j \in 1 .. Len(Brain!Found(u, d)) : Brain!Found(u, d)[j] = <<l, d + 1>>
         /\ \A j \in 1 .. Len(Brain!Found(u, d)) :
              /\ d < MaxDepth /\ Brain!Found(u, d)[j][1] \in OnSite(site, u)
              /\ Brain!Found(u, d)[j][2] = d + 1
<1> DEFINE f == Brain!Found(u, d)
<1>0. MaxDepth \in Nat /\ d \in Nat
  BY BrainBoundsAssumption
<1>1. /\ f \in Seq(Urls \X {d + 1})
      /\ d < MaxDepth => \A l \in OnSite(site, u) :
           l \in seen \union {u} \/ \E j \in 1 .. Len(f) : f[j] = <<l, d + 1>>
      /\ \A j \in 1 .. Len(f) : d < MaxDepth /\ f[j][1] \in OnSite(site, u)
  BY <1>0, FoundFacts
<1> HIDE DEF f
<1>2. \A j \in 1 .. Len(f) : f[j] \in Urls \X {d + 1} /\ f[j][2] = d + 1
  BY <1>1
<1>3. \A j \in 1 .. Len(f) : f[j] \in Urls \X (0 .. MaxDepth)
  <2> SUFFICES ASSUME NEW j \in 1 .. Len(f) PROVE f[j] \in Urls \X (0 .. MaxDepth)
    OBVIOUS
  <2>1. f[j] \in Urls \X {d + 1}
    BY <1>2
  <2>2. d + 1 \in 0 .. MaxDepth
    BY <1>0, <1>1
  <2> QED
    BY <2>1, <2>2
<1>4. Len(f) \in Nat /\ f = [j \in 1 .. Len(f) |-> f[j]]
  BY <1>1
<1>5. f \in QueueType
  BY <1>3, <1>4 DEF QueueType
<1> QED
  BY <1>1, <1>2, <1>5 DEF f

LEMMA QueueJoins ==
  ASSUME NEW q \in QueueType, q # << >>, NEW f \in QueueType
  PROVE  Brain!RemoveAt(q, Brain!NextIn) \o f \in QueueType
BY PopFacts, JoinFacts DEF QueueType

\* What a page adds is in the queue.
LEMMA QueueTakes ==
  ASSUME NEW q \in QueueType, q # << >>, NEW f \in QueueType, NEW i \in 1 .. Len(f)
  PROVE  \E k \in DOMAIN (Brain!RemoveAt(q, Brain!NextIn) \o f) :
           (Brain!RemoveAt(q, Brain!NextIn) \o f)[k] = f[i]
<1> DEFINE rest == Brain!RemoveAt(q, Brain!NextIn)
           T == Urls \X (0 .. MaxDepth)
<1>1. rest \in Seq(T) /\ f \in Seq(T)
  BY PopFacts DEF QueueType
<1> HIDE DEF rest, T
<1>2. /\ rest \o f \in Seq(T) /\ Len(rest \o f) = Len(rest) + Len(f)
      /\ (rest \o f)[Len(rest) + i] = f[i]
  BY <1>1, JoinFacts
<1>3. Len(rest) \in Nat /\ Len(f) \in Nat /\ DOMAIN (rest \o f) = 1 .. Len(rest \o f)
  BY <1>1, <1>2
<1>4. Len(rest) + i \in DOMAIN (rest \o f)
  BY <1>2, <1>3
<1> QED
  BY <1>2, <1>4 DEF rest

\* The queue after a page has been asked for.
LEMMA QueueGrows ==
  ASSUME NEW q \in QueueType, q # << >>, NEW u, NEW d \in 0 .. MaxDepth,
         NEW f \in QueueType, NEW q2, q2 = Brain!RemoveAt(q, Brain!NextIn) \o f,
         \A j \in 1 .. Len(f) : d < MaxDepth /\ f[j][1] \in OnSite(site, u) /\ f[j][2] = d + 1
  PROVE  QueueAfter(q2, q, u, d)
<1> DEFINE rest == Brain!RemoveAt(q, Brain!NextIn)
<1>1. /\ rest \in QueueType /\ Len(rest) = Len(q) - 1 /\ Len(q) >= 1 /\ Len(q) \in Nat
      /\ \A i \in 1 .. Len(q) - 1 : rest[i] = q[i + 1]
  BY PopFacts DEF QueueType
<1> HIDE DEF rest
<1>2. f \in QueueType /\ Len(f) \in Nat
  BY DEF QueueType
<1>3. /\ q2 \in QueueType /\ Len(q2) = Len(rest) + Len(f)
      /\ \A i \in 1 .. Len(rest) : q2[i] = rest[i]
      /\ \A i \in 1 .. Len(f) : q2[Len(rest) + i] = f[i]
  <2>1. rest \in Seq(Urls \X (0 .. MaxDepth)) /\ f \in Seq(Urls \X (0 .. MaxDepth))
    BY <1>1, <1>2 DEF QueueType
  <2> DEFINE T == Urls \X (0 .. MaxDepth)
  <2> HIDE DEF T
  <2>2. /\ rest \o f \in Seq(T) /\ Len(rest \o f) = Len(rest) + Len(f)
        /\ \A i \in 1 .. Len(rest) : (rest \o f)[i] = rest[i]
        /\ \A i \in 1 .. Len(f) : (rest \o f)[Len(rest) + i] = f[i]
    <3>1. rest \in Seq(T) /\ f \in Seq(T)
      BY <2>1 DEF T
    <3> QED
      BY <3>1, JoinFacts
  <2> QED
    BY <2>2 DEF QueueType, T, rest
<1>4. DOMAIN q2 = 1 .. Len(q) - 1 + Len(f)
  BY <1>1, <1>2, <1>3 DEF QueueType
<1>5. ASSUME NEW j \in DOMAIN q2, ~(j \in 1 .. Len(q) - 1)
      PROVE  j > Len(q) - 1 /\ d < MaxDepth /\ q2[j][1] \in OnSite(site, u) /\ q2[j][2] = d + 1
  <2>1. j - Len(rest) \in 1 .. Len(f) /\ Len(rest) + (j - Len(rest)) = j /\ j > Len(q) - 1
    BY <1>1, <1>2, <1>4, <1>5
  <2>2. q2[j] = f[j - Len(rest)]
    <3> DEFINE i == j - Len(rest)
    <3> HIDE DEF i
    <3>1. i \in 1 .. Len(f) /\ Len(rest) + i = j
      BY <2>1 DEF i
    <3>2. q2[Len(rest) + i] = f[i]
      BY <1>3, <3>1
    <3> QED
      BY <3>1, <3>2 DEF i
  <2> QED
    BY <2>1, <2>2
<1>6. QueueAfter(q2, q, u, d)
  <2>1. \A j \in 1 .. Len(q) - 1 : j \in DOMAIN q2 /\ q2[j] = q[j + 1]
    <3> SUFFICES ASSUME NEW j \in 1 .. Len(q) - 1 PROVE j \in DOMAIN q2 /\ q2[j] = q[j + 1]
      OBVIOUS
    <3>1. j \in DOMAIN q2 /\ j \in 1 .. Len(rest)
      BY <1>1, <1>2, <1>4
    <3> QED
      BY <1>1, <1>3, <3>1
  <2> QED
    BY <1>5, <2>1 DEF QueueAfter
<1> QED
  BY <1>6

\* What was reached still is when the first of the queue has been asked for.
LEMMA ReachedStays ==
  ASSUME NEW q \in QueueType, NEW q2 \in QueueType, NEW s, NEW s2, NEW u, NEW d, q # << >>,
         q[1] = <<u, d>>, QueueAfter(q2, q, u, d),
         \A i \in DOMAIN s : i \in DOMAIN s2 /\ s2[i] = s[i],
         \E i \in DOMAIN s2 : s2[i].asked = u /\ s2[i].depth <= d /\ s2[i].depth \in Nat,
         NEW l, NEW e \in Nat, Reached(q, s, l, e)
  PROVE  Reached(q2, s2, l, e)
<1>1. CASE \E i \in DOMAIN s : s[i].asked = l /\ s[i].depth <= e
  BY <1>1 DEF Reached
<1>2. CASE \E j \in DOMAIN q : q[j][1] = l /\ q[j][2] <= e
  <2>1. PICK j \in DOMAIN q : q[j][1] = l /\ q[j][2] <= e
    BY <1>2
  <2>2. DOMAIN q = 1 .. Len(q) /\ Len(q) \in Nat /\ 1 \in DOMAIN q /\ q[1][2] \in Nat
    BY QueueFacts
  <2>3. CASE j = 1
    <3>1. u = l /\ d <= e /\ d \in Nat
      BY <2>1, <2>2, <2>3
    <3>2. PICK i \in DOMAIN s2 : s2[i].asked = u /\ s2[i].depth <= d /\ s2[i].depth \in Nat
      OBVIOUS
    <3>3. s2[i].asked = l /\ s2[i].depth <= e
      BY <3>1, <3>2
    <3> QED
      BY <3>3 DEF Reached
  <2>4. CASE j # 1
    <3>1. j - 1 \in 1 .. Len(q) - 1 /\ (j - 1) + 1 = j
      BY <2>2, <2>4
    <3>2. j - 1 \in DOMAIN q2 /\ q2[j - 1] = q[j]
      BY <3>1 DEF QueueAfter
    <3> QED
      BY <2>1, <3>2 DEF Reached
  <2> QED
    BY <2>3, <2>4
<1> QED
  BY <1>1, <1>2 DEF Reached

\* A page that was asked for before is dropped from the queue.
LEMMA CrawlSkip ==
  ASSUME CrawlInv, Brain!Visit, queue[Brain!NextIn][1] \in seen
  PROVE  CrawlInv'
<1> DEFINE u == queue[1][1]
           d == queue[1][2]
<1>0. Brain!NextIn = 1
  BY DEF Brain!NextIn
<1>1. /\ crawlPc = "discover" /\ queue # << >> /\ queue' = Brain!RemoveAt(queue, Brain!NextIn)
      /\ UNCHANGED <<seen, snaps, site, version, crawlPc, crawlLate>> /\ u \in seen
  BY <1>0 DEF Brain!Visit
<1>2. queue \in QueueType /\ snaps \in Seq(Snapshot) /\ NearFirst(queue, snaps)
  BY DEF CrawlInv, CrawlTypes, QueueType
<1>3. /\ 1 \in DOMAIN queue /\ d \in 0 .. MaxDepth /\ d \in Nat /\ queue[1] = <<u, d>>
  BY <1>1, <1>2, QueueFacts
<1>4. queue' \in QueueType /\ QueueAfter(queue', queue, u, d)
  BY <1>1, <1>2, QueueSkips
<1>5. \A i \in DOMAIN snaps : snaps[i].depth \in Nat /\ snaps[i].depth + 1 \in Nat
  BY <1>2, SnapFacts
<1>6. \E i \in DOMAIN snaps : snaps[i].asked = u /\ snaps[i].depth <= d /\ snaps[i].depth \in Nat
  <2>1. PICK i \in DOMAIN snaps : snaps[i].asked = u
    BY <1>1 DEF CrawlInv
  <2>2. snaps[i].depth <= d
    BY <1>2, <1>3 DEF NearFirst
  <2> QED
    BY <1>5, <2>1, <2>2
<1>7. NearFirst(queue', snaps')
  <2>1. NearFirst(queue', snaps)
    BY <1>1, <1>2, <1>4, <1>5, NearFirstStays
  <2> QED
    BY <1>1, <2>1
<1>8. ASSUME NEW l, NEW e \in Nat, Reached(queue, snaps, l, e)
      PROVE  Reached(queue', snaps', l, e)
  <2>1. \A i \in DOMAIN snaps : i \in DOMAIN snaps' /\ snaps'[i] = snaps[i]
    BY <1>1
  <2>2. \E i \in DOMAIN snaps' : snaps'[i].asked = u /\ snaps'[i].depth <= d /\ snaps'[i].depth \in Nat
    BY <1>1, <1>6
  <2> HIDE DEF u, d
  <2> QED
    BY <1>1, <1>2, <1>3, <1>4, <1>8, <2>1, <2>2, ReachedStays
<1>9. /\ Reached(queue', snaps', StartUrl, 0)
      /\ \A i \in DOMAIN snaps' : snaps'[i].depth < MaxDepth =>
           \A l \in OnSite(site', snaps'[i].asked) : Reached(queue', snaps', l, snaps'[i].depth + 1)
  BY <1>1, <1>5, <1>8 DEF CrawlInv
<1>10. \A j \in DOMAIN queue' : queue'[j][1] \in Brain!Within'[queue'[j][2]]
  <2>1. Brain!Within' = Brain!Within
    BY <1>1, WithinStays
  <2>2. DOMAIN queue = 1 .. Len(queue) /\ Len(queue) \in Nat
    BY <1>2, QueueFacts
  <2>3. ASSUME NEW j \in DOMAIN queue' PROVE \E k \in DOMAIN queue : queue'[j] = queue[k]
    <3>1. j \in 1 .. Len(queue) - 1
      <4>1. queue' \in Seq(Urls \X (0 .. MaxDepth)) /\ Len(queue') = Len(queue) - 1
        BY <1>1, <1>2, PopFacts DEF QueueType
      <4> QED
        BY <4>1
    <3> QED
      BY <1>4, <2>2, <3>1 DEF QueueAfter
  <2> QED
    BY <2>1, <2>3 DEF CrawlInv
<1>11. CrawlTypes'
  BY <1>1, <1>4 DEF CrawlInv, CrawlTypes, QueueType
<1>12. (Brain!CrawlIsBreadthFirst)'
  <2>1. Brain!Within' = Brain!Within
    BY <1>1, WithinStays
  <2> QED
    BY <1>1, <2>1 DEF CrawlInv, Brain!CrawlIsBreadthFirst
<1> QED
  BY <1>1, <1>7, <1>9, <1>10, <1>11, <1>12 DEF CrawlInv

\* A page that is asked for lies at the distance it was queued at.
LEMMA AskedAtDistance ==
  ASSUME CrawlInv, crawlPc = "discover", queue # << >>, queue[1][1] \notin seen
  PROVE  /\ queue[1][1] \in Brain!Within[queue[1][2]]
         /\ queue[1][2] > 0 => queue[1][1] \notin Brain!Within[queue[1][2] - 1]
<1> DEFINE d == queue[1][2]
<1>1. queue \in QueueType /\ NearFirst(queue, snaps)
  BY DEF CrawlInv, CrawlTypes, QueueType
<1>2. 1 \in DOMAIN queue /\ d \in 0 .. MaxDepth /\ d \in Nat /\ DOMAIN queue = 1 .. Len(queue)
      /\ \A j \in DOMAIN queue : queue[j][2] \in Nat
  BY <1>1, QueueFacts
<1>3. queue[1][1] \in Brain!Within[d]
  BY <1>2 DEF CrawlInv
<1>4. ASSUME d > 0 PROVE queue[1][1] \notin Brain!Within[d - 1]
  <2>1. d - 1 \in 0 .. MaxDepth
    BY <1>2, <1>4, BrainBoundsAssumption
  <2>2. \A j \in DOMAIN queue : d - 1 < queue[j][2]
    <3> SUFFICES ASSUME NEW j \in DOMAIN queue PROVE d - 1 < queue[j][2]
      OBVIOUS
    <3>1. 1 <= j
      BY <1>2
    <3>2. d <= queue[j][2]
      BY <1>1, <1>2, <3>1 DEF NearFirst
    <3> QED
      BY <1>2, <3>2
  <2> HIDE DEF d
  <2>3. \A l \in Brain!Within[d - 1] : \E i \in DOMAIN snaps : snaps[i].asked = l
    BY <2>1, <2>2, NearerIsAsked
  <2> QED
    BY <2>3 DEF CrawlInv
<1> QED
  BY <1>3, <1>4

\* A page is asked for and its links are queued.
LEMMA CrawlAsk ==
  ASSUME CrawlInv, Brain!Visit, queue[Brain!NextIn][1] \notin seen
  PROVE  CrawlInv'
<1> DEFINE u == queue[1][1]
           d == queue[1][2]
           r == [asked |-> u, url |-> site.lands[u], depth |-> d, v |-> version]
           f == Brain!Found(u, d)
<1>0. Brain!NextIn = 1
  BY DEF Brain!NextIn
<1>1. /\ crawlPc = "discover" /\ queue # << >> /\ u \notin seen /\ Len(snaps) < MaxPages
      /\ queue' = Brain!RemoveAt(queue, Brain!NextIn) \o f
      /\ seen' = seen \union {u} /\ snaps' = Append(snaps, r)
      /\ UNCHANGED <<site, version, crawlPc, crawlLate>>
  BY <1>0 DEF Brain!Visit
<1>2. queue \in QueueType /\ snaps \in Seq(Snapshot) /\ NearFirst(queue, snaps) /\ site \in Sites
      /\ seen \subseteq Urls /\ version \in Brain!Contents
  BY DEF CrawlInv, CrawlTypes, QueueType
<1>3. /\ 1 \in DOMAIN queue /\ d \in 0 .. MaxDepth /\ d \in Nat /\ queue[1] = <<u, d>> /\ u \in Urls
      /\ DOMAIN queue = 1 .. Len(queue) /\ Len(queue) \in Nat
      /\ \A j \in DOMAIN queue : queue[j][2] \in Nat
  BY <1>1, <1>2, QueueFacts
<1>4. /\ f \in QueueType
      /\ d < MaxDepth => \A l \in OnSite(site, u) :
           l \in seen \union {u} \/ \E j \in 1 .. Len(f) : f[j] = <<l, d + 1>>
      /\ \A j \in 1 .. Len(f) : d < MaxDepth /\ f[j][1] \in OnSite(site, u) /\ f[j][2] = d + 1
  BY <1>2, <1>3, FoundIsQueued
<1> HIDE DEF f
<1>5. /\ queue' \in QueueType /\ QueueAfter(queue', queue, u, d)
      /\ \A j \in 1 .. Len(f) : \E k \in DOMAIN queue' : queue'[k] = f[j]
  <2> HIDE DEF u, d, r
  <2>1. queue' = Brain!RemoveAt(queue, Brain!NextIn) \o f /\ queue # << >>
    BY <1>1
  <2>2. queue \in QueueType /\ d \in 0 .. MaxDepth
    BY <1>2, <1>3
  <2>3. f \in QueueType
    BY <1>4
  <2>4. \A j \in 1 .. Len(f) : d < MaxDepth /\ f[j][1] \in OnSite(site, u) /\ f[j][2] = d + 1
    BY <1>4
  <2>5. QueueAfter(queue', queue, u, d)
    BY <2>1, <2>2, <2>3, <2>4, QueueGrows
  <2>6. queue' \in QueueType
    BY <2>1, <2>2, <2>3, QueueJoins
  <2>7. ASSUME NEW j \in 1 .. Len(f) PROVE \E k \in DOMAIN queue' : queue'[k] = f[j]
    BY <2>1, <2>2, <2>3, QueueTakes
  <2> QED
    BY <2>5, <2>6, <2>7
<1>6. r \in Snapshot /\ r.asked = u /\ r.depth = d /\ r.url = site.lands[u]
  BY <1>2, <1>3, SiteFacts DEF Snapshot
<1>7. /\ snaps' \in Seq(Snapshot) /\ Len(snaps') = Len(snaps) + 1 /\ Len(snaps) \in Nat
      /\ \A i \in DOMAIN snaps : i \in DOMAIN snaps' /\ snaps'[i] = snaps[i]
      /\ Len(snaps) + 1 \in DOMAIN snaps' /\ snaps'[Len(snaps) + 1] = r
      /\ \A i \in DOMAIN snaps' : i \in DOMAIN snaps \/ i = Len(snaps) + 1
  <2> HIDE DEF r
  <2> QED
    BY <1>1, <1>2, <1>6, AskedFacts
<1> HIDE DEF r
<1>8. \A i \in DOMAIN snaps : snaps[i].depth \in Nat /\ snaps[i].depth + 1 \in Nat
                              /\ snaps[i].depth <= d
  BY <1>2, <1>3, SnapFacts DEF NearFirst
<1>9. \E i \in DOMAIN snaps' : snaps'[i].asked = u /\ snaps'[i].depth <= d /\ snaps'[i].depth \in Nat
  BY <1>3, <1>6, <1>7
<1>10. NearFirst(queue', snaps')
  <2>1. NearFirst(queue', snaps) /\ \A j \in DOMAIN queue' : d <= queue'[j][2]
    BY <1>1, <1>2, <1>5, <1>8, NearFirstStays
  <2>2. ASSUME NEW i \in DOMAIN snaps', NEW j \in DOMAIN queue' PROVE snaps'[i].depth <= queue'[j][2]
    BY <1>6, <1>7, <2>1 DEF NearFirst
  <2> QED
    BY <2>1, <2>2 DEF NearFirst
<1>11. ASSUME NEW l, NEW e \in Nat, Reached(queue, snaps, l, e)
       PROVE  Reached(queue', snaps', l, e)
  <2> HIDE DEF u, d
  <2> QED
    <3>1. queue \in QueueType /\ queue # << >> /\ queue[1] = <<u, d>>
      BY <1>1, <1>2, <1>3
    <3>2. queue' \in QueueType /\ QueueAfter(queue', queue, u, d)
      BY <1>5
    <3>3. \A i \in DOMAIN snaps : i \in DOMAIN snaps' /\ snaps'[i] = snaps[i]
      BY <1>7
    <3> QED
      BY <3>1, <3>2, <3>3, <1>9, <1>11, ReachedStays
<1>12. ASSUME d < MaxDepth, NEW l \in OnSite(site, u) PROVE Reached(queue', snaps', l, d + 1)
  <2>1. CASE l = u
    <3>1. snaps'[Len(snaps) + 1].asked = l /\ snaps'[Len(snaps) + 1].depth <= d + 1
      BY <1>3, <1>6, <1>7, <2>1
    <3> QED
      BY <1>7, <3>1 DEF Reached
  <2>2. CASE l \in seen
    <3>1. PICK i \in DOMAIN snaps : snaps[i].asked = l
      BY <2>2 DEF CrawlInv
    <3>2. snaps[i].depth <= d + 1
      BY <1>3, <1>8
    <3> QED
      BY <1>7, <3>1, <3>2 DEF Reached
  <2>3. CASE \E j \in 1 .. Len(f) : f[j] = <<l, d + 1>>
    <3>1. PICK j \in 1 .. Len(f) : f[j] = <<l, d + 1>>
      BY <2>3
    <3>2. PICK k \in DOMAIN queue' : queue'[k] = f[j]
      BY <1>5
    <3>3. queue'[k][1] = l /\ queue'[k][2] <= d + 1
      BY <1>3, <3>1, <3>2
    <3> QED
      BY <3>3 DEF Reached
  <2> QED
    BY <1>4, <1>12, <2>1, <2>2, <2>3
<1>13. Brain!Within' = Brain!Within
  BY <1>1, WithinStays
<1>14. /\ Reached(queue', snaps', StartUrl, 0)
       /\ \A i \in DOMAIN snaps' : snaps'[i].depth < MaxDepth =>
            \A l \in OnSite(site', snaps'[i].asked) : Reached(queue', snaps', l, snaps'[i].depth + 1)
  <2>1. Reached(queue', snaps', StartUrl, 0)
    BY <1>1, <1>11 DEF CrawlInv
  <2>2. ASSUME NEW i \in DOMAIN snaps', snaps'[i].depth < MaxDepth,
               NEW l \in OnSite(site', snaps'[i].asked)
        PROVE  Reached(queue', snaps', l, snaps'[i].depth + 1)
    <3>1. CASE i \in DOMAIN snaps
      <4>1. Reached(queue, snaps, l, snaps[i].depth + 1)
        BY <1>1, <1>7, <2>2, <3>1 DEF CrawlInv
      <4> QED
        BY <1>7, <1>8, <1>11, <3>1, <4>1
    <3>2. CASE i = Len(snaps) + 1
      BY <1>1, <1>6, <1>7, <1>12, <2>2, <3>2
    <3> QED
      BY <1>7, <3>1, <3>2
  <2> QED
    BY <2>1, <2>2
<1>15. \A j \in DOMAIN queue' : queue'[j][1] \in Brain!Within'[queue'[j][2]]
  <2> SUFFICES ASSUME NEW j \in DOMAIN queue' PROVE queue'[j][1] \in Brain!Within[queue'[j][2]]
    BY <1>13
  <2>1. u \in Brain!Within[d]
    BY <1>3 DEF CrawlInv
  <2>2. CASE j \in 1 .. Len(queue) - 1
    <3>1. j + 1 \in DOMAIN queue /\ queue'[j] = queue[j + 1]
      BY <1>3, <1>5, <2>2 DEF QueueAfter
    <3> QED
      BY <3>1 DEF CrawlInv
  <2>3. CASE d < MaxDepth /\ queue'[j][1] \in OnSite(site, u) /\ queue'[j][2] = d + 1
    BY <1>3, <2>1, <2>3, WithinFacts
  <2> QED
    BY <1>5, <2>2, <2>3 DEF QueueAfter
<1>16. seen' = {snaps'[i].asked : i \in DOMAIN snaps'}
  <2>1. seen = {snaps[i].asked : i \in DOMAIN snaps}
    BY DEF CrawlInv
  <2> QED
    BY <1>1, <1>6, <1>7, <2>1
<1>17. \A i \in DOMAIN snaps' : snaps'[i].url = site'.lands[snaps'[i].asked]
  BY <1>1, <1>6, <1>7 DEF CrawlInv
<1>18. CrawlTypes'
  <2>1. Len(snaps') <= MaxPages
    BY <1>1, <1>7, BrainBoundsAssumption
  <2> QED
    BY <1>1, <1>3, <1>5, <1>7, <2>1 DEF CrawlInv, CrawlTypes, QueueType
<1>19. (Brain!CrawlIsBreadthFirst)'
  <2>1. AtDistance(snaps) /\ AtDistance(<<r>>)
    <3>1. AtDistance(snaps)
      BY BreadthFirstParts DEF CrawlInv
    <3>2. u \in Brain!Within[d] /\ (d > 0 => u \notin Brain!Within[d - 1])
      BY <1>1, AskedAtDistance
    <3> QED
      BY <1>6, <3>1, <3>2 DEF AtDistance
  <2>2. ASSUME NEW i \in DOMAIN snaps'
        PROVE  /\ snaps'[i].asked \in Brain!Within[snaps'[i].depth]
               /\ snaps'[i].depth > 0 => snaps'[i].asked \notin Brain!Within[snaps'[i].depth - 1]
    BY <1>7, <2>1 DEF AtDistance
  <2> QED
    BY <1>1, <1>13, <2>2 DEF Brain!CrawlIsBreadthFirst
<1> QED
  BY <1>1, <1>10, <1>14, <1>15, <1>16, <1>17, <1>18, <1>19 DEF CrawlInv

\* When the queue is empty, every page within the depth was asked for.
LEMMA CrawlEndStep ==
  ASSUME CrawlInv, Brain!EndDiscover
  PROVE  CrawlInv'
<1> USE DEF Brain!EndDiscover
<1>1. ASSUME ~crawlLate', Len(snaps) < MaxPages PROVE seen = Brain!Within[MaxDepth]
  <2>0. MaxDepth \in 0 .. MaxDepth /\ MaxDepth \in Nat
    BY BrainBoundsAssumption
  <2>1. queue = << >> /\ crawlPc = "discover"
    <3>1. snaps \in Seq(Snapshot) /\ MaxPages \in Nat /\ Len(snaps) \in Nat
      BY BrainBoundsAssumption DEF CrawlInv, CrawlTypes
    <3> QED
      BY <1>1, <3>1
  <2>2. \A j \in DOMAIN queue : MaxDepth < queue[j][2]
    BY <2>1
  <2>3. \A l \in Brain!Within[MaxDepth] : \E i \in DOMAIN snaps : snaps[i].asked = l
    BY <2>0, <2>1, <2>2, NearerIsAsked
  <2>4. ASSUME NEW i \in DOMAIN snaps PROVE snaps[i].asked \in Brain!Within[MaxDepth]
    <3>1. AtDistance(snaps) /\ snaps \in Seq(Snapshot)
      BY BreadthFirstParts DEF CrawlInv, CrawlTypes
    <3>2. snaps[i].depth \in 0 .. MaxDepth /\ snaps[i].depth <= MaxDepth
      BY <2>0, <3>1, SnapFacts
    <3>3. Brain!Within[snaps[i].depth] \subseteq Brain!Within[MaxDepth]
      BY <2>0, <3>2, WithinGrows
    <3> QED
      BY <3>1, <3>3 DEF AtDistance
  <2>5. seen = {snaps[i].asked : i \in DOMAIN snaps}
    BY DEF CrawlInv
  <2> QED
    BY <2>3, <2>4, <2>5
<1>2. version \in Brain!Contents /\ crawlLate \in BOOLEAN
  BY DEF CrawlInv, CrawlTypes
<1> QED
  BY <1>1, <1>2, CrawlKept

\* Every step of the Brain keeps what is so of a crawl.
LEMMA CrawlStep ==
  ASSUME CrawlInv, Brain!Next
  PROVE  CrawlInv'
<1>1. version \in Brain!Contents /\ crawlLate \in BOOLEAN
      /\ crawlPc \in {"idle", "discover", "persist", "embed", "commit"}
  BY DEF CrawlInv, CrawlTypes
<1>2. crawlPc = "persist" /\ ~crawlLate /\ Len(snaps) < MaxPages => seen = Brain!Within[MaxDepth]
  BY BreadthFirstParts DEF CrawlInv
<1>3. CASE Brain!Publish
  <2>1. version' \in Brain!Contents
    BY <1>1, <1>3, BrainBoundsAssumption DEF Brain!Publish, Brain!Contents
  <2> QED
    BY <1>1, <1>2, <1>3, <2>1, CrawlKept DEF Brain!Publish, Brain!crawlVars
<1>4. CASE Brain!BeginCrawl
  BY <1>4, CrawlBeginStep
<1>5. CASE Brain!Visit
  <2>1. CASE queue[Brain!NextIn][1] \in seen
    BY <1>5, <2>1, CrawlSkip
  <2>2. CASE queue[Brain!NextIn][1] \notin seen
    BY <1>5, <2>2, CrawlAsk
  <2> QED
    BY <2>1, <2>2
<1>6. CASE Brain!CrawlTimeOut
  <2>1. /\ crawlPc = "discover" /\ crawlPc' = "discover" /\ crawlLate' \in BOOLEAN
        /\ UNCHANGED <<site, queue, seen, snaps, version>>
    BY <1>6 DEF Brain!CrawlTimeOut
  <2> QED
    BY <1>1, <1>2, <2>1, CrawlKept
<1>7. CASE Brain!EndDiscover
  BY <1>7, CrawlEndStep
<1>8. CASE Brain!FetchFailed
  <2>1. /\ site' = site /\ version' = version /\ crawlLate' \in BOOLEAN /\ crawlPc' = "commit"
        /\ queue' = << >> /\ seen' = {} /\ snaps' = << >>
    BY <1>8 DEF Brain!FetchFailed
  <2> QED
    BY <1>1, <2>1, CrawlForgotten
<1>9. CASE Brain!Persist
  <2>1. /\ site' = site /\ version' = version /\ crawlLate' \in BOOLEAN
        /\ crawlPc' \in {"embed", "commit"}
        /\ queue' = << >> /\ seen' = {} /\ snaps' = << >>
    BY <1>9 DEF Brain!Persist
  <2> QED
    BY <1>1, <2>1, CrawlForgotten
<1>10. CASE Brain!Embed \/ Brain!EmbedFailed
  <2>1. /\ crawlPc' = "commit" /\ crawlPc = "embed"
        /\ UNCHANGED <<site, queue, seen, snaps, version, crawlLate>>
    BY <1>10 DEF Brain!Embed, Brain!EmbedFailed
  <2> QED
    BY <1>1, <2>1, CrawlKept
<1>11. CASE Brain!CommitCrawl \/ Brain!RunFailed
  <2>1. /\ site' = site /\ version' = version /\ crawlLate' \in BOOLEAN /\ crawlPc' = "idle"
        /\ queue' = << >> /\ seen' = {} /\ snaps' = << >>
    BY <1>11 DEF Brain!CommitCrawl, Brain!RunFailed, Brain!Forget
  <2> QED
    BY <1>1, <2>1, CrawlForgotten
<1>12. CASE UNCHANGED <<site, version, Brain!crawlVars>>
  BY <1>1, <1>2, <1>12, CrawlKept DEF Brain!crawlVars
<1>13. CASE \/ \E declared \in SUBSET Routes : Brain!Checkout([r \in declared |-> version])
            \/ Brain!Write \/ Brain!CommitIngest \/ Brain!IngestFailed \/ Brain!IngestCrash
  <2>1. UNCHANGED <<site, version, Brain!crawlVars>>
    BY <1>13 DEF Brain!Checkout, Brain!Write, Brain!CommitIngest, Brain!IngestFailed,
       Brain!IngestCrash
  <2> QED
    BY <1>12, <2>1
<1> QED
  BY <1>3, <1>4, <1>5, <1>6, <1>7, <1>8, <1>9, <1>10, <1>11, <1>13 DEF Brain!Next

\* The invariant of the crawl's search, in every order of visits and deployments and with
\* every bound it may meet.
THEOREM CrawlInvariantHolds == Spec => []CrawlInv
<1>1. Init => CrawlInv
  <2> SUFFICES ASSUME Init PROVE CrawlInv
    OBVIOUS
  <2>1. /\ site \in Sites /\ version = 1 /\ crawlPc = "idle" /\ queue = << >> /\ seen = {}
        /\ snaps = << >> /\ crawlLate = FALSE
    BY DEF Init, Brain!Init
  <2>2. /\ << >> \in Seq(Urls \X (0 .. MaxDepth)) /\ << >> \in Seq(Snapshot) /\ Len(<< >>) <= MaxPages
        /\ 1 \in Brain!Contents
    BY BrainBoundsAssumption DEF Brain!Contents
  <2>3. CrawlTypes
    BY <2>1, <2>2 DEF CrawlTypes
  <2>4. DOMAIN queue = {} /\ DOMAIN snaps = {}
    BY <2>1
  <2>5. Brain!CrawlIsBreadthFirst
    BY <2>1, <2>4 DEF Brain!CrawlIsBreadthFirst
  <2> QED
    BY <2>1, <2>3, <2>4, <2>5 DEF CrawlInv, NearFirst
<1>2. CrawlInv /\ [Next]_vars => CrawlInv'
  <2> SUFFICES ASSUME CrawlInv, [Next]_vars PROVE CrawlInv'
    OBVIOUS
  <2>1. CASE Brain!Next
    BY <2>1, CrawlStep
  <2>2. CASE UNCHANGED brainVars
    <3>1. UNCHANGED <<site, queue, seen, snaps, version, crawlLate, crawlPc>>
      BY <2>2 DEF brainVars
    <3>2. version \in Brain!Contents /\ crawlLate \in BOOLEAN
          /\ crawlPc \in {"idle", "discover", "persist", "embed", "commit"}
      BY DEF CrawlInv, CrawlTypes
    <3>3. crawlPc = "persist" /\ ~crawlLate /\ Len(snaps) < MaxPages => seen = Brain!Within[MaxDepth]
      BY BreadthFirstParts DEF CrawlInv
    <3> QED
      BY <3>1, <3>2, <3>3, CrawlKept
  <2> QED
    BY <2>1, <2>2 DEF Next, vars
<1> QED
  BY <1>1, <1>2, PTL DEF Spec

\* The crawl requests each page at its distance from the start and, when no bound stopped
\* it, every page within the depth (crawler/crawler.py).
THEOREM CrawlIsBreadthFirstHolds == Spec => []Brain!CrawlIsBreadthFirst
<1>1. CrawlInv => Brain!CrawlIsBreadthFirst
  BY DEF CrawlInv
<1> QED
  BY <1>1, CrawlInvariantHolds, PTL

-----------------------------------------------------------------------------
(* The crawl: the documents that changed and their vectors. *)

PageType == [Brain!Paths -> Brain!Node]
DocType == Seq(Brain!Paths \X Brain!Contents)
GraphType == [page : PageType, nav : SUBSET (Brain!Paths \X Brain!Paths),
              call : SUBSET (Brain!Paths \X Routes)]

Named(docs, p) == \E i \in DOMAIN docs : docs[i][1] = p

\* Of these documents the Brain has no vector yet.
NotStored(docs, page) ==
  \A i \in DOMAIN docs :
    ~(page[docs[i][1]].sha = docs[i][2] /\ page[docs[i][1]].vec = docs[i][2])

LEMMA NodeFacts ==
  ASSUME NEW x \in Brain!Node
  PROVE  x.sha \in 0 .. MaxVersion /\ x.vec \in 0 .. MaxVersion /\ x.sha \in Nat /\ x.vec \in Nat
         /\ x = [sha |-> x.sha, vec |-> x.vec]
BY BrainBoundsAssumption DEF Brain!Node

LEMMA GraphFacts ==
  ASSUME NEW g \in GraphType
  PROVE  g.page \in PageType /\ g.nav \subseteq Brain!Paths \X Brain!Paths
         /\ g.call \subseteq Brain!Paths \X Routes
         /\ g = [page |-> g.page, nav |-> g.nav, call |-> g.call]
BY DEF GraphType

LEMMA GraphMade ==
  ASSUME NEW page \in PageType, NEW nav, nav \subseteq Brain!Paths \X Brain!Paths,
         NEW callEdges, callEdges \subseteq Brain!Paths \X Routes
  PROVE  [page |-> page, nav |-> nav, call |-> callEdges] \in GraphType
BY DEF GraphType

\* The upserts of the pages that were found, one after the other.
UpToBody(f, n) ==
  IF n = 0 THEN [page |-> graph.page, changed |-> << >>]
  ELSE [page |-> [f[n - 1].page EXCEPT ![Brain!Page(n)].sha = snaps[n].v],
        changed |-> IF Brain!CacheHit(f[n - 1].page[Brain!Page(n)], snaps[n].v) THEN f[n - 1].changed
                    ELSE Append(f[n - 1].changed, <<Brain!Page(n), snaps[n].v>>)]

LEMMA UpsertsUpTo ==
  ASSUME NEW m \in Nat
  PROVE  \E f : f = [n \in 0 .. m |-> UpToBody(f, n)]
<1> DEFINE Bad == {k \in Nat : ~ \E f : f = [n \in 0 .. k |-> UpToBody(f, n)]}
<1> SUFFICES ASSUME Bad # {} PROVE FALSE
  OBVIOUS
<1>1. PICK k \in Bad : \A j \in Bad : k <= j
  BY NatLeast
<1>2. k # 0
  <2> SUFFICES ASSUME k = 0 PROVE FALSE
    OBVIOUS
  <2> DEFINE f == [n \in 0 .. 0 |-> [page |-> graph.page, changed |-> << >>]]
  <2>1. f = [n \in 0 .. 0 |-> UpToBody(f, n)]
    BY DEF UpToBody
  <2> QED
    BY <2>1, <1>1
<1>3. k - 1 \in Nat /\ k - 1 \notin Bad
  BY <1>1, <1>2
<1>4. PICK g : g = [n \in 0 .. k - 1 |-> UpToBody(g, n)]
  BY <1>3
<1> DEFINE f == [n \in 0 .. k |-> IF n < k THEN g[n] ELSE UpToBody(g, k)]
<1>5. \A n \in 0 .. k : UpToBody(f, n) = UpToBody(g, n)
  <2> SUFFICES ASSUME NEW n \in 0 .. k PROVE UpToBody(f, n) = UpToBody(g, n)
    OBVIOUS
  <2>1. CASE n = 0
    BY <2>1, Zenon DEF UpToBody
  <2>2. CASE n # 0
    <3>1. f[n - 1] = g[n - 1]
      BY <2>2
    <3> HIDE DEF f
    <3> QED
      BY <2>2, <3>1, Zenon DEF UpToBody
  <2> QED
    BY <2>1, <2>2
<1>6. \A n \in 0 .. k : f[n] = UpToBody(g, n)
  <2> SUFFICES ASSUME NEW n \in 0 .. k PROVE f[n] = UpToBody(g, n)
    OBVIOUS
  <2>1. CASE n < k
    <3>1. n \in 0 .. k - 1
      BY <2>1
    <3> QED
      BY <2>1, <3>1, <1>4
  <2>2. CASE n = k
    BY <2>2
  <2> QED
    BY <2>1, <2>2
<1>7. f = [n \in 0 .. k |-> UpToBody(f, n)]
  BY <1>5, <1>6
<1> QED
  BY <1>1, <1>7

LEMMA UpToIsDefined ==
  Brain!UpTo = [n \in 0 .. MaxPages |-> UpToBody(Brain!UpTo, n)]
<1>1. MaxPages \in Nat
  BY BrainBoundsAssumption
<1>2. \E f : f = [n \in 0 .. MaxPages |-> UpToBody(f, n)]
  BY <1>1, UpsertsUpTo
<1>3. \E f : f = [n \in 0 .. MaxPages |->
        IF n = 0 THEN [page |-> graph.page, changed |-> << >>]
        ELSE [page |-> [f[n - 1].page EXCEPT ![Brain!Page(n)].sha = snaps[n].v],
              changed |-> IF Brain!CacheHit(f[n - 1].page[Brain!Page(n)], snaps[n].v)
                          THEN f[n - 1].changed
                          ELSE Append(f[n - 1].changed, <<Brain!Page(n), snaps[n].v>>)]]
  BY <1>2, Zenon DEF UpToBody
<1>4. Brain!UpTo = [n \in 0 .. MaxPages |->
        IF n = 0 THEN [page |-> graph.page, changed |-> << >>]
        ELSE [page |-> [Brain!UpTo[n - 1].page EXCEPT ![Brain!Page(n)].sha = snaps[n].v],
              changed |-> IF Brain!CacheHit(Brain!UpTo[n - 1].page[Brain!Page(n)], snaps[n].v)
                          THEN Brain!UpTo[n - 1].changed
                          ELSE Append(Brain!UpTo[n - 1].changed, <<Brain!Page(n), snaps[n].v>>)]]
  BY <1>3, Zenon DEF Brain!UpTo
<1> QED
  BY <1>4, Zenon DEF UpToBody

\* What a crawl that is about to write knows of the Brain: its pages are as they were stored,
\* none newer than what the crawl saw, and it saw them in the order of their versions.
ReadyToWrite ==
  /\ graph.page \in PageType /\ graph.page = stored.page /\ excused \subseteq Brain!Paths
  /\ \A p \in Brain!Paths \ excused : graph.page[p].vec = graph.page[p].sha
  /\ \A p \in Brain!Paths : graph.page[p].sha <= version
  /\ version \in Brain!Contents /\ snaps \in Seq(Snapshot)
  /\ \A i \in DOMAIN snaps : Brain!Page(i) \in Brain!Paths /\ snaps[i].v <= version
                             /\ \A p \in Brain!Paths : graph.page[p].sha <= snaps[i].v
  /\ \A i, j \in DOMAIN snaps : i <= j => snaps[i].v <= snaps[j].v

\* The pages after n upserts.
Written(page, docs, n) ==
  /\ page \in PageType /\ docs \in DocType
  /\ \A p \in Brain!Paths : /\ page[p].vec = graph.page[p].vec
                            /\ graph.page[p].sha <= page[p].sha /\ page[p].sha <= version
                            /\ \A m \in n .. Len(snaps) : m # 0 => page[p].sha <= snaps[m].v
  /\ \A p \in Brain!Paths \ excused : page[p].vec = page[p].sha \/ Named(docs, p)
  /\ NotStored(docs, graph.page)
  /\ \A i \in 1 .. n : page[Brain!Page(i)].sha # 0

LEMMA DocFacts ==
  ASSUME NEW docs \in DocType
  PROVE  /\ DOMAIN docs = 1 .. Len(docs) /\ Len(docs) \in Nat
         /\ \A i \in DOMAIN docs : docs[i][1] \in Brain!Paths /\ docs[i][2] \in Brain!Contents
BY DEF DocType

LEMMA DocAdded ==
  ASSUME NEW docs \in DocType, NEW p \in Brain!Paths, NEW v \in Brain!Contents
  PROVE  LET more == Append(docs, <<p, v>>) IN
         /\ more \in DocType
         /\ \A q : Named(more, q) <=> (Named(docs, q) \/ q = p)
         /\ \A page : NotStored(more, page) <=>
              (NotStored(docs, page) /\ ~(page[p].sha = v /\ page[p].vec = v))
<1> DEFINE e == <<p, v>>
           S == Brain!Paths \X Brain!Contents
           more == Append(docs, e)
<1>0. docs \in Seq(S) /\ e \in S
  BY DEF DocType
<1>1. /\ more \in Seq(S) /\ Len(more) = Len(docs) + 1 /\ Len(docs) \in Nat
      /\ \A i \in 1 .. Len(docs) : more[i] = docs[i]
      /\ more[Len(docs) + 1] = e
  <2> HIDE DEF e, S
  <2> QED
    BY <1>0, AppendFacts
<1>2. DOMAIN more = 1 .. Len(docs) + 1 /\ DOMAIN docs = 1 .. Len(docs)
  BY <1>0, <1>1
<1> HIDE DEF more
<1>3. e[1] = p /\ e[2] = v
  OBVIOUS
<1> HIDE DEF e
<1>4. /\ \A i \in DOMAIN docs : i \in DOMAIN more /\ more[i] = docs[i]
      /\ Len(docs) + 1 \in DOMAIN more
      /\ \A i \in DOMAIN more : i \in DOMAIN docs \/ i = Len(docs) + 1
  BY <1>1, <1>2
<1>5. ASSUME NEW q PROVE Named(more, q) <=> (Named(docs, q) \/ q = p)
  BY <1>1, <1>3, <1>4 DEF Named
<1>6. ASSUME NEW page
      PROVE  NotStored(more, page) <=> (NotStored(docs, page) /\ ~(page[p].sha = v /\ page[p].vec = v))
  BY <1>1, <1>3, <1>4 DEF NotStored
<1>7. more \in DocType
  BY <1>1 DEF DocType
<1> QED
  BY <1>5, <1>6, <1>7 DEF more, e

LEMMA WrittenMore ==
  ASSUME ReadyToWrite, NEW n \in DOMAIN snaps, NEW page, NEW docs, Written(page, docs, n - 1),
         NEW page2, page2 = [page EXCEPT ![Brain!Page(n)].sha = snaps[n].v],
         NEW docs2, docs2 = IF Brain!CacheHit(page[Brain!Page(n)], snaps[n].v) THEN docs
                            ELSE Append(docs, <<Brain!Page(n), snaps[n].v>>)
  PROVE  Written(page2, docs2, n)
<1> DEFINE q == Brain!Page(n)
           v == snaps[n].v
<1>1. /\ q \in Brain!Paths /\ v \in Brain!Contents /\ v <= version /\ v \in Nat /\ v # 0
      /\ version \in Nat
      /\ n \in Nat /\ n # 0 /\ n \in 1 .. Len(snaps) /\ Len(snaps) \in Nat /\ DOMAIN snaps = 1 .. Len(snaps)
      /\ \A p \in Brain!Paths : graph.page[p].sha <= v
  BY SnapFacts, BrainBoundsAssumption DEF ReadyToWrite, Brain!Contents
<1>2. \A m \in n .. Len(snaps) : m \in DOMAIN snaps /\ v <= snaps[m].v /\ snaps[m].v \in Nat
  <2> SUFFICES ASSUME NEW m \in n .. Len(snaps)
               PROVE  m \in DOMAIN snaps /\ v <= snaps[m].v /\ snaps[m].v \in Nat
    OBVIOUS
  <2>1. m \in DOMAIN snaps /\ n <= m
    BY <1>1
  <2>2. snaps[m].v \in Brain!Contents
    BY <2>1, SnapFacts DEF ReadyToWrite
  <2> QED
    BY <2>1, <2>2, BrainBoundsAssumption DEF ReadyToWrite, Brain!Contents
<1>3. /\ page \in PageType /\ docs \in DocType
      /\ \A p \in Brain!Paths : /\ page[p] \in Brain!Node /\ page[p].vec = graph.page[p].vec
                                /\ graph.page[p].sha <= page[p].sha /\ page[p].sha <= version
                                /\ \A m \in (n - 1) .. Len(snaps) : m # 0 => page[p].sha <= snaps[m].v
      /\ \A p \in Brain!Paths \ excused : page[p].vec = page[p].sha \/ Named(docs, p)
      /\ NotStored(docs, graph.page)
      /\ \A i \in 1 .. n - 1 : page[Brain!Page(i)].sha # 0
  BY DEF Written, PageType
<1>4. [page[q] EXCEPT !.sha = v] = [sha |-> v, vec |-> page[q].vec]
  BY <1>1, <1>3, NodeFacts
<1>5. /\ page2 = [page EXCEPT ![q] = [sha |-> v, vec |-> page[q].vec]]
  BY <1>4
<1> HIDE DEF q, v
<1>6. [sha |-> v, vec |-> page[q].vec] \in Brain!Node
  BY <1>1, <1>3, NodeFacts, BrainBoundsAssumption DEF Brain!Node, Brain!Contents
<1>7. /\ page2 \in PageType /\ page2[q].sha = v /\ page2[q].vec = page[q].vec
      /\ \A p \in Brain!Paths : p # q => page2[p] = page[p]
  <2> DEFINE r == [sha |-> v, vec |-> page[q].vec]
  <2>1. r.sha = v /\ r.vec = page[q].vec
    OBVIOUS
  <2>2. r \in Brain!Node /\ page2 = [page EXCEPT ![q] = r]
    BY <1>5, <1>6
  <2> HIDE DEF r
  <2>3. page \in [Brain!Paths -> Brain!Node] /\ q \in Brain!Paths
    BY <1>1, <1>3 DEF PageType
  <2>4. /\ page2 \in [Brain!Paths -> Brain!Node] /\ page2[q] = r
        /\ \A p \in Brain!Paths : p # q => page2[p] = page[p]
    BY <2>2, <2>3
  <2> QED
    BY <2>1, <2>4 DEF PageType
<1>8. \A p \in Brain!Paths : /\ graph.page[p].sha \in Nat /\ page[p].sha \in Nat /\ graph.page[p].vec \in Nat
  BY <1>3, NodeFacts DEF ReadyToWrite, PageType
<1>9. ASSUME NEW p \in Brain!Paths
      PROVE  /\ page2[p].vec = graph.page[p].vec
             /\ graph.page[p].sha <= page2[p].sha /\ page2[p].sha <= version
             /\ \A m \in n .. Len(snaps) : m # 0 => page2[p].sha <= snaps[m].v
  <2>1. CASE p = q
    BY <1>1, <1>2, <1>3, <1>7, <2>1
  <2>2. CASE p # q
    <3>1. page2[p] = page[p]
      BY <1>7, <2>2
    <3>2. \A m \in n .. Len(snaps) : m \in (n - 1) .. Len(snaps)
      BY <1>1
    <3> QED
      BY <1>3, <3>1, <3>2
  <2> QED
    BY <2>1, <2>2
<1>10. CASE Brain!CacheHit(page[q], v)
  <2>1. docs2 = docs /\ page[q].sha = v /\ page[q].vec # 0
    BY <1>10 DEF Brain!CacheHit, q, v
  <2>2. \A p \in Brain!Paths : page2[p].sha = page[p].sha /\ page2[p].vec = page[p].vec
    BY <1>7, <2>1
  <2>3. \A p \in Brain!Paths \ excused : page2[p].vec = page2[p].sha \/ Named(docs2, p)
    BY <1>3, <2>1, <2>2
  <2>4. \A i \in 1 .. n : page2[Brain!Page(i)].sha # 0
    <3> SUFFICES ASSUME NEW i \in 1 .. n PROVE page2[Brain!Page(i)].sha # 0
      OBVIOUS
    <3>1. CASE i = n
      BY <1>1, <1>7, <3>1 DEF q
    <3>2. CASE i # n
      <4>1. i \in 1 .. n - 1 /\ i \in DOMAIN snaps
        BY <1>1, <3>2
      <4>2. Brain!Page(i) \in Brain!Paths /\ page[Brain!Page(i)].sha # 0
        BY <1>3, <4>1 DEF ReadyToWrite
      <4> QED
        BY <2>2, <4>2
    <3> QED
      BY <3>1, <3>2
  <2> QED
    BY <1>3, <1>7, <1>9, <2>1, <2>3, <2>4 DEF Written
<1>11. CASE ~Brain!CacheHit(page[q], v)
  <2>1. docs2 = Append(docs, <<q, v>>) /\ ~(page[q].sha = v /\ page[q].vec # 0)
    BY <1>11 DEF Brain!CacheHit, q, v
  <2>2. /\ docs2 \in DocType /\ \A p : Named(docs2, p) <=> (Named(docs, p) \/ p = q)
        /\ NotStored(docs2, graph.page) <=>
             (NotStored(docs, graph.page) /\ ~(graph.page[q].sha = v /\ graph.page[q].vec = v))
    BY <1>1, <1>3, <2>1, DocAdded
  <2>3. ~(graph.page[q].sha = v /\ graph.page[q].vec = v)
    <3> SUFFICES ASSUME graph.page[q].sha = v, graph.page[q].vec = v PROVE FALSE
      OBVIOUS
    <3>1. n \in (n - 1) .. Len(snaps)
      BY <1>1
    <3>2. page[q].sha <= v
      BY <1>1, <1>3, <3>1 DEF v
    <3>3. page[q].sha = v /\ page[q].vec # 0
      BY <1>1, <1>3, <1>8, <3>2
    <3> QED
      BY <2>1, <3>3
  <2>4. \A p \in Brain!Paths \ excused : page2[p].vec = page2[p].sha \/ Named(docs2, p)
    BY <1>3, <1>7, <2>2
  <2>5. \A i \in 1 .. n : page2[Brain!Page(i)].sha # 0
    <3> SUFFICES ASSUME NEW i \in 1 .. n PROVE page2[Brain!Page(i)].sha # 0
      OBVIOUS
    <3>1. CASE Brain!Page(i) = q
      BY <1>1, <1>7, <3>1
    <3>2. CASE Brain!Page(i) # q
      <4>1. i # n
        BY <3>2 DEF q
      <4>2. i \in 1 .. n - 1 /\ i \in DOMAIN snaps
        BY <1>1, <4>1
      <4>3. Brain!Page(i) \in Brain!Paths /\ page[Brain!Page(i)].sha # 0
        BY <1>3, <4>2 DEF ReadyToWrite
      <4> QED
        BY <1>7, <3>2, <4>3
    <3> QED
      BY <3>1, <3>2
  <2> QED
    BY <1>3, <1>7, <1>9, <2>2, <2>3, <2>4, <2>5 DEF Written
<1> QED
  BY <1>10, <1>11

\* What persisting leaves of the pages and of the documents it has to embed.
LEMMA AllWritten ==
  ASSUME ReadyToWrite, Len(snaps) <= MaxPages
  PROVE  Written(Brain!UpTo[Len(snaps)].page, Brain!UpTo[Len(snaps)].changed, Len(snaps))
<1> DEFINE U == Brain!UpTo
           Bad == {k \in 0 .. Len(snaps) : ~Written(U[k].page, U[k].changed, k)}
<1>0. Len(snaps) \in Nat /\ MaxPages \in Nat /\ DOMAIN snaps = 1 .. Len(snaps)
  BY BrainBoundsAssumption DEF ReadyToWrite
<1> SUFFICES ASSUME Bad # {} PROVE FALSE
  BY <1>0
<1>1. PICK k \in Bad : \A j \in Bad : k <= j
  <2>1. Bad \subseteq Nat
    BY <1>0
  <2> QED
    BY <2>1, NatLeast
<1>2. k \in 0 .. MaxPages /\ k \in Nat
  BY <1>0, <1>1
<1>3. U[k] = UpToBody(U, k)
  BY <1>2, UpToIsDefined
<1> HIDE DEF U
<1>4. CASE k = 0
  <2>1. U[k] = [page |-> graph.page, changed |-> << >>]
    BY <1>3, <1>4, Zenon DEF UpToBody
  <2>2. U[k].page = graph.page /\ U[k].changed = << >>
    BY <2>1
  <2>3. Written(graph.page, << >>, 0)
    <3>1. << >> \in DocType /\ DOMAIN << >> = {}
      BY DEF DocType
    <3>2. \A p \in Brain!Paths : graph.page[p].sha \in Nat
      BY NodeFacts DEF ReadyToWrite, PageType
    <3>3. \A m \in 0 .. Len(snaps) : m # 0 => m \in DOMAIN snaps
      BY <1>0
    <3>4. NotStored(<< >>, graph.page)
      BY <3>1 DEF NotStored
    <3> QED
      BY <3>1, <3>2, <3>3, <3>4 DEF Written, ReadyToWrite
  <2> QED
    BY <1>1, <1>4, <2>2, <2>3
<1>5. CASE k # 0
  <2>1. k \in DOMAIN snaps /\ k - 1 \in 0 .. Len(snaps) /\ k - 1 \notin Bad
    BY <1>0, <1>1, <1>5
  <2>2. Written(U[k - 1].page, U[k - 1].changed, k - 1)
    BY <2>1
  <2>3. U[k] = [page |-> [U[k - 1].page EXCEPT ![Brain!Page(k)].sha = snaps[k].v],
                changed |-> IF Brain!CacheHit(U[k - 1].page[Brain!Page(k)], snaps[k].v)
                            THEN U[k - 1].changed
                            ELSE Append(U[k - 1].changed, <<Brain!Page(k), snaps[k].v>>)]
    BY <1>3, <1>5, Zenon DEF UpToBody
  <2>4. /\ U[k].page = [U[k - 1].page EXCEPT ![Brain!Page(k)].sha = snaps[k].v]
        /\ U[k].changed = IF Brain!CacheHit(U[k - 1].page[Brain!Page(k)], snaps[k].v)
                          THEN U[k - 1].changed
                          ELSE Append(U[k - 1].changed, <<Brain!Page(k), snaps[k].v>>)
    BY <2>3
  <2>5. Written(U[k].page, U[k].changed, k)
    BY <2>1, <2>2, <2>4, WrittenMore
  <2> QED
    BY <1>1, <2>5
<1> QED
  BY <1>4, <1>5

\* An edge joins what has content.
EdgesHold(g, known) ==
  /\ \A e \in g.nav : \A p \in {e[1], e[2]} : g.page[p].sha # 0
  /\ \A e \in g.call : g.page[e[1]].sha # 0 /\ known[e[2]].sha # 0

\* What an ingestion knows of the routes.
NodesInv ==
  /\ nodes \in [Routes -> Brain!Node] /\ ingested \in [Routes -> Brain!Node]
  /\ clone \in {"none", "live", "orphan"}
  /\ \A r \in DOMAIN declaredFacts : declaredFacts[r] \in Brain!Contents

\* The pages that a crawl has and those that are stored.
PagesInv ==
  /\ graph \in GraphType /\ stored \in GraphType
  /\ changed \in DocType /\ sent \in DocType /\ excused \subseteq Brain!Paths
  /\ crawlPc \in {"idle", "discover", "persist"} => graph = stored /\ sent = << >>
  /\ crawlPc = "embed" => sent = << >>
  /\ \A p \in Brain!Paths : graph.page[p].sha <= version /\ stored.page[p].sha <= version
  /\ \A i \in DOMAIN snaps : snaps[i].v <= version /\ \A p \in Brain!Paths : stored.page[p].sha <= snaps[i].v
  /\ \A i, j \in DOMAIN snaps : i <= j => snaps[i].v <= snaps[j].v
  /\ Brain!StaleOnlyAfterFailure
  /\ crawlPc = "embed" =>
       \A p \in Brain!Paths \ excused : graph.page[p].vec = graph.page[p].sha \/ Named(changed, p)
  /\ crawlPc = "commit" => \A p \in Brain!Paths \ excused : graph.page[p].vec = graph.page[p].sha
  /\ crawlPc = "embed" => NotStored(changed, stored.page)
  /\ crawlPc = "commit" => NotStored(sent, stored.page)
  /\ EdgesHold(graph, ingested) /\ EdgesHold(stored, ingested)

\* The inductive invariant of the Brain.
BrainInv == CrawlInv /\ IngestInv /\ NodesInv /\ PagesInv

\* Every step of an ingestion, and of anything else, keeps the types of its nodes, and what
\* was ingested stays.
LEMMA NodesStep ==
  ASSUME CrawlInv, IngestInv, NodesInv, Brain!Next
  PROVE  NodesInv' /\ \A r \in Routes : ingested[r].sha # 0 => ingested'[r].sha # 0
<1>0. version \in Brain!Contents
  BY DEF CrawlInv, CrawlTypes
<1>1. CASE \E declared \in SUBSET Routes : Brain!Checkout([r \in declared |-> version])
  <2>1. PICK declared \in SUBSET Routes : Brain!Checkout([r \in declared |-> version])
    BY <1>1
  <2>2. /\ clone' = "live" /\ nodes' = ingested
        /\ declaredFacts' = [r \in declared |-> version] /\ ingested' = ingested
    BY <2>1 DEF Brain!Checkout
  <2> QED
    BY <1>0, <2>2 DEF NodesInv
<1>2. CASE Brain!Write
  <2>1. /\ UNCHANGED <<clone, declaredFacts, ingested>>
        /\ nodes' = [r \in Routes |->
             IF r \notin DOMAIN declaredFacts THEN nodes[r]
             ELSE [sha |-> declaredFacts[r],
                   vec |-> IF Brain!CacheHit(nodes[r], declaredFacts[r]) THEN nodes[r].vec
                           ELSE declaredFacts[r]]]
    BY <1>2 DEF Brain!Write
  <2>2. ASSUME NEW r \in Routes PROVE nodes'[r] \in Brain!Node
    <3>1. CASE r \notin DOMAIN declaredFacts
      BY <2>1, <3>1 DEF NodesInv
    <3>2. CASE r \in DOMAIN declaredFacts
      <4>1. declaredFacts[r] \in 0 .. MaxVersion
        BY <3>2, BrainBoundsAssumption DEF NodesInv, Brain!Contents
      <4>2. nodes[r].vec \in 0 .. MaxVersion
        BY NodeFacts DEF NodesInv
      <4>3. nodes'[r] = [sha |-> declaredFacts[r],
                         vec |-> IF Brain!CacheHit(nodes[r], declaredFacts[r]) THEN nodes[r].vec
                                 ELSE declaredFacts[r]]
        BY <2>1, <3>2
      <4> QED
        BY <4>1, <4>2, <4>3 DEF Brain!Node
    <3> QED
      BY <3>1, <3>2
  <2>3. nodes' \in [Routes -> Brain!Node]
    BY <2>1, <2>2
  <2> QED
    BY <2>1, <2>3 DEF NodesInv
<1>3. CASE Brain!CommitIngest
  <2>1. /\ ing = "written" /\ clone' = "none" /\ ingested' = nodes /\ declaredFacts' = << >>
        /\ nodes' = nodes
    BY <1>3 DEF Brain!CommitIngest
  <2>2. ASSUME NEW r \in Routes, ingested[r].sha # 0 PROVE ingested'[r].sha # 0
    <3>1. CASE r \in DOMAIN declaredFacts
      <4>1. nodes[r].sha = declaredFacts[r] /\ declaredFacts[r] \in Brain!Contents
        BY <2>1, <3>1 DEF IngestInv, NodesInv
      <4> QED
        BY <2>1, <4>1, BrainBoundsAssumption DEF Brain!Contents
    <3>2. CASE r \notin DOMAIN declaredFacts
      BY <2>1, <2>2, <3>2 DEF IngestInv
    <3> QED
      BY <3>1, <3>2
  <2> QED
    BY <2>1, <2>2 DEF NodesInv
<1>4. CASE Brain!IngestFailed \/ Brain!IngestCrash
  BY <1>4 DEF Brain!IngestFailed, Brain!IngestCrash, NodesInv
<1>5. CASE UNCHANGED <<clone, declaredFacts, nodes, ingested>>
  BY <1>5 DEF NodesInv
<1>6. CASE \/ Brain!Publish \/ Brain!BeginCrawl \/ Brain!Visit \/ Brain!CrawlTimeOut
           \/ Brain!EndDiscover \/ Brain!FetchFailed \/ Brain!Persist \/ Brain!Embed
           \/ Brain!EmbedFailed \/ Brain!CommitCrawl \/ Brain!RunFailed
  <2>1. UNCHANGED <<clone, declaredFacts, nodes, ingested>>
    BY <1>6 DEF Brain!Publish, Brain!BeginCrawl, Brain!Visit, Brain!CrawlTimeOut,
       Brain!EndDiscover, Brain!FetchFailed, Brain!Persist, Brain!Embed, Brain!EmbedFailed,
       Brain!CommitCrawl, Brain!RunFailed, Brain!ingestVars
  <2> QED
    BY <1>5, <2>1
<1> QED
  BY <1>1, <1>2, <1>3, <1>4, <1>6 DEF Brain!Next

\* What is ingested stays: the edges still hold.
LEMMA EdgesStay ==
  ASSUME NEW g \in GraphType, NEW known, NEW later, EdgesHold(g, known),
         \A r \in Routes : known[r].sha # 0 => later[r].sha # 0
  PROVE  EdgesHold(g, later)
<1>1. g.call \subseteq Brain!Paths \X Routes
  BY GraphFacts
<1>2. ASSUME NEW e \in g.call PROVE later[e[2]].sha # 0
  <2>1. e[2] \in Routes
    BY <1>1
  <2> QED
    BY <2>1 DEF EdgesHold
<1> QED
  BY <1>2 DEF EdgesHold

\* A step that leaves the pages alone, and what was seen, keeps what is known of them.
LEMMA PagesKept ==
  ASSUME PagesInv, version' \in Nat, version \in Nat, version <= version',
         UNCHANGED <<graph, stored, changed, sent, excused>>,
         snaps' = snaps \/ snaps' = << >>, snaps \in Seq(Snapshot),
         crawlPc' \in {"idle", "discover", "persist"} => crawlPc \in {"idle", "discover", "persist"},
         crawlPc' = "embed" => crawlPc = "embed",
         crawlPc' = "commit" => crawlPc \in {"commit", "discover"},
         \A r \in Routes : ingested[r].sha # 0 => ingested'[r].sha # 0
  PROVE  PagesInv'
<1>1. EdgesHold(graph', ingested') /\ EdgesHold(stored', ingested')
  <2>1. EdgesHold(graph, ingested') /\ EdgesHold(stored, ingested')
    BY EdgesStay DEF PagesInv
  <2> QED
    BY <2>1
<1>2. \A p \in Brain!Paths : graph'.page[p].sha <= version' /\ stored'.page[p].sha <= version'
  <2> SUFFICES ASSUME NEW p \in Brain!Paths
               PROVE  graph.page[p].sha <= version' /\ stored.page[p].sha <= version'
    OBVIOUS
  <2>1. graph.page[p] \in Brain!Node /\ stored.page[p] \in Brain!Node
    BY GraphFacts DEF PagesInv, PageType
  <2>2. graph.page[p].sha \in Nat /\ stored.page[p].sha \in Nat
    BY <2>1, NodeFacts
  <2>3. graph.page[p].sha <= version /\ stored.page[p].sha <= version
    BY DEF PagesInv
  <2> QED
    BY <2>2, <2>3
<1>3. /\ \A i \in DOMAIN snaps' : snaps'[i].v <= version'
                                  /\ \A p \in Brain!Paths : stored'.page[p].sha <= snaps'[i].v
      /\ \A i, j \in DOMAIN snaps' : i <= j => snaps'[i].v <= snaps'[j].v
  <2>1. CASE snaps' = << >>
    BY <2>1
  <2>2. CASE snaps' = snaps
    <3>1. ASSUME NEW i \in DOMAIN snaps PROVE snaps[i].v <= version'
      <4>1. snaps[i].v \in Nat
        BY SnapFacts, BrainBoundsAssumption DEF Brain!Contents
      <4>2. snaps[i].v <= version
        BY DEF PagesInv
      <4> QED
        BY <4>1, <4>2
    <3> QED
      BY <2>2, <3>1 DEF PagesInv
  <2> QED
    BY <2>1, <2>2
<1>4. (Brain!StaleOnlyAfterFailure)'
  BY DEF PagesInv, Brain!StaleOnlyAfterFailure
<1>5. crawlPc' = "commit" => /\ \A p \in Brain!Paths \ excused : graph.page[p].vec = graph.page[p].sha
                             /\ NotStored(sent, stored.page)
  <2>1. CASE crawlPc = "commit"
    BY <2>1 DEF PagesInv
  <2>2. CASE crawlPc = "discover"
    <3>1. graph = stored /\ sent = << >>
      BY <2>2 DEF PagesInv
    <3>2. NotStored(sent, stored.page)
      BY <3>1 DEF NotStored
    <3>3. \A p \in Brain!Paths \ excused : graph.page[p].vec = graph.page[p].sha
      BY <3>1 DEF PagesInv, Brain!StaleOnlyAfterFailure
    <3> QED
      BY <3>2, <3>3
  <2> QED
    BY <2>1, <2>2
<1>6. /\ graph' \in GraphType /\ stored' \in GraphType
      /\ changed' \in DocType /\ sent' \in DocType /\ excused' \subseteq Brain!Paths
      /\ crawlPc' \in {"idle", "discover", "persist"} => graph' = stored' /\ sent' = << >>
      /\ crawlPc' = "embed" => sent' = << >>
      /\ crawlPc' = "embed" =>
           \A p \in Brain!Paths \ excused' : graph'.page[p].vec = graph'.page[p].sha \/ Named(changed', p)
      /\ crawlPc' = "embed" => NotStored(changed', stored'.page)
  BY DEF PagesInv
<1> QED
  BY <1>1, <1>2, <1>3, <1>4, <1>5, <1>6 DEF PagesInv

\* The next page that is seen is seen last.
LEMMA PagesVisitStep ==
  ASSUME CrawlInv, PagesInv, Brain!Visit
  PROVE  PagesInv'
<1>1. /\ crawlPc = "discover" /\ crawlPc' = "discover" /\ version' = version
      /\ UNCHANGED <<graph, stored, changed, sent, excused, ingested>>
  BY DEF Brain!Visit, Brain!ingestVars
<1>2. version \in Nat /\ version \in Brain!Contents /\ snaps \in Seq(Snapshot) /\ site \in Sites
  BY BrainBoundsAssumption DEF CrawlInv, CrawlTypes, Brain!Contents
<1>3. CASE snaps' = snaps
  BY <1>1, <1>2, <1>3, PagesKept
<1>4. CASE queue[Brain!NextIn][1] \notin seen
  <2> DEFINE r == [asked |-> queue[1][1], url |-> site.lands[queue[1][1]], depth |-> queue[1][2],
                   v |-> version]
  <2>0. Brain!NextIn = 1
    BY DEF Brain!NextIn
  <2>1. snaps' = Append(snaps, r) /\ queue # << >>
    BY <1>4, <2>0 DEF Brain!Visit
  <2>2. queue[1][1] \in Urls /\ queue[1][2] \in 0 .. MaxDepth
    BY <2>1, QueueFacts DEF CrawlInv, CrawlTypes, QueueType
  <2>3. r \in Snapshot /\ r.v = version
    BY <1>2, <2>2, SiteFacts DEF Snapshot
  <2> HIDE DEF r
  <2>4. /\ \A i \in DOMAIN snaps : snaps'[i] = snaps[i]
        /\ snaps'[Len(snaps) + 1] = r /\ Len(snaps) \in Nat /\ DOMAIN snaps = 1 .. Len(snaps)
        /\ DOMAIN snaps' = 1 .. Len(snaps) + 1
        /\ \A i \in DOMAIN snaps' : i \in DOMAIN snaps \/ i = Len(snaps) + 1
    BY <1>2, <2>1, <2>3, AskedFacts
  <2>5. \A i \in DOMAIN snaps' : snaps'[i].v <= version
          /\ \A p \in Brain!Paths : stored.page[p].sha <= snaps'[i].v
    BY <1>2, <2>3, <2>4 DEF PagesInv
  <2>6. ASSUME NEW i \in DOMAIN snaps', NEW j \in DOMAIN snaps', i <= j
        PROVE  snaps'[i].v <= snaps'[j].v
    <3>1. CASE j = Len(snaps) + 1
      BY <2>3, <2>4, <2>5, <3>1
    <3>2. CASE j # Len(snaps) + 1
      <4>1. i \in DOMAIN snaps /\ j \in DOMAIN snaps
        BY <2>4, <2>6, <3>2
      <4> QED
        BY <2>4, <2>6, <4>1 DEF PagesInv
    <3> QED
      BY <3>1, <3>2
  <2>7. (Brain!StaleOnlyAfterFailure)'
    BY <1>1 DEF PagesInv, Brain!StaleOnlyAfterFailure
  <2>8. EdgesHold(graph', ingested') /\ EdgesHold(stored', ingested')
    BY <1>1 DEF PagesInv
  <2> QED
    BY <1>1, <2>5, <2>6, <2>7, <2>8 DEF PagesInv
<1> QED
  BY <1>3, <1>4 DEF Brain!Visit

\* The edges that are written join pages that were written, and endpoints that were ingested.
LEMMA EdgesWritten ==
  ASSUME CrawlInv, PagesInv, NEW page \in PageType,
         \A p \in Brain!Paths : graph.page[p].sha # 0 => page[p].sha # 0,
         \A i \in DOMAIN snaps : Brain!Page(i) \in Brain!Paths /\ page[Brain!Page(i)].sha # 0,
         NEW g, g = [page |-> page, nav |-> graph.nav \union Brain!NavEdges,
                     call |-> graph.call \union Brain!CallEdges]
  PROVE  g \in GraphType /\ EdgesHold(g, ingested)
<1>1. graph \in GraphType /\ EdgesHold(graph, ingested) /\ site \in Sites /\ snaps \in Seq(Snapshot)
  BY DEF CrawlInv, CrawlTypes, PagesInv
<1>2. graph.nav \subseteq Brain!Paths \X Brain!Paths /\ graph.call \subseteq Brain!Paths \X Routes
  BY <1>1, GraphFacts
<1>3. ASSUME NEW e \in Brain!NavEdges
      PROVE  /\ e \in Brain!Paths \X Brain!Paths /\ page[e[1]].sha # 0 /\ page[e[2]].sha # 0
  <2>1. e \in {Brain!Page(i) : i \in DOMAIN snaps} \X {Brain!Page(i) : i \in DOMAIN snaps}
    BY DEF Brain!NavEdges
  <2> QED
    BY <2>1
<1>4. ASSUME NEW e \in Brain!CallEdges
      PROVE  /\ e \in Brain!Paths \X Routes /\ page[e[1]].sha # 0 /\ ingested[e[2]].sha # 0
  <2>1. PICK i \in DOMAIN snaps :
          e \in {<<Brain!Page(i), r>> : r \in {r \in site.calls[snaps[i].url] : ingested[r].sha # 0}}
    BY DEF Brain!CallEdges
  <2>2. PICK r \in site.calls[snaps[i].url] : ingested[r].sha # 0 /\ e = <<Brain!Page(i), r>>
    BY <2>1
  <2>3. r \in Routes
    BY <1>1, <2>2, SnapFacts, SiteFacts
  <2> QED
    BY <2>2, <2>3
<1>5. g.page = page /\ g.nav = graph.nav \union Brain!NavEdges
      /\ g.call = graph.call \union Brain!CallEdges
  OBVIOUS
<1>6. g \in GraphType
  <2>1. graph.nav \union Brain!NavEdges \subseteq Brain!Paths \X Brain!Paths
    BY <1>2, <1>3
  <2>2. graph.call \union Brain!CallEdges \subseteq Brain!Paths \X Routes
    BY <1>2, <1>4
  <2> QED
    BY <2>1, <2>2, GraphMade
<1>7. ASSUME NEW e \in g.nav PROVE page[e[1]].sha # 0 /\ page[e[2]].sha # 0
  <2>1. CASE e \in graph.nav
    <3>1. e[1] \in Brain!Paths /\ e[2] \in Brain!Paths
      BY <1>2, <2>1
    <3>2. graph.page[e[1]].sha # 0 /\ graph.page[e[2]].sha # 0
      BY <1>1, <2>1 DEF EdgesHold
    <3> QED
      BY <3>1, <3>2
  <2> QED
    BY <1>3, <1>5, <1>7, <2>1
<1>8. ASSUME NEW e \in g.call PROVE page[e[1]].sha # 0 /\ ingested[e[2]].sha # 0
  <2>1. CASE e \in graph.call
    <3>1. e[1] \in Brain!Paths
      BY <1>2, <2>1
    <3>2. graph.page[e[1]].sha # 0 /\ ingested[e[2]].sha # 0
      BY <1>1, <2>1 DEF EdgesHold
    <3> QED
      BY <3>1, <3>2
  <2> QED
    BY <1>4, <1>5, <1>8, <2>1
<1>9. EdgesHold(g, ingested)
  BY <1>5, <1>7, <1>8 DEF EdgesHold
<1> QED
  BY <1>6, <1>9

\* A crawl writes its pages and the edges between them.
LEMMA PagesPersistStep ==
  ASSUME CrawlInv, PagesInv, Brain!Persist
  PROVE  PagesInv'
<1> DEFINE U == Brain!UpTo[Len(snaps)]
<1>1. /\ crawlPc = "persist" /\ crawlPc' = IF U.changed = << >> THEN "commit" ELSE "embed"
      /\ changed' = U.changed
      /\ graph' = [page |-> U.page, nav |-> graph.nav \union Brain!NavEdges,
                   call |-> graph.call \union Brain!CallEdges]
      /\ snaps' = << >> /\ UNCHANGED <<site, version, sent, stored, excused, ingested>>
  BY DEF Brain!Persist, Brain!ingestVars
<1> HIDE DEF U
<1>2. /\ graph = stored /\ sent = << >> /\ snaps \in Seq(Snapshot) /\ Len(snaps) <= MaxPages
      /\ graph \in GraphType /\ graph.page \in PageType /\ Len(snaps) \in Nat
      /\ DOMAIN snaps = 1 .. Len(snaps)
  BY <1>1, GraphFacts DEF CrawlInv, CrawlTypes, PagesInv
<1>3. \A i \in DOMAIN snaps : Brain!Page(i) \in Brain!Paths
  BY <1>2, SnapFacts DEF Brain!Page, Brain!Paths
<1>4. ReadyToWrite
  BY <1>2, <1>3 DEF ReadyToWrite, CrawlInv, CrawlTypes, PagesInv, Brain!StaleOnlyAfterFailure
<1>5. Written(U.page, U.changed, Len(snaps))
  BY <1>2, <1>4, AllWritten DEF U
<1>6. graph' \in GraphType /\ EdgesHold(graph', ingested') /\ graph'.page = U.page
  <2>1. \A p \in Brain!Paths : graph.page[p].sha # 0 => U.page[p].sha # 0
    <3> SUFFICES ASSUME NEW p \in Brain!Paths, graph.page[p].sha # 0 PROVE U.page[p].sha # 0
      OBVIOUS
    <3>1. graph.page[p].sha \in Nat /\ U.page[p].sha \in Nat
      BY <1>2, <1>5, NodeFacts DEF Written, PageType
    <3>2. graph.page[p].sha <= U.page[p].sha
      BY <1>5 DEF Written
    <3> QED
      BY <3>1, <3>2
  <2>2. \A i \in DOMAIN snaps : Brain!Page(i) \in Brain!Paths /\ U.page[Brain!Page(i)].sha # 0
    BY <1>2, <1>3, <1>5 DEF Written
  <2>3. U.page \in PageType
    BY <1>5 DEF Written
  <2>4. graph' \in GraphType /\ EdgesHold(graph', ingested)
    BY <1>1, <2>1, <2>2, <2>3, EdgesWritten
  <2> QED
    BY <1>1, <2>4
<1>7. DOMAIN snaps' = {}
  BY <1>1
<1>8. (Brain!StaleOnlyAfterFailure)'
  BY <1>1 DEF PagesInv, Brain!StaleOnlyAfterFailure
<1>9. /\ \A p \in Brain!Paths \ excused : U.page[p].vec = U.page[p].sha \/ Named(U.changed, p)
      /\ \A p \in Brain!Paths : U.page[p].sha <= version
      /\ NotStored(U.changed, stored.page) /\ U.changed \in DocType
  BY <1>2, <1>5 DEF Written
<1>10. crawlPc' = "commit" =>
         /\ \A p \in Brain!Paths \ excused : U.page[p].vec = U.page[p].sha
         /\ NotStored(sent, stored.page)
  <2> SUFFICES ASSUME crawlPc' = "commit"
               PROVE  /\ \A p \in Brain!Paths \ excused : U.page[p].vec = U.page[p].sha
                      /\ NotStored(sent, stored.page)
    OBVIOUS
  <2>1. U.changed = << >>
    BY <1>1
  <2>2. \A p : ~Named(U.changed, p)
    BY <2>1 DEF Named
  <2> QED
    BY <1>2, <1>9, <2>1, <2>2
<1>11. EdgesHold(stored', ingested') /\ stored' \in GraphType
  BY <1>1 DEF PagesInv
<1>12. sent' \in DocType /\ excused' \subseteq Brain!Paths
  BY <1>1 DEF PagesInv
<1> QED
  BY <1>1, <1>2, <1>6, <1>7, <1>8, <1>9, <1>10, <1>11, <1>12 DEF PagesInv

LEMMA PagesEmbedStep ==
  ASSUME PagesInv, Brain!Embed
  PROVE  PagesInv'
<1> DEFINE page2 == [p \in Brain!Paths |->
                      IF Named(changed, p) THEN [graph.page[p] EXCEPT !.vec = graph.page[p].sha]
                      ELSE graph.page[p]]
<1>1. /\ crawlPc = "embed" /\ crawlPc' = "commit" /\ sent' = changed
      /\ graph' = [graph EXCEPT !.page = page2]
      /\ UNCHANGED <<site, version, snaps, changed, stored, excused, ingested>>
  BY DEF Brain!Embed, Brain!ingestVars, Named
<1> HIDE DEF page2
<1>2. /\ graph \in GraphType /\ stored \in GraphType /\ graph.page \in PageType
  BY GraphFacts DEF PagesInv
<1>3. ASSUME NEW p \in Brain!Paths
      PROVE  /\ page2[p] \in Brain!Node /\ page2[p].sha = graph.page[p].sha
             /\ Named(changed, p) => page2[p].vec = page2[p].sha
             /\ ~Named(changed, p) => page2[p] = graph.page[p]
  <2>1. graph.page[p] \in Brain!Node
    BY <1>2 DEF PageType
  <2>2. CASE Named(changed, p)
    <3>1. page2[p] = [graph.page[p] EXCEPT !.vec = graph.page[p].sha]
      BY <2>2 DEF page2
    <3>2. page2[p] = [sha |-> graph.page[p].sha, vec |-> graph.page[p].sha]
      BY <2>1, <3>1, NodeFacts
    <3>3. graph.page[p].sha \in 0 .. MaxVersion
      BY <2>1, NodeFacts
    <3> QED
      BY <2>2, <3>2, <3>3 DEF Brain!Node
  <2>3. CASE ~Named(changed, p)
    BY <2>1, <2>3 DEF page2
  <2> QED
    BY <2>2, <2>3
<1>4. page2 \in PageType
  BY <1>3 DEF PageType, page2
<1>5. graph' = [page |-> page2, nav |-> graph.nav, call |-> graph.call]
  BY <1>1, <1>2, GraphFacts
<1>6. graph' \in GraphType
  BY <1>2, <1>4, <1>5, GraphFacts, GraphMade
<1>7. graph'.page = page2 /\ graph'.nav = graph.nav /\ graph'.call = graph.call
  BY <1>5
<1>8. EdgesHold(graph', ingested')
  <2>1. EdgesHold(graph, ingested) /\ graph.nav \subseteq Brain!Paths \X Brain!Paths
        /\ graph.call \subseteq Brain!Paths \X Routes
    BY <1>2, GraphFacts DEF PagesInv
  <2>2. ASSUME NEW e \in graph.nav PROVE page2[e[1]].sha # 0 /\ page2[e[2]].sha # 0
    <3>1. e[1] \in Brain!Paths /\ e[2] \in Brain!Paths
      BY <2>1
    <3>2. graph.page[e[1]].sha # 0 /\ graph.page[e[2]].sha # 0
      BY <2>1 DEF EdgesHold
    <3> QED
      BY <1>3, <3>1, <3>2
  <2>3. ASSUME NEW e \in graph.call PROVE page2[e[1]].sha # 0 /\ ingested[e[2]].sha # 0
    <3>1. e[1] \in Brain!Paths
      BY <2>1
    <3>2. graph.page[e[1]].sha # 0 /\ ingested[e[2]].sha # 0
      BY <2>1 DEF EdgesHold
    <3> QED
      BY <1>3, <3>1, <3>2
  <2> QED
    BY <1>1, <1>7, <2>2, <2>3 DEF EdgesHold
<1>9. \A p \in Brain!Paths : page2[p].sha <= version
  BY <1>3 DEF PagesInv
<1>10. \A p \in Brain!Paths \ excused : page2[p].vec = page2[p].sha
  BY <1>1, <1>3 DEF PagesInv
<1>11. (Brain!StaleOnlyAfterFailure)'
  BY <1>1 DEF PagesInv, Brain!StaleOnlyAfterFailure
<1>12. NotStored(sent', stored'.page)
  BY <1>1 DEF PagesInv
<1>13. /\ changed' \in DocType /\ sent' \in DocType /\ excused' \subseteq Brain!Paths
       /\ stored' \in GraphType /\ EdgesHold(stored', ingested')
       /\ \A p \in Brain!Paths : stored'.page[p].sha <= version'
       /\ \A i \in DOMAIN snaps' : snaps'[i].v <= version'
                                   /\ \A p \in Brain!Paths : stored'.page[p].sha <= snaps'[i].v
       /\ \A i, j \in DOMAIN snaps' : i <= j => snaps'[i].v <= snaps'[j].v
  BY <1>1 DEF PagesInv
<1> QED
  BY <1>1, <1>6, <1>7, <1>8, <1>9, <1>10, <1>11, <1>12, <1>13 DEF PagesInv

LEMMA PagesEmbedFailedStep ==
  ASSUME PagesInv, Brain!EmbedFailed
  PROVE  PagesInv'
<1>1. /\ crawlPc = "embed" /\ crawlPc' = "commit"
      /\ excused' = excused \union {changed[i][1] : i \in DOMAIN changed}
      /\ UNCHANGED <<site, version, snaps, changed, sent, graph, stored, ingested>>
  BY DEF Brain!EmbedFailed, Brain!ingestVars
<1>2. changed \in DocType /\ sent = << >>
  BY <1>1 DEF PagesInv
<1>3. excused' \subseteq Brain!Paths /\ \A p : p \notin excused' => p \notin excused /\ ~Named(changed, p)
  BY <1>1, <1>2, DocFacts DEF PagesInv, Named
<1>4. \A p \in Brain!Paths \ excused' : graph.page[p].vec = graph.page[p].sha
  BY <1>1, <1>3 DEF PagesInv
<1>5. (Brain!StaleOnlyAfterFailure)'
  BY <1>1, <1>3 DEF PagesInv, Brain!StaleOnlyAfterFailure
<1>6. NotStored(sent', stored'.page)
  BY <1>1, <1>2 DEF NotStored
<1>7. /\ graph' \in GraphType /\ stored' \in GraphType /\ changed' \in DocType /\ sent' \in DocType
      /\ EdgesHold(graph', ingested') /\ EdgesHold(stored', ingested')
      /\ \A p \in Brain!Paths : graph'.page[p].sha <= version' /\ stored'.page[p].sha <= version'
      /\ \A i \in DOMAIN snaps' : snaps'[i].v <= version'
                                  /\ \A p \in Brain!Paths : stored'.page[p].sha <= snaps'[i].v
      /\ \A i, j \in DOMAIN snaps' : i <= j => snaps'[i].v <= snaps'[j].v
  BY <1>1 DEF PagesInv
<1> QED
  BY <1>1, <1>3, <1>4, <1>5, <1>6, <1>7 DEF PagesInv

\* The session ends: what it had is stored, or what is stored is all that is left.
LEMMA PagesEndStep ==
  ASSUME PagesInv, Brain!CommitCrawl \/ Brain!RunFailed
  PROVE  PagesInv'
<1>1. /\ crawlPc' = "idle" /\ snaps' = << >> /\ changed' = << >> /\ sent' = << >>
      /\ UNCHANGED <<site, version, excused, ingested>> /\ graph' = stored'
      /\ stored' = stored \/ (crawlPc = "commit" /\ stored' = graph)
  BY DEF Brain!CommitCrawl, Brain!RunFailed, Brain!Forget, Brain!ingestVars
<1>2. << >> \in DocType
  BY DEF DocType
<1>3. (Brain!StaleOnlyAfterFailure)'
  BY <1>1 DEF PagesInv, Brain!StaleOnlyAfterFailure
<1>4. /\ stored' \in GraphType /\ EdgesHold(stored', ingested') /\ excused' \subseteq Brain!Paths
      /\ \A p \in Brain!Paths : stored'.page[p].sha <= version'
  BY <1>1 DEF PagesInv
<1>5. DOMAIN snaps' = {}
  BY <1>1
<1> QED
  BY <1>1, <1>2, <1>3, <1>4, <1>5 DEF PagesInv

\* Every step of the Brain keeps what is so of its pages.
LEMMA PagesStep ==
  ASSUME BrainInv, Brain!Next
  PROVE  PagesInv'
<1>0. /\ version \in Nat /\ version \in Brain!Contents /\ snaps \in Seq(Snapshot)
      /\ CrawlInv /\ PagesInv
      /\ crawlPc \in {"idle", "discover", "persist", "embed", "commit"}
  BY BrainBoundsAssumption DEF BrainInv, CrawlInv, CrawlTypes, Brain!Contents
<1>1. \A r \in Routes : ingested[r].sha # 0 => ingested'[r].sha # 0
  BY NodesStep DEF BrainInv
<1>2. CASE Brain!Publish
  <2>1. /\ version' = version + 1 /\ snaps' = snaps /\ crawlPc' = crawlPc
        /\ UNCHANGED <<graph, stored, changed, sent, excused>>
    BY <1>2 DEF Brain!Publish, Brain!crawlVars
  <2>2. version' \in Nat /\ version <= version'
    BY <1>0, <2>1
  <2> QED
    BY <1>0, <1>1, <2>1, <2>2, PagesKept
<1>3. CASE Brain!BeginCrawl \/ Brain!CrawlTimeOut \/ Brain!EndDiscover \/ Brain!FetchFailed
  <2>1. /\ version' = version /\ (snaps' = snaps \/ snaps' = << >>)
        /\ UNCHANGED <<graph, stored, changed, sent, excused>>
        /\ crawlPc \in {"idle", "discover"} /\ crawlPc' \in {"discover", "persist", "commit"}
        /\ crawlPc' = "commit" => crawlPc = "discover"
    BY <1>3 DEF Brain!BeginCrawl, Brain!CrawlTimeOut, Brain!EndDiscover, Brain!FetchFailed
  <2>2. version' \in Nat /\ version <= version'
    BY <1>0, <2>1
  <2> QED
    BY <1>0, <1>1, <2>1, <2>2, PagesKept
<1>4. CASE Brain!Visit
  BY <1>0, <1>4, PagesVisitStep
<1>5. CASE Brain!Persist
  BY <1>0, <1>5, PagesPersistStep
<1>6. CASE Brain!Embed
  BY <1>0, <1>6, PagesEmbedStep
<1>7. CASE Brain!EmbedFailed
  BY <1>0, <1>7, PagesEmbedFailedStep
<1>8. CASE Brain!CommitCrawl \/ Brain!RunFailed
  BY <1>0, <1>8, PagesEndStep
<1>9. CASE \/ \E declared \in SUBSET Routes : Brain!Checkout([r \in declared |-> version])
           \/ Brain!Write \/ Brain!CommitIngest \/ Brain!IngestFailed \/ Brain!IngestCrash
  <2>1. /\ version' = version /\ snaps' = snaps /\ crawlPc' = crawlPc
        /\ UNCHANGED <<graph, stored, changed, sent, excused>>
    BY <1>9 DEF Brain!Checkout, Brain!Write, Brain!CommitIngest, Brain!IngestFailed,
       Brain!IngestCrash, Brain!crawlVars
  <2>2. version' \in Nat /\ version <= version'
    BY <1>0, <2>1
  <2> QED
    BY <1>0, <1>1, <2>1, <2>2, PagesKept
<1> QED
  BY <1>2, <1>3, <1>4, <1>5, <1>6, <1>7, <1>8, <1>9 DEF Brain!Next

\* The invariant of the Brain: the search, the pages and their vectors, the routes.
THEOREM BrainInvariantHolds == Spec => []BrainInv
<1>1. Init => NodesInv /\ PagesInv
  <2> SUFFICES ASSUME Init PROVE NodesInv /\ PagesInv
    OBVIOUS
  <2>1. /\ version = 1 /\ crawlPc = "idle" /\ snaps = << >> /\ changed = << >> /\ sent = << >>
        /\ excused = {} /\ graph = Brain!NoPages /\ stored = Brain!NoPages /\ clone = "none"
        /\ declaredFacts = << >> /\ nodes = [r \in Routes |-> Brain!Unknown] /\ ingested = nodes
    BY DEF Init, Brain!Init
  <2>2. Brain!Unknown \in Brain!Node /\ Brain!Unknown.sha = 0 /\ Brain!Unknown.vec = 0
    BY BrainBoundsAssumption DEF Brain!Unknown, Brain!Node
  <2>3. NodesInv
    BY <2>1, <2>2 DEF NodesInv
  <2> DEFINE page == [p \in Brain!Paths |-> Brain!Unknown]
  <2>4. page \in PageType /\ \A p \in Brain!Paths : page[p] = Brain!Unknown
    BY <2>2 DEF PageType
  <2>5. Brain!NoPages = [page |-> page, nav |-> {}, call |-> {}]
    BY DEF Brain!NoPages
  <2> HIDE DEF page
  <2>6. Brain!NoPages \in GraphType /\ Brain!NoPages.page = page /\ Brain!NoPages.nav = {}
        /\ Brain!NoPages.call = {}
    BY <2>4, <2>5, GraphMade
  <2>7. EdgesHold(Brain!NoPages, ingested)
    BY <2>6 DEF EdgesHold
  <2>8. Brain!StaleOnlyAfterFailure
    BY <2>1, <2>2, <2>4, <2>6 DEF Brain!StaleOnlyAfterFailure
  <2>9. << >> \in DocType /\ DOMAIN snaps = {}
    BY <2>1 DEF DocType
  <2>10. \A p \in Brain!Paths : graph.page[p].sha <= version /\ stored.page[p].sha <= version
    BY <2>1, <2>2, <2>4, <2>6
  <2>11. PagesInv
    BY <2>1, <2>6, <2>7, <2>8, <2>9, <2>10 DEF PagesInv
  <2> QED
    BY <2>3, <2>11
<1>2. CrawlInv /\ IngestInv /\ (NodesInv /\ PagesInv) /\ [Next]_vars => (NodesInv /\ PagesInv)'
  <2> SUFFICES ASSUME CrawlInv, IngestInv, NodesInv, PagesInv, [Next]_vars
               PROVE  NodesInv' /\ PagesInv'
    OBVIOUS
  <2>1. CASE Brain!Next
    BY <2>1, NodesStep, PagesStep DEF BrainInv
  <2>2. CASE UNCHANGED brainVars
    <3>1. NodesInv'
      BY <2>2 DEF brainVars, NodesInv
    <3>2. /\ version' = version /\ snaps' = snaps /\ crawlPc' = crawlPc
          /\ UNCHANGED <<graph, stored, changed, sent, excused, ingested>>
      BY <2>2 DEF brainVars
    <3>3. version \in Nat /\ snaps \in Seq(Snapshot) /\ version <= version
      BY BrainBoundsAssumption DEF CrawlInv, CrawlTypes, Brain!Contents
    <3>4. PagesInv'
      BY <3>2, <3>3, PagesKept
    <3> QED
      BY <3>1, <3>4
  <2> QED
    BY <2>1, <2>2 DEF Next, vars
<1> QED
  BY <1>1, <1>2, CrawlInvariantHolds, IngestInvariantHolds, PTL DEF Spec, BrainInv

\* What the Brain promises, in every interleaving of a crawl, an ingestion and deployments: the
\* crawl is the breadth-first search of the site and embeds what changed and no more, a stored
\* vector that is stale is one whose embedding failed, and an ingestion counts as a whole or
\* not at all (crawler/crawler.py, ingestion/laravel/ingester.py).
THEOREM BrainIsFaithfulHolds == Spec => []BrainIsFaithful
<1>1. PagesInv => Brain!OnlyChangedSent
  BY DEF PagesInv, NotStored, Brain!OnlyChangedSent
<1>2. BrainInv => BrainIsFaithful
  BY <1>1 DEF BrainInv, CrawlInv, IngestInv, PagesInv, BrainIsFaithful, Brain!CrawlIsFaithful
<1> QED
  BY <1>2, BrainInvariantHolds, PTL

\* The types of the Brain, with its edges between pages that have content.
THEOREM BrainTypesHold == Spec => []Brain!BrainTypeOK
<1>1. BrainInv => Brain!BrainTypeOK
  <2> SUFFICES ASSUME BrainInv PROVE Brain!BrainTypeOK
    OBVIOUS
  <2>1. /\ site \in Sites /\ version \in Brain!Contents /\ crawlLate \in BOOLEAN
        /\ crawlPc \in {"idle", "discover", "persist", "embed", "commit"}
        /\ queue \in Seq(Urls \X (0 .. MaxDepth)) /\ seen \subseteq Urls
        /\ snaps \in Seq([asked : Urls, url : Urls, depth : 0 .. MaxDepth, v : Brain!Contents])
    BY DEF BrainInv, CrawlInv, CrawlTypes, Snapshot
  <2>2. /\ changed \in Seq(Brain!Paths \X Brain!Contents) /\ sent \in Seq(Brain!Paths \X Brain!Contents)
        /\ excused \subseteq Brain!Paths
    BY DEF BrainInv, PagesInv, DocType
  <2>3. /\ ing \in {"idle", "cloned", "written"} /\ clone \in {"none", "live", "orphan"}
        /\ nodes \in [Routes -> Brain!Node] /\ ingested \in [Routes -> Brain!Node]
    BY DEF BrainInv, IngestInv, NodesInv
  <2>4. \A g \in {graph, stored} : g.page \in [Brain!Paths -> Brain!Node] /\ EdgesHold(g, ingested)
    BY GraphFacts DEF BrainInv, PagesInv, PageType
  <2> QED
    BY <2>1, <2>2, <2>3, <2>4, Zenon DEF Brain!BrainTypeOK, EdgesHold
<1> QED
  BY <1>1, BrainInvariantHolds, PTL

-----------------------------------------------------------------------------
(* The parser: what FlattenSeq gives. *)

\* The sequences up to the n-th, one after the other.
FlattenBody(s, f, n) == IF n = 1 THEN s[n] ELSE f[n - 1] \o s[n]

LEMMA FlattenUpTo ==
  ASSUME NEW s, NEW m \in Nat
  PROVE  \E f : f = [n \in 1 .. m |-> FlattenBody(s, f, n)]
<1> DEFINE Bad == {k \in Nat : ~ \E f : f = [n \in 1 .. k |-> FlattenBody(s, f, n)]}
<1> SUFFICES ASSUME Bad # {} PROVE FALSE
  OBVIOUS
<1>1. PICK k \in Bad : \A j \in Bad : k <= j
  BY NatLeast
<1>2. k # 0
  <2> SUFFICES ASSUME k = 0 PROVE FALSE
    OBVIOUS
  <2> DEFINE f == [n \in 1 .. 0 |-> s[n]]
  <2>1. f = [n \in 1 .. 0 |-> FlattenBody(s, f, n)]
    BY DEF FlattenBody
  <2> QED
    BY <2>1, <1>1
<1>3. k - 1 \in Nat /\ k - 1 \notin Bad
  BY <1>1, <1>2
<1>4. PICK g : g = [n \in 1 .. k - 1 |-> FlattenBody(s, g, n)]
  BY <1>3
<1> DEFINE f == [n \in 1 .. k |-> IF n < k THEN g[n] ELSE FlattenBody(s, g, k)]
<1>5. \A n \in 1 .. k : FlattenBody(s, f, n) = FlattenBody(s, g, n)
  <2> SUFFICES ASSUME NEW n \in 1 .. k, n # 1 PROVE f[n - 1] = g[n - 1]
    BY DEF FlattenBody
  <2> QED
    OBVIOUS
<1>6. \A n \in 1 .. k : f[n] = FlattenBody(s, g, n)
  <2> SUFFICES ASSUME NEW n \in 1 .. k PROVE f[n] = FlattenBody(s, g, n)
    OBVIOUS
  <2>1. CASE n < k
    <3>1. n \in 1 .. k - 1
      BY <2>1
    <3> QED
      BY <2>1, <3>1, <1>4
  <2>2. CASE n = k
    BY <2>2
  <2> QED
    BY <2>1, <2>2
<1>7. f = [n \in 1 .. k |-> FlattenBody(s, f, n)]
  BY <1>5, <1>6
<1> QED
  BY <1>1, <1>7

\* FlattenSeq of a sequence that is not empty.
LEMMA FlattenIs ==
  ASSUME NEW s, Len(s) \in Nat, Len(s) # 0
  PROVE  \E f : /\ f = [n \in 1 .. Len(s) |-> FlattenBody(s, f, n)]
                /\ Parser!FlattenSeq(s) = f[Len(s)]
<1> DEFINE F == CHOOSE f : f = [n \in 1 .. Len(s) |-> IF n = 1 THEN s[n] ELSE f[n - 1] \o s[n]]
<1>1. F = [n \in 1 .. Len(s) |-> IF n = 1 THEN s[n] ELSE F[n - 1] \o s[n]]
  <2>1. \E f : f = [n \in 1 .. Len(s) |-> IF n = 1 THEN s[n] ELSE f[n - 1] \o s[n]]
    BY FlattenUpTo, Zenon DEF FlattenBody
  <2> QED
    BY <2>1, Zenon
<1>2. Parser!FlattenSeq(s) = F[Len(s)]
  BY Zenon DEF Parser!FlattenSeq
<1> QED
  BY <1>1, <1>2, Zenon DEF FlattenBody

\* A sequence of sequences and one more.
LEMMA FlattenAppend ==
  ASSUME NEW S, NEW s \in Seq(Seq(S)), NEW t, Len(t) = Len(s) + 1, NEW last,
         \A i \in 1 .. Len(s) : t[i] = s[i], t[Len(s) + 1] = last
  PROVE  Parser!FlattenSeq(t) = IF s = << >> THEN last ELSE Parser!FlattenSeq(s) \o last
<1> DEFINE m == Len(s)
<1>1. m \in Nat /\ Len(t) = m + 1 /\ Len(t) \in Nat /\ Len(t) # 0
  OBVIOUS
<1>2. PICK g : /\ g = [n \in 1 .. Len(t) |-> FlattenBody(t, g, n)]
               /\ Parser!FlattenSeq(t) = g[Len(t)]
  BY <1>1, FlattenIs
<1>3. \A n \in 1 .. m + 1 : g[n] = FlattenBody(t, g, n)
  BY <1>1, <1>2
<1>4. CASE s = << >>
  <2>1. m = 0
    BY <1>4
  <2>2. g[1] = t[1]
    BY <2>1, <1>3 DEF FlattenBody
  <2> QED
    BY <1>1, <1>2, <1>4, <2>1, <2>2
<1>5. CASE s # << >>
  <2>1. m # 0 /\ m >= 1
    BY <1>1, <1>5
  <2>2. PICK f : /\ f = [n \in 1 .. m |-> FlattenBody(s, f, n)]
                 /\ Parser!FlattenSeq(s) = f[m]
    BY <1>1, <2>1, FlattenIs
  <2>3. \A n \in 1 .. m : f[n] = FlattenBody(s, f, n)
    BY <2>2
  <2>4. \A n \in 1 .. m : f[n] = g[n]
    <3> DEFINE Bad == {n \in 1 .. m : f[n] # g[n]}
    <3> SUFFICES ASSUME Bad # {} PROVE FALSE
      OBVIOUS
    <3>1. PICK k \in Bad : \A j \in Bad : k <= j
      <4>1. Bad \subseteq Nat
        OBVIOUS
      <4> QED
        BY <4>1, NatLeast
    <3>2. k \in 1 .. m /\ k \in 1 .. m + 1 /\ t[k] = s[k]
      BY <1>1, <3>1
    <3>3. k # 1 => f[k - 1] = g[k - 1]
      <4> SUFFICES ASSUME k # 1 PROVE f[k - 1] = g[k - 1]
        OBVIOUS
      <4>1. k - 1 \in 1 .. m /\ k - 1 < k
        BY <1>1, <3>2
      <4> QED
        BY <3>1, <4>1
    <3>4. FlattenBody(s, f, k) = FlattenBody(t, g, k)
      BY <3>2, <3>3 DEF FlattenBody
    <3>5. f[k] = g[k]
      BY <1>3, <2>3, <3>2, <3>4
    <3> QED
      BY <3>1, <3>5
  <2>5. m + 1 # 1 /\ (m + 1) - 1 = m /\ m + 1 \in 1 .. m + 1
    BY <1>1, <2>1
  <2>6. g[m + 1] = g[m] \o t[m + 1]
    BY <1>3, <2>5 DEF FlattenBody
  <2>7. f[m] = g[m]
    BY <1>1, <2>1, <2>4
  <2> QED
    BY <1>1, <1>2, <1>5, <2>2, <2>6, <2>7
<1> QED
  BY <1>4, <1>5

-----------------------------------------------------------------------------
(* The parser: the brackets of a file. *)

LEMMA ParserCardinality == \A S : Parser!Cardinality(S) = Cardinality(S)
BY DEF Parser!Cardinality, Cardinality

\* The statements of a kind from one to another.
OfKind(kind, i, n) == {j \in i .. n : file[j].t = kind}

LEMMA KindCounted ==
  ASSUME NEW i \in Nat, NEW n \in Nat, i <= n, n >= 1, NEW kind
  PROVE  /\ Cardinality(OfKind(kind, i, n - 1)) \in Nat
         /\ Cardinality(OfKind(kind, i, n))
              = Cardinality(OfKind(kind, i, n - 1)) + (IF file[n].t = kind THEN 1 ELSE 0)
<1>1. IsFiniteSet(OfKind(kind, i, n - 1)) /\ Cardinality(OfKind(kind, i, n - 1)) \in Nat
  <2>1. IsFiniteSet(i .. n - 1)
    BY FS_Interval
  <2>2. OfKind(kind, i, n - 1) \in SUBSET (i .. n - 1)
    BY DEF OfKind
  <2> QED
    BY <2>1, <2>2, FS_Subset, FS_CardinalityType
<1>2. n \notin OfKind(kind, i, n - 1)
  BY DEF OfKind
<1>3. \A j : j \in i .. n <=> j \in i .. n - 1 \/ j = n
  OBVIOUS
<1>4. CASE file[n].t = kind
  <2>1. OfKind(kind, i, n) = OfKind(kind, i, n - 1) \cup {n}
    BY <1>3, <1>4, Zenon DEF OfKind
  <2> QED
    BY <1>1, <1>2, <1>4, <2>1, FS_AddElement
<1>5. CASE file[n].t # kind
  <2>1. OfKind(kind, i, n) = OfKind(kind, i, n - 1)
    BY <1>3, <1>5, Zenon DEF OfKind
  <2> QED
    BY <1>1, <1>5, <2>1
<1> QED
  BY <1>4, <1>5

\* What a statement adds to the brackets that are open.
Opens(s) == IF s.t = "group" THEN 1 ELSE IF s.t = "end" THEN 0 - 1 ELSE 0

LEMMA DepthStep ==
  ASSUME NEW i \in Nat, NEW n \in Nat, i <= n, n >= 1
  PROVE  /\ Parser!Depth(i, n - 1) \in Int
         /\ Parser!Depth(i, n) = Parser!Depth(i, n - 1) + Opens(file[n])
<1> DEFINE a == Cardinality(OfKind("group", i, n - 1))
           b == Cardinality(OfKind("end", i, n - 1))
           c == Cardinality(OfKind("group", i, n))
           d == Cardinality(OfKind("end", i, n))
<1>1. Parser!Depth(i, n - 1) = a - b /\ Parser!Depth(i, n) = c - d
  BY ParserCardinality DEF Parser!Depth, OfKind
<1>2. a \in Nat /\ c = a + (IF file[n].t = "group" THEN 1 ELSE 0)
  BY KindCounted
<1>3. b \in Nat /\ d = b + (IF file[n].t = "end" THEN 1 ELSE 0)
  BY KindCounted
<1> HIDE DEF a, b, c, d
<1> QED
  BY <1>1, <1>2, <1>3 DEF Opens

LEMMA DepthNothing ==
  ASSUME NEW n \in Nat
  PROVE  Parser!Depth(n + 1, n) = 0
<1>1. /\ {j \in n + 1 .. n : file[j].t = "group"} = {}
      /\ {j \in n + 1 .. n : file[j].t = "end"} = {}
  OBVIOUS
<1>2. Cardinality({}) = 0
  BY FS_EmptySet
<1> QED
  BY <1>1, <1>2, ParserCardinality DEF Parser!Depth

LEMMA DepthBalance ==
  ASSUME NEW n \in Nat
  PROVE  Parser!Depth(1, n) = Balance(file, n)
BY ParserCardinality DEF Parser!Depth, Balance

\* The groups open after a statement are those before it that it leaves open, and itself.
LEMMA EnclosingStep ==
  ASSUME NEW n \in Nat, n >= 1
  PROVE  /\ \A i \in 1 .. n - 1 :
              i \in Parser!Enclosing(n + 1) <=> i \in Parser!Enclosing(n) /\ Parser!Depth(i, n) >= 1
         /\ n \in Parser!Enclosing(n + 1) <=> file[n].t = "group"
         /\ Parser!Enclosing(n + 1) \subseteq 1 .. n
<1>0. (n + 1) - 1 = n
  OBVIOUS
<1>1. ASSUME NEW i \in 1 .. n - 1
      PROVE  i \in Parser!Enclosing(n + 1) <=> i \in Parser!Enclosing(n) /\ Parser!Depth(i, n) >= 1
  <2>1. \A m : m \in i .. n <=> m \in i .. n - 1 \/ m = n
    OBVIOUS
  <2>2. i \in 1 .. n /\ i \in 1 .. n - 1
    OBVIOUS
  <2>3. i \in Parser!Enclosing(n + 1) <=>
          file[i].t = "group" /\ \A m \in i .. n : Parser!Depth(i, m) >= 1
    BY <1>0, <2>2 DEF Parser!Enclosing
  <2>4. i \in Parser!Enclosing(n) <=>
          file[i].t = "group" /\ \A m \in i .. n - 1 : Parser!Depth(i, m) >= 1
    BY <2>2 DEF Parser!Enclosing
  <2> QED
    BY <2>1, <2>3, <2>4
<1>2. n \in Parser!Enclosing(n + 1) <=> file[n].t = "group"
  <2>1. n \in 1 .. n
    OBVIOUS
  <2>2. n \in Parser!Enclosing(n + 1) <=>
          file[n].t = "group" /\ \A m \in n .. n : Parser!Depth(n, m) >= 1
    BY <1>0, <2>1 DEF Parser!Enclosing
  <2>3. file[n].t = "group" => Parser!Depth(n, n) >= 1
    <3>1. Parser!Depth(n, n - 1) = 0
      <4>1. n - 1 \in Nat /\ (n - 1) + 1 = n
        OBVIOUS
      <4> QED
        BY <4>1, DepthNothing
    <3>2. Parser!Depth(n, n) = Parser!Depth(n, n - 1) + Opens(file[n])
      BY DepthStep
    <3> QED
      BY <3>1, <3>2 DEF Opens
  <2>4. \A m \in n .. n : m = n
    OBVIOUS
  <2> QED
    BY <2>2, <2>3, <2>4
<1>3. Parser!Enclosing(n + 1) \subseteq 1 .. n
  BY <1>0 DEF Parser!Enclosing
<1> QED
  BY <1>1, <1>2, <1>3

-----------------------------------------------------------------------------
(* The parser: the stack stands for the groups that enclose the cursor. *)

\* The provers do not know that a literal is a string: those of the parser are named.
Word == STRING \cup {"create", "edit", "{id}", "none", "artisan"}

Ctx == [prefix : Seq(STRING), mw : SUBSET STRING, ctrl : Word]

\* The prefix and the middleware of the first i of the open groups.
PrefixOf(open, i) == Parser!FlattenSeq([j \in 1 .. i |-> file[open[j]].prefix])
MiddlewareOf(open, i) == UNION {file[open[j]].mw : j \in 1 .. i}

\* The groups that are open before statement n, outermost first, and their contexts.
OpenAre(open, contexts, n) ==
  /\ open \in Seq(Nat) /\ Len(contexts) = Len(open) + 1
  /\ \A i, j \in 1 .. Len(open) : i < j => open[i] < open[j]
  /\ \A i : i \in Parser!Enclosing(n) <=> \E k \in 1 .. Len(open) : i = open[k]
  /\ \A i \in 1 .. Len(open) : Parser!Depth(open[i], n - 1) = Len(open) - i + 1
  /\ Parser!Depth(1, n - 1) = Len(open)
  /\ \A i \in 0 .. Len(open) : /\ contexts[i + 1].prefix = PrefixOf(open, i)
                               /\ contexts[i + 1].mw = MiddlewareOf(open, i)

LEMMA StatementFacts ==
  ASSUME file \in Files
  PROVE  /\ file \in Seq(Statement) /\ Len(file) \in Nat /\ DOMAIN file = 1 .. Len(file)
         /\ \A n \in DOMAIN file :
              /\ file[n] \in Statement /\ file[n].t \in {"group", "end", "route"}
              /\ file[n].t = "group" =>
                   file[n].prefix \in Seq(STRING) /\ file[n].mw \in SUBSET STRING /\ file[n].ctrl \in STRING
              /\ file[n].t = "route" =>
                   /\ file[n].literal \in BOOLEAN /\ file[n].uri \in Seq(STRING)
                   /\ file[n].act \in STRING /\ file[n].mw \in SUBSET STRING
                   /\ file[n].verb \in DOMAIN Parser!Primary \cup {"fluent", "resource", "apiResource"}
              /\ Balance(file, n) >= 0
<1>1. file \in Seq(Statement) /\ \A n \in DOMAIN file : Balance(file, n) >= 0
  BY FilesAssumption
<1>2. Len(file) \in Nat /\ DOMAIN file = 1 .. Len(file) /\ \A n \in DOMAIN file : file[n] \in Statement
  BY <1>1
<1>3. ASSUME NEW s \in Statement
      PROVE  /\ s.t \in {"group", "end", "route"}
             /\ s.t = "group" => s.prefix \in Seq(STRING) /\ s.mw \in SUBSET STRING /\ s.ctrl \in STRING
             /\ s.t = "route" =>
                  /\ s.literal \in BOOLEAN /\ s.uri \in Seq(STRING)
                  /\ s.act \in STRING /\ s.mw \in SUBSET STRING
                  /\ s.verb \in DOMAIN Parser!Primary \cup {"fluent", "resource", "apiResource"}
  BY DEF Statement
<1> QED
  BY <1>1, <1>2, <1>3

\* The open groups are statements before the cursor, each a group.
LEMMA OpenFacts ==
  ASSUME NEW open, NEW contexts, NEW n \in Nat, OpenAre(open, contexts, n)
  PROVE  /\ Len(open) \in Nat
         /\ \A k \in 1 .. Len(open) : open[k] \in 1 .. n - 1 /\ file[open[k]].t = "group"
<1>1. \A k \in 1 .. Len(open) : open[k] \in Parser!Enclosing(n)
  BY DEF OpenAre
<1> QED
  BY <1>1 DEF Parser!Enclosing, OpenAre

\* A shorter list of groups has the same prefixes and middleware.
LEMMA SamePrefix ==
  ASSUME NEW a, NEW b, NEW i \in Nat, \A j \in 1 .. i : a[j] = b[j]
  PROVE  PrefixOf(a, i) = PrefixOf(b, i) /\ MiddlewareOf(a, i) = MiddlewareOf(b, i)
<1>1. [j \in 1 .. i |-> file[a[j]].prefix] = [j \in 1 .. i |-> file[b[j]].prefix]
  OBVIOUS
<1> QED
  BY <1>1 DEF PrefixOf, MiddlewareOf

LEMMA PrefixNone == \A open : PrefixOf(open, 0) = << >> /\ MiddlewareOf(open, 0) = {}
<1> TAKE open
<1>1. [j \in 1 .. 0 |-> file[open[j]].prefix] = << >>
  OBVIOUS
<1>2. Parser!FlattenSeq(<< >>) = << >>
  <2>1. Len(<< >>) = 0
    OBVIOUS
  <2> QED
    BY <2>1, Zenon DEF Parser!FlattenSeq
<1> QED
  BY <1>1, <1>2 DEF PrefixOf, MiddlewareOf

\* One more group.
LEMMA PrefixGrows ==
  ASSUME NEW open, NEW i \in Nat, \A j \in 1 .. i + 1 : file[open[j]].prefix \in Seq(STRING)
  PROVE  PrefixOf(open, i + 1) = PrefixOf(open, i) \o file[open[i + 1]].prefix
         /\ MiddlewareOf(open, i + 1) = MiddlewareOf(open, i) \cup file[open[i + 1]].mw
<1>s. PICK s : s = [j \in 1 .. i |-> file[open[j]].prefix]
  OBVIOUS
<1>t. PICK t : t = [j \in 1 .. i + 1 |-> file[open[j]].prefix]
  OBVIOUS
<1>p. PICK last : last = file[open[i + 1]].prefix
  OBVIOUS
<1>1. s \in Seq(Seq(STRING)) /\ Len(s) = i /\ Len(t) = i + 1 /\ \A j \in 1 .. i : t[j] = s[j]
  BY <1>s, <1>t
<1>2. t[i + 1] = last /\ last \in Seq(STRING)
  BY <1>t, <1>p
<1>3. PrefixOf(open, i) = Parser!FlattenSeq(s) /\ PrefixOf(open, i + 1) = Parser!FlattenSeq(t)
  BY <1>s, <1>t, Zenon DEF PrefixOf
<1>m. MiddlewareOf(open, i + 1) = MiddlewareOf(open, i) \cup file[open[i + 1]].mw
  <2>1. \A j : j \in 1 .. i + 1 <=> j \in 1 .. i \/ j = i + 1
    OBVIOUS
  <2> QED
    BY <2>1 DEF MiddlewareOf
<1>l. Len(t) = Len(s) + 1 /\ (\A j \in 1 .. Len(s) : t[j] = s[j]) /\ t[Len(s) + 1] = last
  BY <1>1, <1>2
<1>4. Parser!FlattenSeq(t) = IF s = << >> THEN last ELSE Parser!FlattenSeq(s) \o last
  <2>1. s \in Seq(Seq(STRING))
    BY <1>1
  <2> QED
    BY <2>1, <1>l, FlattenAppend, Zenon
<1>5. s = << >> => Parser!FlattenSeq(s) = << >>
  <2>1. Len(<< >>) = 0
    OBVIOUS
  <2> QED
    BY <2>1, Zenon DEF Parser!FlattenSeq
<1>6. << >> \o last = last
  BY <1>2
<1>7. Parser!FlattenSeq(t) = Parser!FlattenSeq(s) \o last
  BY <1>4, <1>5, <1>6
<1>8. PrefixOf(open, i + 1) = PrefixOf(open, i) \o last
  BY <1>3, <1>7
<1> QED
  BY <1>8, <1>m, <1>p

Controllers == {"none"} \cup {file[j].ctrl : j \in {j \in DOMAIN file : file[j].t = "group"}}

LEMMA LastIs == \A s : Parser!Last(s) = s[Len(s)]
BY DEF Parser!Last

LEMMA FrontFacts ==
  ASSUME NEW S, NEW s \in Seq(S), Len(s) >= 1
  PROVE  /\ Parser!Front(s) \in Seq(S) /\ Len(Parser!Front(s)) = Len(s) - 1
         /\ \A i \in 1 .. Len(s) - 1 : Parser!Front(s)[i] = s[i]
<1>1. PICK n \in Nat : n = Len(s) /\ n >= 1
  OBVIOUS
<1>2. \A i \in 1 .. n - 1 : s[i] \in S
  BY <1>1
<1>3. /\ SubSeq(s, 1, n - 1) \in Seq(S)
      /\ Len(SubSeq(s, 1, n - 1)) = IF 1 <= n - 1 THEN (n - 1) - 1 + 1 ELSE 0
      /\ \A i \in 1 .. (n - 1) - 1 + 1 : SubSeq(s, 1, n - 1)[i] = s[1 + i - 1]
  <2>1. 1 \in Int /\ n - 1 \in Int
    BY <1>1
  <2> QED
    BY <1>2, <2>1, SubSeqProperties
<1>4. (n - 1) - 1 + 1 = n - 1 /\ \A i \in 1 .. n - 1 : 1 + i - 1 = i
  BY <1>1
<1>5. Len(SubSeq(s, 1, n - 1)) = n - 1
  BY <1>1, <1>3
<1>6. \A i \in 1 .. n - 1 : SubSeq(s, 1, n - 1)[i] = s[i]
  BY <1>3, <1>4
<1> QED
  BY <1>1, <1>3, <1>5, <1>6, Zenon DEF Parser!Front

\* Statement n is past: what is open before the next one.
LEMMA EnterOpens ==
  ASSUME file \in Files, NEW n \in DOMAIN file, file[n].t = "group",
         NEW contexts \in Seq(Ctx), NEW open, OpenAre(open, contexts, n)
  PROVE  OpenAre(Append(open, n), Append(contexts, Parser!Merge(Parser!Last(contexts), file[n])), n + 1)
<1> DEFINE m == Len(open)
           wider == Append(open, n)
           inner == Parser!Merge(Parser!Last(contexts), file[n])
           deeper == Append(contexts, inner)
<1>1. n \in Nat /\ n >= 1 /\ (n + 1) - 1 = n /\ m \in Nat /\ open \in Seq(Nat) /\ Len(contexts) = m + 1
  BY StatementFacts DEF OpenAre
<1>2. /\ wider \in Seq(Nat) /\ Len(wider) = m + 1 /\ wider[m + 1] = n
      /\ \A i \in 1 .. m : wider[i] = open[i]
  BY <1>1
<1>3. \A i \in 1 .. m : open[i] \in 1 .. n - 1 /\ file[open[i]].t = "group" /\ open[i] \in Nat
  BY <1>1, OpenFacts
<1>4. /\ Len(deeper) = m + 2 /\ deeper[m + 2] = inner
      /\ \A i \in 1 .. m + 1 : deeper[i] = contexts[i]
  BY <1>1
<1>5. \A i \in Nat : i <= n /\ i >= 1 => Parser!Depth(i, n) = Parser!Depth(i, n - 1) + 1
  BY <1>1, DepthStep DEF Opens
<1>6. Parser!Depth(n, n) = 1
  <2>1. Parser!Depth(n, n - 1) = 0
    <3>1. n - 1 \in Nat /\ (n - 1) + 1 = n
      BY <1>1
    <3> QED
      BY <3>1, DepthNothing
  <2> QED
    BY <1>1, <1>5, <2>1
<1> HIDE DEF m, wider, deeper
<1>7. ASSUME NEW i \in 1 .. m + 1, NEW j \in 1 .. m + 1, i < j PROVE wider[i] < wider[j]
  <2>1. i \in 1 .. m /\ wider[i] = open[i] /\ open[i] \in 1 .. n - 1
    BY <1>1, <1>2, <1>3, <1>7
  <2>2. CASE j = m + 1
    BY <1>1, <1>2, <2>1, <2>2
  <2>3. CASE j # m + 1
    <3>1. j \in 1 .. m
      BY <1>1, <2>3
    <3> QED
      BY <1>2, <1>7, <2>1, <3>1 DEF OpenAre, m
  <2> QED
    BY <2>2, <2>3
<1>8. ASSUME NEW i PROVE i \in Parser!Enclosing(n + 1) <=> \E k \in 1 .. m + 1 : i = wider[k]
  <2>1. i \in Parser!Enclosing(n) <=> \E k \in 1 .. m : i = open[k]
    BY DEF OpenAre, m
  <2>2. i \in Parser!Enclosing(n) => i \in 1 .. n - 1
    BY <1>1 DEF Parser!Enclosing
  <2>3. \A k \in 1 .. m : Parser!Depth(open[k], n) >= 1
    <3> SUFFICES ASSUME NEW k \in 1 .. m PROVE Parser!Depth(open[k], n) >= 1
      OBVIOUS
    <3>1. Parser!Depth(open[k], n - 1) = m - k + 1
      BY DEF OpenAre, m
    <3>2. Parser!Depth(open[k], n) = Parser!Depth(open[k], n - 1) + 1
      BY <1>1, <1>3, <1>5
    <3> QED
      BY <1>1, <3>1, <3>2
  <2>4. /\ i \in 1 .. n - 1 => (i \in Parser!Enclosing(n + 1) <=> i \in Parser!Enclosing(n) /\ Parser!Depth(i, n) >= 1)
        /\ n \in Parser!Enclosing(n + 1)
        /\ i \in Parser!Enclosing(n + 1) => i \in 1 .. n - 1 \/ i = n
    <3>1. \A x \in 1 .. n : x \in 1 .. n - 1 \/ x = n
      BY <1>1
    <3> QED
      BY <1>1, <3>1, EnclosingStep
  <2>5. (\E k \in 1 .. m + 1 : i = wider[k]) <=> (\E k \in 1 .. m : i = open[k]) \/ i = n
    <3>1. \A k : k \in 1 .. m + 1 <=> k \in 1 .. m \/ k = m + 1
      BY <1>1
    <3> QED
      BY <1>2, <3>1, Zenon
  <2> QED
    BY <2>1, <2>2, <2>3, <2>4, <2>5
<1>9. ASSUME NEW i \in 1 .. m + 1 PROVE Parser!Depth(wider[i], n) = (m + 1) - i + 1
  <2>1. CASE i = m + 1
    BY <1>1, <1>2, <1>6, <2>1
  <2>2. CASE i # m + 1
    <3>1. i \in 1 .. m /\ wider[i] = open[i]
      BY <1>1, <1>2, <2>2
    <3>2. Parser!Depth(open[i], n - 1) = m - i + 1
      BY <3>1 DEF OpenAre, m
    <3>3. Parser!Depth(open[i], n) = Parser!Depth(open[i], n - 1) + 1
      BY <1>1, <1>3, <1>5, <3>1
    <3> QED
      BY <1>1, <3>1, <3>2, <3>3
  <2> QED
    BY <2>1, <2>2
<1>10. Parser!Depth(1, n) = m + 1
  <2>1. Parser!Depth(1, n - 1) = m
    BY DEF OpenAre, m
  <2> QED
    BY <1>1, <1>5, <2>1
<1>11. ASSUME NEW i \in 0 .. m + 1
       PROVE  deeper[i + 1].prefix = PrefixOf(wider, i) /\ deeper[i + 1].mw = MiddlewareOf(wider, i)
  <2>1. \A k \in 0 .. m : /\ contexts[k + 1].prefix = PrefixOf(open, k)
                          /\ contexts[k + 1].mw = MiddlewareOf(open, k)
    BY DEF OpenAre, m
  <2>2. ASSUME NEW k \in 0 .. m
        PROVE  PrefixOf(open, k) = PrefixOf(wider, k) /\ MiddlewareOf(open, k) = MiddlewareOf(wider, k)
    <3>1. k \in Nat /\ \A j \in 1 .. k : open[j] = wider[j]
      BY <1>1, <1>2
    <3> QED
      BY <3>1, SamePrefix
  <2>3. CASE i # m + 1
    <3>1. i \in 0 .. m /\ i + 1 \in 1 .. m + 1
      BY <1>1, <2>3
    <3> QED
      BY <1>4, <2>1, <2>2, <3>1
  <2>4. CASE i = m + 1
    <3>1. m \in 0 .. m /\ i + 1 = m + 2
      BY <1>1, <2>4
    <3>2. Parser!Last(contexts) = contexts[m + 1]
      BY <1>1, LastIs
    <3>3. /\ inner.prefix = contexts[m + 1].prefix \o file[n].prefix
          /\ inner.mw = contexts[m + 1].mw \cup file[n].mw
      BY <3>2 DEF Parser!Merge
    <3>4. \A j \in 1 .. m + 1 : file[wider[j]].prefix \in Seq(STRING)
      <4> SUFFICES ASSUME NEW j \in 1 .. m + 1 PROVE file[wider[j]].prefix \in Seq(STRING)
        OBVIOUS
      <4>1. wider[j] \in DOMAIN file /\ file[wider[j]].t = "group"
        <5>1. j \in 1 .. m \/ j = m + 1
          BY <1>1
        <5>2. n \in 1 .. Len(file) /\ Len(file) \in Nat /\ DOMAIN file = 1 .. Len(file)
          BY StatementFacts
        <5>3. 1 .. n - 1 \subseteq 1 .. Len(file)
          BY <5>2
        <5> QED
          BY <1>2, <1>3, <5>1, <5>2, <5>3
      <4> QED
        BY <4>1, StatementFacts
    <3>5. /\ PrefixOf(wider, m + 1) = PrefixOf(wider, m) \o file[wider[m + 1]].prefix
          /\ MiddlewareOf(wider, m + 1) = MiddlewareOf(wider, m) \cup file[wider[m + 1]].mw
      BY <1>1, <3>4, PrefixGrows
    <3> QED
      BY <1>2, <1>4, <2>1, <2>2, <2>4, <3>1, <3>3, <3>5
  <2> QED
    BY <2>3, <2>4
<1>12. OpenAre(wider, deeper, n + 1)
  <2>1. Len(deeper) = Len(wider) + 1
    BY <1>1, <1>2, <1>4
  <2>2. \A i, j \in 1 .. Len(wider) : i < j => wider[i] < wider[j]
    BY <1>2, <1>7
  <2>3. \A i : i \in Parser!Enclosing(n + 1) <=> \E k \in 1 .. Len(wider) : i = wider[k]
    BY <1>2, <1>8
  <2>4. /\ \A i \in 1 .. Len(wider) : Parser!Depth(wider[i], (n + 1) - 1) = Len(wider) - i + 1
        /\ Parser!Depth(1, (n + 1) - 1) = Len(wider)
    BY <1>1, <1>2, <1>9, <1>10
  <2>5. \A i \in 0 .. Len(wider) : /\ deeper[i + 1].prefix = PrefixOf(wider, i)
                                   /\ deeper[i + 1].mw = MiddlewareOf(wider, i)
    BY <1>2, <1>11
  <2> QED
    BY <1>2, <2>1, <2>2, <2>3, <2>4, <2>5 DEF OpenAre
<1> QED
  BY <1>12 DEF wider, deeper

LEMMA LeaveOpens ==
  ASSUME file \in Files, NEW n \in DOMAIN file, file[n].t = "end",
         NEW contexts \in Seq(Ctx), NEW open, OpenAre(open, contexts, n)
  PROVE  Len(open) >= 1 /\ OpenAre(Parser!Front(open), Parser!Front(contexts), n + 1)
<1> DEFINE m == Len(open)
           fewer == Parser!Front(open)
           outer == Parser!Front(contexts)
<1>1. n \in Nat /\ n >= 1 /\ (n + 1) - 1 = n /\ m \in Nat /\ open \in Seq(Nat) /\ Len(contexts) = m + 1
  BY StatementFacts DEF OpenAre
<1>2. \A i \in 1 .. m : open[i] \in 1 .. n - 1 /\ open[i] \in Nat
  BY <1>1, OpenFacts
<1>3. \A i \in Nat : i <= n /\ i >= 1 => Parser!Depth(i, n) = Parser!Depth(i, n - 1) - 1
  <2> SUFFICES ASSUME NEW i \in Nat, i <= n, i >= 1 PROVE Parser!Depth(i, n) = Parser!Depth(i, n - 1) - 1
    OBVIOUS
  <2>1. /\ Parser!Depth(i, n - 1) \in Int
        /\ Parser!Depth(i, n) = Parser!Depth(i, n - 1) + Opens(file[n])
    BY <1>1, DepthStep
  <2>2. Opens(file[n]) = 0 - 1
    BY DEF Opens
  <2> QED
    BY <2>1, <2>2
<1>4. m >= 1 /\ Parser!Depth(1, n) = m - 1
  <2>1. Parser!Depth(1, n - 1) = m
    BY DEF OpenAre
  <2>2. Parser!Depth(1, n) = m - 1
    BY <1>1, <1>3, <2>1
  <2>3. Parser!Depth(1, n) >= 0
    BY <1>1, DepthBalance, StatementFacts
  <2> QED
    BY <1>1, <2>2, <2>3
<1>5. /\ fewer \in Seq(Nat) /\ Len(fewer) = m - 1
      /\ \A i \in 1 .. m - 1 : fewer[i] = open[i]
  BY <1>1, <1>4, FrontFacts
<1>6. /\ Len(outer) = m /\ \A i \in 1 .. m : outer[i] = contexts[i]
  <2>1. Len(contexts) >= 1 /\ Len(contexts) - 1 = m
    BY <1>1
  <2> QED
    BY <2>1, FrontFacts
<1> HIDE DEF m, fewer, outer
<1>7. \A i, j \in 1 .. m - 1 : i < j => fewer[i] < fewer[j]
  <2>1. \A i \in 1 .. m - 1 : i \in 1 .. m
    BY <1>1
  <2> QED
    BY <1>5, <2>1 DEF OpenAre, m
<1>8. \A i \in 1 .. m : Parser!Depth(open[i], n) = m - i
  <2> SUFFICES ASSUME NEW i \in 1 .. m PROVE Parser!Depth(open[i], n) = m - i
    OBVIOUS
  <2>1. Parser!Depth(open[i], n - 1) = m - i + 1
    BY DEF OpenAre, m
  <2>2. Parser!Depth(open[i], n) = Parser!Depth(open[i], n - 1) - 1
    BY <1>1, <1>2, <1>3
  <2> QED
    BY <1>1, <2>1, <2>2
<1>9. ASSUME NEW i PROVE i \in Parser!Enclosing(n + 1) <=> \E k \in 1 .. m - 1 : i = fewer[k]
  <2>1. i \in Parser!Enclosing(n) <=> \E k \in 1 .. m : i = open[k]
    BY DEF OpenAre, m
  <2>2. i \in Parser!Enclosing(n) => i \in 1 .. n - 1
    BY <1>1 DEF Parser!Enclosing
  <2>3. /\ i \in 1 .. n - 1 => (i \in Parser!Enclosing(n + 1) <=> i \in Parser!Enclosing(n) /\ Parser!Depth(i, n) >= 1)
        /\ n \notin Parser!Enclosing(n + 1)
        /\ i \in Parser!Enclosing(n + 1) => i \in 1 .. n - 1 \/ i = n
    <3>1. \A x \in 1 .. n : x \in 1 .. n - 1 \/ x = n
      BY <1>1
    <3>2. file[n].t # "group"
      OBVIOUS
    <3>3. n \notin Parser!Enclosing(n + 1)
      BY <1>1, <3>2, EnclosingStep
    <3>4. Parser!Enclosing(n + 1) \subseteq 1 .. n
      BY <1>1, EnclosingStep
    <3>5. i \in 1 .. n - 1 => (i \in Parser!Enclosing(n + 1) <=> i \in Parser!Enclosing(n) /\ Parser!Depth(i, n) >= 1)
      BY <1>1, EnclosingStep
    <3> QED
      BY <3>1, <3>3, <3>4, <3>5
  <2>4. \A k \in 1 .. m : (Parser!Depth(open[k], n) >= 1) <=> (k # m)
    <3> SUFFICES ASSUME NEW k \in 1 .. m PROVE (Parser!Depth(open[k], n) >= 1) <=> (k # m)
      OBVIOUS
    <3>1. Parser!Depth(open[k], n) = m - k
      BY <1>8
    <3> QED
      BY <1>1, <3>1
  <2>5. \A k : k \in 1 .. m - 1 <=> k \in 1 .. m /\ k # m
    BY <1>1
  <2>6. i \in Parser!Enclosing(n + 1) <=> i \in Parser!Enclosing(n) /\ Parser!Depth(i, n) >= 1
    BY <2>2, <2>3
  <2>7. (\E k \in 1 .. m - 1 : i = fewer[k]) <=> \E k \in 1 .. m : i = open[k] /\ k # m
    BY <1>5, <2>5, Zenon
  <2>8. CASE i \in Parser!Enclosing(n + 1)
    <3>1. PICK k \in 1 .. m : i = open[k]
      BY <2>1, <2>6, <2>8
    <3>2. k # m
      BY <2>4, <2>6, <2>8, <3>1
    <3> QED
      BY <2>7, <2>8, <3>1, <3>2
  <2>9. CASE \E k \in 1 .. m : i = open[k] /\ k # m
    <3>1. PICK k \in 1 .. m : i = open[k] /\ k # m
      BY <2>9
    <3>2. Parser!Depth(i, n) >= 1
      BY <2>4, <3>1
    <3> QED
      BY <2>1, <2>6, <2>7, <3>1, <3>2
  <2> QED
    BY <2>7, <2>8, <2>9
<1>10. ASSUME NEW i \in 0 .. m - 1
       PROVE  outer[i + 1].prefix = PrefixOf(fewer, i) /\ outer[i + 1].mw = MiddlewareOf(fewer, i)
  <2>1. i \in 0 .. m /\ i + 1 \in 1 .. m /\ i \in Nat /\ \A j \in 1 .. i : j \in 1 .. m - 1
    BY <1>1
  <2>2. contexts[i + 1].prefix = PrefixOf(open, i) /\ contexts[i + 1].mw = MiddlewareOf(open, i)
    BY <2>1 DEF OpenAre, m
  <2>3. PrefixOf(fewer, i) = PrefixOf(open, i) /\ MiddlewareOf(fewer, i) = MiddlewareOf(open, i)
    BY <1>5, <2>1, SamePrefix
  <2> QED
    BY <1>6, <2>1, <2>2, <2>3
<1>11. OpenAre(fewer, outer, n + 1)
  <2>1. Len(outer) = Len(fewer) + 1
    BY <1>1, <1>5, <1>6
  <2>2. \A i, j \in 1 .. Len(fewer) : i < j => fewer[i] < fewer[j]
    BY <1>5, <1>7
  <2>3. \A i : i \in Parser!Enclosing(n + 1) <=> \E k \in 1 .. Len(fewer) : i = fewer[k]
    BY <1>5, <1>9
  <2>4. \A i \in 1 .. Len(fewer) : Parser!Depth(fewer[i], (n + 1) - 1) = Len(fewer) - i + 1
    <3> SUFFICES ASSUME NEW i \in 1 .. m - 1 PROVE Parser!Depth(fewer[i], n) = (m - 1) - i + 1
      BY <1>1, <1>5
    <3>1. i \in 1 .. m /\ i \in Nat
      BY <1>1
    <3> QED
      BY <1>1, <1>5, <1>8, <3>1
  <2>5. Parser!Depth(1, (n + 1) - 1) = Len(fewer)
    BY <1>1, <1>4, <1>5
  <2>6. \A i \in 0 .. Len(fewer) : /\ outer[i + 1].prefix = PrefixOf(fewer, i)
                                   /\ outer[i + 1].mw = MiddlewareOf(fewer, i)
    BY <1>5, <1>10
  <2> QED
    BY <1>5, <2>1, <2>2, <2>3, <2>4, <2>5, <2>6 DEF OpenAre
<1> QED
  BY <1>4, <1>11 DEF fewer, outer, m

LEMMA PassOpens ==
  ASSUME file \in Files, NEW n \in DOMAIN file, file[n].t = "route",
         NEW contexts, NEW open, OpenAre(open, contexts, n)
  PROVE  OpenAre(open, contexts, n + 1)
<1>1. n \in Nat /\ n >= 1 /\ (n + 1) - 1 = n /\ Len(open) \in Nat
  BY StatementFacts DEF OpenAre
<1>2. \A i \in 1 .. Len(open) : open[i] \in 1 .. n - 1 /\ open[i] \in Nat
  BY <1>1, OpenFacts
<1>3. \A i \in Nat : i <= n /\ i >= 1 => Parser!Depth(i, n) = Parser!Depth(i, n - 1)
  <2> SUFFICES ASSUME NEW i \in Nat, i <= n, i >= 1 PROVE Parser!Depth(i, n) = Parser!Depth(i, n - 1)
    OBVIOUS
  <2>1. /\ Parser!Depth(i, n - 1) \in Int
        /\ Parser!Depth(i, n) = Parser!Depth(i, n - 1) + Opens(file[n])
    BY <1>1, DepthStep
  <2>2. Opens(file[n]) = 0
    BY DEF Opens
  <2> QED
    BY <2>1, <2>2
<1>4. \A i \in 1 .. Len(open) : Parser!Depth(open[i], n) = Len(open) - i + 1
  <2> SUFFICES ASSUME NEW i \in 1 .. Len(open) PROVE Parser!Depth(open[i], n) = Len(open) - i + 1
    OBVIOUS
  <2>1. Parser!Depth(open[i], n - 1) = Len(open) - i + 1
    BY DEF OpenAre
  <2> QED
    BY <1>1, <1>2, <1>3, <2>1
<1>5. ASSUME NEW i PROVE i \in Parser!Enclosing(n + 1) <=> i \in Parser!Enclosing(n)
  <2>1. i \in Parser!Enclosing(n) => \E k \in 1 .. Len(open) : i = open[k]
    BY DEF OpenAre
  <2>2. i \in Parser!Enclosing(n) => i \in 1 .. n - 1 /\ Parser!Depth(i, n) >= 1
    BY <1>1, <1>2, <1>4, <2>1
  <2>3. /\ i \in 1 .. n - 1 => (i \in Parser!Enclosing(n + 1) <=> i \in Parser!Enclosing(n) /\ Parser!Depth(i, n) >= 1)
        /\ n \notin Parser!Enclosing(n + 1)
        /\ i \in Parser!Enclosing(n + 1) => i \in 1 .. n - 1 \/ i = n
    <3>1. \A x \in 1 .. n : x \in 1 .. n - 1 \/ x = n
      BY <1>1
    <3>2. file[n].t # "group"
      OBVIOUS
    <3>3. n \notin Parser!Enclosing(n + 1)
      BY <1>1, <3>2, EnclosingStep
    <3>4. Parser!Enclosing(n + 1) \subseteq 1 .. n
      BY <1>1, EnclosingStep
    <3>5. i \in 1 .. n - 1 => (i \in Parser!Enclosing(n + 1) <=> i \in Parser!Enclosing(n) /\ Parser!Depth(i, n) >= 1)
      BY <1>1, EnclosingStep
    <3> QED
      BY <3>1, <3>3, <3>4, <3>5
  <2> QED
    BY <2>2, <2>3
<1>6. Parser!Depth(1, n) = Len(open)
  BY <1>1, <1>3 DEF OpenAre
<1> QED
  BY <1>1, <1>4, <1>5, <1>6 DEF OpenAre

-----------------------------------------------------------------------------
(* The parser: the routes of a statement. *)

Fact == [at : Nat, method : Parser!Methods, uri : Seq(Word), action : Word, mw : SUBSET STRING,
         auth : BOOLEAN]

\* A route of a verb: its method and what it appends to the address.
RouteOf == Parser!Methods \X Seq(Word)

LEMMA WordSequences ==
  /\ << >> \in Seq(Word) /\ \A x \in Word : <<x>> \in Seq(Word)
  /\ \A x, y \in Word : <<x, y>> \in Seq(Word)
  /\ Seq(STRING) \subseteq Seq(Word)
<1>1. STRING \subseteq Word
  BY DEF Word
<1> HIDE DEF Word
<1>2. \A s \in Seq(STRING) : s \in Seq(Word)
  BY <1>1, SeqMonotonic
<1> QED
  BY <1>2

LEMMA RestFacts ==
  /\ Parser!Rest \in Seq(RouteOf) /\ Parser!Rest # << >>
  /\ \A i, j \in DOMAIN Parser!Rest : i # j => Parser!Rest[i] # Parser!Rest[j]
<1> DEFINE create == <<"create">>
           id == <<"{id}">>
           edit == <<"{id}", "edit">>
<1>1. {<< >>, create, id, edit} \subseteq Seq(Word)
  BY WordSequences, Zenon DEF Word
<1>2. << >> # create /\ << >> # id /\ << >> # edit /\ create # id /\ create # edit /\ id # edit
  OBVIOUS
<1>r. PICK r : r = Parser!Rest
  OBVIOUS
<1>3. r = <<<<"GET", << >>>>, <<"GET", create>>, <<"POST", << >>>>, <<"GET", id>>, <<"GET", edit>>,
            <<"PUT", id>>, <<"DELETE", id>>>>
  BY <1>r, Zenon DEF Parser!Rest
<1> HIDE DEF create, id, edit
<1>4. /\ <<"GET", << >>>> \in RouteOf /\ <<"GET", create>> \in RouteOf /\ <<"POST", << >>>> \in RouteOf
      /\ <<"GET", id>> \in RouteOf /\ <<"GET", edit>> \in RouteOf
      /\ <<"PUT", id>> \in RouteOf /\ <<"DELETE", id>> \in RouteOf
  BY <1>1, Zenon DEF RouteOf, Parser!Methods
<1> HIDE DEF RouteOf
<1>5. r \in Seq(RouteOf) /\ r # << >> /\ DOMAIN r = 1 .. 7
  BY <1>3, <1>4
<1>6. \A i, j \in 1 .. 7 : i # j => r[i] # r[j]
  BY <1>2, <1>3
<1> QED
  BY <1>r, <1>5, <1>6

LEMMA ApiRestFacts ==
  /\ Parser!ApiRest \in Seq(RouteOf) /\ Parser!ApiRest # << >>
  /\ \A i, j \in DOMAIN Parser!ApiRest : i # j => Parser!ApiRest[i] # Parser!ApiRest[j]
<1> DEFINE id == <<"{id}">>
<1>1. {<< >>, id} \subseteq Seq(Word)
  BY WordSequences, Zenon DEF Word
<1>2. << >> # id
  OBVIOUS
<1>r. PICK r : r = Parser!ApiRest
  OBVIOUS
<1>3. r = <<<<"GET", << >>>>, <<"POST", << >>>>, <<"GET", id>>, <<"PUT", id>>, <<"DELETE", id>>>>
  BY <1>r, Zenon DEF Parser!ApiRest
<1> HIDE DEF id
<1>4. /\ <<"GET", << >>>> \in RouteOf /\ <<"POST", << >>>> \in RouteOf
      /\ <<"GET", id>> \in RouteOf /\ <<"PUT", id>> \in RouteOf /\ <<"DELETE", id>> \in RouteOf
  BY <1>1, Zenon DEF RouteOf, Parser!Methods
<1> HIDE DEF RouteOf
<1>5. r \in Seq(RouteOf) /\ r # << >> /\ DOMAIN r = 1 .. 5
  BY <1>3, <1>4
<1>6. \A i, j \in 1 .. 5 : i # j => r[i] # r[j]
  BY <1>2, <1>3
<1> QED
  BY <1>r, <1>5, <1>6

\* The routes of a verb: no two the same, and none only for the word of a fluent statement.
LEMMA VerbsFacts ==
  ASSUME NEW verb
  PROVE  /\ Parser!Verbs(verb) \in Seq(RouteOf)
         /\ \A i, j \in DOMAIN Parser!Verbs(verb) :
              i # j => Parser!Verbs(verb)[i] # Parser!Verbs(verb)[j]
         /\ verb \in DOMAIN Parser!Primary \cup {"resource", "apiResource"} => Parser!Verbs(verb) # << >>
<1>1. CASE verb = "resource"
  <2>1. Parser!Verbs(verb) = Parser!Rest
    <3>1. verb \notin DOMAIN Parser!Primary /\ verb # "apiResource"
      BY <1>1 DEF Parser!Primary
    <3> QED
      BY <1>1, <3>1 DEF Parser!Verbs
  <2> QED
    BY <2>1, RestFacts, Zenon
<1>2. CASE verb = "apiResource"
  <2>1. Parser!Verbs(verb) = Parser!ApiRest
    <3>1. verb \notin DOMAIN Parser!Primary /\ verb # "resource"
      BY <1>2 DEF Parser!Primary
    <3> QED
      BY <1>2, <3>1 DEF Parser!Verbs
  <2> QED
    BY <2>1, ApiRestFacts, Zenon
<1>3. CASE verb \in DOMAIN Parser!Primary
  <2>1. verb # "resource" /\ verb # "apiResource"
    BY <1>3 DEF Parser!Primary
  <2>2. Parser!Primary[verb] \in Parser!Methods
    BY <1>3 DEF Parser!Primary, Parser!Methods
  <2>p. PICK p : p = <<Parser!Primary[verb], << >>>>
    OBVIOUS
  <2>3. Parser!Verbs(verb) = <<p>>
    BY <1>3, <2>1, <2>p, Zenon DEF Parser!Verbs
  <2>4. p \in RouteOf
    BY <2>2, <2>p, WordSequences, Zenon DEF RouteOf
  <2> HIDE DEF RouteOf
  <2>5. <<p>> \in Seq(RouteOf) /\ <<p>> # << >> /\ DOMAIN <<p>> = 1 .. 1
    BY <2>4
  <2>6. \A i, j \in 1 .. 1 : i = j
    OBVIOUS
  <2> QED
    BY <2>3, <2>5, <2>6, Zenon
<1>4. CASE verb \notin {"resource", "apiResource"} \cup DOMAIN Parser!Primary
  <2>1. Parser!Verbs(verb) = << >>
    BY <1>4 DEF Parser!Verbs
  <2>2. << >> \in Seq(RouteOf) /\ DOMAIN << >> = {}
    OBVIOUS
  <2> QED
    BY <1>4, <2>1, <2>2, Zenon
<1> QED
  BY <1>1, <1>2, <1>3, <1>4, Zenon

\* Fact f is a route of the statement at the cursor, in a context.
IsRouteHere(f, ctx, v) ==
  /\ f \in Fact /\ f.at = cursor /\ f.auth = ("auth" \in f.mw) /\ f.mw = ctx.mw \cup file[cursor].mw
  /\ f.method = v[1] /\ f.uri = ctx.prefix \o file[cursor].uri \o v[2]

LEMMA EmittedIs ==
  ASSUME file \in Files, cursor \in DOMAIN file, file[cursor].t = "route", file[cursor].literal,
         NEW ctx \in Ctx
  PROVE  /\ Parser!Emitted(file[cursor], ctx) \in Seq(Fact)
         /\ Len(Parser!Emitted(file[cursor], ctx)) = Len(Parser!Verbs(file[cursor].verb))
         /\ \A i \in 1 .. Len(Parser!Verbs(file[cursor].verb)) :
              IsRouteHere(Parser!Emitted(file[cursor], ctx)[i], ctx, Parser!Verbs(file[cursor].verb)[i])
<1>v. PICK v : v = Parser!Verbs(file[cursor].verb)
  OBVIOUS
<1>m. PICK m : m = Len(v)
  OBVIOUS
<1>s. PICK s : s = file[cursor]
  OBVIOUS
<1>e. PICK e : e = Parser!Emitted(s, ctx)
  OBVIOUS
<1>1. v \in Seq(RouteOf) /\ m \in Nat /\ DOMAIN v = 1 .. m
  <2>1. v \in Seq(RouteOf)
    BY <1>v, VerbsFacts, Zenon
  <2> HIDE DEF RouteOf
  <2> QED
    BY <2>1, <1>m
<1>2. /\ cursor \in Nat /\ s.uri \in Seq(STRING) /\ s.act \in STRING /\ s.mw \in SUBSET STRING /\ s.literal
      /\ s.verb = file[cursor].verb
  BY <1>s, StatementFacts
<1>3. ctx.prefix \in Seq(STRING) /\ ctx.mw \in SUBSET STRING /\ ctx.ctrl \in Word
  BY DEF Ctx
<1>4. e = [i \in 1 .. m |-> [at |-> cursor, method |-> v[i][1], uri |-> ctx.prefix \o s.uri \o v[i][2],
                             action |-> Parser!Action(s, ctx), mw |-> ctx.mw \cup s.mw,
                             auth |-> "auth" \in ctx.mw \cup s.mw]]
  <2>1. DOMAIN Parser!Verbs(s.verb) = 1 .. m /\ Parser!Verbs(s.verb) = v
    BY <1>1, <1>2, <1>v
  <2> QED
    BY <1>2, <2>1, <1>e, Zenon DEF Parser!Emitted
<1>5. Parser!Action(s, ctx) \in Word
  <2>1. s.act \in Word
    BY <1>2 DEF Word
  <2>2. Parser!Action(s, ctx) = IF s.act = "bare" /\ ctx.ctrl # "none" THEN ctx.ctrl ELSE s.act
    BY Zenon DEF Parser!Action
  <2> QED
    BY <1>3, <2>1, <2>2
<1>6. ASSUME NEW i \in 1 .. m PROVE IsRouteHere(e[i], ctx, v[i])
  <2>1. v[i] \in RouteOf
    BY <1>1 DEF RouteOf
  <2>2. v[i][1] \in Parser!Methods /\ v[i][2] \in Seq(Word)
    BY <2>1 DEF RouteOf
  <2>3. ctx.prefix \o s.uri \in Seq(Word)
    <3>1. ctx.prefix \o s.uri \in Seq(STRING)
      BY <1>2, <1>3
    <3> QED
      BY <3>1, WordSequences, Zenon
  <2>4. ctx.prefix \o s.uri \o v[i][2] \in Seq(Word)
    BY <2>2, <2>3
  <2>p. PICK u : u = ctx.prefix \o s.uri \o v[i][2]
    OBVIOUS
  <2>q. PICK a : a = Parser!Action(s, ctx)
    OBVIOUS
  <2>r. PICK w : w = ctx.mw \cup s.mw
    OBVIOUS
  <2>b. PICK b \in BOOLEAN : b = ("auth" \in w)
    <3>1. CASE "auth" \in w
      <4>1. TRUE = ("auth" \in w)
        BY <3>1, Zenon
      <4> QED
        BY <4>1, Zenon
    <3>2. CASE "auth" \notin w
      <4>1. FALSE = ("auth" \in w)
        BY <3>2
      <4> QED
        BY <4>1, Zenon
    <3> QED
      BY <3>1, <3>2, Zenon
  <2>5. e[i] = [at |-> cursor, method |-> v[i][1], uri |-> u, action |-> a, mw |-> w, auth |-> "auth" \in w]
    BY <1>4, <2>p, <2>q, <2>r, Zenon
  <2>6. u \in Seq(Word) /\ a \in Word /\ w \in SUBSET STRING
    BY <1>2, <1>3, <1>5, <2>4, <2>p, <2>q, <2>r
  <2>7. e[i] = [at |-> cursor, method |-> v[i][1], uri |-> u, action |-> a, mw |-> w, auth |-> b]
    BY <2>5, <2>b, Zenon
  <2>8. e[i] \in Fact
    BY <1>2, <2>2, <2>6, <2>7 DEF Fact
  <2>9. /\ e[i].at = cursor /\ e[i].method = v[i][1] /\ e[i].uri = u /\ e[i].mw = w /\ e[i].auth = b
    BY <2>7
  <2>10. e[i].auth = ("auth" \in e[i].mw)
    BY <2>9, <2>b, Zenon
  <2> QED
    BY <2>8, <2>9, <2>10, <2>p, <2>r, <1>s, Zenon DEF IsRouteHere
<1>7. e \in Seq(Fact) /\ Len(e) = m
  <2>1. \A i \in 1 .. m : e[i] \in Fact
    BY <1>6 DEF IsRouteHere
  <2>2. DOMAIN e = 1 .. m /\ e = [i \in 1 .. m |-> e[i]]
    <3>a. e \in [1 .. m -> {e[i] : i \in 1 .. m}]
      BY <1>4, Zenon
    <3> QED
      BY <3>a
  <2> QED
    BY <1>1, <2>1, <2>2
<1> QED
  BY <1>6, <1>7, <1>v, <1>m, <1>s, <1>e

\* The routes of a statement have different keys.
LEMMA KeysDiffer ==
  ASSUME NEW verb, NEW i \in DOMAIN Parser!Verbs(verb), NEW j \in DOMAIN Parser!Verbs(verb), i # j,
         NEW base \in Seq(Word), NEW f, NEW g,
         f.method = Parser!Verbs(verb)[i][1], f.uri = base \o Parser!Verbs(verb)[i][2],
         g.method = Parser!Verbs(verb)[j][1], g.uri = base \o Parser!Verbs(verb)[j][2]
  PROVE  Parser!Key(f) # Parser!Key(g)
<1>v. PICK v : v = Parser!Verbs(verb)
  OBVIOUS
<1>1. v \in Seq(RouteOf) /\ v[i] # v[j] /\ i \in DOMAIN v /\ j \in DOMAIN v
  BY <1>v, VerbsFacts, Zenon
<1>2. v[i] \in RouteOf /\ v[j] \in RouteOf
  <2> HIDE DEF RouteOf
  <2> QED
    BY <1>1
<1>3. v[i] = <<v[i][1], v[i][2]>> /\ v[j] = <<v[j][1], v[j][2]>> /\ v[i][2] \in Seq(Word) /\ v[j][2] \in Seq(Word)
  BY <1>2 DEF RouteOf
<1>4. SUFFICES ASSUME Parser!Key(f) = Parser!Key(g) PROVE FALSE
  OBVIOUS
<1>5. f.method = g.method /\ f.uri = g.uri
  BY <1>4 DEF Parser!Key
<1>6. v[i][2] = v[j][2]
  <2>1. \A a, b, c \in Seq(Word) : a \o b = a \o c => b = c
    BY ConcatSimplifications, Zenon
  <2>2. base \o v[i][2] = base \o v[j][2]
    BY <1>5, <1>v
  <2> QED
    BY <1>3, <2>1, <2>2, Zenon
<1> QED
  BY <1>1, <1>3, <1>5, <1>6, <1>v, Zenon

\* A fact is what its statement says in the groups that enclose it.
FactTrue(f) ==
  f.at # 0 =>
    LET n == f.at
        outer == Parser!Enclosing(n) IN
    /\ f.mw = file[n].mw \union UNION {file[i].mw : i \in outer}
    /\ \E groups \in [1 .. Cardinality(outer) -> outer], r \in DOMAIN Parser!Verbs(file[n].verb) :
         /\ \A i, j \in DOMAIN groups : i < j => groups[i] < groups[j]
         /\ f.method = Parser!Verbs(file[n].verb)[r][1]
         /\ f.uri = Parser!FlattenSeq([i \in DOMAIN groups |-> file[groups[i]].prefix])
                      \o file[n].uri \o Parser!Verbs(file[n].verb)[r][2]

LEMMA ContextIs == Parser!ContextIsEnclosing <=> \A k \in DOMAIN facts : FactTrue(facts[k])
BY ParserCardinality, Zenon DEF Parser!ContextIsEnclosing, FactTrue

LEMMA OpenCounted ==
  ASSUME NEW open, NEW contexts, NEW n \in Nat, OpenAre(open, contexts, n)
  PROVE  /\ Cardinality(Parser!Enclosing(n)) = Len(open)
         /\ open \in [1 .. Len(open) -> Parser!Enclosing(n)]
<1> DEFINE outer == Parser!Enclosing(n)
<1>1. open \in Seq(Nat) /\ Len(open) \in Nat
  BY DEF OpenAre
<1>2. /\ \A i, j \in 1 .. Len(open) : i < j => open[i] < open[j]
      /\ \A i : i \in outer <=> \E k \in 1 .. Len(open) : i = open[k]
  BY DEF OpenAre
<1> HIDE DEF outer
<1>3. open \in [1 .. Len(open) -> outer]
  BY <1>1, <1>2
<1>4. \A i, j \in 1 .. Len(open) : open[i] = open[j] => i = j
  BY <1>1, <1>2
<1>5. open \in Bijection(1 .. Len(open), outer)
  BY <1>2, <1>3, <1>4, Zenon DEF Bijection, Injection, Surjection, IsInjective
<1>6. ExistsBijection(1 .. Len(open), outer)
  BY <1>5, Zenon DEF ExistsBijection
<1> QED
  BY <1>1, <1>3, <1>6, FS_CountingElements DEF outer

-----------------------------------------------------------------------------
(* The parser: its invariant and its steps. *)

LEMMA FactTrueHere ==
  ASSUME file \in Files, cursor \in DOMAIN file, NEW open, OpenAre(open, stack, cursor),
         NEW r \in DOMAIN Parser!Verbs(file[cursor].verb), NEW f,
         IsRouteHere(f, Parser!Last(stack), Parser!Verbs(file[cursor].verb)[r])
  PROVE  FactTrue(f)
<1> DEFINE outer == Parser!Enclosing(cursor)
           m == Len(open)
           v == Parser!Verbs(file[cursor].verb)
<1>1. cursor \in Nat /\ f.at = cursor /\ m \in Nat /\ 0 <= m
  BY StatementFacts DEF IsRouteHere, OpenAre
<1>2. Cardinality(outer) = m /\ open \in [1 .. m -> outer]
  BY <1>1, OpenCounted
<1>3. \A i, j \in 1 .. m : i < j => open[i] < open[j]
  BY DEF OpenAre
<1>4. /\ Parser!Last(stack).prefix = PrefixOf(open, m)
      /\ Parser!Last(stack).mw = MiddlewareOf(open, m)
  <2>1. Parser!Last(stack) = stack[m + 1]
    BY LastIs DEF OpenAre
  <2>2. m \in 0 .. m
    BY <1>1
  <2> QED
    BY <2>1, <2>2 DEF OpenAre
<1>5. f.mw = file[cursor].mw \cup UNION {file[i].mw : i \in outer}
  <2>1. \A i : i \in outer <=> \E k \in 1 .. m : i = open[k]
    BY DEF OpenAre
  <2>2. \A x : x \in MiddlewareOf(open, m) <=> \E k \in 1 .. m : x \in file[open[k]].mw
    BY Zenon DEF MiddlewareOf
  <2>3. \A x : x \in UNION {file[i].mw : i \in outer} <=> \E i \in outer : x \in file[i].mw
    BY Zenon
  <2> HIDE DEF m, outer
  <2>4. MiddlewareOf(open, m) = UNION {file[i].mw : i \in outer}
    BY <2>1, <2>2, <2>3
  <2> QED
    BY <1>4, <2>4 DEF IsRouteHere
<1>6. DOMAIN open = 1 .. m
  BY <1>2
<1>7. PrefixOf(open, m) = Parser!FlattenSeq([i \in DOMAIN open |-> file[open[i]].prefix])
  BY <1>6, Zenon DEF PrefixOf
<1>8. /\ f.method = v[r][1]
      /\ f.uri = Parser!FlattenSeq([i \in DOMAIN open |-> file[open[i]].prefix]) \o file[cursor].uri \o v[r][2]
  BY <1>4, <1>7, Zenon DEF IsRouteHere
<1>9. open \in [1 .. Cardinality(outer) -> outer] /\ \A i, j \in DOMAIN open : i < j => open[i] < open[j]
  BY <1>2, <1>3, <1>6
<1> QED
  BY <1>1, <1>5, <1>8, <1>9, Zenon DEF FactTrue

\* A fact of a statement before the cursor.
FactFine(f) == f \in Fact /\ f.at < cursor /\ f.auth = ("auth" \in f.mw) /\ FactTrue(f)

\* The parser's invariant: what is open, and that every fact so far is true.
ParserInv ==
  /\ file \in Files
  /\ cursor \in 1 .. Len(file) + 1
  /\ phase \in {"scan", "merge", "done"}
  /\ unresolved \subseteq DOMAIN file
  /\ stack \in Seq(Ctx) /\ \A i \in DOMAIN stack : stack[i].ctrl \in Controllers
  /\ \E open : OpenAre(open, stack, cursor)
  /\ facts \in Seq(Fact)
  /\ \A k \in DOMAIN facts : FactFine(facts[k]) /\ (phase # "done" => facts[k].at # 0)
  /\ Parser!EveryRouteOnce /\ Parser!EnrichmentOnlyAdds

LEMMA ParserInit == Parser!Init => ParserInv
<1> SUFFICES ASSUME Parser!Init PROVE ParserInv
  OBVIOUS
<1>1. file \in Files /\ cursor = 1 /\ stack = <<Parser!Web>> /\ facts = << >> /\ unresolved = {} /\ phase = "scan"
  BY DEF Parser!Init
<1>2. Len(file) \in Nat
  BY <1>1, StatementFacts
<1>3. Parser!Web \in Ctx /\ Parser!Web.ctrl \in Controllers /\ Parser!Web.prefix = << >> /\ Parser!Web.mw = {}
  BY DEF Parser!Web, Ctx, Word, Controllers
<1>4. /\ stack \in Seq(Ctx) /\ Len(stack) = 1 /\ stack[1] = Parser!Web /\ DOMAIN stack = {1}
  <2> HIDE DEF Parser!Web, Ctx
  <2> QED
    BY <1>1, <1>3
<1>5. OpenAre(<< >>, stack, cursor)
  <2>1. Parser!Enclosing(1) = {}
    BY DEF Parser!Enclosing
  <2>2. Parser!Depth(1, 0) = 0
    <3>1. 0 \in Nat /\ 0 + 1 = 1
      OBVIOUS
    <3> QED
      BY <3>1, DepthNothing
  <2>3. << >> \in Seq(Nat) /\ Len(<< >>) = 0 /\ 1 .. 0 = {} /\ 0 .. 0 = {0} /\ 1 - 1 = 0 /\ 0 + 1 = 1
    OBVIOUS
  <2> QED
    BY <1>1, <1>3, <1>4, <2>1, <2>2, <2>3, PrefixNone DEF OpenAre
<1>6. facts \in Seq(Fact) /\ DOMAIN facts = {}
  BY <1>1
<1>7. Parser!EveryRouteOnce
  BY <1>1, <1>6 DEF Parser!EveryRouteOnce
<1>8. Parser!EnrichmentOnlyAdds
  BY <1>1 DEF Parser!EnrichmentOnlyAdds
<1> QED
  BY <1>1, <1>2, <1>3, <1>4, <1>5, <1>6, <1>7, <1>8 DEF ParserInv

\* The file does not change while it is read.
LEMMA OpenStays ==
  ASSUME file' = file, NEW open, OpenAre(open, stack', cursor')
  PROVE  OpenAre(open, stack, cursor)'
<1>1. \A i, n : Parser!Depth(i, n)' = Parser!Depth(i, n)
  BY DEF Parser!Depth
<1>2. \A n : Parser!Enclosing(n)' = Parser!Enclosing(n)
  BY <1>1 DEF Parser!Enclosing
<1>3. \A i : PrefixOf(open, i)' = PrefixOf(open, i) /\ MiddlewareOf(open, i)' = MiddlewareOf(open, i)
  BY DEF PrefixOf, MiddlewareOf
<1> QED
  BY <1>1, <1>2, <1>3 DEF OpenAre

LEMMA FactStays ==
  ASSUME file' = file, NEW f, FactTrue(f)
  PROVE  FactTrue(f)'
<1>1. \A i, n : Parser!Depth(i, n)' = Parser!Depth(i, n)
  BY DEF Parser!Depth
<1>2. \A n : Parser!Enclosing(n)' = Parser!Enclosing(n)
  BY <1>1 DEF Parser!Enclosing
<1> QED
  BY <1>2, Zenon DEF FactTrue

LEMMA FineStays ==
  ASSUME file' = file, cursor \in Nat, cursor' \in Nat, cursor' >= cursor, NEW f, FactFine(f)
  PROVE  FactFine(f)'
<1>1. FactTrue(f)'
  BY FactStays DEF FactFine
<1>2. f.at < cursor'
  <2>1. f.at \in Nat /\ f.at < cursor
    BY DEF FactFine, Fact
  <2> QED
    BY <2>1
<1> QED
  BY <1>1, <1>2 DEF FactFine

LEMMA OpenStep ==
  ASSUME file' = file, \E open : OpenAre(open, stack', cursor')
  PROVE  (\E open : OpenAre(open, stack, cursor))'
<1>1. PICK open : OpenAre(open, stack', cursor')
  OBVIOUS
<1>2. OpenAre(open, stack, cursor)'
  BY <1>1, OpenStays
<1> QED
  BY <1>2

\* What the statements of the groups leave alone.
LEMMA FactsKept ==
  ASSUME ParserInv, file' = file, facts' = facts, phase # "done", phase' # "done", cursor' \in Nat,
         cursor' = cursor \/ (cursor' = cursor + 1 /\ cursor \in DOMAIN file /\ file[cursor].t # "route")
  PROVE  /\ facts' \in Seq(Fact)
         /\ (\A k \in DOMAIN facts : FactFine(facts[k]) /\ (phase # "done" => facts[k].at # 0))'
         /\ Parser!EveryRouteOnce' /\ Parser!EnrichmentOnlyAdds'
<1>1. cursor \in Nat /\ cursor' >= cursor
  BY StatementFacts DEF ParserInv
<1>2. \A k \in DOMAIN facts : FactFine(facts[k])' /\ facts[k].at # 0
  <2> SUFFICES ASSUME NEW k \in DOMAIN facts PROVE FactFine(facts[k])' /\ facts[k].at # 0
    OBVIOUS
  <2>1. FactFine(facts[k]) /\ facts[k].at # 0
    BY DEF ParserInv
  <2>f. PICK f : f = facts[k]
    OBVIOUS
  <2>2. FactFine(f)'
    BY <1>1, <2>1, <2>f, FineStays
  <2>3. FactFine(facts[k])'
    BY <2>2, <2>f, Zenon DEF FactFine, FactTrue
  <2> QED
    BY <2>1, <2>3
<1>3. (\A k \in DOMAIN facts : FactFine(facts[k]) /\ (phase # "done" => facts[k].at # 0))'
  BY <1>2
<1>4. Parser!EveryRouteOnce'
  <2>1. Parser!EveryRouteOnce
    BY DEF ParserInv
  <2>2. ASSUME NEW n \in 1 .. (cursor' - 1), file[n].t = "route" PROVE n \in 1 .. (cursor - 1)
    BY <1>1, <2>2
  <2>3. /\ \A i, j \in DOMAIN facts' :
             i # j /\ facts'[i].at = facts'[j].at /\ facts'[i].at # 0 => Parser!Key(facts'[i]) # Parser!Key(facts'[j])
        /\ \A n \in 1 .. (cursor' - 1) :
             file'[n].t = "route" /\ file'[n].literal /\ file'[n].verb # "fluent" =>
               \E k \in DOMAIN facts' : facts'[k].at = n
    BY <2>1, <2>2 DEF Parser!EveryRouteOnce
  <2> QED
    BY <2>3, Zenon DEF Parser!EveryRouteOnce, Parser!Key
<1>5. Parser!EnrichmentOnlyAdds'
  BY DEF Parser!EnrichmentOnlyAdds
<1> QED
  BY <1>3, <1>4, <1>5 DEF ParserInv

LEMMA ControllersKept == ASSUME file' = file PROVE Controllers' = Controllers
BY DEF Controllers

LEMMA ParserEnter ==
  ASSUME ParserInv, Parser!EnterGroup
  PROVE  ParserInv'
<1> DEFINE g == file[cursor]
           inner == Parser!Merge(Parser!Last(stack), g)
<1>1. /\ phase = "scan" /\ phase' = "scan" /\ cursor \in DOMAIN file /\ g.t = "group" /\ file' = file
      /\ facts' = facts /\ unresolved' = unresolved /\ cursor' = cursor + 1
      /\ stack' = Append(stack, inner)
  BY StatementFacts DEF ParserInv, Parser!EnterGroup, Parser!Here, Parser!Context
<1>2. /\ file \in Files /\ stack \in Seq(Ctx) /\ \A i \in DOMAIN stack : stack[i].ctrl \in Controllers
      /\ unresolved \subseteq DOMAIN file
  BY DEF ParserInv
<1>3. cursor \in Nat /\ Len(file) \in Nat /\ cursor' \in 1 .. Len(file) + 1 /\ cursor' \in Nat
  BY <1>1, <1>2, StatementFacts
<1>4. PICK open : OpenAre(open, stack, cursor)
  BY DEF ParserInv
<1>5. Len(stack) \in Nat /\ Len(stack) >= 1 /\ Parser!Last(stack) = stack[Len(stack)] /\ Len(stack) \in DOMAIN stack
  BY <1>2, <1>4, LastIs DEF OpenAre
<1>6. inner \in Ctx /\ inner.ctrl \in Controllers
  <2>c. PICK c : c = stack[Len(stack)]
    OBVIOUS
  <2>1. c \in Ctx /\ c.ctrl \in Controllers
    BY <1>2, <1>5, <2>c
  <2>2. g.prefix \in Seq(STRING) /\ g.mw \in SUBSET STRING /\ g.ctrl \in STRING
    BY <1>1, <1>2, StatementFacts
  <2>3. c.prefix \in Seq(STRING) /\ c.mw \in SUBSET STRING /\ c.ctrl \in Word
    BY <2>1 DEF Ctx
  <2>4. g.ctrl \in Word /\ g.ctrl \in Controllers
    <3>1. g.ctrl \in Word
      BY <2>2 DEF Word
    <3>2. g.ctrl \in Controllers
      BY <1>1 DEF Controllers
    <3> QED
      BY <3>1, <3>2
  <2>5. inner = [prefix |-> c.prefix \o g.prefix, mw |-> c.mw \cup g.mw,
                 ctrl |-> IF g.ctrl = "none" THEN c.ctrl ELSE g.ctrl]
    BY <1>5, <2>c, Zenon DEF Parser!Merge
  <2>p. PICK p : p = c.prefix \o g.prefix
    OBVIOUS
  <2>w. PICK w : w = c.mw \cup g.mw
    OBVIOUS
  <2>k. PICK k : k = IF g.ctrl = "none" THEN c.ctrl ELSE g.ctrl
    OBVIOUS
  <2>6. p \in Seq(STRING) /\ w \in SUBSET STRING /\ k \in Word /\ k \in Controllers
    BY <2>1, <2>2, <2>3, <2>4, <2>p, <2>w, <2>k
  <2>7. inner = [prefix |-> p, mw |-> w, ctrl |-> k]
    BY <2>5, <2>p, <2>w, <2>k, Zenon
  <2> HIDE DEF inner
  <2> QED
    BY <2>6, <2>7 DEF Ctx
<1> HIDE DEF inner
<1>7. stack' \in Seq(Ctx) /\ \A i \in DOMAIN stack' : stack'[i].ctrl \in Controllers
  <2> HIDE DEF Ctx
  <2>1. stack' \in Seq(Ctx) /\ DOMAIN stack' = 1 .. Len(stack) + 1
    BY <1>1, <1>2, <1>6
  <2>2. \A i \in 1 .. Len(stack) + 1 : stack'[i] = IF i = Len(stack) + 1 THEN inner ELSE stack[i]
    BY <1>1, <1>2
  <2>3. \A i \in 1 .. Len(stack) + 1 : i = Len(stack) + 1 \/ i \in DOMAIN stack
    BY <1>2, <1>5
  <2> QED
    BY <1>2, <1>6, <2>1, <2>2, <2>3
<1>8. \E w : OpenAre(w, stack', cursor')
  <2>1. OpenAre(Append(open, cursor), Append(stack, Parser!Merge(Parser!Last(stack), file[cursor])), cursor + 1)
    BY <1>1, <1>2, <1>4, EnterOpens
  <2> QED
    BY <1>1, <2>1 DEF inner
<1>9. (\E w : OpenAre(w, stack, cursor))'
  BY <1>1, <1>8, OpenStep
<1>10. Controllers' = Controllers
  BY <1>1, ControllersKept
<1>11. /\ facts' \in Seq(Fact)
       /\ (\A k \in DOMAIN facts : FactFine(facts[k]) /\ (phase # "done" => facts[k].at # 0))'
       /\ Parser!EveryRouteOnce' /\ Parser!EnrichmentOnlyAdds'
  BY <1>1, <1>3, FactsKept
<1> QED
  BY <1>1, <1>2, <1>3, <1>7, <1>9, <1>10, <1>11 DEF ParserInv

LEMMA ParserLeave ==
  ASSUME ParserInv, Parser!LeaveGroup
  PROVE  ParserInv'
<1>1. /\ phase = "scan" /\ phase' = "scan" /\ cursor \in DOMAIN file /\ file[cursor].t = "end" /\ file' = file
      /\ facts' = facts /\ unresolved' = unresolved /\ cursor' = cursor + 1
      /\ stack' = Parser!Front(stack)
  BY StatementFacts DEF ParserInv, Parser!LeaveGroup, Parser!Here
<1>2. /\ file \in Files /\ stack \in Seq(Ctx) /\ \A i \in DOMAIN stack : stack[i].ctrl \in Controllers
      /\ unresolved \subseteq DOMAIN file
  BY DEF ParserInv
<1>3. cursor \in Nat /\ Len(file) \in Nat /\ cursor' \in 1 .. Len(file) + 1 /\ cursor' \in Nat
  BY <1>1, <1>2, StatementFacts
<1>4. PICK open : OpenAre(open, stack, cursor)
  BY DEF ParserInv
<1>5. Len(stack) \in Nat /\ Len(stack) >= 1
  BY <1>2, <1>4 DEF OpenAre
<1>7. stack' \in Seq(Ctx) /\ \A i \in DOMAIN stack' : stack'[i].ctrl \in Controllers
  <2> HIDE DEF Ctx
  <2>1. stack' \in Seq(Ctx) /\ Len(stack') = Len(stack) - 1 /\ \A i \in 1 .. Len(stack) - 1 : stack'[i] = stack[i]
    BY <1>1, <1>2, <1>5, FrontFacts
  <2>2. DOMAIN stack' = 1 .. Len(stack) - 1 /\ \A i \in 1 .. Len(stack) - 1 : i \in DOMAIN stack
    BY <1>2, <1>5, <2>1
  <2> QED
    BY <1>2, <2>1, <2>2
<1>8. \E w : OpenAre(w, stack', cursor')
  BY <1>1, <1>2, <1>4, LeaveOpens
<1>9. (\E w : OpenAre(w, stack, cursor))'
  BY <1>1, <1>8, OpenStep
<1>10. Controllers' = Controllers
  BY <1>1, ControllersKept
<1>11. /\ facts' \in Seq(Fact)
       /\ (\A k \in DOMAIN facts : FactFine(facts[k]) /\ (phase # "done" => facts[k].at # 0))'
       /\ Parser!EveryRouteOnce' /\ Parser!EnrichmentOnlyAdds'
  BY <1>1, <1>3, FactsKept
<1> QED
  BY <1>1, <1>2, <1>3, <1>7, <1>9, <1>10, <1>11 DEF ParserInv

LEMMA ParserEnd ==
  ASSUME ParserInv, Parser!EndScan
  PROVE  ParserInv'
<1>1. /\ phase = "scan" /\ phase' = "merge" /\ file' = file /\ facts' = facts /\ unresolved' = unresolved
      /\ cursor' = cursor /\ stack' = stack
  BY DEF Parser!EndScan
<1>2. cursor' \in Nat
  BY <1>1, StatementFacts DEF ParserInv
<1>3. (\E w : OpenAre(w, stack, cursor))'
  BY <1>1, OpenStep DEF ParserInv
<1>4. Controllers' = Controllers
  BY <1>1, ControllersKept
<1>5. /\ facts' \in Seq(Fact)
      /\ (\A k \in DOMAIN facts : FactFine(facts[k]) /\ (phase # "done" => facts[k].at # 0))'
      /\ Parser!EveryRouteOnce' /\ Parser!EnrichmentOnlyAdds'
  BY <1>1, <1>2, FactsKept
<1> QED
  BY <1>1, <1>3, <1>4, <1>5 DEF ParserInv

\* The facts after more of them.
LEMMA MoreFacts ==
  ASSUME facts \in Seq(Fact), NEW e \in Seq(Fact), facts' = facts \o e
  PROVE  /\ facts' \in Seq(Fact) /\ DOMAIN facts' = 1 .. Len(facts) + Len(e) /\ DOMAIN facts = 1 .. Len(facts)
         /\ Len(facts) \in Nat /\ Len(e) \in Nat
         /\ \A k \in 1 .. Len(facts) : facts'[k] = facts[k]
         /\ \A k \in 1 .. Len(facts) + Len(e) :
              IF k <= Len(facts) THEN k \in DOMAIN facts /\ facts'[k] = facts[k]
              ELSE k - Len(facts) \in 1 .. Len(e) /\ facts'[k] = e[k - Len(facts)]
<1> HIDE DEF Fact
<1>1. facts' \in Seq(Fact) /\ Len(facts') = Len(facts) + Len(e) /\ Len(facts) \in Nat /\ Len(e) \in Nat
  OBVIOUS
<1>2. DOMAIN facts' = 1 .. Len(facts) + Len(e) /\ DOMAIN facts = 1 .. Len(facts)
  BY <1>1
<1>3. \A k \in 1 .. Len(facts) + Len(e) : facts'[k] = IF k <= Len(facts) THEN facts[k] ELSE e[k - Len(facts)]
  BY ConcatProperties
<1> QED
  BY <1>1, <1>2, <1>3

LEMMA ParserRoute ==
  ASSUME ParserInv, Parser!HandleRoute
  PROVE  ParserInv'
<1>c. PICK ctx : ctx = Parser!Last(stack)
  OBVIOUS
<1>e. PICK e : e = Parser!Emitted(file[cursor], ctx)
  OBVIOUS
<1>1. /\ phase = "scan" /\ phase' = "scan" /\ cursor \in DOMAIN file /\ file[cursor].t = "route" /\ file' = file
      /\ facts' = facts \o e /\ cursor' = cursor + 1 /\ stack' = stack
      /\ unresolved' \in {unresolved, unresolved \cup {cursor}}
  <2>1. /\ phase = "scan" /\ phase' = "scan" /\ cursor <= Len(file) /\ file[cursor].t = "route" /\ file' = file
        /\ facts' = facts \o e /\ cursor' = cursor + 1 /\ stack' = stack
        /\ unresolved' \in {unresolved, unresolved \cup {cursor}}
    BY <1>c, <1>e DEF Parser!HandleRoute, Parser!Here, Parser!Context
  <2> QED
    BY <2>1, StatementFacts DEF ParserInv
<1>2. /\ file \in Files /\ stack \in Seq(Ctx) /\ \A i \in DOMAIN stack : stack[i].ctrl \in Controllers
      /\ unresolved \subseteq DOMAIN file /\ facts \in Seq(Fact)
      /\ \A k \in DOMAIN facts : FactFine(facts[k]) /\ facts[k].at # 0
      /\ Parser!EveryRouteOnce
  BY <1>1 DEF ParserInv
<1>3. cursor \in Nat /\ cursor # 0 /\ Len(file) \in Nat /\ cursor' \in 1 .. Len(file) + 1 /\ cursor' \in Nat
  BY <1>1, <1>2, StatementFacts
<1>4. PICK open : OpenAre(open, stack, cursor)
  BY DEF ParserInv
<1>5. ctx \in Ctx
  <2>1. Len(stack) \in DOMAIN stack /\ ctx = stack[Len(stack)]
    BY <1>2, <1>4, <1>c, LastIs DEF OpenAre
  <2> HIDE DEF Ctx
  <2> QED
    BY <1>2, <2>1
<1>v. PICK v : v = Parser!Verbs(file[cursor].verb)
  OBVIOUS
<1>6. v \in Seq(RouteOf)
  BY <1>v, VerbsFacts, Zenon
<1>7. /\ e \in Seq(Fact)
      /\ \A k \in 1 .. Len(e) : k \in DOMAIN v /\ IsRouteHere(e[k], ctx, v[k])
      /\ file[cursor].literal /\ file[cursor].verb # "fluent" => Len(e) # 0
  <2>1. CASE file[cursor].literal
    <3>1. /\ e \in Seq(Fact) /\ Len(e) = Len(v)
          /\ \A i \in 1 .. Len(v) : IsRouteHere(e[i], ctx, v[i])
      BY <1>1, <1>2, <1>5, <1>e, <1>v, <2>1, EmittedIs
    <3>2. DOMAIN v = 1 .. Len(v)
      <4> HIDE DEF RouteOf
      <4> QED
        BY <1>6
    <3>3. file[cursor].verb # "fluent" => v # << >>
      <4>1. file[cursor].verb \in DOMAIN Parser!Primary \cup {"fluent", "resource", "apiResource"}
        BY <1>1, <1>2, StatementFacts
      <4>2. file[cursor].verb # "fluent" => file[cursor].verb \in DOMAIN Parser!Primary \cup {"resource", "apiResource"}
        BY <4>1, Zenon
      <4> QED
        BY <1>v, <4>2, VerbsFacts, Zenon
    <3>4. v # << >> => Len(v) # 0
      <4> HIDE DEF RouteOf
      <4> QED
        BY <1>6
    <3> QED
      BY <3>1, <3>2, <3>3, <3>4
  <2>2. CASE ~ file[cursor].literal
    <3>1. e = << >>
      BY <1>e, <2>2, Zenon DEF Parser!Emitted
    <3>2. e \in Seq(Fact) /\ Len(e) = 0 /\ 1 .. Len(e) = {}
      BY <3>1
    <3> QED
      BY <2>2, <3>2
  <2> QED
    BY <2>1, <2>2
<1>8. /\ facts' \in Seq(Fact) /\ DOMAIN facts' = 1 .. Len(facts) + Len(e) /\ DOMAIN facts = 1 .. Len(facts)
      /\ Len(facts) \in Nat /\ Len(e) \in Nat
      /\ \A k \in 1 .. Len(facts) : facts'[k] = facts[k]
      /\ \A k \in 1 .. Len(facts) + Len(e) :
           IF k <= Len(facts) THEN k \in DOMAIN facts /\ facts'[k] = facts[k]
           ELSE k - Len(facts) \in 1 .. Len(e) /\ facts'[k] = e[k - Len(facts)]
  BY <1>1, <1>2, <1>7, MoreFacts
<1>9. \A k \in 1 .. Len(facts) : FactFine(facts[k]) /\ facts[k].at # 0 /\ facts[k].at # cursor
  <2> SUFFICES ASSUME NEW k \in DOMAIN facts PROVE FactFine(facts[k]) /\ facts[k].at # 0 /\ facts[k].at # cursor
    BY <1>8
  <2>f. PICK f : f = facts[k]
    OBVIOUS
  <2>1. FactFine(f) /\ f.at # 0
    BY <1>2, <2>f
  <2>2. f.at \in Nat /\ f.at < cursor
    BY <2>1 DEF FactFine, Fact
  <2> QED
    BY <1>3, <2>1, <2>2, <2>f
<1>10. ASSUME NEW f, NEW r \in DOMAIN v, IsRouteHere(f, ctx, v[r])
       PROVE  FactFine(f)' /\ f.at = cursor
  <2>1. /\ f \in Fact /\ f.at = cursor /\ f.auth = ("auth" \in f.mw)
    BY <1>10 DEF IsRouteHere
  <2>2. FactTrue(f)
    BY <1>1, <1>2, <1>4, <1>10, <1>c, <1>v, FactTrueHere
  <2>3. FactTrue(f)'
    BY <1>1, <2>2, FactStays
  <2>4. f.at < cursor'
    BY <1>1, <1>3, <2>1
  <2> QED
    BY <2>1, <2>3, <2>4 DEF FactFine
<1>11. ASSUME NEW k \in 1 .. Len(facts) + Len(e)
       PROVE  FactFine(facts[k])' /\ facts'[k].at # 0
  <2>f. PICK f : f = facts'[k]
    OBVIOUS
  <2>1. FactFine(f)' /\ f.at # 0
    <3>1. CASE k <= Len(facts)
      <4>1. f = facts[k] /\ k \in 1 .. Len(facts)
        BY <1>8, <2>f, <3>1
      <4>2. FactFine(f) /\ f.at # 0
        BY <1>9, <4>1
      <4>3. cursor' >= cursor
        BY <1>1, <1>3
      <4>4. FactFine(f)'
        BY <1>1, <1>3, <4>2, <4>3, FineStays
      <4> QED
        BY <4>2, <4>4
    <3>2. CASE ~ (k <= Len(facts))
      <4>1. k - Len(facts) \in 1 .. Len(e) /\ f = e[k - Len(facts)]
        BY <1>8, <2>f, <3>2
      <4>2. k - Len(facts) \in DOMAIN v /\ IsRouteHere(f, ctx, v[k - Len(facts)])
        BY <1>7, <4>1
      <4> QED
        BY <1>3, <1>10, <4>2
    <3> QED
      BY <3>1, <3>2
  <2> QED
    BY <2>1, <2>f, Zenon DEF FactFine, FactTrue
<1>12. ASSUME NEW i \in DOMAIN facts', NEW j \in DOMAIN facts', i # j, facts'[i].at = facts'[j].at, facts'[i].at # 0
       PROVE  Parser!Key(facts'[i]) # Parser!Key(facts'[j])
  <2>1. \A k \in DOMAIN facts' :
          IF k <= Len(facts) THEN k \in 1 .. Len(facts) /\ facts'[k] = facts[k] /\ facts'[k].at # cursor
          ELSE /\ k - Len(facts) \in 1 .. Len(e) /\ k - Len(facts) \in DOMAIN v
               /\ IsRouteHere(facts'[k], ctx, v[k - Len(facts)]) /\ facts'[k].at = cursor
    BY <1>7, <1>8, <1>9, <1>10
  <2>2. CASE i <= Len(facts)
    <3>1. j <= Len(facts)
      BY <1>12, <2>1, <2>2
    <3>2. i \in DOMAIN facts /\ j \in DOMAIN facts /\ facts'[i] = facts[i] /\ facts'[j] = facts[j]
      BY <1>8, <2>1, <2>2, <3>1
    <3> QED
      BY <1>2, <1>12, <3>2, Zenon DEF Parser!EveryRouteOnce
  <2>3. CASE ~ (i <= Len(facts))
    <3>1. ~ (j <= Len(facts))
      BY <1>12, <2>1, <2>3
    <3>p. PICK p \in DOMAIN v : p = i - Len(facts) /\ IsRouteHere(facts'[i], ctx, v[p])
      BY <2>1, <2>3
    <3>q. PICK q \in DOMAIN v : q = j - Len(facts) /\ IsRouteHere(facts'[j], ctx, v[q])
      BY <2>1, <3>1
    <3>2. p # q
      <4>1. i \in Nat /\ j \in Nat
        BY <1>8
      <4> QED
        BY <1>8, <1>12, <4>1, <3>p, <3>q
    <3>3. ctx.prefix \o file[cursor].uri \in Seq(Word)
      <4>1. ctx.prefix \in Seq(STRING) /\ file[cursor].uri \in Seq(STRING)
        BY <1>1, <1>2, <1>5, StatementFacts DEF Ctx
      <4>2. ctx.prefix \o file[cursor].uri \in Seq(STRING)
        BY <4>1
      <4> QED
        BY <4>2, WordSequences, Zenon
    <3>b. PICK base \in Seq(Word) : base = ctx.prefix \o file[cursor].uri
      BY <3>3, Zenon
    <3>4. /\ facts'[i].method = v[p][1] /\ facts'[i].uri = base \o v[p][2]
          /\ facts'[j].method = v[q][1] /\ facts'[j].uri = base \o v[q][2]
      BY <3>p, <3>q, <3>b, Zenon DEF IsRouteHere
    <3> QED
      BY <3>2, <3>4, <1>v, KeysDiffer
  <2> QED
    BY <2>2, <2>3
<1>13. ASSUME NEW n \in 1 .. (cursor' - 1), file[n].t = "route", file[n].literal, file[n].verb # "fluent"
       PROVE  \E k \in DOMAIN facts' : facts'[k].at = n
  <2>1. n \in 1 .. (cursor - 1) \/ n = cursor
    BY <1>1, <1>3
  <2>2. CASE n \in 1 .. (cursor - 1)
    <3>1. PICK k \in DOMAIN facts : facts[k].at = n
      BY <1>2, <1>13, <2>2, Zenon DEF Parser!EveryRouteOnce
    <3>2. k \in DOMAIN facts' /\ facts'[k] = facts[k]
      BY <1>8
    <3> QED
      BY <3>1, <3>2
  <2>3. CASE n = cursor
    <3>1. Len(e) # 0
      BY <1>7, <1>13, <2>3
    <3>2. Len(facts) + 1 \in DOMAIN facts' /\ ~ (Len(facts) + 1 <= Len(facts)) /\ (Len(facts) + 1) - Len(facts) = 1
      BY <1>8, <3>1
    <3>3. facts'[Len(facts) + 1] = e[1] /\ 1 \in 1 .. Len(e)
      BY <1>8, <3>2
    <3>4. e[1].at = cursor
      BY <1>7, <1>10, <3>3
    <3> QED
      BY <2>3, <3>2, <3>3, <3>4
  <2> QED
    BY <2>1, <2>2, <2>3
<1>14. Parser!EveryRouteOnce'
  <2>1. /\ \A i, j \in DOMAIN facts' :
             i # j /\ facts'[i].at = facts'[j].at /\ facts'[i].at # 0 => Parser!Key(facts'[i]) # Parser!Key(facts'[j])
        /\ \A n \in 1 .. (cursor' - 1) :
             file'[n].t = "route" /\ file'[n].literal /\ file'[n].verb # "fluent" =>
               \E k \in DOMAIN facts' : facts'[k].at = n
    BY <1>1, <1>12, <1>13
  <2> QED
    BY <2>1, Zenon DEF Parser!EveryRouteOnce, Parser!Key
<1>15. Parser!EnrichmentOnlyAdds'
  BY <1>1 DEF Parser!EnrichmentOnlyAdds
<1>16. (\E w : OpenAre(w, stack, cursor))'
  <2>1. OpenAre(open, stack', cursor')
    BY <1>1, <1>2, <1>4, PassOpens
  <2> QED
    BY <1>1, <2>1, OpenStep
<1>17. Controllers' = Controllers
  BY <1>1, ControllersKept
<1>18. (\A k \in DOMAIN facts : FactFine(facts[k]) /\ (phase # "done" => facts[k].at # 0))'
  BY <1>8, <1>11
<1>19. unresolved' \subseteq DOMAIN file'
  BY <1>1, <1>2
<1> QED
  BY <1>1, <1>2, <1>3, <1>8, <1>14, <1>15, <1>16, <1>17, <1>18, <1>19 DEF ParserInv

LEMMA SetToSeqIs ==
  ASSUME NEW S, IsFiniteSet(S)
  PROVE  /\ Cardinality(S) \in Nat /\ Parser!SetToSeq(S) \in [1 .. Cardinality(S) -> S]
         /\ \A i, j \in 1 .. Cardinality(S) : Parser!SetToSeq(S)[i] = Parser!SetToSeq(S)[j] => i = j
<1>1. Cardinality(S) \in Nat /\ Bijection(1 .. Cardinality(S), S) # {}
  BY FS_CardinalityType, Zenon DEF ExistsBijection
<1>2. PICK f : f \in [1 .. Cardinality(S) -> S] /\ IsInjective(f)
  BY <1>1, Zenon DEF Bijection, Injection
<1>3. \A g : Parser!IsInjective(g) <=> IsInjective(g)
  BY Zenon DEF Parser!IsInjective, IsInjective
<1>4. Parser!SetToSeq(S) = CHOOSE g \in [1 .. Cardinality(S) -> S] : Parser!IsInjective(g)
  BY ParserCardinality, Zenon DEF Parser!SetToSeq
<1>5. Parser!SetToSeq(S) \in [1 .. Cardinality(S) -> S] /\ IsInjective(Parser!SetToSeq(S))
  BY <1>2, <1>3, <1>4, Zenon
<1> QED
  BY <1>1, <1>5, Zenon DEF IsInjective

LEMMA ParserMerge ==
  ASSUME ParserInv, NEW printed \in Artisan \cup {{}}, Parser!MergeArtisan(printed)
  PROVE  ParserInv'
<1>S. PICK S : S = Parser!NewKeys(printed)
  OBVIOUS
<1>s. PICK s : s = Parser!SetToSeq(S)
  OBVIOUS
<1>m. PICK m : m = Cardinality(S)
  OBVIOUS
<1>e. PICK e : e = [i \in DOMAIN s |-> [at |-> 0, method |-> s[i][1], uri |-> s[i][2],
                                        action |-> "artisan", mw |-> {}, auth |-> FALSE]]
  OBVIOUS
<1>1. /\ phase = "merge" /\ phase' = "done" /\ file' = file /\ cursor' = cursor /\ stack' = stack
      /\ unresolved' = unresolved /\ facts' = facts \o e
  BY <1>S, <1>s, <1>e, Zenon DEF Parser!MergeArtisan
<1>2. /\ file \in Files /\ facts \in Seq(Fact)
      /\ \A k \in DOMAIN facts : FactFine(facts[k]) /\ facts[k].at # 0
      /\ Parser!EveryRouteOnce
  BY <1>1 DEF ParserInv
<1>3. cursor \in Nat /\ cursor >= 1 /\ cursor' \in Nat /\ cursor' >= cursor
  BY <1>1, <1>2, StatementFacts DEF ParserInv
<1>4. IsFiniteSet(S) /\ S \subseteq Parser!Methods \X Seq(STRING) /\ S \cap Parser!FactKeys(facts) = {}
  <2>1. IsFiniteSet(printed) /\ printed \subseteq Parser!Methods \X Seq(STRING)
    BY ArtisanAssumption, FS_EmptySet
  <2>2. S \subseteq printed /\ S \cap Parser!FactKeys(facts) = {}
    BY <1>S, Zenon DEF Parser!NewKeys
  <2>3. IsFiniteSet(S)
    BY <2>1, <2>2, FS_Subset
  <2> QED
    BY <2>1, <2>2, <2>3, Zenon
<1>5. m \in Nat /\ s \in [1 .. m -> S] /\ \A i, j \in 1 .. m : s[i] = s[j] => i = j
  BY <1>4, <1>s, <1>m, SetToSeqIs
<1>6. ASSUME NEW i \in 1 .. m
      PROVE  /\ e[i] \in Fact /\ e[i].at = 0 /\ e[i].mw = {} /\ e[i].auth = FALSE
             /\ Parser!Key(e[i]) = s[i]
  <2>p. PICK p : p = s[i]
    OBVIOUS
  <2>1. p \in Parser!Methods \X Seq(STRING)
    BY <1>4, <1>5, <2>p
  <2>2. p[1] \in Parser!Methods /\ p[2] \in Seq(STRING) /\ p = <<p[1], p[2]>>
    BY <2>1
  <2>3. p[2] \in Seq(Word) /\ "artisan" \in Word
    BY <2>2, WordSequences DEF Word
  <2>4. e[i] = [at |-> 0, method |-> p[1], uri |-> p[2], action |-> "artisan", mw |-> {}, auth |-> FALSE]
    <3>1. i \in DOMAIN s
      BY <1>5
    <3> QED
      BY <1>e, <2>p, <3>1, Zenon
  <2>5. e[i] \in Fact
    BY <2>2, <2>3, <2>4 DEF Fact
  <2>6. e[i].at = 0 /\ e[i].mw = {} /\ e[i].auth = FALSE /\ e[i].method = p[1] /\ e[i].uri = p[2]
    BY <2>4
  <2>7. Parser!Key(e[i]) = s[i]
    BY <2>2, <2>6, <2>p, Zenon DEF Parser!Key
  <2> QED
    BY <2>5, <2>6, <2>7
<1>7. e \in Seq(Fact) /\ Len(e) = m
  <2>1. \A i \in 1 .. m : e[i] \in Fact
    BY <1>6
  <2>2. e = [i \in 1 .. m |-> e[i]]
    <3>1. DOMAIN s = 1 .. m
      BY <1>5
    <3>2. e \in [1 .. m -> {e[i] : i \in 1 .. m}]
      BY <1>e, <3>1, Zenon
    <3> QED
      BY <3>2
  <2> HIDE DEF Fact
  <2> QED
    BY <1>5, <2>1, <2>2
<1>8. /\ facts' \in Seq(Fact) /\ DOMAIN facts' = 1 .. Len(facts) + m /\ DOMAIN facts = 1 .. Len(facts)
      /\ Len(facts) \in Nat
      /\ \A k \in 1 .. Len(facts) : facts'[k] = facts[k]
      /\ \A k \in 1 .. Len(facts) + m :
           IF k <= Len(facts) THEN k \in DOMAIN facts /\ facts'[k] = facts[k]
           ELSE k - Len(facts) \in 1 .. m /\ facts'[k] = e[k - Len(facts)]
  BY <1>1, <1>2, <1>7, MoreFacts
<1>9. ASSUME NEW k \in 1 .. Len(facts) + m
      PROVE  FactFine(facts[k])'
  <2>f. PICK f : f = facts'[k]
    OBVIOUS
  <2>1. FactFine(f)'
    <3>1. CASE k <= Len(facts)
      <4>1. FactFine(f)
        BY <1>2, <1>8, <2>f, <3>1
      <4> QED
        BY <1>1, <1>3, <4>1, FineStays
    <3>2. CASE ~ (k <= Len(facts))
      <4>1. k - Len(facts) \in 1 .. m /\ f = e[k - Len(facts)]
        BY <1>8, <2>f, <3>2
      <4>2. f \in Fact /\ f.at = 0 /\ f.mw = {} /\ f.auth = FALSE
        BY <1>6, <4>1
      <4>3. FactTrue(f)'
        BY <4>2, Zenon DEF FactTrue
      <4>4. f.auth = ("auth" \in f.mw)
        <5>1. FALSE = ("auth" \in {})
          OBVIOUS
        <5> QED
          BY <4>2, <5>1, Zenon
      <4>5. f.at < cursor'
        BY <1>1, <1>3, <4>2
      <4> QED
        BY <4>2, <4>3, <4>4, <4>5 DEF FactFine
    <3> QED
      BY <3>1, <3>2
  <2> QED
    BY <2>1, <2>f, Zenon DEF FactFine, FactTrue
<1>10. (\A k \in DOMAIN facts : FactFine(facts[k]) /\ (phase # "done" => facts[k].at # 0))'
  BY <1>1, <1>8, <1>9
<1>11. \A k \in DOMAIN facts' :
         IF k <= Len(facts) THEN k \in DOMAIN facts /\ facts'[k] = facts[k] /\ facts'[k].at # 0
         ELSE k - Len(facts) \in 1 .. m /\ facts'[k].at = 0 /\ Parser!Key(facts'[k]) = s[k - Len(facts)]
  <2>1. ASSUME NEW k \in DOMAIN facts'
        PROVE  IF k <= Len(facts) THEN k \in DOMAIN facts /\ facts'[k] = facts[k] /\ facts'[k].at # 0
               ELSE k - Len(facts) \in 1 .. m /\ facts'[k].at = 0 /\ Parser!Key(facts'[k]) = s[k - Len(facts)]
    <3>1. k \in 1 .. Len(facts) + m
      BY <1>8
    <3>2. CASE k <= Len(facts)
      <4>1. k \in DOMAIN facts /\ facts'[k] = facts[k]
        BY <1>8, <3>1, <3>2
      <4> QED
        BY <1>2, <3>2, <4>1
    <3>3. CASE ~ (k <= Len(facts))
      <4>1. k - Len(facts) \in 1 .. m /\ facts'[k] = e[k - Len(facts)]
        BY <1>8, <3>1, <3>3
      <4>2. e[k - Len(facts)].at = 0 /\ Parser!Key(e[k - Len(facts)]) = s[k - Len(facts)]
        BY <1>6, <4>1
      <4> QED
        BY <3>3, <4>1, <4>2, Zenon
    <3> QED
      BY <3>2, <3>3
  <2> QED
    BY <2>1
<1>12. Parser!EveryRouteOnce'
  <2>1. ASSUME NEW i \in DOMAIN facts', NEW j \in DOMAIN facts', i # j, facts'[i].at = facts'[j].at,
               facts'[i].at # 0
        PROVE  Parser!Key(facts'[i]) # Parser!Key(facts'[j])
    <3>1. i \in DOMAIN facts /\ j \in DOMAIN facts /\ facts'[i] = facts[i] /\ facts'[j] = facts[j]
      BY <1>11, <2>1
    <3> QED
      BY <1>2, <2>1, <3>1, Zenon DEF Parser!EveryRouteOnce
  <2>2. ASSUME NEW n \in 1 .. (cursor - 1), file[n].t = "route", file[n].literal, file[n].verb # "fluent"
        PROVE  \E k \in DOMAIN facts' : facts'[k].at = n
    <3>1. PICK k \in DOMAIN facts : facts[k].at = n
      BY <1>2, <2>2, Zenon DEF Parser!EveryRouteOnce
    <3>2. k \in DOMAIN facts' /\ facts'[k] = facts[k]
      BY <1>5, <1>8
    <3> QED
      BY <3>1, <3>2
  <2>3. /\ \A i, j \in DOMAIN facts' :
             i # j /\ facts'[i].at = facts'[j].at /\ facts'[i].at # 0 => Parser!Key(facts'[i]) # Parser!Key(facts'[j])
        /\ \A n \in 1 .. (cursor' - 1) :
             file'[n].t = "route" /\ file'[n].literal /\ file'[n].verb # "fluent" =>
               \E k \in DOMAIN facts' : facts'[k].at = n
    BY <1>1, <2>1, <2>2
  <2> QED
    BY <2>3, Zenon DEF Parser!EveryRouteOnce, Parser!Key
<1>13. Parser!EnrichmentOnlyAdds'
  <2>1. ASSUME NEW k \in DOMAIN facts', facts'[k].at = 0, NEW j \in DOMAIN facts', j # k
        PROVE  Parser!Key(facts'[j]) # Parser!Key(facts'[k])
    <3>1. ~ (k <= Len(facts))
      BY <1>11, <2>1
    <3>2. k - Len(facts) \in 1 .. m /\ Parser!Key(facts'[k]) = s[k - Len(facts)]
      BY <1>11, <3>1
    <3>3. CASE j <= Len(facts)
      <4>1. j \in DOMAIN facts /\ facts'[j] = facts[j]
        BY <1>11, <3>3
      <4>2. Parser!Key(facts'[j]) \in Parser!FactKeys(facts)
        BY <4>1, Zenon DEF Parser!FactKeys
      <4>3. s[k - Len(facts)] \in S
        BY <1>5, <3>2
      <4> QED
        BY <1>4, <3>2, <4>2, <4>3, Zenon
    <3>4. CASE ~ (j <= Len(facts))
      <4>1. j - Len(facts) \in 1 .. m /\ Parser!Key(facts'[j]) = s[j - Len(facts)]
        BY <1>11, <3>4
      <4>2. j \in Nat /\ k \in Nat
        BY <1>5, <1>8
      <4>3. j - Len(facts) # k - Len(facts)
        BY <1>8, <2>1, <4>2
      <4> QED
        BY <1>5, <3>2, <4>1, <4>3, Zenon
    <3> QED
      BY <3>3, <3>4
  <2> QED
    BY <2>1, Zenon DEF Parser!EnrichmentOnlyAdds, Parser!Key
<1>14. (\E w : OpenAre(w, stack, cursor))'
  BY <1>1, OpenStep DEF ParserInv
<1>15. Controllers' = Controllers
  BY <1>1, ControllersKept
<1> QED
  BY <1>1, <1>8, <1>10, <1>12, <1>13, <1>14, <1>15 DEF ParserInv

LEMMA ParserStep ==
  ASSUME ParserInv, [Parser!Next]_parserVars
  PROVE  ParserInv'
<1>1. CASE Parser!EnterGroup
  BY <1>1, ParserEnter
<1>2. CASE Parser!LeaveGroup
  BY <1>2, ParserLeave
<1>3. CASE Parser!HandleRoute
  BY <1>3, ParserRoute
<1>4. CASE Parser!EndScan
  BY <1>4, ParserEnd
<1>5. CASE \E printed \in Artisan \cup {{}} : Parser!MergeArtisan(printed)
  BY <1>5, ParserMerge
<1>6. CASE UNCHANGED parserVars
  <2>1. /\ phase' = phase /\ file' = file /\ cursor' = cursor /\ stack' = stack /\ unresolved' = unresolved
        /\ facts' = facts
    BY <1>6 DEF parserVars
  <2>2. (\E w : OpenAre(w, stack, cursor))' /\ Controllers' = Controllers
    BY <2>1, OpenStep, ControllersKept DEF ParserInv
  <2>3. cursor \in Nat /\ cursor' >= cursor /\ cursor' \in Nat
    BY <2>1, StatementFacts DEF ParserInv
  <2>4. \A k \in DOMAIN facts : FactFine(facts[k])'
    <3> SUFFICES ASSUME NEW k \in DOMAIN facts PROVE FactFine(facts[k])'
      OBVIOUS
    <3>f. PICK f : f = facts[k]
      OBVIOUS
    <3>1. FactFine(f)
      BY <3>f DEF ParserInv
    <3>2. FactFine(f)'
      BY <2>1, <2>3, <3>1, FineStays
    <3> QED
      BY <2>1, <3>2, <3>f, Zenon DEF FactFine, FactTrue
  <2>5. Parser!EveryRouteOnce' /\ Parser!EnrichmentOnlyAdds'
    <3>1. Parser!EveryRouteOnce'
      BY <2>1, Zenon DEF ParserInv, Parser!EveryRouteOnce, Parser!Key
    <3>2. Parser!EnrichmentOnlyAdds'
      BY <2>1, Zenon DEF ParserInv, Parser!EnrichmentOnlyAdds, Parser!Key
    <3> QED
      BY <3>1, <3>2
  <2> QED
    BY <2>1, <2>2, <2>4, <2>5 DEF ParserInv
<1> QED
  BY <1>1, <1>2, <1>3, <1>4, <1>5, <1>6, Zenon DEF Parser!Next

\* An edge joins what was extracted, by how edges are made.
LEMMA EdgesJoin == Parser!EdgesAreCertain
<1> DEFINE Ends(e) == /\ e[1] \in Parser!FactKeys(facts) \cup {Parser!ModelKey(m) : m \in Parser!ModelNames}
                      /\ e[2] \in Parser!ModelNames \cup src.tables
<1>1. \A i \in Parser!Models : src.models[i].cls \in Parser!ModelNames
  BY Zenon DEF Parser!ModelNames
<1>2. ASSUME NEW a, NEW b, a \in Parser!FactKeys(facts) \cup {Parser!ModelKey(m) : m \in Parser!ModelNames},
             b \in Parser!ModelNames \cup src.tables
      PROVE  Ends(<<a, b>>)
  BY <1>2
<1>3. ASSUME NEW e \in Parser!EndpointEdges PROVE Ends(e)
  <2>1. PICK i \in {i \in DOMAIN facts : facts[i].action \in DOMAIN src.actions} :
          e \in {<<Parser!Key(facts[i]), m>> : m \in Parser!References([refs |-> src.actions[facts[i].action]])}
    BY <1>3, Zenon DEF Parser!EndpointEdges
  <2>2. PICK m \in Parser!References([refs |-> src.actions[facts[i].action]]) : e = <<Parser!Key(facts[i]), m>>
    BY <2>1, Zenon
  <2>3. m \in Parser!ModelNames
    BY <2>2, Zenon DEF Parser!References
  <2>4. Parser!Key(facts[i]) \in Parser!FactKeys(facts)
    BY <2>1, Zenon DEF Parser!FactKeys
  <2> QED
    BY <1>2, <2>2, <2>3, <2>4
<1>4. ASSUME NEW e \in Parser!RelationEdges PROVE Ends(e)
  <2>1. PICK i \in Parser!Models :
          e \in {<<Parser!ModelKey(src.models[i].cls), m>> : m \in src.models[i].related \cap Parser!ModelNames}
    BY <1>4, Zenon DEF Parser!RelationEdges
  <2>2. PICK m \in Parser!ModelNames : e = <<Parser!ModelKey(src.models[i].cls), m>>
    BY <2>1, Zenon
  <2> QED
    BY <1>1, <1>2, <2>1, <2>2
<1>5. ASSUME NEW e \in Parser!TableEdges PROVE Ends(e)
  <2>1. PICK i \in Parser!Models :
          src.models[i].table \in src.tables /\ e = <<Parser!ModelKey(src.models[i].cls), src.models[i].table>>
    BY <1>5, Zenon DEF Parser!TableEdges
  <2> QED
    BY <1>1, <1>2, <2>1
<1> QED
  BY <1>3, <1>4, <1>5, Zenon DEF Parser!EdgesAreCertain, Parser!Edges

LEMMA ParserAlways == Spec => []ParserInv
<1>1. Init => ParserInv
  BY ParserInit DEF Init
<1>2. ParserInv /\ [Next]_vars => ParserInv'
  <2> SUFFICES ASSUME ParserInv, [Next]_vars PROVE ParserInv'
    OBVIOUS
  <2>1. [Parser!Next]_parserVars
    BY Zenon DEF Next, vars
  <2> QED
    BY <2>1, ParserStep
<1> QED
  BY <1>1, <1>2, PTL DEF Spec

\* Every fact is what its statement says in the groups that enclose it, once, and what
\* artisan adds is new (ingestion/laravel/), of every file whose blocks are closed after
\* they are opened.
THEOREM ExtractionIsFaithfulHolds == Spec => []ExtractionIsFaithful
<1>1. ParserInv => ExtractionIsFaithful
  <2> SUFFICES ASSUME ParserInv PROVE Parser!ContextIsEnclosing /\ Parser!EveryRouteOnce /\ Parser!EnrichmentOnlyAdds
    BY EdgesJoin DEF ExtractionIsFaithful, Parser!ExtractionIsFaithful
  <2>1. Parser!ContextIsEnclosing
    BY ContextIs DEF ParserInv, FactFine
  <2> QED
    BY <2>1 DEF ParserInv
<1> QED
  BY <1>1, ParserAlways, PTL

LEMMA ParserTypes == ParserInv => Parser!ParserTypeOK
<1> SUFFICES ASSUME ParserInv PROVE Parser!ParserTypeOK
  OBVIOUS
<1>1. Len(file) \in Nat
  BY StatementFacts DEF ParserInv
<1>2. Len(stack) >= 1
  <2>1. PICK open : OpenAre(open, stack, cursor)
    BY DEF ParserInv
  <2> QED
    BY <2>1 DEF OpenAre
<1>3. \A i \in DOMAIN stack :
        stack[i].ctrl \in {"none"} \union {file[j].ctrl : j \in {j \in DOMAIN file : file[j].t = "group"}}
  BY DEF ParserInv, Controllers
<1>4. \A i \in DOMAIN facts : /\ facts[i].at \in 0 .. Len(file) /\ facts[i].method \in Parser!Methods
                              /\ facts[i].auth = ("auth" \in facts[i].mw)
  <2> SUFFICES ASSUME NEW i \in DOMAIN facts
               PROVE  /\ facts[i].at \in 0 .. Len(file) /\ facts[i].method \in Parser!Methods
                      /\ facts[i].auth = ("auth" \in facts[i].mw)
    OBVIOUS
  <2>1. FactFine(facts[i]) /\ cursor \in 1 .. Len(file) + 1
    BY DEF ParserInv
  <2>2. facts[i].at \in Nat /\ facts[i].method \in Parser!Methods /\ facts[i].at < cursor
    BY <2>1 DEF FactFine, Fact
  <2>3. facts[i].at \in 0 .. Len(file)
    BY <1>1, <2>1, <2>2
  <2> QED
    BY <2>1, <2>2, <2>3 DEF FactFine
<1> QED
  BY <1>2, <1>3, <1>4 DEF ParserInv, Parser!ParserTypeOK

-----------------------------------------------------------------------------
(* The types of a run of Mode B. *)

\* The first n nodes of the order that are in S.
KeptBody(S, f, n) ==
  IF n = 0 THEN << >> ELSE IF Order[n] \in S THEN Append(f[n - 1], Order[n]) ELSE f[n - 1]

LEMMA KeptUpTo ==
  ASSUME NEW S, NEW m \in Nat
  PROVE  \E f : f = [n \in 0 .. m |-> KeptBody(S, f, n)]
<1> DEFINE Bad == {k \in Nat : ~ \E f : f = [n \in 0 .. k |-> KeptBody(S, f, n)]}
<1> SUFFICES ASSUME Bad # {} PROVE FALSE
  OBVIOUS
<1>1. PICK k \in Bad : \A j \in Bad : k <= j
  BY NatLeast
<1>2. k # 0
  <2> SUFFICES ASSUME k = 0 PROVE FALSE
    OBVIOUS
  <2> DEFINE f == [n \in 0 .. 0 |-> << >>]
  <2>1. f = [n \in 0 .. 0 |-> KeptBody(S, f, n)]
    <3>1. \A n \in 0 .. 0 : n = 0
      OBVIOUS
    <3> QED
      BY <3>1 DEF KeptBody
  <2> QED
    BY <2>1, <1>1
<1>3. k - 1 \in Nat /\ k - 1 \notin Bad
  BY <1>1, <1>2
<1>4. PICK g : g = [n \in 0 .. k - 1 |-> KeptBody(S, g, n)]
  BY <1>3
<1> DEFINE f == [n \in 0 .. k |-> IF n < k THEN g[n] ELSE KeptBody(S, g, k)]
<1>5. \A n \in 0 .. k : KeptBody(S, f, n) = KeptBody(S, g, n)
  <2> SUFFICES ASSUME NEW n \in 0 .. k, n # 0 PROVE f[n - 1] = g[n - 1]
    BY DEF KeptBody
  <2> QED
    OBVIOUS
<1>6. \A n \in 0 .. k : f[n] = KeptBody(S, g, n)
  <2> SUFFICES ASSUME NEW n \in 0 .. k PROVE f[n] = KeptBody(S, g, n)
    OBVIOUS
  <2>1. CASE n < k
    <3>1. n \in 0 .. k - 1
      BY <2>1
    <3> QED
      BY <2>1, <3>1, <1>4
  <2>2. CASE n = k
    BY <2>2
  <2> QED
    BY <2>1, <2>2
<1>7. f = [n \in 0 .. k |-> KeptBody(S, f, n)]
  BY <1>5, <1>6
<1> QED
  BY <1>1, <1>7

LEMMA OrderedIs ==
  ASSUME NEW S
  PROVE  Mode!Ordered(S) \in Seq(Mode!Nodes)
<1> DEFINE K == CHOOSE f : f = [n \in 0 .. Len(Order) |->
                  IF n = 0 THEN << >> ELSE IF Order[n] \in S THEN Append(f[n - 1], Order[n]) ELSE f[n - 1]]
<1>1. Len(Order) \in Nat /\ \A n \in 1 .. Len(Order) : Order[n] \in Mode!Nodes
  BY OrderAssumption DEF Mode!Nodes
<1>2. K = [n \in 0 .. Len(Order) |->
             IF n = 0 THEN << >> ELSE IF Order[n] \in S THEN Append(K[n - 1], Order[n]) ELSE K[n - 1]]
  <2>1. \E f : f = [n \in 0 .. Len(Order) |->
          IF n = 0 THEN << >> ELSE IF Order[n] \in S THEN Append(f[n - 1], Order[n]) ELSE f[n - 1]]
    <3>1. \E f : f = [n \in 0 .. Len(Order) |-> KeptBody(S, f, n)]
      BY <1>1, KeptUpTo, Zenon
    <3> QED
      BY <3>1, Zenon DEF KeptBody
  <2> QED
    BY <2>1, Zenon
<1>3. Mode!Ordered(S) = K[Len(Order)]
  BY Zenon DEF Mode!Ordered
<1> HIDE DEF K
<1>4. ASSUME NEW n \in 0 .. Len(Order)
      PROVE  K[n] = IF n = 0 THEN << >> ELSE IF Order[n] \in S THEN Append(K[n - 1], Order[n]) ELSE K[n - 1]
  BY <1>2, Zenon
<1>5. \A n \in 0 .. Len(Order) : K[n] \in Seq(Mode!Nodes)
  <2> DEFINE Bad == {n \in 0 .. Len(Order) : K[n] \notin Seq(Mode!Nodes)}
  <2> SUFFICES ASSUME Bad # {} PROVE FALSE
    OBVIOUS
  <2>1. PICK n \in Bad : \A j \in Bad : n <= j
    <3>1. Bad \subseteq Nat
      BY <1>1
    <3> QED
      BY <3>1, NatLeast
  <2>2. n \in 0 .. Len(Order) /\ K[n] \notin Seq(Mode!Nodes)
    BY <2>1, Zenon
  <2>3. CASE n = 0
    <3>1. K[n] = IF n = 0 THEN << >> ELSE IF Order[n] \in S THEN Append(K[n - 1], Order[n]) ELSE K[n - 1]
      BY <1>4, <2>2, Zenon
    <3>2. << >> \in Seq(Mode!Nodes)
      OBVIOUS
    <3> QED
      BY <2>2, <2>3, <3>1, <3>2, Zenon
  <2>4. CASE n # 0
    <3>1. n - 1 \in 0 .. Len(Order) /\ n \in 1 .. Len(Order) /\ n - 1 < n
      BY <1>1, <2>2, <2>4
    <3>2. K[n - 1] \in Seq(Mode!Nodes)
      BY <1>1, <2>1, <3>1
    <3>3. Order[n] \in Mode!Nodes
      BY <1>1, <3>1
    <3>4. Append(K[n - 1], Order[n]) \in Seq(Mode!Nodes)
      BY <3>2, <3>3
    <3>5. K[n] = IF Order[n] \in S THEN Append(K[n - 1], Order[n]) ELSE K[n - 1]
      BY <1>4, <2>2, <2>4
    <3> QED
      BY <2>2, <3>2, <3>4, <3>5
  <2> QED
    BY <2>3, <2>4
<1> QED
  BY <1>1, <1>3, <1>5

LEMMA BoundedFacts ==
  ASSUME NEW s \in Seq(Mode!Nodes)
  PROVE  Mode!Bounded(s) \in Seq(Mode!Nodes) /\ Len(Mode!Bounded(s)) <= MaxTargets
<1>1. PICK n \in Nat : n = IF Len(s) < MaxTargets THEN Len(s) ELSE MaxTargets
  BY ModeBBoundsAssumption
<1>2. n <= Len(s) /\ n <= MaxTargets
  BY <1>1, ModeBBoundsAssumption
<1>3. Mode!Bounded(s) = SubSeq(s, 1, n)
  BY <1>1 DEF Mode!Bounded
<1>4. \A i \in 1 .. n : s[i] \in Mode!Nodes
  BY <1>2
<1>5. SubSeq(s, 1, n) \in Seq(Mode!Nodes) /\ Len(SubSeq(s, 1, n)) = IF 1 <= n THEN n - 1 + 1 ELSE 0
  BY <1>4, SubSeqProperties
<1>6. Len(SubSeq(s, 1, n)) <= n
  BY <1>5
<1> QED
  BY <1>2, <1>3, <1>5, <1>6, ModeBBoundsAssumption

\* What a run has of its targets, and its plain variables.
ModeTargets ==
  /\ targets \in Seq(Mode!Nodes) /\ Len(targets) <= MaxTargets
  /\ ensured \in Seq(Mode!Nodes) /\ Len(ensured) <= Len(targets)
  /\ \A i \in 1 .. Len(ensured) : ensured[i] = targets[i]
  /\ pc = "commit" => Len(ensured) < Len(targets)
  /\ pc \in {"crawl", "select", "start"} => ensured = << >>

ModeNodes ==
  /\ brain \subseteq Mode!Nodes /\ crawled \subseteq brain /\ cases \subseteq Mode!Nodes
  /\ inFlight = {} \/ \E n \in Mode!Nodes : inFlight = {n}

ModePlain ==
  /\ pc \in {"idle", "crawl", "select", "start", "ensure", "commit", "execute",
             "review", "score", "report", "save", "raise"}
  /\ layers \in Mode!Layers /\ uncertain \in BOOLEAN
  /\ session \in {"ok", "poisoned"} /\ late \in BOOLEAN
  /\ row \in {"none", "running", "passed", "failed", "errored"}
  /\ verdict \in {"none", "pass", "fail"}
  /\ findings \in {"none", "flushed", "committed"}
  /\ job \in {"none", "running", "succeeded", "failed", "cancelled"}
  /\ ended \in Seq({"passed", "failed"})
  /\ cause \in {"none", "crawl", "db_state", "generate", "execute", "save", "crash"}
  /\ overrun \in Nat /\ count \in 0 .. MaxRuns

LEMMA ModeCardinality == \A S : Mode!Cardinality(S) = Cardinality(S)
BY DEF Mode!Cardinality, Cardinality

LEMMA ModeTypesAre == ModeTargets /\ ModeNodes /\ ModePlain => Mode!ModeBTypeOK
<1> SUFFICES ASSUME ModeTargets, ModeNodes, ModePlain PROVE Mode!ModeBTypeOK
  OBVIOUS
<1>1. inFlight \in SUBSET Mode!Nodes /\ Mode!Cardinality(inFlight) <= 1
  <2>1. CASE inFlight = {}
    BY <2>1, ModeCardinality, FS_EmptySet
  <2>2. CASE \E n \in Mode!Nodes : inFlight = {n}
    BY <2>2, ModeCardinality, FS_Singleton
  <2> QED
    BY <2>1, <2>2 DEF ModeNodes
<1>2. ensured = SubSeq(targets, 1, Len(ensured))
  <2>n. PICK n \in Nat : n = Len(ensured) /\ n <= Len(targets)
    BY DEF ModeTargets
  <2>1. \A i \in 1 .. n : targets[i] \in Mode!Nodes
    BY <2>n DEF ModeTargets
  <2>2. /\ SubSeq(targets, 1, n) \in Seq(Mode!Nodes)
        /\ Len(SubSeq(targets, 1, n)) = IF 1 <= n THEN n - 1 + 1 ELSE 0
        /\ \A i \in 1 .. n - 1 + 1 : SubSeq(targets, 1, n)[i] = targets[1 + i - 1]
    BY <2>1, SubSeqProperties
  <2>3. Len(SubSeq(targets, 1, n)) = n
    BY <2>2
  <2>4. \A i \in 1 .. n : SubSeq(targets, 1, n)[i] = targets[i]
    BY <2>2
  <2> QED
    BY <2>n, <2>2, <2>3, <2>4, SeqEqual DEF ModeTargets
<1> QED
  BY <1>1, <1>2 DEF ModeTargets, ModeNodes, ModePlain, Mode!ModeBTypeOK

\* The nodes and the plain variables are of their types, whatever the run does.
LEMMA ModePlainStep ==
  ASSUME ModePlain, Mode!Next
  PROVE  ModePlain'
<1> USE DEF ModePlain
<1>1. CASE \E scope \in Mode!Layers : Mode!Begin(scope)
  <2>1. /\ pc' \in {"crawl", "select"} /\ layers' \in Mode!Layers /\ uncertain' = FALSE
        /\ session' = "ok" /\ late' = FALSE /\ row' = "none" /\ verdict' = "none" /\ findings' = "none"
        /\ job' = "running" /\ ended' = << >> /\ cause' = "none" /\ overrun' = 0
        /\ count < MaxRuns /\ count' = count + 1
    BY <1>1 DEF Mode!Begin
  <2>2. count' \in 0 .. MaxRuns
    BY <2>1, ModeBBoundsAssumption
  <2>3. << >> \in Seq({"passed", "failed"})
    OBVIOUS
  <2> QED
    BY <2>1, <2>2, <2>3
<1>2. CASE \E result \in {"found", "failed", "flush_failed"} : Mode!Crawl(result)
  BY <1>2 DEF Mode!Crawl
<1>3. ASSUME NEW S, NEW unsure \in BOOLEAN, Mode!Select(S, unsure) PROVE ModePlain'
  BY <1>3 DEF Mode!Select
<1>4. CASE Mode!StartRun \/ Mode!EnsureDone \/ Mode!EnsureTarget
  BY <1>4 DEF Mode!StartRun, Mode!EnsureDone, Mode!EnsureTarget
<1>5. CASE Mode!CommitTarget
  BY <1>5 DEF Mode!CommitTarget
<1>6. CASE Mode!ExecuteFailed \/ \E v \in {"pass", "fail"} : Mode!Execute(v)
  BY <1>6 DEF Mode!ExecuteFailed, Mode!Execute
<1>7. CASE \E result \in {"done", "failed", "flush_failed"} : Mode!Review(result)
  BY <1>7 DEF Mode!Review
<1>8. CASE Mode!Score
  BY <1>8 DEF Mode!Score
<1>9. CASE Mode!Poisoned \/ Mode!Save \/ Mode!SaveFailed
  BY <1>9 DEF Mode!Poisoned, Mode!Save, Mode!SaveFailed
<1>10. CASE Mode!Raise
  BY <1>10 DEF Mode!Raise
<1>11. CASE Mode!TimeOut \/ Mode!Cancel \/ Mode!Crash
  BY <1>11 DEF Mode!TimeOut, Mode!Cancel, Mode!Crash
<1> QED
  BY <1>1, <1>2, <1>3, <1>4, <1>5, <1>6, <1>7, <1>8, <1>9, <1>10, <1>11 DEF Mode!Next

LEMMA ModeNextTarget ==
  ASSUME ModeTargets, Len(ensured) # Len(targets)
  PROVE  /\ Len(ensured) < Len(targets) /\ Mode!NextTarget = targets[Len(ensured) + 1]
         /\ Mode!NextTarget \in Mode!Nodes
<1>1. Len(ensured) \in Nat /\ Len(targets) \in Nat /\ Len(ensured) < Len(targets)
  BY DEF ModeTargets
<1>2. Len(ensured) + 1 \in 1 .. Len(targets)
  BY <1>1
<1> QED
  BY <1>1, <1>2 DEF ModeTargets, Mode!NextTarget

LEMMA ModeNodesStep ==
  ASSUME ModeTargets, ModeNodes, Mode!Next
  PROVE  ModeNodes'
<1> USE DEF ModeNodes
<1>1. CASE \E scope \in Mode!Layers : Mode!Begin(scope)
  BY <1>1 DEF Mode!Begin
<1>2. CASE \E result \in {"found", "failed", "flush_failed"} : Mode!Crawl(result)
  BY <1>2 DEF Mode!Crawl
<1>3. ASSUME NEW S, NEW unsure, Mode!Select(S, unsure) PROVE ModeNodes'
  BY <1>3 DEF Mode!Select
<1>4. CASE Mode!StartRun \/ Mode!EnsureDone
  BY <1>4 DEF Mode!StartRun, Mode!EnsureDone
<1>5. CASE Mode!EnsureTarget
  <2>1. Mode!NextTarget \in Mode!Nodes
    BY <1>5, ModeNextTarget DEF Mode!EnsureTarget, Mode!StopsEnsuring
  <2> QED
    BY <1>5, <2>1 DEF Mode!EnsureTarget
<1>6. CASE Mode!CommitTarget
  BY <1>6 DEF Mode!CommitTarget
<1>7. CASE \/ Mode!ExecuteFailed \/ \E v \in {"pass", "fail"} : Mode!Execute(v)
           \/ \E result \in {"done", "failed", "flush_failed"} : Mode!Review(result)
           \/ Mode!Score \/ Mode!Poisoned \/ Mode!Save \/ Mode!SaveFailed
           \/ Mode!TimeOut \/ Mode!Cancel
  BY <1>7 DEF Mode!ExecuteFailed, Mode!Execute, Mode!Review, Mode!Score, Mode!Poisoned, Mode!Save,
     Mode!SaveFailed, Mode!TimeOut, Mode!Cancel
<1>8. CASE Mode!Raise \/ Mode!Crash
  BY <1>8 DEF Mode!Raise, Mode!Crash
<1> QED
  BY <1>1, <1>2, <1>3, <1>4, <1>5, <1>6, <1>7, <1>8 DEF Mode!Next

LEMMA ModeTargetsStep ==
  ASSUME ModeTargets, Mode!Next
  PROVE  ModeTargets'
<1>0. << >> \in Seq(Mode!Nodes) /\ Len(<< >>) = 0 /\ MaxTargets \in Nat /\ Len(ensured) \in Nat /\ Len(targets) \in Nat
  BY ModeBBoundsAssumption DEF ModeTargets
<1>1. CASE \E scope \in Mode!Layers : Mode!Begin(scope)
  <2>1. targets' = << >> /\ ensured' = << >> /\ pc' \in {"crawl", "select"}
    BY <1>1 DEF Mode!Begin
  <2> QED
    BY <1>0, <2>1 DEF ModeTargets
<1>2. ASSUME NEW S, NEW unsure, Mode!Select(S, unsure) PROVE ModeTargets'
  <2>1. /\ pc' = "start" /\ ensured' = << >>
        /\ targets' = Mode!Bounded(Mode!Ordered(Mode!InScope(Mode!Widen(S, unsure))))
    BY <1>2 DEF Mode!Select, ModeTargets
  <2>2. targets' \in Seq(Mode!Nodes) /\ Len(targets') <= MaxTargets
    BY <2>1, OrderedIs, BoundedFacts
  <2>3. Len(targets') \in Nat
    BY <2>2
  <2> QED
    BY <1>0, <2>1, <2>2, <2>3 DEF ModeTargets
<1>3. CASE Mode!EnsureTarget
  <2>1. targets' = targets /\ ensured' = ensured /\ pc' \in {"commit", "raise"}
    BY <1>3 DEF Mode!EnsureTarget
  <2>2. Len(ensured) < Len(targets)
    BY <1>3, ModeNextTarget DEF Mode!EnsureTarget, Mode!StopsEnsuring
  <2> QED
    BY <2>1, <2>2 DEF ModeTargets
<1>4. CASE Mode!CommitTarget
  <2>1. pc = "commit" /\ pc' = "ensure" /\ targets' = targets /\ ensured' = Append(ensured, Mode!NextTarget)
    BY <1>4 DEF Mode!CommitTarget
  <2>2. Len(ensured) < Len(targets)
    BY <2>1 DEF ModeTargets
  <2>3. Mode!NextTarget = targets[Len(ensured) + 1] /\ Mode!NextTarget \in Mode!Nodes
    BY <1>0, <2>2, ModeNextTarget
  <2>4. /\ ensured' \in Seq(Mode!Nodes) /\ Len(ensured') = Len(ensured) + 1
        /\ \A i \in 1 .. Len(ensured) : ensured'[i] = ensured[i]
        /\ ensured'[Len(ensured) + 1] = targets[Len(ensured) + 1]
    BY <2>1, <2>3, AppendFacts DEF ModeTargets
  <2>5. \A i \in 1 .. Len(ensured) + 1 : i \in 1 .. Len(ensured) \/ i = Len(ensured) + 1
    BY <1>0
  <2>6. \A i \in 1 .. Len(ensured') : ensured'[i] = targets'[i]
    BY <2>1, <2>4, <2>5 DEF ModeTargets
  <2> QED
    BY <1>0, <2>1, <2>2, <2>4, <2>6 DEF ModeTargets
<1>5. CASE \E result \in {"found", "failed", "flush_failed"} : Mode!Crawl(result)
  <2>1. targets' = targets /\ ensured' = ensured /\ pc = "crawl" /\ pc' = "select"
    BY <1>5 DEF Mode!Crawl
  <2> QED
    BY <2>1 DEF ModeTargets
<1>6. CASE Mode!TimeOut \/ Mode!Cancel
  <2>1. targets' = targets /\ ensured' = ensured /\ pc' = pc
    BY <1>6 DEF Mode!TimeOut, Mode!Cancel
  <2> QED
    BY <2>1 DEF ModeTargets
<1>7. CASE \/ Mode!StartRun \/ Mode!EnsureDone
           \/ Mode!ExecuteFailed \/ \E v \in {"pass", "fail"} : Mode!Execute(v)
           \/ \E result \in {"done", "failed", "flush_failed"} : Mode!Review(result)
           \/ Mode!Score \/ Mode!Poisoned \/ Mode!Save \/ Mode!SaveFailed
           \/ Mode!Raise \/ Mode!Crash
  <2>1. targets' = targets /\ ensured' = ensured /\ pc' \notin {"crawl", "select", "start", "commit"}
    BY <1>7 DEF Mode!StartRun, Mode!EnsureDone, Mode!ExecuteFailed, Mode!Execute, Mode!Review, Mode!Score,
       Mode!Poisoned, Mode!Save, Mode!SaveFailed, Mode!Raise, Mode!Crash
  <2> QED
    BY <2>1 DEF ModeTargets
<1> QED
  BY <1>1, <1>2, <1>3, <1>4, <1>5, <1>6, <1>7 DEF Mode!Next

\* The types of a run of Mode B.
LEMMA ModeTypesHold == Spec => [](ModeTargets /\ ModeNodes /\ ModePlain)
<1>1. Init => ModeTargets /\ ModeNodes /\ ModePlain
  <2> SUFFICES ASSUME Init PROVE ModeTargets /\ ModeNodes /\ ModePlain
    OBVIOUS
  <2>1. Mode!Init
    BY DEF Init
  <2>2. << >> \in Seq(Mode!Nodes) /\ << >> \in Seq({"passed", "failed"}) /\ Len(<< >>) = 0 /\ 1 .. 0 = {}
    OBVIOUS
  <2>3. ModeTargets
    BY <2>1, <2>2, ModeBBoundsAssumption DEF Mode!Init, ModeTargets
  <2>4. ModeNodes
    BY <2>1 DEF Mode!Init, ModeNodes, Mode!Nodes
  <2>5. {"ui", "api", "db"} \in Mode!Layers
    <3>1. "ui" \in {"ui", "api", "db"} /\ "ui" \notin {}
      OBVIOUS
    <3>2. {"ui", "api", "db"} # {}
      BY <3>1, Zenon
    <3>3. {"ui", "api", "db"} \in SUBSET {"ui", "api", "db"}
      OBVIOUS
    <3> QED
      BY <3>2, <3>3 DEF Mode!Layers
  <2>6. 0 \in 0 .. MaxRuns /\ 0 \in Nat
    BY ModeBBoundsAssumption
  <2>7. ModePlain
    BY <2>1, <2>2, <2>5, <2>6 DEF Mode!Init, ModePlain
  <2> QED
    BY <2>3, <2>4, <2>7
<1>2. ModeTargets /\ ModeNodes /\ ModePlain /\ UNCHANGED modeVars => (ModeTargets /\ ModeNodes /\ ModePlain)'
  BY DEF ModeTargets, ModeNodes, ModePlain, modeVars
<1>3. ModeTargets /\ ModeNodes /\ ModePlain /\ [Next]_vars => (ModeTargets /\ ModeNodes /\ ModePlain)'
  <2> SUFFICES ASSUME ModeTargets, ModeNodes, ModePlain, [Next]_vars PROVE (ModeTargets /\ ModeNodes /\ ModePlain)'
    OBVIOUS
  <2>1. Mode!Next \/ UNCHANGED modeVars
    BY Zenon DEF Next, vars
  <2> QED
    BY <1>2, <2>1, ModePlainStep, ModeNodesStep, ModeTargetsStep
<1> QED
  BY <1>1, <1>3, PTL DEF Spec
=============================================================================
