----------------------------- MODULE MCPipeline -----------------------------
(***************************************************************************)
(* The stages of a run and of an ingestion, the models they ask and the    *)
(* tests they write, with the difference in which a new version of one is  *)
(* reviewed: they share no state and are checked by one run, in which a    *)
(* behaviour is a behaviour of the one in focus.                           *)
(***************************************************************************)
EXTENDS Naturals, Sequences, FiniteSets, TLC

VARIABLE focus

\* Mode B.
CONSTANTS Endpoints, Pages, Order, MaxTargets, MaxRuns
ASSUME DisjointAssumption == Endpoints \intersect Pages = {}
ASSUME ModeBBoundsAssumption == MaxTargets \in Nat /\ MaxRuns \in Nat
ASSUME OrderAssumption == Order \in Seq(Endpoints \union Pages)
VARIABLES pc, brain, crawled, cases, layers, uncertain, targets, ensured, inFlight, session,
          late, row, verdict, findings, job, ended, cause, overrun, count
modeVars == <<pc, brain, crawled, cases, layers, uncertain, targets, ensured, inFlight, session,
              late, row, verdict, findings, job, ended, cause, overrun, count>>
MCOrder == <<"e1", "e2", "p1">>
Mode == INSTANCE ModeBRun

\* The Brain: two sites, the second of which leads away twice.
CONSTANTS Urls, StartUrl, OffOrigin, PathOf, Routes, Sites, MaxPages, MaxDepth, MaxVersion
ASSUME BrainBoundsAssumption ==
  /\ StartUrl \in Urls
  /\ MaxPages \in Nat \ {0} /\ MaxDepth \in Nat /\ MaxVersion \in Nat \ {0}
ASSUME SitesAssumption ==
  \A s \in Sites : /\ s.links \in [Urls -> Seq(Urls)] /\ s.lands \in [Urls -> Urls]
                   /\ s.calls \in [Urls -> SUBSET Routes]
VARIABLES site, version, crawlPc, queue, seen, snaps, crawlLate, changed, sent, graph, stored,
          excused, ing, clone, declaredFacts, nodes, ingested, source
brainVars == <<site, version, crawlPc, queue, seen, snaps, crawlLate, changed, sent, graph,
               stored, excused, ing, clone, declaredFacts, nodes, ingested, source>>
MCPathOf == [u \in Urls |-> IF u = "ext" THEN "a" ELSE u]
MCSites ==
  {[links |-> [home |-> <<"a", "b">>, a |-> <<"b">>, b |-> <<"home", "a">>, ext |-> << >>],
    lands |-> [u \in Urls |-> u],
    calls |-> [u \in Urls |-> IF u = "a" THEN Routes ELSE {}]],
   [links |-> [home |-> <<"ext", "a">>, a |-> <<"b">>, b |-> << >>, ext |-> <<"home">>],
    lands |-> [u \in Urls |-> IF u = "b" THEN "ext" ELSE u],
    calls |-> [u \in Urls |-> IF u = "a" THEN Routes ELSE {}]]}
Brain == INSTANCE BrainGraph WITH pc <- crawlPc, late <- crawlLate, facts <- declaredFacts

\* The parser: files of up to five statements.
CONSTANTS Files, Artisan, Sources
VARIABLES file, src, cursor, stack, facts, unresolved, phase
parserVars == <<file, src, cursor, stack, facts, unresolved, phase>>
Group(p, m, c) == [t |-> "group", prefix |-> p, mw |-> m, ctrl |-> c]
Route(v, l, a, m) == [t |-> "route", verb |-> v, literal |-> l, uri |-> <<"u">>, act |-> a, mw |-> m]
Statements ==
  {Group(<<"admin">>, {"auth"}, "none"), Group(<<"v1">>, {}, "Ctrl"), [t |-> "end"],
   Route("get", TRUE, "A", {}), Route("post", TRUE, "bare", {"auth"}), Route("apiResource", TRUE, "unknown", {}),
   Route("fluent", TRUE, "A", {"auth"}), Route("get", FALSE, "A", {})}
Balance(f, n) == Cardinality({j \in 1 .. n : f[j].t = "group"}) - Cardinality({j \in 1 .. n : f[j].t = "end"})
Balanced(n) ==
  {f \in [1 .. n -> Statements] :
    (\A k \in 1 .. n : Balance(f, k) >= 0) /\ Balance(f, n) = 0}
Groups == {s \in Statements : s.t = "group"}
MCFiles ==
  (UNION {Balanced(n) : n \in 1 .. 4}) \union
  {<<g>> \o f \o <<[t |-> "end"]>> : g \in Groups, f \in Balanced(3)}
MCArtisan == {{<<"GET", <<"u">>>>, <<"GET", <<"telescope">>>>}}
MCSources ==
  {[models |-> <<[cls |-> "M", parses |-> p, table |-> "ms", related |-> {"N"}],
                 [cls |-> "N", parses |-> TRUE, table |-> "ns", related |-> {"M", "X"}],
                 [cls |-> "M", parses |-> TRUE, table |-> "gone", related |-> {}]>>,
    tables |-> {"ms"}, actions |-> [c \in {"A", "Ctrl"} |-> {"M", "X"}]] : p \in BOOLEAN}
Parser == INSTANCE RepoParser
\* A file is a sequence of statements whose blocks are closed after they are opened, as PHP
\* has it.
Statement ==
  [t : {"group"}, prefix : Seq(STRING), mw : SUBSET STRING, ctrl : STRING] \union [t : {"end"}] \union
  [t : {"route"}, verb : DOMAIN Parser!Primary \union {"resource", "apiResource", "fluent"},
   literal : BOOLEAN, uri : Seq(STRING), act : STRING, mw : SUBSET STRING]
ASSUME FilesAssumption ==
  \A f \in Files : f \in Seq(Statement) /\ \A n \in DOMAIN f : Balance(f, n) >= 0
ASSUME ArtisanAssumption ==
  \A printed \in Artisan : IsFiniteSet(printed) /\ printed \subseteq Parser!Methods \X Seq(STRING)

\* The models.
CONSTANTS Threads, ChainLength, MaxAttempts, MaxMinuteRetries, MaxDay, Budget, Fixed,
          MaxContext
\* The chain is never empty (_resolve_model_chain), the waits are max(1, setting), and
\* with_retries is not meant for no attempt.
ASSUME ChainBoundsAssumption ==
  /\ ChainLength \in Nat \ {0} /\ MaxAttempts \in Nat \ {0}
  /\ MaxMinuteRetries \in Nat \ {0} /\ MaxDay \in Nat \ {0} /\ MaxContext \in Nat
  /\ Budget \in Nat /\ Fixed \in Nat
VARIABLES today, registry, call, refusedOn
chainVars == <<today, registry, call, refusedOn>>
Chain == INSTANCE ModelChain

\* The plan of an endpoint: the rules of one field beside a plain one.
CONSTANTS PlanFields, Hidden, RuleSets, SampleRules
ASSUME RuleSetsAssumption ==
  /\ "none" \notin PlanFields
  /\ RuleSets \subseteq [PlanFields -> SUBSET [head : STRING, arg : Nat]]
VARIABLES route, suite, app, report
planVars == <<route, suite, app, report>>
Plain(h) == [head |-> h, arg |-> 0]
Bounded(h, n) == [head |-> h, arg |-> n]
MCBounds ==
  {{}, {Bounded("min", 0)}, {Bounded("min", 3)}, {Bounded("max", 10)}, {Bounded("size", 1)},
   {Bounded("size", 3)}, {Bounded("min", 2), Bounded("max", 3)}}
MCRuleSets ==
  {[x \in PlanFields |-> IF x = "f" THEN (UNION {p, t, r}) \cup b
                       ELSE {Plain("required"), Plain("string")}] :
     p \in {{}, {Plain("required")}}, r \in {{}, {Plain("exists")}, {Plain("unique")}},
     t \in {{}} \cup {{Plain(h)} : h \in {"string", "integer", "email", "array", "date"}},
     b \in MCBounds}
\* Every class of route for one set of rules, and every set of rules for two.
MCSampleRules ==
  {rules \in MCRuleSets : rules["f"] = {Plain("required"), Plain("string"), Bounded("max", 10)}}
Plan == INSTANCE EndpointPlan WITH Fields <- PlanFields

\* The journey of a page: two pages, an endpoint and its table, one of the pages also gone.
CONSTANTS BrainNodes, JourneyPages, Graphs, FormSets, MaxNodes, TopK
ASSUME JourneyBoundsAssumption == MaxNodes \in Nat \ {0} /\ TopK \in Nat \ {0}
ASSUME GraphsAssumption ==
  /\ IsFiniteSet(BrainNodes)
  /\ \A g \in Graphs : g.nodes \subseteq BrainNodes /\ g.edges \subseteq g.nodes \X g.nodes
ASSUME FormSetsAssumption == FormSets \subseteq Seq(Seq([name : STRING, required : BOOLEAN]))
VARIABLES reach, walk, forms
journeyVars == <<reach, walk, forms>>
MCEdges == {<<"p", "q">>, <<"q", "p">>, <<"p", "e">>, <<"q", "e">>, <<"e", "t">>}
MCGraphs ==
  UNION {{[nodes |-> ns, edges |-> es] : es \in SUBSET {e \in MCEdges : {e[1], e[2]} \subseteq ns}} :
           ns \in {BrainNodes, BrainNodes \ {"q"}}}
Field(name, required) == [name |-> name, required |-> required]
MCFormSets ==
  {<<>>,
   <<<<Field("a", TRUE), Field("b", FALSE)>>>>,
   <<<<Field("a", TRUE), Field("b", TRUE), Field("", TRUE)>>, <<Field("a", TRUE)>>>>,
   <<<<Field("a", FALSE)>>, <<Field("a", TRUE), Field("b", TRUE)>>>>,
   <<<<Field("a", TRUE), Field("blank", TRUE)>>>>,
   <<<<Field("blank", FALSE)>>, <<>>>>,
   <<<<Field("a", TRUE), Field("a", FALSE)>>>>}
Journey == INSTANCE PageJourney WITH Nodes <- BrainNodes, Pages <- JourneyPages, graph <- reach

\* The difference of two versions: trees of two fields, of every shape of one level and
\* some of two. A member lies in a container, and every version has the same fields
\* (COMPARED_FIELDS).
CONSTANTS CaseContents, Class
IsTree(t) ==
  /\ DOMAIN t \subseteq Seq(STRING)
  /\ \A p \in DOMAIN t : \A n \in 0 .. Len(p) - 1 :
       SubSeq(p, 1, n) \in DOMAIN t /\ t[SubSeq(p, 1, n)] \in {"fields", "dict", "list"}
ASSUME CaseContentsAssumption ==
  /\ \A t \in CaseContents : IsTree(t) /\ <<>> \in DOMAIN t /\ t[<<>>] = "fields"
  /\ \A t, u \in CaseContents : {p \in DOMAIN t : Len(p) = 1} = {p \in DOMAIN u : Len(p) = 1}
VARIABLES older, newer, lineages, answer
diffVars == <<older, newer, lineages, answer>>
Tree(top, members) ==
  [path \in {<<>>} \cup UNION {{<<k>> \o q : q \in DOMAIN members[k]} : k \in DOMAIN members} |->
     IF path = <<>> THEN top ELSE members[Head(path)][Tail(path)]]
MCClass == [x \in {"null", "one", "true"} |-> IF x = "null" THEN x ELSE "truth"]
MCLeaves == {Tree(x, <<>>) : x \in {"null", "one", "true"}}
MCTrees(members) ==
  {Tree("dict", f) : f \in UNION {[ks -> members] : ks \in SUBSET {"a", "b"}}} \cup
  {Tree("list", f) : f \in UNION {[ks -> members] : ks \in {{}, {"0"}, {"0", "1"}}}}
MCNested ==
  {Tree("null", <<>>), Tree("dict", <<>>), Tree("list", <<>>),
   Tree("dict", [k \in {"a"} |-> Tree("one", <<>>)]),
   Tree("list", [k \in {"0"} |-> Tree("one", <<>>)])}
MCValues == MCLeaves \cup MCTrees(MCLeaves) \cup MCTrees(MCNested)
MCContents ==
  {Tree("fields", [k \in {"steps", "expected"} |-> IF k = "steps" THEN Tree("one", <<>>) ELSE v]) :
     v \in MCValues}
  \cup {Tree("fields", f) : f \in [{"steps", "expected"} -> MCLeaves]}
Diff == INSTANCE CaseDiff WITH Contents <- CaseContents

vars == <<focus, modeVars, brainVars, parserVars, chainVars, planVars, journeyVars, diffVars>>

Init ==
  /\ focus \in {"mode", "brain", "parser", "chain", "plan", "journey", "diff"}
  /\ Mode!Init
  /\ Brain!Init /\ (focus # "brain" => site = CHOOSE s \in Sites : TRUE)
  /\ Parser!Init
  /\ (focus # "parser" => file = <<Route("get", TRUE, "A", {})>> /\ src.models[1].parses)
  /\ Chain!Init
  /\ IF focus = "plan"
       THEN /\ Plan!Init
            /\ route.rules \notin SampleRules => /\ route.captured /\ route.factories
                                         /\ route.auth /\ route.success = "ok"
       ELSE route = "none"
  /\ focus \notin {"plan", "journey"} => suite = "none" /\ app = "none" /\ report = "none"
  /\ IF focus = "journey" THEN Journey!Init
       ELSE reach = "none" /\ walk = "none" /\ forms = "none"
  /\ IF focus = "diff" THEN Diff!Init /\ (older = newer \/ lineages = 1)
       ELSE older = "none" /\ newer = "none" /\ lineages = 0 /\ answer = "none"

Next ==
  \/ /\ focus = "mode" /\ Mode!Next
     /\ UNCHANGED <<focus, brainVars, parserVars, chainVars, planVars, journeyVars, diffVars>>
  \/ /\ focus = "brain" /\ Brain!Next
     /\ UNCHANGED <<focus, modeVars, parserVars, chainVars, planVars, journeyVars, diffVars>>
  \/ /\ focus = "parser" /\ Parser!Next
     /\ UNCHANGED <<focus, modeVars, brainVars, chainVars, planVars, journeyVars, diffVars>>
  \/ /\ focus = "chain" /\ Chain!Next
     /\ UNCHANGED <<focus, modeVars, brainVars, parserVars, planVars, journeyVars, diffVars>>
  \/ /\ focus = "plan" /\ Plan!Next
     /\ UNCHANGED <<focus, modeVars, brainVars, parserVars, chainVars, journeyVars, diffVars>>
  \/ /\ focus = "journey" /\ Journey!Next
     /\ UNCHANGED <<focus, modeVars, brainVars, parserVars, chainVars, route, diffVars>>
  \/ /\ focus = "diff" /\ Diff!Next
     /\ UNCHANGED <<focus, modeVars, brainVars, parserVars, chainVars, planVars, journeyVars>>

Spec == Init /\ [][Next]_vars

\* The types of all, and the properties of each.
TypesOK ==
  /\ focus = "mode" => Mode!ModeBTypeOK
  /\ focus = "brain" => Brain!BrainTypeOK
  /\ focus = "parser" => Parser!ParserTypeOK
  /\ focus = "chain" => Chain!TypeOK
  /\ focus = "plan" => Plan!PlanTypeOK
  /\ focus = "journey" => Journey!JourneyTypeOK
  /\ focus = "diff" => Diff!DiffTypeOK
RunIsHonest == Mode!RunIsHonest
CancelFreesWorker == Mode!CancelFreesWorker
BrainIsFaithful == focus = "brain" => Brain!CrawlIsFaithful /\ Brain!IngestIsWhole
ExtractionIsFaithful == focus = "parser" => Parser!ExtractionIsFaithful
ChainIsHonest == focus = "chain" => Chain!ChainIsHonest
ProposalsAreFair ==
  /\ focus = "plan" => Plan!SuiteIsFair
  /\ focus = "journey" => Journey!JourneyIsFaithful /\ Journey!PageSuiteIsFair
  /\ focus = "diff" => Diff!DiffIsFaithful
=============================================================================
