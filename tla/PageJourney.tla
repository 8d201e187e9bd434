----------------------------- MODULE PageJourney -----------------------------
(***************************************************************************)
(* The journey behind a page and the tests made of it: a walk over the     *)
(* Brain in several queries, while an ingestion may replace what they      *)
(* read; the plan from the page's forms; the gate that refuses assertions  *)
(* nothing can break; the cases by their keys; and their verdicts on an    *)
(* application that has changed since.                                     *)
(***************************************************************************)
EXTENDS Naturals, Sequences, FiniteSets, FiniteSetsExt, SequencesExt

CONSTANTS
  Nodes,     \* the Brain's nodes
  Pages,     \* those that are pages
  Graphs,    \* what an ingestion or a crawl may leave: [nodes, edges]
  FormSets,  \* the forms a page may have: sequences of sequences of [name, required]
  MaxDepth,  \* max_depth
  MaxNodes,  \* _MAX_JOURNEY_NODES, in small
  TopK       \* k, of a request in natural language

VARIABLES
  graph,   \* the Brain
  walk,    \* the journey in hand
  forms,   \* the page's forms, as they were crawled
  suite,   \* the current cases by key
  app,     \* the application: what each form requires, and whether the page renders
  report   \* the verdicts of the last run by key

vars == <<graph, walk, forms, suite, app, report>>

(***************************************************************************)
(* The walk                                                                *)
(***************************************************************************)
NoWalk == [pc |-> "idle", root |-> "none", depth |-> 0, nodes |-> {}, edges |-> {},
           frontier |-> {}, discovered |-> {}, settled |-> TRUE]

OutEdges(sources) == {edge \in graph.edges : edge[1] \in sources}
Targets(edges) == {edge[2] : edge \in edges}

\* What lies within so many hops of the root.
Within[n \in 0 .. MaxDepth] ==
  IF n = 0 THEN {walk.root} ELSE Within[n - 1] \cup Targets(OutEdges(Within[n - 1]))

\* journey: a root that is gone is NodeNotFoundError.
Start(root) ==
  /\ walk.pc = "idle" /\ suite = <<>> /\ root \in graph.nodes
  /\ walk' = [NoWalk EXCEPT !.pc = "edges", !.root = root, !.nodes = {root}, !.frontier = {root}]
  /\ UNCHANGED <<graph, forms, suite, app, report>>

\* A page that Mode B selected, or an endpoint whose tables are asked for.
Select == \E root \in Nodes : Start(root)
\* propose_journey: the best of the pages among the k nodes nearest to the request.
Propose ==
  \E nearest \in kSubset(Min({TopK, Cardinality(graph.nodes)}), graph.nodes) :
    \E page \in nearest \cap Pages : Start(page)

ReadEdges ==
  /\ walk.pc = "edges"
  /\ walk' = IF walk.frontier = {} \/ Cardinality(walk.nodes) >= MaxNodes \/ walk.depth = MaxDepth
             THEN [walk EXCEPT !.pc = "done"]
             ELSE [walk EXCEPT !.pc = "nodes",
                               !.edges = @ \cup OutEdges(walk.frontier),
                               !.discovered = Targets(OutEdges(walk.frontier)) \ walk.nodes]
  /\ UNCHANGED <<graph, forms, suite, app, report>>

\* get_many: those that are still there, in any order, up to the cap.
ReadNodes ==
  /\ walk.pc = "nodes"
  /\ LET there == walk.discovered \cap graph.nodes
         room == Min({Cardinality(there), MaxNodes - Cardinality(walk.nodes)})
     IN \E taken \in kSubset(room, there) :
          walk' = [walk EXCEPT !.pc = "edges", !.depth = @ + 1, !.discovered = {},
                               !.nodes = @ \cup taken, !.frontier = taken]
  /\ UNCHANGED <<graph, forms, suite, app, report>>

Reindex ==
  /\ walk.pc \in {"edges", "nodes"} /\ walk.settled
  /\ graph' \in Graphs \ {graph} /\ walk' = [walk EXCEPT !.settled = FALSE]
  /\ UNCHANGED <<forms, suite, app, report>>

(***************************************************************************)
(* The plan                                                                *)
(***************************************************************************)
NameSet(fields) == {field.name : field \in fields}

\* _fields: a field without a name is left out.
FieldsOf(form) == {field \in ToSet(form) : field.name # ""}
Required(form) == {field \in FieldsOf(form) : field.required}
RequiredNames(form) == NameSet(Required(form))

\* _happy_case; a page without a form is navigated to, no more.
Happy(i) ==
  [name |-> <<"happy">>, form |-> i, kind |-> "recorded_state", target |-> "title",
   fills |-> IF i = 0 THEN {} ELSE NameSet(FieldsOf(forms[i]))]

\* _required_negative_case: every other field is filled in.
RequiredMissing(i, name) ==
  [name |-> <<name, "required_missing">>, form |-> i, kind |-> "validation_error",
   target |-> name, fills |-> NameSet(FieldsOf(forms[i])) \ {name}]

\* build_e2e_plan, form by form: the cases of a form are told apart by their names.
Plan ==
  IF forms = <<>> THEN <<{Happy(0)}>>
  ELSE [i \in DOMAIN forms |->
         {Happy(i)} \cup {RequiredMissing(i, name) : name \in RequiredNames(forms[i])}]

\* is_tautological: a name of blanks is no target.
IsTautological(case) == case.target = "blank"
\* enforce_mutation_gate.
GateAccepts(plan) == \A i \in DOMAIN plan : \A case \in plan[i] : ~IsTautological(case)

\* e2e_case_key, within one page.
Key(case) == case.name

\* Each case is merged by its key in the order of the plan: the last with a key is current.
Merged(plan) ==
  LET Holds(key) == {i \in DOMAIN plan : \E case \in plan[i] : Key(case) = key} IN
  [key \in {Key(case) : case \in UNION {plan[i] : i \in DOMAIN plan}} |->
     CHOOSE case \in plan[Max(Holds(key))] : Key(case) = key]

\* E2EGenerator.generate_and_persist: all of the plan, or nothing.
Generate ==
  /\ walk.pc = "done" /\ walk.root \in Pages /\ suite = <<>>
  /\ suite' = IF GateAccepts(Plan) THEN Merged(Plan) ELSE <<>>
  /\ walk' = NoWalk
  /\ UNCHANGED <<graph, forms, app, report>>

Drop == walk.pc = "done" /\ walk' = NoWalk /\ UNCHANGED <<graph, forms, suite, app, report>>

(***************************************************************************)
(* The application                                                         *)
(***************************************************************************)
AsCrawled == [renders |-> TRUE, requires |-> [i \in DOMAIN forms |-> RequiredNames(forms[i])]]

\* The applications a regression may leave: one requirement less, or a page that is broken.
Regressions ==
  {[AsCrawled EXCEPT !.renders = FALSE]} \cup
  {[AsCrawled EXCEPT !.requires[i] = @ \ {name}] :
     i \in DOMAIN forms, name \in UNION {RequiredNames(forms[j]) : j \in DOMAIN forms}}

Refused(case, application) ==
  IF case.form = 0 THEN {} ELSE application.requires[case.form] \ case.fills

\* What Playwright reports: the recorded state is reached, or the field is reported invalid.
Passes(case, application) ==
  /\ application.renders
  /\ IF case.kind = "recorded_state" THEN Refused(case, application) = {}
     ELSE IsTautological(case) \/ case.target \in Refused(case, application)

Change ==
  /\ suite # <<>> /\ app' \in Regressions \cup {AsCrawled} /\ report' = <<>>
  /\ UNCHANGED <<graph, walk, forms, suite>>

Run ==
  /\ suite # <<>>
  /\ report' = [key \in DOMAIN suite |-> Passes(suite[key], app)]
  /\ UNCHANGED <<graph, walk, forms, suite, app>>

Init ==
  /\ graph \in Graphs /\ walk = NoWalk /\ forms \in FormSets
  /\ suite = <<>> /\ report = <<>> /\ app = AsCrawled

Next ==
  \/ Select \/ Propose \/ ReadEdges \/ ReadNodes \/ Reindex \/ Drop
  \/ Generate \/ Change \/ Run

Spec == Init /\ [][Next]_vars

JourneyTypeOK ==
  /\ graph.nodes \subseteq Nodes /\ graph.edges \subseteq graph.nodes \X graph.nodes
  /\ walk.pc \in {"idle", "edges", "nodes", "done"}
  /\ walk.nodes \subseteq Nodes /\ walk.depth \in 0 .. MaxDepth
  /\ DOMAIN report \subseteq DOMAIN suite

(***************************************************************************)
(* Properties                                                              *)
(***************************************************************************)
\* A journey is bounded and of one piece whatever an ingestion does between its queries, and
\* is all that lies within its depth when none does and the cap is not met.
JourneyIsFaithful ==
  walk.pc = "done" =>
    /\ Cardinality(walk.nodes) <= MaxNodes
    /\ \A node \in walk.nodes \ {walk.root} :
         \E edge \in walk.edges : edge[1] \in walk.nodes /\ edge[2] = node
    /\ walk.settled /\ Cardinality(walk.nodes) < MaxNodes =>
         /\ walk.nodes = Within[MaxDepth]
         /\ walk.edges = IF MaxDepth = 0 THEN {} ELSE OutEdges(Within[MaxDepth - 1])

\* A later form of the page requires a field of the same name: the case of this one is no
\* longer current.
IsMasked(i, name) == \E j \in DOMAIN forms : j > i /\ name \in RequiredNames(forms[j])

\* The page's cases pass on the application they were made from, every one of them fails on
\* some regression of it, and each requirement that is lost fails one unless it is masked.
PageSuiteIsFair ==
  /\ \A key \in DOMAIN suite : \E application \in Regressions : ~Passes(suite[key], application)
  /\ report # <<>> =>
       /\ app = AsCrawled => \A key \in DOMAIN report : report[key]
       /\ ~app.renders => \A key \in DOMAIN report : ~report[key]
       /\ \A i \in DOMAIN forms : \A name \in RequiredNames(forms[i]) \ app.requires[i] :
            ~IsMasked(i, name) => \E key \in DOMAIN report : ~report[key]
=============================================================================
