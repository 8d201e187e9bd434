----------------------------- MODULE RepoParser -----------------------------
(***************************************************************************)
(* What an ingestion reads from the source of a Laravel application        *)
(* (ingestion/laravel/): the routes of a routes file, walked statement by  *)
(* statement with the context of the groups around it; the routes artisan  *)
(* adds when the application boots; and the edges of the graph.            *)
(* A file is the sequence of its statements; a group's body lies between   *)
(* its statement and the next matching "end".                              *)
(***************************************************************************)
EXTENDS Naturals, Sequences, FiniteSets, SequencesExt

CONSTANTS Files,     \* routes files, as sequences of statements
          Artisan,   \* what route:list may print: sets of <<method, uri>>
          Sources    \* [models, tables, actions], see Edges

VARIABLES file, src,
          cursor,      \* the next statement
          stack,       \* the contexts of the open groups, innermost last
          facts,       \* RouteFacts, each with the statement it comes from
          unresolved,  \* statements whose controller was recorded as unresolved
          phase

parserVars == <<file, src, cursor, stack, facts, unresolved, phase>>

Web == [prefix |-> << >>, mw |-> {}, ctrl |-> "none"]
Methods == {"GET", "POST", "PUT", "PATCH", "DELETE", "OPTIONS"}

ParserTypeOK ==
  /\ cursor \in 1 .. Len(file) + 1
  /\ Len(stack) >= 1
  /\ \A i \in DOMAIN stack :
       stack[i].ctrl \in {"none"} \union {file[j].ctrl : j \in {j \in DOMAIN file : file[j].t = "group"}}
  /\ unresolved \subseteq DOMAIN file
  /\ phase \in {"scan", "merge", "done"}
  /\ \A i \in DOMAIN facts :
       /\ facts[i].at \in 0 .. Len(file) /\ facts[i].method \in Methods
       /\ facts[i].auth = ("auth" \in facts[i].mw)

Init ==
  /\ file \in Files /\ src \in Sources
  /\ cursor = 1 /\ stack = <<Web>> /\ facts = << >> /\ unresolved = {}
  /\ phase = "scan"

Context == Last(stack)
Here == file[cursor]

\* Mutant: a group's attributes replace those of the groups around it.
MergeMutant(ctx, g) == [prefix |-> g.prefix, mw |-> g.mw, ctrl |-> g.ctrl]
\* _merge_chain, _merge_array: prefixes join, middleware adds up, a controller overrides.
Merge(ctx, g) ==
  [prefix |-> ctx.prefix \o g.prefix, mw |-> ctx.mw \union g.mw,
   ctrl |-> IF g.ctrl = "none" THEN ctx.ctrl ELSE g.ctrl]

EnterGroup ==
  /\ phase = "scan" /\ cursor <= Len(file) /\ Here.t = "group"
  /\ stack' = Append(stack, Merge(Context, Here)) /\ cursor' = cursor + 1
  /\ UNCHANGED <<file, src, facts, unresolved, phase>>

\* The closure's block ends; the walk goes on after the whole group.
LeaveGroup ==
  /\ phase = "scan" /\ cursor <= Len(file) /\ Here.t = "end"
  /\ stack' = Front(stack) /\ cursor' = cursor + 1
  /\ UNCHANGED <<file, src, facts, unresolved, phase>>

\* A class that the imports name, a bare method of the group's controller, or nothing.
Unresolved(r, ctx) == r.act = "unknown" \/ (r.act = "bare" /\ ctx.ctrl = "none")
Action(r, ctx) ==
  CASE r.act = "bare" /\ ctx.ctrl # "none" -> ctx.ctrl
    [] OTHER -> r.act

Rest == <<<<"GET", << >>>>, <<"GET", <<"create">>>>, <<"POST", << >>>>, <<"GET", <<"{id}">>>>,
          <<"GET", <<"{id}", "edit">>>>, <<"PUT", <<"{id}">>>>, <<"DELETE", <<"{id}">>>>>>
\* Without the two that are web-only.
ApiRest == <<<<"GET", << >>>>, <<"POST", << >>>>, <<"GET", <<"{id}">>>>, <<"PUT", <<"{id}">>>>,
             <<"DELETE", <<"{id}">>>>>>

\* The method a route is known by: any(...) answers them all, and redirects, views and the
\* fallback are a GET.  A match is a statement of the first method it names.
Primary == [get |-> "GET", any |-> "GET", post |-> "POST", put |-> "PUT", patch |-> "PATCH",
            delete |-> "DELETE", options |-> "OPTIONS", redirect |-> "GET",
            permanentRedirect |-> "GET", view |-> "GET", fallback |-> "GET"]

\* The routes a statement declares, by the word after Route::.  The word of a
\* fluent statement (Route::middleware(...)->get(...)) is none of these.
Verbs(verb) ==
  CASE verb = "resource" -> Rest
    [] verb = "apiResource" -> ApiRest
    [] verb \in DOMAIN Primary -> <<<<Primary[verb], << >>>>>>
    [] OTHER -> << >>

\* _handle_route: a URI that is not a literal is not emitted.
Emitted(r, ctx) ==
  IF ~r.literal THEN << >>
  ELSE [i \in DOMAIN Verbs(r.verb) |->
         [at |-> cursor, method |-> Verbs(r.verb)[i][1],
          uri |-> ctx.prefix \o r.uri \o Verbs(r.verb)[i][2],
          action |-> Action(r, ctx), mw |-> ctx.mw \union r.mw,
          auth |-> "auth" \in ctx.mw \union r.mw]]

HandleRoute ==
  /\ phase = "scan" /\ cursor <= Len(file) /\ Here.t = "route"
  /\ facts' = facts \o Emitted(Here, Context)
  /\ unresolved' = IF Emitted(Here, Context) # << >> /\ Unresolved(Here, Context)
                     THEN unresolved \union {cursor} ELSE unresolved
  /\ cursor' = cursor + 1
  /\ UNCHANGED <<file, src, stack, phase>>

EndScan ==
  /\ phase = "scan" /\ cursor > Len(file) /\ phase' = "merge"
  /\ UNCHANGED <<file, src, cursor, stack, facts, unresolved>>

Key(f) == <<f.method, f.uri>>
FactKeys(fs) == {Key(fs[i]) : i \in DOMAIN fs}

NewKeys(printed) == printed \ FactKeys(facts)

\* _merge_artisan_routes; enrichment that is off or fails prints nothing.
MergeArtisan(printed) ==
  /\ phase = "merge" /\ phase' = "done"
  /\ facts' = facts \o [i \in DOMAIN SetToSeq(NewKeys(printed)) |->
                [at |-> 0, method |-> SetToSeq(NewKeys(printed))[i][1],
                 uri |-> SetToSeq(NewKeys(printed))[i][2],
                 action |-> "artisan", mw |-> {}, auth |-> FALSE]]
  /\ UNCHANGED <<file, src, cursor, stack, unresolved>>

Next ==
  \/ EnterGroup \/ LeaveGroup \/ HandleRoute \/ EndScan
  \/ \E printed \in Artisan \union {{}} : MergeArtisan(printed)

Spec == Init /\ [][Next]_parserVars

-----------------------------------------------------------------------------
(* The graph.                                                              *)

\* A file that does not parse is skipped, and of a class the first file counts.
Models ==
  {i \in DOMAIN src.models :
     src.models[i].parses /\ \A j \in 1 .. (i - 1) : src.models[j].cls # src.models[i].cls}
ModelKey(cls) == <<"model", <<cls>>>>
ModelNames == {src.models[i].cls : i \in Models}

\* An action's references are resolved within the models that parsed.
References(a) == a.refs \intersect ModelNames

EndpointEdges ==
  UNION {{<<Key(facts[i]), m>> : m \in References([refs |-> src.actions[facts[i].action]])}
           : i \in {i \in DOMAIN facts : facts[i].action \in DOMAIN src.actions}}
RelationEdges ==
  UNION {{<<ModelKey(src.models[i].cls), m>> : m \in src.models[i].related \intersect ModelNames}
           : i \in Models}
TableEdges ==
  {<<ModelKey(src.models[i].cls), src.models[i].table>> : i \in {i \in Models : src.models[i].table \in src.tables}}
Edges == EndpointEdges \union RelationEdges \union TableEdges

-----------------------------------------------------------------------------
(* What the parser promises.                                               *)

\* The groups open at statement n, from the brackets alone.
Depth(i, n) ==
  Cardinality({j \in i .. n : file[j].t = "group"}) - Cardinality({j \in i .. n : file[j].t = "end"})
Enclosing(n) ==
  {i \in 1 .. (n - 1) : file[i].t = "group" /\ \A m \in i .. (n - 1) : Depth(i, m) >= 1}

(***************************************************************************)
(* A route has exactly the prefix and the middleware of the groups that    *)
(* enclose it, outermost first, however groups nest and follow each other: *)
(* a route is never taken for public, or for protected, because of a group *)
(* it is not in.                                                           *)
(***************************************************************************)
ContextIsEnclosing ==
  \A k \in DOMAIN facts : facts[k].at # 0 =>
    LET n == facts[k].at
        outer == Enclosing(n) IN
    /\ facts[k].mw = file[n].mw \union UNION {file[i].mw : i \in outer}
    /\ \E groups \in [1 .. Cardinality(outer) -> outer], r \in DOMAIN Verbs(file[n].verb) :
         /\ \A i, j \in DOMAIN groups : i < j => groups[i] < groups[j]
         /\ facts[k].method = Verbs(file[n].verb)[r][1]
         /\ facts[k].uri = FlattenSeq([i \in DOMAIN groups |-> file[groups[i]].prefix])
                             \o file[n].uri \o Verbs(file[n].verb)[r][2]

\* A statement emits each of its routes once, and none that has a literal address is missed.
EveryRouteOnce ==
  /\ \A i, j \in DOMAIN facts :
       i # j /\ facts[i].at = facts[j].at /\ facts[i].at # 0 => Key(facts[i]) # Key(facts[j])
  /\ \A n \in 1 .. (cursor - 1) :
       file[n].t = "route" /\ file[n].literal /\ file[n].verb # "fluent" =>
         \E k \in DOMAIN facts : facts[k].at = n

(***************************************************************************)
(* Enrichment only adds: what the source says of a route is never replaced *)
(* by what artisan says of it, and no route it knew appears again.         *)
(***************************************************************************)
EnrichmentOnlyAdds ==
  phase = "done" =>
    \A k \in DOMAIN facts : facts[k].at = 0 =>
      \A j \in DOMAIN facts : j # k => Key(facts[j]) # Key(facts[k])

\* An edge joins two nodes that were extracted, whatever failed to parse.
EdgesAreCertain ==
  \A e \in Edges : /\ e[1] \in FactKeys(facts) \union {ModelKey(m) : m \in ModelNames}
                   /\ e[2] \in ModelNames \union src.tables

\* What the Brain is told of the source: the routes as they are declared, and edges
\* between what was found.
ExtractionIsFaithful ==
  ContextIsEnclosing /\ EveryRouteOnce /\ EnrichmentOnlyAdds /\ EdgesAreCertain
=============================================================================
