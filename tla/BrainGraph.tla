----------------------------- MODULE BrainGraph -----------------------------
(***************************************************************************)
(* What the Brain of a project knows of its target: the pages a bounded    *)
(* crawl finds (crawler/) and the endpoints an ingestion extracts from the *)
(* source (ingestion/laravel/), with the vectors they are searched by.     *)
(* A crawl writes inside a run's session, whose next commit keeps what it  *)
(* wrote even when it failed (mode_b); an ingestion is a job of its own,   *)
(* committed as a whole.  The two write different nodes and run at once.   *)
(***************************************************************************)
EXTENDS Naturals, Sequences, FiniteSets, SequencesExt

CONSTANTS
  Urls, StartUrl,
  PathOf,       \* the path of a URL, its identity in the Brain
  OffOrigin,    \* the URLs of another origin
  Sites,        \* [links : [Urls -> Seq(Urls)], lands : [Urls -> Urls],
                \*  calls : [Urls -> SUBSET Routes]]
  Routes,       \* endpoints the source may declare
  MaxPages, MaxDepth,
  MaxVersion    \* bound: changes of the target's contents

VARIABLES
  site, version,
  pc, queue, seen, snaps, late,   \* the crawl
  changed,   \* the documents it has to embed, in order
  sent,      \* those it gave to the provider
  graph,     \* what its session sees: [page, nav, call]
  stored,    \* what is committed of it
  excused,   \* pages whose embedding failed
  ing,       \* the ingestion
  clone,     \* its temporary checkout
  facts,     \* the content of each route its source declares
  nodes,     \* what its session sees
  ingested,  \* what is committed of it: route -> [sha, vec]
  source     \* the facts last ingested

crawlVars == <<pc, queue, seen, snaps, late, changed, sent, graph, stored, excused>>
ingestVars == <<ing, clone, facts, nodes, ingested, source>>
brainVars == <<site, version, crawlVars, ingestVars>>

Paths == {PathOf[u] : u \in Urls}
Contents == 1 .. MaxVersion
Unknown == [sha |-> 0, vec |-> 0]
Node == [sha : 0 .. MaxVersion, vec : 0 .. MaxVersion]
NoPages == [page |-> [p \in Paths |-> Unknown], nav |-> {}, call |-> {}]

BrainTypeOK ==
  /\ site \in Sites /\ version \in Contents /\ late \in BOOLEAN
  /\ pc \in {"idle", "discover", "persist", "embed", "commit"}
  /\ queue \in Seq(Urls \X (0 .. MaxDepth)) /\ seen \subseteq Urls
  /\ snaps \in Seq([asked : Urls, url : Urls, depth : 0 .. MaxDepth, v : Contents])
  /\ changed \in Seq(Paths \X Contents) /\ sent \in Seq(Paths \X Contents)
  /\ excused \subseteq Paths
  /\ ing \in {"idle", "cloned", "written"}
  /\ clone \in {"none", "live", "orphan"}
  /\ nodes \in [Routes -> Node] /\ ingested \in [Routes -> Node]
  /\ \A g \in {graph, stored} :
       /\ g.page \in [Paths -> Node]
       /\ \A e \in g.nav : \A p \in {e[1], e[2]} : g.page[p].sha # 0
       /\ \A e \in g.call : g.page[e[1]].sha # 0 /\ ingested[e[2]].sha # 0

Init ==
  /\ site \in Sites /\ version = 1
  /\ pc = "idle" /\ queue = << >> /\ seen = {} /\ snaps = << >> /\ late = FALSE
  /\ changed = << >> /\ sent = << >> /\ excused = {}
  /\ graph = NoPages /\ stored = NoPages
  /\ ing = "idle" /\ clone = "none" /\ facts = << >>
  /\ nodes = [r \in Routes |-> Unknown] /\ ingested = nodes /\ source = << >>

\* The target is deployed anew.
Publish ==
  /\ version < MaxVersion /\ version' = version + 1
  /\ UNCHANGED <<site, crawlVars, ingestVars>>

-----------------------------------------------------------------------------
(* The crawl.                                                              *)

\* discover, up to its loop.  The start path is on the target's origin.
BeginCrawl ==
  /\ pc = "idle" /\ StartUrl \notin OffOrigin /\ pc' = "discover"
  /\ queue' = <<<<StartUrl, 0>>>>
  /\ UNCHANGED <<site, version, seen, snaps, late, changed, sent, graph, stored, excused,
                 ingestVars>>

NextIn == 1

Follows(depth) == depth < MaxDepth

\* What a page links to, resolved against where the request landed: the loop over its links.
Found(u, depth) ==
  LET links == site.links[site.lands[u]]
      after[n \in 0 .. Len(links)] ==
        IF n = 0 THEN << >>
        ELSE IF links[n] \in seen \union {u} \union OffOrigin THEN after[n - 1]
        ELSE Append(after[n - 1], <<links[n], depth + 1>>)
  IN IF Follows(depth) THEN after[Len(links)] ELSE << >>

\* One turn of the loop.  A page seen since it was queued is skipped.
Visit ==
  /\ pc = "discover" /\ queue # << >> /\ Len(snaps) < MaxPages /\ ~late
  /\ LET url == queue[NextIn][1]
         depth == queue[NextIn][2]
         rest == RemoveAt(queue, NextIn)
     IN IF url \in seen THEN queue' = rest /\ UNCHANGED <<seen, snaps>>
        ELSE /\ seen' = seen \union {url}
             /\ snaps' = Append(snaps, [asked |-> url, url |-> site.lands[url],
                                        depth |-> depth, v |-> version])
             /\ queue' = rest \o Found(url, depth)
  /\ UNCHANGED <<site, version, pc, late, changed, sent, graph, stored, excused, ingestVars>>

\* The time budget runs out.
CrawlTimeOut ==
  /\ pc = "discover" /\ ~late /\ late' = TRUE
  /\ UNCHANGED <<site, version, pc, queue, seen, snaps, changed, sent, graph, stored, excused,
                 ingestVars>>

EndDiscover ==
  /\ pc = "discover" /\ (queue = << >> \/ Len(snaps) >= MaxPages \/ late)
  /\ pc' = "persist"
  /\ UNCHANGED <<site, version, queue, seen, snaps, late, changed, sent, graph, stored, excused,
                 ingestVars>>

\* The driver raised on a page: no page of this crawl is kept.
FetchFailed ==
  /\ pc = "discover" /\ pc' = "commit"
  /\ queue' = << >> /\ seen' = {} /\ snaps' = << >> /\ late' = FALSE
  /\ UNCHANGED <<site, version, changed, sent, graph, stored, excused,
                 ingestVars>>

Page(i) == PathOf[snaps[i].url]

\* Mutant: a page that has a vector is not embedded again.
CacheHitMutant(node, v) == node.vec # 0
CacheHit(node, v) == node.sha = v /\ node.vec # 0

\* The pages after the first n snapshots: each is tagged before it is embedded.
UpTo[n \in 0 .. MaxPages] ==
  IF n = 0 THEN [page |-> graph.page, changed |-> << >>]
  ELSE LET before == UpTo[n - 1]
           node == before.page[Page(n)]
           v == snaps[n].v
       IN [page |-> [before.page EXCEPT ![Page(n)].sha = v],
           changed |-> IF CacheHit(node, v) THEN before.changed
                       ELSE Append(before.changed, <<Page(n), v>>)]

\* Mutant: a link to a page that was not crawled makes an edge.
NavEdgesMutant ==
  UNION {{<<Page(i), PathOf[l]>> : l \in ToSet(site.links[snaps[i].url])} : i \in DOMAIN snaps}
NavEdges ==
  {e \in {Page(i) : i \in DOMAIN snaps} \X {Page(i) : i \in DOMAIN snaps} :
     /\ e[1] # e[2]
     /\ \E i \in DOMAIN snaps : Page(i) = e[1] /\
          \E l \in ToSet(site.links[snaps[i].url]) : PathOf[l] = e[2]}

\* A call observed on a page, matched to an endpoint that was ingested.
CallEdges ==
  UNION {{<<Page(i), r>> : r \in {r \in site.calls[snaps[i].url] : ingested[r].sha # 0}}
           : i \in DOMAIN snaps}

\* crawl, up to the embedding: upserts of nodes, then of edges.
Persist ==
  /\ pc = "persist" /\ pc' = IF UpTo[Len(snaps)].changed = << >> THEN "commit" ELSE "embed"
  /\ changed' = UpTo[Len(snaps)].changed
  /\ graph' = [page |-> UpTo[Len(snaps)].page,
               nav |-> graph.nav \union NavEdges, call |-> graph.call \union CallEdges]
  /\ queue' = << >> /\ seen' = {} /\ snaps' = << >> /\ late' = FALSE
  /\ UNCHANGED <<site, version, sent, stored, excused, ingestVars>>

\* _embed_changed.
Embed ==
  /\ pc = "embed" /\ pc' = "commit" /\ sent' = changed
  /\ graph' = [graph EXCEPT !.page = [p \in Paths |->
       IF \E i \in DOMAIN changed : changed[i][1] = p
         THEN [graph.page[p] EXCEPT !.vec = graph.page[p].sha] ELSE graph.page[p]]]
  /\ UNCHANGED <<site, version, queue, seen, snaps, late, changed, stored, excused, ingestVars>>

\* The provider raised; the phase logs it and the run goes on.
EmbedFailed ==
  /\ pc = "embed" /\ pc' = "commit"
  /\ excused' = excused \union {changed[i][1] : i \in DOMAIN changed}
  /\ UNCHANGED <<site, version, queue, seen, snaps, late, changed, sent, graph, stored, ingestVars>>

Forget ==
  /\ pc' = "idle" /\ queue' = << >> /\ seen' = {} /\ snaps' = << >> /\ late' = FALSE
  /\ changed' = << >> /\ sent' = << >>

\* The run's next commit, of its row.
CommitCrawl ==
  /\ pc = "commit" /\ Forget /\ stored' = graph
  /\ UNCHANGED <<site, version, graph, excused, ingestVars>>

\* The run fails, or its process dies, before that commit.
RunFailed ==
  /\ pc # "idle" /\ Forget /\ graph' = stored
  /\ UNCHANGED <<site, version, stored, excused, ingestVars>>

-----------------------------------------------------------------------------
(* The ingestion.                                                          *)

\* checkout, then the routes of the source and, if the target boots, those that
\* artisan adds; a checkout that fails removes its directory and fails the job.
Checkout(declared) ==
  /\ ing = "idle" /\ clone # "live"
  /\ ing' = "cloned" /\ clone' = "live" /\ facts' = declared /\ nodes' = ingested
  /\ UNCHANGED <<site, version, crawlVars, ingested, source>>

\* ingest: the nodes, and vectors for those whose content changed.
Write ==
  /\ ing = "cloned" /\ ing' = "written"
  /\ nodes' = [r \in Routes |->
       IF r \notin DOMAIN facts THEN nodes[r]
       ELSE [sha |-> facts[r],
             vec |-> IF CacheHit(nodes[r], facts[r]) THEN nodes[r].vec ELSE facts[r]]]
  /\ UNCHANGED <<site, version, crawlVars, clone, facts, ingested, source>>

\* cleanup, and the job's commit.
CommitIngest ==
  /\ ing = "written" /\ ing' = "idle" /\ clone' = "none" /\ ingested' = nodes
  /\ source' = facts /\ facts' = << >>
  /\ UNCHANGED <<site, version, crawlVars, nodes>>

\* The parser, a statement or the provider raised: cleanup, and the job rolls back.
IngestFailed ==
  /\ ing \in {"cloned", "written"} /\ ing' = "idle" /\ clone' = "none"
  /\ nodes' = ingested /\ facts' = << >>
  /\ UNCHANGED <<site, version, crawlVars, ingested, source>>

\* The process dies: its session is rolled back, its directory stays.
IngestCrash ==
  /\ ing # "idle" /\ ing' = "idle" /\ clone' = "orphan" /\ nodes' = ingested /\ facts' = << >>
  /\ UNCHANGED <<site, version, crawlVars, ingested, source>>

Next ==
  \/ Publish
  \/ BeginCrawl \/ Visit \/ CrawlTimeOut \/ EndDiscover \/ FetchFailed
  \/ Persist \/ Embed \/ EmbedFailed \/ CommitCrawl \/ RunFailed
  \/ \E declared \in SUBSET Routes : Checkout([r \in declared |-> version])
  \/ Write \/ CommitIngest \/ IngestFailed \/ IngestCrash

Spec == Init /\ [][Next]_brainVars

-----------------------------------------------------------------------------
(* What the Brain promises.                                                *)

\* The pages at most d links from the start, over pages of the target's origin.
Within[d \in 0 .. MaxDepth] ==
  IF d = 0 THEN {StartUrl}
  ELSE Within[d - 1] \union
       UNION {ToSet(site.links[site.lands[u]]) \ OffOrigin : u \in Within[d - 1]}

(***************************************************************************)
(* The crawl is the breadth-first search it claims: it requests a page at  *)
(* its distance from the start, and when no bound stopped it, every page   *)
(* within the depth.                                                       *)
(***************************************************************************)
CrawlIsBreadthFirst ==
  /\ \A i \in DOMAIN snaps :
       LET d == snaps[i].depth
       IN snaps[i].asked \in Within[d] /\ (d > 0 => snaps[i].asked \notin Within[d - 1])
  /\ pc = "persist" /\ ~late /\ Len(snaps) < MaxPages => seen = Within[MaxDepth]

\* A crawl never asks the provider for a vector the Brain already has.
OnlyChangedSent ==
  pc = "commit" =>
    \A i \in DOMAIN sent :
      ~(stored.page[sent[i][1]].sha = sent[i][2] /\ stored.page[sent[i][1]].vec = sent[i][2])

\* A committed vector is that of the page's committed content, unless embedding
\* that page has failed.
StaleOnlyAfterFailure ==
  \A p \in Paths \ excused : stored.page[p].vec = stored.page[p].sha

\* What the crawl does of the Brain's pages: it finds those it promises to find,
\* and their vectors follow their content at no more cost than that takes.
CrawlIsFaithful == CrawlIsBreadthFirst /\ OnlyChangedSent /\ StaleOnlyAfterFailure

(***************************************************************************)
(* An ingestion counts as a whole or not at all: whatever failed since,    *)
(* each endpoint of the source last ingested has its content, every        *)
(* committed vector is that of the node's content, and a checkout outlives *)
(* its ingestion only when the process died.                               *)
(***************************************************************************)
IngestIsWhole ==
  /\ \A r \in DOMAIN source : ingested[r].sha = source[r]
  /\ \A r \in Routes : ingested[r].vec = ingested[r].sha
  /\ ing = "idle" => clone # "live"
=============================================================================
