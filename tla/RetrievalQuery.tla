--------------------------- MODULE RetrievalQuery ---------------------------
(***************************************************************************)
(* One query of the retrieval engine (ragQuery of retrieval.ts): the nodes *)
(* are listed and scored, which is awaited and lets the store change; what *)
(* scores is then looked up in the store of that moment, as it is in flat  *)
(* mode, or as the seeds of a walk along references in graph mode, and the *)
(* context is gathered around it.  A ranking is any order of any nodes.    *)
(* Not modelled: scores, snippets, markdown, the parents of the results.   *)
(***************************************************************************)
EXTENDS Naturals, Sequences, FiniteSets, SequencesExt, Filtering

CONSTANTS
  NodeCount,       \* how many nodes there are; they are numbered in the order of their ids
  QueryGraphs,     \* [kind, links, matching]: their kinds, the edges, the nodes of matching documents
  QueryRankings,   \* the rankings an embedder may give
  Missing,         \* the kind of a node that is not there
  MaxDepth,        \* how far the context goes
  MaxNodes,        \* how many nodes it may have
  MaxHops          \* the maxHops of a query

QueryNodes == 1..NodeCount

Link(kind, s, t, state) == [kind |-> kind, source |-> s, target |-> t, state |-> state]

\* A graph: its edges lead from nodes that are there to others.
IsGraph(g) ==
  /\ g.kind \in [QueryNodes -> {"fact", "reference", "content", Missing}]
  /\ g.links \in Seq(ToSet(g.links))
  /\ \A e \in ToSet(g.links) :
       /\ e = Link(e.kind, e.source, e.target, e.state)
       /\ {e.source, e.target} \subseteq {n \in QueryNodes : g.kind[n] # Missing}
       /\ e.source # e.target
  /\ g = [kind |-> g.kind, links |-> g.links, matching |-> g.matching]

ASSUME QueryAssumption ==
  /\ NodeCount \in Nat /\ MaxDepth \in Nat /\ MaxNodes \in Nat /\ MaxHops \in Nat
  /\ \A g \in QueryGraphs : IsGraph(g)
  /\ QueryRankings \subseteq Seq(QueryNodes)
  /\ Missing \notin {"fact", "reference", "content", "any"}

VARIABLES
  graph,           \* the store
  query,           \* [phase, mode, filters, listed, moved]
  ranked,          \* what scored, best first
  walk,            \* the state of walkReferenceGraph
  answer           \* [results, context, error]

queryVars == <<graph, query, ranked, walk, answer>>

Live(n) == graph.kind[n] # Missing
LiveNodes == {n \in QueryNodes : Live(n)}

\* Flow and nesting edges lead both ways, the head and the end of a document only from the section to the root,
\* crosslinks not at all; one kind of each stands for the others.
Neighbors(n) ==
  {e.target : e \in {x \in ToSet(graph.links) : x.source = n /\ x.kind \in {"next-section", "doc-head"}}}
    \cup {e.source : e \in {x \in ToSet(graph.links) : x.target = n /\ x.kind = "next-section"}}

\* A mutation: the bound is looked at once per level.
AddNode_Unbounded(c, n) ==
  IF Contains(c.context, n) \/ ~ Live(n) THEN c
  ELSE [context |-> Append(c.context, n), level |-> Append(c.level, n)]

\* addNode of assembleContext; level collects what is new.
AddNode(c, n) ==
  IF Contains(c.context, n) \/ Len(c.context) >= MaxNodes \/ ~ Live(n) THEN c
  ELSE [context |-> Append(c.context, n), level |-> Append(c.level, n)]

Added(c, s) ==
  LET after[k \in 0..Len(s)] == IF k = 0 THEN c ELSE AddNode(after[k - 1], s[k])
  IN after[Len(s)]

\* The neighbors in the order of their ids.
Expanded(c, n) == Added(c, Filtered([m \in QueryNodes |-> m], Neighbors(n)))

NextLevel(c) ==
  LET after[k \in 0..Len(c.level)] ==
        IF k = 0 THEN [c EXCEPT !.level = <<>>] ELSE Expanded(after[k - 1], c.level[k])
  IN after[Len(c.level)]

\* assembleContext: breadth first from the seeds, MaxDepth levels.
AssembleContext(seeds) ==
  LET levels[d \in 0..MaxDepth] ==
        IF d = 0 THEN Added([context |-> <<>>, level |-> <<>>], seeds) ELSE NextLevel(levels[d - 1])
  IN levels[MaxDepth].context

\* nodeMatchesDocumentFilters, edgeMatchesDocumentFilters: by either end, as crosslinks name no document.
NodeMatches(n) == query.filters.documents => n \in graph.matching
EdgePasses(e) ==
  /\ query.filters.state \in {"any", e.state}
  /\ NodeMatches(e.source) \/ NodeMatches(e.target)

\* Where in the store's order the edges are that a walk may take from a node; it takes the first.
Ways(n) ==
  {i \in DOMAIN graph.links :
     LET e == graph.links[i]
     IN e.source = n /\ e.kind = "crosslink" /\ EdgePasses(e) /\ graph.kind[e.target] \in {"fact", "reference"}}

Way(n) == graph.links[CHOOSE i \in Ways(n) : \A j \in Ways(n) : i <= j]

\* Where a walk comes to a node: a fact that passes the filters is a target, once.
IsTarget(n) == graph.kind[n] = "fact" /\ query.filters.nodeKind \in {"any", "fact"} /\ NodeMatches(n)

ComeTo(w, n) ==
  IF IsTarget(n)
  THEN [w EXCEPT !.targets = IF Contains(@, n) THEN @ ELSE Append(@, n), !.resolved = TRUE]
  ELSE w

NoWalk == [seeds |-> <<>>, path |-> <<>>, resolved |-> FALSE, targets |-> <<>>, trace |-> <<>>, blockedBy |-> <<>>]
NoAnswer == [results |-> <<>>, context |-> <<>>, error |-> ""]

QueryInit ==
  /\ graph \in QueryGraphs
  /\ query = [phase |-> "idle", mode |-> "flat", listed |-> {}, moved |-> FALSE,
              filters |-> [nodeKind |-> "any", state |-> "any", documents |-> FALSE]]
  /\ ranked = <<>>
  /\ walk = NoWalk
  /\ answer = NoAnswer

\* ragQuery up to its await: the nodes of now are what is scored.
StartQuery(mode, filters) ==
  /\ query.phase = "idle"
  /\ query' = [query EXCEPT !.phase = "scoring", !.mode = mode, !.filters = filters, !.listed = LiveNodes]
  /\ UNCHANGED <<graph, ranked, walk, answer>>

\* Another caller removes a node, its edges along, or marks an edge, while the embedder scores.
StoreMoves ==
  /\ query.phase = "scoring" /\ ~ query.moved
  /\ query' = [query EXCEPT !.moved = TRUE]
  /\ \/ \E n \in LiveNodes :
          graph' = [graph EXCEPT !.kind[n] = Missing,
                                 !.links = Filtered(@, {e \in ToSet(@) : n \notin {e.source, e.target}})]
     \/ \E i \in DOMAIN graph.links :
          /\ graph.links[i].kind = "crosslink"
          /\ graph' = [graph EXCEPT !.links[i].state = "STALE"]
  /\ UNCHANGED <<ranked, walk, answer>>

\* A mutation: what scored is taken as it was.
FlatResults_Unfiltered(r) == r

\* The results of flat mode: as they scored, filtered by what the store says now.
FlatResults(r) ==
  Filtered(r, {n \in QueryNodes :
    /\ query.filters.nodeKind = "any" \/ graph.kind[n] = query.filters.nodeKind
    /\ query.filters.documents => Live(n) /\ NodeMatches(n)})

\* The seeds of graph mode: what scored in the documents asked for.
Seeds(r) == Filtered(r, {n \in QueryNodes : query.filters.documents => Live(n) /\ NodeMatches(n)})

\* The await is over.
Scored(r) ==
  /\ query.phase = "scoring"
  /\ ToSet(r) \subseteq query.listed
  /\ ranked' = r
  /\ \/ /\ query.mode = "flat"
        /\ query' = [query EXCEPT !.phase = "done"]
        /\ answer' = [NoAnswer EXCEPT !.results = FlatResults(r), !.context = AssembleContext(r)]
        /\ UNCHANGED walk
     \/ /\ query.mode = "graph"
        /\ query' = [query EXCEPT !.phase = "walking"]
        /\ walk' = [NoWalk EXCEPT !.seeds = Seeds(r)]
        /\ UNCHANGED answer
  /\ UNCHANGED graph

Walking == query.phase = "walking" /\ UNCHANGED <<graph, ranked>>
Walks(w) == walk' = w /\ UNCHANGED <<query, answer>>
Fails(error) ==
  /\ query' = [query EXCEPT !.phase = "done"]
  /\ answer' = [NoAnswer EXCEPT !.error = error]
  /\ UNCHANGED walk

\* The next seed; it may be a target itself.
NextSeed ==
  /\ Walking
  /\ walk.path = <<>> /\ walk.seeds # <<>>
  /\ LET seed == Head(walk.seeds)
     IN Walks(ComeTo([walk EXCEPT !.path = <<seed>>, !.resolved = FALSE], seed))

SeedDone(w) == [w EXCEPT !.seeds = Tail(@), !.path = <<>>]

\* What kept the walk from going on is told while there is no target.
Blocks(w, n) == [w EXCEPT !.blockedBy = IF w.targets = <<>> THEN Append(@, n) ELSE @]

\* A mutation: the walk does not look where it has been.
WalkStep_NoCycle ==
  /\ Walking
  /\ walk.path # <<>>
  /\ LET current == Last(walk.path)
         e == Way(current)
     IN \/ /\ Ways(current) = {}
           /\ Walks(SeedDone(Blocks(walk, current)))
        \/ /\ Ways(current) # {} /\ e.state \in {"BROKEN", "STALE"}
           /\ Walks(SeedDone(Blocks([walk EXCEPT !.trace = Append(@, e)], current)))
        \/ /\ Ways(current) # {} /\ e.state \notin {"BROKEN", "STALE"}
           /\ IF Contains(walk.path, e.target) THEN Walks(SeedDone(walk))
              ELSE Walks(ComeTo([walk EXCEPT !.trace = Append(@, e), !.path = Append(@, e.target)], e.target))

\* One turn of the loop of walkReferenceGraph; hops is the length of the path so far.
WalkStep ==
  /\ Walking
  /\ walk.path # <<>>
  /\ LET current == Last(walk.path)
         hops == Len(walk.path) - 1
         e == Way(current)
     IN \/ /\ Ways(current) = {}
           /\ Walks(SeedDone(Blocks(walk, current)))
        \/ /\ Ways(current) # {} /\ e.state \in {"BROKEN", "STALE"}
           /\ Walks(SeedDone(Blocks([walk EXCEPT !.trace = Append(@, e)], current)))
        \/ /\ Ways(current) # {} /\ e.state \notin {"BROKEN", "STALE"}
           /\ IF hops > MaxHops /\ ~ walk.resolved THEN Fails("HopLimitExceeded")
              ELSE IF Contains(walk.path, e.target) THEN Fails("CycleDetected")
              ELSE Walks(ComeTo([walk EXCEPT !.trace = Append(@, e), !.path = Append(@, e.target)], e.target))

WalkDone ==
  /\ Walking
  /\ walk.path = <<>> /\ walk.seeds = <<>>
  /\ query' = [query EXCEPT !.phase = "done"]
  /\ answer' = [results |-> walk.targets, context |-> AssembleContext(walk.targets), error |-> ""]
  /\ UNCHANGED walk

\* One filter at a time, or none.
QueryFilters ==
  LET none == [nodeKind |-> "any", state |-> "any", documents |-> FALSE]
  IN {none, [none EXCEPT !.nodeKind = "fact"], [none EXCEPT !.state = "FRESH"], [none EXCEPT !.documents = TRUE]}

QueryNext ==
  \/ \E mode \in {"flat", "graph"}, filters \in QueryFilters : StartQuery(mode, filters)
  \/ StoreMoves
  \/ \E r \in QueryRankings : Scored(r)
  \/ NextSeed \/ WalkStep \/ WalkDone

QuerySpec == QueryInit /\ [][QueryNext]_queryVars

Answered == query.phase = "done" /\ answer.error = ""

\* What S reaches in up to so many steps.
Within(S) ==
  LET within[d \in 0..MaxDepth] ==
        IF d = 0 THEN S ELSE within[d - 1] \cup UNION {Neighbors(n) : n \in within[d - 1]}
  IN within

\* All of the last of these sets when there is room, else full; and nearer nodes first.
IsBall(c, within) ==
  LET far(n) == CHOOSE d \in 0..MaxDepth : n \in within[d] /\ \A b \in 0..d - 1 : n \notin within[b]
  IN /\ ToSet(c) \subseteq within[MaxDepth]
     /\ Len(c) = Cardinality(ToSet(c))
     /\ Len(c) = IF Cardinality(within[MaxDepth]) <= MaxNodes THEN Cardinality(within[MaxDepth]) ELSE MaxNodes
     /\ \A i, j \in DOMAIN c : i < j => far(c[i]) <= far(c[j])

(***************************************************************************)
(* The context of an answer is the ball of MaxDepth around its seeds, as   *)
(* far as there is room: all of it when it fits, else full; and no node    *)
(* comes before one that is nearer to a seed.                              *)
(***************************************************************************)
ContextIsBall ==
  Answered =>
    IsBall(answer.context, Within(ToSet(IF query.mode = "flat" THEN ranked ELSE walk.targets) \cap LiveNodes))

\* The node a walk goes on to from n, or n where it stops.
Onward(n) ==
  IF Ways(n) = {} \/ Way(n).state \in {"BROKEN", "STALE"} THEN n ELSE Way(n).target

\* Where a walk from n is after so many nodes; as far as there are nodes.
WayFrom(n) ==
  LET way[i \in 0..NodeCount] == IF i = 0 THEN n ELSE Onward(way[i - 1])
  IN way

\* It leads back into itself: it has not ended though every node had its turn.
Circles(n) == Onward(WayFrom(n)[NodeCount]) # WayFrom(n)[NodeCount]

(***************************************************************************)
(* A walk that ends finds exactly the facts on the ways from its seeds,    *)
(* each once; it fails only for a way that leads back into itself, or for  *)
(* one longer than the bound; and it always ends.                          *)
(***************************************************************************)
WalkFindsTargets ==
  query.mode = "graph" /\ query.phase = "done" =>
    LET seeds == ToSet(Seeds(ranked))
        found == {m \in QueryNodes : IsTarget(m) /\ \E n \in seeds, i \in 0..NodeCount : WayFrom(n)[i] = m}
    IN /\ answer.error = "" => ToSet(answer.results) = found /\ Len(answer.results) = Cardinality(found)
       /\ answer.error = "" => \A n \in seeds : ~ Circles(n)
       /\ answer.error = "CycleDetected" => \E n \in seeds : Circles(n)
       /\ answer.error = "HopLimitExceeded" =>
            \E n \in seeds : \A i \in 0..MaxHops + 1 : ~ IsTarget(WayFrom(n)[i]) /\ Onward(WayFrom(n)[i]) # WayFrom(n)[i]

(***************************************************************************)
(* Whatever happened to the store while the nodes were scored, what is     *)
(* looked up of a node is looked up after that: the context and the        *)
(* targets of a walk are nodes of the store, and so is a result that a     *)
(* filter of kinds or of documents let through.                            *)
(***************************************************************************)
AnswerIsOfNow ==
  Answered =>
    /\ ToSet(answer.context) \subseteq LiveNodes
    /\ query.mode = "graph" \/ query.filters.nodeKind # "any" \/ query.filters.documents =>
         ToSet(answer.results) \subseteq LiveNodes
    /\ query.mode = "flat" /\ query.filters.nodeKind # "any" =>
         \A n \in ToSet(answer.results) : graph.kind[n] = query.filters.nodeKind
=============================================================================
