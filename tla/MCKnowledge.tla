---------------------------- MODULE MCKnowledge -----------------------------
(***************************************************************************)
(* The knowledge store and what reads it, for TLC: the store with removals *)
(* and updates, the store with batches and process death, the lexical      *)
(* index, documents, queries, and queries of all stores.  None reads the   *)
(* state of another one here, so one moves and the others rest.            *)
(***************************************************************************)
EXTENDS LexicalIndex, DocumentFlow, RetrievalQuery, FanOut, Folds, TLC

CONSTANTS StoreNodes, StoreEdges, BatchEdges, None

VARIABLES
  part,
  db, journal, cursor, adj, task, disk, timeline, savedTimeline, \* the store of "cascade"
  bDb, bJournal, bCursor, bAdj, bTask, bDisk, bTimeline, bSaved  \* the store of "batch"

Cascade == INSTANCE RagStoreHistory WITH
  NodeIds <- StoreNodes, EdgeIds <- StoreEdges, Types <- {"p", "h1"}, PropKeys <- {},
  Roles <- {"flow"}, States <- {"resolved"}, MaxJournal <- 2, MaxBatch <- 0,
  PersistMayFail <- FALSE

Batch == INSTANCE RagStoreHistory WITH
  NodeIds <- StoreNodes, EdgeIds <- BatchEdges, Types <- {"p"}, PropKeys <- {},
  Roles <- {"flow"}, States <- {"resolved"}, MaxJournal <- 1, MaxBatch <- 2,
  PersistMayFail <- FALSE,
  db <- bDb, journal <- bJournal, cursor <- bCursor, adj <- bAdj, task <- bTask,
  disk <- bDisk, timeline <- bTimeline, savedTimeline <- bSaved

cascadeVars == <<db, journal, cursor, adj, task, disk, timeline, savedTimeline>>
batchVars   == <<bDb, bJournal, bCursor, bAdj, bTask, bDisk, bTimeline, bSaved>>

Symmetry == Permutations(StoreNodes) \cup Permutations(StoreEdges)

SomeTexts == {[t \in LexTerms |-> 0], [t \in LexTerms |-> IF t = 3 THEN 2 ELSE 0], [t \in LexTerms |-> 1]}

(***************************************************************************)
(* The documents: none, two that share a section, one with a section in its      *)
(* section, one with a node that hangs on two sections.                    *)
(***************************************************************************)
FlowOf(d, s) ==
  <<FlowEdge("doc-head", s[1], d, {d})>>
    \o [i \in 1..Len(s) - 1 |-> FlowEdge("next-section", s[i], s[i + 1], {d})]
    \o <<FlowEdge("doc-end", Last(s), d, {d})>>

SomeFlows ==
  {<<>>,
   FlowOf("r1", <<"a", "b">>) \o FlowOf("r2", <<"b", "c">>),
   FlowOf("r1", <<"a">>) \o <<FlowEdge("doc-child", "a", "b", {})>>,
   FlowOf("r1", <<"a", "b">>) \o <<FlowEdge("parent-child", "a", "c", {}), FlowEdge("parent-child", "b", "c", {})>>}

(***************************************************************************)
(* The graphs of a query: references of every shape up to a circle, and    *)
(* flows of every shape.                                                   *)
(***************************************************************************)
UpTo(n, kinds, ts, states) == {<<>>} \cup {<<Link(k, n, t, s)>> : k \in kinds, t \in ts, s \in states}
Refers(n, ts, states) == UpTo(n, {"crosslink"}, ts, states)
Flows(n, ts, kinds) == UpTo(n, kinds, ts, {"FRESH"})

SomeGraphs ==
  [kind : {f \in [QueryNodes -> {"fact", "reference", "content"}] : f[1] = "reference" /\ f[3] # "content" /\ f[4] = "fact"},
   links : {a \o b \o c \o d : a \in Refers(1, {2, 3}, {"FRESH", "BROKEN"}), b \in Refers(1, {4}, {"FRESH"}),
                              c \in Refers(2, {1, 3}, {"FRESH"}), d \in Refers(3, {1, 4}, {"RESOLVED"})},
   matching : {{1, 3}}]
  \cup
  [kind : {[n \in QueryNodes |-> "fact"]},
   links : {a \o b \o c : a \in Flows(1, {2, 3}, {"next-section"}), b \in Flows(2, {1, 3}, {"doc-head", "next-section"}),
                          c \in Flows(3, {4}, {"next-section"})},
   matching : {{1, 3}}]

SomeRankings == {<<>>, <<1>>, <<1, 2>>, <<3, 1>>}

SomeHits == [f \in StoreFiles |-> CASE f = "f1" -> <<"a", "b">> [] f = "f2" -> <<"b">> [] f = "f3" -> <<"c", "d">>]
TwoStores == <<<<"m", "f1">>, <<"n", "f2">>>>

KnowledgeInit ==
  /\ part \in {"cascade", "batch", "index", "flow", "query", "all stores"}
  /\ Cascade!HistoryInit /\ Batch!HistoryInit
  /\ IF part = "index" THEN LexInit ELSE content = [n \in LexNodes |-> Gone] /\ lex = Built(<<>>, content) /\ owed = {}
  /\ FlowInit /\ (part # "flow" => flowEdges = <<>>)
  /\ QueryInit /\ (part # "query" => graph = [kind |-> [n \in QueryNodes |-> "fact"], links |-> <<>>, matching |-> {1, 3}])
  /\ FanInit

KnowledgeNext ==
  /\ UNCHANGED part
  /\ \/ part = "cascade" /\ Cascade!HistoryNext /\ UNCHANGED <<batchVars, lexVars, flowVars, queryVars, fanVars>>
     \/ part = "batch" /\ Batch!HistoryNext /\ UNCHANGED <<cascadeVars, lexVars, flowVars, queryVars, fanVars>>
     \/ part = "index" /\ LexNext /\ UNCHANGED <<cascadeVars, batchVars, flowVars, queryVars, fanVars>>
     \/ part = "flow" /\ FlowNext /\ UNCHANGED <<cascadeVars, batchVars, lexVars, queryVars, fanVars>>
     \/ part = "query" /\ QueryNext /\ UNCHANGED <<cascadeVars, batchVars, lexVars, flowVars, fanVars>>
     \/ part = "all stores" /\ FanNext /\ UNCHANGED <<cascadeVars, batchVars, lexVars, flowVars, queryVars>>

KnowledgeSpec ==
  KnowledgeInit /\ [][KnowledgeNext]_<<part, cascadeVars, batchVars, lexVars, flowVars, queryVars, fanVars>>

-----------------------------------------------------------------------------
(* The properties of the parts, evaluated where the part moves.            *)

\* With two nodes and the edges between them, removals in every order of the
\* cascade, and batches of two operations, implement the undo history.
StoresAreHistories == Cascade!ImplementsUndoHistory /\ Batch!ImplementsUndoHistory
=============================================================================
