------------------------------ MODULE RagStore ------------------------------
(***************************************************************************)
(* The local JSON knowledge store of src/main/rag-store.ts: nodes and      *)
(* edges, the project journal with its cursor (undo / redo), the atomic    *)
(* batch, quarantine at load, the lazy adjacency index, and the file the   *)
(* whole state is written to.                                              *)
(*                                                                         *)
(* The JavaScript handlers are synchronous, so a handler is one action -   *)
(* except the two that loop over a list of operations (applyBatchSync and  *)
(* the undo / redo of a batch entry).  Those run one operation per step,   *)
(* with `task' holding the loop's locals; while a loop runs no other       *)
(* handler is enabled, but the process may die between two steps.          *)
(***************************************************************************)
EXTENDS Integers, Sequences, FiniteSets

CONSTANTS
  NodeIds,        \* ids a node may carry
  EdgeIds,        \* ids an edge may carry
  Types,          \* node types (RAG_NODE_TYPES)
  PropKeys,       \* keys of a node's props record
  Roles,          \* edge kinds (doc-flow, reference, ...)
  States,         \* the edgeType/state pair of an edge
  MaxJournal,     \* maxJournalLength
  MaxBatch,       \* bound of the model: operations in one batch
  PersistMayFail, \* the environment may make a file write fail
  None            \* no record under this id

ASSUME MaxJournalAssumption == MaxJournal \in Nat
ASSUME MaxBatchAssumption   == MaxBatch \in Nat
ASSUME FiniteIdsAssumption  == IsFiniteSet(NodeIds) /\ IsFiniteSet(EdgeIds)
ASSUME PersistAssumption    == PersistMayFail \in BOOLEAN

NodeVals == [type : Types, props : SUBSET PropKeys]
EdgeVals == [source : NodeIds, target : NodeIds, role : Roles, state : States]

ASSUME NoneAssumption == None \notin NodeVals \cup EdgeVals

VARIABLES
  db,        \* the in-memory maps, see DbType
  journal,   \* the project journal
  cursor,    \* how many of its entries are applied
  adj,       \* the adjacency index: NotBuilt (dirty), or the edges it was built from
  task,      \* the running loop over operations, or Idle
  disk       \* the store file

vars == <<db, journal, cursor, adj, task, disk>>

-----------------------------------------------------------------------------
(* Records of the two maps.  `q' is the in-memory quarantined flag, `bad'  *)
(* a stored hash that does not match the record.                           *)

DbType ==
  [nodes : [NodeIds -> NodeVals \cup {None}], edges : [EdgeIds -> EdgeVals \cup {None}],
   qNodes : SUBSET NodeIds, qEdges : SUBSET EdgeIds,
   badNodes : SUBSET NodeIds, badEdges : SUBSET EdgeIds]

EmptyDb ==
  [nodes |-> [n \in NodeIds |-> None], edges |-> [e \in EdgeIds |-> None],
   qNodes |-> {}, qEdges |-> {}, badNodes |-> {}, badEdges |-> {}]

Stored(d, n)     == d.nodes[n] # None
ActiveNode(d, n) == Stored(d, n) /\ n \notin d.qNodes
ActiveEdge(d, e) == d.edges[e] # None /\ e \notin d.qEdges

\* What getNode / listNodes and getEdge / listEdges report.
View(d) ==
  [nodes |-> [n \in NodeIds |-> IF ActiveNode(d, n) THEN d.nodes[n] ELSE None],
   edges |-> [e \in EdgeIds |-> IF ActiveEdge(d, e) THEN d.edges[e] ELSE None]]

EndpointsActive(d, v) == ActiveNode(d, v.source) /\ ActiveNode(d, v.target)

Touching(d, n) == {e \in EdgeIds : d.edges[e] # None /\ n \in {d.edges[e].source, d.edges[e].target}}

\* Every order the insertion order of the edge map may give the elements of S.
Orders(S) ==
  {s \in [1..Cardinality(S) -> S] : \A i, j \in DOMAIN s : s[i] = s[j] => i = j}

-----------------------------------------------------------------------------
(* The primitive writes of a record.  A record that is set carries a fresh *)
(* hash and no quarantine flag; the in-place edits of undo refresh the     *)
(* hash and leave the flag.                                                *)

SetNode(d, n, v) ==
  [d EXCEPT !.nodes[n] = v, !.qNodes = @ \ {n}, !.badNodes = @ \ {n}]
SetEdge(d, e, v) ==
  [d EXCEPT !.edges[e] = v, !.qEdges = @ \ {e}, !.badEdges = @ \ {e}]
DropEdges(d, E) ==
  [d EXCEPT !.edges = [e \in EdgeIds |-> IF e \in E THEN None ELSE d.edges[e]],
            !.qEdges = @ \ E, !.badEdges = @ \ E]
\* Mutant of DropNode: the cascade is forgotten.
DropNode_NoCascade(d, n) ==
  [d EXCEPT !.nodes[n] = None, !.qNodes = @ \ {n}, !.badNodes = @ \ {n}]
DropNode(d, n) ==
  [DropEdges(d, Touching(d, n)) EXCEPT
     !.nodes[n] = None, !.qNodes = @ \ {n}, !.badNodes = @ \ {n}]
EditNode(d, n, v) == [d EXCEPT !.nodes[n] = v, !.badNodes = @ \ {n}]
EditEdge(d, e, v) == [d EXCEPT !.edges[e] = v, !.badEdges = @ \ {e}]

-----------------------------------------------------------------------------
(* Journal entries.                                                        *)

Ends == [source : NodeIds, target : NodeIds]

BatchOps ==
       [op : {"putNode"}, id : NodeIds, node : NodeVals]
  \cup [op : {"removeNode"}, id : NodeIds]
  \cup [op : {"putEdge"}, id : EdgeIds, edge : EdgeVals]
  \cup [op : {"removeEdge"}, id : EdgeIds]
  \cup [op : {"setProps"}, id : NodeIds, props : SUBSET PropKeys]
  \cup [op : {"setType"}, id : NodeIds, type : Types]

NodeEntries ==
       [kind : {"node-add", "node-delete"}, id : NodeIds, node : NodeVals]
  \cup [kind : {"node-update"}, id : NodeIds, before : NodeVals, after : NodeVals]
  \cup [kind : {"content"}, id : NodeIds, before : SUBSET PropKeys, after : SUBSET PropKeys]
EdgeEntries ==
       [kind : {"edge-add", "edge-remove"}, id : EdgeIds, edge : EdgeVals]
  \cup [kind : {"edge-retarget"}, id : EdgeIds, before : Ends, after : Ends]
  \cup [kind : {"role-change"}, id : EdgeIds, before : Roles, after : Roles]
  \cup [kind : {"edge-update"}, id : EdgeIds, before : EdgeVals, after : EdgeVals]
BatchEntries == [kind : {"batch"}, ops : Seq(BatchOps), inverse : Seq(BatchOps)]
JournalEntries == NodeEntries \cup EdgeEntries \cup BatchEntries

EndsOf(v) == [source |-> v.source, target |-> v.target]

\* Mutant of NodeEntry: every update is journaled as a content edit.
NodeEntry_ContentOnly(d, n, v) ==
  IF ~Stored(d, n)
    THEN [kind |-> "node-add", id |-> n, node |-> v]
    ELSE [kind |-> "content", id |-> n, before |-> d.nodes[n].props, after |-> v.props]

\* putNodeSync: an update that leaves the type alone is a `content' entry,
\* which keeps only content, children and props.
NodeEntry(d, n, v) ==
  IF ~Stored(d, n)
    THEN [kind |-> "node-add", id |-> n, node |-> v]
  ELSE IF d.nodes[n].type # v.type
    THEN [kind |-> "node-update", id |-> n, before |-> d.nodes[n], after |-> v]
  ELSE [kind |-> "content", id |-> n, before |-> d.nodes[n].props, after |-> v.props]

\* putEdgeSync: a change of the role alone, or of the endpoints alone, is
\* journaled by that field; edgeType and state are not compared.
EdgeEntry(d, e, v) ==
  LET old        == d.edges[e]
      roleChange == old.role # v.role
      retargeted == EndsOf(old) # EndsOf(v)
  IN IF old = None
       THEN [kind |-> "edge-add", id |-> e, edge |-> v]
     ELSE IF roleChange /\ ~retargeted
       THEN [kind |-> "role-change", id |-> e, before |-> old.role, after |-> v.role]
     ELSE IF retargeted /\ ~roleChange
       THEN [kind |-> "edge-retarget", id |-> e, before |-> EndsOf(old), after |-> EndsOf(v)]
     ELSE [kind |-> "edge-update", id |-> e, before |-> old, after |-> v]

\* One pushJournal per entry of es: the redo tail is discarded, and the oldest
\* entries beyond MaxJournal are dropped with the cursor moved along.
Pushed(j, c, es) ==
  LET full   == SubSeq(j, 1, c) \o es
      excess == IF Len(full) > MaxJournal THEN Len(full) - MaxJournal ELSE 0
  IN [journal |-> SubSeq(full, excess + 1, Len(full)), cursor |-> Len(full) - excess]

-----------------------------------------------------------------------------
(* Undo and redo of one entry that is not a batch.                         *)

\* The record the entry edits is missing: applyInverse / applyForward return
\* false and nothing moves.
Applicable(d, entry) ==
  /\ entry.kind \in {"content", "node-update"} => Stored(d, entry.id)
  /\ entry.kind \in {"edge-retarget", "edge-update", "role-change"} => d.edges[entry.id] # None

\* The in-place edits of an existing record: back to `before', or on to `after'.
Edited(d, entry, to) ==
  CASE entry.kind = "content"       -> EditNode(d, entry.id, [d.nodes[entry.id] EXCEPT !.props = to])
    [] entry.kind = "node-update"   -> EditNode(d, entry.id, to)
    [] entry.kind = "edge-update"   -> EditEdge(d, entry.id, to)
    [] entry.kind = "role-change"   -> EditEdge(d, entry.id, [d.edges[entry.id] EXCEPT !.role = to])
    [] entry.kind = "edge-retarget" ->
         EditEdge(d, entry.id, [d.edges[entry.id] EXCEPT !.source = to.source, !.target = to.target])

ApplyInverse(d, entry) ==
  CASE entry.kind = "node-add"    -> DropNode(d, entry.id)
    [] entry.kind = "node-delete" -> SetNode(d, entry.id, entry.node)
    [] entry.kind = "edge-add"    -> DropEdges(d, {entry.id})
    [] entry.kind = "edge-remove" -> SetEdge(d, entry.id, entry.edge)
    [] OTHER                      -> Edited(d, entry, entry.before)

ApplyForward(d, entry) ==
  CASE entry.kind = "node-add"    -> SetNode(d, entry.id, entry.node)
    [] entry.kind = "node-delete" -> DropNode(d, entry.id)
    [] entry.kind = "edge-add"    -> SetEdge(d, entry.id, entry.edge)
    [] entry.kind = "edge-remove" -> DropEdges(d, {entry.id})
    [] OTHER                      -> Edited(d, entry, entry.after)

-----------------------------------------------------------------------------
(* One operation of a batch.                                               *)

OpRejected(d, op) ==
  \/ op.op = "putEdge" /\ ~EndpointsActive(d, op.edge)
  \/ op.op \in {"setProps", "setType"} /\ ~Stored(d, op.id)

\* setProps merges into the props of the record, also when it is replayed.
OpResult(d, op) ==
  CASE op.op = "putNode"    -> SetNode(d, op.id, op.node)
    [] op.op = "removeNode" -> IF Stored(d, op.id) THEN DropNode(d, op.id) ELSE d
    [] op.op = "putEdge"    -> SetEdge(d, op.id, op.edge)
    [] op.op = "removeEdge" -> DropEdges(d, {op.id})
    [] op.op = "setProps"   -> SetNode(d, op.id, [d.nodes[op.id] EXCEPT !.props = @ \cup op.props])
    [] op.op = "setType"    -> SetNode(d, op.id, [d.nodes[op.id] EXCEPT !.type = op.type])

PutNodeOp(d, n) == [op |-> "putNode", id |-> n, node |-> d.nodes[n]]
PutEdgeOp(d, e) == [op |-> "putEdge", id |-> e, edge |-> d.edges[e]]

\* The operations that take the result back, for a removal with the cascaded
\* edges in the given order.
OpInverse(d, op, order) ==
  CASE op.op = "putNode" /\ ~Stored(d, op.id)     -> <<[op |-> "removeNode", id |-> op.id]>>
    [] op.op = "removeNode" /\ ~Stored(d, op.id)  -> <<>>
    [] op.op = "removeNode" /\ Stored(d, op.id)   ->
         <<PutNodeOp(d, op.id)>> \o [i \in DOMAIN order |-> PutEdgeOp(d, order[i])]
    [] op.op = "putEdge" /\ d.edges[op.id] = None -> <<[op |-> "removeEdge", id |-> op.id]>>
    [] op.op = "removeEdge" /\ d.edges[op.id] = None -> <<>>
    [] op.op \in {"putEdge", "removeEdge"} /\ d.edges[op.id] # None -> <<PutEdgeOp(d, op.id)>>
    [] OTHER                                      -> <<PutNodeOp(d, op.id)>>

OpOrders(d, op) == IF op.op = "removeNode" THEN Orders(Touching(d, op.id)) ELSE {<<>>}

-----------------------------------------------------------------------------
(* The file.                                                               *)

Image(d, j, c) ==
  [nodes |-> d.nodes, edges |-> d.edges, badNodes |-> d.badNodes, badEdges |-> d.badEdges,
   journal |-> j, cursor |-> c]

\* Loading re-verifies every hash, and quarantines an edge whose endpoint is
\* missing or quarantined.
Load(f) ==
  LET loose(e) == \E n \in {f.edges[e].source, f.edges[e].target} : f.nodes[n] = None \/ n \in f.badNodes
  IN [nodes |-> f.nodes, edges |-> f.edges, badNodes |-> f.badNodes, badEdges |-> f.badEdges,
      qNodes |-> f.badNodes,
      qEdges |-> f.badEdges \cup {e \in EdgeIds : f.edges[e] # None /\ loose(e)}]

\* tmp write + rename; a failure is swallowed and the old file stays.
Persist(d, j, c) ==
  \/ disk' = Image(d, j, c)
  \/ PersistMayFail /\ disk' = disk

NotBuilt == [built |-> FALSE]
Built(d) == [built |-> TRUE, edges |-> View(d).edges]
Idle     == [kind |-> "idle"]

-----------------------------------------------------------------------------
(* Handlers.                                                               *)

\* The common tail of a mutation: journal the entries, write the file.
Commit(d, entries) ==
  LET p == Pushed(journal, cursor, entries)
  IN /\ db' = d
     /\ journal' = p.journal
     /\ cursor' = p.cursor
     /\ Persist(d, p.journal, p.cursor)

PutNode(n, v) ==
  /\ task = Idle
  /\ Commit(SetNode(db, n, v), <<NodeEntry(db, n, v)>>)
  /\ UNCHANGED <<adj, task>>

\* The cascaded edges are journaled first, the node last: undo puts the node
\* back before its edges.
RemoveNode(n, order) ==
  /\ task = Idle
  /\ Stored(db, n)
  /\ Commit(DropNode(db, n),
            [i \in DOMAIN order |-> [kind |-> "edge-remove", id |-> order[i], edge |-> db.edges[order[i]]]]
            \o <<[kind |-> "node-delete", id |-> n, node |-> db.nodes[n]]>>)
  /\ adj' = NotBuilt
  /\ UNCHANGED task

\* The index is invalidated before the endpoints are checked.
PutEdge(e, v) ==
  /\ task = Idle
  /\ adj' = NotBuilt
  /\ IF EndpointsActive(db, v)
       THEN Commit(SetEdge(db, e, v), <<EdgeEntry(db, e, v)>>)
       ELSE UNCHANGED <<db, journal, cursor, disk>>
  /\ UNCHANGED task

RemoveEdge(e) ==
  /\ task = Idle
  /\ db.edges[e] # None
  /\ Commit(DropEdges(db, {e}), <<[kind |-> "edge-remove", id |-> e, edge |-> db.edges[e]]>>)
  /\ adj' = NotBuilt
  /\ UNCHANGED task

\* applyBatchSync with a non-empty list: snapshot, then the loop.
BatchBegin ==
  /\ task = Idle
  /\ task' = [kind |-> "batch", snapshot |-> db, ops |-> <<>>, inverse |-> <<>>]
  /\ UNCHANGED <<db, journal, cursor, adj, disk>>

BatchOp(op) ==
  /\ task.kind = "batch"
  /\ Len(task.ops) < MaxBatch
  /\ ~OpRejected(db, op)
  /\ db' = OpResult(db, op)
  /\ \E order \in OpOrders(db, op) :
       task' = [task EXCEPT !.ops = Append(@, op), !.inverse = OpInverse(db, op, order) \o @]
  /\ UNCHANGED <<journal, cursor, adj, disk>>

\* Mutant of BatchFail: what was applied so far stays.
BatchFail_NoRollback ==
  /\ task.kind = "batch"
  /\ task' = Idle
  /\ UNCHANGED <<db, journal, cursor, adj, disk>>

\* A rejected operation, or one that is malformed or throws.
BatchFail ==
  /\ task.kind = "batch"
  /\ db' = task.snapshot
  /\ task' = Idle
  /\ UNCHANGED <<journal, cursor, adj, disk>>

\* Mutant of BatchCommit: the adjacency index is not invalidated.
BatchCommit_IndexKept ==
  /\ task.kind = "batch"
  /\ task.ops # <<>>
  /\ Commit(db, <<[kind |-> "batch", ops |-> task.ops, inverse |-> task.inverse]>>)
  /\ task' = Idle
  /\ UNCHANGED adj

BatchCommit ==
  /\ task.kind = "batch"
  /\ task.ops # <<>>
  /\ Commit(db, <<[kind |-> "batch", ops |-> task.ops, inverse |-> task.inverse]>>)
  /\ adj' = NotBuilt
  /\ task' = Idle

\* Mutants of MoveCursor: the file is written with the old cursor; not at all.
MoveCursor_OldCursorSaved(d, c) ==
  /\ db' = d
  /\ cursor' = c
  /\ Persist(d, journal, cursor)
  /\ adj' = NotBuilt
  /\ task' = Idle
  /\ UNCHANGED journal
\* The tail of undo / redo once the entry is applied.
MoveCursor(d, c) ==
  /\ db' = d
  /\ cursor' = c
  /\ Persist(d, journal, c)
  /\ adj' = NotBuilt
  /\ task' = Idle
  /\ UNCHANGED journal

Undo ==
  /\ task = Idle
  /\ cursor > 0
  /\ LET entry == journal[cursor]
     IN /\ entry.kind # "batch"
        /\ Applicable(db, entry)
        /\ MoveCursor(ApplyInverse(db, entry), cursor - 1)

Redo ==
  /\ task = Idle
  /\ cursor < Len(journal)
  /\ LET entry == journal[cursor + 1]
     IN /\ entry.kind # "batch"
        /\ Applicable(db, entry)
        /\ MoveCursor(ApplyForward(db, entry), cursor + 1)

ReplayBegin(entry, ops, to) ==
  /\ entry.kind = "batch"
  /\ task' = [kind |-> "replay", ops |-> ops, to |-> to]
  /\ UNCHANGED <<db, journal, cursor, adj, disk>>

UndoBatch ==
  /\ task = Idle
  /\ cursor > 0
  /\ ReplayBegin(journal[cursor], journal[cursor].inverse, cursor - 1)

RedoBatch ==
  /\ task = Idle
  /\ cursor < Len(journal)
  /\ ReplayBegin(journal[cursor + 1], journal[cursor + 1].ops, cursor + 1)

ReplayOp ==
  /\ task.kind = "replay"
  /\ task.ops # <<>>
  /\ ~OpRejected(db, Head(task.ops))
  /\ db' = OpResult(db, Head(task.ops))
  /\ task' = [task EXCEPT !.ops = Tail(@)]
  /\ UNCHANGED <<journal, cursor, adj, disk>>

\* Desync: undo / redo return null; what was replayed so far stays in memory.
ReplayFail ==
  /\ task.kind = "replay"
  /\ task.ops # <<>>
  /\ OpRejected(db, Head(task.ops))
  /\ task' = Idle
  /\ UNCHANGED <<db, journal, cursor, adj, disk>>

ReplayEnd ==
  /\ task.kind = "replay"
  /\ task.ops = <<>>
  /\ MoveCursor(db, task.to)

\* edgesFrom, edgesTo, edgesByKind, ...: the index is rebuilt when it is dirty.
QueryEdges ==
  /\ task = Idle
  /\ adj = NotBuilt
  /\ adj' = Built(db)
  /\ UNCHANGED <<db, journal, cursor, task, disk>>

\* The process dies, at any point, and the store is opened again.
Reopen ==
  /\ db' = Load(disk)
  /\ journal' = disk.journal
  /\ cursor' = disk.cursor
  /\ adj' = NotBuilt
  /\ task' = Idle
  /\ UNCHANGED disk

-----------------------------------------------------------------------------

InitWith(f) ==
  /\ disk = f
  /\ db = Load(f)
  /\ journal = f.journal
  /\ cursor = f.cursor
  /\ adj = NotBuilt
  /\ task = Idle

Init == InitWith(Image(EmptyDb, <<>>, 0))

BatchStep ==
  \/ \E n \in NodeIds, v \in NodeVals : BatchOp([op |-> "putNode", id |-> n, node |-> v])
  \/ \E n \in NodeIds : BatchOp([op |-> "removeNode", id |-> n])
  \/ \E e \in EdgeIds, v \in EdgeVals : BatchOp([op |-> "putEdge", id |-> e, edge |-> v])
  \/ \E e \in EdgeIds : BatchOp([op |-> "removeEdge", id |-> e])
  \/ \E n \in NodeIds, p \in SUBSET PropKeys : BatchOp([op |-> "setProps", id |-> n, props |-> p])
  \/ \E n \in NodeIds, t \in Types : BatchOp([op |-> "setType", id |-> n, type |-> t])

BatchNext ==
  \/ BatchBegin
  \/ BatchStep
  \/ BatchFail
  \/ BatchCommit

ReplayNext == UndoBatch \/ RedoBatch \/ ReplayOp \/ ReplayFail \/ ReplayEnd

Next ==
  \/ \E n \in NodeIds, v \in NodeVals : PutNode(n, v)
  \/ \E n \in NodeIds : \E order \in Orders(Touching(db, n)) : RemoveNode(n, order)
  \/ \E e \in EdgeIds, v \in EdgeVals : PutEdge(e, v)
  \/ \E e \in EdgeIds : RemoveEdge(e)
  \/ Undo
  \/ Redo
  \/ BatchNext
  \/ ReplayNext
  \/ QueryEdges
  \/ Reopen

Spec == Init /\ [][Next]_vars

-----------------------------------------------------------------------------
(* Properties.                                                             *)

TaskType ==
       {Idle}
  \cup [kind : {"batch"}, snapshot : DbType, ops : Seq(BatchOps), inverse : Seq(BatchOps)]
  \cup [kind : {"replay"}, ops : Seq(BatchOps), to : Nat]

FileType ==
  [nodes : [NodeIds -> NodeVals \cup {None}], edges : [EdgeIds -> EdgeVals \cup {None}],
   badNodes : SUBSET NodeIds, badEdges : SUBSET EdgeIds,
   journal : {j \in Seq(JournalEntries) : Len(j) <= MaxJournal}, cursor : Nat]

\* Every variable has its type; the cursor lies within a journal no longer
\* than the limit pushJournal trims to.
TypeOK ==
  /\ db \in DbType
  /\ journal \in Seq(JournalEntries)
  /\ Len(journal) <= MaxJournal
  /\ cursor \in 0..Len(journal)
  /\ adj \in {NotBuilt} \cup [built : {TRUE}, edges : [EdgeIds -> EdgeVals \cup {None}]]
  /\ task \in TaskType
  /\ disk \in FileType
  /\ disk.cursor <= Len(disk.journal)

\* An edge the store reports as active has two active endpoints: removals
\* cascade, and no undo or redo brings an edge back before its nodes.
ActiveEdgesAnchored ==
  \A e \in EdgeIds : task = Idle /\ ActiveEdge(db, e) => EndpointsActive(db, db.edges[e])

\* An adjacency query answers from the edges of now, after any mix of
\* mutations, failed batches, undos and reopens since the index was built.
AdjacencyFresh ==
  task = Idle /\ adj # NotBuilt => adj = Built(db)

=============================================================================
