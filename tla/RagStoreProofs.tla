--------------------------- MODULE RagStoreProofs ---------------------------
(***************************************************************************)
(* RagStore, for every value of its constants: its types, and that its     *)
(* journal of inverse operations implements UndoHistory.                   *)
(*                                                                         *)
(* The second rests on HistoryInv: the journal connects the contents of    *)
(* the timeline one after the other, each entry leading forward to the     *)
(* next when it is redone and back when it is undone, in memory and in the *)
(* file; and a loop over operations knows both the way it came and the way *)
(* it has to go.                                                           *)
(***************************************************************************)
EXTENDS RagStoreHistory, SequenceTheorems, FiniteSetTheorems, TLAPS

-----------------------------------------------------------------------------
(* The primitive writes keep the two maps well typed. *)

LEMMA SetNodeType ==
  ASSUME NEW d \in DbType, NEW n \in NodeIds, NEW v \in NodeVals
  PROVE  SetNode(d, n, v) \in DbType
BY DEF SetNode, DbType

LEMMA SetEdgeType ==
  ASSUME NEW d \in DbType, NEW e \in EdgeIds, NEW v \in EdgeVals
  PROVE  SetEdge(d, e, v) \in DbType
BY DEF SetEdge, DbType

LEMMA DropEdgesType ==
  ASSUME NEW d \in DbType, NEW E
  PROVE  DropEdges(d, E) \in DbType
BY DEF DropEdges, DbType

LEMMA DropNodeType ==
  ASSUME NEW d \in DbType, NEW n \in NodeIds
  PROVE  DropNode(d, n) \in DbType
<1> DEFINE c == DropEdges(d, Touching(d, n))
<1>1. c \in DbType
  BY DropEdgesType
<1>2. [c EXCEPT !.nodes[n] = None, !.qNodes = @ \ {n}, !.badNodes = @ \ {n}] \in DbType
  BY <1>1 DEF DbType
<1> QED
  BY <1>2 DEF DropNode

LEMMA EditNodeType ==
  ASSUME NEW d \in DbType, NEW n \in NodeIds, NEW v \in NodeVals
  PROVE  EditNode(d, n, v) \in DbType
BY DEF EditNode, DbType

LEMMA EditEdgeType ==
  ASSUME NEW d \in DbType, NEW e \in EdgeIds, NEW v \in EdgeVals
  PROVE  EditEdge(d, e, v) \in DbType
BY DEF EditEdge, DbType

LEMMA StoredType ==
  ASSUME NEW d \in DbType
  PROVE  /\ \A n \in NodeIds : Stored(d, n) => d.nodes[n] \in NodeVals
         /\ \A e \in EdgeIds : d.edges[e] # None => d.edges[e] \in EdgeVals
BY DEF Stored, DbType

-----------------------------------------------------------------------------
(* What pushJournal returns: a journal within the limit, the cursor at its end. *)
LEMMA PushedType ==
  ASSUME NEW S, NEW j \in Seq(S), NEW c \in 0..Len(j), NEW es \in Seq(S)
  PROVE  /\ Pushed(j, c, es).journal \in Seq(S)
         /\ Len(Pushed(j, c, es).journal) <= MaxJournal
         /\ Pushed(j, c, es).cursor = Len(Pushed(j, c, es).journal)
         /\ Pushed(j, c, es).cursor \in Nat
<1> DEFINE full   == SubSeq(j, 1, c) \o es
           excess == IF Len(full) > MaxJournal THEN Len(full) - MaxJournal ELSE 0
<1>1. full \in Seq(S)
  BY SubSeqProperties, ConcatProperties
<1>2. Len(full) \in Nat /\ excess \in 0..Len(full)
  BY <1>1, LenProperties, MaxJournalAssumption
<1>3. SubSeq(full, excess + 1, Len(full)) \in Seq(S)
  BY <1>1, <1>2, SubSeqProperties
<1>4. Len(SubSeq(full, excess + 1, Len(full))) = Len(full) - excess
  BY <1>1, <1>2, SubSeqProperties
<1>5. Len(full) - excess <= MaxJournal
  BY <1>2, MaxJournalAssumption
<1> QED
  BY <1>2, <1>3, <1>4, <1>5 DEF Pushed

-----------------------------------------------------------------------------
(* Journal entries carry what undo and redo put back. *)

\* An entry, kind by kind.
LEMMA EntryType ==
  ASSUME NEW x \in JournalEntries
  PROVE  /\ x.kind \in {"node-add", "node-delete"} => x.id \in NodeIds /\ x.node \in NodeVals
         /\ x.kind = "node-update" => x.id \in NodeIds /\ x.before \in NodeVals /\ x.after \in NodeVals
         /\ x.kind = "content" =>
              x.id \in NodeIds /\ x.before \in SUBSET PropKeys /\ x.after \in SUBSET PropKeys
         /\ x.kind \in {"edge-add", "edge-remove"} => x.id \in EdgeIds /\ x.edge \in EdgeVals
         /\ x.kind = "edge-retarget" => x.id \in EdgeIds /\ x.before \in Ends /\ x.after \in Ends
         /\ x.kind = "role-change" => x.id \in EdgeIds /\ x.before \in Roles /\ x.after \in Roles
         /\ x.kind = "edge-update" => x.id \in EdgeIds /\ x.before \in EdgeVals /\ x.after \in EdgeVals
         /\ x.kind = "batch" => x.ops \in Seq(BatchOps) /\ x.inverse \in Seq(BatchOps)
         /\ x.kind \in {"node-add", "node-delete", "node-update", "content", "edge-add", "edge-remove",
                       "edge-retarget", "role-change", "edge-update", "batch"}
<1>1. CASE x \in NodeEntries
  BY <1>1 DEF NodeEntries
<1>2. CASE x \in EdgeEntries
  BY <1>2 DEF EdgeEntries
<1>3. CASE x \in BatchEntries
  BY <1>3 DEF BatchEntries
<1> QED
  BY <1>1, <1>2, <1>3 DEF JournalEntries

LEMMA NodeEntryType ==
  ASSUME NEW d \in DbType, NEW n \in NodeIds, NEW v \in NodeVals
  PROVE  NodeEntry(d, n, v) \in JournalEntries
<1>1. Stored(d, n) => d.nodes[n] \in NodeVals
  BY StoredType
<1> QED
  BY <1>1 DEF NodeEntry, JournalEntries, NodeEntries, NodeVals

LEMMA EdgeEntryType ==
  ASSUME NEW d \in DbType, NEW e \in EdgeIds, NEW v \in EdgeVals
  PROVE  EdgeEntry(d, e, v) \in JournalEntries
<1>1. d.edges[e] # None => d.edges[e] \in EdgeVals
  BY StoredType
<1>2. d.edges[e] # None => EndsOf(d.edges[e]) \in Ends
  BY <1>1 DEF EndsOf, Ends, EdgeVals
<1>3. EndsOf(v) \in Ends
  BY DEF EndsOf, Ends, EdgeVals
<1>4. v.role \in Roles /\ (d.edges[e] # None => d.edges[e].role \in Roles)
  BY <1>1 DEF EdgeVals
<1>5. EdgeEntry(d, e, v) \in EdgeEntries
  BY <1>1, <1>2, <1>3, <1>4 DEF EdgeEntry, EdgeEntries
<1> QED
  BY <1>5 DEF JournalEntries

LEMMA EditedType ==
  ASSUME NEW d \in DbType, NEW x \in JournalEntries, Applicable(d, x),
         NEW to,
         x.kind = "content" => to \in SUBSET PropKeys,
         x.kind = "node-update" => to \in NodeVals,
         x.kind = "edge-update" => to \in EdgeVals,
         x.kind = "role-change" => to \in Roles,
         x.kind = "edge-retarget" => to \in Ends,
         x.kind \in {"content", "node-update", "edge-update", "role-change", "edge-retarget"}
  PROVE  Edited(d, x, to) \in DbType
<1>1. CASE x.kind = "content"
  <2>1. x.id \in NodeIds /\ d.nodes[x.id] \in NodeVals
    BY <1>1, EntryType, StoredType DEF Applicable
  <2>2. [d.nodes[x.id] EXCEPT !.props = to] \in NodeVals
    BY <1>1, <2>1 DEF NodeVals
  <2> QED
    BY <1>1, <2>1, <2>2, EditNodeType DEF Edited
<1>2. CASE x.kind = "node-update"
  BY <1>2, EntryType, EditNodeType DEF Edited
<1>3. CASE x.kind = "edge-update"
  BY <1>3, EntryType, EditEdgeType DEF Edited
<1>4. CASE x.kind = "role-change"
  <2>1. x.id \in EdgeIds /\ d.edges[x.id] \in EdgeVals
    BY <1>4, EntryType, StoredType DEF Applicable
  <2>2. [d.edges[x.id] EXCEPT !.role = to] \in EdgeVals
    BY <1>4, <2>1 DEF EdgeVals
  <2> QED
    BY <1>4, <2>1, <2>2, EditEdgeType DEF Edited
<1>5. CASE x.kind = "edge-retarget"
  <2>1. x.id \in EdgeIds /\ d.edges[x.id] \in EdgeVals
    BY <1>5, EntryType, StoredType DEF Applicable
  <2>2. [d.edges[x.id] EXCEPT !.source = to.source, !.target = to.target] \in EdgeVals
    BY <1>5, <2>1 DEF EdgeVals, Ends
  <2> QED
    BY <1>5, <2>1, <2>2, EditEdgeType DEF Edited
<1> QED
  BY <1>1, <1>2, <1>3, <1>4, <1>5

LEMMA ApplyType ==
  ASSUME NEW d \in DbType, NEW x \in JournalEntries, x.kind # "batch", Applicable(d, x)
  PROVE  ApplyInverse(d, x) \in DbType /\ ApplyForward(d, x) \in DbType
<1>1. CASE x.kind \in {"node-add", "node-delete"}
  BY <1>1, EntryType, DropNodeType, SetNodeType DEF ApplyInverse, ApplyForward
<1>2. CASE x.kind \in {"edge-add", "edge-remove"}
  BY <1>2, EntryType, DropEdgesType, SetEdgeType DEF ApplyInverse, ApplyForward
<1>3. CASE x.kind \in {"content", "node-update", "edge-update", "role-change", "edge-retarget"}
  <2>1. Edited(d, x, x.before) \in DbType
    BY <1>3, EntryType, EditedType
  <2>2. Edited(d, x, x.after) \in DbType
    BY <1>3, EntryType, EditedType
  <2> QED
    BY <1>3, <2>1, <2>2 DEF ApplyInverse, ApplyForward
<1> QED
  BY <1>1, <1>2, <1>3, EntryType

-----------------------------------------------------------------------------
(* The operations of a batch. *)

LEMMA BatchOpType ==
  ASSUME NEW x \in BatchOps
  PROVE  /\ x.op = "putNode" => x.id \in NodeIds /\ x.node \in NodeVals
         /\ x.op = "removeNode" => x.id \in NodeIds
         /\ x.op = "putEdge" => x.id \in EdgeIds /\ x.edge \in EdgeVals
         /\ x.op = "removeEdge" => x.id \in EdgeIds
         /\ x.op = "setProps" => x.id \in NodeIds /\ x.props \in SUBSET PropKeys
         /\ x.op = "setType" => x.id \in NodeIds /\ x.type \in Types
         /\ x.op \in {"putNode", "removeNode", "putEdge", "removeEdge", "setProps", "setType"}
BY DEF BatchOps

LEMMA OpResultType ==
  ASSUME NEW d \in DbType, NEW x \in BatchOps, ~OpRejected(d, x)
  PROVE  OpResult(d, x) \in DbType
<1>1. CASE x.op = "putNode"
  BY <1>1, BatchOpType, SetNodeType DEF OpResult
<1>2. CASE x.op = "removeNode"
  BY <1>2, BatchOpType, DropNodeType DEF OpResult
<1>3. CASE x.op = "putEdge"
  BY <1>3, BatchOpType, SetEdgeType DEF OpResult
<1>4. CASE x.op = "removeEdge"
  BY <1>4, BatchOpType, DropEdgesType DEF OpResult
<1>5. CASE x.op = "setProps"
  <2>1. x.id \in NodeIds /\ d.nodes[x.id] \in NodeVals
    BY <1>5, BatchOpType, StoredType DEF OpRejected
  <2>2. [d.nodes[x.id] EXCEPT !.props = @ \cup x.props] \in NodeVals
    BY <1>5, <2>1, BatchOpType DEF NodeVals
  <2> QED
    BY <1>5, <2>1, <2>2, SetNodeType DEF OpResult
<1>6. CASE x.op = "setType"
  <2>1. x.id \in NodeIds /\ d.nodes[x.id] \in NodeVals
    BY <1>6, BatchOpType, StoredType DEF OpRejected
  <2>2. [d.nodes[x.id] EXCEPT !.type = x.type] \in NodeVals
    BY <1>6, <2>1, BatchOpType DEF NodeVals
  <2> QED
    BY <1>6, <2>1, <2>2, SetNodeType DEF OpResult
<1> QED
  BY <1>1, <1>2, <1>3, <1>4, <1>5, <1>6, BatchOpType

LEMMA FunctionIsSeq ==
  ASSUME NEW S, NEW n \in Nat, NEW f \in [1..n -> S]
  PROVE  f \in Seq(S)
OBVIOUS

\* An order of the edges that touch a node is a sequence of stored edges.
LEMMA OrdersType ==
  ASSUME NEW d \in DbType, NEW n \in NodeIds, NEW order \in Orders(Touching(d, n))
  PROVE  /\ order \in Seq(EdgeIds)
         /\ \A i \in DOMAIN order : order[i] \in EdgeIds /\ d.edges[order[i]] \in EdgeVals
<1> DEFINE S == Touching(d, n)
<1>1. IsFiniteSet(S)
  BY FiniteIdsAssumption, FS_Subset DEF Touching
<1>2. Cardinality(S) \in Nat
  BY <1>1, FS_CardinalityType
<1>3. order \in [1..Cardinality(S) -> S]
  BY DEF Orders
<1>4. \A e \in S : e \in EdgeIds /\ d.edges[e] \in EdgeVals
  BY StoredType DEF Touching
<1>5. order \in Seq(EdgeIds)
  BY <1>2, <1>3, <1>4, FunctionIsSeq
<1> QED
  BY <1>3, <1>4, <1>5

LEMMA OpInverseType ==
  ASSUME NEW d \in DbType, NEW x \in BatchOps, ~OpRejected(d, x), NEW order \in OpOrders(d, x)
  PROVE  OpInverse(d, x, order) \in Seq(BatchOps)
<1>1. \A n \in NodeIds : Stored(d, n) => PutNodeOp(d, n) \in BatchOps
  BY StoredType DEF PutNodeOp, BatchOps
<1>2. \A e \in EdgeIds : d.edges[e] # None => PutEdgeOp(d, e) \in BatchOps
  BY StoredType DEF PutEdgeOp, BatchOps
<1>3. CASE x.op \in {"putNode", "setProps", "setType"}
  <2>1. x.id \in NodeIds
    BY <1>3, BatchOpType
  <2>2. [op |-> "removeNode", id |-> x.id] \in BatchOps
    BY <2>1 DEF BatchOps
  <2>3. CASE x.op = "putNode" /\ ~Stored(d, x.id)
    <3>1. OpInverse(d, x, order) = <<[op |-> "removeNode", id |-> x.id]>>
      BY <2>3 DEF OpInverse
    <3> QED
      BY <3>1, <2>2
  <2>4. CASE Stored(d, x.id)
    <3>1. OpInverse(d, x, order) = <<PutNodeOp(d, x.id)>>
      BY <1>3, <2>4 DEF OpInverse
    <3> QED
      BY <3>1, <2>1, <2>4, <1>1
  <2> QED
    BY <1>3, <2>3, <2>4 DEF OpRejected
<1>4. CASE x.op = "removeNode"
  <2>1. x.id \in NodeIds
    BY <1>4, BatchOpType
  <2>2. CASE ~Stored(d, x.id)
    <3>1. OpInverse(d, x, order) = <<>>
      BY <1>4, <2>2 DEF OpInverse
    <3> QED
      BY <3>1
  <2>3. CASE Stored(d, x.id)
    <3>1. /\ order \in Seq(EdgeIds)
          /\ \A i \in DOMAIN order : order[i] \in EdgeIds /\ d.edges[order[i]] \in EdgeVals
      BY <1>4, <2>1, OrdersType DEF OpOrders
    <3>2. \A i \in DOMAIN order : PutEdgeOp(d, order[i]) \in BatchOps
      BY <3>1 DEF PutEdgeOp, BatchOps
    <3>3. Len(order) \in Nat /\ DOMAIN order = 1..Len(order)
      BY <3>1, LenProperties
    <3>4. [i \in DOMAIN order |-> PutEdgeOp(d, order[i])] \in Seq(BatchOps)
      BY <3>2, <3>3, FunctionIsSeq
    <3>5. <<PutNodeOp(d, x.id)>> \in Seq(BatchOps)
      BY <2>1, <2>3, <1>1
    <3>6. OpInverse(d, x, order) = <<PutNodeOp(d, x.id)>> \o [i \in DOMAIN order |-> PutEdgeOp(d, order[i])]
      BY <1>4, <2>3 DEF OpInverse
    <3> QED
      BY <3>4, <3>5, <3>6, ConcatProperties
  <2> QED
    BY <2>2, <2>3
<1>5. CASE x.op \in {"putEdge", "removeEdge"}
  <2>1. x.id \in EdgeIds
    BY <1>5, BatchOpType
  <2>2. [op |-> "removeEdge", id |-> x.id] \in BatchOps
    BY <2>1 DEF BatchOps
  <2>3. CASE x.op = "putEdge" /\ d.edges[x.id] = None
    <3>1. OpInverse(d, x, order) = <<[op |-> "removeEdge", id |-> x.id]>>
      BY <2>3 DEF OpInverse
    <3> QED
      BY <3>1, <2>2
  <2>4. CASE x.op = "removeEdge" /\ d.edges[x.id] = None
    <3>1. OpInverse(d, x, order) = <<>>
      BY <2>4 DEF OpInverse
    <3> QED
      BY <3>1
  <2>5. CASE d.edges[x.id] # None
    <3>1. OpInverse(d, x, order) = <<PutEdgeOp(d, x.id)>>
      BY <1>5, <2>5 DEF OpInverse
    <3> QED
      BY <3>1, <2>1, <2>5, <1>2
  <2> QED
    BY <1>5, <2>3, <2>4, <2>5
<1> QED
  BY <1>3, <1>4, <1>5, BatchOpType

-----------------------------------------------------------------------------
(* The file. *)

LEMMA ImageType ==
  ASSUME NEW d \in DbType, NEW j \in Seq(JournalEntries), Len(j) <= MaxJournal,
         NEW c \in Nat, c <= Len(j)
  PROVE  /\ Image(d, j, c) \in FileType
         /\ Image(d, j, c).cursor <= Len(Image(d, j, c).journal)
BY DEF Image, FileType, DbType

LEMMA LoadType ==
  ASSUME NEW f \in FileType
  PROVE  Load(f) \in DbType
BY DEF Load, FileType, DbType

LEMMA EmptyDbType == EmptyDb \in DbType
BY DEF EmptyDb, DbType

LEMMA ViewType ==
  ASSUME NEW d \in DbType
  PROVE  View(d).edges \in [EdgeIds -> EdgeVals \cup {None}]
BY DEF View, DbType, ActiveEdge

-----------------------------------------------------------------------------
(* The tails shared by the handlers. *)

\* The part of TypeOK a handler's tail establishes.
Typed(d, j, c, f) ==
  /\ d \in DbType
  /\ j \in Seq(JournalEntries)
  /\ Len(j) <= MaxJournal
  /\ c \in 0..Len(j)
  /\ f \in FileType
  /\ f.cursor <= Len(f.journal)

LEMMA CommitType ==
  ASSUME TypeOK, NEW d \in DbType, NEW es \in Seq(JournalEntries), Commit(d, es)
  PROVE  Typed(db', journal', cursor', disk')
<1> DEFINE p == Pushed(journal, cursor, es)
<1>1. /\ p.journal \in Seq(JournalEntries)
      /\ Len(p.journal) <= MaxJournal
      /\ p.cursor = Len(p.journal)
      /\ p.cursor \in Nat
  BY PushedType DEF TypeOK
<1>2. db' = d /\ journal' = p.journal /\ cursor' = p.cursor
  BY DEF Commit
<1>3. disk' = Image(d, p.journal, p.cursor) \/ disk' = disk
  BY DEF Commit, Persist
<1>4. disk' \in FileType /\ disk'.cursor <= Len(disk'.journal)
  BY <1>1, <1>3, ImageType DEF TypeOK
<1> QED
  BY <1>1, <1>2, <1>4 DEF Typed

LEMMA MoveCursorType ==
  ASSUME TypeOK, NEW d \in DbType, NEW c \in 0..Len(journal), MoveCursor(d, c)
  PROVE  TypeOK'
<1>1. db' = d /\ cursor' = c /\ adj' = NotBuilt /\ task' = Idle /\ journal' = journal
  BY DEF MoveCursor
<1>2. disk' = Image(d, journal, c) \/ disk' = disk
  BY DEF MoveCursor, Persist
<1>3. disk' \in FileType /\ disk'.cursor <= Len(disk'.journal)
  BY <1>2, ImageType DEF TypeOK
<1> QED
  BY <1>1, <1>3 DEF TypeOK, TaskType

-----------------------------------------------------------------------------
(* The invariant.  TypeOK alone does not say where a replay will leave the   *)
(* cursor, so the induction carries that too.                                *)

TypeInv ==
  /\ TypeOK
  /\ task.kind = "replay" => task.to \in 0..Len(journal)

LEMMA TaskCases ==
  ASSUME TypeOK
  PROVE  /\ task.kind = "batch" => /\ task.snapshot \in DbType
                                  /\ task.ops \in Seq(BatchOps)
                                  /\ task.inverse \in Seq(BatchOps)
         /\ task.kind = "replay" => task.ops \in Seq(BatchOps) /\ task.to \in Nat
         /\ task.kind = "idle" => task = Idle
BY DEF TypeOK, TaskType, Idle

LEMMA InitTypeInv == Init => TypeInv
<1> SUFFICES ASSUME Init PROVE TypeInv
  OBVIOUS
<1> DEFINE f == Image(EmptyDb, <<>>, 0)
<1>1. f \in FileType /\ f.cursor = 0 /\ f.journal = <<>>
  BY EmptyDbType, MaxJournalAssumption DEF Image, FileType, EmptyDb, DbType
<1>2. Load(f) \in DbType
  BY <1>1, LoadType
<1>3. db \in DbType /\ journal = <<>> /\ cursor = 0 /\ disk = f /\ adj = NotBuilt /\ task = Idle
  BY <1>1, <1>2 DEF Init, InitWith
<1>4. <<>> \in Seq(JournalEntries) /\ Len(<<>>) = 0
  OBVIOUS
<1>5. TypeOK
  BY <1>1, <1>3, <1>4, MaxJournalAssumption DEF TypeOK, TaskType
<1> QED
  BY <1>3, <1>5 DEF TypeInv, Idle

LEMMA PutNodeTypeInv ==
  ASSUME TypeInv, NEW n \in NodeIds, NEW v \in NodeVals, PutNode(n, v)
  PROVE  TypeInv'
<1>1. SetNode(db, n, v) \in DbType /\ NodeEntry(db, n, v) \in JournalEntries
  BY SetNodeType, NodeEntryType DEF TypeInv, TypeOK
<1>2. <<NodeEntry(db, n, v)>> \in Seq(JournalEntries)
  BY <1>1
<1>3. Typed(db', journal', cursor', disk')
  BY <1>1, <1>2, CommitType DEF PutNode, TypeInv
<1> QED
  BY <1>3 DEF Typed, PutNode, TypeInv, TypeOK, Idle

LEMMA RemoveNodeTypeInv ==
  ASSUME TypeInv, NEW n \in NodeIds, NEW order \in Orders(Touching(db, n)), RemoveNode(n, order)
  PROVE  TypeInv'
<1> DEFINE removed == [i \in DOMAIN order |->
                         [kind |-> "edge-remove", id |-> order[i], edge |-> db.edges[order[i]]]]
           last    == <<[kind |-> "node-delete", id |-> n, node |-> db.nodes[n]]>>
<1>1. db \in DbType /\ Stored(db, n)
  BY DEF TypeInv, TypeOK, RemoveNode
<1>2. /\ order \in Seq(EdgeIds)
      /\ \A i \in DOMAIN order : order[i] \in EdgeIds /\ db.edges[order[i]] \in EdgeVals
  BY <1>1, OrdersType
<1>3. removed \in Seq(JournalEntries)
  <2>1. \A i \in DOMAIN order : removed[i] \in JournalEntries
    BY <1>2 DEF JournalEntries, EdgeEntries
  <2>2. Len(order) \in Nat /\ DOMAIN order = 1..Len(order)
    BY <1>2, LenProperties
  <2>3. removed \in [1..Len(order) -> JournalEntries]
    BY <2>1, <2>2
  <2> QED
    BY <2>2, <2>3, FunctionIsSeq
<1>4. last \in Seq(JournalEntries)
  <2>1. [kind |-> "node-delete", id |-> n, node |-> db.nodes[n]] \in NodeEntries
    BY <1>1, StoredType DEF NodeEntries
  <2> QED
    BY <2>1 DEF JournalEntries
<1>5. removed \o last \in Seq(JournalEntries)
  BY <1>3, <1>4, ConcatProperties
<1>6. DropNode(db, n) \in DbType
  BY <1>1, DropNodeType
<1>7. Typed(db', journal', cursor', disk')
  BY <1>5, <1>6, CommitType DEF RemoveNode, TypeInv
<1> QED
  BY <1>7 DEF Typed, RemoveNode, TypeInv, TypeOK, Idle

LEMMA PutEdgeTypeInv ==
  ASSUME TypeInv, NEW e \in EdgeIds, NEW v \in EdgeVals, PutEdge(e, v)
  PROVE  TypeInv'
<1>1. CASE EndpointsActive(db, v)
  <2>1. SetEdge(db, e, v) \in DbType /\ EdgeEntry(db, e, v) \in JournalEntries
    BY SetEdgeType, EdgeEntryType DEF TypeInv, TypeOK
  <2>2. <<EdgeEntry(db, e, v)>> \in Seq(JournalEntries)
    BY <2>1
  <2>3. Typed(db', journal', cursor', disk')
    BY <1>1, <2>1, <2>2, CommitType DEF PutEdge, TypeInv
  <2> QED
    BY <2>3 DEF Typed, PutEdge, TypeInv, TypeOK, Idle
<1>2. CASE ~EndpointsActive(db, v)
  BY <1>2 DEF PutEdge, TypeInv, TypeOK, Idle
<1> QED
  BY <1>1, <1>2

LEMMA RemoveEdgeTypeInv ==
  ASSUME TypeInv, NEW e \in EdgeIds, RemoveEdge(e)
  PROVE  TypeInv'
<1>1. DropEdges(db, {e}) \in DbType
  BY DropEdgesType DEF TypeInv, TypeOK
<1>2. [kind |-> "edge-remove", id |-> e, edge |-> db.edges[e]] \in EdgeEntries
  BY StoredType DEF TypeInv, TypeOK, RemoveEdge, EdgeEntries
<1>3. <<[kind |-> "edge-remove", id |-> e, edge |-> db.edges[e]]>> \in Seq(JournalEntries)
  BY <1>2 DEF JournalEntries
<1>4. Typed(db', journal', cursor', disk')
  BY <1>1, <1>3, CommitType DEF RemoveEdge, TypeInv
<1> QED
  BY <1>4 DEF Typed, RemoveEdge, TypeInv, TypeOK, Idle

LEMMA BatchOpTypeInv ==
  ASSUME TypeInv, NEW op \in BatchOps, BatchOp(op)
  PROVE  TypeInv'
<1>1. PICK s \in DbType, o \in Seq(BatchOps), i \in Seq(BatchOps) :
        task = [kind |-> "batch", snapshot |-> s, ops |-> o, inverse |-> i]
  BY DEF BatchOp, TypeInv, TypeOK, TaskType, Idle
<1>2. db' \in DbType
  BY OpResultType DEF BatchOp, TypeInv, TypeOK
<1>3. PICK order \in OpOrders(db, op) :
        task' = [task EXCEPT !.ops = Append(@, op), !.inverse = OpInverse(db, op, order) \o @]
  BY DEF BatchOp
<1>4. OpInverse(db, op, order) \in Seq(BatchOps)
  BY OpInverseType DEF BatchOp, TypeInv, TypeOK
<1> DEFINE back == OpInverse(db, op, order) \o i
           done == Append(o, op)
<1>5. back \in Seq(BatchOps) /\ done \in Seq(BatchOps)
  BY <1>4, ConcatProperties
<1>6. task' = [kind |-> "batch", snapshot |-> s, ops |-> done, inverse |-> back]
  BY <1>1, <1>3
<1> HIDE DEF back, done
<1>7. task' \in TaskType /\ task'.kind # "replay"
  BY <1>5, <1>6 DEF TaskType
<1>8. journal' = journal /\ cursor' = cursor /\ adj' = adj /\ disk' = disk
  BY DEF BatchOp
<1>9. TypeOK'
  BY <1>2, <1>7, <1>8 DEF TypeInv, TypeOK
<1> QED
  BY <1>7, <1>9 DEF TypeInv

LEMMA BatchTypeInv ==
  ASSUME TypeInv, BatchNext
  PROVE  TypeInv'
<1>1. CASE BatchBegin
  <2>1. task' = [kind |-> "batch", snapshot |-> db, ops |-> <<>>, inverse |-> <<>>]
    BY <1>1 DEF BatchBegin
  <2>2. db \in DbType /\ <<>> \in Seq(BatchOps)
    BY DEF TypeInv, TypeOK
  <2>3. task' \in TaskType /\ task'.kind # "replay"
    BY <2>1, <2>2 DEF TaskType
  <2> QED
    BY <1>1, <2>3 DEF BatchBegin, TypeInv, TypeOK
<1>2. CASE BatchStep
  <2>1. PICK op \in BatchOps : BatchOp(op)
    BY <1>2 DEF BatchStep, BatchOps
  <2> QED
    BY <2>1, BatchOpTypeInv
<1>3. CASE BatchFail
  BY <1>3, TaskCases DEF BatchFail, TypeInv, TypeOK, TaskType, Idle
<1>4. CASE BatchCommit
  <2>1. [kind |-> "batch", ops |-> task.ops, inverse |-> task.inverse] \in BatchEntries
    BY <1>4, TaskCases DEF BatchCommit, TypeInv, BatchEntries
  <2>2. <<[kind |-> "batch", ops |-> task.ops, inverse |-> task.inverse]>> \in Seq(JournalEntries)
    BY <2>1 DEF JournalEntries
  <2>3. Typed(db', journal', cursor', disk')
    BY <1>4, <2>2, CommitType DEF BatchCommit, TypeInv, TypeOK
  <2>4. adj' = NotBuilt /\ task' = Idle
    BY <1>4 DEF BatchCommit
  <2> QED
    BY <2>3, <2>4 DEF Typed, TypeInv, TypeOK, TaskType, Idle
<1> QED
  BY <1>1, <1>2, <1>3, <1>4 DEF BatchNext

\* An undo or a redo steps over one entry, which is well typed.
LEMMA UndoRedoTypeInv ==
  ASSUME TypeInv, Undo \/ Redo
  PROVE  TypeInv'
<1> USE DEF TypeInv
<1>1. db \in DbType /\ journal \in Seq(JournalEntries) /\ cursor \in 0..Len(journal)
  BY DEF TypeOK
<1>2. CASE Undo
  <2>1. cursor - 1 \in 0..Len(journal) /\ journal[cursor] \in JournalEntries
    BY <1>1, <1>2, ElementOfSeq DEF Undo
  <2>2. ApplyInverse(db, journal[cursor]) \in DbType
    BY <1>1, <1>2, <2>1, ApplyType DEF Undo
  <2>3. TypeOK' /\ task' = Idle
    BY <1>2, <2>1, <2>2, MoveCursorType DEF Undo, MoveCursor
  <2> QED
    BY <2>3 DEF Idle
<1>3. CASE Redo
  <2>1. cursor + 1 \in 0..Len(journal) /\ journal[cursor + 1] \in JournalEntries
    BY <1>1, <1>3, ElementOfSeq DEF Redo
  <2>2. ApplyForward(db, journal[cursor + 1]) \in DbType
    BY <1>1, <1>3, <2>1, ApplyType DEF Redo
  <2>3. TypeOK' /\ task' = Idle
    BY <1>3, <2>1, <2>2, MoveCursorType DEF Redo, MoveCursor
  <2> QED
    BY <2>3 DEF Idle
<1> QED
  BY <1>2, <1>3

LEMMA ReplayTypeInv ==
  ASSUME TypeInv, ReplayNext
  PROVE  TypeInv'
<1> USE DEF TypeInv
<1>1. db \in DbType /\ journal \in Seq(JournalEntries) /\ cursor \in 0..Len(journal)
  BY DEF TypeOK
<1>2. CASE UndoBatch
  <2>1. cursor - 1 \in 0..Len(journal) /\ journal[cursor] \in JournalEntries
    BY <1>1, <1>2, ElementOfSeq DEF UndoBatch
  <2>2. journal[cursor].inverse \in Seq(BatchOps)
    BY <1>2, <2>1, EntryType DEF UndoBatch, ReplayBegin
  <2>3. task' = [kind |-> "replay", ops |-> journal[cursor].inverse, to |-> cursor - 1]
    BY <1>2 DEF UndoBatch, ReplayBegin
  <2>4. task' \in TaskType /\ task'.to \in 0..Len(journal)
    BY <2>1, <2>2, <2>3 DEF TaskType
  <2> QED
    BY <1>2, <2>4 DEF UndoBatch, ReplayBegin, TypeOK
<1>3. CASE RedoBatch
  <2>1. cursor + 1 \in 0..Len(journal) /\ journal[cursor + 1] \in JournalEntries
    BY <1>1, <1>3, ElementOfSeq DEF RedoBatch
  <2>2. journal[cursor + 1].ops \in Seq(BatchOps)
    BY <1>3, <2>1, EntryType DEF RedoBatch, ReplayBegin
  <2>3. task' = [kind |-> "replay", ops |-> journal[cursor + 1].ops, to |-> cursor + 1]
    BY <1>3 DEF RedoBatch, ReplayBegin
  <2>4. task' \in TaskType /\ task'.to \in 0..Len(journal)
    BY <2>1, <2>2, <2>3 DEF TaskType
  <2> QED
    BY <1>3, <2>4 DEF RedoBatch, ReplayBegin, TypeOK
<1>4. CASE ReplayOp
  <2>1. task.kind = "replay" /\ task.ops \in Seq(BatchOps) /\ task.to \in 0..Len(journal)
    BY <1>4, TaskCases DEF ReplayOp
  <2>2. task = [kind |-> "replay", ops |-> task.ops, to |-> task.to]
    BY <2>1 DEF TypeOK, TaskType, Idle
  <2>3. Head(task.ops) \in BatchOps /\ Tail(task.ops) \in Seq(BatchOps)
    BY <1>4, <2>1 DEF ReplayOp
  <2>4. task' = [kind |-> "replay", ops |-> Tail(task.ops), to |-> task.to]
    BY <1>4, <2>2 DEF ReplayOp
  <2>5. task' \in TaskType /\ task'.to \in 0..Len(journal)
    BY <2>1, <2>3, <2>4 DEF TaskType
  <2>6. db' \in DbType
    BY <1>1, <1>4, <2>3, OpResultType DEF ReplayOp
  <2> QED
    BY <1>4, <2>5, <2>6 DEF ReplayOp, TypeOK
<1>5. CASE ReplayFail
  BY <1>5 DEF ReplayFail, TypeOK, TaskType, Idle
<1>6. CASE ReplayEnd
  <2>1. task.to \in 0..Len(journal)
    BY <1>6 DEF ReplayEnd
  <2>2. TypeOK' /\ task' = Idle
    BY <1>1, <1>6, <2>1, MoveCursorType DEF ReplayEnd, MoveCursor
  <2> QED
    BY <2>2 DEF Idle
<1> QED
  BY <1>2, <1>3, <1>4, <1>5, <1>6 DEF ReplayNext

LEMMA ReopenTypeInv ==
  ASSUME TypeInv, Reopen
  PROVE  TypeInv'
<1>1. Load(disk) \in DbType
  BY LoadType DEF TypeInv, TypeOK
<1>2. /\ disk.journal \in Seq(JournalEntries) /\ Len(disk.journal) <= MaxJournal
      /\ disk.cursor \in 0..Len(disk.journal)
  BY DEF TypeInv, TypeOK, FileType
<1> QED
  BY <1>1, <1>2 DEF Reopen, TypeInv, TypeOK, TaskType, Idle

LEMMA StepTypeInv == TypeInv /\ [Next]_vars => TypeInv'
<1> SUFFICES ASSUME TypeInv, [Next]_vars PROVE TypeInv'
  OBVIOUS
<1>1. CASE UNCHANGED vars
  BY <1>1 DEF vars, TypeInv, TypeOK
<1>2. CASE QueryEdges
  <2>1. Built(db) \in [built : {TRUE}, edges : [EdgeIds -> EdgeVals \cup {None}]]
    BY ViewType DEF Built, TypeInv, TypeOK
  <2> QED
    BY <1>2, <2>1 DEF QueryEdges, TypeInv, TypeOK
<1> QED
  BY <1>1, <1>2, PutNodeTypeInv, RemoveNodeTypeInv, PutEdgeTypeInv, RemoveEdgeTypeInv,
     UndoRedoTypeInv, BatchTypeInv, ReplayTypeInv, ReopenTypeInv
  DEF Next

\* Whatever the ids, values and limits: the store never leaves its types, the
\* cursor stays inside a journal no longer than maxJournalLength, and the file
\* holds such a journal and cursor as well.
THEOREM TypeCorrect == Spec => []TypeOK
<1>1. TypeInv => TypeOK
  BY DEF TypeInv
<1> QED
  BY InitTypeInv, StepTypeInv, <1>1, PTL DEF Spec

-----------------------------------------------------------------------------
(* The history.  A point is a store without quarantine whose edges have      *)
(* their ends; the contents of the timeline are contents of points.          *)

Clean(d) == d.qNodes = {} /\ d.qEdges = {} /\ d.badNodes = {} /\ d.badEdges = {}
Anchored(d) ==
  \A e \in EdgeIds : d.edges[e] # None => Stored(d, d.edges[e].source) /\ Stored(d, d.edges[e].target)
Point(d) == d \in DbType /\ Clean(d) /\ Anchored(d)
Points == {Content(d) : d \in {x \in DbType : Point(x)}}

\* The store d holds the content c.
At(d, c) == d \in DbType /\ Clean(d) /\ Content(d) = c

\* From every store that holds a, the operation is accepted and leads to b.
Leads(op, a, b) == \A d \in DbType : At(d, a) => ~OpRejected(d, op) /\ At(OpResult(d, op), b)
Replays(ops, a, b) ==
  \E tr : /\ tr[1] = a /\ tr[Len(ops) + 1] = b
          /\ \A i \in 1 .. Len(ops) : Leads(ops[i], tr[i], tr[i + 1])

\* Entry x leads from a to b when it is redone and back when it is undone.
Connects(x, a, b) ==
  IF x.kind = "batch"
  THEN Replays(x.ops, a, b) /\ Replays(x.inverse, b, a)
  ELSE /\ \A d \in DbType : At(d, a) => Applicable(d, x) /\ At(ApplyForward(d, x), b)
       /\ \A d \in DbType : At(d, b) => Applicable(d, x) /\ At(ApplyInverse(d, x), a)

\* The journal j connects the contents of the timeline t, one after the other.
Consistent(j, t) ==
  /\ j \in Seq(JournalEntries) /\ t \in Seq(Points) /\ Len(t) = Len(j) + 1
  /\ \A i \in 1 .. Len(j) : Connects(j[i], t[i], t[i + 1])

\* What the loop over operations has done, and has yet to do.
TaskHistory ==
  /\ task = Idle => Point(db) /\ Content(db) = timeline[cursor + 1]
  /\ task.kind = "batch" =>
       /\ Point(db) /\ Point(task.snapshot) /\ Content(task.snapshot) = timeline[cursor + 1]
       /\ Replays(task.ops, Content(task.snapshot), Content(db))
       /\ Replays(task.inverse, Content(db), Content(task.snapshot))
  /\ task.kind = "replay" =>
       /\ Clean(db) /\ Replays(task.ops, Content(db), timeline[task.to + 1])
       /\ task.to \in {cursor - 1, cursor + 1}

FileHistory ==
  /\ Consistent(disk.journal, savedTimeline)
  /\ Point(Load(disk)) /\ Content(Load(disk)) = savedTimeline[disk.cursor + 1]

\* The index is of the store as callers saw it last.
IndexHistory ==
  adj # NotBuilt => /\ task = Idle => adj = Built(db)
                    /\ task.kind = "batch" => adj = Built(task.snapshot)

HistoryInv ==
  /\ TypeInv
  /\ Consistent(journal, timeline)
  /\ TaskHistory /\ FileHistory /\ IndexHistory

-----------------------------------------------------------------------------
(* Two clean stores hold one content when they differ in the states of edges *)
(* only.                                                                     *)

SameLink(v, w) == (v = None <=> w = None) /\ (v # None => LinkOf(v) = LinkOf(w))
Same(d, d1) == d.nodes = d1.nodes /\ \A e \in EdgeIds : SameLink(d.edges[e], d1.edges[e])

LEMMA CleanContent ==
  ASSUME NEW d \in DbType, Clean(d)
  PROVE  Content(d) = [nodes |-> d.nodes,
                       links |-> [e \in {x \in EdgeIds : d.edges[x] # None} |-> LinkOf(d.edges[e])]]
<1>1. View(d).nodes = d.nodes
  <2>1. View(d).nodes = [n \in NodeIds |-> IF ActiveNode(d, n) THEN d.nodes[n] ELSE None]
    BY DEF View
  <2>2. \A n \in NodeIds : (IF ActiveNode(d, n) THEN d.nodes[n] ELSE None) = d.nodes[n]
    BY DEF ActiveNode, Stored, Clean
  <2>3. d.nodes = [n \in NodeIds |-> d.nodes[n]]
    BY DEF DbType
  <2> QED BY <2>1, <2>2, <2>3
<1>2. \A e \in EdgeIds : ActiveEdge(d, e) <=> d.edges[e] # None
  BY DEF ActiveEdge, Clean
<1>3. {x \in EdgeIds : ActiveEdge(d, x)} = {x \in EdgeIds : d.edges[x] # None}
  BY <1>2
<1> QED BY <1>1, <1>3 DEF Content

LEMMA SameContent ==
  ASSUME NEW d \in DbType, Clean(d), NEW d1 \in DbType, Clean(d1)
  PROVE  Content(d) = Content(d1) <=> Same(d, d1)
<1> DEFINE E == {x \in EdgeIds : d.edges[x] # None}
           E1 == {x \in EdgeIds : d1.edges[x] # None}
           f == [e \in E |-> LinkOf(d.edges[e])]
           f1 == [e \in E1 |-> LinkOf(d1.edges[e])]
<1>1. Content(d) = [nodes |-> d.nodes, links |-> f] /\ Content(d1) = [nodes |-> d1.nodes, links |-> f1]
  BY CleanContent
<1>2. Content(d) = Content(d1) <=> d.nodes = d1.nodes /\ f = f1
  <2> HIDE DEF f, f1
  <2> QED BY <1>1
<1>3. ASSUME f = f1 PROVE \A e \in EdgeIds : SameLink(d.edges[e], d1.edges[e])
  <2>1. E = E1
    BY <1>3
  <2>2. \A e \in E : LinkOf(d.edges[e]) = LinkOf(d1.edges[e])
    BY <1>3, <2>1
  <2> QED BY <2>1, <2>2 DEF SameLink
<1>4. ASSUME \A e \in EdgeIds : SameLink(d.edges[e], d1.edges[e]) PROVE f = f1
  <2>1. E = E1
    BY <1>4 DEF SameLink
  <2>2. \A e \in E : LinkOf(d.edges[e]) = LinkOf(d1.edges[e])
    BY <1>4 DEF SameLink
  <2> QED BY <2>1, <2>2
<1> HIDE DEF f, f1
<1> QED BY <1>2, <1>3, <1>4 DEF Same

\* A clean store that holds the content of d1 is one that is the same as d1.
LEMMA AtSame ==
  ASSUME NEW d1 \in DbType, Clean(d1), NEW d
  PROVE  At(d, Content(d1)) <=> d \in DbType /\ Clean(d) /\ Same(d, d1)
  BY SameContent DEF At

LEMMA SameIsEquivalence ==
  ASSUME NEW d, NEW d1, NEW d2
  PROVE  /\ Same(d, d)
         /\ Same(d, d1) => Same(d1, d)
         /\ Same(d, d1) /\ Same(d1, d2) => Same(d, d2)
  BY DEF Same, SameLink

LEMMA SameEnds ==
  ASSUME NEW d, NEW d1, Same(d, d1)
  PROVE  /\ \A e \in EdgeIds : d.edges[e] = None <=> d1.edges[e] = None
         /\ \A e \in EdgeIds : d.edges[e] # None =>
              /\ d.edges[e].source = d1.edges[e].source /\ d.edges[e].target = d1.edges[e].target
              /\ d.edges[e].role = d1.edges[e].role
         /\ \A n : Stored(d, n) <=> Stored(d1, n)
         /\ \A n : Touching(d, n) = Touching(d1, n)
         /\ Anchored(d) <=> Anchored(d1)
<1>1. \A e \in EdgeIds : d.edges[e] = None <=> d1.edges[e] = None
  BY DEF Same, SameLink
<1>2. \A e \in EdgeIds : d.edges[e] # None =>
              /\ d.edges[e].source = d1.edges[e].source /\ d.edges[e].target = d1.edges[e].target
              /\ d.edges[e].role = d1.edges[e].role
  BY DEF Same, SameLink, LinkOf
<1>3. \A n : Stored(d, n) <=> Stored(d1, n)
  BY DEF Same, Stored
<1>4. \A n : Touching(d, n) = Touching(d1, n)
  BY <1>1, <1>2 DEF Touching
<1>5. Anchored(d) <=> Anchored(d1)
  BY <1>1, <1>2, <1>3 DEF Anchored
<1> QED BY <1>1, <1>2, <1>3, <1>4, <1>5

-----------------------------------------------------------------------------
(* The primitive writes do to the same stores the same.                      *)

LEMMA SetNodeSame ==
  ASSUME NEW d \in DbType, Clean(d), NEW n \in NodeIds, NEW v \in NodeVals
  PROVE  /\ Clean(SetNode(d, n, v)) /\ SetNode(d, n, v).nodes = [d.nodes EXCEPT ![n] = v]
         /\ SetNode(d, n, v).edges = d.edges
         /\ Anchored(d) => Anchored(SetNode(d, n, v))
<1>1. /\ SetNode(d, n, v).nodes = [d.nodes EXCEPT ![n] = v] /\ SetNode(d, n, v).edges = d.edges
      /\ Clean(SetNode(d, n, v))
  BY DEF SetNode, DbType, Clean
<1>2. v # None
  BY NoneAssumption
<1>3. \A m : Stored(d, m) => Stored(SetNode(d, n, v), m)
  BY <1>1, <1>2 DEF Stored, DbType
<1> QED BY <1>1, <1>3 DEF Anchored

LEMMA SetEdgeSame ==
  ASSUME NEW d \in DbType, Clean(d), NEW e \in EdgeIds, NEW v \in EdgeVals
  PROVE  /\ Clean(SetEdge(d, e, v)) /\ SetEdge(d, e, v).edges = [d.edges EXCEPT ![e] = v]
         /\ SetEdge(d, e, v).nodes = d.nodes
         /\ Anchored(d) /\ Stored(d, v.source) /\ Stored(d, v.target) => Anchored(SetEdge(d, e, v))
<1>1. /\ SetEdge(d, e, v).edges = [d.edges EXCEPT ![e] = v] /\ SetEdge(d, e, v).nodes = d.nodes
      /\ Clean(SetEdge(d, e, v))
  BY DEF SetEdge, DbType, Clean
<1>2. \A m : Stored(d, m) <=> Stored(SetEdge(d, e, v), m)
  BY <1>1 DEF Stored
<1>3. \A x \in EdgeIds : SetEdge(d, e, v).edges[x] = IF x = e THEN v ELSE d.edges[x]
  BY <1>1 DEF DbType
<1> QED BY <1>1, <1>2, <1>3 DEF Anchored

LEMMA EditSame ==
  ASSUME NEW d \in DbType, Clean(d)
  PROVE  /\ \A n \in NodeIds, v \in NodeVals : EditNode(d, n, v) = SetNode(d, n, v)
         /\ \A e \in EdgeIds, v \in EdgeVals : EditEdge(d, e, v) = SetEdge(d, e, v)
<1>1. d.qNodes = {} /\ d.qEdges = {}
  BY DEF Clean
<1>2. \A n \in NodeIds, v \in NodeVals : EditNode(d, n, v) = SetNode(d, n, v)
  BY <1>1 DEF EditNode, SetNode, DbType
<1>3. \A e \in EdgeIds, v \in EdgeVals : EditEdge(d, e, v) = SetEdge(d, e, v)
  BY <1>1 DEF EditEdge, SetEdge, DbType
<1> QED BY <1>2, <1>3

LEMMA DropEdgesSame ==
  ASSUME NEW d \in DbType, Clean(d), NEW E
  PROVE  /\ Clean(DropEdges(d, E)) /\ DropEdges(d, E).nodes = d.nodes
         /\ DropEdges(d, E).edges = [e \in EdgeIds |-> IF e \in E THEN None ELSE d.edges[e]]
         /\ Anchored(d) => Anchored(DropEdges(d, E))
<1>1. /\ Clean(DropEdges(d, E)) /\ DropEdges(d, E).nodes = d.nodes
      /\ DropEdges(d, E).edges = [e \in EdgeIds |-> IF e \in E THEN None ELSE d.edges[e]]
  BY DEF DropEdges, DbType, Clean
<1> QED BY <1>1 DEF Anchored, Stored

LEMMA DropNodeSame ==
  ASSUME NEW d \in DbType, Clean(d), NEW n \in NodeIds
  PROVE  /\ Clean(DropNode(d, n)) /\ DropNode(d, n).nodes = [d.nodes EXCEPT ![n] = None]
         /\ DropNode(d, n).edges = [e \in EdgeIds |-> IF e \in Touching(d, n) THEN None ELSE d.edges[e]]
         /\ Anchored(d) => Anchored(DropNode(d, n))
<1> DEFINE d1 == DropEdges(d, Touching(d, n))
<1>1. /\ d1 \in DbType /\ Clean(d1) /\ d1.nodes = d.nodes
      /\ d1.edges = [e \in EdgeIds |-> IF e \in Touching(d, n) THEN None ELSE d.edges[e]]
  BY DropEdgesSame, DropEdgesType
<1>2. DropNode(d, n) = [d1 EXCEPT !.nodes[n] = None, !.qNodes = @ \ {n}, !.badNodes = @ \ {n}]
  BY DEF DropNode
<1> HIDE DEF d1
<1>3. Clean(DropNode(d, n)) /\ DropNode(d, n).nodes = [d.nodes EXCEPT ![n] = None] /\ DropNode(d, n).edges = d1.edges
  BY <1>1, <1>2 DEF DbType, Clean
<1>4. ASSUME Anchored(d) PROVE Anchored(DropNode(d, n))
  <2>1. ASSUME NEW e \in EdgeIds, DropNode(d, n).edges[e] # None
        PROVE  DropNode(d, n).edges[e] = d.edges[e] /\ d.edges[e].source # n /\ d.edges[e].target # n
    BY <1>1, <1>3, <2>1 DEF Touching
  <2>2. \A m : m # n /\ Stored(d, m) => Stored(DropNode(d, n), m)
    BY <1>3 DEF Stored, DbType
  <2> QED BY <1>4, <2>1, <2>2 DEF Anchored
<1> QED BY <1>1, <1>3, <1>4

LEMMA WritesAgree ==
  ASSUME NEW d \in DbType, Clean(d), NEW d1 \in DbType, Clean(d1), Same(d, d1)
  PROVE  /\ \A n \in NodeIds, v \in NodeVals : Same(SetNode(d, n, v), SetNode(d1, n, v))
         /\ \A e \in EdgeIds, v, w \in EdgeVals :
              LinkOf(v) = LinkOf(w) => Same(SetEdge(d, e, v), SetEdge(d1, e, w))
         /\ \A E : Same(DropEdges(d, E), DropEdges(d1, E))
         /\ \A n \in NodeIds : Same(DropNode(d, n), DropNode(d1, n))
<1>1. d.nodes = d1.nodes /\ \A e \in EdgeIds : SameLink(d.edges[e], d1.edges[e])
  BY DEF Same
<1>2. \A n \in NodeIds, v \in NodeVals : Same(SetNode(d, n, v), SetNode(d1, n, v))
  <2>1. ASSUME NEW n \in NodeIds, NEW v \in NodeVals PROVE Same(SetNode(d, n, v), SetNode(d1, n, v))
    <3>1. /\ SetNode(d, n, v).nodes = [d.nodes EXCEPT ![n] = v] /\ SetNode(d, n, v).edges = d.edges
          /\ SetNode(d1, n, v).nodes = [d1.nodes EXCEPT ![n] = v] /\ SetNode(d1, n, v).edges = d1.edges
      BY SetNodeSame
    <3> QED BY <1>1, <3>1 DEF Same
  <2> QED BY <2>1
<1>3. ASSUME NEW e \in EdgeIds, NEW v \in EdgeVals, NEW w \in EdgeVals, LinkOf(v) = LinkOf(w)
      PROVE  Same(SetEdge(d, e, v), SetEdge(d1, e, w))
  <2>1. /\ SetEdge(d, e, v).edges = [d.edges EXCEPT ![e] = v] /\ SetEdge(d, e, v).nodes = d.nodes
        /\ SetEdge(d1, e, w).edges = [d1.edges EXCEPT ![e] = w] /\ SetEdge(d1, e, w).nodes = d1.nodes
    BY SetEdgeSame
  <2>2. SameLink(v, w)
    BY <1>3, NoneAssumption DEF SameLink
  <2>3. \A x \in EdgeIds : /\ SetEdge(d, e, v).edges[x] = IF x = e THEN v ELSE d.edges[x]
                           /\ SetEdge(d1, e, w).edges[x] = IF x = e THEN w ELSE d1.edges[x]
    BY <2>1 DEF DbType
  <2> QED BY <1>1, <2>1, <2>2, <2>3 DEF Same
<1>4. ASSUME NEW E PROVE Same(DropEdges(d, E), DropEdges(d1, E))
  <2>1. /\ DropEdges(d, E).edges = [e \in EdgeIds |-> IF e \in E THEN None ELSE d.edges[e]]
        /\ DropEdges(d1, E).edges = [e \in EdgeIds |-> IF e \in E THEN None ELSE d1.edges[e]]
        /\ DropEdges(d, E).nodes = d.nodes /\ DropEdges(d1, E).nodes = d1.nodes
    BY DropEdgesSame
  <2> QED BY <1>1, <2>1 DEF Same, SameLink
<1>5. ASSUME NEW n \in NodeIds PROVE Same(DropNode(d, n), DropNode(d1, n))
  <2>1. Touching(d, n) = Touching(d1, n)
    BY SameEnds
  <2>2. /\ DropNode(d, n).edges = [e \in EdgeIds |-> IF e \in Touching(d, n) THEN None ELSE d.edges[e]]
        /\ DropNode(d1, n).edges = [e \in EdgeIds |-> IF e \in Touching(d, n) THEN None ELSE d1.edges[e]]
        /\ DropNode(d, n).nodes = [d.nodes EXCEPT ![n] = None] /\ DropNode(d1, n).nodes = [d1.nodes EXCEPT ![n] = None]
    <3>1. /\ DropNode(d, n).edges = [e \in EdgeIds |-> IF e \in Touching(d, n) THEN None ELSE d.edges[e]]
          /\ DropNode(d, n).nodes = [d.nodes EXCEPT ![n] = None]
      BY DropNodeSame, Zenon
    <3>2. /\ DropNode(d1, n).edges = [e \in EdgeIds |-> IF e \in Touching(d1, n) THEN None ELSE d1.edges[e]]
          /\ DropNode(d1, n).nodes = [d1.nodes EXCEPT ![n] = None]
      BY DropNodeSame, Zenon
    <3> QED BY <2>1, <3>1, <3>2, Zenon
  <2> QED BY <1>1, <2>2 DEF Same, SameLink
<1> QED BY <1>2, <1>3, <1>4, <1>5

-----------------------------------------------------------------------------
(* The operations of a batch and their replay.                               *)

\* An operation that is accepted of a store without quarantine is accepted of
\* every store with that content, and does the same there (applyBatchOp).
LEMMA OpLeads ==
  ASSUME NEW d1 \in DbType, Clean(d1), NEW x \in BatchOps, ~OpRejected(d1, x)
  PROVE  /\ OpResult(d1, x) \in DbType /\ Clean(OpResult(d1, x))
         /\ Anchored(d1) => Anchored(OpResult(d1, x))
         /\ Leads(x, Content(d1), Content(OpResult(d1, x)))
<1> DEFINE r == OpResult(d1, x)
<1>0. /\ x.op \in {"putNode", "setProps", "setType", "removeNode"} => x.id \in NodeIds
      /\ x.op \in {"putEdge", "removeEdge"} => x.id \in EdgeIds
      /\ x.op \in {"putNode", "removeNode", "putEdge", "removeEdge", "setProps", "setType"}
  BY BatchOpType
<1>1. r \in DbType
  BY OpResultType
<1>2. ASSUME NEW v, v \in NodeVals, x.op \in {"putNode", "setProps", "setType"}, r = SetNode(d1, x.id, v)
      PROVE  Clean(r) /\ (Anchored(d1) => Anchored(r))
  <2>1. Clean(SetNode(d1, x.id, v)) /\ (Anchored(d1) => Anchored(SetNode(d1, x.id, v)))
    BY <1>0, <1>2, SetNodeSame
  <2> QED BY <1>2, <2>1
<1>3. ASSUME NEW d \in DbType, At(d, Content(d1))
      PROVE  ~OpRejected(d, x) /\ OpResult(d, x) \in DbType
  <2>1. Clean(d) /\ Same(d, d1)
    BY <1>3, AtSame
  <2>2. /\ \A n : Stored(d, n) <=> Stored(d1, n)
        /\ \A n : ActiveNode(d, n) <=> ActiveNode(d1, n)
    BY <2>1, SameEnds DEF ActiveNode, Clean
  <2>3. ~OpRejected(d, x)
    BY <2>2 DEF OpRejected, EndpointsActive
  <2> QED BY <2>3, OpResultType
<1>4. CASE x.op \in {"putNode", "setProps", "setType"}
  <2>1. PICK v \in NodeVals : r = SetNode(d1, x.id, v) /\ \A d \in DbType : d.nodes = d1.nodes => OpResult(d, x) = SetNode(d, x.id, v)
    <3>1. CASE x.op = "putNode"
      BY <3>1, BatchOpType DEF OpResult
    <3>2. CASE x.op = "setProps"
      <4>1. x.id \in NodeIds /\ d1.nodes[x.id] \in NodeVals
        BY <3>2, BatchOpType, StoredType DEF OpRejected
      <4>2. [d1.nodes[x.id] EXCEPT !.props = @ \cup x.props] \in NodeVals
        BY <3>2, <4>1, BatchOpType DEF NodeVals
      <4> QED BY <3>2, <4>2 DEF OpResult
    <3>3. CASE x.op = "setType"
      <4>1. x.id \in NodeIds /\ d1.nodes[x.id] \in NodeVals
        BY <3>3, BatchOpType, StoredType DEF OpRejected
      <4>2. [d1.nodes[x.id] EXCEPT !.type = x.type] \in NodeVals
        BY <3>3, <4>1, BatchOpType DEF NodeVals
      <4> QED BY <3>3, <4>2 DEF OpResult
    <3> QED BY <1>4, <3>1, <3>2, <3>3
  <2>2. Clean(r) /\ (Anchored(d1) => Anchored(r))
    BY <1>2, <1>4, <2>1
  <2>3. ASSUME NEW d \in DbType, At(d, Content(d1)) PROVE At(OpResult(d, x), Content(r))
    <3>1. Clean(d) /\ Same(d, d1) /\ d.nodes = d1.nodes
      BY <2>3, AtSame DEF Same
    <3>2. OpResult(d, x) = SetNode(d, x.id, v) /\ Clean(SetNode(d, x.id, v)) /\ Same(SetNode(d, x.id, v), r)
      <4>1. x.id \in NodeIds /\ OpResult(d, x) = SetNode(d, x.id, v) /\ r = SetNode(d1, x.id, v)
        BY <1>0, <1>4, <2>1, <3>1
      <4>2. Clean(SetNode(d, x.id, v))
        BY <3>1, <4>1, SetNodeSame
      <4>3. Same(SetNode(d, x.id, v), SetNode(d1, x.id, v))
        BY <3>1, <4>1, WritesAgree
      <4> QED BY <4>1, <4>2, <4>3
    <3> QED BY <1>1, <1>3, <2>2, <2>3, <3>2, AtSame
  <2> QED BY <1>1, <1>3, <2>2, <2>3 DEF Leads
<1>5. CASE x.op = "removeNode"
  <2>1. r = IF Stored(d1, x.id) THEN DropNode(d1, x.id) ELSE d1
    BY <1>5 DEF OpResult
  <2>2. Clean(r) /\ (Anchored(d1) => Anchored(r))
    <3>1. Clean(DropNode(d1, x.id)) /\ (Anchored(d1) => Anchored(DropNode(d1, x.id)))
      BY <1>0, <1>5, DropNodeSame
    <3> QED BY <1>0, <2>1, <3>1
  <2>3. ASSUME NEW d \in DbType, At(d, Content(d1)) PROVE At(OpResult(d, x), Content(r))
    <3>1. Clean(d) /\ Same(d, d1) /\ (Stored(d, x.id) <=> Stored(d1, x.id))
      BY <2>3, AtSame, SameEnds
    <3>2. OpResult(d, x) = IF Stored(d, x.id) THEN DropNode(d, x.id) ELSE d
      BY <1>5 DEF OpResult
    <3>3. Clean(OpResult(d, x)) /\ Same(OpResult(d, x), r)
      <4>1. x.id \in NodeIds
        BY <1>0, <1>5
      <4>2. Clean(DropNode(d, x.id))
        BY <3>1, <4>1, DropNodeSame
      <4>3. Same(DropNode(d, x.id), DropNode(d1, x.id))
        BY <3>1, <4>1, WritesAgree
      <4> QED BY <2>1, <3>1, <3>2, <4>2, <4>3
    <3> QED BY <1>1, <1>3, <2>2, <2>3, <3>3, AtSame
  <2> QED BY <1>1, <1>3, <2>2, <2>3 DEF Leads
<1>6. CASE x.op = "putEdge"
  <2>1. r = SetEdge(d1, x.id, x.edge) /\ x.edge \in EdgeVals
    BY <1>6, BatchOpType DEF OpResult
  <2>2. Stored(d1, x.edge.source) /\ Stored(d1, x.edge.target)
    BY <1>6 DEF OpRejected, EndpointsActive, ActiveNode
  <2>3. Clean(r) /\ (Anchored(d1) => Anchored(r))
    <3>1. x.id \in EdgeIds
      BY <1>0, <1>6
    <3>2. Clean(SetEdge(d1, x.id, x.edge)) /\ (Anchored(d1) => Anchored(SetEdge(d1, x.id, x.edge)))
      BY <2>1, <2>2, <3>1, SetEdgeSame
    <3> QED BY <2>1, <3>2
  <2>4. ASSUME NEW d \in DbType, At(d, Content(d1)) PROVE At(OpResult(d, x), Content(r))
    <3>1. Clean(d) /\ Same(d, d1)
      BY <2>4, AtSame
    <3>2. OpResult(d, x) = SetEdge(d, x.id, x.edge)
      BY <1>6 DEF OpResult
    <3>3. Clean(OpResult(d, x)) /\ Same(OpResult(d, x), r)
      <4>1. x.id \in EdgeIds
        BY <1>0, <1>6
      <4>2. Clean(SetEdge(d, x.id, x.edge))
        BY <2>1, <3>1, <4>1, SetEdgeSame
      <4>3. Same(SetEdge(d, x.id, x.edge), SetEdge(d1, x.id, x.edge))
        BY <2>1, <3>1, <4>1, WritesAgree
      <4> QED BY <2>1, <3>2, <4>2, <4>3
    <3> QED BY <1>1, <1>3, <2>3, <2>4, <3>3, AtSame
  <2> QED BY <1>1, <1>3, <2>3, <2>4 DEF Leads
<1>7. CASE x.op = "removeEdge"
  <2>1. r = DropEdges(d1, {x.id})
    BY <1>7 DEF OpResult
  <2>2. Clean(r) /\ (Anchored(d1) => Anchored(r))
    <3>1. Clean(DropEdges(d1, {x.id})) /\ (Anchored(d1) => Anchored(DropEdges(d1, {x.id})))
      BY DropEdgesSame, Zenon
    <3> QED BY <2>1, <3>1, Zenon
  <2>3. ASSUME NEW d \in DbType, At(d, Content(d1)) PROVE At(OpResult(d, x), Content(r))
    <3>1. Clean(d) /\ Same(d, d1)
      BY <2>3, AtSame
    <3>2. OpResult(d, x) = DropEdges(d, {x.id})
      BY <1>7 DEF OpResult
    <3>3. Clean(OpResult(d, x)) /\ Same(OpResult(d, x), r)
      <4>1. Clean(DropEdges(d, {x.id}))
        BY <3>1, DropEdgesSame
      <4>2. Same(DropEdges(d, {x.id}), DropEdges(d1, {x.id}))
        BY <3>1, WritesAgree
      <4> QED BY <2>1, <3>2, <4>1, <4>2
    <3> QED BY <1>1, <1>3, <2>2, <2>3, <3>3, AtSame
  <2> QED BY <1>1, <1>3, <2>2, <2>3 DEF Leads
<1> QED BY <1>0, <1>4, <1>5, <1>6, <1>7

\* Replays can be put together and taken apart.
LEMMA ReplayNone ==
  ASSUME NEW a, NEW b
  PROVE  Replays(<<>>, a, b) <=> a = b
<1>1. ASSUME a = b PROVE Replays(<<>>, a, b)
  <2> DEFINE tr == [i \in {1} |-> a]
  <2>1. tr[1] = a
    OBVIOUS
  <2> HIDE DEF tr
  <2> QED BY <1>1, <2>1 DEF Replays
<1> QED BY <1>1 DEF Replays

LEMMA ReplayOne ==
  ASSUME NEW x, NEW a, NEW b, Leads(x, a, b)
  PROVE  Replays(<<x>>, a, b)
<1> DEFINE tr == [i \in 1 .. 2 |-> IF i = 1 THEN a ELSE b]
<1>1. tr[1] = a /\ tr[2] = b /\ Len(<<x>>) = 1 /\ <<x>>[1] = x
  OBVIOUS
<1> HIDE DEF tr
<1> QED BY <1>1 DEF Replays

LEMMA ReplayBoth ==
  ASSUME NEW S, NEW p \in Seq(S), NEW q \in Seq(S), NEW a, NEW b, NEW c, Replays(p, a, b), Replays(q, b, c)
  PROVE  Replays(p \o q, a, c)
<1>1. PICK t : t[1] = a /\ t[Len(p) + 1] = b /\ \A i \in 1 .. Len(p) : Leads(p[i], t[i], t[i + 1])
  BY DEF Replays
<1>2. PICK u : u[1] = b /\ u[Len(q) + 1] = c /\ \A i \in 1 .. Len(q) : Leads(q[i], u[i], u[i + 1])
  BY DEF Replays
<1>3. /\ Len(p) \in Nat /\ Len(q) \in Nat /\ Len(p \o q) = Len(p) + Len(q)
      /\ \A i \in 1 .. Len(p) : (p \o q)[i] = p[i]
      /\ \A i \in 1 .. Len(q) : (p \o q)[i + Len(p)] = q[i]
  OBVIOUS
<1> DEFINE tr == [i \in 1 .. (Len(p) + Len(q) + 1) |-> IF i <= Len(p) THEN t[i] ELSE u[i - Len(p)]]
<1>4. tr[1] = a /\ tr[Len(p) + Len(q) + 1] = c
  BY <1>1, <1>2, <1>3
<1>5. ASSUME NEW i \in 1 .. (Len(p) + Len(q)) PROVE Leads((p \o q)[i], tr[i], tr[i + 1])
  <2>1. CASE i <= Len(p)
    <3>1. (p \o q)[i] = p[i] /\ tr[i] = t[i] /\ tr[i + 1] = t[i + 1]
      BY <1>1, <1>2, <1>3, <2>1
    <3>2. Leads(p[i], t[i], t[i + 1])
      BY <1>1, <1>3, <2>1
    <3> QED BY <3>1, <3>2
  <2>2. CASE i > Len(p)
    <3> DEFINE k == i - Len(p)
    <3>1. k \in 1 .. Len(q) /\ i = k + Len(p)
      BY <1>3, <2>2
    <3>2. (p \o q)[i] = q[k] /\ tr[i] = u[k] /\ tr[i + 1] = u[k + 1]
      BY <1>3, <2>2, <3>1
    <3>3. Leads(q[k], u[k], u[k + 1])
      BY <1>2, <3>1
    <3> QED BY <3>2, <3>3
  <2> QED BY <1>3, <2>1, <2>2
<1> HIDE DEF tr
<1> QED BY <1>3, <1>4, <1>5 DEF Replays

LEMMA ReplayFirst ==
  ASSUME NEW S, NEW p \in Seq(S), p # <<>>, NEW a, NEW b, Replays(p, a, b)
  PROVE  \E c : Leads(Head(p), a, c) /\ Replays(Tail(p), c, b)
<1>1. PICK t : t[1] = a /\ t[Len(p) + 1] = b /\ \A i \in 1 .. Len(p) : Leads(p[i], t[i], t[i + 1])
  BY DEF Replays
<1>2. /\ Len(p) \in Nat \ {0} /\ Head(p) = p[1] /\ Len(Tail(p)) = Len(p) - 1
      /\ \A i \in 1 .. Len(p) - 1 : Tail(p)[i] = p[i + 1]
  OBVIOUS
<1>3. Leads(Head(p), a, t[2])
  BY <1>1, <1>2
<1> DEFINE u == [i \in 1 .. Len(p) |-> t[i + 1]]
<1>4. u[1] = t[2] /\ u[Len(Tail(p)) + 1] = b
  BY <1>1, <1>2
<1>5. ASSUME NEW i \in 1 .. Len(Tail(p)) PROVE Leads(Tail(p)[i], u[i], u[i + 1])
  <2>1. i + 1 \in 1 .. Len(p) /\ u[i] = t[i + 1] /\ u[i + 1] = t[i + 1 + 1] /\ Tail(p)[i] = p[i + 1]
    BY <1>2
  <2>2. Leads(p[i + 1], t[i + 1], t[i + 1 + 1])
    BY <1>1, <2>1
  <2> QED BY <2>1, <2>2
<1> HIDE DEF u
<1> QED BY <1>3, <1>4, <1>5 DEF Replays

-----------------------------------------------------------------------------
(* What an entry undoes and redoes.                                          *)

LEMMA EntryConnects ==
  ASSUME NEW d1 \in DbType, Clean(d1), NEW d2 \in DbType, Clean(d2), NEW x \in JournalEntries, x.kind # "batch",
         \A d \in DbType : Clean(d) /\ Same(d, d1) =>
            Applicable(d, x) /\ Clean(ApplyForward(d, x)) /\ Same(ApplyForward(d, x), d2),
         \A d \in DbType : Clean(d) /\ Same(d, d2) =>
            Applicable(d, x) /\ Clean(ApplyInverse(d, x)) /\ Same(ApplyInverse(d, x), d1)
  PROVE  Connects(x, Content(d1), Content(d2))
<1>1. ASSUME NEW d \in DbType, At(d, Content(d1)) PROVE Applicable(d, x) /\ At(ApplyForward(d, x), Content(d2))
  <2>1. Clean(d) /\ Same(d, d1)
    BY <1>1, AtSame
  <2>2. Applicable(d, x) /\ Clean(ApplyForward(d, x)) /\ Same(ApplyForward(d, x), d2)
    BY <2>1
  <2>3. ApplyForward(d, x) \in DbType
    BY <2>2, ApplyType
  <2> QED BY <2>2, <2>3, AtSame
<1>2. ASSUME NEW d \in DbType, At(d, Content(d2)) PROVE Applicable(d, x) /\ At(ApplyInverse(d, x), Content(d1))
  <2>1. Clean(d) /\ Same(d, d2)
    BY <1>2, AtSame
  <2>2. Applicable(d, x) /\ Clean(ApplyInverse(d, x)) /\ Same(ApplyInverse(d, x), d1)
    BY <2>1
  <2>3. ApplyInverse(d, x) \in DbType
    BY <2>2, ApplyType
  <2> QED BY <2>2, <2>3, AtSame
<1> QED BY <1>1, <1>2 DEF Connects

\* An edge that is removed: redo removes it, undo puts the record back.
LEMMA EdgeRemoveConnects ==
  ASSUME NEW d1, Point(d1), NEW e \in EdgeIds, d1.edges[e] # None
  PROVE  /\ Point(DropEdges(d1, {e}))
         /\ Connects([kind |-> "edge-remove", id |-> e, edge |-> d1.edges[e]], Content(d1), Content(DropEdges(d1, {e})))
<1> DEFINE x == [kind |-> "edge-remove", id |-> e, edge |-> d1.edges[e]]
           d2 == DropEdges(d1, {e})
<1>0. d1 \in DbType /\ Clean(d1) /\ Anchored(d1) /\ d1.edges[e] \in EdgeVals
  BY StoredType DEF Point
<1>1. d2 \in DbType /\ Clean(d2) /\ Anchored(d2)
  BY <1>0, DropEdgesSame, DropEdgesType
<1>2. x \in JournalEntries
  BY <1>0 DEF JournalEntries, EdgeEntries
<1>3. ASSUME NEW d \in DbType, Clean(d), Same(d, d1)
      PROVE  Applicable(d, x) /\ Clean(ApplyForward(d, x)) /\ Same(ApplyForward(d, x), d2)
  <2>1. Applicable(d, x) /\ ApplyForward(d, x) = DropEdges(d, {e})
    BY DEF Applicable, ApplyForward
  <2>2. Clean(DropEdges(d, {e}))
    BY <1>3, DropEdgesSame
  <2>3. Same(DropEdges(d, {e}), DropEdges(d1, {e}))
    BY <1>0, <1>3, WritesAgree
  <2> QED BY <2>1, <2>2, <2>3
<1>4. ASSUME NEW d \in DbType, Clean(d), Same(d, d2)
      PROVE  Applicable(d, x) /\ Clean(ApplyInverse(d, x)) /\ Same(ApplyInverse(d, x), d1)
  <2>1. Applicable(d, x) /\ ApplyInverse(d, x) = SetEdge(d, e, d1.edges[e])
    BY DEF Applicable, ApplyInverse
  <2>2. /\ Clean(SetEdge(d, e, d1.edges[e])) /\ SetEdge(d, e, d1.edges[e]).nodes = d.nodes
        /\ SetEdge(d, e, d1.edges[e]).edges = [d.edges EXCEPT ![e] = d1.edges[e]]
    BY <1>0, <1>4, SetEdgeSame
  <2>3. d2.nodes = d1.nodes /\ d2.edges = [y \in EdgeIds |-> IF y \in {e} THEN None ELSE d1.edges[y]]
    BY <1>0, DropEdgesSame
  <2>4. Same(SetEdge(d, e, d1.edges[e]), d1)
    <3>1. SetEdge(d, e, d1.edges[e]).nodes = d1.nodes
      BY <1>4, <2>2, <2>3 DEF Same
    <3>2. d.edges = [y \in EdgeIds |-> d.edges[y]]
      BY <1>4 DEF DbType
    <3>3. ASSUME NEW y \in EdgeIds, y # e PROVE d2.edges[y] = d1.edges[y] /\ SetEdge(d, e, d1.edges[e]).edges[y] = d.edges[y]
      BY <2>2, <2>3, <3>2, <3>3
    <3>4. SetEdge(d, e, d1.edges[e]).edges[e] = d1.edges[e]
      BY <2>2, <3>2
    <3>5. ASSUME NEW y \in EdgeIds PROVE SameLink(SetEdge(d, e, d1.edges[e]).edges[y], d1.edges[y])
      <4>1. CASE y = e
        BY <3>4, <4>1 DEF SameLink
      <4>2. CASE y # e
        <5>1. SameLink(d.edges[y], d2.edges[y])
          BY <1>4 DEF Same
        <5> QED BY <3>3, <4>2, <5>1
      <4> QED BY <4>1, <4>2
    <3> QED BY <3>1, <3>5 DEF Same
  <2> QED BY <2>1, <2>2, <2>4
<1> HIDE DEF x, d2
<1>5. x.kind # "batch"
  BY DEF x
<1>6. Connects(x, Content(d1), Content(d2))
  BY <1>0, <1>1, <1>2, <1>3, <1>4, <1>5, EntryConnects
<1> QED BY <1>1, <1>6 DEF x, d2, Point

\* A node that no edge touches is deleted.
LEMMA NodeDeleteConnects ==
  ASSUME NEW d1, Point(d1), NEW n \in NodeIds, Stored(d1, n), Touching(d1, n) = {}
  PROVE  Connects([kind |-> "node-delete", id |-> n, node |-> d1.nodes[n]], Content(d1), Content(DropNode(d1, n)))
<1> DEFINE x == [kind |-> "node-delete", id |-> n, node |-> d1.nodes[n]]
           d2 == DropNode(d1, n)
<1>0. d1 \in DbType /\ Clean(d1) /\ d1.nodes[n] \in NodeVals
  BY StoredType DEF Point
<1>1. d2 \in DbType /\ Clean(d2)
  BY <1>0, DropNodeSame, DropNodeType
<1>2. x \in JournalEntries
  BY <1>0 DEF JournalEntries, NodeEntries
<1>3. ASSUME NEW d \in DbType, Clean(d), Same(d, d1)
      PROVE  Applicable(d, x) /\ Clean(ApplyForward(d, x)) /\ Same(ApplyForward(d, x), d2)
  <2>1. Applicable(d, x) /\ ApplyForward(d, x) = DropNode(d, n)
    BY DEF Applicable, ApplyForward
  <2>2. Clean(DropNode(d, n))
    BY <1>3, DropNodeSame
  <2>3. Same(DropNode(d, n), DropNode(d1, n))
    BY <1>0, <1>3, WritesAgree
  <2> QED BY <2>1, <2>2, <2>3
<1>4. ASSUME NEW d \in DbType, Clean(d), Same(d, d2)
      PROVE  Applicable(d, x) /\ Clean(ApplyInverse(d, x)) /\ Same(ApplyInverse(d, x), d1)
  <2>1. Applicable(d, x) /\ ApplyInverse(d, x) = SetNode(d, n, d1.nodes[n])
    BY DEF Applicable, ApplyInverse
  <2>2. /\ Clean(SetNode(d, n, d1.nodes[n])) /\ SetNode(d, n, d1.nodes[n]).edges = d.edges
        /\ SetNode(d, n, d1.nodes[n]).nodes = [d.nodes EXCEPT ![n] = d1.nodes[n]]
    BY <1>0, <1>4, SetNodeSame
  <2>3. d2.nodes = [d1.nodes EXCEPT ![n] = None] /\ d2.edges = [y \in EdgeIds |-> IF y \in Touching(d1, n) THEN None ELSE d1.edges[y]]
    BY <1>0, DropNodeSame
  <2>4. \A y \in EdgeIds : d2.edges[y] = d1.edges[y]
    BY <2>3
  <2>5. [d.nodes EXCEPT ![n] = d1.nodes[n]] = d1.nodes
    BY <1>0, <1>4, <2>3 DEF Same, DbType
  <2>6. Same(SetNode(d, n, d1.nodes[n]), d1)
    BY <1>4, <2>2, <2>4, <2>5 DEF Same
  <2> QED BY <2>1, <2>2, <2>6
<1> HIDE DEF x, d2
<1>5. x.kind # "batch"
  BY DEF x
<1>6. Connects(x, Content(d1), Content(d2))
  BY <1>0, <1>1, <1>2, <1>3, <1>4, <1>5, EntryConnects
<1> QED BY <1>6 DEF x, d2

\* A node that is put, new or changed (putNodeSync).
LEMMA NodeEntryConnects ==
  ASSUME NEW d1, Point(d1), NEW n \in NodeIds, NEW v \in NodeVals
  PROVE  /\ Point(SetNode(d1, n, v))
         /\ Connects(NodeEntry(d1, n, v), Content(d1), Content(SetNode(d1, n, v)))
<1> DEFINE x == NodeEntry(d1, n, v)
           d2 == SetNode(d1, n, v)
<1>0. d1 \in DbType /\ Clean(d1) /\ Anchored(d1) /\ (Stored(d1, n) => d1.nodes[n] \in NodeVals)
  BY StoredType DEF Point
<1>1. /\ d2 \in DbType /\ Clean(d2) /\ Anchored(d2)
      /\ d2.nodes = [d1.nodes EXCEPT ![n] = v] /\ d2.edges = d1.edges
  BY <1>0, SetNodeSame, SetNodeType
<1>2. x \in JournalEntries
  BY <1>0, NodeEntryType
<1>3. v # None
  BY NoneAssumption
<1> HIDE DEF d2
<1>4. CASE ~Stored(d1, n)
  <2>1. x = [kind |-> "node-add", id |-> n, node |-> v]
    BY <1>4 DEF NodeEntry
  <2>2. ASSUME NEW d \in DbType, Clean(d), Same(d, d1)
        PROVE  Applicable(d, x) /\ Clean(ApplyForward(d, x)) /\ Same(ApplyForward(d, x), d2)
    <3>1. Applicable(d, x) /\ ApplyForward(d, x) = SetNode(d, n, v)
      BY <2>1 DEF Applicable, ApplyForward
    <3>2. Clean(SetNode(d, n, v))
      BY <2>2, SetNodeSame
    <3>3. Same(SetNode(d, n, v), SetNode(d1, n, v))
      BY <1>0, <2>2, WritesAgree
    <3> QED BY <3>1, <3>2, <3>3 DEF d2
  <2>3. ASSUME NEW d \in DbType, Clean(d), Same(d, d2)
        PROVE  Applicable(d, x) /\ Clean(ApplyInverse(d, x)) /\ Same(ApplyInverse(d, x), d1)
    <3>1. Applicable(d, x) /\ ApplyInverse(d, x) = DropNode(d, n)
      BY <2>1 DEF Applicable, ApplyInverse
    <3>2. /\ Clean(DropNode(d, n)) /\ DropNode(d, n).nodes = [d.nodes EXCEPT ![n] = None]
          /\ DropNode(d, n).edges = [y \in EdgeIds |-> IF y \in Touching(d, n) THEN None ELSE d.edges[y]]
      BY <2>3, DropNodeSame
    <3>3. Touching(d, n) = {}
      <4>1. Touching(d, n) = Touching(d2, n)
        BY <2>3, SameEnds
      <4>2. Touching(d2, n) = Touching(d1, n)
        BY <1>1 DEF Touching
      <4>3. Touching(d1, n) = {}
        BY <1>0, <1>4 DEF Touching, Anchored
      <4> QED BY <4>1, <4>2, <4>3
    <3>4. DropNode(d, n).nodes = d1.nodes
      BY <1>0, <1>1, <1>4, <2>3, <3>2 DEF Same, DbType, Stored
    <3>5. \A y \in EdgeIds : DropNode(d, n).edges[y] = d.edges[y]
      BY <3>2, <3>3
    <3>6. Same(DropNode(d, n), d1)
      BY <1>1, <2>3, <3>4, <3>5 DEF Same
    <3> QED BY <3>1, <3>2, <3>6
  <2>4. x.kind # "batch"
    BY <2>1
  <2> HIDE DEF x
  <2> QED BY <1>0, <1>1, <1>2, <2>2, <2>3, <2>4, EntryConnects DEF Point, x, d2
<1>5. CASE Stored(d1, n)
  <2>0. d1.nodes[n] \in NodeVals
    BY <1>0, <1>5
  <2>1. /\ x.id = n /\ x.kind \in {"node-update", "content"}
        /\ x.kind = "node-update" => x.before = d1.nodes[n] /\ x.after = v
        /\ x.kind = "content" => x.before = d1.nodes[n].props /\ x.after = v.props /\ d1.nodes[n].type = v.type
    BY <1>5 DEF NodeEntry
  <2> HIDE DEF x
  <2>2. ASSUME NEW d \in DbType, Clean(d), d.nodes[n] # None
        PROVE  Applicable(d, x)
    BY <2>1, <2>2 DEF Applicable, Stored
  <2>3. /\ [d1.nodes[n] EXCEPT !.props = v.props] = v \/ d1.nodes[n].type # v.type
        /\ [v EXCEPT !.props = d1.nodes[n].props] = d1.nodes[n] \/ d1.nodes[n].type # v.type
    BY <2>0 DEF NodeVals
  <2>4. ASSUME NEW d \in DbType, Clean(d), Same(d, d1)
        PROVE  Applicable(d, x) /\ Clean(ApplyForward(d, x)) /\ Same(ApplyForward(d, x), d2)
    <3>1. d.nodes[n] = d1.nodes[n] /\ d.nodes[n] # None
      BY <1>5, <2>4 DEF Same, Stored
    <3>2. ApplyForward(d, x) = EditNode(d, n, v)
      BY <2>1, <2>3, <3>1 DEF ApplyForward, Edited
    <3>3. ApplyForward(d, x) = SetNode(d, n, v)
      BY <2>4, <3>2, EditSame
    <3>4. Clean(SetNode(d, n, v))
      BY <2>4, SetNodeSame
    <3>5. Same(SetNode(d, n, v), SetNode(d1, n, v))
      BY <1>0, <2>4, WritesAgree
    <3> QED BY <2>2, <2>4, <3>1, <3>3, <3>4, <3>5 DEF d2
  <2>5. ASSUME NEW d \in DbType, Clean(d), Same(d, d2)
        PROVE  Applicable(d, x) /\ Clean(ApplyInverse(d, x)) /\ Same(ApplyInverse(d, x), d1)
    <3>1. d.nodes[n] = v
      BY <1>0, <1>1, <2>5 DEF Same, DbType
    <3>2. ApplyInverse(d, x) = EditNode(d, n, d1.nodes[n])
      BY <2>1, <2>3, <3>1 DEF ApplyInverse, Edited
    <3>3. ApplyInverse(d, x) = SetNode(d, n, d1.nodes[n])
      BY <2>0, <2>5, <3>2, EditSame
    <3>4. /\ Clean(SetNode(d, n, d1.nodes[n])) /\ SetNode(d, n, d1.nodes[n]).edges = d.edges
          /\ SetNode(d, n, d1.nodes[n]).nodes = [d.nodes EXCEPT ![n] = d1.nodes[n]]
      BY <2>0, <2>5, SetNodeSame
    <3>5. [d.nodes EXCEPT ![n] = d1.nodes[n]] = d1.nodes
      BY <1>0, <1>1, <2>5 DEF Same, DbType
    <3>6. Same(SetNode(d, n, d1.nodes[n]), d1)
      BY <1>1, <2>5, <3>4, <3>5 DEF Same
    <3> QED BY <1>3, <2>2, <2>5, <3>1, <3>3, <3>4, <3>6
  <2>6. x.kind # "batch"
    BY <2>1
  <2> QED BY <1>0, <1>1, <1>2, <2>4, <2>5, <2>6, EntryConnects DEF Point, x, d2
<1> QED BY <1>4, <1>5

\* An edge that is put, new or changed (putEdgeSync).
LEMMA EdgeEntryConnects ==
  ASSUME NEW d1, Point(d1), NEW e \in EdgeIds, NEW v \in EdgeVals, EndpointsActive(d1, v)
  PROVE  /\ Point(SetEdge(d1, e, v))
         /\ Connects(EdgeEntry(d1, e, v), Content(d1), Content(SetEdge(d1, e, v)))
<1> DEFINE x == EdgeEntry(d1, e, v)
           d2 == SetEdge(d1, e, v)
<1>0. d1 \in DbType /\ Clean(d1) /\ Anchored(d1) /\ (d1.edges[e] # None => d1.edges[e] \in EdgeVals)
  BY StoredType DEF Point
<1>1. /\ d2 \in DbType /\ Clean(d2) /\ Anchored(d2)
      /\ d2.nodes = d1.nodes /\ d2.edges = [d1.edges EXCEPT ![e] = v]
  BY <1>0, SetEdgeSame, SetEdgeType DEF EndpointsActive, ActiveNode
<1>2. x \in JournalEntries
  BY <1>0, EdgeEntryType
<1>3. v # None
  BY NoneAssumption
<1> HIDE DEF d2
<1>4. CASE d1.edges[e] = None
  <2>1. x = [kind |-> "edge-add", id |-> e, edge |-> v]
    BY <1>4 DEF EdgeEntry
  <2>2. ASSUME NEW d \in DbType, Clean(d), Same(d, d1)
        PROVE  Applicable(d, x) /\ Clean(ApplyForward(d, x)) /\ Same(ApplyForward(d, x), d2)
    <3>1. Applicable(d, x) /\ ApplyForward(d, x) = SetEdge(d, e, v)
      BY <2>1 DEF Applicable, ApplyForward
    <3>2. Clean(SetEdge(d, e, v))
      BY <2>2, SetEdgeSame
    <3>3. Same(SetEdge(d, e, v), SetEdge(d1, e, v))
      BY <1>0, <2>2, WritesAgree
    <3> QED BY <3>1, <3>2, <3>3 DEF d2
  <2>3. ASSUME NEW d \in DbType, Clean(d), Same(d, d2)
        PROVE  Applicable(d, x) /\ Clean(ApplyInverse(d, x)) /\ Same(ApplyInverse(d, x), d1)
    <3>1. Applicable(d, x) /\ ApplyInverse(d, x) = DropEdges(d, {e})
      BY <2>1 DEF Applicable, ApplyInverse
    <3>2. /\ Clean(DropEdges(d, {e})) /\ DropEdges(d, {e}).nodes = d.nodes
          /\ DropEdges(d, {e}).edges = [y \in EdgeIds |-> IF y \in {e} THEN None ELSE d.edges[y]]
      BY <2>3, DropEdgesSame
    <3>3. Same(DropEdges(d, {e}), d1)
      BY <1>0, <1>1, <1>4, <2>3, <3>2 DEF Same, SameLink, DbType
    <3> QED BY <3>1, <3>2, <3>3
  <2>4. x.kind # "batch"
    BY <2>1
  <2> HIDE DEF x
  <2> QED BY <1>0, <1>1, <1>2, <2>2, <2>3, <2>4, EntryConnects DEF Point, x, d2
<1>5. CASE d1.edges[e] # None
  <2> DEFINE old == d1.edges[e]
  <2>0. old \in EdgeVals
    BY <1>0, <1>5
  <2>1. /\ x.id = e /\ x.kind \in {"role-change", "edge-retarget", "edge-update"}
        /\ x.kind = "role-change" => x.before = old.role /\ x.after = v.role /\ EndsOf(old) = EndsOf(v)
        /\ x.kind = "edge-retarget" => x.before = EndsOf(old) /\ x.after = EndsOf(v) /\ old.role = v.role
        /\ x.kind = "edge-update" => x.before = old /\ x.after = v
    BY <1>5 DEF EdgeEntry
  <2> HIDE DEF x, old
  <2>2. ASSUME NEW w \in EdgeVals, NEW from \in EdgeVals, NEW to,
               x.kind = "role-change" => to = w.role /\ EndsOf(from) = EndsOf(w),
               x.kind = "edge-retarget" => to = EndsOf(w) /\ from.role = w.role,
               x.kind = "edge-update" => to = w,
               NEW d \in DbType, Clean(d), d.edges[e] # None, LinkOf(d.edges[e]) = LinkOf(from)
        PROVE  \E u \in EdgeVals : Edited(d, x, to) = SetEdge(d, e, u) /\ LinkOf(u) = LinkOf(w)
    <3>0. d.edges[e] \in EdgeVals
      BY <2>2, StoredType
    <3>1. CASE x.kind = "role-change"
      <4> DEFINE u == [d.edges[e] EXCEPT !.role = to]
      <4>1. u \in EdgeVals /\ LinkOf(u) = LinkOf(w)
        BY <2>2, <3>0, <3>1 DEF EdgeVals, LinkOf, EndsOf
      <4>2. Edited(d, x, to) = EditEdge(d, e, u)
        BY <2>1, <3>1 DEF Edited
      <4> HIDE DEF u
      <4> QED BY <2>2, <4>1, <4>2, EditSame
    <3>2. CASE x.kind = "edge-retarget"
      <4> DEFINE u == [d.edges[e] EXCEPT !.source = to.source, !.target = to.target]
      <4>0. /\ to.source = w.source /\ to.target = w.target
            /\ w.source \in NodeIds /\ w.target \in NodeIds
            /\ d.edges[e].role = w.role
        <5>1. d.edges[e].role = from.role
          BY <2>2 DEF LinkOf
        <5> QED BY <2>2, <3>2, <5>1 DEF EndsOf, EdgeVals
      <4>1. u \in EdgeVals /\ LinkOf(u) = LinkOf(w)
        <5>1. /\ u \in EdgeVals /\ u.source = to.source /\ u.target = to.target /\ u.role = d.edges[e].role
          BY <3>0, <4>0 DEF EdgeVals
        <5> QED BY <4>0, <5>1 DEF LinkOf
      <4>2. Edited(d, x, to) = EditEdge(d, e, u)
        BY <2>1, <3>2 DEF Edited
      <4> HIDE DEF u
      <4> QED BY <2>2, <4>1, <4>2, EditSame
    <3>3. CASE x.kind = "edge-update"
      <4>1. Edited(d, x, to) = EditEdge(d, e, w)
        BY <2>1, <2>2, <3>3 DEF Edited
      <4> QED BY <2>2, <4>1, EditSame
    <3> QED BY <2>1, <3>1, <3>2, <3>3
  <2>3. ASSUME NEW d \in DbType, Clean(d), Same(d, d1)
        PROVE  Applicable(d, x) /\ Clean(ApplyForward(d, x)) /\ Same(ApplyForward(d, x), d2)
    <3>1. d.edges[e] # None /\ LinkOf(d.edges[e]) = LinkOf(old)
      BY <1>5, <2>3 DEF Same, SameLink, old
    <3>2. Applicable(d, x) /\ ApplyForward(d, x) = Edited(d, x, x.after)
      BY <2>1, <3>1 DEF Applicable, ApplyForward
    <3>3. PICK u \in EdgeVals : Edited(d, x, x.after) = SetEdge(d, e, u) /\ LinkOf(u) = LinkOf(v)
      BY <2>0, <2>1, <2>2, <2>3, <3>1
    <3>4. Clean(SetEdge(d, e, u))
      BY <2>3, SetEdgeSame
    <3>5. Same(SetEdge(d, e, u), SetEdge(d1, e, v))
      BY <1>0, <2>3, <3>3, WritesAgree
    <3> QED BY <3>2, <3>3, <3>4, <3>5 DEF d2
  <2>4. ASSUME NEW d \in DbType, Clean(d), Same(d, d2)
        PROVE  Applicable(d, x) /\ Clean(ApplyInverse(d, x)) /\ Same(ApplyInverse(d, x), d1)
    <3>1. d.edges[e] # None /\ LinkOf(d.edges[e]) = LinkOf(v)
      BY <1>0, <1>1, <1>3, <2>4 DEF Same, SameLink, DbType
    <3>2. Applicable(d, x) /\ ApplyInverse(d, x) = Edited(d, x, x.before)
      BY <2>1, <3>1 DEF Applicable, ApplyInverse
    <3>3. PICK u \in EdgeVals : Edited(d, x, x.before) = SetEdge(d, e, u) /\ LinkOf(u) = LinkOf(old)
      BY <2>0, <2>1, <2>2, <2>4, <3>1
    <3>4. /\ Clean(SetEdge(d, e, u)) /\ SetEdge(d, e, u).nodes = d.nodes
          /\ SetEdge(d, e, u).edges = [d.edges EXCEPT ![e] = u]
      BY <2>4, SetEdgeSame
    <3>5. u # None
      BY NoneAssumption
    <3>6. ASSUME NEW y \in EdgeIds PROVE SameLink(SetEdge(d, e, u).edges[y], d1.edges[y])
      <4>1. CASE y = e
        BY <1>5, <2>4, <3>3, <3>4, <3>5, <4>1 DEF SameLink, old, DbType
      <4>2. CASE y # e
        BY <1>0, <1>1, <2>4, <3>4, <4>2 DEF Same, DbType
      <4> QED BY <4>1, <4>2
    <3>7. Same(SetEdge(d, e, u), d1)
      BY <1>1, <2>4, <3>4, <3>6 DEF Same
    <3> QED BY <3>2, <3>3, <3>4, <3>7
  <2>5. x.kind # "batch"
    BY <2>1
  <2> QED BY <1>0, <1>1, <1>2, <2>3, <2>4, <2>5, EntryConnects DEF Point, x, d2
<1> QED BY <1>4, <1>5

-----------------------------------------------------------------------------
(* A node removal, edge by edge.                                             *)

\* An order of the touching edges has each of them once.
LEMMA OrderCovers ==
  ASSUME NEW d \in DbType, NEW n \in NodeIds, NEW order \in Orders(Touching(d, n))
  PROVE  /\ order \in Seq(EdgeIds) /\ Len(order) \in Nat /\ DOMAIN order = 1 .. Len(order)
         /\ \A i, k \in 1 .. Len(order) : order[i] = order[k] => i = k
         /\ \A i \in 1 .. Len(order) : order[i] \in Touching(d, n)
         /\ \A e \in Touching(d, n) : \E i \in 1 .. Len(order) : order[i] = e
<1> DEFINE S == Touching(d, n)
           m == Cardinality(S)
<1>1. IsFiniteSet(S) /\ m \in Nat
  BY FiniteIdsAssumption, FS_Subset, FS_CardinalityType DEF Touching
<1>2. order \in [1 .. m -> S] /\ \A i, k \in 1 .. m : order[i] = order[k] => i = k
  BY DEF Orders
<1> HIDE DEF m, S
<1>3. order \in Seq(EdgeIds) /\ Len(order) \in Nat /\ DOMAIN order = 1 .. Len(order)
  BY OrdersType, LenProperties
<1>4. Len(order) = m
  BY <1>1, <1>2, <1>3
<1>5. order \in Injection(1 .. m, S)
  BY <1>2 DEF Injection, IsInjective
<1>6. Cardinality(1 .. m) = m
  BY <1>1, FS_Interval
<1>7. order \in Surjection(1 .. m, S)
  <2>1. Cardinality(1 .. m) = Cardinality(S) <=> order \in Surjection(1 .. m, S)
    BY <1>1, <1>5, FS_Injection
  <2> QED BY <1>6, <2>1 DEF m
<1>8. \A e \in S : \E i \in 1 .. m : order[i] = e
  BY <1>7 DEF Surjection
<1> QED BY <1>2, <1>3, <1>4, <1>8 DEF S

\* The store with some of the touching edges gone.
Without(d, order, I) == DropEdges(d, {order[k] : k \in I})

LEMMA WithoutSame ==
  ASSUME NEW d, Point(d), NEW order, NEW I
  PROVE  /\ Point(Without(d, order, I)) /\ Without(d, order, I).nodes = d.nodes
         /\ \A e \in EdgeIds :
              Without(d, order, I).edges[e] = IF \E k \in I : order[k] = e THEN None ELSE d.edges[e]
<1> DEFINE E == {order[k] : k \in I}
<1>1. \A e : e \in E <=> \E k \in I : order[k] = e
  OBVIOUS
<1>2. d \in DbType /\ Clean(d) /\ Anchored(d)
  BY DEF Point
<1> HIDE DEF E
<1>3. /\ DropEdges(d, E) \in DbType /\ Clean(DropEdges(d, E)) /\ Anchored(DropEdges(d, E))
      /\ DropEdges(d, E).nodes = d.nodes
      /\ DropEdges(d, E).edges = [e \in EdgeIds |-> IF e \in E THEN None ELSE d.edges[e]]
  BY <1>2, DropEdgesSame, DropEdgesType
<1>4. Without(d, order, I) = DropEdges(d, E)
  BY DEF Without, E
<1> QED BY <1>1, <1>3, <1>4 DEF Point

\* Each entry the removal journals connects the contents around it.
LEMMA RemovalChain ==
  ASSUME NEW d1, Point(d1), NEW n \in NodeIds, Stored(d1, n), NEW order \in Orders(Touching(d1, n))
  PROVE  /\ Content(Without(d1, order, 1 .. 0)) = Content(d1)
         /\ \A i \in 1 .. Len(order) :
              Connects([kind |-> "edge-remove", id |-> order[i], edge |-> d1.edges[order[i]]],
                       Content(Without(d1, order, 1 .. (i - 1))), Content(Without(d1, order, 1 .. i)))
         /\ Connects([kind |-> "node-delete", id |-> n, node |-> d1.nodes[n]],
                     Content(Without(d1, order, 1 .. Len(order))), Content(DropNode(d1, n)))
<1> DEFINE m == Len(order)
           D(i) == Without(d1, order, 1 .. i)
<1>1. d1 \in DbType /\ Clean(d1)
  BY DEF Point
<1>2. /\ m \in Nat /\ DOMAIN order = 1 .. m
      /\ \A i, k \in 1 .. m : order[i] = order[k] => i = k
      /\ \A i \in 1 .. m : order[i] \in Touching(d1, n)
      /\ \A e \in Touching(d1, n) : \E i \in 1 .. m : order[i] = e
  BY <1>1, OrderCovers
<1>3. ASSUME NEW i
      PROVE  /\ Point(D(i)) /\ D(i) \in DbType /\ Clean(D(i)) /\ D(i).nodes = d1.nodes
             /\ \A e \in EdgeIds : D(i).edges[e] = IF \E k \in 1 .. i : order[k] = e THEN None ELSE d1.edges[e]
  <2> DEFINE I == 1 .. i
  <2> HIDE DEF I
  <2>1. /\ Point(Without(d1, order, I)) /\ Without(d1, order, I).nodes = d1.nodes
        /\ \A e \in EdgeIds :
             Without(d1, order, I).edges[e] = IF \E k \in I : order[k] = e THEN None ELSE d1.edges[e]
    BY WithoutSame
  <2>2. D(i) = Without(d1, order, I)
    BY DEF I
  <2> HIDE DEF D
  <2>3. Point(D(i)) /\ D(i).nodes = d1.nodes
    BY <2>1, <2>2
  <2>4. \A e \in EdgeIds : D(i).edges[e] = IF \E k \in I : order[k] = e THEN None ELSE d1.edges[e]
    BY <2>1, <2>2
  <2> QED BY <2>3, <2>4 DEF Point, I
<1> HIDE DEF D, m
<1>4. Content(D(0)) = Content(d1)
  <2>1. Same(D(0), d1)
    BY <1>3 DEF Same, SameLink
  <2> QED BY <1>1, <1>3, <2>1, SameContent
<1>5. ASSUME NEW i \in 1 .. m
      PROVE  Connects([kind |-> "edge-remove", id |-> order[i], edge |-> d1.edges[order[i]]],
                      Content(D(i - 1)), Content(D(i)))
  <2> DEFINE e == order[i]
             b == D(i - 1)
  <2>1. e \in EdgeIds /\ d1.edges[e] # None
    BY <1>2 DEF Touching
  <2>2. b.edges[e] = d1.edges[e]
    <3>1. ~\E k \in 1 .. (i - 1) : order[k] = e
      BY <1>2
    <3> QED BY <1>3, <2>1, <3>1
  <2>3. Point(b) /\ b \in DbType /\ Clean(b)
    BY <1>3
  <2>4. Connects([kind |-> "edge-remove", id |-> e, edge |-> b.edges[e]], Content(b), Content(DropEdges(b, {e})))
    BY <2>1, <2>2, <2>3, EdgeRemoveConnects
  <2>5. Content(DropEdges(b, {e})) = Content(D(i))
    <3>1. /\ DropEdges(b, {e}) \in DbType /\ Clean(DropEdges(b, {e})) /\ DropEdges(b, {e}).nodes = b.nodes
          /\ DropEdges(b, {e}).edges = [y \in EdgeIds |-> IF y \in {e} THEN None ELSE b.edges[y]]
      BY <2>3, DropEdgesSame, DropEdgesType
    <3>2. ASSUME NEW y \in EdgeIds PROVE DropEdges(b, {e}).edges[y] = D(i).edges[y]
      <4>1. (\E k \in 1 .. i : order[k] = y) <=> y = e \/ \E k \in 1 .. (i - 1) : order[k] = y
        BY <1>2
      <4>2. D(i).edges[y] = IF \E k \in 1 .. i : order[k] = y THEN None ELSE d1.edges[y]
        BY <1>3
      <4>3. b.edges[y] = IF \E k \in 1 .. (i - 1) : order[k] = y THEN None ELSE d1.edges[y]
        BY <1>3
      <4> HIDE DEF b, e
      <4>4. DropEdges(b, {e}).edges[y] = IF y = e THEN None ELSE b.edges[y]
        BY <3>1
      <4> QED BY <4>1, <4>2, <4>3, <4>4
    <3>3. Same(DropEdges(b, {e}), D(i))
      BY <1>3, <3>1, <3>2 DEF Same, SameLink
    <3> QED BY <1>3, <3>1, <3>3, SameContent
  <2> QED BY <2>2, <2>4, <2>5
<1>6. Connects([kind |-> "node-delete", id |-> n, node |-> d1.nodes[n]], Content(D(m)), Content(DropNode(d1, n)))
  <2> DEFINE b == D(m)
  <2>1. Point(b) /\ b \in DbType /\ Clean(b) /\ b.nodes = d1.nodes
    BY <1>3
  <2>2. \A e \in EdgeIds : b.edges[e] = IF e \in Touching(d1, n) THEN None ELSE d1.edges[e]
    <3>1. ASSUME NEW e \in EdgeIds PROVE (\E k \in 1 .. m : order[k] = e) <=> e \in Touching(d1, n)
      BY <1>2
    <3> QED BY <1>3, <3>1
  <2>3. Touching(b, n) = {}
    BY <2>2 DEF Touching
  <2> HIDE DEF b
  <2>4. Connects([kind |-> "node-delete", id |-> n, node |-> b.nodes[n]], Content(b), Content(DropNode(b, n)))
    BY <2>1, <2>3, NodeDeleteConnects DEF Stored
  <2>5. Content(DropNode(b, n)) = Content(DropNode(d1, n))
    <3>1. /\ DropNode(b, n) \in DbType /\ Clean(DropNode(b, n)) /\ DropNode(b, n).nodes = [b.nodes EXCEPT ![n] = None]
          /\ DropNode(b, n).edges = [y \in EdgeIds |-> IF y \in Touching(b, n) THEN None ELSE b.edges[y]]
      BY <2>1, DropNodeSame, DropNodeType
    <3>2. /\ DropNode(d1, n) \in DbType /\ Clean(DropNode(d1, n)) /\ DropNode(d1, n).nodes = [d1.nodes EXCEPT ![n] = None]
          /\ DropNode(d1, n).edges = [y \in EdgeIds |-> IF y \in Touching(d1, n) THEN None ELSE d1.edges[y]]
      BY <1>1, DropNodeSame, DropNodeType
    <3>3. \A y \in EdgeIds : DropNode(b, n).edges[y] = DropNode(d1, n).edges[y]
      BY <2>2, <2>3, <3>1, <3>2
    <3>4. Same(DropNode(b, n), DropNode(d1, n))
      BY <2>1, <3>1, <3>2, <3>3 DEF Same, SameLink
    <3> QED BY <3>1, <3>2, <3>4, SameContent
  <2> QED BY <2>1, <2>4, <2>5 DEF b
<1> QED BY <1>4, <1>5, <1>6 DEF D, m

-----------------------------------------------------------------------------
(* The operations that take a batch operation back.                          *)

LEMMA LeadsBack ==
  ASSUME NEW d2 \in DbType, Clean(d2), NEW d \in DbType, Clean(d),
         NEW x \in BatchOps, ~OpRejected(d2, x), Same(OpResult(d2, x), d)
  PROVE  Leads(x, Content(d2), Content(d))
<1>1. OpResult(d2, x) \in DbType /\ Clean(OpResult(d2, x)) /\ Leads(x, Content(d2), Content(OpResult(d2, x)))
  BY OpLeads
<1>2. Content(OpResult(d2, x)) = Content(d)
  BY <1>1, SameContent
<1> QED BY <1>1, <1>2

\* Put back by putNode, unless the node is new: then removed again.
LEMMA NodeWriteReplaysBack ==
  ASSUME NEW d, Point(d), NEW n \in NodeIds, NEW v \in NodeVals
  PROVE  Replays(IF Stored(d, n) THEN <<PutNodeOp(d, n)>> ELSE <<[op |-> "removeNode", id |-> n]>>,
                 Content(SetNode(d, n, v)), Content(d))
<1> DEFINE d2 == SetNode(d, n, v)
<1>0. d \in DbType /\ Clean(d) /\ Anchored(d)
  BY DEF Point
<1>1. d2 \in DbType /\ Clean(d2) /\ d2.nodes = [d.nodes EXCEPT ![n] = v] /\ d2.edges = d.edges
  BY <1>0, SetNodeSame, SetNodeType
<1> HIDE DEF d2
<1>2. CASE Stored(d, n)
  <2> DEFINE w == d.nodes[n]
             x == PutNodeOp(d, n)
  <2>1. w \in NodeVals
    BY <1>0, <1>2, StoredType
  <2>2. x \in BatchOps /\ ~OpRejected(d2, x) /\ OpResult(d2, x) = SetNode(d2, n, w)
    BY <2>1 DEF BatchOps, PutNodeOp, OpRejected, OpResult
  <2>3. /\ SetNode(d2, n, w).nodes = [d2.nodes EXCEPT ![n] = w]
        /\ SetNode(d2, n, w).edges = d2.edges
    BY <1>1, <2>1, SetNodeSame
  <2>4. [d2.nodes EXCEPT ![n] = w] = d.nodes
    BY <1>0, <1>1 DEF DbType
  <2>5. Same(OpResult(d2, x), d)
    BY <1>1, <2>2, <2>3, <2>4 DEF Same, SameLink
  <2> HIDE DEF x
  <2>6. Leads(x, Content(d2), Content(d))
    BY <1>0, <1>1, <2>2, <2>5, LeadsBack
  <2> QED BY <1>2, <2>6, ReplayOne DEF d2, x
<1>3. CASE ~Stored(d, n)
  <2> DEFINE x == [op |-> "removeNode", id |-> n]
  <2>1. Stored(d2, n)
    BY <1>0, <1>1, NoneAssumption DEF Stored, DbType
  <2>2. x \in BatchOps /\ ~OpRejected(d2, x) /\ OpResult(d2, x) = DropNode(d2, n)
    BY <2>1 DEF BatchOps, OpRejected, OpResult
  <2>3. Touching(d2, n) = {}
    BY <1>0, <1>1, <1>3 DEF Touching, Anchored
  <2>4. /\ DropNode(d2, n).nodes = [d2.nodes EXCEPT ![n] = None]
        /\ DropNode(d2, n).edges = [y \in EdgeIds |-> IF y \in Touching(d2, n) THEN None ELSE d2.edges[y]]
    BY <1>1, DropNodeSame
  <2>5. [d2.nodes EXCEPT ![n] = None] = d.nodes
    BY <1>0, <1>1, <1>3 DEF DbType, Stored
  <2>6. \A y \in EdgeIds : DropNode(d2, n).edges[y] = d.edges[y]
    BY <1>1, <2>3, <2>4
  <2>7. Same(OpResult(d2, x), d)
    BY <2>2, <2>4, <2>5, <2>6 DEF Same, SameLink
  <2> HIDE DEF x
  <2>8. Leads(x, Content(d2), Content(d))
    BY <1>0, <1>1, <2>2, <2>7, LeadsBack
  <2> QED BY <1>3, <2>8, ReplayOne DEF d2, x
<1> QED BY <1>2, <1>3

\* An edge, whatever was written over it, is put back by putEdge; a new one is removed.
LEMMA EdgeWriteReplaysBack ==
  ASSUME NEW d, Point(d), NEW e \in EdgeIds, NEW d2, Point(d2), d2.nodes = d.nodes,
         \A y \in EdgeIds : y # e => d2.edges[y] = d.edges[y]
  PROVE  /\ d.edges[e] # None => Leads(PutEdgeOp(d, e), Content(d2), Content(d))
         /\ d.edges[e] = None => Leads([op |-> "removeEdge", id |-> e], Content(d2), Content(d))
<1>0. d \in DbType /\ Clean(d) /\ Anchored(d) /\ d2 \in DbType /\ Clean(d2)
  BY DEF Point
<1>1. ASSUME d.edges[e] # None PROVE Leads(PutEdgeOp(d, e), Content(d2), Content(d))
  <2> DEFINE w == d.edges[e]
             x == PutEdgeOp(d, e)
  <2>1. w \in EdgeVals
    BY <1>0, <1>1, StoredType
  <2>2. EndpointsActive(d2, w)
    BY <1>0, <1>1 DEF Anchored, EndpointsActive, ActiveNode, Stored, Clean
  <2>3. x \in BatchOps /\ ~OpRejected(d2, x) /\ OpResult(d2, x) = SetEdge(d2, e, w)
    BY <2>1, <2>2 DEF BatchOps, PutEdgeOp, OpRejected, OpResult
  <2>4. /\ SetEdge(d2, e, w).edges = [d2.edges EXCEPT ![e] = w]
        /\ SetEdge(d2, e, w).nodes = d2.nodes
    BY <1>0, <2>1, SetEdgeSame
  <2>5. \A y \in EdgeIds : SetEdge(d2, e, w).edges[y] = d.edges[y]
    BY <1>0, <2>4 DEF DbType
  <2>6. Same(OpResult(d2, x), d)
    BY <2>3, <2>4, <2>5 DEF Same, SameLink
  <2> HIDE DEF x
  <2>7. Leads(x, Content(d2), Content(d))
    BY <1>0, <2>3, <2>6, LeadsBack
  <2> QED BY <2>7 DEF x
<1>2. ASSUME d.edges[e] = None PROVE Leads([op |-> "removeEdge", id |-> e], Content(d2), Content(d))
  <2> DEFINE x == [op |-> "removeEdge", id |-> e]
  <2>1. x \in BatchOps /\ ~OpRejected(d2, x) /\ OpResult(d2, x) = DropEdges(d2, {e})
    BY DEF BatchOps, OpRejected, OpResult
  <2>2. /\ DropEdges(d2, {e}).nodes = d2.nodes
        /\ DropEdges(d2, {e}).edges = [y \in EdgeIds |-> IF y \in {e} THEN None ELSE d2.edges[y]]
    BY <1>0, DropEdgesSame
  <2>3. \A y \in EdgeIds : DropEdges(d2, {e}).edges[y] = d.edges[y]
    BY <1>2, <2>2
  <2>4. Same(OpResult(d2, x), d)
    BY <2>1, <2>2, <2>3 DEF Same, SameLink
  <2> HIDE DEF x
  <2>5. Leads(x, Content(d2), Content(d))
    BY <1>0, <2>1, <2>4, LeadsBack
  <2> QED BY <2>5 DEF x
<1> QED BY <1>1, <1>2

\* A removed node is put back first, then its edges one by one.
LEMMA NodeRemovalReplaysBack ==
  ASSUME NEW d, Point(d), NEW n \in NodeIds, Stored(d, n), NEW order \in Orders(Touching(d, n))
  PROVE  Replays(<<PutNodeOp(d, n)>> \o [i \in DOMAIN order |-> PutEdgeOp(d, order[i])],
                 Content(DropNode(d, n)), Content(d))
<1> DEFINE m == Len(order)
           E(i) == Without(d, order, (i + 1) .. m)
           x == PutNodeOp(d, n)
           back == [i \in DOMAIN order |-> PutEdgeOp(d, order[i])]
           d2 == DropNode(d, n)
           w == d.nodes[n]
<1>0. d \in DbType /\ Clean(d) /\ Anchored(d) /\ w \in NodeVals
  BY StoredType DEF Point
<1>1. /\ m \in Nat /\ DOMAIN order = 1 .. m
      /\ \A i, k \in 1 .. m : order[i] = order[k] => i = k
      /\ \A i \in 1 .. m : order[i] \in Touching(d, n) /\ order[i] \in EdgeIds /\ d.edges[order[i]] # None
      /\ \A e \in Touching(d, n) : \E i \in 1 .. m : order[i] = e
  BY <1>0, OrderCovers DEF Touching
<1>2. ASSUME NEW i
      PROVE  /\ Point(E(i)) /\ E(i).nodes = d.nodes
             /\ \A e \in EdgeIds : E(i).edges[e] = IF \E k \in (i + 1) .. m : order[k] = e THEN None ELSE d.edges[e]
  <2> DEFINE I == (i + 1) .. m
  <2> HIDE DEF I
  <2>1. /\ Point(Without(d, order, I)) /\ Without(d, order, I).nodes = d.nodes
        /\ \A e \in EdgeIds :
             Without(d, order, I).edges[e] = IF \E k \in I : order[k] = e THEN None ELSE d.edges[e]
    BY WithoutSame
  <2>2. E(i) = Without(d, order, I)
    BY DEF I
  <2> HIDE DEF E
  <2>3. Point(E(i)) /\ E(i).nodes = d.nodes
    BY <2>1, <2>2
  <2>4. \A e \in EdgeIds : E(i).edges[e] = IF \E k \in I : order[k] = e THEN None ELSE d.edges[e]
    BY <2>1, <2>2
  <2> QED BY <2>3, <2>4 DEF I
<1> HIDE DEF m, E
<1>3. Leads(x, Content(d2), Content(E(0)))
  <2>1. /\ d2 \in DbType /\ Clean(d2) /\ d2.nodes = [d.nodes EXCEPT ![n] = None]
        /\ d2.edges = [y \in EdgeIds |-> IF y \in Touching(d, n) THEN None ELSE d.edges[y]]
    BY <1>0, DropNodeSame, DropNodeType
  <2> HIDE DEF d2
  <2>2. x \in BatchOps /\ ~OpRejected(d2, x) /\ OpResult(d2, x) = SetNode(d2, n, w)
    BY <1>0 DEF BatchOps, PutNodeOp, OpRejected, OpResult
  <2>3. /\ SetNode(d2, n, w).nodes = [d2.nodes EXCEPT ![n] = w]
        /\ SetNode(d2, n, w).edges = d2.edges
    BY <1>0, <2>1, SetNodeSame
  <2>4. [d2.nodes EXCEPT ![n] = w] = d.nodes
    BY <1>0, <2>1 DEF DbType
  <2>5. ASSUME NEW y \in EdgeIds PROVE d2.edges[y] = E(0).edges[y]
    <3>1. (\E k \in 1 .. m : order[k] = y) <=> y \in Touching(d, n)
      BY <1>1
    <3>2. E(0).edges[y] = IF \E k \in (0 + 1) .. m : order[k] = y THEN None ELSE d.edges[y]
      BY <1>2
    <3> QED BY <2>1, <3>1, <3>2
  <2>6. Point(E(0)) /\ E(0).nodes = d.nodes
    BY <1>2
  <2>7. Same(OpResult(d2, x), E(0))
    BY <2>2, <2>3, <2>4, <2>5, <2>6 DEF Same, SameLink
  <2> HIDE DEF x
  <2> QED BY <2>1, <2>2, <2>6, <2>7, LeadsBack DEF Point
<1>4. ASSUME NEW i \in 1 .. m PROVE Leads(PutEdgeOp(d, order[i]), Content(E(i - 1)), Content(E(i)))
  <2> DEFINE e == order[i]
             a == E(i - 1)
             b == E(i)
  <2>1. Point(a) /\ Point(b) /\ a.nodes = d.nodes /\ b.nodes = d.nodes /\ e \in EdgeIds
    BY <1>1, <1>2
  <2>2. b.edges[e] = d.edges[e] /\ b.edges[e] # None
    <3>1. ~\E k \in (i + 1) .. m : order[k] = e
      BY <1>1
    <3> QED BY <1>1, <1>2, <2>1, <3>1
  <2>3. ASSUME NEW y \in EdgeIds, y # e PROVE a.edges[y] = b.edges[y]
    <3>1. (\E k \in ((i - 1) + 1) .. m : order[k] = y) <=> \E k \in (i + 1) .. m : order[k] = y
      BY <1>1, <2>3
    <3>2. a.edges[y] = IF \E k \in ((i - 1) + 1) .. m : order[k] = y THEN None ELSE d.edges[y]
      BY <1>2
    <3>3. b.edges[y] = IF \E k \in (i + 1) .. m : order[k] = y THEN None ELSE d.edges[y]
      BY <1>2
    <3> QED BY <3>1, <3>2, <3>3
  <2> HIDE DEF a, b
  <2>4. Leads(PutEdgeOp(b, e), Content(a), Content(b))
    BY <2>1, <2>2, <2>3, EdgeWriteReplaysBack
  <2>5. PutEdgeOp(b, e) = PutEdgeOp(d, e)
    BY <2>2 DEF PutEdgeOp
  <2> QED BY <2>4, <2>5 DEF a, b
<1>5. Content(E(m)) = Content(d)
  <2>1. Same(E(m), d)
    BY <1>1, <1>2 DEF Same, SameLink
  <2> QED BY <1>0, <1>2, <2>1, SameContent DEF Point
<1>6. back \in Seq(BatchOps) /\ Len(back) = m /\ \A i \in 1 .. m : back[i] = PutEdgeOp(d, order[i])
  <2>1. \A i \in 1 .. m : PutEdgeOp(d, order[i]) \in BatchOps
    BY <1>0, <1>1, StoredType DEF PutEdgeOp, BatchOps
  <2> QED BY <1>1, <2>1
<1> HIDE DEF back, x, d2
<1>7. Replays(back, Content(E(0)), Content(E(m)))
  <2> DEFINE tr == [i \in 1 .. m + 1 |-> Content(E(i - 1))]
  <2>1. tr[1] = Content(E(0)) /\ tr[m + 1] = Content(E(m))
    BY <1>1
  <2>2. \A i \in 1 .. m : tr[i] = Content(E(i - 1)) /\ tr[i + 1] = Content(E(i))
    BY <1>1
  <2> HIDE DEF tr
  <2>3. \A i \in 1 .. m : Leads(back[i], tr[i], tr[i + 1])
    BY <1>4, <1>6, <2>2
  <2> QED BY <1>6, <2>1, <2>3 DEF Replays
<1>8. <<x>> \in Seq(BatchOps)
  BY <1>0 DEF x, PutNodeOp, BatchOps
<1>9. Replays(<<x>>, Content(d2), Content(E(0)))
  BY <1>3, ReplayOne
<1> QED BY <1>5, <1>6, <1>7, <1>8, <1>9, ReplayBoth DEF x, back, d2

\* The inverse applyBatchOp records takes any accepted operation back.
LEMMA OpInverseReplaysBack ==
  ASSUME NEW d, Point(d), NEW x \in BatchOps, ~OpRejected(d, x), NEW order \in OpOrders(d, x)
  PROVE  Replays(OpInverse(d, x, order), Content(OpResult(d, x)), Content(d))
<1>0. d \in DbType /\ Clean(d) /\ Anchored(d)
  BY DEF Point
<1>1. CASE x.op \in {"putNode", "setProps", "setType"}
  <2>1. x.id \in NodeIds
    BY <1>1, BatchOpType
  <2>2. PICK v \in NodeVals : OpResult(d, x) = SetNode(d, x.id, v)
    <3>1. CASE x.op = "putNode"
      BY <3>1, BatchOpType DEF OpResult
    <3>2. CASE x.op = "setProps"
      <4>1. d.nodes[x.id] \in NodeVals
        BY <1>0, <2>1, <3>2, StoredType DEF OpRejected
      <4>2. [d.nodes[x.id] EXCEPT !.props = @ \cup x.props] \in NodeVals
        BY <3>2, <4>1, BatchOpType DEF NodeVals
      <4> QED BY <3>2, <4>2 DEF OpResult
    <3>3. CASE x.op = "setType"
      <4>1. d.nodes[x.id] \in NodeVals
        BY <1>0, <2>1, <3>3, StoredType DEF OpRejected
      <4>2. [d.nodes[x.id] EXCEPT !.type = x.type] \in NodeVals
        BY <3>3, <4>1, BatchOpType DEF NodeVals
      <4> QED BY <3>3, <4>2 DEF OpResult
    <3> QED BY <1>1, <3>1, <3>2, <3>3
  <2>3. OpInverse(d, x, order) = IF Stored(d, x.id) THEN <<PutNodeOp(d, x.id)>> ELSE <<[op |-> "removeNode", id |-> x.id]>>
    BY <1>1 DEF OpInverse, OpRejected
  <2>4. Replays(IF Stored(d, x.id) THEN <<PutNodeOp(d, x.id)>> ELSE <<[op |-> "removeNode", id |-> x.id]>>,
                Content(SetNode(d, x.id, v)), Content(d))
    BY <2>1, NodeWriteReplaysBack
  <2> QED BY <2>2, <2>3, <2>4
<1>2. CASE x.op = "removeNode"
  <2>1. x.id \in NodeIds
    BY <1>2, BatchOpType
  <2>2. CASE Stored(d, x.id)
    <3>1. OpResult(d, x) = DropNode(d, x.id)
      BY <1>2, <2>2 DEF OpResult
    <3>2. OpInverse(d, x, order) = <<PutNodeOp(d, x.id)>> \o [i \in DOMAIN order |-> PutEdgeOp(d, order[i])]
      BY <1>2, <2>2 DEF OpInverse
    <3>3. order \in Orders(Touching(d, x.id))
      BY <1>2 DEF OpOrders
    <3>4. Replays(<<PutNodeOp(d, x.id)>> \o [i \in DOMAIN order |-> PutEdgeOp(d, order[i])],
                  Content(DropNode(d, x.id)), Content(d))
      BY <2>1, <2>2, <3>3, NodeRemovalReplaysBack
    <3> QED BY <3>1, <3>2, <3>4
  <2>3. CASE ~Stored(d, x.id)
    <3>1. OpResult(d, x) = d /\ OpInverse(d, x, order) = <<>>
      BY <1>2, <2>3 DEF OpResult, OpInverse
    <3> QED BY <3>1, ReplayNone
  <2> QED BY <2>2, <2>3
<1>3. CASE x.op \in {"putEdge", "removeEdge"}
  <2> DEFINE d2 == OpResult(d, x)
  <2>1. x.id \in EdgeIds
    BY <1>3, BatchOpType
  <2>2. Point(d2)
    BY <1>0, OpLeads DEF Point
  <2>3. d2.nodes = d.nodes /\ \A y \in EdgeIds : y # x.id => d2.edges[y] = d.edges[y]
    <3>1. CASE x.op = "putEdge"
      <4>1. d2 = SetEdge(d, x.id, x.edge) /\ x.edge \in EdgeVals
        BY <3>1, BatchOpType DEF OpResult
      <4>2. d2.nodes = d.nodes /\ d2.edges = [d.edges EXCEPT ![x.id] = x.edge]
        BY <1>0, <2>1, <4>1, SetEdgeSame
      <4> QED BY <1>0, <4>2 DEF DbType
    <3>2. CASE x.op = "removeEdge"
      <4>1. d2 = DropEdges(d, {x.id})
        BY <3>2 DEF OpResult
      <4>2. d2.nodes = d.nodes /\ d2.edges = [y \in EdgeIds |-> IF y \in {x.id} THEN None ELSE d.edges[y]]
        BY <1>0, <4>1, DropEdgesSame
      <4> QED BY <4>2
    <3> QED BY <1>3, <3>1, <3>2
  <2> HIDE DEF d2
  <2>4. CASE d.edges[x.id] # None
    <3>1. OpInverse(d, x, order) = <<PutEdgeOp(d, x.id)>>
      BY <1>3, <2>4 DEF OpInverse
    <3>2. Leads(PutEdgeOp(d, x.id), Content(d2), Content(d))
      BY <2>1, <2>2, <2>3, <2>4, EdgeWriteReplaysBack
    <3> QED BY <3>1, <3>2, ReplayOne DEF d2
  <2>5. CASE d.edges[x.id] = None /\ x.op = "putEdge"
    <3>1. OpInverse(d, x, order) = <<[op |-> "removeEdge", id |-> x.id]>>
      BY <2>5 DEF OpInverse
    <3>2. Leads([op |-> "removeEdge", id |-> x.id], Content(d2), Content(d))
      BY <2>1, <2>2, <2>3, <2>5, EdgeWriteReplaysBack
    <3> QED BY <3>1, <3>2, ReplayOne DEF d2
  <2>6. CASE d.edges[x.id] = None /\ x.op = "removeEdge"
    <3>1. OpInverse(d, x, order) = <<>>
      BY <2>6 DEF OpInverse
    <3>2. d2 = DropEdges(d, {x.id})
      BY <2>6 DEF OpResult, d2
    <3>3. d2.edges = [y \in EdgeIds |-> IF y \in {x.id} THEN None ELSE d.edges[y]]
      BY <1>0, <3>2, DropEdgesSame
    <3>4. \A y \in EdgeIds : d2.edges[y] = d.edges[y]
      BY <2>6, <3>3
    <3>5. Same(d2, d)
      BY <2>3, <3>4 DEF Same, SameLink
    <3>6. Content(d2) = Content(d)
      BY <1>0, <2>2, <3>5, SameContent DEF Point
    <3> QED BY <3>1, <3>6, ReplayNone DEF d2
  <2> QED BY <1>3, <2>4, <2>5, <2>6
<1> QED BY <1>1, <1>2, <1>3, BatchOpType

-----------------------------------------------------------------------------
(* The journal grows and is trimmed along with the timeline.                 *)

\* The entries es lead from a through the contents cs.
Chain(es, a, cs) ==
  /\ es \in Seq(JournalEntries) /\ cs \in Seq(Points) /\ Len(es) = Len(cs) /\ Len(es) > 0
  /\ \A i \in 1 .. Len(es) : Connects(es[i], IF i = 1 THEN a ELSE cs[i - 1], cs[i])

LEMMA ContentPoint ==
  ASSUME NEW d, Point(d)
  PROVE  Content(d) \in Points
  BY DEF Points, Point

\* A store that holds the content of a point is a point.
LEMMA PointAt ==
  ASSUME NEW d, NEW c \in Points, At(d, c)
  PROVE  Point(d)
<1>1. PICK d1 \in DbType : Point(d1) /\ c = Content(d1)
  BY DEF Points
<1>2. d \in DbType /\ Clean(d) /\ Same(d, d1)
  BY <1>1, AtSame DEF Point
<1>3. Anchored(d)
  BY <1>1, <1>2, SameEnds DEF Point
<1> QED BY <1>2, <1>3 DEF Point

LEMMA ChainOne ==
  ASSUME NEW x \in JournalEntries, NEW a, NEW b \in Points, Connects(x, a, b)
  PROVE  Chain(<<x>>, a, <<b>>)
<1>1. <<x>> \in Seq(JournalEntries) /\ <<b>> \in Seq(Points) /\ Len(<<x>>) = 1 /\ Len(<<b>>) = 1
  OBVIOUS
<1>2. <<x>>[1] = x /\ <<b>>[1] = b
  OBVIOUS
<1>3. \A i \in 1 .. 1 : Connects(<<x>>[i], IF i = 1 THEN a ELSE <<b>>[i - 1], <<b>>[i])
  BY <1>2
<1> QED BY <1>1, <1>3 DEF Chain

\* How many entries, or contents, are dropped from the front when n are too many.
Excess(n) == IF n > MaxJournal THEN n - MaxJournal ELSE 0

LEMMA ExcessIs ==
  ASSUME NEW n \in Nat
  PROVE  Excess(n) \in 0 .. n /\ n - Excess(n) <= MaxJournal
  BY MaxJournalAssumption DEF Excess

\* A sequence whose end after c is replaced by r.
Full(s, c, r) == SubSeq(s, 1, c) \o r

LEMMA FullIs ==
  ASSUME NEW S, NEW s \in Seq(S), NEW c \in 0 .. Len(s), NEW r \in Seq(S)
  PROVE  /\ Full(s, c, r) \in Seq(S) /\ Len(Full(s, c, r)) = c + Len(r)
         /\ \A i \in 1 .. c + Len(r) : Full(s, c, r)[i] = IF i <= c THEN s[i] ELSE r[i - c]
<1> DEFINE past == SubSeq(s, 1, c)
           full == past \o r
<1>1. Len(s) \in Nat /\ Len(r) \in Nat /\ c \in Nat /\ c <= Len(s)
  BY LenProperties
<1>2. past \in Seq(S) /\ Len(past) = c /\ \A i \in 1 .. c : past[i] = s[i]
  BY <1>1, SubSeqProperties
<1>3. Full(s, c, r) = full
  BY DEF Full
<1> HIDE DEF past
<1>4. /\ full \in Seq(S) /\ Len(full) = Len(past) + Len(r)
      /\ \A i \in 1 .. Len(past) + Len(r) : full[i] = IF i <= Len(past) THEN past[i] ELSE r[i - Len(past)]
  BY <1>2, ConcatProperties
<1> HIDE DEF full
<1> QED BY <1>1, <1>2, <1>3, <1>4

\* A sequence without its first x elements.
LEMMA CutIs ==
  ASSUME NEW S, NEW f \in Seq(S), NEW x \in 0 .. Len(f)
  PROVE  /\ SubSeq(f, x + 1, Len(f)) \in Seq(S) /\ Len(SubSeq(f, x + 1, Len(f))) = Len(f) - x
         /\ \A i \in 1 .. Len(f) - x : SubSeq(f, x + 1, Len(f))[i] = f[i + x]
<1> DEFINE n == Len(f)
           cut == SubSeq(f, x + 1, n)
<1>1. n \in Nat
  BY LenProperties
<1>2. \A i \in x + 1 .. n : f[i] \in S
  BY <1>1, ElementOfSeq
<1>3. /\ cut \in Seq(S) /\ Len(cut) = IF x + 1 <= n THEN n - (x + 1) + 1 ELSE 0
      /\ \A i \in 1 .. n - (x + 1) + 1 : cut[i] = f[(x + 1) + i - 1]
  BY <1>1, <1>2, SubSeqProperties
<1> HIDE DEF cut
<1>4. cut \in Seq(S) /\ Len(cut) = n - x
  BY <1>1, <1>3
<1>5. ASSUME NEW i \in 1 .. n - x PROVE cut[i] = f[i + x]
  <2>1. i \in 1 .. n - (x + 1) + 1 /\ (x + 1) + i - 1 = i + x
    BY <1>1
  <2> QED BY <1>3, <2>1
<1> QED BY <1>4, <1>5 DEF cut

\* The entries there would be without a limit, and how many of them are dropped.
Total(c, es)   == c + Len(es)
Dropped(c, es) == Excess(Total(c, es))

\* What pushJournal leaves of the journal and of the timeline.
Trimmed(j, t, c, es, cs) ==
  LET n == Total(c, es)
      x == Dropped(c, es)
      p == Pushed(j, c, es)
      u == Extended(t, c, cs)
  IN  /\ n \in Nat /\ x \in 0 .. n /\ n > c
      /\ p.journal \in Seq(JournalEntries) /\ Len(p.journal) = n - x /\ p.cursor = n - x
      /\ \A i \in 1 .. n - x : p.journal[i] = Full(j, c, es)[i + x]
      /\ u \in Seq(Points) /\ Len(u) = (n - x) + 1
      /\ \A i \in 1 .. (n - x) + 1 : u[i] = Full(t, c + 1, cs)[i + x]

LEMMA PushedIs ==
  ASSUME NEW j, NEW t, Consistent(j, t), NEW c \in 0 .. Len(j), NEW es, NEW cs, Chain(es, t[c + 1], cs)
  PROVE  Trimmed(j, t, c, es, cs)
<1> DEFINE n == Total(c, es)
           x == Dropped(c, es)
           c1 == c + 1
           n1 == n + 1
           fj == Full(j, c, es)
           ft == Full(t, c1, cs)
<1>0. n = c + Len(es) /\ x = Excess(n)
  BY DEF Total, Dropped
<1> HIDE DEF n, x
<1>1. /\ j \in Seq(JournalEntries) /\ t \in Seq(Points) /\ c1 \in 0 .. Len(t)
      /\ es \in Seq(JournalEntries) /\ cs \in Seq(Points) /\ Len(cs) = Len(es) /\ Len(es) \in Nat \ {0} /\ c \in Nat
  BY LenProperties DEF Consistent, Chain
<1>2. n \in Nat /\ n > c /\ n1 = c1 + Len(cs) /\ n1 \in Nat
  BY <1>0, <1>1
<1>3. x \in 0 .. n /\ x \in 0 .. n1 /\ n1 - x = (n - x) + 1
  <2>1. n \in Nat
    BY <1>2
  <2>2. x \in 0 .. n
    BY <1>0, <2>1, ExcessIs
  <2> QED BY <2>1, <2>2
<1>4. (IF n1 > MaxJournal + 1 THEN n1 - (MaxJournal + 1) ELSE 0) = x
  BY <1>0, <1>2, MaxJournalAssumption DEF Excess
<1>5. Pushed(j, c, es) = LET full == fj IN
        [journal |-> SubSeq(full, Excess(Len(full)) + 1, Len(full)), cursor |-> Len(full) - Excess(Len(full))]
  BY DEF Pushed, Excess, Full
<1>6. Extended(t, c, cs) = LET full == ft IN
        SubSeq(full, (IF Len(full) > MaxJournal + 1 THEN Len(full) - (MaxJournal + 1) ELSE 0) + 1, Len(full))
  BY DEF Extended, Full
<1> HIDE DEF c1, n1
<1>7. fj \in Seq(JournalEntries) /\ Len(fj) = n
  <2>1. j \in Seq(JournalEntries) /\ es \in Seq(JournalEntries)
    BY <1>1
  <2>2. fj \in Seq(JournalEntries) /\ Len(fj) = c + Len(es)
    BY <2>1, FullIs
  <2> QED BY <1>0, <2>2
<1>8. ft \in Seq(Points) /\ Len(ft) = n1
  <2>1. t \in Seq(Points) /\ c1 \in 0 .. Len(t) /\ cs \in Seq(Points)
    BY <1>1
  <2>2. ft \in Seq(Points) /\ Len(ft) = c1 + Len(cs)
    BY <2>1, FullIs
  <2> QED BY <1>2, <2>2
<1> HIDE DEF fj, ft
<1>9. Pushed(j, c, es) = [journal |-> SubSeq(fj, x + 1, n), cursor |-> n - x]
  BY <1>0, <1>5, <1>7
<1>10. Extended(t, c, cs) = SubSeq(ft, x + 1, n1)
  BY <1>4, <1>6, <1>8
<1>11. /\ SubSeq(fj, x + 1, n) \in Seq(JournalEntries) /\ Len(SubSeq(fj, x + 1, n)) = n - x
       /\ \A i \in 1 .. n - x : SubSeq(fj, x + 1, n)[i] = fj[i + x]
  <2>1. fj \in Seq(JournalEntries) /\ n = Len(fj) /\ x \in 0 .. Len(fj)
    BY <1>3, <1>7
  <2>2. /\ SubSeq(fj, x + 1, Len(fj)) \in Seq(JournalEntries) /\ Len(SubSeq(fj, x + 1, Len(fj))) = Len(fj) - x
        /\ \A i \in 1 .. Len(fj) - x : SubSeq(fj, x + 1, Len(fj))[i] = fj[i + x]
    BY <2>1, CutIs
  <2> QED BY <2>1, <2>2
<1>12. /\ SubSeq(ft, x + 1, n1) \in Seq(Points) /\ Len(SubSeq(ft, x + 1, n1)) = n1 - x
       /\ \A i \in 1 .. n1 - x : SubSeq(ft, x + 1, n1)[i] = ft[i + x]
  <2>1. ft \in Seq(Points) /\ n1 = Len(ft) /\ x \in 0 .. Len(ft)
    BY <1>3, <1>8
  <2>2. /\ SubSeq(ft, x + 1, Len(ft)) \in Seq(Points) /\ Len(SubSeq(ft, x + 1, Len(ft))) = Len(ft) - x
        /\ \A i \in 1 .. Len(ft) - x : SubSeq(ft, x + 1, Len(ft))[i] = ft[i + x]
    BY <2>1, CutIs
  <2> QED BY <2>1, <2>2
<1>13. Pushed(j, c, es).journal = SubSeq(fj, x + 1, n) /\ Pushed(j, c, es).cursor = n - x
  <2> DEFINE a == SubSeq(fj, x + 1, n)
             b == n - x
  <2> HIDE DEF a, b
  <2>1. Pushed(j, c, es) = [journal |-> a, cursor |-> b]
    BY <1>9 DEF a, b
  <2>2. Pushed(j, c, es).journal = a /\ Pushed(j, c, es).cursor = b
    BY <2>1
  <2> QED BY <2>2 DEF a, b
<1>14. /\ Pushed(j, c, es).journal \in Seq(JournalEntries)
       /\ Len(Pushed(j, c, es).journal) = n - x /\ Pushed(j, c, es).cursor = n - x
       /\ \A i \in 1 .. n - x : Pushed(j, c, es).journal[i] = fj[i + x]
  BY <1>11, <1>13
<1>15. /\ Extended(t, c, cs) \in Seq(Points) /\ Len(Extended(t, c, cs)) = (n - x) + 1
       /\ \A i \in 1 .. (n - x) + 1 : Extended(t, c, cs)[i] = ft[i + x]
  BY <1>3, <1>10, <1>12
<1> QED BY <1>2, <1>3, <1>14, <1>15 DEF Trimmed, fj, ft, c1, n, x

\* Before they are cut, entry i is between content i and content i + 1.
LEMMA FullConnects ==
  ASSUME NEW j, NEW t, Consistent(j, t), NEW c \in 0 .. Len(j), NEW es, NEW cs, Chain(es, t[c + 1], cs),
         NEW n, n = c + Len(es)
  PROVE  /\ \A i \in 1 .. n : Connects(Full(j, c, es)[i], Full(t, c + 1, cs)[i], Full(t, c + 1, cs)[i + 1])
         /\ \A i \in 1 .. c + 1 : Full(t, c + 1, cs)[i] = t[i]
         /\ Full(t, c + 1, cs)[n + 1] = cs[Len(cs)]
<1> DEFINE k == Len(es)
           fj == Full(j, c, es)
           ft == Full(t, c + 1, cs)
<1>1. /\ j \in Seq(JournalEntries) /\ t \in Seq(Points) /\ Len(t) = Len(j) + 1
      /\ es \in Seq(JournalEntries) /\ cs \in Seq(Points) /\ k \in Nat \ {0} /\ Len(cs) = k
      /\ Len(j) \in Nat /\ c \in Nat /\ c <= Len(j) /\ c + 1 \in 0 .. Len(t)
  BY LenProperties DEF Consistent, Chain
<1>2. \A i \in 1 .. c + k : fj[i] = IF i <= c THEN j[i] ELSE es[i - c]
  <2>1. j \in Seq(JournalEntries) /\ es \in Seq(JournalEntries)
    BY <1>1
  <2> QED BY <2>1, FullIs
<1>3. \A i \in 1 .. (c + 1) + Len(cs) : ft[i] = IF i <= c + 1 THEN t[i] ELSE cs[i - (c + 1)]
  <2> DEFINE c1 == c + 1
  <2>1. t \in Seq(Points) /\ cs \in Seq(Points) /\ c1 \in 0 .. Len(t)
    BY <1>1
  <2> HIDE DEF c1
  <2>2. \A i \in 1 .. c1 + Len(cs) : Full(t, c1, cs)[i] = IF i <= c1 THEN t[i] ELSE cs[i - c1]
    BY <2>1, FullIs
  <2> QED BY <2>2 DEF c1
<1>4. \A i \in 1 .. k : Connects(es[i], IF i = 1 THEN t[c + 1] ELSE cs[i - 1], cs[i])
  BY DEF Chain
<1> HIDE DEF fj, ft, k
<1>5. ASSUME NEW i \in 1 .. n PROVE Connects(fj[i], ft[i], ft[i + 1])
  <2>0. n = c + k
    BY DEF k
  <2>1. CASE i <= c
    <3>1. fj[i] = j[i] /\ ft[i] = t[i] /\ ft[i + 1] = t[i + 1] /\ i \in 1 .. Len(j)
      BY <1>1, <1>2, <1>3, <2>0, <2>1
    <3>2. Connects(j[i], t[i], t[i + 1])
      BY <3>1 DEF Consistent
    <3> QED BY <3>1, <3>2
  <2>2. CASE i > c
    <3> DEFINE m == i - c
    <3>1. m \in 1 .. k /\ i = c + m
      BY <1>1, <2>0, <2>2
    <3>2. fj[i] = es[m]
      BY <1>1, <1>2, <2>0, <2>2
    <3>3. ft[i + 1] = cs[m]
      <4>1. i + 1 \in 1 .. (c + 1) + Len(cs) /\ i + 1 - (c + 1) = m /\ ~(i + 1 <= c + 1)
        BY <1>1, <3>1
      <4> QED BY <1>3, <4>1
    <3>4. ft[i] = IF m = 1 THEN t[c + 1] ELSE cs[m - 1]
      <4>1. /\ i \in 1 .. (c + 1) + Len(cs) /\ i - (c + 1) = m - 1
            /\ (i <= c + 1 <=> m = 1) /\ (m = 1 => i = c + 1)
        BY <1>1, <3>1
      <4>2. ft[i] = IF i <= c + 1 THEN t[i] ELSE cs[i - (c + 1)]
        BY <1>3, <4>1
      <4> QED BY <4>1, <4>2
    <3>5. Connects(es[m], IF m = 1 THEN t[c + 1] ELSE cs[m - 1], cs[m])
      BY <1>4, <3>1
    <3> QED BY <3>2, <3>3, <3>4, <3>5
  <2> QED BY <1>1, <2>0, <2>1, <2>2
<1>6. \A i \in 1 .. c + 1 : ft[i] = t[i]
  BY <1>1, <1>3
<1>7. ft[n + 1] = cs[Len(cs)]
  <2>1. n = c + k
    BY DEF k
  <2>2. n + 1 \in 1 .. (c + 1) + Len(cs) /\ n + 1 - (c + 1) = Len(cs) /\ ~(n + 1 <= c + 1)
    BY <1>1, <2>1
  <2> QED BY <1>3, <2>2
<1> QED BY <1>5, <1>6, <1>7 DEF fj, ft

\* pushJournal keeps every entry with the contents around it.
LEMMA PushKeeps ==
  ASSUME NEW j, NEW t, Consistent(j, t), NEW c \in 0 .. Len(j), NEW es, NEW cs, Chain(es, t[c + 1], cs)
  PROVE  /\ Consistent(Pushed(j, c, es).journal, Extended(t, c, cs))
         /\ Extended(t, c, cs)[Pushed(j, c, es).cursor + 1] = cs[Len(cs)]
<1> DEFINE n == Total(c, es)
           x == Dropped(c, es)
           p == Pushed(j, c, es)
           u == Extended(t, c, cs)
           fj == Full(j, c, es)
           ft == Full(t, c + 1, cs)
<1> HIDE DEF n, x, p, u, fj, ft
<1>1. /\ n \in Nat /\ x \in 0 .. n
      /\ p.journal \in Seq(JournalEntries) /\ Len(p.journal) = n - x /\ p.cursor = n - x
      /\ \A i \in 1 .. n - x : p.journal[i] = fj[i + x]
      /\ u \in Seq(Points) /\ Len(u) = (n - x) + 1
      /\ \A i \in 1 .. (n - x) + 1 : u[i] = ft[i + x]
  <2>1. Trimmed(j, t, c, es, cs)
    BY PushedIs
  <2> QED BY <2>1 DEF Trimmed, p, u, fj, ft, n, x
<1>2. /\ \A i \in 1 .. n : Connects(fj[i], ft[i], ft[i + 1])
      /\ ft[n + 1] = cs[Len(cs)]
  <2>1. LET y == c + Len(es)
        IN  /\ \A i \in 1 .. y : Connects(Full(j, c, es)[i], Full(t, c + 1, cs)[i], Full(t, c + 1, cs)[i + 1])
            /\ Full(t, c + 1, cs)[y + 1] = cs[Len(cs)]
    BY FullConnects
  <2> QED BY <2>1 DEF fj, ft, n, Total
<1>3. ASSUME NEW i \in 1 .. n - x PROVE Connects(p.journal[i], u[i], u[i + 1])
  <2>1. /\ i + x \in 1 .. n /\ i + 1 + x = (i + x) + 1
        /\ i \in 1 .. (n - x) + 1 /\ i + 1 \in 1 .. (n - x) + 1
    BY <1>1
  <2>2. p.journal[i] = fj[i + x] /\ u[i] = ft[i + x]
    BY <1>1, <2>1
  <2>3. u[i + 1] = ft[i + 1 + x]
    BY <1>1, <2>1
  <2>4. Connects(fj[i + x], ft[i + x], ft[(i + x) + 1])
    BY <1>2, <2>1
  <2> QED BY <2>1, <2>2, <2>3, <2>4
<1>4. Consistent(p.journal, u)
  BY <1>1, <1>3 DEF Consistent
<1>5. u[p.cursor + 1] = cs[Len(cs)]
  <2>1. (n - x) + 1 \in 1 .. (n - x) + 1 /\ (n - x) + 1 + x = n + 1
    BY <1>1
  <2>2. u[(n - x) + 1] = ft[(n - x) + 1 + x]
    BY <1>1, <2>1
  <2> QED BY <1>1, <1>2, <2>1, <2>2
<1> QED BY <1>4, <1>5 DEF p, u

\* The entries and contents of a node removal are a chain.
LEMMA RemovalIsChain ==
  ASSUME Point(db), NEW n \in NodeIds, Stored(db, n), NEW order \in Orders(Touching(db, n))
  PROVE  /\ Chain([i \in DOMAIN order |-> [kind |-> "edge-remove", id |-> order[i], edge |-> db.edges[order[i]]]]
                    \o <<[kind |-> "node-delete", id |-> n, node |-> db.nodes[n]]>>,
                  Content(db), RemovalContents(n, order))
         /\ RemovalContents(n, order)[Len(RemovalContents(n, order))] = Content(DropNode(db, n))
<1> DEFINE m == Len(order)
           removed == [i \in DOMAIN order |-> [kind |-> "edge-remove", id |-> order[i], edge |-> db.edges[order[i]]]]
           x == [kind |-> "node-delete", id |-> n, node |-> db.nodes[n]]
           D(i) == Content(Without(db, order, 1 .. i))
           b == Content(DropNode(db, n))
           es == removed \o <<x>>
           between == [i \in DOMAIN order |-> Content(DropEdges(db, {order[k] : k \in 1 .. i}))]
           cs == between \o <<b>>
<1>1. /\ db \in DbType /\ m \in Nat /\ DOMAIN order = 1 .. m
      /\ \A i \in 1 .. m : order[i] \in EdgeIds /\ db.edges[order[i]] \in EdgeVals
  BY OrderCovers, OrdersType DEF Point
<1>2. removed \in Seq(JournalEntries) /\ Len(removed) = m
  <2>1. \A i \in 1 .. m : removed[i] \in JournalEntries
    BY <1>1 DEF JournalEntries, EdgeEntries
  <2>2. removed \in [1 .. m -> JournalEntries]
    BY <1>1, <2>1
  <2> HIDE DEF removed, m
  <2> QED BY <1>1, <2>2
<1>3. x \in JournalEntries
  BY <1>1, StoredType DEF JournalEntries, NodeEntries
<1>4. \A i \in 1 .. m : between[i] = D(i)
  BY <1>1 DEF Without
<1>5. between \in Seq(Points) /\ Len(between) = m
  <2>1. \A i \in 1 .. m : D(i) \in Points
    BY WithoutSame, ContentPoint
  <2> HIDE DEF D
  <2>2. between \in [1 .. m -> Points]
    <3>1. between = [i \in 1 .. m |-> between[i]]
      BY <1>1
    <3> HIDE DEF between
    <3> QED BY <1>4, <2>1, <3>1
  <2> HIDE DEF between, m
  <2> QED BY <1>1, <2>2
<1>6. b \in Points
  BY <1>1, DropNodeSame, DropNodeType, ContentPoint DEF Point
<1>7. \A i \in 1 .. m : removed[i] = [kind |-> "edge-remove", id |-> order[i], edge |-> db.edges[order[i]]]
  BY <1>1
<1>8. /\ D(0) = Content(db)
      /\ \A i \in 1 .. m : Connects([kind |-> "edge-remove", id |-> order[i], edge |-> db.edges[order[i]]], D(i - 1), D(i))
      /\ Connects(x, D(m), b)
  BY RemovalChain
<1> HIDE DEF D, x, b, removed, between, m
<1>9. /\ es \in Seq(JournalEntries) /\ Len(es) = m + 1
      /\ \A i \in 1 .. m : es[i] = removed[i]
      /\ es[m + 1] = x
  BY <1>1, <1>2, <1>3
<1>10. /\ cs \in Seq(Points) /\ Len(cs) = m + 1
       /\ \A i \in 1 .. m : cs[i] = D(i)
       /\ cs[m + 1] = b
  <2>1. /\ cs \in Seq(Points) /\ Len(cs) = m + 1
        /\ \A i \in 1 .. m : cs[i] = between[i]
        /\ cs[m + 1] = b
    BY <1>1, <1>5, <1>6
  <2> QED BY <1>4, <2>1
<1>11. RemovalContents(n, order) = cs
  BY DEF RemovalContents, cs, between, b
<1> HIDE DEF es, cs
<1>12. ASSUME NEW i \in 1 .. m + 1
       PROVE  Connects(es[i], IF i = 1 THEN Content(db) ELSE cs[i - 1], cs[i])
  <2>1. (IF i = 1 THEN Content(db) ELSE cs[i - 1]) = D(i - 1)
    <3>1. CASE i = 1
      BY <1>8, <3>1
    <3>2. CASE i # 1
      <4>1. i - 1 \in 1 .. m
        BY <1>1, <3>2
      <4> QED BY <1>10, <3>2, <4>1
    <3> QED BY <3>1, <3>2
  <2>2. CASE i <= m
    <3>1. i \in 1 .. m /\ es[i] = removed[i] /\ cs[i] = D(i)
      BY <1>1, <1>9, <1>10, <2>2
    <3>2. Connects(removed[i], D(i - 1), D(i))
      BY <1>7, <1>8, <3>1
    <3> QED BY <2>1, <3>1, <3>2
  <2>3. CASE i = m + 1
    <3>1. i - 1 = m /\ es[i] = x /\ cs[i] = b
      BY <1>1, <1>9, <1>10, <2>3
    <3>2. Connects(x, D(i - 1), b)
      BY <1>8, <3>1
    <3> QED BY <2>1, <3>1, <3>2
  <2> QED BY <1>1, <2>2, <2>3
<1>13. Chain(es, Content(db), cs) /\ cs[Len(cs)] = b
  BY <1>1, <1>9, <1>10, <1>12 DEF Chain
<1> QED BY <1>11, <1>13 DEF es, removed, x, b

-----------------------------------------------------------------------------
(* The file.                                                                 *)

\* Loading the image of a point gives that point: no record is quarantined.
LEMMA LoadImage ==
  ASSUME NEW d, Point(d), NEW j, NEW c
  PROVE  Load(Image(d, j, c)) = d
<1> DEFINE f == Image(d, j, c)
<1>1. d \in DbType /\ Clean(d) /\ Anchored(d)
  BY DEF Point
<1>2. f.nodes = d.nodes /\ f.edges = d.edges /\ f.badNodes = {} /\ f.badEdges = {}
  BY <1>1 DEF Image, Clean
<1>3. {e \in EdgeIds : f.edges[e] # None /\ \E n \in {f.edges[e].source, f.edges[e].target} :
                         f.nodes[n] = None \/ n \in f.badNodes} = {}
  BY <1>1, <1>2 DEF Anchored, Stored
<1> HIDE DEF f
<1>4. Load(f) = [nodes |-> d.nodes, edges |-> d.edges, badNodes |-> {}, badEdges |-> {}, qNodes |-> {}, qEdges |-> {}]
  BY <1>2, <1>3 DEF Load
<1>5. d = [nodes |-> d.nodes, edges |-> d.edges, badNodes |-> {}, badEdges |-> {}, qNodes |-> {}, qEdges |-> {}]
  BY <1>1 DEF DbType, Clean
<1> QED BY <1>4, <1>5 DEF f

\* A write of the file, or a failed one, leaves a file with a whole history.
LEMMA SaveKeeps ==
  ASSUME FileHistory, Save, Point(db'), Consistent(journal', timeline'), Content(db') = timeline'[cursor' + 1],
         disk' = Image(db', journal', cursor') \/ disk' = disk
  PROVE  FileHistory'
<1>1. CASE disk' = Image(db', journal', cursor')
  <2>1. savedTimeline' = timeline' /\ disk'.journal = journal' /\ disk'.cursor = cursor'
    BY <1>1 DEF Save, Image
  <2>2. Load(disk') = db'
    BY <1>1, LoadImage
  <2> QED BY <2>1, <2>2 DEF FileHistory
<1>2. CASE disk' # Image(db', journal', cursor')
  BY <1>2 DEF Save, FileHistory
<1> QED BY <1>1, <1>2

-----------------------------------------------------------------------------
(* The three kinds of steps.                                                 *)

LEMMA TaskKinds ==
  ASSUME TypeOK
  PROVE  /\ Idle.kind = "idle"
         /\ task.kind \in {"idle", "batch", "replay"}
         /\ task.kind = "idle" <=> task = Idle
         /\ task.kind = "batch" =>
              task = [kind |-> "batch", snapshot |-> task.snapshot, ops |-> task.ops, inverse |-> task.inverse]
         /\ task.kind = "replay" => task = [kind |-> "replay", ops |-> task.ops, to |-> task.to]
  BY DEF TypeOK, TaskType, Idle

\* What the invariant says between two handlers.
LEMMA IdleHistory ==
  ASSUME HistoryInv
  PROVE  /\ cursor \in 0 .. Len(journal) /\ Len(journal) \in Nat /\ db \in DbType
         /\ timeline \in Seq(Points) /\ Len(timeline) = Len(journal) + 1
         /\ \A i \in 0 .. Len(journal) : timeline[i + 1] \in Points
         /\ task = Idle => Point(db) /\ Content(db) = timeline[cursor + 1]
<1>1. cursor \in 0 .. Len(journal) /\ journal \in Seq(JournalEntries) /\ db \in DbType
  BY DEF HistoryInv, TypeInv, TypeOK
<1>2. Len(journal) \in Nat
  BY <1>1, LenProperties
<1>3. timeline \in Seq(Points) /\ Len(timeline) = Len(journal) + 1
  BY DEF HistoryInv, Consistent
<1>4. \A i \in 0 .. Len(journal) : i + 1 \in 1 .. Len(timeline)
  BY <1>2, <1>3
<1>5. \A i \in 0 .. Len(journal) : timeline[i + 1] \in Points
  BY <1>3, <1>4, ElementOfSeq
<1>6. task = Idle => Point(db) /\ Content(db) = timeline[cursor + 1]
  BY DEF HistoryInv, TaskHistory
<1> QED BY <1>1, <1>2, <1>3, <1>5, <1>6

\* A write: the entries es are journaled, the contents cs they lead through are new.
Writes(d, es, cs) ==
  /\ Point(d) /\ Chain(es, timeline[cursor + 1], cs) /\ cs[Len(cs)] = Content(d)
  /\ Commit(d, es) /\ Extend(cs) /\ Save /\ task' = Idle
  /\ adj' # NotBuilt => adj' = Built(d)

\* A move of the cursor to entry c, with the content of the timeline there.
Moves(d, c) ==
  /\ c \in 0 .. Len(journal) /\ c \in {cursor - 1, cursor + 1} /\ At(d, timeline[c + 1])
  /\ MoveCursor(d, c) /\ timeline' = timeline /\ Save

\* A step of a loop, a query, or a rejected write: neither the journal nor the
\* file changes.
Quiet ==
  /\ UNCHANGED <<journal, cursor, disk, timeline, savedTimeline>>
  /\ TaskHistory' /\ IndexHistory'

\* The store is opened again.
Crashes == Reopen /\ timeline' = savedTimeline /\ savedTimeline' = savedTimeline

LEMMA WriteKeeps ==
  ASSUME HistoryInv, TypeInv', NEW d, NEW es, NEW cs, Writes(d, es, cs)
  PROVE  HistoryInv'
<1> DEFINE p == Pushed(journal, cursor, es)
<1>1. db' = d /\ journal' = p.journal /\ cursor' = p.cursor /\ (disk' = Image(d, p.journal, p.cursor) \/ disk' = disk)
  BY DEF Writes, Commit, Persist
<1>2. /\ timeline' = Extended(timeline, cursor, cs) /\ Save /\ task' = Idle
      /\ Point(d) /\ cs[Len(cs)] = Content(d) /\ (adj' # NotBuilt => adj' = Built(d))
  BY DEF Writes, Extend
<1>3. Consistent(journal, timeline) /\ cursor \in 0 .. Len(journal)
  BY IdleHistory DEF HistoryInv
<1>4. Consistent(p.journal, Extended(timeline, cursor, cs)) /\ Extended(timeline, cursor, cs)[p.cursor + 1] = cs[Len(cs)]
  <2>1. Chain(es, timeline[cursor + 1], cs)
    BY DEF Writes
  <2> QED BY <1>3, <2>1, PushKeeps
<1> HIDE DEF p
<1>5. Consistent(journal', timeline') /\ Content(db') = timeline'[cursor' + 1]
  BY <1>1, <1>2, <1>4
<1>6. FileHistory'
  <2>1. FileHistory /\ Point(db')
    BY <1>1, <1>2 DEF HistoryInv
  <2>2. disk' = Image(db', journal', cursor') \/ disk' = disk
    BY <1>1
  <2> QED BY <1>2, <1>5, <2>1, <2>2, SaveKeeps
<1>7. TaskHistory'
  BY <1>1, <1>2, <1>5 DEF TaskHistory, Idle
<1>8. IndexHistory'
  BY <1>1, <1>2 DEF IndexHistory, Idle
<1> QED BY <1>5, <1>6, <1>7, <1>8 DEF HistoryInv

LEMMA MoveKeeps ==
  ASSUME HistoryInv, TypeInv', NEW d, NEW c, Moves(d, c)
  PROVE  HistoryInv'
<1>1. /\ db' = d /\ cursor' = c /\ journal' = journal /\ adj' = NotBuilt /\ task' = Idle
      /\ disk' = Image(d, journal, c) \/ disk' = disk
  BY DEF Moves, MoveCursor, Persist
<1>2. Point(d) /\ Content(d) = timeline[c + 1]
  <2>1. At(d, timeline[c + 1]) /\ timeline[c + 1] \in Points
    BY IdleHistory DEF Moves
  <2> QED BY <2>1, PointAt DEF At
<1>3. Consistent(journal', timeline') /\ Content(db') = timeline'[cursor' + 1] /\ Point(db')
  BY <1>1, <1>2 DEF HistoryInv, Moves
<1>4. FileHistory'
  <2>1. disk' = Image(db', journal', cursor') \/ disk' = disk
    BY <1>1
  <2>2. FileHistory /\ Save
    BY DEF HistoryInv, Moves
  <2> QED BY <1>3, <2>1, <2>2, SaveKeeps
<1>5. TaskHistory' /\ IndexHistory'
  BY <1>1, <1>3 DEF TaskHistory, IndexHistory, Idle
<1> QED BY <1>3, <1>4, <1>5 DEF HistoryInv

LEMMA QuietKeeps ==
  ASSUME HistoryInv, TypeInv', Quiet
  PROVE  HistoryInv'
<1>1. Consistent(journal', timeline') /\ FileHistory'
  BY DEF HistoryInv, FileHistory, Quiet
<1> QED BY <1>1 DEF HistoryInv, Quiet

LEMMA CrashKeeps ==
  ASSUME HistoryInv, TypeInv', Crashes
  PROVE  HistoryInv'
<1>1. /\ db' = Load(disk) /\ journal' = disk.journal /\ cursor' = disk.cursor
      /\ adj' = NotBuilt /\ task' = Idle /\ disk' = disk
      /\ timeline' = savedTimeline /\ savedTimeline' = savedTimeline
  BY DEF Crashes, Reopen
<1>2. FileHistory
  BY DEF HistoryInv
<1>3. Consistent(journal', timeline') /\ FileHistory'
  BY <1>1, <1>2 DEF FileHistory
<1>4. TaskHistory'
  BY <1>1, <1>2 DEF TaskHistory, FileHistory, Idle
<1>5. IndexHistory'
  BY <1>1 DEF IndexHistory
<1> QED BY <1>3, <1>4, <1>5 DEF HistoryInv

-----------------------------------------------------------------------------
(* Every handler is one of them.                                             *)

LEMMA PutNodeWrites ==
  ASSUME HistoryInv, NEW n \in NodeIds, NEW v \in NodeVals, PutNode(n, v), Extend(<<Content(db')>>), Save
  PROVE  \E d, es, cs : Writes(d, es, cs)
<1> DEFINE d == SetNode(db, n, v)
           x == NodeEntry(db, n, v)
<1>1. task = Idle /\ Commit(d, <<x>>) /\ adj' = adj /\ task' = task /\ db' = d
  BY DEF PutNode, Commit
<1>2. Point(db) /\ Content(db) = timeline[cursor + 1] /\ db \in DbType
  BY <1>1, IdleHistory
<1>3. Point(d) /\ Connects(x, Content(db), Content(d)) /\ x \in JournalEntries
  BY <1>2, NodeEntryConnects, NodeEntryType
<1>4. Content(d) \in Points
  BY <1>3, ContentPoint
<1>5. Built(d) = Built(db)
  <2>1. d.edges = db.edges /\ d.qEdges = db.qEdges
    BY <1>2 DEF SetNode, DbType
  <2> QED BY <2>1 DEF Built, View, ActiveEdge
<1>6. adj # NotBuilt => adj = Built(db)
  BY <1>1 DEF HistoryInv, IndexHistory
<1> HIDE DEF d, x
<1>7. Chain(<<x>>, Content(db), <<Content(d)>>)
  BY <1>3, <1>4, ChainOne
<1>8. Chain(<<x>>, timeline[cursor + 1], <<Content(d)>>)
  BY <1>2, <1>7
<1>9. <<Content(d)>>[Len(<<Content(d)>>)] = Content(d)
  OBVIOUS
<1>10. adj' # NotBuilt => adj' = Built(d)
  BY <1>1, <1>5, <1>6
<1>11. Extend(<<Content(d)>>) /\ task' = Idle
  BY <1>1
<1>12. Writes(d, <<x>>, <<Content(d)>>)
  BY <1>1, <1>3, <1>8, <1>9, <1>10, <1>11 DEF Writes
<1> QED BY <1>12

LEMMA PutEdgeWrites ==
  ASSUME HistoryInv, NEW e \in EdgeIds, NEW v \in EdgeVals, PutEdge(e, v), EndpointsActive(db, v),
         Extend(<<Content(db')>>), Save
  PROVE  \E d, es, cs : Writes(d, es, cs)
<1> DEFINE d == SetEdge(db, e, v)
           x == EdgeEntry(db, e, v)
<1>1. task = Idle /\ Commit(d, <<x>>) /\ adj' = NotBuilt /\ task' = task /\ db' = d
  BY DEF PutEdge, Commit
<1>2. Point(db) /\ Content(db) = timeline[cursor + 1] /\ db \in DbType
  BY <1>1, IdleHistory
<1>3. Point(d) /\ Connects(x, Content(db), Content(d)) /\ x \in JournalEntries
  BY <1>2, EdgeEntryConnects, EdgeEntryType
<1>4. Content(d) \in Points
  BY <1>3, ContentPoint
<1> HIDE DEF d, x
<1>5. Chain(<<x>>, Content(db), <<Content(d)>>)
  BY <1>3, <1>4, ChainOne
<1>6. Chain(<<x>>, timeline[cursor + 1], <<Content(d)>>)
  BY <1>2, <1>5
<1>7. <<Content(d)>>[Len(<<Content(d)>>)] = Content(d)
  OBVIOUS
<1>8. Extend(<<Content(d)>>) /\ task' = Idle
  BY <1>1
<1>9. Writes(d, <<x>>, <<Content(d)>>)
  BY <1>1, <1>3, <1>6, <1>7, <1>8 DEF Writes
<1> QED BY <1>9

LEMMA RemoveEdgeWrites ==
  ASSUME HistoryInv, NEW e \in EdgeIds, RemoveEdge(e), Extend(<<Content(db')>>), Save
  PROVE  \E d, es, cs : Writes(d, es, cs)
<1> DEFINE d == DropEdges(db, {e})
           x == [kind |-> "edge-remove", id |-> e, edge |-> db.edges[e]]
<1>1. task = Idle /\ db.edges[e] # None /\ Commit(d, <<x>>) /\ adj' = NotBuilt /\ task' = task /\ db' = d
  BY DEF RemoveEdge, Commit
<1>2. Point(db) /\ Content(db) = timeline[cursor + 1] /\ db \in DbType
  BY <1>1, IdleHistory
<1>3. Point(d) /\ Connects(x, Content(db), Content(d))
  BY <1>1, <1>2, EdgeRemoveConnects
<1>4. x \in JournalEntries
  BY <1>1, <1>2, StoredType DEF JournalEntries, EdgeEntries
<1>5. Content(d) \in Points
  BY <1>3, ContentPoint
<1> HIDE DEF d, x
<1>6. Chain(<<x>>, Content(db), <<Content(d)>>)
  BY <1>3, <1>4, <1>5, ChainOne
<1>7. Chain(<<x>>, timeline[cursor + 1], <<Content(d)>>)
  BY <1>2, <1>6
<1>8. <<Content(d)>>[Len(<<Content(d)>>)] = Content(d)
  OBVIOUS
<1>9. Extend(<<Content(d)>>) /\ task' = Idle
  BY <1>1
<1>10. Writes(d, <<x>>, <<Content(d)>>)
  BY <1>1, <1>3, <1>7, <1>8, <1>9 DEF Writes
<1> QED BY <1>10

LEMMA RemoveNodeWrites ==
  ASSUME HistoryInv, NEW n \in NodeIds, NEW order \in Orders(Touching(db, n)), RemoveNode(n, order),
         Extend(RemovalContents(n, order)), Save
  PROVE  \E d, es, cs : Writes(d, es, cs)
<1> DEFINE d == DropNode(db, n)
           es == [i \in DOMAIN order |-> [kind |-> "edge-remove", id |-> order[i], edge |-> db.edges[order[i]]]]
                   \o <<[kind |-> "node-delete", id |-> n, node |-> db.nodes[n]]>>
           cs == RemovalContents(n, order)
<1>1. task = Idle /\ Stored(db, n) /\ Commit(d, es) /\ adj' = NotBuilt /\ task' = task
  BY DEF RemoveNode
<1>2. Point(db) /\ Content(db) = timeline[cursor + 1] /\ db \in DbType
  BY <1>1, IdleHistory
<1>3. Point(d)
  BY <1>2, DropNodeSame, DropNodeType DEF Point
<1>4. Chain(es, Content(db), cs) /\ cs[Len(cs)] = Content(d)
  BY <1>1, <1>2, RemovalIsChain
<1> HIDE DEF d, es, cs
<1>5. Chain(es, timeline[cursor + 1], cs)
  BY <1>2, <1>4
<1>6. Extend(cs) /\ task' = Idle
  BY <1>1 DEF cs
<1>7. Writes(d, es, cs)
  BY <1>1, <1>3, <1>4, <1>5, <1>6 DEF Writes
<1> QED BY <1>7

LEMMA BatchCommitWrites ==
  ASSUME HistoryInv, BatchCommit, Extend(<<Content(db')>>), Save
  PROVE  \E d, es, cs : Writes(d, es, cs)
<1> DEFINE x == [kind |-> "batch", ops |-> task.ops, inverse |-> task.inverse]
<1>1. task.kind = "batch" /\ Commit(db, <<x>>) /\ adj' = NotBuilt /\ task' = Idle /\ db' = db
  BY DEF BatchCommit, Commit
<1>2. /\ Point(db) /\ Point(task.snapshot) /\ Content(task.snapshot) = timeline[cursor + 1]
      /\ Replays(task.ops, Content(task.snapshot), Content(db))
      /\ Replays(task.inverse, Content(db), Content(task.snapshot))
  BY <1>1 DEF HistoryInv, TaskHistory
<1>3. x \in JournalEntries
  BY <1>1, TaskCases DEF HistoryInv, TypeInv, JournalEntries, BatchEntries
<1>4. Connects(x, timeline[cursor + 1], Content(db))
  BY <1>2 DEF Connects
<1>5. Content(db) \in Points
  BY <1>2, ContentPoint
<1> HIDE DEF x
<1>6. Chain(<<x>>, timeline[cursor + 1], <<Content(db)>>)
  BY <1>3, <1>4, <1>5, ChainOne
<1>7. <<Content(db)>>[Len(<<Content(db)>>)] = Content(db)
  OBVIOUS
<1>8. Extend(<<Content(db)>>)
  BY <1>1
<1>9. Writes(db, <<x>>, <<Content(db)>>)
  BY <1>1, <1>2, <1>6, <1>7, <1>8 DEF Writes
<1> QED BY <1>9

LEMMA UndoMoves ==
  ASSUME HistoryInv, Undo, timeline' = timeline, Save
  PROVE  \E d, c : Moves(d, c)
<1> DEFINE x == journal[cursor]
           d == ApplyInverse(db, x)
<1>1. task = Idle /\ cursor > 0 /\ x.kind # "batch" /\ MoveCursor(d, cursor - 1)
  BY DEF Undo
<1>2. /\ cursor \in 1 .. Len(journal) /\ cursor - 1 \in 0 .. Len(journal) /\ (cursor - 1) + 1 = cursor
      /\ db \in DbType /\ At(db, timeline[cursor + 1])
  <2>1. cursor \in 0 .. Len(journal) /\ Len(journal) \in Nat /\ db \in DbType /\ Point(db) /\ Content(db) = timeline[cursor + 1]
    BY <1>1, IdleHistory
  <2> QED BY <1>1, <2>1 DEF At, Point
<1>3. Connects(x, timeline[cursor], timeline[cursor + 1])
  BY <1>2 DEF HistoryInv, Consistent
<1>4. At(d, timeline[cursor])
  BY <1>1, <1>2, <1>3 DEF Connects
<1>5. At(d, timeline[(cursor - 1) + 1])
  BY <1>2, <1>4
<1> HIDE DEF d, x
<1>6. Moves(d, cursor - 1)
  BY <1>1, <1>2, <1>5 DEF Moves
<1> QED BY <1>6

LEMMA RedoMoves ==
  ASSUME HistoryInv, Redo, timeline' = timeline, Save
  PROVE  \E d, c : Moves(d, c)
<1> DEFINE x == journal[cursor + 1]
           d == ApplyForward(db, x)
<1>1. task = Idle /\ cursor < Len(journal) /\ x.kind # "batch" /\ MoveCursor(d, cursor + 1)
  BY DEF Redo
<1>2. /\ cursor + 1 \in 1 .. Len(journal) /\ cursor + 1 \in 0 .. Len(journal)
      /\ db \in DbType /\ At(db, timeline[cursor + 1])
  <2>1. cursor \in 0 .. Len(journal) /\ Len(journal) \in Nat /\ db \in DbType /\ Point(db) /\ Content(db) = timeline[cursor + 1]
    BY <1>1, IdleHistory
  <2> QED BY <1>1, <2>1 DEF At, Point
<1>3. Connects(x, timeline[cursor + 1], timeline[(cursor + 1) + 1])
  BY <1>2 DEF HistoryInv, Consistent
<1>4. At(d, timeline[(cursor + 1) + 1])
  BY <1>1, <1>2, <1>3 DEF Connects
<1> HIDE DEF d, x
<1>5. Moves(d, cursor + 1)
  BY <1>1, <1>2, <1>4 DEF Moves
<1> QED BY <1>5

LEMMA ReplayEndMoves ==
  ASSUME HistoryInv, ReplayEnd, timeline' = timeline, Save
  PROVE  \E d, c : Moves(d, c)
<1>1. task.kind = "replay" /\ task.ops = <<>> /\ MoveCursor(db, task.to)
  BY DEF ReplayEnd
<1>2. task.to \in 0 .. Len(journal) /\ db \in DbType /\ task.to \in {cursor - 1, cursor + 1}
  BY <1>1 DEF HistoryInv, TypeInv, TypeOK, TaskHistory
<1>3. Clean(db) /\ Replays(<<>>, Content(db), timeline[task.to + 1])
  BY <1>1 DEF HistoryInv, TaskHistory
<1>4. At(db, timeline[task.to + 1])
  BY <1>2, <1>3, ReplayNone DEF At
<1>5. Moves(db, task.to)
  BY <1>1, <1>2, <1>4 DEF Moves
<1> QED BY <1>5

LEMMA BatchBeginQuiet ==
  ASSUME HistoryInv, BatchBegin, Stay
  PROVE  Quiet
<1>1. /\ task = Idle /\ task' = [kind |-> "batch", snapshot |-> db, ops |-> <<>>, inverse |-> <<>>]
      /\ UNCHANGED <<db, journal, cursor, adj, disk, timeline, savedTimeline>>
  BY DEF BatchBegin, Stay
<1>2. Point(db) /\ Content(db) = timeline[cursor + 1]
  BY <1>1, IdleHistory
<1>3. Replays(<<>>, Content(db), Content(db))
  BY ReplayNone
<1>4. task'.kind = "batch" /\ task' # Idle /\ task'.snapshot = db /\ task'.ops = <<>> /\ task'.inverse = <<>>
  BY <1>1 DEF Idle
<1>5. TaskHistory'
  BY <1>1, <1>2, <1>3, <1>4 DEF TaskHistory
<1>6. adj # NotBuilt => adj = Built(db)
  BY <1>1 DEF HistoryInv, IndexHistory
<1>7. IndexHistory'
  BY <1>1, <1>4, <1>6 DEF IndexHistory
<1> QED BY <1>1, <1>5, <1>7 DEF Quiet

\* One operation of a batch, with the operations that take it back.
LEMMA BatchOpQuiet ==
  ASSUME HistoryInv, NEW op \in BatchOps, BatchOp(op), Stay
  PROVE  Quiet
<1> DEFINE d == OpResult(db, op)
           a == Content(task.snapshot)
<1>1. /\ task.kind = "batch" /\ ~OpRejected(db, op) /\ db' = d
      /\ UNCHANGED <<journal, cursor, adj, disk, timeline, savedTimeline>>
  BY DEF BatchOp, Stay
<1>2. PICK order \in OpOrders(db, op) :
        task' = [task EXCEPT !.ops = Append(@, op), !.inverse = OpInverse(db, op, order) \o @]
  BY DEF BatchOp
<1>3. /\ task = [kind |-> "batch", snapshot |-> task.snapshot, ops |-> task.ops, inverse |-> task.inverse]
      /\ task.ops \in Seq(BatchOps) /\ task.inverse \in Seq(BatchOps) /\ task.snapshot \in DbType /\ db \in DbType
  BY <1>1, TaskKinds, TaskCases DEF HistoryInv, TypeInv, TypeOK
<1>4. /\ Point(db) /\ Point(task.snapshot) /\ a = timeline[cursor + 1]
      /\ Replays(task.ops, a, Content(db)) /\ Replays(task.inverse, Content(db), a)
  BY <1>1 DEF HistoryInv, TaskHistory
<1> DEFINE ops == Append(task.ops, op)
           back == OpInverse(db, op, order)
           inverse == back \o task.inverse
<1>5. task' = [kind |-> "batch", snapshot |-> task.snapshot, ops |-> ops, inverse |-> inverse]
  <2>1. PICK t, o, i : task = [kind |-> "batch", snapshot |-> t, ops |-> o, inverse |-> i]
    BY <1>3
  <2>2. task.snapshot = t /\ task.ops = o /\ task.inverse = i
    BY <2>1
  <2> HIDE DEF back
  <2>3. task' = [kind |-> "batch", snapshot |-> t, ops |-> Append(o, op), inverse |-> back \o i]
    BY <1>2, <2>1 DEF back
  <2> QED BY <2>2, <2>3
<1>6. Point(d) /\ Leads(op, Content(db), Content(d))
  BY <1>1, <1>3, <1>4, OpLeads DEF Point
<1>7. Replays(back, Content(d), Content(db)) /\ back \in Seq(BatchOps)
  BY <1>1, <1>3, <1>4, OpInverseReplaysBack, OpInverseType
<1> HIDE DEF d, a, back
<1>8. Replays(ops, a, Content(d))
  <2>1. Replays(<<op>>, Content(db), Content(d))
    BY <1>6, ReplayOne
  <2>2. <<op>> \in Seq(BatchOps) /\ ops = task.ops \o <<op>>
    BY <1>3, AppendIsConcat
  <2> HIDE DEF ops
  <2>3. Replays(task.ops \o <<op>>, a, Content(d))
    BY <1>3, <1>4, <2>1, <2>2, ReplayBoth
  <2> QED BY <2>2, <2>3
<1>9. Replays(inverse, Content(d), a)
  BY <1>3, <1>4, <1>7, ReplayBoth
<1> HIDE DEF ops, inverse
<1>10. /\ task'.kind = "batch" /\ task' # Idle /\ task'.snapshot = task.snapshot
       /\ task'.ops = ops /\ task'.inverse = inverse
  BY <1>5 DEF Idle
<1>11. TaskHistory'
  BY <1>1, <1>4, <1>6, <1>8, <1>9, <1>10 DEF TaskHistory, a
<1>12. adj # NotBuilt => adj = Built(task.snapshot)
  BY <1>1 DEF HistoryInv, IndexHistory
<1>13. IndexHistory'
  BY <1>1, <1>10, <1>12 DEF IndexHistory
<1> QED BY <1>1, <1>11, <1>13 DEF Quiet

LEMMA BatchFailQuiet ==
  ASSUME HistoryInv, BatchFail, Stay
  PROVE  Quiet
<1>1. /\ task.kind = "batch" /\ db' = task.snapshot /\ task' = Idle
      /\ UNCHANGED <<journal, cursor, adj, disk, timeline, savedTimeline>>
  BY DEF BatchFail, Stay
<1>2. Point(task.snapshot) /\ Content(task.snapshot) = timeline[cursor + 1]
  BY <1>1 DEF HistoryInv, TaskHistory
<1>3. TaskHistory'
  BY <1>1, <1>2 DEF TaskHistory, Idle
<1>4. IndexHistory'
  BY <1>1 DEF HistoryInv, IndexHistory, Idle
<1> QED BY <1>1, <1>3, <1>4 DEF Quiet

\* The loop of an undo or redo of a batch starts at the present, and has
\* operations that lead to the content next to it.
LEMMA ReplayBeginQuiet ==
  ASSUME HistoryInv, UndoBatch \/ RedoBatch, Stay
  PROVE  Quiet
<1>1. task = Idle /\ UNCHANGED <<db, journal, cursor, adj, disk, timeline, savedTimeline>>
  BY DEF UndoBatch, RedoBatch, ReplayBegin, Stay
<1>2. /\ cursor \in 0 .. Len(journal) /\ Len(journal) \in Nat
      /\ Point(db) /\ Content(db) = timeline[cursor + 1]
  BY <1>1, IdleHistory
<1>3. \A i \in 1 .. Len(journal) : Connects(journal[i], timeline[i], timeline[i + 1])
  BY DEF HistoryInv, Consistent
<1>4. PICK ops, to : /\ task' = [kind |-> "replay", ops |-> ops, to |-> to]
                     /\ Replays(ops, timeline[cursor + 1], timeline[to + 1])
                     /\ to \in {cursor - 1, cursor + 1}
  <2>1. CASE UndoBatch
    <3>1. /\ cursor > 0 /\ journal[cursor].kind = "batch"
          /\ task' = [kind |-> "replay", ops |-> journal[cursor].inverse, to |-> cursor - 1]
      BY <2>1 DEF UndoBatch, ReplayBegin
    <3>2. cursor \in 1 .. Len(journal) /\ (cursor - 1) + 1 = cursor
      BY <1>2, <3>1
    <3>3. Replays(journal[cursor].inverse, timeline[cursor + 1], timeline[cursor])
      BY <1>3, <3>1, <3>2 DEF Connects
    <3>4. Replays(journal[cursor].inverse, timeline[cursor + 1], timeline[(cursor - 1) + 1])
      BY <3>2, <3>3
    <3> QED BY <3>1, <3>4
  <2>2. CASE RedoBatch
    <3>1. /\ cursor < Len(journal) /\ journal[cursor + 1].kind = "batch"
          /\ task' = [kind |-> "replay", ops |-> journal[cursor + 1].ops, to |-> cursor + 1]
      BY <2>2 DEF RedoBatch, ReplayBegin
    <3>2. cursor + 1 \in 1 .. Len(journal)
      BY <1>2, <3>1
    <3>3. Replays(journal[cursor + 1].ops, timeline[cursor + 1], timeline[(cursor + 1) + 1])
      BY <1>3, <3>1, <3>2 DEF Connects
    <3> QED BY <3>1, <3>3
  <2> QED BY <2>1, <2>2
<1>5. task'.kind = "replay" /\ task' # Idle /\ task'.ops = ops /\ task'.to = to
  BY <1>4 DEF Idle
<1>6. TaskHistory'
  BY <1>1, <1>2, <1>4, <1>5 DEF TaskHistory, Point
<1>7. IndexHistory'
  BY <1>5 DEF IndexHistory
<1> QED BY <1>1, <1>6, <1>7 DEF Quiet

LEMMA ReplayOpQuiet ==
  ASSUME HistoryInv, ReplayOp, Stay
  PROVE  Quiet
<1> DEFINE op == Head(task.ops)
           rest == Tail(task.ops)
<1>1. /\ task.kind = "replay" /\ task.ops # <<>> /\ db' = OpResult(db, op)
      /\ task' = [task EXCEPT !.ops = Tail(@)]
      /\ UNCHANGED <<journal, cursor, adj, disk, timeline, savedTimeline>>
  BY DEF ReplayOp, Stay
<1>2. /\ task = [kind |-> "replay", ops |-> task.ops, to |-> task.to]
      /\ task.ops \in Seq(BatchOps) /\ db \in DbType
  BY <1>1, TaskKinds, TaskCases DEF HistoryInv, TypeInv, TypeOK
<1>3. Clean(db) /\ Replays(task.ops, Content(db), timeline[task.to + 1]) /\ task.to \in {cursor - 1, cursor + 1}
  BY <1>1 DEF HistoryInv, TaskHistory
<1>4. PICK c : Leads(op, Content(db), c) /\ Replays(rest, c, timeline[task.to + 1])
  BY <1>1, <1>2, <1>3, ReplayFirst
<1>5. At(OpResult(db, op), c)
  BY <1>2, <1>3, <1>4 DEF Leads, At
<1> HIDE DEF op, rest
<1>6. task'.kind = "replay" /\ task' # Idle /\ task'.ops = rest /\ task'.to = task.to
  BY <1>1, <1>2 DEF Idle, rest
<1>7. TaskHistory'
  BY <1>1, <1>3, <1>4, <1>5, <1>6 DEF TaskHistory, At
<1>8. IndexHistory'
  BY <1>6 DEF IndexHistory
<1> QED BY <1>1, <1>7, <1>8 DEF Quiet

\* Undo and redo of a batch never meet an operation that is rejected.
LEMMA ReplayNeverFails ==
  ASSUME HistoryInv
  PROVE  ~ReplayFail
<1> SUFFICES ASSUME ReplayFail PROVE FALSE
  OBVIOUS
<1> DEFINE op == Head(task.ops)
<1>1. task.kind = "replay" /\ task.ops # <<>> /\ OpRejected(db, op)
  BY DEF ReplayFail
<1>2. task.ops \in Seq(BatchOps) /\ db \in DbType
  BY <1>1, TaskCases DEF HistoryInv, TypeInv, TypeOK
<1>3. Clean(db) /\ Replays(task.ops, Content(db), timeline[task.to + 1])
  BY <1>1 DEF HistoryInv, TaskHistory
<1>4. PICK c : Leads(op, Content(db), c)
  BY <1>1, <1>2, <1>3, ReplayFirst
<1>5. ~OpRejected(db, op)
  BY <1>2, <1>3, <1>4 DEF Leads, At
<1> QED BY <1>1, <1>5

LEMMA QueryQuiet ==
  ASSUME HistoryInv, QueryEdges, Stay
  PROVE  Quiet
<1>1. /\ task = Idle /\ adj' = Built(db)
      /\ UNCHANGED <<db, journal, cursor, task, disk, timeline, savedTimeline>>
  BY DEF QueryEdges, Stay
<1>2. Idle.kind = "idle"
  BY DEF Idle
<1>3. TaskHistory'
  BY <1>1 DEF HistoryInv, TaskHistory
<1>4. IndexHistory'
  BY <1>1, <1>2 DEF IndexHistory
<1> QED BY <1>1, <1>3, <1>4 DEF Quiet

-----------------------------------------------------------------------------
(* The invariant holds, and what follows from it.                            *)

LEMMA InitHistory == HistoryInit => HistoryInv
<1> SUFFICES ASSUME HistoryInit PROVE HistoryInv
  OBVIOUS
<1> DEFINE f == Image(EmptyDb, <<>>, 0)
           c == Content(EmptyDb)
<1>1. /\ disk = f /\ db = Load(f) /\ journal = f.journal /\ cursor = f.cursor /\ adj = NotBuilt /\ task = Idle
      /\ timeline = <<c>> /\ savedTimeline = <<c>>
  BY DEF HistoryInit, Init, InitWith
<1>2. f.journal = <<>> /\ f.cursor = 0
  BY DEF Image
<1>3. Point(EmptyDb)
  BY EmptyDbType DEF Point, Clean, Anchored, EmptyDb
<1>4. Load(f) = EmptyDb
  BY <1>3, LoadImage
<1>5. c \in Points
  BY <1>3, ContentPoint
<1>6. TypeInv
  BY InitTypeInv DEF HistoryInit
<1> HIDE DEF f, c
<1>7. Consistent(<<>>, <<c>>)
  <2>1. <<>> \in Seq(JournalEntries) /\ Len(<<>>) = 0 /\ <<c>> \in Seq(Points) /\ Len(<<c>>) = 1
    BY <1>5
  <2> QED BY <2>1 DEF Consistent
<1>8. <<c>>[0 + 1] = c
  OBVIOUS
<1>9. FileHistory
  BY <1>1, <1>2, <1>3, <1>4, <1>7, <1>8 DEF FileHistory, c
<1>10. TaskHistory
  BY <1>1, <1>2, <1>3, <1>4, <1>8 DEF TaskHistory, Idle, c
<1>11. IndexHistory
  BY <1>1 DEF IndexHistory
<1> QED BY <1>1, <1>2, <1>6, <1>7, <1>9, <1>10, <1>11 DEF HistoryInv

LEMMA StepKinds ==
  ASSUME HistoryInv, HistoryNext
  PROVE  \/ \E d, es, cs : Writes(d, es, cs)
         \/ \E d, c : Moves(d, c)
         \/ Quiet
         \/ Crashes
<1>1. CASE \E n \in NodeIds, v \in NodeVals : PutNode(n, v) /\ Extend(<<Content(db')>>) /\ Save
  BY <1>1, PutNodeWrites
<1>2. CASE \E e \in EdgeIds : RemoveEdge(e) /\ Extend(<<Content(db')>>) /\ Save
  BY <1>2, RemoveEdgeWrites
<1>3. CASE BatchCommit /\ Extend(<<Content(db')>>) /\ Save
  BY <1>3, BatchCommitWrites
<1>4. ASSUME NEW e \in EdgeIds, NEW v \in EdgeVals, PutEdge(e, v),
             IF EndpointsActive(db, v) THEN Extend(<<Content(db')>>) /\ Save ELSE Stay
      PROVE  (\E d, es, cs : Writes(d, es, cs)) \/ Quiet
  <2>1. CASE EndpointsActive(db, v)
    BY <1>4, <2>1, PutEdgeWrites
  <2>2. CASE ~EndpointsActive(db, v)
    <3>1. /\ task = Idle /\ adj' = NotBuilt
          /\ UNCHANGED <<db, journal, cursor, task, disk, timeline, savedTimeline>>
      BY <1>4, <2>2 DEF PutEdge, Stay
    <3>2. TaskHistory' /\ IndexHistory'
      BY <3>1 DEF HistoryInv, TaskHistory, IndexHistory
    <3> QED BY <3>1, <3>2 DEF Quiet
  <2> QED BY <2>1, <2>2
<1>5. CASE \E n \in NodeIds : \E order \in Orders(Touching(db, n)) :
             RemoveNode(n, order) /\ Extend(RemovalContents(n, order)) /\ Save
  BY <1>5, RemoveNodeWrites
<1>6. CASE (Undo \/ Redo \/ ReplayEnd) /\ timeline' = timeline /\ Save
  BY <1>6, UndoMoves, RedoMoves, ReplayEndMoves
<1>7. CASE BatchStep /\ Stay
  <2>1. PICK op \in BatchOps : BatchOp(op)
    BY <1>7 DEF BatchStep, BatchOps
  <2> QED BY <1>7, <2>1, BatchOpQuiet
<1>8. CASE (BatchBegin \/ BatchFail \/ UndoBatch \/ RedoBatch \/ ReplayOp \/ ReplayFail \/ QueryEdges) /\ Stay
  BY <1>8, BatchBeginQuiet, BatchFailQuiet, ReplayBeginQuiet, ReplayOpQuiet, ReplayNeverFails, QueryQuiet
<1>9. CASE Reopen /\ timeline' = savedTimeline /\ savedTimeline' = savedTimeline
  BY <1>9 DEF Crashes
<1> QED BY <1>1, <1>2, <1>3, <1>4, <1>5, <1>6, <1>7, <1>8, <1>9 DEF HistoryNext

LEMMA StepHistory == HistoryInv /\ [HistoryNext]_historyVars => HistoryInv'
<1> SUFFICES ASSUME HistoryInv, [HistoryNext]_historyVars PROVE HistoryInv'
  OBVIOUS
<1>1. CASE UNCHANGED historyVars
  <2>1. UNCHANGED <<db, journal, cursor, adj, task, disk, timeline, savedTimeline>>
    BY <1>1 DEF historyVars, vars
  <2> QED BY <2>1 DEF HistoryInv, TypeInv, TypeOK, TaskHistory, FileHistory, IndexHistory
<1>2. CASE HistoryNext
  <2>1. Next
    BY <1>2 DEF HistoryNext, Next, BatchNext, ReplayNext
  <2>2. TypeInv'
    BY <2>1, StepTypeInv DEF HistoryInv
  <2>3. (\E d, es, cs : Writes(d, es, cs)) \/ (\E d, c : Moves(d, c)) \/ Quiet \/ Crashes
    BY <1>2, StepKinds
  <2> QED BY <2>2, <2>3, WriteKeeps, MoveKeeps, QuietKeeps, CrashKeeps
<1> QED BY <1>1, <1>2

LEMMA HistoryInductive == HistorySpec => []HistoryInv
  BY InitHistory, StepHistory, PTL DEF HistorySpec

\* Whatever is written, undone, redone, batched or interrupted: the file holds
\* one content of the timeline, with the journal and the cursor that belong to
\* it, so that no write falls inside a batch or between the maps and the cursor.
THEOREM FileIsAlwaysOnePoint == HistorySpec => []FileIsOnePoint
<1>1. HistoryInv => FileIsOnePoint
  BY DEF HistoryInv, FileHistory, FileIsOnePoint
<1> QED BY HistoryInductive, <1>1, PTL

\* An edge the store reports has two reported ends, whatever is undone or redone
\* in whatever order.
THEOREM EdgesStayAnchored == HistorySpec => []ActiveEdgesAnchored
<1>1. ASSUME HistoryInv PROVE ActiveEdgesAnchored
  <2>1. task = Idle => Point(db)
    BY <1>1, IdleHistory
  <2> QED BY <2>1 DEF ActiveEdgesAnchored, Point, Clean, Anchored, ActiveEdge, EndpointsActive, ActiveNode
<1> QED BY HistoryInductive, <1>1, PTL

\* An adjacency index that is not marked dirty was built from the edges of now.
THEOREM AdjacencyStaysFresh == HistorySpec => []AdjacencyFresh
<1>1. HistoryInv => AdjacencyFresh
  BY DEF HistoryInv, IndexHistory, AdjacencyFresh
<1> QED BY HistoryInductive, <1>1, PTL

-----------------------------------------------------------------------------
(* The journal of inverse operations is an undo history.                     *)

\* What callers see is the content at the cursor, in a loop as well.
LEMMA Visible ==
  ASSUME HistoryInv
  PROVE  (IF task = Idle THEN Content(db) ELSE timeline[cursor + 1]) = timeline[cursor + 1]
  BY DEF HistoryInv, TaskHistory

LEMMA VisibleNext ==
  ASSUME HistoryInv'
  PROVE  (IF task = Idle THEN Content(db) ELSE timeline[cursor + 1])' = timeline'[cursor' + 1]
  BY DEF HistoryInv, TaskHistory

\* A write of the file saves the present, a failed one leaves what was saved.
LEMMA SaveIsSave ==
  ASSUME Save, disk' = Image(db', journal', cursor') \/ disk' = disk
  PROVE  History!MaySave
<1>1. CASE disk' = Image(db', journal', cursor')
  <2>1. savedTimeline' = timeline' /\ disk'.cursor = cursor'
    BY <1>1 DEF Save, Image
  <2> QED BY <2>1 DEF History!MaySave, History!Present
<1>2. CASE disk' # Image(db', journal', cursor')
  BY <1>2 DEF Save, History!MaySave, History!Present
<1> QED BY <1>1, <1>2

\* Some points of the past up to point p of t are forgotten, the others are
\* those u begins with.
Forgets(t, p, u) ==
  \E lost \in 0 .. p :
    /\ Len(u) >= p - lost
    /\ SubSeq(u, 1, p - lost) = SubSeq(t, lost + 1, p)
    /\ lost > 0 => Len(u) = MaxJournal + 1

\* What pushJournal keeps of the past stays as it was.
LEMMA PastStays ==
  ASSUME NEW j, NEW t, Consistent(j, t), NEW c \in 0 .. Len(j), NEW es, NEW cs, Chain(es, t[c + 1], cs)
  PROVE  /\ Len(Extended(t, c, cs)) \in 1 .. MaxJournal + 1
         /\ Len(Extended(t, c, cs)) = Pushed(j, c, es).cursor + 1
         /\ Forgets(t, c + 1, Extended(t, c, cs))
<1> DEFINE n == Total(c, es)
           x == Dropped(c, es)
           u == Extended(t, c, cs)
           ft == Full(t, c + 1, cs)
           lost == IF x <= c + 1 THEN x ELSE c + 1
           m == c + 1 - lost
<1> HIDE DEF n, x, u, ft, lost, m
<1>1. /\ n \in Nat /\ x \in 0 .. n /\ n > c /\ Pushed(j, c, es).cursor = n - x
      /\ u \in Seq(Points) /\ Len(u) = (n - x) + 1
      /\ \A i \in 1 .. (n - x) + 1 : u[i] = ft[i + x]
  <2>1. Trimmed(j, t, c, es, cs)
    BY PushedIs
  <2> QED BY <2>1 DEF Trimmed, n, x, u, ft
<1>2. \A i \in 1 .. c + 1 : ft[i] = t[i]
  <2>1. LET y == c + Len(es)
        IN  /\ \A i \in 1 .. y : Connects(Full(j, c, es)[i], Full(t, c + 1, cs)[i], Full(t, c + 1, cs)[i + 1])
            /\ \A i \in 1 .. c + 1 : Full(t, c + 1, cs)[i] = t[i]
            /\ Full(t, c + 1, cs)[y + 1] = cs[Len(cs)]
    BY FullConnects
  <2> QED BY <2>1 DEF ft
<1>3. x = Excess(n)
  BY DEF Dropped, x, n
<1>4. t \in Seq(Points) /\ Len(t) = Len(j) + 1 /\ Len(j) \in Nat /\ c \in Nat /\ c <= Len(j)
  BY LenProperties DEF Consistent
<1>5. x > 0 => n - x = MaxJournal
  BY <1>1, <1>3, MaxJournalAssumption DEF Excess
<1>6. n - x <= MaxJournal
  BY <1>1, <1>3, ExcessIs
<1>7. lost \in 0 .. c + 1 /\ m \in 0 .. c + 1 /\ m <= Len(u) /\ (m > 0 => lost = x) /\ (lost > 0 => x > 0)
      /\ lost \in Nat /\ m + lost = c + 1
  BY <1>1, <1>4 DEF lost, m
<1>8. Len(u) \in 1 .. MaxJournal + 1
  BY <1>1, <1>6, MaxJournalAssumption
<1>9. SubSeq(u, 1, m) = SubSeq(t, lost + 1, c + 1)
  <2>1. \A i \in 1 .. m : u[i] \in Points
    <3>1. \A i \in 1 .. m : i \in 1 .. Len(u)
      BY <1>1, <1>7
    <3> QED BY <1>1, <3>1, ElementOfSeq
  <2>2. \A i \in lost + 1 .. c + 1 : t[i] \in Points
    <3>1. \A i \in lost + 1 .. c + 1 : i \in 1 .. Len(t)
      BY <1>4, <1>7
    <3> QED BY <1>4, <3>1, ElementOfSeq
  <2>3. /\ SubSeq(u, 1, m) \in Seq(Points) /\ Len(SubSeq(u, 1, m)) = m
        /\ \A i \in 1 .. m : SubSeq(u, 1, m)[i] = u[i]
    <3>1. m \in Nat /\ 1 \in Nat
      BY <1>4, <1>7
    <3>2. /\ SubSeq(u, 1, m) \in Seq(Points)
          /\ Len(SubSeq(u, 1, m)) = IF 1 <= m THEN m - 1 + 1 ELSE 0
          /\ \A i \in 1 .. m - 1 + 1 : SubSeq(u, 1, m)[i] = u[1 + i - 1]
      BY <1>1, <2>1, <3>1, SubSeqProperties
    <3> QED BY <3>1, <3>2
  <2>4. /\ SubSeq(t, lost + 1, c + 1) \in Seq(Points) /\ Len(SubSeq(t, lost + 1, c + 1)) = m
        /\ \A i \in 1 .. m : SubSeq(t, lost + 1, c + 1)[i] = t[i + lost]
    <3> DEFINE a == lost + 1
               b == c + 1
    <3>1. a \in Nat /\ b \in Nat /\ (IF a <= b THEN b - a + 1 ELSE 0) = m /\ b - a + 1 = m
      BY <1>4, <1>7
    <3>2. \A i \in a .. b : t[i] \in Points
      BY <2>2
    <3> HIDE DEF a, b
    <3>3. /\ SubSeq(t, a, b) \in Seq(Points)
          /\ Len(SubSeq(t, a, b)) = IF a <= b THEN b - a + 1 ELSE 0
          /\ \A i \in 1 .. b - a + 1 : SubSeq(t, a, b)[i] = t[a + i - 1]
      BY <1>4, <3>1, <3>2, SubSeqProperties
    <3>4. \A i \in 1 .. m : SubSeq(t, a, b)[i] = t[a + i - 1]
      BY <3>1, <3>3
    <3>5. \A i \in 1 .. m : a + i - 1 = i + lost
      BY <1>7 DEF a
    <3>6. \A i \in 1 .. m : SubSeq(t, a, b)[i] = t[i + lost]
      BY <3>4, <3>5
    <3> QED BY <3>1, <3>3, <3>6 DEF a, b
  <2>5. ASSUME NEW i \in 1 .. m PROVE u[i] = t[i + lost]
    <3>1. lost = x /\ i \in 1 .. (n - x) + 1 /\ i + x \in 1 .. c + 1
      BY <1>1, <1>7
    <3> QED BY <1>1, <1>2, <3>1
  <2> DEFINE left == SubSeq(u, 1, m)
             right == SubSeq(t, lost + 1, c + 1)
  <2>6. \A i \in 1 .. m : left[i] = right[i]
    BY <2>3, <2>4, <2>5
  <2>7. left \in Seq(Points) /\ right \in Seq(Points) /\ Len(left) = m /\ Len(right) = m
    BY <2>3, <2>4
  <2> HIDE DEF left, right
  <2>8. left = right
    BY <2>6, <2>7, SeqEqual
  <2> QED BY <2>8 DEF left, right
<1>10. Len(u) = Pushed(j, c, es).cursor + 1 /\ Len(u) >= m /\ (lost > 0 => Len(u) = MaxJournal + 1)
  BY <1>1, <1>5, <1>7
<1>11. Forgets(t, c + 1, u)
  BY <1>7, <1>9, <1>10 DEF Forgets, m
<1> QED BY <1>8, <1>10, <1>11 DEF u

LEMMA WriteIsWrite ==
  ASSUME HistoryInv, HistoryInv', NEW d, NEW es, NEW cs, Writes(d, es, cs)
  PROVE  History!Write
<1>0. Chain(es, timeline[cursor + 1], cs) /\ Commit(d, es) /\ Extend(cs) /\ Save
  BY DEF Writes
<1>1. Consistent(journal, timeline) /\ cursor \in 0 .. Len(journal)
  BY IdleHistory DEF HistoryInv
<1>2. timeline' = Extended(timeline, cursor, cs) /\ cursor' = Pushed(journal, cursor, es).cursor
  BY <1>0 DEF Extend, Commit
<1>3. /\ Len(Extended(timeline, cursor, cs)) \in 1 .. MaxJournal + 1
      /\ Len(Extended(timeline, cursor, cs)) = Pushed(journal, cursor, es).cursor + 1
      /\ Forgets(timeline, cursor + 1, Extended(timeline, cursor, cs))
  BY <1>0, <1>1, PastStays
<1>4. Len(timeline') \in 1 .. MaxJournal + 1 /\ Len(timeline') = cursor' + 1 /\ Forgets(timeline, cursor + 1, timeline')
  BY <1>2, <1>3
<1>5. disk' = Image(db', journal', cursor') \/ disk' = disk
  BY <1>0 DEF Commit, Persist
<1>6. History!MaySave
  BY <1>0, <1>5, SaveIsSave
<1>7. (IF task = Idle THEN Content(db) ELSE timeline[cursor + 1])' = timeline'[cursor' + 1]
  BY VisibleNext
<1> QED BY <1>4, <1>6, <1>7 DEF History!Write, Forgets

\* Undo and redo, of one entry or of a batch.
LEMMA MoveIsMove ==
  ASSUME HistoryInv, HistoryInv', NEW d, NEW c, Moves(d, c)
  PROVE  History!Undo \/ History!Redo
<1>0. c \in 0 .. Len(journal) /\ c \in {cursor - 1, cursor + 1} /\ MoveCursor(d, c) /\ timeline' = timeline /\ Save
  BY DEF Moves
<1>1. cursor' = c /\ journal' = journal /\ (disk' = Image(db', journal', cursor') \/ disk' = disk)
  BY <1>0 DEF MoveCursor, Persist
<1>2. Len(timeline) = Len(journal) + 1 /\ Len(journal) \in Nat /\ cursor \in Nat
  BY IdleHistory
<1>3. c + 1 \in 1 .. Len(timeline)
  BY <1>0, <1>2
<1>4. History!MaySave
  BY <1>0, <1>1, SaveIsSave
<1>5. History!MoveTo(c + 1)
  BY <1>0, <1>1, <1>3, <1>4, VisibleNext DEF History!MoveTo
<1>6. c + 1 = (cursor + 1) - 1 \/ c + 1 = (cursor + 1) + 1
  BY <1>0, <1>2
<1> QED BY <1>5, <1>6 DEF History!Undo, History!Redo

\* A step that leaves the journal and the file alone changes nothing callers see.
LEMMA QuietIsStutter ==
  ASSUME HistoryInv, HistoryInv', UNCHANGED <<cursor, disk, timeline, savedTimeline>>
  PROVE  UNCHANGED History!hvars
  BY Visible, VisibleNext DEF History!hvars

LEMMA ReopenIsCrash ==
  ASSUME HistoryInv', Crashes
  PROVE  History!Crash
  BY VisibleNext DEF Crashes, Reopen, History!Crash

LEMMA InitIsInit == HistoryInit => History!Init
<1> SUFFICES ASSUME HistoryInit PROVE History!Init
  OBVIOUS
<1>1. HistoryInv
  BY InitHistory
<1>2. timeline = <<Content(EmptyDb)>> /\ savedTimeline = timeline /\ cursor = 0 /\ disk.cursor = 0
  BY DEF HistoryInit, Init, InitWith, Image
<1>3. timeline[cursor + 1] = Content(EmptyDb)
  BY <1>2
<1> QED BY <1>1, <1>2, <1>3, Visible DEF History!Init, History!Present

LEMMA StepIsStep ==
  HistoryInv /\ HistoryInv' /\ [HistoryNext]_historyVars => [History!Next]_(History!hvars)
<1> SUFFICES ASSUME HistoryInv, HistoryInv', [HistoryNext]_historyVars PROVE [History!Next]_(History!hvars)
  OBVIOUS
<1>1. CASE UNCHANGED historyVars
  <2>1. UNCHANGED <<cursor, disk, timeline, savedTimeline>>
    BY <1>1 DEF historyVars, vars
  <2> QED BY <2>1, QuietIsStutter
<1>2. CASE HistoryNext
  <2>1. CASE \E d, es, cs : Writes(d, es, cs)
    BY <2>1, WriteIsWrite DEF History!Next
  <2>2. CASE \E d, c : Moves(d, c)
    BY <2>2, MoveIsMove DEF History!Next
  <2>3. CASE Quiet
    BY <2>3, QuietIsStutter DEF Quiet
  <2>4. CASE Crashes
    BY <2>4, ReopenIsCrash DEF History!Next
  <2> QED BY <1>2, <2>1, <2>2, <2>3, <2>4, StepKinds
<1> QED BY <1>1, <1>2

\* Every handler of the store is a step of the undo history, or nothing a caller
\* sees: undo restores exactly the previous content and redo exactly the undone
\* one, a batch is one step or none, a removal with its cascade is taken back
\* entry by entry, a trimmed journal forgets from the far end only, and a crash
\* returns to the last content written, with the history it had.
THEOREM JournalIsUndoHistory == HistorySpec => ImplementsUndoHistory
  BY HistoryInductive, InitIsInit, StepIsStep, PTL DEF HistorySpec, ImplementsUndoHistory, History!Spec
=============================================================================
