------------------------------ MODULE EditOps ------------------------------
(***************************************************************************)
(* The edit operations of src/main/edit-ops.ts over the store's write      *)
(* queue.  An operation reads the store when it is called, hands whole     *)
(* records to the queue, and goes on after each answer: between its writes *)
(* other operations that were called in the same turn of the event loop    *)
(* (tool calls that arrive in one chunk) read and write too.               *)
(*                                                                         *)
(* A node is reduced to the fields the operations tell apart, an edge to   *)
(* what they copy.  The journal and the file of the store are RagStore's   *)
(* matter, and so is the set of fields a journal entry restores.           *)
(***************************************************************************)
EXTENDS Integers, Sequences, FiniteSets

CONSTANTS
  NodeIds, EdgeIds,  \* 1..k: the ids in the order in which they are minted; as many as there may be
  FirstNodes,        \* the nodes there are at first; calls name these
  FirstEdges,        \* a set of sets of edges: one of them is there at first
  Texts,             \* what set_content and the like may write: sequences
  Marks,             \* the values of a type, a property, a subtree or the tags
  Docs,              \* document ids of a next-section edge
  Callers,           \* calls that may be in progress at once
  MaxCalls,          \* bound: how many calls are made in all
  Kinds,             \* which operations are called
  EdgeCalls,         \* the calls of set_edge
  None

ASSUME IdsAssumption == /\ NodeIds \subseteq Nat /\ EdgeIds \subseteq Nat
                        /\ IsFiniteSet(NodeIds) /\ IsFiniteSet(EdgeIds)
                        /\ FirstNodes \subseteq NodeIds
                        /\ FirstNodes = 1 .. Cardinality(FirstNodes) /\ Cardinality(FirstNodes) \in Nat
ASSUME MarkAssumption == None \notin Marks \cup Docs \cup NodeIds \cup EdgeIds

VARIABLES
  db,        \* nodes and edges, and how many ids of each were minted
  queue,     \* the writes accepted and not yet run, oldest first
  running,   \* inQueue: the write that has run and whose promise is settling
  call,      \* per caller: the operation in progress, or Idle
  made,      \* how many calls, node ids and edge ids there have been
  acked      \* history: per node, the record its last unraced write left

vars == <<db, queue, running, call, made, acked>>

----------------------------------------------------------------------------
(* The store.                                                              *)

Symbols == UNION {{t[i] : i \in DOMAIN t} : t \in Texts}
\* A field nobody gave a value is undefined: None.
Fields == Marks \cup {None}
Node == [text : Seq(Symbols), type : Fields, prop : Fields, kids : Fields, tags : Fields]
ASSUME NodesAssumption == Texts \subseteq Seq(Symbols) /\ None \notin Node
\* doc-end is treated as doc-head is, and crosslink by no operation.
EdgeKinds == {"parent-child", "doc-child", "next-section", "doc-head"}
EdgeRecord == [kind : EdgeKinds, source : NodeIds, target : NodeIds, order : Int, doc : Docs \cup {None}]
ASSUME EdgesAssumption ==
  /\ None \notin EdgeRecord
  /\ \A es \in FirstEdges : /\ IsFiniteSet(es) /\ es \subseteq EdgeRecord /\ 1 .. Cardinality(es) \subseteq EdgeIds
                           /\ \A v \in es : v.source # v.target
  /\ \A o \in EdgeCalls : /\ o.op = "setEdge" /\ o.edge \in EdgeIds \cup {None} /\ {o.node, o.target} \subseteq FirstNodes
                         /\ o.kind \in EdgeKinds /\ o.order \in Int /\ o.doc \in Docs \cup {None}

Present(d, n) == d.nodes[n] # None
EdgesOf(d) == {e \in EdgeIds : d.edges[e] # None}
\* The edges of one kind that leave n.
From(d, k, n) == {e \in EdgesOf(d) : d.edges[e].kind = k /\ d.edges[e].source = n}
Touching(d, n) == {e \in EdgesOf(d) : n \in {d.edges[e].source, d.edges[e].target}}

WellFormedEdge(d, v) == v.source # v.target /\ Present(d, v.source) /\ Present(d, v.target)

\* MUTANT: removing a node takes the nodes below it along.
Apply_TakesChildren(d, w) ==
  IF w.op # "removeNode" THEN [d EXCEPT !.nodes = [n \in NodeIds |-> IF w.op = "putNode" /\ n = w.id THEN w.node ELSE d.nodes[n]],
                                        !.edges = [e \in EdgeIds |-> IF w.op = "putEdge" /\ e = w.id THEN w.edge
                                                                     ELSE IF w.op = "removeEdge" /\ e = w.id THEN None ELSE d.edges[e]]]
  ELSE LET gone == {w.id} \cup {d.edges[e].target : e \in From(d, "parent-child", w.id)}
       IN [d EXCEPT !.nodes = [n \in NodeIds |-> IF n \in gone THEN None ELSE d.nodes[n]],
                    !.edges = [e \in EdgeIds |-> IF \E n \in gone : e \in Touching(d, n) THEN None ELSE d.edges[e]]]
\* What a write that runs does: the store after it, or no change and an error.
Apply(d, w) ==
  CASE w.op = "putNode"    -> [d EXCEPT !.nodes[w.id] = w.node]
    [] w.op = "removeNode" ->
         [d EXCEPT !.nodes[w.id] = None,
                   !.edges = [e \in EdgeIds |-> IF Present(d, w.id) /\ e \in Touching(d, w.id)
                                                THEN None ELSE d.edges[e]]]
    [] w.op = "putEdge"    -> [d EXCEPT !.edges[w.id] = w.edge]
    [] w.op = "removeEdge" -> [d EXCEPT !.edges[w.id] = None]
Throws(d, w) == w.op = "putEdge" /\ ~WellFormedEdge(d, w.edge)

----------------------------------------------------------------------------
(* What an operation reads and writes when it is called.                   *)

IsRoot(d, n) == \E e \in EdgesOf(d) : d.edges[e].kind = "doc-head" /\ d.edges[e].target = n

\* Along parent-child and doc-child edges, at most as many steps as there are nodes.
Below(d, n) ==
  LET step[i \in 0 .. Cardinality(NodeIds)] ==
        IF i = 0 THEN {n}
        ELSE step[i-1] \cup {d.edges[e].target :
               e \in UNION {From(d, k, m) : k \in {"parent-child", "doc-child"}, m \in step[i-1]}}
  IN step[Cardinality(NodeIds)]
IsDescendant(d, s, t) == t \in Below(d, s)

\* The record a setter hands to putNode: the one it read, with its own fields.
SetterRecord(o, r) ==
  CASE o.op = "setContent"  -> [r EXCEPT !.text = o.text]
    [] o.op = "setProps"    -> [r EXCEPT !.prop = o.mark]
    [] o.op = "setSubtree"  -> [r EXCEPT !.kids = o.mark]
    [] o.op = "setType"     -> [r EXCEPT !.type = o.mark]
    [] o.op = "setDocMeta"  -> [r EXCEPT !.tags = o.mark]
    [] o.op = "setRichText" -> [r EXCEPT !.text = o.text, !.kids = o.mark]
Setters == {"setContent", "setProps", "setSubtree", "setType", "setDocMeta", "setRichText"}
\* The setters that write nothing when nothing would change.
IsNoOp(o, r) == o.op \in {"setProps", "setType", "setRichText"} /\ SetterRecord(o, r) = r

\* merge_node is refused for a source that has a role in a document's chain.
HasFlowRole(d, n) == From(d, "doc-head", n) # {}
MidChain(d, n) == \E e \in EdgesOf(d) : d.edges[e].kind = "next-section" /\ d.edges[e].target = n

\* The checks an operation makes before its first write.
Refused(o, d) ==
  CASE o.op = "setDocMeta" -> ~Present(d, o.node) \/ ~IsRoot(d, o.node)
    [] o.op \in Setters \cup {"deleteNode"} -> ~Present(d, o.node)
    [] o.op = "createNode" -> o.node # None /\ ~Present(d, o.node)
    [] o.op = "splitNode"  -> ~Present(d, o.node) \/ o.at \notin 1 .. (Len(d.nodes[o.node].text) - 1)
    [] o.op = "mergeNode"  ->
         \/ o.node = o.target
         \/ ~Present(d, o.node) \/ ~Present(d, o.target)
         \/ IsDescendant(d, o.node, o.target)
         \/ HasFlowRole(d, o.node) \/ MidChain(d, o.node)
    [] o.op = "setEdge"    ->
         \/ o.node = o.target
         \/ ~Present(d, o.node) \/ ~Present(d, o.target)
         \/ o.edge # None /\ d.edges[o.edge] = None

FreshNode(t, type, prop) == [text |-> t, type |-> type, prop |-> prop, kids |-> None, tags |-> None]
Before(t, at) == SubSeq(t, 1, at)
After(t, at)  == SubSeq(t, at + 1, Len(t))

\* MUTANT: the number of doc-children less one, as if their orders had no gaps and began at 1.
NextOrder_Count(d, n) == Cardinality(From(d, "doc-child", n)) - 1
\* One more than the largest order of n's doc-children.
NextOrder(d, n) ==
  1 + CHOOSE m \in {-1} \cup {d.edges[e].order : e \in From(d, "doc-child", n)} :
        \A e \in From(d, "doc-child", n) : d.edges[e].order <= m

Edge(kind, source, target, order, doc) ==
  [kind |-> kind, source |-> source, target |-> target, order |-> order, doc |-> doc]

----------------------------------------------------------------------------
(* One operation, as its caller sees it.  pc: "sent" while a write of it   *)
(* is queued or runs, "answered" when its promise has settled.  next: what *)
(* the operation does when it goes on.                                     *)

PutNode(n, v) == [op |-> "putNode", id |-> n, node |-> v]
RemoveNode(n) == [op |-> "removeNode", id |-> n]
PutEdge(e, v) == [op |-> "putEdge", id |-> e, edge |-> v]
RemoveEdge(e) == [op |-> "removeEdge", id |-> e]

FreshNodeId == made.nodes + 1
FreshEdgeId == made.edges + 1

Read(o) == IF o.node = None THEN None ELSE db.nodes[o.node]

Idle == [pc |-> "idle"]
Active == {c \in Callers : call[c].pc # "idle"}
Nodes(o) == IF o.op \in {"mergeNode", "setEdge"} THEN {o.node, o.target} ELSE {o.node}
\* The node records the operation writes.
Written(o) == CASE o.op = "setEdge" -> {} [] o.op = "createNode" -> {} [] OTHER -> Nodes(o)

\* enqueue: the write runs behind those accepted before it, or at once when a
\* write has just run and its promise has not settled yet (inQueue).
Send(c, k, w) ==
  IF running # None
  THEN /\ db' = IF Throws(db, w) THEN db ELSE Apply(db, w)
       /\ call' = [k EXCEPT ![c].pc = "answered", ![c].ok = ~Throws(db, w)]
       /\ UNCHANGED queue
  ELSE /\ queue' = Append(queue, [by |-> c, write |-> w])
       /\ call' = [k EXCEPT ![c].pc = "sent"]
       /\ UNCHANGED db

\* What an unraced operation leaves of the records it writes: one record or none.
Expected(o, d) ==
  [n \in Written(o) |->
     CASE o.op \in Setters   -> {SetterRecord(o, d.nodes[n])}
       [] o.op = "splitNode" -> {[d.nodes[n] EXCEPT !.text = Before(@, o.at)]}
       [] o.op = "mergeNode" /\ n = o.target -> {[d.nodes[n] EXCEPT !.text = @ \o d.nodes[o.node].text]}
       [] OTHER              -> {}]

\* The write an operation hands over when it is called, and its stage after it.
FirstWrite(o) ==
  CASE o.op \in Setters    -> PutNode(o.node, SetterRecord(o, db.nodes[o.node]))
    [] o.op = "createNode" -> PutNode(FreshNodeId, FreshNode(o.text, o.mark, None))
    [] o.op = "deleteNode" -> RemoveNode(o.node)
    [] o.op = "splitNode"  -> PutNode(o.node, [db.nodes[o.node] EXCEPT !.text = Before(@, o.at)])
    [] o.op = "mergeNode"  -> PutNode(o.target, [db.nodes[o.target] EXCEPT !.text = @ \o db.nodes[o.node].text])
    [] o.op = "setEdge"    -> PutEdge(IF o.edge = None THEN FreshEdgeId ELSE o.edge,
                                      Edge(o.kind, o.node, o.target, o.order, o.doc))
FirstStage(o) ==
  CASE o.op = "createNode" /\ o.node # None -> "link"
    [] o.op = "splitNode" -> "tail"
    [] o.op = "mergeNode" -> "walk"
    [] OTHER -> "end"
NewCall(o, races) ==
  [o |-> o, pc |-> "sent", ok |-> TRUE, phase |-> 0, left |-> {}, cur |-> None, order |-> 0,
   next |-> FirstStage(o), fresh |-> FreshNodeId, read |-> Read(o),
   solo |-> IF Active = {} THEN db ELSE None,
   raced |-> races # {}, expect |-> Expected(o, db)]

\* Calling an operation: its checks and its first write.  The calls that are
\* in progress were called in the same turn.
Begin(c, o) ==
  /\ made.calls < MaxCalls /\ c \notin Active
  /\ o.op = "createNode" => FreshNodeId \in NodeIds
  /\ o.op = "setEdge" /\ o.edge = None => FreshEdgeId \in EdgeIds
  /\ made' = [made EXCEPT !.calls = @ + 1,
                         !.nodes = IF o.op = "createNode" /\ ~Refused(o, db) THEN @ + 1 ELSE @,
                         !.edges = IF o.op = "setEdge" /\ o.edge = None /\ ~Refused(o, db) THEN @ + 1 ELSE @]
  /\ IF Refused(o, db) \/ IsNoOp(o, Read(o))
     THEN UNCHANGED <<db, queue, running, call, acked>>
     ELSE LET races == {b \in Active : Written(call[b].o) \cap Written(o) # {}}
          IN /\ Send(c, [b \in Callers |-> IF b = c THEN NewCall(o, races)
                                         ELSE IF b \in Active
                                         THEN [call[b] EXCEPT !.solo = None, !.raced = @ \/ b \in races]
                                         ELSE Idle], FirstWrite(o))
             /\ acked' = [n \in NodeIds |-> IF n \in Written(o) THEN None ELSE acked[n]]
             /\ UNCHANGED running

\* The queue runs its oldest write; its promise settles some microtasks later.
RunWrite ==
  /\ queue # <<>> /\ running = None
  /\ LET q == Head(queue)
     IN /\ db' = IF Throws(db, q.write) THEN db ELSE Apply(db, q.write)
        /\ running' = [by |-> q.by, ok |-> ~Throws(db, q.write)]
        /\ queue' = Tail(queue)
  /\ UNCHANGED <<call, made, acked>>

\* A write that throws rejects its own promise only: the chain goes on.
Settle ==
  /\ running # None
  /\ call' = [call EXCEPT ![running.by].pc = "answered", ![running.by].ok = running.ok]
  /\ running' = None
  /\ UNCHANGED <<db, queue, made, acked>>

\* The operation returns, or an error of the store passes through it.
End(c) ==
  /\ call[c].pc = "answered"
  /\ ~call[c].ok \/ call[c].next = "end"
  /\ call' = [call EXCEPT ![c] = Idle]
  /\ acked' = IF call[c].ok /\ ~call[c].raced
              THEN [n \in NodeIds |-> IF n \in Written(call[c].o) THEN call[c].expect[n] ELSE acked[n]] ELSE acked
  /\ UNCHANGED <<db, queue, running, made>>

GoesOn(c, label) == call[c].pc = "answered" /\ call[c].ok /\ call[c].next = label

SendNewEdge(c, k, v) ==
  /\ FreshEdgeId \in EdgeIds
  /\ Send(c, k, PutEdge(FreshEdgeId, v))
  /\ made' = [made EXCEPT !.edges = @ + 1]
  /\ UNCHANGED <<running, acked>>

\* create_node: the edge from the parent.
Link(c) ==
  /\ GoesOn(c, "link")
  /\ SendNewEdge(c, [call EXCEPT ![c].next = "end"],
                 Edge("parent-child", call[c].o.node, call[c].fresh, 0, None))

\* split_node: the new node with the rest of the text, then its edge, last in order.
SplitTail(c) ==
  /\ GoesOn(c, "tail")
  /\ FreshNodeId \in NodeIds
  /\ Send(c, [call EXCEPT ![c].next = "join", ![c].fresh = FreshNodeId],
          PutNode(FreshNodeId, FreshNode(After(call[c].read.text, call[c].o.at), call[c].read.type, call[c].read.prop)))
  /\ made' = [made EXCEPT !.nodes = @ + 1]
  /\ UNCHANGED <<running, acked>>

SplitJoin(c) ==
  /\ GoesOn(c, "join")
  /\ SendNewEdge(c, [call EXCEPT ![c].next = "end"],
                 Edge("doc-child", call[c].o.node, call[c].fresh, NextOrder(db, call[c].o.node), None))

\* merge_node: source's children and next sections, one kind after the other.
\* Each list is read when its loop starts; the target keeps what it has.
Phase == <<"parent-child", "doc-child", "next-section">>
Rest(k) ==
  IF k.left # {} THEN k
  ELSE LET later == {i \in (k.phase + 1) .. 3 : From(db, Phase[i], k.o.node) # {}}
           p == IF later = {} THEN 4 ELSE CHOOSE i \in later : \A j \in later : i <= j
       IN [k EXCEPT !.phase = p,
                    !.left = IF p = 4 THEN {}
                             ELSE {[id |-> e, target |-> db.edges[e].target, doc |-> db.edges[e].doc] :
                                     e \in From(db, Phase[p], k.o.node)},
                    !.order = IF p = 2 THEN NextOrder(db, k.o.target) ELSE @]
TargetHas(k, x) ==
  \E e \in From(db, Phase[k.phase], k.o.target) :
     IF k.phase = 3 THEN db.edges[e].doc = x.doc ELSE db.edges[e].target = x.target

Reparent(c) ==
  /\ GoesOn(c, "walk")
  /\ LET k == Rest(call[c])
     IN \E x \in k.left :
          LET rest == [k EXCEPT !.left = @ \ {x}]
          IN IF TargetHas(k, x)
             THEN /\ Send(c, [call EXCEPT ![c] = rest], RemoveEdge(x.id))
                  /\ UNCHANGED <<running, made, acked>>
             ELSE SendNewEdge(c, [call EXCEPT ![c] = [rest EXCEPT !.next = "drop", !.cur = x.id,
                                                         !.order = IF k.phase = 2 THEN @ + 1 ELSE @]],
                              Edge(Phase[k.phase], k.o.target, x.target,
                                   IF k.phase = 2 THEN k.order ELSE 0, IF k.phase = 3 THEN x.doc ELSE None))
DropOld(c) ==
  /\ GoesOn(c, "drop")
  /\ Send(c, [call EXCEPT ![c].next = "walk"], RemoveEdge(call[c].cur))
  /\ UNCHANGED <<running, made, acked>>
RemoveSource(c) ==
  /\ GoesOn(c, "walk") /\ Rest(call[c]).phase = 4
  /\ Send(c, [call EXCEPT ![c].next = "end"], RemoveNode(call[c].o.node))
  /\ UNCHANGED <<running, made, acked>>

Continue(c) == End(c) \/ Link(c) \/ SplitTail(c) \/ SplitJoin(c) \/ Reparent(c) \/ DropOld(c) \/ RemoveSource(c)

----------------------------------------------------------------------------
\* The calls.  A call of the user interface arrives in a task of its own, so
\* it overlaps no other; calls of tools may have come in one chunk.
OfInterface == {"setRichText"}
Calls ==
  { o \in
    [op : {"setContent"}, node : FirstNodes, text : Texts]
      \cup [op : {"setProps", "setSubtree", "setType", "setDocMeta"}, node : FirstNodes, mark : Marks]
      \cup [op : {"setRichText"}, node : FirstNodes, text : Texts, mark : Marks]
      \cup [op : {"createNode"}, node : FirstNodes \cup {None}, text : Texts, mark : Marks]
      \cup [op : {"deleteNode"}, node : FirstNodes]
      \cup [op : {"splitNode"}, node : FirstNodes, at : {0, 1}]
      \cup [op : {"mergeNode"}, node : FirstNodes, target : FirstNodes]
      \cup EdgeCalls
    : o.op \in Kinds }
MayOverlap(o) == Active = {} \/ /\ o.op \notin OfInterface
                                /\ \A c \in Active : call[c].o.op \notin OfInterface

Init ==
  /\ \E t \in Texts, es \in FirstEdges :
       LET id == CHOOSE f \in [es -> 1 .. Cardinality(es)] : \A v, w \in es : v # w => f[v] # f[w]
       IN db = [nodes |-> [n \in NodeIds |-> IF n \in FirstNodes THEN FreshNode(t, None, None) ELSE None],
                edges |-> [e \in EdgeIds |-> IF \E v \in es : id[v] = e
                                             THEN CHOOSE v \in es : id[v] = e ELSE None]]
  /\ queue = <<>> /\ running = None
  /\ call = [c \in Callers |-> Idle]
  /\ made = [calls |-> 0, nodes |-> Cardinality(FirstNodes), edges |-> Cardinality(EdgesOf(db))]
  /\ acked = [n \in NodeIds |-> None]

Next ==
  \/ \E c \in Callers, o \in Calls : MayOverlap(o) /\ Begin(c, o)
  \/ RunWrite
  \/ Settle
  \/ \E c \in Callers : Continue(c)

Spec == Init /\ [][Next]_vars

----------------------------------------------------------------------------
(* What an operation that ran alone must have done, stated on the two      *)
(* stores and not on its writes.                                           *)

Links(d, k) == {<<d.edges[e].source, d.edges[e].target>> : e \in {x \in EdgesOf(d) : d.edges[x].kind = k}}
Sections(d, n) == {<<d.edges[e].target, d.edges[e].doc>> : e \in From(d, "next-section", n)}
DocsOf(links) == {l[2] : l \in links}
\* The edges of d that do not touch n are as they were.
SameApartFrom(d, d2, ns) ==
  \A e \in EdgesOf(d) : {d.edges[e].source, d.edges[e].target} \cap ns = {} => d2.edges[e] = d.edges[e]
NewOf(d, d2, k, n) == From(d2, k, n) \ From(d, k, n)

MergeIsWhole(s, t, d, d2) ==
  /\ d2.nodes = [d.nodes EXCEPT ![s] = None, ![t].text = @ \o d.nodes[s].text]
  /\ Touching(d2, s) = {}
  /\ \A k \in {"parent-child", "doc-child"} :
       /\ Links(d2, k) = {<<IF l[1] = s THEN t ELSE l[1], l[2]>> : l \in {x \in Links(d, k) : x[2] # s}}
       /\ \A e \in NewOf(d, d2, k, t), f \in From(d2, k, t) : d2.edges[e].target = d2.edges[f].target => e = f
  /\ \A e \in NewOf(d, d2, "doc-child", t), f \in From(d2, "doc-child", t) :
       e # f => d2.edges[e].order # d2.edges[f].order
  /\ Sections(d, t) \subseteq Sections(d2, t)
  /\ Sections(d2, t) \subseteq Sections(d, t) \cup Sections(d, s)
  /\ DocsOf(Sections(d2, t)) = DocsOf(Sections(d, t)) \cup DocsOf(Sections(d, s))
  /\ SameApartFrom(d, d2, {s, t})

SplitIsWhole(n, at, fresh, d, d2) ==
  /\ d2.nodes[n].text \o d2.nodes[fresh].text = d.nodes[n].text
  /\ Len(d2.nodes[n].text) = at
  /\ \A m \in NodeIds \ {n, fresh} : d2.nodes[m] = d.nodes[m]
  /\ \E e \in EdgesOf(d2) \ EdgesOf(d) :
       /\ d2.edges[e].target = fresh
       /\ \A f \in From(d2, "doc-child", n) \ {e} : d2.edges[f].order < d2.edges[e].order
       /\ d2.edges = [d.edges EXCEPT ![e] = d2.edges[e]]

WholeEffect(o, fresh, d, d2) ==
  CASE o.op \in Setters     -> d2 = [d EXCEPT !.nodes[o.node] = SetterRecord(o, @)]
    [] o.op = "deleteNode"  -> /\ d2.nodes = [d.nodes EXCEPT ![o.node] = None]
                               /\ EdgesOf(d2) = EdgesOf(d) \ Touching(d, o.node)
                               /\ SameApartFrom(d, d2, {o.node})
    [] o.op = "createNode"  -> /\ {n \in NodeIds : Present(d2, n)} = {n \in NodeIds : Present(d, n)} \cup {fresh}
                               /\ o.node # None => <<o.node, fresh>> \in Links(d2, "parent-child")
                               /\ SameApartFrom(d, d2, {})
    [] o.op = "splitNode"   -> SplitIsWhole(o.node, o.at, fresh, d, d2)
    [] o.op = "mergeNode"   -> MergeIsWhole(o.node, o.target, d, d2)
    [] o.op = "setEdge"     -> <<o.node, o.target>> \in Links(d2, o.kind) /\ d2.nodes = d.nodes

Returns(c) == c \in Active /\ call'[c] = Idle

\* An operation that no other overlapped has, when it returns ok, its whole
\* effect and no other: nothing is lost, doubled or orphaned by its writes
\* being separate (edit-ops.ts, all operations).
SoloIsWhole ==
  [][\A c \in Callers : Returns(c) /\ call[c].ok /\ call[c].solo # None
        => WholeEffect(call[c].o, call[c].fresh, call[c].solo, db')]_vars

\* What an operation wrote of a node stays until another operation on that
\* node, however the writes of operations on other nodes are interleaved: a
\* lost update or a deleted node that comes back needs two operations on one
\* node in one turn (edit-ops.ts:166-171, the read before the queued write).
UnracedWritesHold ==
  \A n \in NodeIds :
    acked[n] # None => {db.nodes[n]} \ {None} = acked[n]
=============================================================================
