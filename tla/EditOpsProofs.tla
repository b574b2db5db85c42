--------------------------- MODULE EditOpsProofs ---------------------------
(***************************************************************************)
(* The edit operations (edit-ops.ts over the write queue of rag-store.ts), *)
(* for every set of ids, texts, marks, edges, callers and calls.           *)
(*                                                                         *)
(* EditsStay: what an operation alone has written of a node stays.  acked  *)
(* changes only when an operation begins or ends, the store at every       *)
(* write in between.  The invariant EditInv therefore follows each write   *)
(* from the operation to the store: what an operation in progress is       *)
(* expected to leave of a record is there, or waits in the queue, or, for  *)
(* the source of a merge, is still to be sent; a write in the queue is of  *)
(* a caller that waits for it, leaves what that caller is expected to      *)
(* leave, and two callers that write one record both know that they are    *)
(* raced.                                                                  *)
(*                                                                         *)
(* SolosAreWhole: an operation that no other overlapped has its whole      *)
(* effect.  It is the only call in progress and has at most one write on   *)
(* its way, so that SoloInv can say, for each stage of the operation, how  *)
(* the store stands to the one it began with, now or once that write has   *)
(* run (Progress).  For a merge this is a relation of the two stores       *)
(* (Moving: every edge is kept or has its like at the target, every new    *)
(* one copies one of the source's, and no two new ones are alike) and what *)
(* the list of edges it goes through has left (Walking).                   *)
(***************************************************************************)
EXTENDS EditOps, SequenceTheorems, FiniteSetTheorems, FunctionTheorems, WellFoundedInduction, TLAPS

----------------------------------------------------------------------------
(* The invariant, over a store d, a queue q, the write r that settles, a   *)
(* table of calls k and the acknowledged records a.                        *)

IsSeq(q) == \E S : q \in Seq(S)
IsTable(k) == k = [c \in Callers |-> k[c]]
Busy(k) == {c \in Callers : k[c].pc # "idle"}

StoreTyped(d) == {"nodes", "edges"} \subseteq DOMAIN d /\ d.nodes \in [NodeIds -> Node \cup {None}]
MadeTyped(m) == {"calls", "nodes", "edges"} \subseteq DOMAIN m /\ m.nodes \in Nat /\ Cardinality(FirstNodes) <= m.nodes

\* The record of n in d is the one of s, or there is none and s is empty.
Leaves(d, n, s) == {d.nodes[n]} \ {None} = s

CallFields == {"o", "pc", "ok", "phase", "left", "cur", "order", "next", "fresh", "read", "solo", "raced", "expect"}
StageOf(o, next) ==
  /\ next \in {"walk", "drop"} => o.op = "mergeNode"
  /\ next \in {"tail", "join"} => o.op = "splitNode"
CallTyped(x) ==
  /\ CallFields \subseteq DOMAIN x
  /\ x.o \in Calls /\ x.pc \in {"sent", "answered"}
  /\ StageOf(x.o, x.next)
  /\ x.o.op = "splitNode" => x.read \in Node
  /\ DOMAIN x.expect = Written(x.o) /\ x.expect = [n \in Written(x.o) |-> x.expect[n]]
  /\ x.o.op = "mergeNode" => x.expect[x.o.node] = {}

IsNodeWrite(w, n) == w.op \in {"putNode", "removeNode"} /\ w.id = n
\* A write of a node leaves of a record what its caller is expected to leave,
\* or makes a node that no call names.
WriteFits(w, x) ==
  \/ w.op \in {"putEdge", "removeEdge"}
  \/ /\ w.op = "putNode" /\ w.node \in Node
     /\ w.id \notin FirstNodes \/ (w.id \in Written(x.o) /\ x.expect[w.id] = {w.node})
  \/ w.op = "removeNode" /\ w.id \in Written(x.o) /\ x.expect[w.id] = {}

TableOK(k, a) ==
  /\ IsTable(k)
  /\ \A c \in Busy(k) : CallTyped(k[c])
  /\ \A b, c \in Busy(k) : b # c /\ Written(k[b].o) \cap Written(k[c].o) # {} => k[b].raced
  /\ \A c \in Busy(k) : \A n \in Written(k[c].o) : a[n] = None

Waits(k, c) == c \in Busy(k) /\ k[c].pc = "sent"
QueueOK(q, r, k) ==
  /\ IsSeq(q)
  /\ \A i \in 1 .. Len(q) : Waits(k, q[i].by) /\ WriteFits(q[i].write, k[q[i].by])
  /\ \A i, j \in 1 .. Len(q) : q[i].by = q[j].by => i = j
  /\ r # None => Waits(k, r.by) /\ \A i \in 1 .. Len(q) : q[i].by # r.by

\* What call x of caller c is expected to leave of n is there, or on its way.
ToSend(x, n) == x.o.op = "mergeNode" /\ n = x.o.node /\ x.next \in {"walk", "drop"}
Landed(d, q, c, x, n) ==
  \/ Leaves(d, n, x.expect[n])
  \/ \E i \in 1 .. Len(q) : q[i].by = c /\ IsNodeWrite(q[i].write, n)
  \/ ToSend(x, n)
AllLanded(d, q, k) ==
  \A c \in Busy(k) : ~k[c].raced => \A n \in Written(k[c].o) : Landed(d, q, c, k[c], n)

AckedHold(d, a) ==
  /\ a = [n \in NodeIds |-> a[n]]
  /\ \A n \in NodeIds : a[n] # None => n \in FirstNodes /\ Leaves(d, n, a[n])

EditInv ==
  /\ StoreTyped(db) /\ MadeTyped(made)
  /\ TableOK(call, acked)
  /\ QueueOK(queue, running, call)
  /\ AllLanded(db, queue, call)
  /\ AckedHold(db, acked)

----------------------------------------------------------------------------
(* The calls and their records.                                            *)

\* A call of each operation that writes node records has the fields that the
\* operation reads (mcp-server.ts handleEditTool).
LEMMA CallShape ==
  ASSUME NEW o \in Calls
  PROVE  /\ Written(o) \subseteq FirstNodes
         /\ o.op \in Setters \cup {"deleteNode", "splitNode"} => o.node \in FirstNodes /\ Written(o) = {o.node}
         /\ o.op = "mergeNode" => o.node \in FirstNodes /\ o.target \in FirstNodes /\ Written(o) = {o.node, o.target}
         /\ o.op \in {"setContent", "setRichText", "createNode"} => o.text \in Texts
         /\ o.op \in (Setters \ {"setContent"}) \cup {"createNode"} => o.mark \in Marks
         /\ o.op = "splitNode" => o.at \in {0, 1}
         /\ o.op \in {"createNode", "setEdge"} => Written(o) = {}
         /\ o.op \in Setters \cup {"deleteNode", "splitNode", "mergeNode", "createNode", "setEdge"}
  BY EdgesAssumption DEF Calls, Written, Nodes, Setters

\* What a setter hands to the queue is a node record (edit-ops.ts, the setters).
LEMMA SetterTyped ==
  ASSUME NEW o \in Calls, o.op \in Setters, NEW r \in Node
  PROVE  SetterRecord(o, r) \in Node
<1>1. o.op \in {"setContent", "setRichText"} => o.text \in Seq(Symbols)
  BY CallShape, NodesAssumption
<1>2. o.op # "setContent" => o.mark \in Fields
  BY CallShape DEF Fields
<1> QED BY <1>1, <1>2 DEF SetterRecord, Setters, Node

\* The two halves of a text (edit-ops.ts splitNode, the slices).
LEMMA HalvesTyped ==
  ASSUME NEW S, NEW t \in Seq(S), NEW at \in Nat
  PROVE  /\ at <= Len(t) => Before(t, at) \in Seq(S)
         /\ After(t, at) \in Seq(S)
<1>1. Len(t) \in Nat /\ \A i \in 1 .. Len(t) : t[i] \in S
  OBVIOUS
<1>2. at <= Len(t) => Before(t, at) \in Seq(S)
  BY <1>1, SubSeqProperties DEF Before
<1>3. After(t, at) \in Seq(S)
  BY <1>1, SubSeqProperties DEF After
<1> QED BY <1>2, <1>3

\* The record of one node as a record of what an operation leaves.
LEMMA LeftRecord ==
  ASSUME NEW d, NEW n
  PROVE  /\ \A v \in Node : d.nodes[n] = v => Leaves(d, n, {v})
         /\ d.nodes[n] = None => Leaves(d, n, {})
  BY NodesAssumption DEF Leaves

----------------------------------------------------------------------------
(* A write that runs.                                                      *)

\* The store after a write that runs, or that throws.
After1(d, w) == IF Throws(d, w) THEN d ELSE Apply(d, w)
\* A write of call x changes no record that calls name but those x writes, and
\* leaves these as x is expected to.
Effect(d, d2, w, x) ==
  \A n \in FirstNodes :
    /\ d2.nodes[n] = d.nodes[n] \/ (n \in Written(x.o) /\ Leaves(d2, n, x.expect[n]))
    /\ IsNodeWrite(w, n) => Leaves(d2, n, x.expect[n])

\* (rag-store.ts putNodeSync, removeNodeSync, putEdgeSync, removeEdgeSync)
LEMMA WriteHasEffect ==
  ASSUME NEW d, StoreTyped(d), NEW w, NEW x, WriteFits(w, x)
  PROVE  StoreTyped(After1(d, w)) /\ Effect(d, After1(d, w), w, x)
<1>0. {"nodes", "edges"} \subseteq DOMAIN d /\ d.nodes \in [NodeIds -> Node \cup {None}] /\ FirstNodes \subseteq NodeIds
  BY IdsAssumption DEF StoreTyped
<1>1. CASE w.op \in {"putEdge", "removeEdge"}
  <2>1. After1(d, w).nodes = d.nodes /\ {"nodes", "edges"} \subseteq DOMAIN After1(d, w)
    BY <1>0, <1>1 DEF After1, Apply
  <2> QED BY <2>1, <1>0, <1>1 DEF StoreTyped, Effect, IsNodeWrite
<1>2. CASE w.op = "putNode"
  <2>1. After1(d, w) = [d EXCEPT !.nodes[w.id] = w.node]
    BY <1>2 DEF After1, Throws, Apply
  <2>2. After1(d, w).nodes = [d.nodes EXCEPT ![w.id] = w.node] /\ {"nodes", "edges"} \subseteq DOMAIN After1(d, w)
    BY <2>1, <1>0
  <2>3. w.node \in Node /\ (w.id \notin FirstNodes \/ (w.id \in Written(x.o) /\ x.expect[w.id] = {w.node}))
    BY <1>2 DEF WriteFits
  <2>4. StoreTyped(After1(d, w))
    BY <2>2, <2>3, <1>0 DEF StoreTyped
  <2>5. ASSUME NEW n \in FirstNodes PROVE
          /\ After1(d, w).nodes[n] = d.nodes[n] \/ (n \in Written(x.o) /\ Leaves(After1(d, w), n, x.expect[n]))
          /\ IsNodeWrite(w, n) => Leaves(After1(d, w), n, x.expect[n])
    <3>1. CASE n # w.id
      BY <3>1, <2>2, <1>0 DEF IsNodeWrite
    <3>2. CASE n = w.id
      <4>1. After1(d, w).nodes[n] = w.node
        BY <3>2, <2>2, <1>0
      <4> QED BY <4>1, <3>2, <2>3, LeftRecord
    <3> QED BY <3>1, <3>2
  <2> QED BY <2>4, <2>5 DEF Effect
<1>3. CASE w.op = "removeNode"
  <2>1. After1(d, w) = Apply(d, w)
    BY <1>3 DEF After1, Throws
  <2>2. After1(d, w).nodes = [d.nodes EXCEPT ![w.id] = None] /\ {"nodes", "edges"} \subseteq DOMAIN After1(d, w)
    BY <2>1, <1>0, <1>3 DEF Apply
  <2>3. w.id \in Written(x.o) /\ x.expect[w.id] = {}
    BY <1>3 DEF WriteFits
  <2>4. StoreTyped(After1(d, w))
    BY <2>2, <1>0 DEF StoreTyped
  <2>5. ASSUME NEW n \in FirstNodes PROVE
          /\ After1(d, w).nodes[n] = d.nodes[n] \/ (n \in Written(x.o) /\ Leaves(After1(d, w), n, x.expect[n]))
          /\ IsNodeWrite(w, n) => Leaves(After1(d, w), n, x.expect[n])
    <3>1. CASE n # w.id
      BY <3>1, <2>2, <1>0 DEF IsNodeWrite
    <3>2. CASE n = w.id
      <4>1. After1(d, w).nodes[n] = None
        BY <3>2, <2>2, <1>0
      <4> QED BY <4>1, <3>2, <2>3, LeftRecord
    <3> QED BY <3>1, <3>2
  <2> QED BY <2>4, <2>5 DEF Effect
<1> QED BY <1>1, <1>2, <1>3 DEF WriteFits

\* A write disturbs nothing that is acknowledged: its caller begins with no
\* acknowledged record among those it writes.
LEMMA AckedSurvive ==
  ASSUME NEW d, NEW d2, NEW w, NEW k, NEW a, NEW c \in Busy(k),
         TableOK(k, a), AckedHold(d, a), Effect(d, d2, w, k[c])
  PROVE  AckedHold(d2, a)
<1>1. ASSUME NEW n \in NodeIds, a[n] # None PROVE n \in FirstNodes /\ Leaves(d2, n, a[n])
  <2>1. n \in FirstNodes /\ Leaves(d, n, a[n])
    BY <1>1 DEF AckedHold
  <2>2. n \notin Written(k[c].o)
    BY <1>1 DEF TableOK
  <2>3. d2.nodes[n] = d.nodes[n]
    BY <2>1, <2>2 DEF Effect
  <2> QED BY <2>1, <2>3 DEF Leaves
<1> QED BY <1>1 DEF AckedHold

\* What has landed of a call that nobody races survives a write of any caller,
\* and a write of its own on a node lands there.
LEMMA LandedSurvives ==
  ASSUME NEW d, NEW d2, NEW w, NEW k, NEW a, NEW c \in Busy(k), NEW b \in Busy(k), ~k[b].raced,
         NEW n \in Written(k[b].o), TableOK(k, a), Effect(d, d2, w, k[c])
  PROVE  /\ Leaves(d, n, k[b].expect[n]) => Leaves(d2, n, k[b].expect[n])
         /\ b = c /\ IsNodeWrite(w, n) => Leaves(d2, n, k[b].expect[n])
<1>1. n \in FirstNodes
  BY CallShape DEF TableOK, CallTyped
<1>2. b # c => n \notin Written(k[c].o)
  BY DEF TableOK
<1>3. d2.nodes[n] = d.nodes[n] \/ (b = c /\ Leaves(d2, n, k[b].expect[n]))
  BY <1>1, <1>2 DEF Effect
<1>4. b = c /\ IsNodeWrite(w, n) => Leaves(d2, n, k[b].expect[n])
  BY <1>1 DEF Effect
<1> QED BY <1>3, <1>4 DEF Leaves

----------------------------------------------------------------------------
(* Handing a write to the queue.                                           *)

\* The state in which caller c, whose call waits for no write, has a write w to
\* hand over: it is the invariant's, but for what w itself will leave.
Sending(d, q, r, k, a, c, w) ==
  /\ StoreTyped(d) /\ TableOK(k, a) /\ QueueOK(q, r, k) /\ AckedHold(d, a)
  /\ c \in Busy(k) /\ WriteFits(w, k[c])
  /\ \A i \in 1 .. Len(q) : q[i].by # c
  /\ r # None => r.by # c
  /\ \A b \in Busy(k) : ~k[b].raced => \A n \in Written(k[b].o) :
        Landed(d, q, b, k[b], n) \/ (b = c /\ IsNodeWrite(w, n))

\* Only the pc of c changed in the table, and what the invariant does not read.
Moved(k, k2, c, p) ==
  /\ IsTable(k2) /\ \A b \in Callers \ {c} : k2[b] = k[b]
  /\ CallFields \subseteq DOMAIN k2[c] /\ k2[c].pc = p
  /\ k2[c].o = k[c].o /\ k2[c].expect = k[c].expect /\ k2[c].raced = k[c].raced
  /\ k2[c].next = k[c].next /\ k2[c].read = k[c].read

LEMMA PcMoves ==
  ASSUME NEW k, IsTable(k), NEW c \in Callers, CallFields \subseteq DOMAIN k[c], NEW p, NEW ok
  PROVE  /\ Moved(k, [k EXCEPT ![c].pc = p], c, p)
         /\ Moved(k, [k EXCEPT ![c].pc = p, ![c].ok = ok], c, p)
  BY DEF IsTable, Moved, CallFields

LEMMA TableMoves ==
  ASSUME NEW k, NEW a, TableOK(k, a), NEW c \in Busy(k), NEW k2, NEW p \in {"sent", "answered"}, Moved(k, k2, c, p)
  PROVE  TableOK(k2, a) /\ Busy(k2) = Busy(k)
<1>1. CallTyped(k[c])
  BY DEF TableOK
<1>2. CallTyped(k2[c])
  BY <1>1 DEF Moved, CallTyped
<1>3. Busy(k2) = Busy(k)
  BY <1>1 DEF Moved, Busy, CallTyped
<1>4. \A b \in Busy(k2) : CallTyped(k2[b])
  BY <1>2, <1>3 DEF Moved, TableOK, Busy
<1>5. \A b \in Busy(k2) : k2[b].o = k[b].o /\ k2[b].raced = k[b].raced
  BY <1>3 DEF Moved, Busy
<1> QED BY <1>3, <1>4, <1>5 DEF TableOK, Moved

\* The write runs at once, behind one whose promise settles (inQueue).
LEMMA SendAtOnce ==
  ASSUME NEW d, NEW q, NEW r, NEW k, NEW a, NEW c, NEW w, Sending(d, q, r, k, a, c, w),
         NEW ok, NEW k2, k2 = [k EXCEPT ![c].pc = "answered", ![c].ok = ok]
  PROVE  /\ StoreTyped(After1(d, w)) /\ TableOK(k2, a) /\ QueueOK(q, r, k2)
         /\ AllLanded(After1(d, w), q, k2) /\ AckedHold(After1(d, w), a)
<1> DEFINE d2 == After1(d, w)
<1>1. Moved(k, k2, c, "answered") /\ TableOK(k2, a) /\ Busy(k2) = Busy(k)
  <2>1. TableOK(k, a) /\ c \in Busy(k) /\ IsTable(k) /\ c \in Callers /\ CallFields \subseteq DOMAIN k[c]
    BY DEF Sending, TableOK, Busy, CallTyped
  <2>2. Moved(k, k2, c, "answered")
    BY <2>1, PcMoves
  <2> QED BY <2>1, <2>2, TableMoves
<1>2. StoreTyped(d2) /\ Effect(d, d2, w, k[c])
  BY WriteHasEffect DEF Sending
<1>3. AckedHold(d2, a)
  BY <1>2, AckedSurvive DEF Sending
<1>4. QueueOK(q, r, k2)
  BY <1>1 DEF Sending, QueueOK, Moved, Waits, Busy
<1>5. ASSUME NEW b \in Busy(k2), ~k2[b].raced, NEW n \in Written(k2[b].o) PROVE Landed(d2, q, b, k2[b], n)
  <2>1. /\ b \in Busy(k) /\ k2[b].raced = k[b].raced /\ k2[b].o = k[b].o
        /\ k2[b].expect = k[b].expect /\ k2[b].next = k[b].next
    BY <1>1 DEF Moved, Busy
  <2>2. Landed(d, q, b, k[b], n) \/ (b = c /\ IsNodeWrite(w, n))
    BY <2>1, <1>5 DEF Sending
  <2>3. /\ Leaves(d, n, k[b].expect[n]) => Leaves(d2, n, k[b].expect[n])
        /\ b = c /\ IsNodeWrite(w, n) => Leaves(d2, n, k[b].expect[n])
    <3> HIDE DEF d2
    <3> QED BY <2>1, <1>2, <1>5, LandedSurvives DEF Sending
  <2> HIDE DEF d2
  <2> QED BY <2>1, <2>2, <2>3 DEF Landed, ToSend
<1> QED BY <1>1, <1>2, <1>3, <1>4, <1>5 DEF AllLanded

\* The write waits behind those accepted before it.
LEMMA SendQueued ==
  ASSUME NEW d, NEW q, NEW k, NEW a, NEW c, NEW w, Sending(d, q, None, k, a, c, w),
         NEW k2, k2 = [k EXCEPT ![c].pc = "sent"],
         NEW q2, q2 = Append(q, [by |-> c, write |-> w])
  PROVE  /\ StoreTyped(d) /\ TableOK(k2, a) /\ QueueOK(q2, None, k2)
         /\ AllLanded(d, q2, k2) /\ AckedHold(d, a)
<1>1. Moved(k, k2, c, "sent") /\ TableOK(k2, a) /\ Busy(k2) = Busy(k)
  <2>1. TableOK(k, a) /\ c \in Busy(k) /\ IsTable(k) /\ c \in Callers /\ CallFields \subseteq DOMAIN k[c]
    BY DEF Sending, TableOK, Busy, CallTyped
  <2>2. Moved(k, k2, c, "sent")
    BY <2>1, PcMoves
  <2> QED BY <2>1, <2>2, TableMoves
<1>2. PICK S : q \in Seq(S)
  BY DEF Sending, QueueOK, IsSeq
<1>3. /\ q2 \in Seq(S \cup {[by |-> c, write |-> w]}) /\ Len(q2) = Len(q) + 1 /\ Len(q) \in Nat
      /\ q2[Len(q) + 1] = [by |-> c, write |-> w]
      /\ \A i \in 1 .. Len(q) : q2[i] = q[i]
  <2>1. q \in Seq(S \cup {[by |-> c, write |-> w]})
    BY <1>2
  <2> QED BY <2>1
<1>4. QueueOK(q2, None, k2)
  <2>1. IsSeq(q2)
    BY <1>3 DEF IsSeq
  <2>2. ASSUME NEW i \in 1 .. Len(q2) PROVE Waits(k2, q2[i].by) /\ WriteFits(q2[i].write, k2[q2[i].by])
    <3>1. CASE i \in 1 .. Len(q)
      <4>1. Waits(k, q[i].by) /\ WriteFits(q[i].write, k[q[i].by]) /\ q[i].by # c
        BY <3>1 DEF Sending, QueueOK
      <4>2. k2[q[i].by] = k[q[i].by]
        BY <4>1, <1>1 DEF Waits, Busy, Moved
      <4> QED BY <4>1, <4>2, <1>1, <1>3, <3>1 DEF Waits
    <3>2. CASE i = Len(q) + 1
      <4>1. q2[i].by = c /\ q2[i].write = w
        BY <3>2, <1>3
      <4>2. WriteFits(w, k2[c]) /\ Waits(k2, c)
        BY <1>1 DEF Sending, WriteFits, Moved, Waits
      <4> QED BY <4>1, <4>2
    <3> QED BY <3>1, <3>2, <1>3
  <2>3. ASSUME NEW i \in 1 .. Len(q2), NEW j \in 1 .. Len(q2), q2[i].by = q2[j].by PROVE i = j
    BY <2>3, <1>3 DEF Sending, QueueOK
  <2> QED BY <2>1, <2>2, <2>3 DEF QueueOK
<1>5. ASSUME NEW b \in Busy(k2), ~k2[b].raced, NEW n \in Written(k2[b].o) PROVE Landed(d, q2, b, k2[b], n)
  <2>1. /\ b \in Busy(k) /\ k2[b].raced = k[b].raced /\ k2[b].o = k[b].o
        /\ k2[b].expect = k[b].expect /\ k2[b].next = k[b].next
    BY <1>1 DEF Moved, Busy
  <2>2. Landed(d, q, b, k[b], n) \/ (b = c /\ IsNodeWrite(w, n))
    BY <2>1, <1>5 DEF Sending
  <2>3. ASSUME NEW i \in 1 .. Len(q), q[i].by = b /\ IsNodeWrite(q[i].write, n) PROVE Landed(d, q2, b, k2[b], n)
    BY <2>3, <1>3 DEF Landed
  <2>4. b = c /\ IsNodeWrite(w, n) => Landed(d, q2, b, k2[b], n)
    BY <1>3 DEF Landed
  <2> QED BY <2>1, <2>2, <2>3, <2>4 DEF Landed, ToSend
<1> QED BY <1>1, <1>4, <1>5 DEF AllLanded, Sending

\* enqueue (rag-store.ts): whatever the write, the invariant holds after it.
LEMMA SendKeeps ==
  ASSUME NEW k, NEW a, NEW c, NEW w, Sending(db, queue, running, k, a, c, w), Send(c, k, w), running' = running
  PROVE  /\ StoreTyped(db') /\ TableOK(call', a) /\ QueueOK(queue', running', call')
         /\ AllLanded(db', queue', call') /\ AckedHold(db', a)
<1>1. CASE running # None
  <2>1. /\ db' = After1(db, w) /\ queue' = queue
        /\ call' = [k EXCEPT ![c].pc = "answered", ![c].ok = ~Throws(db, w)]
    BY <1>1 DEF Send, After1
  <2> QED BY <2>1, SendAtOnce
<1>2. CASE running = None
  <2>1. /\ db' = db /\ queue' = Append(queue, [by |-> c, write |-> w])
        /\ call' = [k EXCEPT ![c].pc = "sent"]
    BY <1>2 DEF Send
  <2> QED BY <2>1, <1>2, SendQueued
<1> QED BY <1>1, <1>2

----------------------------------------------------------------------------
(* The steps of an operation that goes on.                                 *)

\* The table k in which call c, whose promise has settled, stands at its next
\* stage, and the write w it hands over there.
Staged(k, c, w) ==
  /\ IsTable(k) /\ \A b \in Callers \ {c} : k[b] = call[b]
  /\ CallTyped(k[c]) /\ k[c].pc = "answered"
  /\ k[c].o = call[c].o /\ k[c].expect = call[c].expect /\ k[c].raced = call[c].raced
  /\ WriteFits(w, k[c])
  /\ \A n \in Written(call[c].o) : ToSend(call[c], n) => ToSend(k[c], n) \/ IsNodeWrite(w, n)

LEMMA StagedIsSending ==
  ASSUME EditInv, NEW c \in Callers, call[c].pc = "answered", NEW k, NEW w, Staged(k, c, w)
  PROVE  Sending(db, queue, running, k, acked, c, w)
<1>1. c \in Busy(call) /\ Busy(k) = Busy(call)
  BY DEF Busy, Staged
<1>2. TableOK(k, acked)
  <2>1. \A b \in Busy(k) : CallTyped(k[b]) /\ k[b].o = call[b].o /\ k[b].raced = call[b].raced
    BY <1>1 DEF Staged, EditInv, TableOK, Busy
  <2> QED BY <2>1, <1>1 DEF EditInv, TableOK, Staged
<1>3. \A b \in Callers : Waits(call, b) => b # c
  BY DEF Waits
<1>4. /\ \A i \in 1 .. Len(queue) : queue[i].by # c
      /\ running # None => running.by # c
  BY <1>3 DEF EditInv, QueueOK, Waits
<1>5. QueueOK(queue, running, k)
  <2>1. \A b \in Callers \ {c} : Waits(call, b) => Waits(k, b) /\ k[b] = call[b]
    BY <1>1 DEF Waits, Staged
  <2>2. \A b : Waits(call, b) => b \in Callers \ {c}
    BY <1>3 DEF Waits, Busy
  <2> QED BY <2>1, <2>2 DEF EditInv, QueueOK
<1>6. ASSUME NEW b \in Busy(k), ~k[b].raced, NEW n \in Written(k[b].o)
      PROVE  Landed(db, queue, b, k[b], n) \/ (b = c /\ IsNodeWrite(w, n))
  <2>1. /\ b \in Busy(call) /\ ~call[b].raced /\ n \in Written(call[b].o)
        /\ k[b].expect = call[b].expect
    BY <1>1, <1>6 DEF Staged, Busy
  <2>2. Landed(db, queue, b, call[b], n)
    BY <2>1 DEF EditInv, AllLanded
  <2>3. CASE b # c
    BY <2>2, <2>3, <1>6 DEF Staged, Busy
  <2>4. CASE b = c
    BY <2>1, <2>2, <2>4 DEF Staged, Landed
  <2> QED BY <2>3, <2>4
<1> QED BY <1>1, <1>2, <1>4, <1>5, <1>6 DEF Sending, EditInv, Staged

\* A stage of an operation keeps the invariant.
LEMMA StageKeeps ==
  ASSUME EditInv, NEW c \in Callers, call[c].pc = "answered", NEW k, NEW w, Staged(k, c, w),
         Send(c, k, w), running' = running, acked' = acked, MadeTyped(made')
  PROVE  EditInv'
<1>1. Sending(db, queue, running, k, acked, c, w)
  BY StagedIsSending
<1>2. /\ StoreTyped(db') /\ TableOK(call', acked) /\ QueueOK(queue', running', call')
      /\ AllLanded(db', queue', call') /\ AckedHold(db', acked)
  BY <1>1, SendKeeps
<1> QED BY <1>2 DEF EditInv

\* A call of the table in progress has the fields the invariant types.
LEMMA GoingOn ==
  ASSUME EditInv, NEW c \in Callers, NEW label, GoesOn(c, label)
  PROVE  /\ CallTyped(call[c]) /\ call[c].pc = "answered" /\ call[c].next = label
         /\ IsTable(call) /\ call[c].o \in Calls /\ CallFields \subseteq DOMAIN call[c]
  BY DEF GoesOn, EditInv, TableOK, Busy, CallTyped

\* Going on to a next stage that the operation has.
LEMMA NextStage ==
  ASSUME EditInv, NEW c \in Callers, NEW label, GoesOn(c, label), NEW next, StageOf(call[c].o, next), NEW w,
         WriteFits(w, call[c]),
         \A n \in Written(call[c].o) : ToSend(call[c], n) => next \in {"walk", "drop"} \/ IsNodeWrite(w, n),
         NEW fresh
  PROVE  /\ Staged([call EXCEPT ![c].next = next], c, w)
         /\ Staged([call EXCEPT ![c].next = next, ![c].fresh = fresh], c, w)
<1>0. /\ CallTyped(call[c]) /\ call[c].pc = "answered" /\ IsTable(call) /\ CallFields \subseteq DOMAIN call[c]
  BY GoingOn
<1> DEFINE Has(k) == /\ IsTable(k) /\ \A b \in Callers \ {c} : k[b] = call[b]
                     /\ CallFields \subseteq DOMAIN k[c] /\ k[c].next = next /\ k[c].read = call[c].read
                     /\ k[c].pc = call[c].pc /\ k[c].o = call[c].o
                     /\ k[c].expect = call[c].expect /\ k[c].raced = call[c].raced
<1>1. Has([call EXCEPT ![c].next = next]) /\ Has([call EXCEPT ![c].next = next, ![c].fresh = fresh])
  BY <1>0 DEF IsTable, CallFields
<1>2. ASSUME NEW k, Has(k) PROVE Staged(k, c, w)
  <2>1. CallTyped(k[c])
    BY <1>0, <1>2 DEF CallTyped
  <2>2. WriteFits(w, k[c])
    BY <1>2 DEF WriteFits
  <2> QED BY <2>1, <2>2, <1>0, <1>2 DEF Staged, ToSend
<1> HIDE DEF Has
<1> QED BY <1>1, <1>2

LEMMA LinkKeeps == ASSUME EditInv, NEW c \in Callers, Link(c) PROVE EditInv'
<1> DEFINE w == PutEdge(FreshEdgeId, Edge("parent-child", call[c].o.node, call[c].fresh, 0, None))
           k == [call EXCEPT ![c].next = "end"]
<1>1. Send(c, k, w) /\ running' = running /\ acked' = acked /\ made' = [made EXCEPT !.edges = @ + 1]
  BY DEF Link, SendNewEdge
<1>2. GoesOn(c, "link") /\ call[c].pc = "answered"
  BY DEF Link, GoesOn
<1>3. Staged(k, c, w)
  BY <1>2, GoingOn, NextStage DEF PutEdge, WriteFits, StageOf, ToSend
<1>4. MadeTyped(made')
  BY <1>1 DEF EditInv, MadeTyped
<1> HIDE DEF k, w
<1> QED BY <1>1, <1>2, <1>3, <1>4, StageKeeps

LEMMA SplitTailKeeps == ASSUME EditInv, NEW c \in Callers, SplitTail(c) PROVE EditInv'
<1> DEFINE v == FreshNode(After(call[c].read.text, call[c].o.at), call[c].read.type, call[c].read.prop)
           w == PutNode(FreshNodeId, v)
           k == [call EXCEPT ![c].next = "join", ![c].fresh = FreshNodeId]
<1>1. Send(c, k, w) /\ running' = running /\ acked' = acked /\ made' = [made EXCEPT !.nodes = @ + 1]
  BY DEF SplitTail
<1>2. GoesOn(c, "tail") /\ call[c].pc = "answered"
  BY DEF SplitTail, GoesOn
<1>3. CallTyped(call[c]) /\ call[c].next = "tail"
  BY <1>2, GoingOn
<1>4. call[c].o \in Calls /\ call[c].o.op = "splitNode" /\ call[c].read \in Node /\ call[c].o.at \in {0, 1}
  BY <1>3, CallShape DEF CallTyped, StageOf
<1>5. v \in Node
  <2>1. call[c].read.text \in Seq(Symbols) /\ call[c].read.type \in Fields /\ call[c].read.prop \in Fields
    BY <1>4 DEF Node
  <2>2. After(call[c].read.text, call[c].o.at) \in Seq(Symbols)
    BY <1>4, <2>1, HalvesTyped
  <2> QED BY <2>1, <2>2 DEF FreshNode, Node, Fields
<1>6. WriteFits(w, call[c])
  <2>1. FreshNodeId \notin FirstNodes
    BY IdsAssumption DEF EditInv, MadeTyped, FreshNodeId
  <2> HIDE DEF v
  <2> QED BY <2>1, <1>5 DEF WriteFits, PutNode
<1>7. Staged(k, c, w)
  <2>1. StageOf(call[c].o, "join") /\ \A n : ~ToSend(call[c], n)
    BY <1>4 DEF StageOf, ToSend
  <2> HIDE DEF w
  <2> QED BY <2>1, <1>2, <1>6, NextStage
<1>8. MadeTyped(made')
  BY <1>1, IdsAssumption DEF EditInv, MadeTyped
<1> HIDE DEF k, w
<1> QED BY <1>1, <1>2, <1>7, <1>8, StageKeeps

LEMMA SplitJoinKeeps == ASSUME EditInv, NEW c \in Callers, SplitJoin(c) PROVE EditInv'
<1> DEFINE w == PutEdge(FreshEdgeId, Edge("doc-child", call[c].o.node, call[c].fresh, NextOrder(db, call[c].o.node), None))
           k == [call EXCEPT ![c].next = "end"]
<1>1. Send(c, k, w) /\ running' = running /\ acked' = acked /\ made' = [made EXCEPT !.edges = @ + 1]
  BY DEF SplitJoin, SendNewEdge
<1>2. GoesOn(c, "join") /\ call[c].pc = "answered"
  BY DEF SplitJoin, GoesOn
<1>3. Staged(k, c, w)
  BY <1>2, GoingOn, NextStage DEF PutEdge, WriteFits, StageOf, ToSend
<1>4. MadeTyped(made')
  BY <1>1 DEF EditInv, MadeTyped
<1> HIDE DEF k, w
<1> QED BY <1>1, <1>2, <1>3, <1>4, StageKeeps

LEMMA DropOldKeeps == ASSUME EditInv, NEW c \in Callers, DropOld(c) PROVE EditInv'
<1> DEFINE w == RemoveEdge(call[c].cur)
           k == [call EXCEPT ![c].next = "walk"]
<1>1. Send(c, k, w) /\ running' = running /\ acked' = acked /\ made' = made
  BY DEF DropOld
<1>2. GoesOn(c, "drop") /\ call[c].pc = "answered"
  BY DEF DropOld, GoesOn
<1>3. StageOf(call[c].o, "walk") /\ WriteFits(w, call[c])
  BY <1>2, GoingOn DEF RemoveEdge, WriteFits, StageOf, CallTyped
<1>4. Staged(k, c, w)
  BY <1>2, <1>3, NextStage
<1>5. MadeTyped(made')
  BY <1>1 DEF EditInv
<1> HIDE DEF k, w
<1> QED BY <1>1, <1>2, <1>4, <1>5, StageKeeps

LEMMA RemoveSourceKeeps == ASSUME EditInv, NEW c \in Callers, RemoveSource(c) PROVE EditInv'
<1> DEFINE w == RemoveNode(call[c].o.node)
           k == [call EXCEPT ![c].next = "end"]
<1>1. Send(c, k, w) /\ running' = running /\ acked' = acked /\ made' = made
  BY DEF RemoveSource
<1>2. GoesOn(c, "walk") /\ call[c].pc = "answered"
  BY DEF RemoveSource, GoesOn
<1>3. CallTyped(call[c]) /\ call[c].o \in Calls /\ call[c].o.op = "mergeNode"
  BY <1>2, GoingOn DEF CallTyped, StageOf
<1>4. StageOf(call[c].o, "end") /\ WriteFits(w, call[c])
  BY <1>3, CallShape DEF RemoveNode, WriteFits, StageOf, CallTyped
<1>5. \A n : ToSend(call[c], n) => IsNodeWrite(w, n)
  BY DEF ToSend, IsNodeWrite, RemoveNode
<1>6. Staged(k, c, w)
  BY <1>2, <1>4, <1>5, NextStage
<1>7. MadeTyped(made')
  BY <1>1 DEF EditInv
<1> HIDE DEF k, w
<1> QED BY <1>1, <1>2, <1>6, <1>7, StageKeeps

\* merge_node: the next list of edges (edit-ops.ts mergeNode) is of no concern
\* to the records the operation writes.
LEMMA RestKeeps ==
  ASSUME NEW x, CallFields \subseteq DOMAIN x
  PROVE  /\ CallFields \subseteq DOMAIN Rest(x)
         /\ Rest(x).o = x.o /\ Rest(x).pc = x.pc /\ Rest(x).expect = x.expect
         /\ Rest(x).raced = x.raced /\ Rest(x).read = x.read /\ Rest(x).next = x.next
<1>1. \E p, l, n : Rest(x) = x \/ Rest(x) = [x EXCEPT !.phase = p, !.left = l, !.order = n]
  BY DEF Rest
<1>2. PICK p, l, n : Rest(x) = x \/ Rest(x) = [x EXCEPT !.phase = p, !.left = l, !.order = n]
  BY <1>1
<1> QED BY <1>2 DEF CallFields

LEMMA ReparentKeeps == ASSUME EditInv, NEW c \in Callers, Reparent(c) PROVE EditInv'
<1> DEFINE y == Rest(call[c])
<1>1. GoesOn(c, "walk") /\ call[c].pc = "answered"
  BY DEF Reparent, GoesOn
<1>2. /\ CallTyped(call[c]) /\ call[c].next = "walk" /\ IsTable(call) /\ CallFields \subseteq DOMAIN call[c]
      /\ call[c].o.op = "mergeNode"
  BY <1>1, GoingOn DEF CallTyped, StageOf
<1>3. /\ CallFields \subseteq DOMAIN y /\ y.o = call[c].o /\ y.pc = call[c].pc /\ y.expect = call[c].expect
      /\ y.raced = call[c].raced /\ y.read = call[c].read /\ y.next = call[c].next
  BY <1>2, RestKeeps
<1>4. ASSUME NEW z, NEW w, w.op \in {"putEdge", "removeEdge"},
             CallFields \subseteq DOMAIN z, z.o = y.o, z.pc = y.pc, z.expect = y.expect,
             z.raced = y.raced, z.read = y.read, z.next \in {"walk", "drop"}
      PROVE  Staged([call EXCEPT ![c] = z], c, w)
  <2> HIDE DEF y
  <2>1. CallTyped(z) /\ z.pc = "answered"
    BY <1>1, <1>2, <1>3, <1>4 DEF CallTyped, StageOf
  <2>2. WriteFits(w, z) /\ \A n : ToSend(call[c], n) => ToSend(z, n)
    BY <1>3, <1>4 DEF WriteFits, ToSend
  <2> QED BY <2>1, <2>2, <1>2, <1>3, <1>4 DEF Staged, IsTable
<1>5. PICK x \in y.left :
        LET rest == [y EXCEPT !.left = @ \ {x}]
        IN IF TargetHas(y, x)
           THEN /\ Send(c, [call EXCEPT ![c] = rest], RemoveEdge(x.id))
                /\ UNCHANGED <<running, made, acked>>
           ELSE SendNewEdge(c, [call EXCEPT ![c] = [rest EXCEPT !.next = "drop", !.cur = x.id,
                                                       !.order = IF y.phase = 2 THEN @ + 1 ELSE @]],
                            Edge(Phase[y.phase], y.o.target, x.target,
                                 IF y.phase = 2 THEN y.order ELSE 0, IF y.phase = 3 THEN x.doc ELSE None))
  BY DEF Reparent
<1> HIDE DEF y
<1> DEFINE rest == [y EXCEPT !.left = @ \ {x}]
<1>6. CASE TargetHas(y, x)
  <2>1. Send(c, [call EXCEPT ![c] = rest], RemoveEdge(x.id)) /\ UNCHANGED <<running, made, acked>>
    BY <1>5, <1>6
  <2>2. Staged([call EXCEPT ![c] = rest], c, RemoveEdge(x.id))
    <3>1. /\ CallFields \subseteq DOMAIN rest /\ rest.o = y.o /\ rest.pc = y.pc /\ rest.expect = y.expect
          /\ rest.raced = y.raced /\ rest.read = y.read /\ rest.next \in {"walk", "drop"}
      BY <1>2, <1>3 DEF CallFields
    <3>2. RemoveEdge(x.id).op \in {"putEdge", "removeEdge"}
      BY DEF RemoveEdge
    <3> HIDE DEF rest
    <3> QED BY <3>1, <3>2, <1>4
  <2>3. MadeTyped(made')
    BY <2>1 DEF EditInv
  <2> HIDE DEF rest
  <2> QED BY <2>1, <2>2, <2>3, <1>1, StageKeeps
<1>7. CASE ~TargetHas(y, x)
  <2> DEFINE z == [rest EXCEPT !.next = "drop", !.cur = x.id, !.order = IF y.phase = 2 THEN @ + 1 ELSE @]
             w == PutEdge(FreshEdgeId, Edge(Phase[y.phase], y.o.target, x.target,
                                 IF y.phase = 2 THEN y.order ELSE 0, IF y.phase = 3 THEN x.doc ELSE None))
  <2>1. Send(c, [call EXCEPT ![c] = z], w) /\ UNCHANGED <<running, acked>> /\ made' = [made EXCEPT !.edges = @ + 1]
    BY <1>5, <1>7 DEF SendNewEdge
  <2>2. Staged([call EXCEPT ![c] = z], c, w)
    <3>1. /\ CallFields \subseteq DOMAIN z /\ z.o = y.o /\ z.pc = y.pc /\ z.expect = y.expect
          /\ z.raced = y.raced /\ z.read = y.read /\ z.next \in {"walk", "drop"}
      BY <1>2, <1>3 DEF CallFields
    <3>2. w.op \in {"putEdge", "removeEdge"}
      BY DEF PutEdge
    <3> HIDE DEF z, w
    <3> QED BY <3>1, <3>2, <1>4
  <2>3. MadeTyped(made')
    BY <2>1 DEF EditInv, MadeTyped
  <2> HIDE DEF z, w
  <2> QED BY <2>1, <2>2, <2>3, <1>1, StageKeeps
<1> QED BY <1>6, <1>7

----------------------------------------------------------------------------
(* The steps of the queue and the return of an operation.                  *)

LEMMA RunWriteKeeps == ASSUME EditInv, RunWrite PROVE EditInv'
<1> DEFINE w == Head(queue).write
           c == Head(queue).by
<1>1. PICK S : queue \in Seq(S)
  BY DEF EditInv, QueueOK, IsSeq
<1>2. /\ Len(queue) \in Nat \ {0} /\ Head(queue) = queue[1]
      /\ queue' \in Seq(S) /\ Len(queue') = Len(queue) - 1
      /\ \A i \in 1 .. Len(queue') : queue'[i] = queue[i + 1]
  BY <1>1 DEF RunWrite
<1>3. /\ db' = After1(db, w) /\ running'.by = c
      /\ call' = call /\ acked' = acked /\ made' = made
  BY DEF RunWrite, After1
<1>4. Waits(call, c) /\ WriteFits(w, call[c]) /\ \A i \in 2 .. Len(queue) : queue[i].by # c
  BY <1>2 DEF EditInv, QueueOK
<1> HIDE DEF w, c
<1>5. c \in Busy(call) /\ TableOK(call, acked) /\ StoreTyped(db) /\ AckedHold(db, acked)
  BY <1>4 DEF Waits, EditInv
<1>6. StoreTyped(db') /\ Effect(db, db', w, call[c])
  BY <1>3, <1>4, <1>5, WriteHasEffect
<1>7. AckedHold(db', acked)
  BY <1>5, <1>6, AckedSurvive
<1>8. QueueOK(queue', running', call)
  <2>1. IsSeq(queue')
    BY <1>2 DEF IsSeq
  <2>2. \A i \in 1 .. Len(queue') : i + 1 \in 2 .. Len(queue)
    BY <1>2
  <2>3. \A i \in 1 .. Len(queue') : Waits(call, queue'[i].by) /\ WriteFits(queue'[i].write, call[queue'[i].by])
    BY <1>2, <2>2 DEF EditInv, QueueOK
  <2>4. ASSUME NEW i \in 1 .. Len(queue'), NEW j \in 1 .. Len(queue'), queue'[i].by = queue'[j].by PROVE i = j
    <3>1. queue[i + 1].by = queue[j + 1].by
      BY <1>2, <2>4
    <3>2. i + 1 \in 1 .. Len(queue) /\ j + 1 \in 1 .. Len(queue)
      BY <1>2, <2>2
    <3>3. i + 1 = j + 1
      BY <3>1, <3>2 DEF EditInv, QueueOK
    <3> QED BY <3>3
  <2>5. \A i \in 1 .. Len(queue') : queue'[i].by # running'.by
    BY <1>2, <1>3, <1>4, <2>2
  <2> QED BY <2>1, <2>3, <2>4, <2>5, <1>3, <1>4 DEF QueueOK
<1>9. ASSUME NEW b \in Busy(call), ~call[b].raced, NEW n \in Written(call[b].o)
      PROVE  Landed(db', queue', b, call[b], n)
  <2>1. /\ Leaves(db, n, call[b].expect[n]) => Leaves(db', n, call[b].expect[n])
        /\ b = c /\ IsNodeWrite(w, n) => Leaves(db', n, call[b].expect[n])
    BY <1>5, <1>6, <1>9, LandedSurvives
  <2>2. Landed(db, queue, b, call[b], n)
    BY <1>9 DEF EditInv, AllLanded
  <2>3. ASSUME NEW i \in 1 .. Len(queue), queue[i].by = b /\ IsNodeWrite(queue[i].write, n)
        PROVE  Landed(db', queue', b, call[b], n)
    <3>1. CASE i = 1
      BY <2>1, <2>3, <3>1, <1>2 DEF Landed, w, c
    <3>2. CASE i # 1
      <4>1. i - 1 \in 1 .. Len(queue') /\ queue'[i - 1] = queue[i]
        BY <3>2, <1>2
      <4> QED BY <4>1, <2>3 DEF Landed
    <3> QED BY <3>1, <3>2
  <2> QED BY <2>1, <2>2, <2>3 DEF Landed
<1> QED BY <1>3, <1>5, <1>6, <1>7, <1>8, <1>9 DEF EditInv, AllLanded

LEMMA SettleKeeps == ASSUME EditInv, Settle PROVE EditInv'
<1> DEFINE c == running.by
<1>1. /\ call' = [call EXCEPT ![c].pc = "answered", ![c].ok = running.ok]
      /\ running # None /\ running' = None
      /\ db' = db /\ queue' = queue /\ made' = made /\ acked' = acked
  BY DEF Settle
<1>2. c \in Busy(call) /\ c \in Callers /\ \A i \in 1 .. Len(queue) : queue[i].by # c
  BY <1>1 DEF EditInv, QueueOK, Waits, Busy
<1> HIDE DEF c
<1>3. TableOK(call, acked) /\ IsTable(call) /\ CallFields \subseteq DOMAIN call[c]
  BY <1>2 DEF EditInv, TableOK, CallTyped
<1>4. Moved(call, call', c, "answered")
  BY <1>1, <1>2, <1>3, PcMoves
<1>5. TableOK(call', acked) /\ Busy(call') = Busy(call)
  BY <1>2, <1>3, <1>4, TableMoves
<1>6. QueueOK(queue, None, call')
  BY <1>2, <1>4, <1>5 DEF EditInv, QueueOK, Moved, Waits, Busy
<1>7. AllLanded(db, queue, call')
  <2>1. \A b \in Busy(call') : /\ call'[b].raced = call[b].raced /\ call'[b].o = call[b].o
                               /\ call'[b].expect = call[b].expect /\ call'[b].next = call[b].next
    BY <1>4, <1>5 DEF Moved, Busy
  <2> QED BY <2>1, <1>5 DEF EditInv, AllLanded, Landed, ToSend
<1> QED BY <1>1, <1>5, <1>6, <1>7 DEF EditInv

LEMMA EndKeeps == ASSUME EditInv, NEW c \in Callers, End(c) PROVE EditInv'
<1>1. /\ call[c].pc = "answered" /\ (~call[c].ok \/ call[c].next = "end")
      /\ call' = [call EXCEPT ![c] = Idle]
      /\ acked' = IF call[c].ok /\ ~call[c].raced
                  THEN [n \in NodeIds |-> IF n \in Written(call[c].o) THEN call[c].expect[n] ELSE acked[n]] ELSE acked
      /\ db' = db /\ queue' = queue /\ running' = running /\ made' = made
  BY DEF End
<1>2. c \in Busy(call) /\ IsTable(call) /\ CallTyped(call[c])
  BY <1>1 DEF Busy, EditInv, TableOK
<1>3. /\ IsTable(call') /\ Busy(call') = Busy(call) \ {c} /\ \A b \in Busy(call') : call'[b] = call[b]
  BY <1>1, <1>2 DEF IsTable, Busy, Idle
<1>4. QueueOK(queue, running, call')
  <2>1. \A b : Waits(call, b) => Waits(call', b) /\ call'[b] = call[b]
    BY <1>1, <1>3 DEF Waits
  <2> QED BY <2>1 DEF EditInv, QueueOK
<1>5. AllLanded(db, queue, call')
  BY <1>3 DEF EditInv, AllLanded
<1>6. CASE ~(call[c].ok /\ ~call[c].raced)
  BY <1>1, <1>3, <1>4, <1>5, <1>6 DEF EditInv, TableOK
<1>7. CASE call[c].ok /\ ~call[c].raced
  <2>1. /\ call[c].expect = [n \in Written(call[c].o) |-> call[c].expect[n]] /\ acked = [n \in NodeIds |-> acked[n]]
        /\ Written(call[c].o) \subseteq FirstNodes /\ FirstNodes \subseteq NodeIds
    BY <1>2, CallShape, IdsAssumption DEF CallTyped, EditInv, AckedHold
  <2>2. acked' = [n \in NodeIds |-> IF n \in Written(call[c].o) THEN call[c].expect[n] ELSE acked[n]]
    BY <1>1, <1>7
  <2>3. ASSUME NEW n \in Written(call[c].o) PROVE Leaves(db, n, call[c].expect[n])
    <3>1. Landed(db, queue, c, call[c], n)
      BY <1>2, <1>7 DEF EditInv, AllLanded
    <3>2. \A i \in 1 .. Len(queue) : queue[i].by # c
      BY <1>1 DEF EditInv, QueueOK, Waits
    <3>3. call[c].next = "end"
      BY <1>1, <1>7
    <3> QED BY <3>1, <3>2, <3>3 DEF Landed, ToSend
  <2>4. AckedHold(db, acked')
    BY <2>1, <2>2, <2>3 DEF EditInv, AckedHold
  <2>5. TableOK(call', acked')
    <3>1. ASSUME NEW b \in Busy(call'), NEW n \in Written(call[b].o) PROVE acked'[n] = None
      <4>1. n \notin Written(call[c].o)
        BY <1>2, <1>3, <1>7, <3>1 DEF EditInv, TableOK
      <4>2. n \in NodeIds /\ acked[n] = None
        BY <1>3, <3>1, CallShape, IdsAssumption DEF EditInv, TableOK, CallTyped
      <4> QED BY <4>1, <4>2, <2>2
    <3>2. \A b \in Busy(call') : \A n \in Written(call'[b].o) : acked'[n] = None
      BY <3>1, <1>3
    <3> QED BY <3>2, <1>3 DEF EditInv, TableOK
  <2> QED BY <1>1, <1>4, <1>5, <2>4, <2>5 DEF EditInv
<1> QED BY <1>6, <1>7

----------------------------------------------------------------------------
(* Calling an operation.                                                   *)

\* What an operation that is not refused is expected to leave (edit-ops.ts, the
\* checks before the first write).
LEMMA ExpectedFits ==
  ASSUME NEW o \in Calls, StoreTyped(db), MadeTyped(made), ~Refused(o, db), NEW races
  PROVE  /\ CallTyped(NewCall(o, races)) /\ WriteFits(FirstWrite(o), NewCall(o, races))
         /\ \A n \in Written(o) : ToSend(NewCall(o, races), n) \/ IsNodeWrite(FirstWrite(o), n)
<1> DEFINE x == NewCall(o, races)
           w == FirstWrite(o)
<1>1. /\ CallFields \subseteq DOMAIN x /\ x.o = o /\ x.pc = "sent" /\ x.next = FirstStage(o)
      /\ x.read = Read(o) /\ x.expect = Expected(o, db)
  BY DEF NewCall, CallFields
<1>2. \A n \in FirstNodes : Present(db, n) => db.nodes[n] \in Node
  BY IdsAssumption DEF StoreTyped, Present
<1>3. StageOf(o, FirstStage(o)) /\ (o.op = "mergeNode" => FirstStage(o) = "walk")
  BY CallShape DEF StageOf, FirstStage
<1>4. o.op = "mergeNode" => o.node # o.target
  BY DEF Refused, Setters
<1> HIDE DEF x, w
<1>5. CallTyped(x)
  <2>1. o.op = "splitNode" => x.read \in Node
    <3>1. o.op = "splitNode" => o.node \in FirstNodes /\ Present(db, o.node)
      BY CallShape DEF Refused, Setters
    <3>2. o.op = "splitNode" => o.node # None
      BY <3>1, IdsAssumption, MarkAssumption
    <3> QED BY <1>1, <1>2, <3>1, <3>2 DEF Read
  <2>2. DOMAIN x.expect = Written(o) /\ x.expect = [n \in Written(o) |-> x.expect[n]]
    BY <1>1 DEF Expected
  <2>3. o.op = "mergeNode" => x.expect[o.node] = {}
    BY <1>1, <1>4, CallShape DEF Expected, Setters
  <2> QED BY <1>1, <1>3, <2>1, <2>2, <2>3 DEF CallTyped
<1>6. WriteFits(w, x) /\ \A n \in Written(o) : ToSend(x, n) \/ IsNodeWrite(w, n)
  <2>1. CASE o.op \in Setters
    <3>1. o.node \in FirstNodes /\ Written(o) = {o.node} /\ Present(db, o.node)
      BY <2>1, CallShape DEF Refused, Setters
    <3>2. w = PutNode(o.node, SetterRecord(o, db.nodes[o.node])) /\ x.expect[o.node] = {SetterRecord(o, db.nodes[o.node])}
      BY <1>1, <2>1, <3>1 DEF w, FirstWrite, Expected, Setters
    <3>3. SetterRecord(o, db.nodes[o.node]) \in Node
      BY <1>2, <2>1, <3>1, SetterTyped
    <3> QED BY <1>1, <3>1, <3>2, <3>3 DEF WriteFits, IsNodeWrite, PutNode
  <2>2. CASE o.op = "createNode"
    <3>1. w = PutNode(FreshNodeId, FreshNode(o.text, o.mark, None)) /\ Written(o) = {}
      BY <2>2, CallShape DEF w, FirstWrite, Setters
    <3>2. FreshNode(o.text, o.mark, None) \in Node
      BY <2>2, CallShape, NodesAssumption DEF FreshNode, Node, Fields
    <3>3. FreshNodeId \notin FirstNodes
      BY IdsAssumption DEF MadeTyped, FreshNodeId
    <3> QED BY <3>1, <3>2, <3>3 DEF WriteFits, PutNode
  <2>3. CASE o.op = "deleteNode"
    <3>1. Written(o) = {o.node}
      BY <2>3, CallShape
    <3>2. w = RemoveNode(o.node) /\ x.expect[o.node] = {}
      BY <1>1, <2>3, <3>1 DEF w, FirstWrite, Expected, Setters
    <3> QED BY <1>1, <3>1, <3>2 DEF WriteFits, IsNodeWrite, RemoveNode
  <2>4. CASE o.op = "splitNode"
    <3>1. /\ o.node \in FirstNodes /\ Written(o) = {o.node} /\ Present(db, o.node)
          /\ o.at \in 1 .. (Len(db.nodes[o.node].text) - 1)
      BY <2>4, CallShape DEF Refused, Setters
    <3> DEFINE v == [db.nodes[o.node] EXCEPT !.text = Before(@, o.at)]
    <3>2. w = PutNode(o.node, v) /\ x.expect[o.node] = {v}
      BY <1>1, <2>4, <3>1 DEF w, FirstWrite, Expected, Setters
    <3>3. v \in Node
      <4>1. db.nodes[o.node] \in Node /\ db.nodes[o.node].text \in Seq(Symbols)
        BY <1>2, <3>1 DEF Node
      <4>2. Before(db.nodes[o.node].text, o.at) \in Seq(Symbols)
        <5>1. o.at \in Nat /\ o.at <= Len(db.nodes[o.node].text)
          BY <3>1, <4>1
        <5> QED BY <4>1, <5>1, HalvesTyped
      <4> QED BY <4>1, <4>2 DEF Node
    <3> HIDE DEF v
    <3> QED BY <1>1, <3>1, <3>2, <3>3 DEF WriteFits, IsNodeWrite, PutNode
  <2>5. CASE o.op = "mergeNode"
    <3>1. /\ o.node \in FirstNodes /\ o.target \in FirstNodes /\ Written(o) = {o.node, o.target}
          /\ Present(db, o.node) /\ Present(db, o.target)
      BY <2>5, CallShape DEF Refused, Setters
    <3> DEFINE v == [db.nodes[o.target] EXCEPT !.text = @ \o db.nodes[o.node].text]
    <3>2. w = PutNode(o.target, v) /\ x.expect[o.target] = {v}
      BY <1>1, <2>5, <3>1 DEF w, FirstWrite, Expected, Setters
    <3>3. v \in Node
      <4>1. db.nodes[o.target] \in Node /\ db.nodes[o.node] \in Node
        BY <1>2, <3>1
      <4>2. db.nodes[o.target].text \o db.nodes[o.node].text \in Seq(Symbols)
        BY <4>1 DEF Node
      <4> QED BY <4>1, <4>2 DEF Node
    <3>4. ToSend(x, o.node)
      BY <1>1, <1>3, <2>5 DEF ToSend
    <3> HIDE DEF v
    <3> QED BY <1>1, <3>1, <3>2, <3>3, <3>4 DEF WriteFits, IsNodeWrite, PutNode
  <2>6. CASE o.op = "setEdge"
    <3>1. w.op = "putEdge" /\ Written(o) = {}
      BY <2>6, CallShape DEF w, FirstWrite, PutEdge, Setters
    <3> QED BY <3>1 DEF WriteFits
  <2> QED BY <2>1, <2>2, <2>3, <2>4, <2>5, <2>6, CallShape
<1> QED BY <1>5, <1>6 DEF x, w

LEMMA BeginKeeps == ASSUME EditInv, NEW c \in Callers, NEW o \in Calls, Begin(c, o) PROVE EditInv'
<1>1. c \notin Busy(call) /\ Active = Busy(call)
  BY DEF Begin, Active, Busy
<1>2. MadeTyped(made')
  <2>1. /\ {"calls", "nodes", "edges"} \subseteq DOMAIN made /\ made.nodes \in Nat
        /\ Cardinality(FirstNodes) <= made.nodes
    BY DEF EditInv, MadeTyped
  <2>2. PICK calls, nodes, edges :
          /\ made' = [made EXCEPT !.calls = calls, !.nodes = nodes, !.edges = edges]
          /\ nodes \in {made.nodes, made.nodes + 1}
    BY <2>1 DEF Begin
  <2> QED BY <2>1, <2>2, IdsAssumption DEF MadeTyped
<1>3. CASE Refused(o, db) \/ IsNoOp(o, Read(o))
  <2>1. UNCHANGED <<db, queue, running, call, acked>>
    BY <1>3 DEF Begin
  <2> QED BY <1>2, <2>1 DEF EditInv
<1>4. CASE ~(Refused(o, db) \/ IsNoOp(o, Read(o)))
  <2> DEFINE races == {b \in Active : Written(call[b].o) \cap Written(o) # {}}
             k == [b \in Callers |-> IF b = c THEN NewCall(o, races)
                                     ELSE IF b \in Active
                                     THEN [call[b] EXCEPT !.solo = None, !.raced = @ \/ b \in races]
                                     ELSE Idle]
             a == [n \in NodeIds |-> IF n \in Written(o) THEN None ELSE acked[n]]
             w == FirstWrite(o)
  <2>1. Send(c, k, w) /\ acked' = a /\ running' = running
    BY <1>4 DEF Begin
  <2>2. CallTyped(k[c]) /\ WriteFits(w, k[c]) /\ \A n \in Written(o) : ToSend(k[c], n) \/ IsNodeWrite(w, n)
    BY <1>4, ExpectedFits DEF EditInv
  <2>3. k[c].o = o /\ k[c].pc = "sent" /\ (k[c].raced <=> races # {})
    BY DEF NewCall
  <2>4. ASSUME NEW b \in Busy(call)
        PROVE  /\ CallTyped(k[b]) /\ k[b].pc = call[b].pc /\ k[b].o = call[b].o
               /\ k[b].expect = call[b].expect /\ k[b].next = call[b].next
               /\ k[b].raced <=> call[b].raced \/ b \in races
    <3>1. CallTyped(call[b])
      BY DEF EditInv, TableOK
    <3> DEFINE y == [call[b] EXCEPT !.solo = None, !.raced = @ \/ b \in races]
    <3>2. k[b] = y
      BY <1>1 DEF Busy
    <3> HIDE DEF races, k
    <3>3. /\ CallFields \subseteq DOMAIN y /\ y.pc = call[b].pc /\ y.o = call[b].o /\ y.read = call[b].read
          /\ y.expect = call[b].expect /\ y.next = call[b].next
          /\ y.raced <=> call[b].raced \/ b \in races
      BY <3>1 DEF CallTyped, CallFields
    <3> HIDE DEF y
    <3>4. CallTyped(y)
      BY <3>1, <3>3 DEF CallTyped
    <3> QED BY <3>2, <3>3, <3>4
  <2>5. IsTable(k) /\ Busy(k) = Busy(call) \cup {c}
    <3>1. \A b \in Callers \ (Busy(call) \cup {c}) : k[b].pc = "idle"
      BY <1>1 DEF Idle
    <3>2. \A b \in Busy(call) \cup {c} : k[b].pc # "idle"
      BY <2>3, <2>4 DEF Busy
    <3>3. IsTable(k)
      BY DEF IsTable
    <3> HIDE DEF k
    <3> QED BY <3>1, <3>2, <3>3 DEF Busy
  <2>6. races = {b \in Busy(call) : Written(call[b].o) \cap Written(o) # {}}
    BY <1>1
  <2> HIDE DEF races, k
  <2>7. TableOK(k, a)
    <3>1. \A b \in Busy(k) : CallTyped(k[b])
      BY <2>2, <2>4, <2>5
    <3>2. ASSUME NEW b \in Busy(k), NEW b2 \in Busy(k), b # b2, Written(k[b].o) \cap Written(k[b2].o) # {} PROVE k[b].raced
      <4>1. CASE b # c /\ b2 # c
        BY <4>1, <3>2, <2>4, <2>5 DEF EditInv, TableOK
      <4>2. CASE b = c
        <5>1. b2 \in races
          BY <4>2, <3>2, <2>3, <2>4, <2>5, <2>6
        <5> QED BY <5>1, <4>2, <2>3
      <4>3. CASE b2 = c
        <5>1. b \in races
          BY <4>3, <3>2, <2>3, <2>4, <2>5, <2>6
        <5> QED BY <5>1, <4>3, <3>2, <2>4, <2>5
      <4> QED BY <4>1, <4>2, <4>3
    <3>3. ASSUME NEW b \in Busy(k), NEW n \in Written(k[b].o) PROVE a[n] = None
      <4>1. n \in NodeIds
        BY <3>1, <3>3, CallShape, IdsAssumption DEF CallTyped
      <4>2. b # c => acked[n] = None
        BY <3>3, <2>4, <2>5 DEF EditInv, TableOK
      <4> QED BY <4>1, <4>2, <3>3, <2>3
    <3> HIDE DEF a
    <3> QED BY <3>1, <3>2, <3>3, <2>5 DEF TableOK
  <2>8. AckedHold(db, a)
    BY DEF EditInv, AckedHold
  <2>9. QueueOK(queue, running, k) /\ (\A i \in 1 .. Len(queue) : queue[i].by # c) /\ (running # None => running.by # c)
    <3>1. \A b : Waits(call, b) => b # c /\ Waits(k, b) /\ k[b].o = call[b].o /\ k[b].expect = call[b].expect
      BY <1>1, <2>4, <2>5 DEF Waits
    <3>2. ASSUME NEW i \in 1 .. Len(queue) PROVE Waits(k, queue[i].by) /\ WriteFits(queue[i].write, k[queue[i].by]) /\ queue[i].by # c
      <4>1. Waits(call, queue[i].by) /\ WriteFits(queue[i].write, call[queue[i].by])
        BY DEF EditInv, QueueOK
      <4> QED BY <3>1, <4>1 DEF WriteFits
    <3> QED BY <3>1, <3>2 DEF EditInv, QueueOK
  <2>10. ASSUME NEW b \in Busy(k), ~k[b].raced, NEW n \in Written(k[b].o)
         PROVE  Landed(db, queue, b, k[b], n) \/ (b = c /\ IsNodeWrite(w, n))
    <3>1. CASE b = c
      BY <3>1, <2>2, <2>3, <2>10 DEF Landed
    <3>2. CASE b # c
      <4>1. Landed(db, queue, b, call[b], n)
        BY <3>2, <2>4, <2>5, <2>10 DEF EditInv, AllLanded
      <4> QED BY <3>2, <4>1, <2>4, <2>5 DEF Landed, ToSend
    <3> QED BY <3>1, <3>2
  <2> HIDE DEF a, w
  <2>11. Sending(db, queue, running, k, a, c, w)
    BY <2>2, <2>5, <2>7, <2>8, <2>9, <2>10 DEF Sending, EditInv
  <2>12. /\ StoreTyped(db') /\ TableOK(call', a) /\ QueueOK(queue', running', call')
         /\ AllLanded(db', queue', call') /\ AckedHold(db', a)
    BY <2>1, <2>11, SendKeeps
  <2> QED BY <1>2, <2>1, <2>12 DEF EditInv
<1> QED BY <1>3, <1>4

----------------------------------------------------------------------------
(* The invariant is inductive.                                             *)

LEMMA EditInit == Init => EditInv
<1> SUFFICES ASSUME Init PROVE EditInv
  OBVIOUS
<1>1. Busy(call) = {} /\ IsTable(call)
  BY DEF Init, Busy, Idle, IsTable
<1>2. StoreTyped(db)
  <2>1. PICK t \in Texts, es \in FirstEdges :
          LET id == CHOOSE f \in [es -> 1 .. Cardinality(es)] : \A v, w \in es : v # w => f[v] # f[w]
          IN db = [nodes |-> [n \in NodeIds |-> IF n \in FirstNodes THEN FreshNode(t, None, None) ELSE None],
                   edges |-> [e \in EdgeIds |-> IF \E v \in es : id[v] = e
                                                THEN CHOOSE v \in es : id[v] = e ELSE None]]
    BY DEF Init
  <2>2. FreshNode(t, None, None) \in Node
    BY NodesAssumption DEF FreshNode, Node, Fields
  <2>3. db.nodes = [n \in NodeIds |-> IF n \in FirstNodes THEN FreshNode(t, None, None) ELSE None]
        /\ {"nodes", "edges"} \subseteq DOMAIN db
    BY <2>1
  <2> QED BY <2>2, <2>3 DEF StoreTyped
<1>3. MadeTyped(made)
  BY IdsAssumption DEF Init, MadeTyped
<1>4. QueueOK(queue, running, call)
  <2>1. queue = <<>> /\ running = None
    BY DEF Init
  <2>2. IsSeq(queue) /\ Len(queue) = 0
    <3>1. queue \in Seq({})
      BY <2>1
    <3> QED BY <2>1, <3>1 DEF IsSeq
  <2> QED BY <2>1, <2>2 DEF QueueOK
<1>5. AckedHold(db, acked)
  BY DEF Init, AckedHold
<1> QED BY <1>1, <1>2, <1>3, <1>4, <1>5 DEF EditInv, TableOK, AllLanded

LEMMA EditStep == EditInv /\ [Next]_vars => EditInv'
<1> SUFFICES ASSUME EditInv, [Next]_vars PROVE EditInv'
  OBVIOUS
<1>1. CASE UNCHANGED vars
  BY <1>1 DEF vars, EditInv
<1>2. ASSUME NEW c \in Callers, NEW o \in Calls, Begin(c, o) PROVE EditInv'
  BY <1>2, BeginKeeps
<1>3. CASE RunWrite
  BY <1>3, RunWriteKeeps
<1>4. CASE Settle
  BY <1>4, SettleKeeps
<1>5. ASSUME NEW c \in Callers, Continue(c) PROVE EditInv'
  BY <1>5, EndKeeps, LinkKeeps, SplitTailKeeps, SplitJoinKeeps, ReparentKeeps, DropOldKeeps, RemoveSourceKeeps
     DEF Continue
<1> QED BY <1>1, <1>2, <1>3, <1>4, <1>5 DEF Next

\* Whatever operations run beside one another, what an operation that none
\* raced on a node has written of the node stays until the next operation on
\* it is called (edit-ops.ts over the write queue of rag-store.ts).
THEOREM EditsStay == Spec => []UnracedWritesHold
<1>1. EditInv => UnracedWritesHold
  BY DEF EditInv, AckedHold, UnracedWritesHold, Leaves
<1> QED BY <1>1, EditInit, EditStep, PTL DEF Spec

----------------------------------------------------------------------------
(* The store an operation alone works on: what is in it is typed, and its  *)
(* ids are no later than those minted.                                     *)

MadeEdges(m) == MadeTyped(m) /\ m.edges \in Nat
StoreFits(d, m) ==
  /\ d \in [nodes : [NodeIds -> Node \cup {None}], edges : [EdgeIds -> EdgeRecord \cup {None}]]
  /\ \A n \in NodeIds : Present(d, n) => n <= m.nodes
  /\ \A e \in EdgesOf(d) : e <= m.edges /\ d.edges[e].source # d.edges[e].target
WriteTyped(w, m) ==
  /\ w.op \in {"putNode", "removeNode", "putEdge", "removeEdge"}
  /\ w.op = "putNode" => w.id \in NodeIds /\ w.id <= m.nodes /\ w.node \in Node
  /\ w.op = "putEdge" => w.id \in EdgeIds /\ w.id <= m.edges /\ w.edge \in EdgeRecord
\* What a call in progress holds for the edges it has still to write.
Lefts == [id : EdgeIds, target : NodeIds, doc : Docs \cup {None}]
CallFits(x) ==
  /\ x.next = "link" => x.o.op = "createNode" /\ x.o.node \in FirstNodes /\ x.fresh \in NodeIds
  /\ x.next = "join" => x.fresh \in NodeIds
  /\ x.next \in {"walk", "drop"} =>
       x.phase \in 0 .. 3 /\ x.order \in Int /\ x.left \subseteq Lefts /\ (x.phase = 0 => x.left = {})

Later(m, m2) == MadeEdges(m) /\ MadeEdges(m2) /\ m.nodes <= m2.nodes /\ m.edges <= m2.edges

LEMMA EdgeShape ==
  ASSUME NEW v \in EdgeRecord
  PROVE  /\ v # None /\ v.kind \in EdgeKinds /\ v.source \in NodeIds /\ v.target \in NodeIds
         /\ v.order \in Int /\ v.doc \in Docs \cup {None}
  BY EdgesAssumption DEF EdgeRecord

LEMMA EdgesTyped ==
  ASSUME NEW d, NEW m, StoreFits(d, m), NEW e \in EdgesOf(d)
  PROVE  e \in EdgeIds /\ d.edges[e] \in EdgeRecord
  BY DEF StoreFits, EdgesOf

\* Ids minted later leave what fits fitting.
LEMMA LaterFits ==
  ASSUME NEW m, NEW m2, Later(m, m2)
  PROVE  /\ \A d : StoreFits(d, m) => StoreFits(d, m2)
         /\ \A w : WriteTyped(w, m) => WriteTyped(w, m2)
<1>1. m.nodes \in Nat /\ m2.nodes \in Nat /\ m.edges \in Nat /\ m2.edges \in Nat /\ m.nodes <= m2.nodes /\ m.edges <= m2.edges
  BY DEF Later, MadeEdges, MadeTyped
<1>2. ASSUME NEW d, StoreFits(d, m) PROVE StoreFits(d, m2)
  <2>1. \A n \in NodeIds : n \in Nat
    BY IdsAssumption
  <2>2. \A e \in EdgesOf(d) : e \in Nat
    BY IdsAssumption DEF EdgesOf
  <2>3. \A n \in NodeIds : Present(d, n) => n <= m2.nodes
    BY <1>1, <1>2, <2>1 DEF StoreFits
  <2>4. \A e \in EdgesOf(d) : e <= m2.edges
    BY <1>1, <1>2, <2>2 DEF StoreFits
  <2> QED BY <1>2, <2>3, <2>4 DEF StoreFits
<1>3. ASSUME NEW w, WriteTyped(w, m) PROVE WriteTyped(w, m2)
  <2>1. w.op = "putNode" => w.id \in Nat
    BY <1>3, IdsAssumption DEF WriteTyped
  <2>2. w.op = "putEdge" => w.id \in Nat
    BY <1>3, IdsAssumption DEF WriteTyped
  <2>3. w.op = "putNode" => w.id <= m2.nodes
    BY <1>1, <1>3, <2>1 DEF WriteTyped
  <2>4. w.op = "putEdge" => w.id <= m2.edges
    BY <1>1, <1>3, <2>2 DEF WriteTyped
  <2> QED BY <1>3, <2>3, <2>4 DEF WriteTyped
<1> QED BY <1>2, <1>3

\* The store after each write (rag-store.ts putNodeSync, removeNodeSync,
\* putEdgeSync, removeEdgeSync).
LEMMA Writes ==
  ASSUME NEW d, NEW m, StoreFits(d, m)
  PROVE  /\ \A n, v : Apply(d, PutNode(n, v)) = [nodes |-> [d.nodes EXCEPT ![n] = v], edges |-> d.edges]
         /\ \A e, v : Apply(d, PutEdge(e, v)) = [nodes |-> d.nodes, edges |-> [d.edges EXCEPT ![e] = v]]
         /\ \A e : Apply(d, RemoveEdge(e)) = [nodes |-> d.nodes, edges |-> [d.edges EXCEPT ![e] = None]]
         /\ \A n : Present(d, n) =>
              Apply(d, RemoveNode(n)) = [nodes |-> [d.nodes EXCEPT ![n] = None],
                                        edges |-> [e \in EdgeIds |-> IF e \in Touching(d, n) THEN None ELSE d.edges[e]]]
<1>1. d = [nodes |-> d.nodes, edges |-> d.edges]
  BY DEF StoreFits
<1>2. ASSUME NEW n, NEW v PROVE Apply(d, PutNode(n, v)) = [nodes |-> [d.nodes EXCEPT ![n] = v], edges |-> d.edges]
  BY <1>1 DEF Apply, PutNode
<1>3. ASSUME NEW e, NEW v PROVE Apply(d, PutEdge(e, v)) = [nodes |-> d.nodes, edges |-> [d.edges EXCEPT ![e] = v]]
  BY <1>1 DEF Apply, PutEdge
<1>4. ASSUME NEW e PROVE Apply(d, RemoveEdge(e)) = [nodes |-> d.nodes, edges |-> [d.edges EXCEPT ![e] = None]]
  BY <1>1 DEF Apply, RemoveEdge
<1>5. ASSUME NEW n, Present(d, n)
      PROVE  Apply(d, RemoveNode(n)) = [nodes |-> [d.nodes EXCEPT ![n] = None],
                                       edges |-> [e \in EdgeIds |-> IF e \in Touching(d, n) THEN None ELSE d.edges[e]]]
  BY <1>1, <1>5 DEF Apply, RemoveNode
<1> QED BY <1>2, <1>3, <1>4, <1>5

\* A typed write that runs leaves the store fitting.
LEMMA WriteFitsStore ==
  ASSUME NEW d, NEW m, StoreFits(d, m), NEW w, WriteTyped(w, m)
  PROVE  StoreFits(After1(d, w), m)
<1>0. d = [nodes |-> d.nodes, edges |-> d.edges]
      /\ d.nodes \in [NodeIds -> Node \cup {None}] /\ d.edges \in [EdgeIds -> EdgeRecord \cup {None}]
  BY DEF StoreFits
<1>1. CASE Throws(d, w)
  BY <1>1 DEF After1
<1>2. CASE ~Throws(d, w)
  <2>0. After1(d, w) = Apply(d, w)
    BY <1>2 DEF After1
  <2>1. CASE w.op = "putNode"
    <3>1. Apply(d, w) = [nodes |-> [d.nodes EXCEPT ![w.id] = w.node], edges |-> d.edges]
      BY <1>0, <2>1 DEF Apply
    <3>2. w.id \in NodeIds /\ w.id <= m.nodes /\ w.node \in Node
      BY <2>1 DEF WriteTyped
    <3> DEFINE d2 == Apply(d, w)
    <3>3. d2.nodes = [d.nodes EXCEPT ![w.id] = w.node] /\ d2.edges = d.edges
      BY <3>1
    <3>4. d2 \in [nodes : [NodeIds -> Node \cup {None}], edges : [EdgeIds -> EdgeRecord \cup {None}]]
      <4>1. [d.nodes EXCEPT ![w.id] = w.node] \in [NodeIds -> Node \cup {None}]
        BY <3>2, <1>0
      <4> QED BY <3>1, <4>1, <1>0
    <3> HIDE DEF d2
    <3>5. \A n \in NodeIds : Present(d2, n) => n <= m.nodes
      BY <3>2, <3>3, <1>0 DEF Present, StoreFits
    <3>6. EdgesOf(d2) = EdgesOf(d)
      BY <3>3 DEF EdgesOf
    <3>7. StoreFits(d2, m)
      BY <3>3, <3>4, <3>5, <3>6 DEF StoreFits
    <3> QED BY <2>0, <3>7 DEF d2
  <2>2. CASE w.op = "removeNode"
    <3> DEFINE d2 == Apply(d, w)
               ee == [e \in EdgeIds |-> IF Present(d, w.id) /\ e \in Touching(d, w.id) THEN None ELSE d.edges[e]]
    <3>1. d2 = [nodes |-> [d.nodes EXCEPT ![w.id] = None], edges |-> ee]
      BY <1>0, <2>2 DEF Apply
    <3>2. ee \in [EdgeIds -> EdgeRecord \cup {None}]
      BY <1>0
    <3>3. \A e \in EdgeIds : ee[e] # None => ee[e] = d.edges[e]
      OBVIOUS
    <3> HIDE DEF ee
    <3>4. d2 \in [nodes : [NodeIds -> Node \cup {None}], edges : [EdgeIds -> EdgeRecord \cup {None}]]
      <4>1. [d.nodes EXCEPT ![w.id] = None] \in [NodeIds -> Node \cup {None}]
        BY <1>0
      <4> QED BY <3>1, <3>2, <4>1
    <3>5. d2.nodes = [d.nodes EXCEPT ![w.id] = None] /\ d2.edges = ee
      BY <3>1
    <3> HIDE DEF d2
    <3>6. \A n \in NodeIds : Present(d2, n) => n <= m.nodes
      BY <3>5, <1>0 DEF Present, StoreFits
    <3>7. \A e \in EdgesOf(d2) : e \in EdgesOf(d) /\ d2.edges[e] = d.edges[e]
      BY <3>3, <3>5 DEF EdgesOf
    <3>8. StoreFits(d2, m)
      BY <3>4, <3>6, <3>7 DEF StoreFits
    <3> QED BY <2>0, <3>8 DEF d2
  <2>3. CASE w.op = "putEdge"
    <3> DEFINE d2 == Apply(d, w)
    <3>1. d2 = [nodes |-> d.nodes, edges |-> [d.edges EXCEPT ![w.id] = w.edge]]
      BY <1>0, <2>3 DEF Apply
    <3>2. w.id \in EdgeIds /\ w.id <= m.edges /\ w.edge \in EdgeRecord
      BY <2>3 DEF WriteTyped
    <3>3. w.edge.source # w.edge.target
      BY <1>2, <2>3 DEF Throws, WellFormedEdge
    <3>4. d2 \in [nodes : [NodeIds -> Node \cup {None}], edges : [EdgeIds -> EdgeRecord \cup {None}]]
      <4>1. [d.edges EXCEPT ![w.id] = w.edge] \in [EdgeIds -> EdgeRecord \cup {None}]
        BY <3>2, <1>0
      <4> QED BY <3>1, <4>1, <1>0
    <3>5. d2.nodes = d.nodes /\ d2.edges = [d.edges EXCEPT ![w.id] = w.edge]
      BY <3>1
    <3> HIDE DEF d2
    <3>6. \A n \in NodeIds : Present(d2, n) => n <= m.nodes
      BY <3>5 DEF Present, StoreFits
    <3>7. \A e \in EdgesOf(d2) : e = w.id \/ (e \in EdgesOf(d) /\ d2.edges[e] = d.edges[e])
      BY <3>5, <1>0 DEF EdgesOf
    <3>8. d2.edges[w.id] = w.edge
      BY <3>5, <3>2, <1>0
    <3>9. StoreFits(d2, m)
      BY <3>2, <3>3, <3>4, <3>6, <3>7, <3>8 DEF StoreFits
    <3> QED BY <2>0, <3>9 DEF d2
  <2>4. CASE w.op = "removeEdge"
    <3> DEFINE d2 == Apply(d, w)
    <3>1. d2 = [nodes |-> d.nodes, edges |-> [d.edges EXCEPT ![w.id] = None]]
      BY <1>0, <2>4 DEF Apply
    <3>4. d2 \in [nodes : [NodeIds -> Node \cup {None}], edges : [EdgeIds -> EdgeRecord \cup {None}]]
      <4>1. [d.edges EXCEPT ![w.id] = None] \in [EdgeIds -> EdgeRecord \cup {None}]
        BY <1>0
      <4> QED BY <3>1, <4>1, <1>0
    <3>5. d2.nodes = d.nodes /\ d2.edges = [d.edges EXCEPT ![w.id] = None]
      BY <3>1
    <3> HIDE DEF d2
    <3>6. \A n \in NodeIds : Present(d2, n) => n <= m.nodes
      BY <3>5 DEF Present, StoreFits
    <3>7. \A e \in EdgesOf(d2) : e \in EdgesOf(d) /\ d2.edges[e] = d.edges[e]
      BY <3>5, <1>0 DEF EdgesOf
    <3>9. StoreFits(d2, m)
      BY <3>4, <3>6, <3>7 DEF StoreFits
    <3> QED BY <2>0, <3>9 DEF d2
  <2> QED BY <2>1, <2>2, <2>3, <2>4 DEF WriteTyped
<1> QED BY <1>1, <1>2

\* Among finitely many there is one of the largest order.
LEMMA MaximalOf ==
  ASSUME NEW S, IsFiniteSet(S), S # {}, NEW g, \A e \in S : g[e] \in Int
  PROVE  \E e \in S : \A f \in S : g[f] <= g[e]
<1> DEFINE Above(e) == {f \in S : g[f] > g[e]}
           TT == {Above(e) : e \in S}
           R == StrictSubsetOrdering(S)
<1>1. IsWellFoundedOn(R, FiniteSubsetsOf(S))
  BY FS_StrictSubsetOrderingWellFounded
<1>2. \A e \in S : Above(e) \in SUBSET S /\ IsFiniteSet(Above(e))
  BY FS_Subset
<1>3. TT \subseteq FiniteSubsetsOf(S) /\ TT # {}
  BY <1>2 DEF FiniteSubsetsOf
<1> HIDE DEF R
<1>4. PICK X \in TT : \A Y \in TT : <<Y, X>> \notin R
  <2> HIDE DEF TT
  <2> QED BY <1>1, <1>3, WFMin
<1>5. PICK e \in S : X = Above(e)
  BY <1>4
<1>6. ASSUME NEW f \in S, ~(g[f] <= g[e]) PROVE FALSE
  <2>0. g[f] > g[e] /\ g[f] \in Int /\ g[e] \in Int
    BY <1>6
  <2>1. Above(f) \subseteq Above(e) /\ f \in Above(e) /\ f \notin Above(f)
    BY <2>0
  <2>2. <<Above(f), Above(e)>> \in R
    BY <2>1, <1>2 DEF R, StrictSubsetOrdering
  <2> QED BY <1>4, <1>5, <2>2
<1> QED BY <1>6

\* The order of a new last document child is above those there are
\* (edit-ops.ts nextDocChildOrder).
LEMMA NextOrderIsLast ==
  ASSUME NEW d, NEW m, StoreFits(d, m), NEW n
  PROVE  NextOrder(d, n) \in Int /\ \A e \in From(d, "doc-child", n) : d.edges[e].order < NextOrder(d, n)
<1> DEFINE F == From(d, "doc-child", n)
           g == [e \in F |-> d.edges[e].order]
           S == {-1} \cup {d.edges[e].order : e \in F}
<1>1. IsFiniteSet(F)
  BY IdsAssumption, FS_Subset DEF From, EdgesOf
<1>2. \A e \in F : g[e] \in Int /\ d.edges[e].order \in Int
  BY EdgesTyped, EdgeShape DEF From
<1>3. \E m1 \in S : \A e \in F : d.edges[e].order <= m1
  <2>1. CASE F = {}
    BY <2>1
  <2>2. CASE F # {}
    <3>1. \E e \in F : \A f \in F : g[f] <= g[e]
      <4> HIDE DEF F, g
      <4> QED BY <1>1, <1>2, <2>2, MaximalOf
    <3> QED BY <3>1
  <2> QED BY <2>1, <2>2
<1>4. NextOrder(d, n) = 1 + CHOOSE m1 \in S : \A e \in F : d.edges[e].order <= m1
  BY DEF NextOrder
<1>5. S \subseteq Int
  BY <1>2
<1> HIDE DEF S, F
<1> DEFINE M == CHOOSE m1 \in S : \A e \in F : d.edges[e].order <= m1
<1>6. M \in S /\ \A e \in F : d.edges[e].order <= M
  BY <1>3
<1>7. NextOrder(d, n) = 1 + M
  BY <1>4
<1> HIDE DEF M
<1>8. M \in Int /\ \A e \in F : d.edges[e].order < 1 + M
  BY <1>2, <1>5, <1>6
<1> QED BY <1>7, <1>8 DEF F

----------------------------------------------------------------------------
(* A merge in progress: source s into target t, from store d to store D.   *)

MovedKinds == {"parent-child", "doc-child", "next-section"}
\* What the target keeps one of: a link to a child, a section of a document.
Alike(v, u) == v.kind = u.kind /\ IF u.kind = "next-section" THEN v.doc = u.doc ELSE v.target = u.target
Taken(D, t, u) == \E f \in EdgesOf(D) : D.edges[f].source = t /\ Alike(D.edges[f], u)
\* The edge v of the target stands for the edge u of the source.
CopyOf(v, u) == v.kind = u.kind /\ v.target = u.target /\ (u.kind = "next-section" => v.doc = u.doc)

ToMove(s, v) == v.source = s /\ v.kind \in MovedKinds
Kept(d, D, s, t) ==
  \A e \in EdgesOf(d) : \/ D.edges[e] = d.edges[e]
                        \/ D.edges[e] = None /\ ToMove(s, d.edges[e]) /\ Taken(D, t, d.edges[e])
Added(d, D, s, t) ==
  \A e \in EdgesOf(D) \ EdgesOf(d) :
    /\ D.edges[e].source = t
    /\ \E f \in EdgesOf(d) : ToMove(s, d.edges[f]) /\ CopyOf(D.edges[e], d.edges[f])
Single(d, D, t) ==
  \A e \in EdgesOf(D) \ EdgesOf(d), f \in EdgesOf(D) :
    D.edges[f].source = t /\ D.edges[f].kind = D.edges[e].kind /\ e # f =>
      /\ D.edges[e].kind \in {"parent-child", "doc-child"} => D.edges[e].target # D.edges[f].target
      /\ D.edges[e].kind = "doc-child" => D.edges[e].order # D.edges[f].order
Moving(d, D, s, t) == Kept(d, D, s, t) /\ Added(d, D, s, t) /\ Single(d, D, t)

\* An edge of the source goes that the target has.
LEMMA MovingRemoves ==
  ASSUME NEW d, NEW m, StoreFits(d, m), NEW D, StoreFits(D, m), NEW s, NEW t, s # t, Moving(d, D, s, t),
         NEW e \in EdgesOf(D), ToMove(s, D.edges[e]), Taken(D, t, D.edges[e]),
         NEW D2, D2.edges = [D.edges EXCEPT ![e] = None]
  PROVE  Moving(d, D2, s, t)
<1>0. D.edges \in [EdgeIds -> EdgeRecord \cup {None}]
  BY DEF StoreFits
<1>1. e \in EdgesOf(d) /\ D.edges[e] = d.edges[e]
  BY DEF Moving, Kept, Added, ToMove, EdgesOf
<1>2. D2.edges[e] = None /\ \A f \in EdgeIds \ {e} : D2.edges[f] = D.edges[f]
  BY <1>0 DEF EdgesOf
<1>3. EdgesOf(D2) = EdgesOf(D) \ {e}
  BY <1>2 DEF EdgesOf
<1>4. \A f \in EdgesOf(D2) : f \in EdgesOf(D) /\ f # e /\ D2.edges[f] = D.edges[f]
  BY <1>2, <1>3 DEF EdgesOf
<1>5. ASSUME NEW u, Taken(D, t, u) PROVE Taken(D2, t, u)
  <2>1. PICK f \in EdgesOf(D) : D.edges[f].source = t /\ Alike(D.edges[f], u)
    BY <1>5 DEF Taken
  <2>2. f # e
    BY <2>1 DEF ToMove
  <2> QED BY <2>1, <2>2, <1>3, <1>4 DEF Taken
<1>6. Kept(d, D2, s, t)
  <2>1. ASSUME NEW f \in EdgesOf(d), f # e
        PROVE  \/ D2.edges[f] = d.edges[f]
               \/ D2.edges[f] = None /\ ToMove(s, d.edges[f]) /\ Taken(D2, t, d.edges[f])
    <3>1. D2.edges[f] = D.edges[f]
      BY <1>2, <2>1 DEF EdgesOf
    <3> QED BY <3>1, <1>5 DEF Moving, Kept
  <2>2. D2.edges[e] = None /\ ToMove(s, d.edges[e]) /\ Taken(D2, t, d.edges[e])
    BY <1>1, <1>2, <1>5
  <2> QED BY <2>1, <2>2 DEF Kept
<1>7. Added(d, D2, s, t)
  BY <1>3, <1>4 DEF Moving, Added
<1>8. Single(d, D2, t)
  BY <1>3, <1>4 DEF Moving, Single
<1> QED BY <1>6, <1>7, <1>8 DEF Moving

\* An edge of the source is copied that the target has not.
Copying(d, D, m, s, t, f, e, v) ==
  /\ StoreFits(d, m) /\ StoreFits(D, m) /\ s # t /\ Moving(d, D, s, t)
  /\ f \in EdgesOf(D) /\ ToMove(s, D.edges[f]) /\ ~Taken(D, t, D.edges[f])
  /\ e \in EdgeIds /\ D.edges[e] = None /\ d.edges[e] = None
  /\ v \in EdgeRecord /\ v.source = t /\ CopyOf(v, D.edges[f])
  /\ v.kind = "doc-child" => \A g \in From(D, "doc-child", t) : D.edges[g].order < v.order
HasCopied(d, D, D2, s, t, f, e, v) ==
  /\ Moving(d, D2, s, t)
  /\ EdgesOf(D2) = EdgesOf(D) \cup {e} /\ D2.edges[e] = v
  /\ \A g \in EdgesOf(D) : D2.edges[g] = D.edges[g]
  /\ Taken(D2, t, D2.edges[f])
LEMMA MovingCopies ==
  ASSUME NEW d, NEW D, NEW m, NEW s, NEW t, NEW f, NEW e, NEW v, Copying(d, D, m, s, t, f, e, v),
         NEW D2, D2.edges = [D.edges EXCEPT ![e] = v]
  PROVE  HasCopied(d, D, D2, s, t, f, e, v)
<1> USE DEF Copying
<1>0. D.edges \in [EdgeIds -> EdgeRecord \cup {None}]
  BY DEF StoreFits
<1>1. f \in EdgesOf(d) /\ D.edges[f] = d.edges[f]
  BY DEF Moving, Kept, Added, ToMove, EdgesOf
<1>2. D2.edges[e] = v /\ v # None /\ \A g \in EdgeIds \ {e} : D2.edges[g] = D.edges[g]
  BY <1>0, EdgeShape
<1>3. EdgesOf(D2) = EdgesOf(D) \cup {e} /\ e \notin EdgesOf(D) /\ e \notin EdgesOf(d)
  BY <1>2 DEF EdgesOf
<1>4. \A g \in EdgesOf(D) : g # e /\ D2.edges[g] = D.edges[g]
  BY <1>2, <1>3 DEF EdgesOf
<1>5. ASSUME NEW u, Taken(D, t, u) PROVE Taken(D2, t, u)
  BY <1>3, <1>4, <1>5 DEF Taken
<1>6. Kept(d, D2, s, t)
  <2>1. ASSUME NEW g \in EdgesOf(d)
        PROVE  \/ D2.edges[g] = d.edges[g]
               \/ D2.edges[g] = None /\ ToMove(s, d.edges[g]) /\ Taken(D2, t, d.edges[g])
    <3>1. D2.edges[g] = D.edges[g]
      BY <1>2, <1>3, <2>1 DEF EdgesOf
    <3> QED BY <3>1, <1>5 DEF Moving, Kept
  <2> QED BY <2>1 DEF Kept
<1>7. Added(d, D2, s, t)
  <2>1. ASSUME NEW g \in EdgesOf(D2) \ EdgesOf(d)
        PROVE  /\ D2.edges[g].source = t
               /\ \E h \in EdgesOf(d) : ToMove(s, d.edges[h]) /\ CopyOf(D2.edges[g], d.edges[h])
    <3>1. CASE g = e
      BY <3>1, <1>1, <1>2
    <3>2. CASE g # e
      <4>1. g \in EdgesOf(D) \ EdgesOf(d) /\ D2.edges[g] = D.edges[g]
        BY <3>2, <1>3, <1>4, <2>1
      <4> QED BY <4>1 DEF Moving, Added
    <3> QED BY <3>1, <3>2
  <2> QED BY <2>1 DEF Added
<1>8. Single(d, D2, t)
  <2>1. ASSUME NEW g \in EdgesOf(D), D.edges[g].source = t, D.edges[g].kind = v.kind
        PROVE  /\ v.kind \in {"parent-child", "doc-child"} => v.target # D.edges[g].target
               /\ v.kind = "doc-child" => v.order # D.edges[g].order
    <3>1. v.kind \in {"parent-child", "doc-child"} => v.target # D.edges[g].target
      BY <2>1 DEF Taken, Alike, CopyOf
    <3>2. v.kind = "doc-child" => v.order # D.edges[g].order
      <4>1. D.edges[g].order \in Int /\ v.order \in Int
        BY EdgesTyped, EdgeShape
      <4>2. v.kind = "doc-child" => g \in From(D, "doc-child", t)
        BY <2>1 DEF From
      <4> QED BY <4>1, <4>2
    <3> QED BY <3>1, <3>2
  <2>2. ASSUME NEW g \in EdgesOf(D2) \ EdgesOf(d), NEW h \in EdgesOf(D2),
               D2.edges[h].source = t, D2.edges[h].kind = D2.edges[g].kind, g # h
        PROVE  /\ D2.edges[g].kind \in {"parent-child", "doc-child"} => D2.edges[g].target # D2.edges[h].target
               /\ D2.edges[g].kind = "doc-child" => D2.edges[g].order # D2.edges[h].order
    <3>1. CASE g = e
      <4>1. h \in EdgesOf(D) /\ D2.edges[h] = D.edges[h]
        BY <3>1, <2>2, <1>3, <1>4
      <4> QED BY <3>1, <4>1, <2>1, <2>2, <1>2
    <3>2. CASE h = e
      <4>1. g \in EdgesOf(D) \ EdgesOf(d) /\ D2.edges[g] = D.edges[g]
        BY <3>2, <2>2, <1>3, <1>4
      <4>2. D.edges[g].source = t
        BY <4>1 DEF Moving, Added
      <4> QED BY <3>2, <4>1, <4>2, <2>1, <2>2, <1>2
    <3>3. CASE g # e /\ h # e
      <4>1. g \in EdgesOf(D) \ EdgesOf(d) /\ h \in EdgesOf(D) /\ D2.edges[g] = D.edges[g] /\ D2.edges[h] = D.edges[h]
        BY <3>3, <2>2, <1>3, <1>4
      <4> QED BY <4>1, <2>2 DEF Moving, Single
    <3> QED BY <3>1, <3>2, <3>3
  <2> QED BY <2>2 DEF Single
<1>9. Taken(D2, t, D2.edges[f])
  <2>1. D2.edges[f] = D.edges[f] /\ e \in EdgesOf(D2) /\ D2.edges[e] = v
    BY <1>2, <1>3, <1>4
  <2>2. Alike(v, D.edges[f])
    BY DEF CopyOf, Alike
  <2> QED BY <2>1, <2>2 DEF Taken
<1> QED BY <1>2, <1>3, <1>4, <1>6, <1>7, <1>8, <1>9 DEF Moving, HasCopied

\* The source has no edge left to move: its removal makes the merge whole.
LEMMA MovingEnds ==
  ASSUME NEW d, NEW m, StoreFits(d, m), NEW D, StoreFits(D, m), NEW s \in NodeIds, NEW t \in NodeIds, s # t,
         Moving(d, D, s, t), ~MidChain(d, s), Present(d, s),
         D.nodes = [d.nodes EXCEPT ![t].text = @ \o d.nodes[s].text],
         \A k \in MovedKinds : From(D, k, s) = {}
  PROVE  MergeIsWhole(s, t, d, Apply(D, RemoveNode(s)))
<1> DEFINE D2 == Apply(D, RemoveNode(s))
<1>0. d.nodes \in [NodeIds -> Node \cup {None}] /\ d.edges \in [EdgeIds -> EdgeRecord \cup {None}]
      /\ D.nodes \in [NodeIds -> Node \cup {None}] /\ D.edges \in [EdgeIds -> EdgeRecord \cup {None}]
  BY DEF StoreFits
<1>1. Present(D, s)
  BY <1>0 DEF Present
<1>2. /\ D2.nodes = [D.nodes EXCEPT ![s] = None]
      /\ D2.edges = [e \in EdgeIds |-> IF e \in Touching(D, s) THEN None ELSE D.edges[e]]
  <2>1. D2 = [nodes |-> [D.nodes EXCEPT ![s] = None],
              edges |-> [e \in EdgeIds |-> IF e \in Touching(D, s) THEN None ELSE D.edges[e]]]
    BY <1>1, Writes
  <2> QED BY <2>1
<1> HIDE DEF D2
<1>3. D2.nodes = [d.nodes EXCEPT ![s] = None, ![t].text = @ \o d.nodes[s].text]
  BY <1>0, <1>2
<1>4. \A e \in EdgesOf(D2) : /\ e \in EdgesOf(D) /\ D2.edges[e] = D.edges[e]
                             /\ D.edges[e].source # s /\ D.edges[e].target # s
  BY <1>2 DEF EdgesOf, Touching
<1>5. \A e \in EdgesOf(D) : D.edges[e].source # s /\ D.edges[e].target # s => e \in EdgesOf(D2) /\ D2.edges[e] = D.edges[e]
  BY <1>2 DEF EdgesOf, Touching
<1>6. Touching(D2, s) = {}
  BY <1>4 DEF Touching
\* Old edges that are in D2 are as they were, and those that are gone touch s.
<1>7. ASSUME NEW e \in EdgesOf(d), ~ToMove(s, d.edges[e]), d.edges[e].source # s, d.edges[e].target # s
      PROVE  e \in EdgesOf(D2) /\ D2.edges[e] = d.edges[e]
  <2>1. D.edges[e] = d.edges[e]
    BY <1>7 DEF Moving, Kept
  <2>2. e \in EdgesOf(D)
    BY <2>1 DEF EdgesOf
  <2> QED BY <1>5, <1>7, <2>1, <2>2
<1>8. ASSUME NEW e \in EdgesOf(D2), e \in EdgesOf(d) PROVE D2.edges[e] = d.edges[e]
  <2>1. e \in EdgesOf(D) /\ D2.edges[e] = D.edges[e]
    BY <1>4
  <2>2. D.edges[e] # None
    BY <2>1 DEF EdgesOf
  <2> QED BY <2>1, <2>2, <1>8 DEF Moving, Kept
<1>9. ASSUME NEW e \in EdgesOf(D2), e \notin EdgesOf(d)
      PROVE  /\ D2.edges[e].source = t
             /\ \E f \in EdgesOf(d) : ToMove(s, d.edges[f]) /\ CopyOf(D2.edges[e], d.edges[f])
  BY <1>4, <1>9 DEF Moving, Added
<1>10. ASSUME NEW f \in EdgesOf(d), ToMove(s, d.edges[f]),
              d.edges[f].kind # "next-section" => d.edges[f].target # s
       PROVE  \E g \in EdgesOf(D2) : D2.edges[g].source = t /\ Alike(D2.edges[g], d.edges[f])
  <2>1. Taken(D, t, d.edges[f])
    <3>1. D.edges[f] # d.edges[f]
      <4>1. SUFFICES ASSUME D.edges[f] = d.edges[f] PROVE FALSE
        OBVIOUS
      <4>2. f \in From(D, d.edges[f].kind, s)
        BY <4>1, <1>10 DEF From, EdgesOf, ToMove
      <4> QED BY <4>2, <1>10 DEF ToMove
    <3> QED BY <3>1 DEF Moving, Kept
  <2>2. PICK g \in EdgesOf(D) : D.edges[g].source = t /\ Alike(D.edges[g], d.edges[f])
    BY <2>1 DEF Taken
  <2>3. D.edges[g].target # s
    <3>1. CASE d.edges[f].kind # "next-section"
      BY <3>1, <1>10, <2>2 DEF Alike
    <3>2. CASE d.edges[f].kind = "next-section" /\ g \in EdgesOf(d)
      <4>1. D.edges[g] = d.edges[g] /\ d.edges[g].kind = "next-section"
        BY <3>2, <2>2 DEF Moving, Kept, EdgesOf, Alike
      <4> QED BY <3>2, <4>1 DEF MidChain
    <3>3. CASE g \notin EdgesOf(d)
      <4>1. PICK h \in EdgesOf(d) : ToMove(s, d.edges[h]) /\ CopyOf(D.edges[g], d.edges[h])
        BY <3>3 DEF Moving, Added
      <4>2. d.edges[h].target # s
        BY <4>1 DEF StoreFits, ToMove
      <4> QED BY <4>1, <4>2 DEF CopyOf
    <3> QED BY <3>1, <3>2, <3>3
  <2> QED BY <2>2, <2>3, <1>5
<1>11. ASSUME NEW k \in {"parent-child", "doc-child"}
       PROVE  Links(D2, k) = {<<IF l[1] = s THEN t ELSE l[1], l[2]>> : l \in {x \in Links(d, k) : x[2] # s}}
  <2> DEFINE moved == {<<IF l[1] = s THEN t ELSE l[1], l[2]>> : l \in {x \in Links(d, k) : x[2] # s}}
  <2>1. ASSUME NEW e \in EdgesOf(D2), D2.edges[e].kind = k PROVE <<D2.edges[e].source, D2.edges[e].target>> \in moved
    <3>1. D2.edges[e].source # s /\ D2.edges[e].target # s
      BY <1>4
    <3>2. CASE e \in EdgesOf(d)
      <4>1. <<D2.edges[e].source, D2.edges[e].target>> \in Links(d, k)
        BY <1>8, <3>2, <2>1 DEF Links
      <4> DEFINE l == <<D2.edges[e].source, D2.edges[e].target>>
      <4>2. l[2] # s /\ l = <<IF l[1] = s THEN t ELSE l[1], l[2]>>
        BY <3>1
      <4> QED BY <4>1, <4>2
    <3>3. CASE e \notin EdgesOf(d)
      <4>1. PICK f \in EdgesOf(d) : ToMove(s, d.edges[f]) /\ CopyOf(D2.edges[e], d.edges[f])
        BY <1>9, <3>3
      <4>2. <<s, D2.edges[e].target>> \in Links(d, k)
        BY <4>1, <2>1 DEF Links, ToMove, CopyOf
      <4>3. D2.edges[e].source = t
        BY <1>9, <3>3
      <4> DEFINE l == <<s, D2.edges[e].target>>
      <4>4. l[2] # s /\ <<t, D2.edges[e].target>> = <<IF l[1] = s THEN t ELSE l[1], l[2]>>
        BY <3>1
      <4> QED BY <4>2, <4>3, <4>4
    <3> QED BY <3>2, <3>3
  <2>2. ASSUME NEW f \in EdgesOf(d), d.edges[f].kind = k, d.edges[f].target # s
        PROVE  \E e \in EdgesOf(D2) : /\ D2.edges[e].kind = k /\ D2.edges[e].target = d.edges[f].target
                                     /\ D2.edges[e].source = IF d.edges[f].source = s THEN t ELSE d.edges[f].source
    <3>1. CASE d.edges[f].source = s
      <4>1. ToMove(s, d.edges[f])
        BY <3>1, <2>2 DEF ToMove, MovedKinds
      <4>2. PICK g \in EdgesOf(D2) : D2.edges[g].source = t /\ Alike(D2.edges[g], d.edges[f])
        BY <4>1, <2>2, <1>10
      <4> QED BY <3>1, <4>2, <2>2 DEF Alike
    <3>2. CASE d.edges[f].source # s
      <4>1. f \in EdgesOf(D2) /\ D2.edges[f] = d.edges[f]
        BY <3>2, <2>2, <1>7 DEF ToMove
      <4> QED BY <3>2, <4>1, <2>2
    <3> QED BY <3>1, <3>2
  <2>3. Links(D2, k) \subseteq moved
    <3> HIDE DEF moved
    <3> QED BY <2>1 DEF Links
  <2>4. ASSUME NEW l \in Links(d, k), l[2] # s PROVE <<IF l[1] = s THEN t ELSE l[1], l[2]>> \in Links(D2, k)
    <3>1. PICK f \in EdgesOf(d) : d.edges[f].kind = k /\ l = <<d.edges[f].source, d.edges[f].target>>
      BY <2>4 DEF Links
    <3>2. d.edges[f].target # s
      BY <3>1, <2>4
    <3>3. PICK e \in EdgesOf(D2) : /\ D2.edges[e].kind = k /\ D2.edges[e].target = d.edges[f].target
                                  /\ D2.edges[e].source = IF d.edges[f].source = s THEN t ELSE d.edges[f].source
      BY <3>1, <3>2, <2>2
    <3>4. <<IF l[1] = s THEN t ELSE l[1], l[2]>> = <<D2.edges[e].source, D2.edges[e].target>>
      BY <3>1, <3>3
    <3> QED BY <3>3, <3>4 DEF Links
  <2> QED BY <2>3, <2>4
<1>12. ASSUME NEW k \in {"parent-child", "doc-child"}, NEW e \in NewOf(d, D2, k, t), NEW f \in From(D2, k, t)
       PROVE  /\ D2.edges[e].target = D2.edges[f].target => e = f
              /\ k = "doc-child" /\ e # f => D2.edges[e].order # D2.edges[f].order
  <2>1. e \in EdgesOf(D2) /\ D2.edges[e].kind = k /\ D2.edges[e].source = t
    BY <1>12 DEF NewOf, From
  <2>2. f \in EdgesOf(D2) /\ D2.edges[f].kind = k /\ D2.edges[f].source = t
    BY <1>12 DEF From
  <2>3. e \notin EdgesOf(d)
    <3>1. SUFFICES ASSUME e \in EdgesOf(d) PROVE FALSE
      OBVIOUS
    <3>2. D2.edges[e] = d.edges[e]
      BY <2>1, <3>1, <1>8
    <3>3. e \in From(d, k, t)
      BY <2>1, <3>1, <3>2 DEF From
    <3> QED BY <3>3, <1>12 DEF NewOf
  <2>4. e \in EdgesOf(D) \ EdgesOf(d) /\ f \in EdgesOf(D) /\ D2.edges[e] = D.edges[e] /\ D2.edges[f] = D.edges[f]
    BY <2>1, <2>2, <2>3, <1>4
  <2> QED BY <2>1, <2>2, <2>4 DEF Moving, Single
<1>13. Sections(d, t) \subseteq Sections(D2, t)
  <2>1. ASSUME NEW e \in From(d, "next-section", t) PROVE e \in From(D2, "next-section", t) /\ D2.edges[e] = d.edges[e]
    <3>1. e \in EdgesOf(d) /\ d.edges[e].kind = "next-section" /\ d.edges[e].source = t
      BY <2>1 DEF From
    <3>2. d.edges[e].target # s
      BY <3>1 DEF MidChain
    <3>3. e \in EdgesOf(D2) /\ D2.edges[e] = d.edges[e]
      BY <3>1, <3>2, <1>7 DEF ToMove
    <3> QED BY <3>1, <3>3 DEF From
  <2> QED BY <2>1 DEF Sections
<1>14. Sections(D2, t) \subseteq Sections(d, t) \cup Sections(d, s)
  <2>1. ASSUME NEW e \in From(D2, "next-section", t)
        PROVE  <<D2.edges[e].target, D2.edges[e].doc>> \in Sections(d, t) \cup Sections(d, s)
    <3>1. e \in EdgesOf(D2) /\ D2.edges[e].kind = "next-section" /\ D2.edges[e].source = t
      BY <2>1 DEF From
    <3>2. CASE e \in EdgesOf(d)
      <4>1. D2.edges[e] = d.edges[e]
        BY <3>1, <3>2, <1>8
      <4>2. e \in From(d, "next-section", t)
        BY <3>1, <3>2, <4>1 DEF From
      <4> QED BY <4>1, <4>2 DEF Sections
    <3>3. CASE e \notin EdgesOf(d)
      <4>1. PICK f \in EdgesOf(d) : ToMove(s, d.edges[f]) /\ CopyOf(D2.edges[e], d.edges[f])
        BY <1>9, <3>1, <3>3
      <4>2. f \in From(d, "next-section", s)
        BY <4>1, <3>1 DEF From, ToMove, CopyOf
      <4>3. D2.edges[e].target = d.edges[f].target /\ D2.edges[e].doc = d.edges[f].doc
        BY <4>1, <3>1 DEF CopyOf
      <4> QED BY <4>2, <4>3 DEF Sections
    <3> QED BY <3>2, <3>3
  <2> QED BY <2>1 DEF Sections
<1>15. DocsOf(Sections(D2, t)) = DocsOf(Sections(d, t)) \cup DocsOf(Sections(d, s))
  <2>1. \A S, T : S \subseteq T => DocsOf(S) \subseteq DocsOf(T)
    BY DEF DocsOf
  <2>2. \A S, T : DocsOf(S \cup T) = DocsOf(S) \cup DocsOf(T)
    BY DEF DocsOf
  <2>3. DocsOf(Sections(D2, t)) \subseteq DocsOf(Sections(d, t)) \cup DocsOf(Sections(d, s))
    <3>1. DocsOf(Sections(D2, t)) \subseteq DocsOf(Sections(d, t) \cup Sections(d, s))
      BY <2>1, <1>14
    <3>2. DocsOf(Sections(d, t) \cup Sections(d, s)) = DocsOf(Sections(d, t)) \cup DocsOf(Sections(d, s))
      BY <2>2
    <3> QED BY <3>1, <3>2
  <2>4. DocsOf(Sections(d, t)) \subseteq DocsOf(Sections(D2, t))
    BY <2>1, <1>13
  <2>5. ASSUME NEW f \in From(d, "next-section", s) PROVE d.edges[f].doc \in DocsOf(Sections(D2, t))
    <3>1. f \in EdgesOf(d) /\ d.edges[f].kind = "next-section" /\ ToMove(s, d.edges[f])
      BY <2>5 DEF From, ToMove, MovedKinds
    <3>2. PICK g \in EdgesOf(D2) : D2.edges[g].source = t /\ Alike(D2.edges[g], d.edges[f])
      BY <3>1, <1>10
    <3>3. g \in From(D2, "next-section", t) /\ D2.edges[g].doc = d.edges[f].doc
      BY <3>1, <3>2 DEF From, Alike
    <3>4. <<D2.edges[g].target, D2.edges[g].doc>> \in Sections(D2, t)
      BY <3>3 DEF Sections
    <3> DEFINE l == <<D2.edges[g].target, D2.edges[g].doc>>
    <3>5. l[2] = d.edges[f].doc /\ l \in Sections(D2, t)
      BY <3>3, <3>4
    <3> QED BY <3>5 DEF DocsOf
  <2>6. DocsOf(Sections(d, s)) \subseteq DocsOf(Sections(D2, t))
    <3>1. \A x \in DocsOf(Sections(d, s)) : \E f \in From(d, "next-section", s) : x = d.edges[f].doc
      BY DEF DocsOf, Sections
    <3> QED BY <3>1, <2>5
  <2> QED BY <2>3, <2>4, <2>6
<1>16. SameApartFrom(d, D2, {s, t})
  BY <1>7 DEF SameApartFrom, ToMove
<1> QED BY <1>3, <1>6, <1>11, <1>12, <1>13, <1>14, <1>15, <1>16 DEF MergeIsWhole, D2

----------------------------------------------------------------------------
(* How far an operation alone has come, by its next stage: x is the call   *)
(* and D the store as it is or will be once its write has run.             *)

\* What a merge has still to go through: the list of the phase it is in is
\* what is left of that kind, but for the edge that is gone next.
Left(D, p, s, gone) ==
  {[id |-> e, target |-> D.edges[e].target, doc |-> D.edges[e].doc] : e \in From(D, Phase[p], s) \ gone}
Walking(x, D, s, t, gone) ==
  /\ x.phase = 2 => x.order \in Int /\ \A e \in From(D, "doc-child", t) : D.edges[e].order < x.order
  /\ \A i \in 1 .. 3 : i < x.phase => From(D, Phase[i], s) = {}
  /\ x.phase \in 1 .. 3 => x.left = Left(D, x.phase, s, gone)
  /\ x.phase \notin 1 .. 3 => x.left = {}
Merging(o, d, D) ==
  /\ o.op = "mergeNode" /\ o.node # o.target /\ Present(d, o.node) /\ ~MidChain(d, o.node)
  /\ D.nodes = [d.nodes EXCEPT ![o.target].text = @ \o d.nodes[o.node].text]
  /\ Moving(d, D, o.node, o.target)
Halved(o, d) == [d.nodes EXCEPT ![o.node].text = Before(@, o.at)]
Rested(o, r) == FreshNode(After(r.text, o.at), r.type, r.prop)
Splitting(x) ==
  /\ x.o.op = "splitNode" /\ x.read = x.solo.nodes[x.o.node] /\ x.read \in Node
  /\ x.o.at \in 1 .. (Len(x.read.text) - 1)
Progress(x, D) ==
  /\ x.next = "end"  => WholeEffect(x.o, x.fresh, x.solo, D)
  /\ x.next = "link" => /\ D.edges = x.solo.edges
                        /\ D.nodes = [x.solo.nodes EXCEPT ![x.fresh] = FreshNode(x.o.text, x.o.mark, None)]
  /\ x.next = "tail" => Splitting(x) /\ D.edges = x.solo.edges /\ D.nodes = Halved(x.o, x.solo)
  /\ x.next = "join" => /\ Splitting(x) /\ D.edges = x.solo.edges
                        /\ x.fresh # x.o.node /\ D.nodes = [Halved(x.o, x.solo) EXCEPT ![x.fresh] = Rested(x.o, x.read)]
  /\ x.next = "walk" => Merging(x.o, x.solo, D) /\ Walking(x, D, x.o.node, x.o.target, {})
  /\ x.next = "drop" => /\ Merging(x.o, x.solo, D) /\ Walking(x, D, x.o.node, x.o.target, {x.cur})
                        /\ x.phase \in 1 .. 3 /\ x.cur \in From(D, Phase[x.phase], x.o.node)
                        /\ Taken(D, x.o.target, D.edges[x.cur])

\* An id that is minted next is in use by nothing.
LEMMA FreshIds ==
  ASSUME NEW d, NEW m, MadeEdges(m), StoreFits(d, m)
  PROVE  /\ m.edges + 1 \in EdgeIds => d.edges[m.edges + 1] = None
         /\ m.nodes + 1 \in NodeIds => d.nodes[m.nodes + 1] = None
<1>1. m.edges \in Nat /\ m.nodes \in Nat
  BY DEF MadeEdges, MadeTyped
<1>2. m.edges + 1 \in EdgeIds => d.edges[m.edges + 1] = None
  BY <1>1 DEF StoreFits, EdgesOf
<1>3. m.nodes + 1 \in NodeIds => d.nodes[m.nodes + 1] = None
  BY <1>1 DEF StoreFits, Present
<1> QED BY <1>2, <1>3

\* What the link of a new node to its parent makes whole (edit-ops.ts createNode).
LEMMA LinkWhole ==
  ASSUME NEW d, NEW m, StoreFits(d, m), NEW D, StoreFits(D, m), NEW o, o.op = "createNode",
         NEW f \in NodeIds, NEW v \in Node, D.edges = d.edges, D.nodes = [d.nodes EXCEPT ![f] = v],
         NEW e \in EdgeIds, D.edges[e] = None, NEW w \in EdgeRecord,
         w.kind = "parent-child", w.source = o.node, w.target = f
  PROVE  WholeEffect(o, f, d, Apply(D, PutEdge(e, w)))
<1> DEFINE D2 == Apply(D, PutEdge(e, w))
<1>0. d.nodes \in [NodeIds -> Node \cup {None}] /\ D.edges \in [EdgeIds -> EdgeRecord \cup {None}]
  BY DEF StoreFits
<1>1. D2.nodes = D.nodes /\ D2.edges = [D.edges EXCEPT ![e] = w]
  <2>1. D2 = [nodes |-> D.nodes, edges |-> [D.edges EXCEPT ![e] = w]]
    <3>1. \A e1, v1 : Apply(D, PutEdge(e1, v1)) = [nodes |-> D.nodes, edges |-> [D.edges EXCEPT ![e1] = v1]]
      BY Writes
    <3> QED BY <3>1
  <2> QED BY <2>1
<1> HIDE DEF D2
<1>2. {n \in NodeIds : Present(D2, n)} = {n \in NodeIds : Present(d, n)} \cup {f}
  BY <1>0, <1>1, NodesAssumption DEF Present
<1>3. D2.edges[e] = w /\ w # None /\ \A g \in EdgesOf(d) : D2.edges[g] = d.edges[g]
  BY <1>0, <1>1, EdgeShape DEF EdgesOf
<1>4. <<o.node, f>> \in Links(D2, "parent-child")
  <2>1. e \in EdgesOf(D2) /\ D2.edges[e].kind = "parent-child" /\ D2.edges[e].source = o.node /\ D2.edges[e].target = f
    BY <1>3 DEF EdgesOf
  <2> QED BY <2>1 DEF Links
<1>5. SameApartFrom(d, D2, {})
  BY <1>3 DEF SameApartFrom
<1> QED BY <1>2, <1>4, <1>5 DEF WholeEffect, Setters, D2

\* A text is the two halves it is cut into.
LEMMA TextHalves ==
  ASSUME NEW S, NEW t \in Seq(S), NEW at \in 1 .. (Len(t) - 1)
  PROVE  Len(Before(t, at)) = at /\ Before(t, at) \o After(t, at) = t
<1>1. Len(t) \in Nat /\ at \in Nat /\ 1 <= at /\ at < Len(t) /\ \A i \in 1 .. Len(t) : t[i] \in S
  OBVIOUS
<1> DEFINE b == SubSeq(t, 1, at)
           a == SubSeq(t, at + 1, Len(t))
<1>2. b \in Seq(S) /\ Len(b) = at /\ \A i \in 1 .. at : b[i] = t[i]
  <2>1. \A i \in 1 .. at : t[i] \in S
    BY <1>1
  <2>2. b \in Seq(S) /\ (Len(b) = IF 1 <= at THEN at - 1 + 1 ELSE 0) /\ \A i \in 1 .. at - 1 + 1 : b[i] = t[1 + i - 1]
    BY <1>1, <2>1, SubSeqProperties
  <2> HIDE DEF b
  <2>3. \A i \in 1 .. at : b[i] = t[i]
    <3>1. ASSUME NEW i \in 1 .. at PROVE b[i] = t[i]
      <4>1. i \in 1 .. at - 1 + 1 /\ 1 + i - 1 = i
        BY <1>1
      <4> QED BY <4>1, <2>2
    <3> QED BY <3>1
  <2>4. Len(b) = at
    BY <1>1, <2>2
  <2> QED BY <2>2, <2>3, <2>4
<1>3. a \in Seq(S) /\ Len(a) = Len(t) - at /\ \A i \in 1 .. (Len(t) - at) : a[i] = t[at + i]
  <2>1. (\A i \in at + 1 .. Len(t) : t[i] \in S) /\ at + 1 \in Int /\ Len(t) \in Int
    BY <1>1
  <2>2. /\ a \in Seq(S) /\ (Len(a) = IF at + 1 <= Len(t) THEN Len(t) - (at + 1) + 1 ELSE 0)
        /\ \A i \in 1 .. Len(t) - (at + 1) + 1 : a[i] = t[at + 1 + i - 1]
    BY <2>1, SubSeqProperties
  <2> HIDE DEF a
  <2>3. \A i \in 1 .. (Len(t) - at) : a[i] = t[at + i]
    <3>1. ASSUME NEW i \in 1 .. (Len(t) - at) PROVE a[i] = t[at + i]
      <4>1. i \in 1 .. Len(t) - (at + 1) + 1 /\ at + 1 + i - 1 = at + i
        BY <1>1
      <4> QED BY <4>1, <2>2
    <3> QED BY <3>1
  <2>4. Len(a) = Len(t) - at
    BY <1>1, <2>2
  <2> QED BY <2>2, <2>3, <2>4
<1> HIDE DEF a, b
<1>4. /\ b \o a \in Seq(S) /\ Len(b \o a) = Len(b) + Len(a)
      /\ \A i \in 1 .. Len(b) + Len(a) : (b \o a)[i] = IF i <= Len(b) THEN b[i] ELSE a[i - Len(b)]
  BY <1>2, <1>3, ConcatProperties
<1>5. Len(b \o a) = Len(t)
  BY <1>1, <1>2, <1>3, <1>4
<1>6. ASSUME NEW i \in 1 .. Len(t) PROVE (b \o a)[i] = t[i]
  <2>0. i \in 1 .. Len(b) + Len(a)
    BY <1>1, <1>2, <1>3
  <2>1. CASE i <= at
    <3>1. (b \o a)[i] = b[i] /\ i \in 1 .. at
      BY <2>0, <2>1, <1>1, <1>2, <1>4
    <3> QED BY <3>1, <1>2
  <2>2. CASE i > at
    <3>1. (b \o a)[i] = a[i - at]
      BY <2>0, <2>2, <1>1, <1>2, <1>4
    <3>2. i - at \in 1 .. (Len(t) - at) /\ at + (i - at) = i
      BY <2>2, <1>1
    <3>3. a[i - at] = t[at + (i - at)]
      BY <3>2, <1>3
    <3> QED BY <3>1, <3>2, <3>3
  <2>3. i \in Int /\ at \in Int
    BY <1>1
  <2>4. i <= at \/ i > at
    BY <2>3
  <2> QED BY <2>1, <2>2, <2>4
<1>7. b \o a = t
  BY <1>4, <1>5, <1>6, SeqEqual
<1> QED BY <1>2, <1>7 DEF Before, After, a, b

\* What the last edge of a split makes whole (edit-ops.ts splitNode).
LEMMA SplitWhole ==
  ASSUME NEW d, NEW m, StoreFits(d, m), NEW D, StoreFits(D, m), NEW x, Splitting(x), x.solo = d,
         x.o.node \in NodeIds, x.fresh \in NodeIds, x.fresh # x.o.node, D.edges = d.edges,
         D.nodes = [Halved(x.o, d) EXCEPT ![x.fresh] = Rested(x.o, x.read)],
         NEW e \in EdgeIds, D.edges[e] = None,
         NEW w \in EdgeRecord, w.kind = "doc-child", w.source = x.o.node, w.target = x.fresh,
         \A f \in From(D, "doc-child", x.o.node) : D.edges[f].order < w.order
  PROVE  WholeEffect(x.o, x.fresh, d, Apply(D, PutEdge(e, w)))
<1> DEFINE D2 == Apply(D, PutEdge(e, w))
           n == x.o.node
           at == x.o.at
           t == x.read.text
<1>0. d.nodes \in [NodeIds -> Node \cup {None}] /\ D.edges \in [EdgeIds -> EdgeRecord \cup {None}]
  BY DEF StoreFits
<1>1. D2.nodes = D.nodes /\ D2.edges = [D.edges EXCEPT ![e] = w]
  <2>1. D2 = [nodes |-> D.nodes, edges |-> [D.edges EXCEPT ![e] = w]]
    <3>1. \A e1, v1 : Apply(D, PutEdge(e1, v1)) = [nodes |-> D.nodes, edges |-> [D.edges EXCEPT ![e1] = v1]]
      BY Writes
    <3> QED BY <3>1
  <2> QED BY <2>1
<1> HIDE DEF D2
<1>2. d.nodes[n] = x.read /\ x.read \in Node /\ t \in Seq(Symbols) /\ at \in 1 .. (Len(t) - 1)
  BY DEF Splitting, Node
<1>3. /\ Halved(x.o, d) = [d.nodes EXCEPT ![n] = [x.read EXCEPT !.text = Before(t, at)]]
  BY <1>0, <1>2 DEF Halved
<1>4. /\ D2.nodes[n] = [x.read EXCEPT !.text = Before(t, at)]
      /\ D2.nodes[x.fresh] = Rested(x.o, x.read)
      /\ \A k \in NodeIds \ {n, x.fresh} : D2.nodes[k] = d.nodes[k]
  BY <1>0, <1>1, <1>3
<1>5. D2.nodes[n].text = Before(t, at)
  BY <1>2, <1>4 DEF Node
<1>6. D2.nodes[x.fresh].text = After(t, at)
  BY <1>4 DEF Rested, FreshNode
<1>7. Len(Before(t, at)) = at /\ Before(t, at) \o After(t, at) = t
  BY <1>2, TextHalves
<1>8. D2.edges[e] = w /\ w # None /\ e \in EdgesOf(D2) \ EdgesOf(d)
  BY <1>0, <1>1, EdgeShape DEF EdgesOf
<1>9. \A f \in From(D2, "doc-child", n) \ {e} : D2.edges[f].order < D2.edges[e].order
  <2>1. ASSUME NEW f \in From(D2, "doc-child", n) \ {e} PROVE f \in From(D, "doc-child", n) /\ D2.edges[f] = D.edges[f]
    BY <1>0, <1>1 DEF From, EdgesOf
  <2> QED BY <2>1, <1>8
<1>10. D2.edges = [d.edges EXCEPT ![e] = D2.edges[e]]
  BY <1>1, <1>8
<1>11. SplitIsWhole(n, at, x.fresh, d, D2)
  BY <1>2, <1>4, <1>5, <1>6, <1>7, <1>8, <1>9, <1>10 DEF SplitIsWhole
<1> QED BY <1>11 DEF WholeEffect, Setters, Splitting, D2

LEMMA PhaseKinds ==
  /\ \A i \in 1 .. 3 : Phase[i] \in MovedKinds
  /\ \A k \in MovedKinds : \E i \in 1 .. 3 : Phase[i] = k
  /\ \A i \in 1 .. 3 : (Phase[i] = "doc-child" <=> i = 2) /\ (Phase[i] = "next-section" <=> i = 3)
<1>1. Phase[1] = "parent-child" /\ Phase[2] = "doc-child" /\ Phase[3] = "next-section"
  BY DEF Phase
<1>2. 1 .. 3 = {1, 2, 3}
  OBVIOUS
<1> QED BY <1>1, <1>2 DEF MovedKinds

\* The next list of edges of a merge (edit-ops.ts mergeNode, the reads at the
\* head of each loop).
LEMMA RestWalks ==
  ASSUME NEW m, StoreFits(db, m), NEW x, CallFields \subseteq DOMAIN x, x.phase \in 0 .. 3,
         Walking(x, db, x.o.node, x.o.target, {})
  PROVE  /\ Walking(Rest(x), db, x.o.node, x.o.target, {})
         /\ Rest(x).phase \in 0 .. 4
         /\ Rest(x).left # {} => Rest(x).phase \in 1 .. 3
<1> DEFINE s == x.o.node
           t == x.o.target
           y == Rest(x)
           later == {i \in (x.phase + 1) .. 3 : From(db, Phase[i], s) # {}}
           p == IF later = {} THEN 4 ELSE CHOOSE i \in later : \A j \in later : i <= j
<1>1. CASE x.left # {}
  <2>1. y = x
    BY <1>1 DEF Rest
  <2>2. x.phase \in 1 .. 3
    BY <1>1 DEF Walking
  <2> QED BY <2>1, <2>2
<1>2. CASE x.left = {}
  <2>1. y = [x EXCEPT !.phase = p, !.left = IF p = 4 THEN {} ELSE Left(db, p, s, {}),
                      !.order = IF p = 2 THEN NextOrder(db, t) ELSE @]
    <3> DEFINE list == {[id |-> e, target |-> db.edges[e].target, doc |-> db.edges[e].doc] : e \in From(db, Phase[p], s)}
    <3>1. y = [x EXCEPT !.phase = p, !.left = IF p = 4 THEN {} ELSE list, !.order = IF p = 2 THEN NextOrder(db, t) ELSE @]
      BY <1>2 DEF Rest
    <3>2. list = Left(db, p, s, {})
      <4> HIDE DEF p
      <4> QED BY DEF Left
    <3> HIDE DEF list, p, y
    <3> QED BY <3>1, <3>2
  <2> HIDE DEF p
  <2>2. /\ y.phase = p /\ y.left = IF p = 4 THEN {} ELSE Left(db, p, s, {})
        /\ p = 2 => y.order = NextOrder(db, t)
    BY <2>1 DEF CallFields
  <2> HIDE DEF y
  <2>3. /\ p \in (x.phase + 1) .. 4
        /\ \A i \in (x.phase + 1) .. 3 : i < p => From(db, Phase[i], s) = {}
    <3>1. CASE later = {}
      <4>1. p = 4
        BY <3>1 DEF p
      <4> QED BY <3>1, <4>1
    <3>2. CASE later # {}
      <4>1. later \subseteq {1, 2, 3}
        OBVIOUS
      <4>2. \E i \in later : \A j \in later : i <= j
        <5> HIDE DEF later
        <5>1. CASE 1 \in later
          BY <5>1, <4>1
        <5>2. CASE 1 \notin later /\ 2 \in later
          BY <5>2, <4>1
        <5>3. CASE 1 \notin later /\ 2 \notin later
          <6>1. later = {3}
            BY <5>3, <4>1, <3>2
          <6> QED BY <6>1
        <5> QED BY <5>1, <5>2, <5>3
      <4>3. p \in later /\ \A j \in later : p <= j
        <5> HIDE DEF later
        <5> QED BY <3>2, <4>2 DEF p
      <4>4. p \in (x.phase + 1) .. 4
        BY <4>3
      <4>5. ASSUME NEW i \in (x.phase + 1) .. 3, i < p PROVE From(db, Phase[i], s) = {}
        <5>1. i \notin later
          <6> HIDE DEF later
          <6>1. p \in {1, 2, 3}
            BY <4>1, <4>3
          <6> QED BY <4>3, <4>5, <6>1
        <5> QED BY <5>1
      <4> QED BY <4>4, <4>5
    <3> QED BY <3>1, <3>2
  <2> HIDE DEF later
  <2>4. \A i \in 1 .. 3 : i < p => From(db, Phase[i], s) = {}
    <3>1. x.phase \in 1 .. 3 => From(db, Phase[x.phase], s) = {}
      <4>1. SUFFICES ASSUME x.phase \in 1 .. 3, NEW e \in From(db, Phase[x.phase], s) PROVE FALSE
        OBVIOUS
      <4>2. [id |-> e, target |-> db.edges[e].target, doc |-> db.edges[e].doc] \in Left(db, x.phase, s, {})
        BY <4>1 DEF Left
      <4> QED BY <4>1, <4>2, <1>2 DEF Walking
    <3>2. ASSUME NEW i \in 1 .. 3, i < p PROVE From(db, Phase[i], s) = {}
      <4>1. CASE i < x.phase
        BY <4>1 DEF Walking
      <4>2. CASE i = x.phase
        BY <4>2, <3>1
      <4>3. CASE i > x.phase
        BY <4>3, <3>2, <2>3
      <4> QED BY <4>1, <4>2, <4>3
    <3> QED BY <3>2
  <2>5. p \in 1 .. 4
    BY <2>3
  <2>6. p = 2 => y.order \in Int /\ \A e \in From(db, "doc-child", t) : db.edges[e].order < y.order
    BY <2>2, NextOrderIsLast
  <2> QED BY <2>2, <2>4, <2>5, <2>6 DEF Walking, y
<1> QED BY <1>1, <1>2

----------------------------------------------------------------------------
(* The steps of a merge.                                                   *)

\* One edge less to go through.
LEMMA LeftWithout ==
  ASSUME NEW D, NEW p, NEW s, NEW gone, NEW e, NEW z,
         z = [id |-> e, target |-> D.edges[e].target, doc |-> D.edges[e].doc]
  PROVE  Left(D, p, s, gone) \ {z} = Left(D, p, s, gone \cup {e})
<1> DEFINE R(f) == [id |-> f, target |-> D.edges[f].target, doc |-> D.edges[f].doc]
<1>1. \A f : R(f) = z <=> f = e
  <2>1. ASSUME NEW f, R(f) = z PROVE f = e
    <3>1. R(f).id = f /\ z.id = e
      OBVIOUS
    <3> HIDE DEF R
    <3> QED BY <3>1, <2>1
  <2> QED BY <2>1
<1>2. Left(D, p, s, gone) = {R(f) : f \in From(D, Phase[p], s) \ gone}
      /\ Left(D, p, s, gone \cup {e}) = {R(f) : f \in From(D, Phase[p], s) \ (gone \cup {e})}
  BY DEF Left
<1> HIDE DEF R
<1> QED BY <1>1, <1>2

LEMMA WalkRemoves ==
  ASSUME NEW D, NEW m, StoreFits(D, m), NEW s, NEW t, s # t, NEW y, y.phase \in 1 .. 3,
         NEW e \in From(D, Phase[y.phase], s), Walking(y, D, s, t, {e}),
         NEW D2, D2.edges = [D.edges EXCEPT ![e] = None]
  PROVE  Walking(y, D2, s, t, {})
<1>0. D.edges \in [EdgeIds -> EdgeRecord \cup {None}] /\ e \in EdgesOf(D) /\ D.edges[e].source = s
  BY DEF StoreFits, From
<1>1. EdgesOf(D2) = EdgesOf(D) \ {e} /\ \A f \in EdgesOf(D2) : D2.edges[f] = D.edges[f]
  BY <1>0 DEF EdgesOf
<1>2. \A k : From(D2, k, t) = From(D, k, t) /\ From(D2, k, s) = From(D, k, s) \ {e}
  BY <1>0, <1>1 DEF From
<1>3. \A k, n : \A f \in From(D2, k, n) : D2.edges[f] = D.edges[f]
  BY <1>1 DEF From
<1>4. Left(D2, y.phase, s, {}) = Left(D, y.phase, s, {e})
  <2>1. From(D2, Phase[y.phase], s) \ {} = From(D, Phase[y.phase], s) \ {e}
    BY <1>2
  <2> QED BY <2>1, <1>3 DEF Left
<1>5. y.phase = 2 => y.order \in Int /\ \A f \in From(D2, "doc-child", t) : D2.edges[f].order < y.order
  BY <1>2, <1>3 DEF Walking
<1>6. \A i \in 1 .. 3 : i < y.phase => From(D2, Phase[i], s) = {}
  BY <1>2 DEF Walking
<1> QED BY <1>4, <1>5, <1>6 DEF Walking

\* The walk y2 after the edge e, a copy of f, has come to the target.
Copied(D, m, s, t, y, f, e, v, y2) ==
  /\ StoreFits(D, m) /\ s # t /\ y.phase \in 1 .. 3 /\ Walking(y, D, s, t, {f})
  /\ e \in EdgeIds /\ D.edges[e] = None /\ v \in EdgeRecord /\ v.source = t
  /\ y.phase = 2 => v.order = y.order
  /\ y2.phase = y.phase /\ y2.left = y.left /\ y2.order = IF y.phase = 2 THEN y.order + 1 ELSE y.order
LEMMA WalkCopies ==
  ASSUME NEW D, NEW m, NEW s, NEW t, NEW y, NEW f, NEW e, NEW v, NEW y2, Copied(D, m, s, t, y, f, e, v, y2),
         NEW D2, D2.edges = [D.edges EXCEPT ![e] = v]
  PROVE  Walking(y2, D2, s, t, {f})
<1> USE DEF Copied
<1>0. D.edges \in [EdgeIds -> EdgeRecord \cup {None}] /\ v # None
  BY EdgeShape DEF StoreFits
<1>1. EdgesOf(D2) = EdgesOf(D) \cup {e} /\ D2.edges[e] = v /\ e \notin EdgesOf(D)
      /\ \A g \in EdgesOf(D) : D2.edges[g] = D.edges[g]
  BY <1>0 DEF EdgesOf
<1>2. \A k : From(D2, k, s) = From(D, k, s) /\ \A g \in From(D2, k, t) : g = e \/ g \in From(D, k, t)
  BY <1>1 DEF From
<1>3. \A k, n : \A g \in From(D, k, n) : D2.edges[g] = D.edges[g]
  BY <1>1 DEF From
<1>4. Left(D2, y.phase, s, {f}) = Left(D, y.phase, s, {f})
  BY <1>2, <1>3 DEF Left
<1>5. y2.phase = 2 => y2.order \in Int /\ \A g \in From(D2, "doc-child", t) : D2.edges[g].order < y2.order
  <2>1. SUFFICES ASSUME y.phase = 2 PROVE y2.order \in Int /\ \A g \in From(D2, "doc-child", t) : D2.edges[g].order < y2.order
    OBVIOUS
  <2>2. y.order \in Int /\ y2.order = y.order + 1 /\ v.order = y.order
    BY <2>1 DEF Walking
  <2>3. ASSUME NEW g \in From(D2, "doc-child", t) PROVE D2.edges[g].order < y2.order
    <3>1. CASE g = e
      BY <3>1, <2>2, <1>1
    <3>2. CASE g \in From(D, "doc-child", t)
      <4>1. D2.edges[g] = D.edges[g] /\ D.edges[g].order < y.order
        BY <3>2, <2>1, <1>3 DEF Walking
      <4>2. D.edges[g].order \in Int
        BY <3>2, EdgesTyped, EdgeShape DEF From
      <4> QED BY <4>1, <4>2, <2>2
    <3> QED BY <3>1, <3>2, <1>2
  <2> QED BY <2>2, <2>3
<1>6. \A i \in 1 .. 3 : i < y2.phase => From(D2, Phase[i], s) = {}
  BY <1>2 DEF Walking
<1> QED BY <1>4, <1>5, <1>6 DEF Walking

\* An edge whose like the target has is removed (edit-ops.ts mergeNode, the
\* branches of its loops that only remove).
LEMMA MergeSkips ==
  ASSUME NEW m, NEW d, StoreFits(d, m), StoreFits(db, m), NEW y, y.phase \in 1 .. 3, Merging(y.o, d, db),
         Walking(y, db, y.o.node, y.o.target, {}), NEW z \in y.left, TargetHas(y, z),
         NEW y2, y2.o = y.o, y2.phase = y.phase, y2.order = y.order, y2.left = y.left \ {z},
         y2.next = "walk", y2.solo = d
  PROVE  Progress(y2, Apply(db, RemoveEdge(z.id)))
<1> DEFINE s == y.o.node
           t == y.o.target
           k == Phase[y.phase]
           D2 == Apply(db, RemoveEdge(z.id))
<1>1. PICK e \in From(db, k, s) : z = [id |-> e, target |-> db.edges[e].target, doc |-> db.edges[e].doc]
  BY DEF Walking, Left
<1>2. e \in EdgesOf(db) /\ db.edges[e].kind = k /\ db.edges[e].source = s /\ ToMove(s, db.edges[e]) /\ s # t
  BY PhaseKinds DEF From, ToMove, Merging
<1>3. Taken(db, t, db.edges[e])
  <2>1. PICK g \in From(db, k, t) : IF y.phase = 3 THEN db.edges[g].doc = z.doc ELSE db.edges[g].target = z.target
    BY DEF TargetHas
  <2>2. Alike(db.edges[g], db.edges[e])
    BY <1>1, <1>2, <2>1, PhaseKinds DEF From, Alike
  <2> QED BY <2>1, <2>2 DEF Taken, From
<1>4. D2.nodes = db.nodes /\ D2.edges = [db.edges EXCEPT ![e] = None]
  <2>1. D2 = [nodes |-> db.nodes, edges |-> [db.edges EXCEPT ![e] = None]]
    <3>1. \A e1 : Apply(db, RemoveEdge(e1)) = [nodes |-> db.nodes, edges |-> [db.edges EXCEPT ![e1] = None]]
      BY Writes
    <3>2. z.id = e
      BY <1>1
    <3> QED BY <3>1, <3>2
  <2> QED BY <2>1
<1> HIDE DEF D2
<1>5. Moving(d, D2, s, t)
  <2>1. Moving(d, db, s, t)
    BY DEF Merging
  <2> HIDE DEF s, t
  <2> QED BY <2>1, <1>2, <1>3, <1>4, MovingRemoves
<1>6. Walking(y2, db, s, t, {e})
  <2>1. y.left = Left(db, y.phase, s, {})
    BY DEF Walking
  <2>2. y2.left = Left(db, y.phase, s, {} \cup {e})
    <3>1. Left(db, y.phase, s, {}) \ {z} = Left(db, y.phase, s, {} \cup {e})
      BY <1>1, LeftWithout
    <3> QED BY <2>1, <3>1
  <2>3. {} \cup {e} = {e}
    OBVIOUS
  <2> QED BY <2>2, <2>3 DEF Walking
<1>7. Walking(y2, D2, s, t, {})
  <2> HIDE DEF s, t
  <2> QED BY <1>1, <1>2, <1>4, <1>6, WalkRemoves DEF k
<1>8. Merging(y2.o, d, D2)
  BY <1>4, <1>5 DEF Merging
<1> QED BY <1>7, <1>8 DEF Progress, D2

\* The edge v that stands for z on the target.
ForTarget(y, z, v) ==
  v = Edge(Phase[y.phase], y.o.target, z.target,
           IF y.phase = 2 THEN y.order ELSE 0, IF y.phase = 3 THEN z.doc ELSE None)
\* An edge the target has no like of is copied, at the end if it has an order
\* (edit-ops.ts mergeNode, the branches that add an edge before they remove one).
LEMMA MergeCopies ==
  ASSUME NEW m, NEW d, StoreFits(d, m), StoreFits(db, m), NEW y, y.phase \in 1 .. 3, Merging(y.o, d, db),
         Walking(y, db, y.o.node, y.o.target, {}), NEW z \in y.left, ~TargetHas(y, z),
         NEW e \in EdgeIds, db.edges[e] = None, d.edges[e] = None,
         NEW v \in EdgeRecord, ForTarget(y, z, v),
         NEW y2, y2.o = y.o, y2.phase = y.phase, y2.left = y.left \ {z},
         y2.order = IF y.phase = 2 THEN y.order + 1 ELSE y.order,
         y2.next = "drop", y2.cur = z.id, y2.solo = d
  PROVE  Progress(y2, Apply(db, PutEdge(e, v)))
<1> DEFINE s == y.o.node
           t == y.o.target
           k == Phase[y.phase]
           D2 == Apply(db, PutEdge(e, v))
<1>1. PICK f \in From(db, k, s) : z = [id |-> f, target |-> db.edges[f].target, doc |-> db.edges[f].doc]
  BY DEF Walking, Left
<1>2. f \in EdgesOf(db) /\ db.edges[f].kind = k /\ db.edges[f].source = s /\ ToMove(s, db.edges[f]) /\ s # t
  BY PhaseKinds DEF From, ToMove, Merging
<1>3. ~Taken(db, t, db.edges[f])
  <2>1. SUFFICES ASSUME NEW g \in EdgesOf(db), db.edges[g].source = t, Alike(db.edges[g], db.edges[f]) PROVE FALSE
    BY DEF Taken
  <2>2. g \in From(db, k, t)
    BY <2>1, <1>2 DEF From, Alike
  <2>3. IF y.phase = 3 THEN db.edges[g].doc = z.doc ELSE db.edges[g].target = z.target
    BY <2>1, <1>1, <1>2, PhaseKinds DEF Alike
  <2> QED BY <2>2, <2>3 DEF TargetHas
<1>4. D2.nodes = db.nodes /\ D2.edges = [db.edges EXCEPT ![e] = v]
  <2>1. D2 = [nodes |-> db.nodes, edges |-> [db.edges EXCEPT ![e] = v]]
    <3>1. \A e1, v1 : Apply(db, PutEdge(e1, v1)) = [nodes |-> db.nodes, edges |-> [db.edges EXCEPT ![e1] = v1]]
      BY Writes
    <3> QED BY <3>1
  <2> QED BY <2>1
<1> HIDE DEF D2
<1>5. /\ v.kind = k /\ v.source = t /\ v.target = z.target
      /\ v.order = IF y.phase = 2 THEN y.order ELSE 0
      /\ v.doc = IF y.phase = 3 THEN z.doc ELSE None
  BY DEF Edge, ForTarget
<1>6. CopyOf(v, db.edges[f])
  BY <1>1, <1>2, <1>5, PhaseKinds DEF CopyOf
<1>7. v.kind = "doc-child" => \A g \in From(db, "doc-child", t) : db.edges[g].order < v.order
  <2>1. v.kind = "doc-child" => y.phase = 2 /\ v.order = y.order
    BY <1>5, PhaseKinds
  <2> QED BY <2>1 DEF Walking
<1>8. /\ Moving(d, D2, s, t)
      /\ EdgesOf(D2) = EdgesOf(db) \cup {e} /\ D2.edges[e] = v
      /\ \A g \in EdgesOf(db) : D2.edges[g] = db.edges[g]
      /\ Taken(D2, t, D2.edges[f])
  <2>1. Moving(d, db, s, t)
    BY DEF Merging
  <2>2. v.source = t
    BY <1>5
  <2>3. D2.edges = [db.edges EXCEPT ![e] = v]
    BY <1>4
  <2> HIDE DEF s, t, k
  <2>4. Copying(d, db, m, s, t, f, e, v)
    BY <2>1, <2>2, <1>2, <1>3, <1>6, <1>7 DEF Copying
  <2>5. HasCopied(d, db, D2, s, t, f, e, v)
    BY <2>3, <2>4, MovingCopies
  <2> QED BY <2>5 DEF HasCopied
<1> DEFINE y1 == [phase |-> y.phase, left |-> y.left \ {z}, order |-> y.order]
<1>9. Walking(y1, db, s, t, {f})
  <2>1. y.left = Left(db, y.phase, s, {})
    BY DEF Walking
  <2>2. y.left \ {z} = Left(db, y.phase, s, {} \cup {f})
    <3>1. Left(db, y.phase, s, {}) \ {z} = Left(db, y.phase, s, {} \cup {f})
      BY <1>1, LeftWithout
    <3> QED BY <2>1, <3>1
  <2>3. {} \cup {f} = {f}
    OBVIOUS
  <2>4. y1.phase = y.phase /\ y1.left = y.left \ {z} /\ y1.order = y.order
    OBVIOUS
  <2> HIDE DEF y1
  <2> QED BY <2>2, <2>3, <2>4 DEF Walking
<1>10. Walking(y2, D2, s, t, {f})
  <2>1. y1.phase = y.phase /\ y1.left = y.left \ {z} /\ y1.order = y.order
    OBVIOUS
  <2>2. /\ y1.phase \in 1 .. 3 /\ y2.phase = y1.phase /\ y2.left = y1.left
        /\ y2.order = IF y1.phase = 2 THEN y1.order + 1 ELSE y1.order
        /\ y1.phase = 2 => v.order = y1.order
    BY <2>1, <1>5
  <2>3. v.source = t
    BY <1>5
  <2>4. D2.edges = [db.edges EXCEPT ![e] = v]
    BY <1>4
  <2> HIDE DEF s, t, y1
  <2>5. Copied(db, m, s, t, y1, f, e, v, y2)
    BY <2>2, <2>3, <1>2, <1>9 DEF Copied
  <2> QED BY <2>4, <2>5, WalkCopies
<1>11. f \in From(D2, k, s)
  BY <1>2, <1>8 DEF From
<1>12. y2.cur = f
  BY <1>1
<1>13. Merging(y2.o, d, D2)
  BY <1>4, <1>8 DEF Merging
<1> QED BY <1>8, <1>10, <1>11, <1>12, <1>13 DEF Progress, D2

\* The edge that was copied is removed.
LEMMA MergeDrops ==
  ASSUME NEW m, NEW d, StoreFits(d, m), StoreFits(db, m), NEW y, y.next = "drop", y.solo = d, Progress(y, db),
         NEW y2, y2.o = y.o, y2.phase = y.phase, y2.left = y.left, y2.order = y.order, y2.next = "walk", y2.solo = d
  PROVE  Progress(y2, Apply(db, RemoveEdge(y.cur)))
<1> DEFINE s == y.o.node
           t == y.o.target
           e == y.cur
           D2 == Apply(db, RemoveEdge(e))
<1>1. /\ Merging(y.o, d, db) /\ Walking(y, db, s, t, {e}) /\ y.phase \in 1 .. 3
      /\ e \in From(db, Phase[y.phase], s) /\ Taken(db, t, db.edges[e])
  BY DEF Progress
<1>2. e \in EdgesOf(db) /\ ToMove(s, db.edges[e]) /\ s # t /\ Moving(d, db, s, t)
  BY <1>1, PhaseKinds DEF From, ToMove, Merging
<1>3. D2.nodes = db.nodes /\ D2.edges = [db.edges EXCEPT ![e] = None]
  <2>1. D2 = [nodes |-> db.nodes, edges |-> [db.edges EXCEPT ![e] = None]]
    <3>1. \A e1 : Apply(db, RemoveEdge(e1)) = [nodes |-> db.nodes, edges |-> [db.edges EXCEPT ![e1] = None]]
      BY Writes
    <3> QED BY <3>1
  <2> QED BY <2>1
<1> HIDE DEF D2
<1>4. Moving(d, D2, s, t)
  <2> HIDE DEF s, t, e
  <2> QED BY <1>1, <1>2, <1>3, MovingRemoves
<1>5. Walking(y2, db, s, t, {e})
  BY <1>1 DEF Walking
<1>6. Walking(y2, D2, s, t, {})
  <2> HIDE DEF s, t, e
  <2> QED BY <1>1, <1>2, <1>3, <1>5, WalkRemoves
<1>7. Merging(y2.o, d, D2)
  BY <1>1, <1>3, <1>4 DEF Merging
<1> QED BY <1>6, <1>7 DEF Progress, D2

\* With nothing left to go through the source is removed.
LEMMA MergeEnds ==
  ASSUME NEW m, NEW d, StoreFits(d, m), StoreFits(db, m), NEW o, Merging(o, d, db),
         o.node \in NodeIds, o.target \in NodeIds, NEW x, x.phase = 4, Walking(x, db, o.node, o.target, {}),
         NEW fresh
  PROVE  WholeEffect(o, fresh, d, Apply(db, RemoveNode(o.node)))
<1>1. \A k \in MovedKinds : From(db, k, o.node) = {}
  <2>1. \A i \in 1 .. 3 : From(db, Phase[i], o.node) = {}
    BY DEF Walking
  <2> QED BY <2>1, PhaseKinds
<1>2. MergeIsWhole(o.node, o.target, d, Apply(db, RemoveNode(o.node)))
  BY <1>1, MovingEnds DEF Merging
<1> QED BY <1>2 DEF WholeEffect, Setters, Merging

----------------------------------------------------------------------------
(* The invariant of an operation alone: it is the only one in progress, it *)
(* has one write on its way at most, and unless that one fails the store   *)
(* stands, before or after it, where Progress says.                        *)

Alone(x, d, q, r) ==
  \/ x.pc = "answered" /\ q = <<>> /\ r = None /\ (x.ok => Progress(x, d))
  \/ x.pc = "sent" /\ q = <<>> /\ (r.ok => Progress(x, d))
  \/ /\ x.pc = "sent" /\ r = None /\ Len(q) = 1
     /\ ~Throws(d, q[1].write) => Progress(x, Apply(d, q[1].write))
SoloInv ==
  /\ MadeEdges(made) /\ StoreFits(db, made)
  /\ \A i \in 1 .. Len(queue) : WriteTyped(queue[i].write, made)
  /\ \A c \in Busy(call) : CallFits(call[c])
  /\ \A c \in Busy(call) : call[c].solo # None =>
       Busy(call) = {c} /\ StoreFits(call[c].solo, made) /\ Alone(call[c], db, queue, running)

\* The call z is y but for what its writes' answers say.
SameCall(z, y) ==
  /\ CallFields \subseteq DOMAIN z
  /\ z.o = y.o /\ z.next = y.next /\ z.fresh = y.fresh /\ z.solo = y.solo /\ z.phase = y.phase
  /\ z.left = y.left /\ z.cur = y.cur /\ z.order = y.order /\ z.read = y.read

LEMMA SameProgress ==
  ASSUME NEW z, NEW y, SameCall(z, y)
  PROVE  /\ \A D : Progress(z, D) = Progress(y, D)
         /\ CallFits(y) => CallFits(z)
         /\ z.solo = y.solo
<1>1. \A D : Progress(z, D) = Progress(y, D)
  BY DEF SameCall, Progress, Walking, Splitting
<1>2. CallFits(y) => CallFits(z)
  BY DEF SameCall, CallFits
<1> QED BY <1>1, <1>2 DEF SameCall

\* Of the table only the pc of call c has changed, to p, and whether it is ok.
PcIs(k, k2, c, p) == SameCall(k2[c], k[c]) /\ k2[c].pc = p /\ \A b \in Callers \ {c} : k2[b] = k[b]
\* The table after a write was handed over, and after it was answered.
LEMMA SentMoves ==
  ASSUME NEW k, IsTable(k), NEW c \in Callers, CallFields \subseteq DOMAIN k[c], NEW p,
         NEW k2, k2 = [k EXCEPT ![c].pc = p]
  PROVE  PcIs(k, k2, c, p)
<1> DEFINE y == k[c]
           y1 == [y EXCEPT !.pc = p]
<1>1. k2 = [k EXCEPT ![c] = y1]
  BY DEF IsTable
<1>2. k2[c] = y1 /\ \A b \in Callers \ {c} : k2[b] = k[b]
  <2> HIDE DEF y1
  <2> QED BY <1>1 DEF IsTable
<1>3. SameCall(y1, y) /\ y1.pc = p
  <2>1. CallFields \subseteq DOMAIN y
    OBVIOUS
  <2> HIDE DEF y
  <2> QED BY <2>1 DEF SameCall, CallFields
<1> HIDE DEF y1
<1> QED BY <1>2, <1>3 DEF PcIs

OkIs(k2, c, ok) == k2[c].ok = ok
LEMMA AnswerMoves ==
  ASSUME NEW k, IsTable(k), NEW c \in Callers, CallFields \subseteq DOMAIN k[c], NEW p, NEW ok,
         NEW k2, k2 = [k EXCEPT ![c].pc = p, ![c].ok = ok]
  PROVE  PcIs(k, k2, c, p) /\ OkIs(k2, c, ok)
<1> DEFINE y == k[c]
           y1 == [y EXCEPT !.pc = p]
           y2 == [y1 EXCEPT !.ok = ok]
<1>1. k2 = [k EXCEPT ![c] = y2]
  BY DEF IsTable
<1>2. k2[c] = y2 /\ \A b \in Callers \ {c} : k2[b] = k[b]
  <2> HIDE DEF y2
  <2> QED BY <1>1 DEF IsTable
<1>3. SameCall(y1, y) /\ y1.pc = p
  <2>1. CallFields \subseteq DOMAIN y
    OBVIOUS
  <2> HIDE DEF y
  <2> QED BY <2>1 DEF SameCall, CallFields
<1>4. SameCall(y2, y) /\ y2.pc = p /\ y2.ok = ok
  <2>1. CallFields \subseteq DOMAIN y1
    BY <1>3 DEF SameCall
  <2> HIDE DEF y1
  <2>2. SameCall(y2, y1) /\ y2.pc = y1.pc /\ y2.ok = ok
    BY <2>1 DEF SameCall, CallFields
  <2> HIDE DEF y2
  <2> QED BY <2>2, <1>3 DEF SameCall
<1> HIDE DEF y2
<1> QED BY <1>2, <1>4 DEF PcIs, OkIs

\* A table k of calls in progress in which call c has been given what it is to
\* do after its write w, of a store that m2 has minted the ids of.
Handing(k, c, w, m2) ==
  /\ IsTable(k) /\ c \in Busy(k) /\ \A b \in Busy(k) : CallFields \subseteq DOMAIN k[b]
  /\ Later(made, m2) /\ WriteTyped(w, m2)
  /\ \A b \in Busy(k) : CallFits(k[b])
  /\ \A b \in Busy(k) : k[b].solo # None =>
       /\ Busy(k) = {c} /\ StoreFits(k[b].solo, m2) /\ queue = <<>> /\ running = None
       /\ ~Throws(db, w) => Progress(k[b], Apply(db, w))

\* Handing a write to the queue keeps the invariant, and no call in progress returns.
LEMMA HandingKeeps ==
  ASSUME IsSeq(queue), SoloInv, NEW k, NEW c, NEW w, Handing(k, c, w, made'), Send(c, k, w), running' = running
  PROVE  SoloInv' /\ \A b \in Busy(k) : call'[b].pc # "idle"
<1>1. c \in Callers /\ IsTable(k) /\ \A b \in Busy(k) : CallFields \subseteq DOMAIN k[b] /\ CallFits(k[b])
  BY DEF Handing, Busy
<1>2. MadeEdges(made') /\ StoreFits(db, made') /\ WriteTyped(w, made')
      /\ \A i \in 1 .. Len(queue) : WriteTyped(queue[i].write, made')
  BY LaterFits DEF Handing, Later, SoloInv
<1>3. CASE running # None
  <2>1. /\ db' = After1(db, w) /\ queue' = queue
        /\ call' = [k EXCEPT ![c].pc = "answered", ![c].ok = ~Throws(db, w)]
    BY <1>3 DEF Send, After1
  <2>2. /\ SameCall(call'[c], k[c]) /\ call'[c].pc = "answered"
        /\ \A b \in Callers \ {c} : call'[b] = k[b]
    <3>1. CallFields \subseteq DOMAIN k[c]
      BY <1>1 DEF Handing
    <3>2. c \in Callers /\ IsTable(k)
      BY <1>1
    <3>3. call' = [k EXCEPT ![c].pc = "answered", ![c].ok = ~Throws(db, w)]
      BY <2>1
    <3>4. PcIs(k, call', c, "answered")
      BY <3>1, <3>2, <3>3, AnswerMoves
    <3> QED BY <3>4 DEF PcIs
  <2>3. Busy(call') = Busy(k) /\ \A b \in Busy(k) : call'[b].pc # "idle"
    BY <1>1, <2>2 DEF Busy, Handing
  <2>4. StoreFits(db', made')
    BY <1>2, <2>1, WriteFitsStore
  <2>5. \A b \in Busy(call') : CallFits(call'[b])
    BY <1>1, <2>2, <2>3, SameProgress DEF Busy
  <2>6. \A b \in Busy(call') : call'[b].solo = None
    <3>1. ASSUME NEW b \in Busy(k) PROVE call'[b].solo = k[b].solo /\ k[b].solo = None
      <4>1. k[b].solo = None
        BY <1>3 DEF Handing
      <4>2. call'[b].solo = k[b].solo
        BY <2>2 DEF SameCall, Busy
      <4> QED BY <4>1, <4>2
    <3> QED BY <3>1, <2>3
  <2> QED BY <1>2, <2>1, <2>3, <2>4, <2>5, <2>6 DEF SoloInv
<1>4. CASE running = None
  <2>1. /\ db' = db /\ queue' = Append(queue, [by |-> c, write |-> w])
        /\ call' = [k EXCEPT ![c].pc = "sent"]
    BY <1>4 DEF Send
  <2>2. /\ SameCall(call'[c], k[c]) /\ call'[c].pc = "sent"
        /\ \A b \in Callers \ {c} : call'[b] = k[b]
    <3>1. CallFields \subseteq DOMAIN k[c]
      BY <1>1 DEF Handing
    <3>2. c \in Callers /\ IsTable(k)
      BY <1>1
    <3>3. call' = [k EXCEPT ![c].pc = "sent"]
      BY <2>1
    <3>4. PcIs(k, call', c, "sent")
      BY <3>1, <3>2, <3>3, SentMoves
    <3> QED BY <3>4 DEF PcIs
  <2>3. Busy(call') = Busy(k) /\ \A b \in Busy(k) : call'[b].pc # "idle"
    BY <1>1, <2>2 DEF Busy, Handing
  <2>4. \A b \in Busy(call') : CallFits(call'[b])
    BY <1>1, <2>2, <2>3, SameProgress DEF Busy
  <2>5. \A i \in 1 .. Len(queue') : WriteTyped(queue'[i].write, made')
    <3>1. PICK S : queue \in Seq(S)
      BY DEF IsSeq
    <3> DEFINE q == [by |-> c, write |-> w]
    <3>2. Len(queue) \in Nat /\ Len(queue') = Len(queue) + 1 /\ queue'[Len(queue) + 1] = q
          /\ \A i \in 1 .. Len(queue) : queue'[i] = queue[i]
      <4>1. queue \in Seq(S \cup {q}) /\ q \in S \cup {q}
        BY <3>1
      <4> HIDE DEF q
      <4> QED BY <4>1, <2>1 DEF q
    <3>3. q.write = w
      OBVIOUS
    <3> HIDE DEF q
    <3> QED BY <3>2, <3>3, <1>2
  <2>6. ASSUME NEW b \in Busy(call'), call'[b].solo # None
        PROVE  Busy(call') = {b} /\ StoreFits(call'[b].solo, made') /\ Alone(call'[b], db', queue', running')
    <3>1. b \in Busy(k) /\ k[b].solo # None /\ k[b].solo = call'[b].solo
      BY <2>2, <2>3, <2>6 DEF SameCall, Busy
    <3>2. /\ Busy(k) = {c} /\ StoreFits(k[b].solo, made') /\ queue = <<>>
          /\ ~Throws(db, w) => Progress(k[b], Apply(db, w))
      BY <3>1 DEF Handing
    <3>3. b = c
      BY <3>1, <3>2
    <3>4. ~Throws(db, w) => Progress(call'[b], Apply(db, w))
      BY <3>2, <3>3, <2>2, SameProgress
    <3>5. Len(queue') = 1 /\ queue'[1].write = w
      BY <3>2, <2>1
    <3>6. Alone(call'[b], db', queue', running')
      <4>1. running' = None /\ call'[b].pc = "sent" /\ db' = db
        BY <1>4, <2>1, <2>2, <3>3
      <4> QED BY <4>1, <3>4, <3>5 DEF Alone
    <3> QED BY <3>1, <3>2, <3>3, <3>6, <2>3
  <2> QED BY <1>2, <2>1, <2>3, <2>4, <2>5, <2>6 DEF SoloInv
<1> QED BY <1>3, <1>4

\* The table of calls in which the call y goes on from call c.
Onward(c, y, w, m2) ==
  /\ CallFields \subseteq DOMAIN y /\ y.pc = "answered" /\ y.solo = call[c].solo /\ CallFits(y)
  /\ Later(made, m2) /\ WriteTyped(w, m2)
  /\ y.solo # None /\ ~Throws(db, w) => Progress(y, Apply(db, w))

LEMMA OnwardIsHanding ==
  ASSUME EditInv, SoloInv, NEW c \in Callers, call[c].pc = "answered", NEW y, NEW w, NEW m2, Onward(c, y, w, m2)
  PROVE  Handing([call EXCEPT ![c] = y], c, w, m2) /\ Busy([call EXCEPT ![c] = y]) = Busy(call)
<1> DEFINE k == [call EXCEPT ![c] = y]
<1>1. IsTable(call) /\ c \in Busy(call) /\ \A b \in Busy(call) : CallFields \subseteq DOMAIN call[b] /\ CallFits(call[b])
  BY DEF EditInv, TableOK, Busy, CallTyped, SoloInv
<1>2. IsTable(k) /\ k[c] = y /\ \A b \in Callers \ {c} : k[b] = call[b]
  BY <1>1 DEF IsTable
<1> HIDE DEF k
<1>3. Busy(k) = Busy(call)
  BY <1>1, <1>2 DEF Busy, Onward
<1>4. \A b \in Busy(k) : CallFields \subseteq DOMAIN k[b] /\ CallFits(k[b])
  BY <1>1, <1>2, <1>3 DEF Busy, Onward
<1>5. ASSUME NEW b \in Busy(k), k[b].solo # None
      PROVE  /\ Busy(k) = {c} /\ StoreFits(k[b].solo, m2) /\ queue = <<>> /\ running = None
             /\ ~Throws(db, w) => Progress(k[b], Apply(db, w))
  <2>1. k[b].solo = call[b].solo /\ b \in Busy(call)
    BY <1>2, <1>3 DEF Busy, Onward
  <2>2. Busy(call) = {b} /\ StoreFits(call[b].solo, made) /\ Alone(call[b], db, queue, running)
    BY <2>1, <1>5 DEF SoloInv
  <2>3. b = c
    BY <2>2, <1>1
  <2>4. queue = <<>> /\ running = None
    BY <2>2, <2>3 DEF Alone
  <2>5. StoreFits(k[b].solo, m2)
    BY <2>1, <2>2, LaterFits DEF Onward
  <2>6. ~Throws(db, w) => Progress(k[b], Apply(db, w))
    BY <1>2, <1>5, <2>3 DEF Onward
  <2> QED BY <2>2, <2>3, <2>4, <2>5, <2>6, <1>3
<1>6. Handing(k, c, w, m2)
  BY <1>1, <1>2, <1>3, <1>4, <1>5 DEF Handing, Onward
<1> QED BY <1>3, <1>6 DEF k

\* No call in progress goes out of the table.
NoneReturns == \A b \in Busy(call) : call'[b].pc # "idle"

\* A stage of an operation keeps the invariant.
LEMMA OnwardKeeps ==
  ASSUME EditInv, SoloInv, NEW c \in Callers, call[c].pc = "answered", NEW y, NEW w, Onward(c, y, w, made'),
         Send(c, [call EXCEPT ![c] = y], w), running' = running
  PROVE  SoloInv' /\ NoneReturns
<1>1. Handing([call EXCEPT ![c] = y], c, w, made') /\ Busy([call EXCEPT ![c] = y]) = Busy(call)
  BY OnwardIsHanding
<1>2. IsSeq(queue)
  BY DEF EditInv, QueueOK
<1>3. SoloInv' /\ \A b \in Busy([call EXCEPT ![c] = y]) : call'[b].pc # "idle"
  BY <1>1, <1>2, HandingKeeps
<1> QED BY <1>1, <1>3 DEF NoneReturns

----------------------------------------------------------------------------
(* The stages of an operation.                                             *)

\* The call y is x, gone on to its next stage.
GoesTo(x, y, next, fresh) ==
  /\ CallFields \subseteq DOMAIN y /\ y.next = next /\ y.fresh = fresh
  /\ y.pc = x.pc /\ y.o = x.o /\ y.solo = x.solo /\ y.phase = x.phase
  /\ y.left = x.left /\ y.cur = x.cur /\ y.order = x.order /\ y.read = x.read

LEMMA NextIs ==
  ASSUME NEW c \in Callers, IsTable(call), CallFields \subseteq DOMAIN call[c], NEW next
  PROVE  \E y : [call EXCEPT ![c].next = next] = [call EXCEPT ![c] = y] /\ GoesTo(call[c], y, next, call[c].fresh)
<1> DEFINE x == call[c]
           y == [x EXCEPT !.next = next]
<1>1. [call EXCEPT ![c].next = next] = [call EXCEPT ![c] = y]
  BY DEF IsTable
<1>2. GoesTo(x, y, next, x.fresh)
  <2>1. CallFields \subseteq DOMAIN x
    OBVIOUS
  <2> HIDE DEF x
  <2> QED BY <2>1 DEF GoesTo, CallFields
<1> QED BY <1>1, <1>2

LEMMA NextFreshIs ==
  ASSUME NEW c \in Callers, IsTable(call), CallFields \subseteq DOMAIN call[c], NEW next, NEW fresh
  PROVE  \E y : /\ [call EXCEPT ![c].next = next, ![c].fresh = fresh] = [call EXCEPT ![c] = y]
                /\ GoesTo(call[c], y, next, fresh)
<1> DEFINE x == call[c]
           z == [x EXCEPT !.next = next]
           y == [z EXCEPT !.fresh = fresh]
<1>1. [call EXCEPT ![c].next = next, ![c].fresh = fresh] = [call EXCEPT ![c] = y]
  BY DEF IsTable
<1>2. GoesTo(x, z, next, x.fresh)
  <2>1. CallFields \subseteq DOMAIN x
    OBVIOUS
  <2> HIDE DEF x
  <2> QED BY <2>1 DEF GoesTo, CallFields
<1>3. GoesTo(z, y, next, fresh)
  <2>1. CallFields \subseteq DOMAIN z /\ z.next = next
    BY <1>2 DEF GoesTo
  <2> HIDE DEF z
  <2> QED BY <2>1 DEF GoesTo, CallFields
<1> HIDE DEF z, y
<1>4. GoesTo(x, y, next, fresh)
  BY <1>2, <1>3 DEF GoesTo
<1> QED BY <1>1, <1>4

\* A call that goes on has the invariant's fields, and stands where Progress
\* says if it is alone.
LEMMA GoesOnAlone ==
  ASSUME EditInv, SoloInv, NEW c \in Callers, NEW label, GoesOn(c, label)
  PROVE  /\ CallTyped(call[c]) /\ call[c].pc = "answered" /\ call[c].next = label
         /\ IsTable(call) /\ call[c].o \in Calls /\ CallFields \subseteq DOMAIN call[c]
         /\ CallFits(call[c])
         /\ call[c].solo # None => StoreFits(call[c].solo, made) /\ Progress(call[c], db)
<1>1. /\ CallTyped(call[c]) /\ call[c].pc = "answered" /\ call[c].next = label
      /\ IsTable(call) /\ call[c].o \in Calls /\ CallFields \subseteq DOMAIN call[c] /\ call[c].ok
  BY GoingOn DEF GoesOn
<1>2. c \in Busy(call)
  BY <1>1 DEF Busy
<1> QED BY <1>1, <1>2 DEF SoloInv, Alone

\* Ids minted by one more edge, or one more node.
LEMMA Minted ==
  ASSUME EditInv, SoloInv
  PROVE  /\ Later(made, made)
         /\ made' = [made EXCEPT !.edges = @ + 1] => Later(made, made') /\ made'.edges = FreshEdgeId
         /\ made' = [made EXCEPT !.nodes = @ + 1] => Later(made, made') /\ made'.nodes = FreshNodeId
<1>1. /\ {"calls", "nodes", "edges"} \subseteq DOMAIN made /\ made.nodes \in Nat /\ made.edges \in Nat
      /\ Cardinality(FirstNodes) <= made.nodes /\ Cardinality(FirstNodes) \in Nat
  BY IdsAssumption DEF SoloInv, MadeEdges, MadeTyped
<1>2. Later(made, made)
  BY <1>1 DEF Later, MadeEdges, MadeTyped
<1>3. ASSUME made' = [made EXCEPT !.edges = @ + 1] PROVE Later(made, made') /\ made'.edges = FreshEdgeId
  <2>1. made'.edges = made.edges + 1 /\ made'.nodes = made.nodes /\ {"calls", "nodes", "edges"} \subseteq DOMAIN made'
    BY <1>1, <1>3
  <2> QED BY <1>1, <2>1 DEF Later, MadeEdges, MadeTyped, FreshEdgeId
<1>4. ASSUME made' = [made EXCEPT !.nodes = @ + 1] PROVE Later(made, made') /\ made'.nodes = FreshNodeId
  <2>1. made'.edges = made.edges /\ made'.nodes = made.nodes + 1 /\ {"calls", "nodes", "edges"} \subseteq DOMAIN made'
    BY <1>1, <1>4
  <2> QED BY <1>1, <2>1 DEF Later, MadeEdges, MadeTyped, FreshNodeId
<1> QED BY <1>2, <1>3, <1>4

\* A new edge between nodes that calls name, or that were minted.
LEMMA EdgeTyped ==
  ASSUME NEW k \in EdgeKinds, NEW s \in NodeIds, NEW t \in NodeIds, NEW i \in Int, NEW x \in Docs \cup {None}
  PROVE  /\ Edge(k, s, t, i, x) \in EdgeRecord
         /\ Edge(k, s, t, i, x).kind = k /\ Edge(k, s, t, i, x).source = s /\ Edge(k, s, t, i, x).target = t
         /\ Edge(k, s, t, i, x).order = i /\ Edge(k, s, t, i, x).doc = x
  BY DEF Edge, EdgeRecord

LEMMA NewEdgeTyped ==
  ASSUME EditInv, SoloInv, FreshEdgeId \in EdgeIds, made' = [made EXCEPT !.edges = @ + 1], NEW v \in EdgeRecord
  PROVE  /\ WriteTyped(PutEdge(FreshEdgeId, v), made')
         /\ \A d : StoreFits(d, made) => d.edges[FreshEdgeId] = None
<1>1. made'.edges = FreshEdgeId
  BY Minted
<1>2. FreshEdgeId \in Int
  BY IdsAssumption
<1>3. WriteTyped(PutEdge(FreshEdgeId, v), made')
  BY <1>1, <1>2 DEF WriteTyped, PutEdge
<1>4. \A d : StoreFits(d, made) => d.edges[FreshEdgeId] = None
  BY FreshIds DEF SoloInv, FreshEdgeId
<1> QED BY <1>3, <1>4

LEMMA LinkAlone == ASSUME EditInv, SoloInv, NEW c \in Callers, Link(c) PROVE SoloInv' /\ NoneReturns
<1> DEFINE v == Edge("parent-child", call[c].o.node, call[c].fresh, 0, None)
           w == PutEdge(FreshEdgeId, v)
           k == [call EXCEPT ![c].next = "end"]
<1>1. Send(c, k, w) /\ running' = running /\ made' = [made EXCEPT !.edges = @ + 1] /\ FreshEdgeId \in EdgeIds
  BY DEF Link, SendNewEdge
<1>2. GoesOn(c, "link")
  BY DEF Link
<1>3. /\ CallTyped(call[c]) /\ call[c].pc = "answered" /\ call[c].next = "link"
      /\ IsTable(call) /\ call[c].o \in Calls /\ CallFields \subseteq DOMAIN call[c] /\ CallFits(call[c])
      /\ call[c].solo # None => StoreFits(call[c].solo, made) /\ Progress(call[c], db)
  BY <1>2, GoesOnAlone
<1>4. PICK y : k = [call EXCEPT ![c] = y] /\ GoesTo(call[c], y, "end", call[c].fresh)
  <2>1. \E y : [call EXCEPT ![c].next = "end"] = [call EXCEPT ![c] = y] /\ GoesTo(call[c], y, "end", call[c].fresh)
    BY <1>3, NextIs
  <2> QED BY <2>1
<1>5. call[c].o.op = "createNode" /\ call[c].o.node \in NodeIds /\ call[c].fresh \in NodeIds
  BY <1>3, IdsAssumption DEF CallFits
<1>6. /\ v \in EdgeRecord /\ v.kind = "parent-child" /\ v.source = call[c].o.node /\ v.target = call[c].fresh
  <2>1. "parent-child" \in EdgeKinds /\ 0 \in Int /\ None \in Docs \cup {None}
    BY DEF EdgeKinds
  <2> QED BY <1>5, <2>1, EdgeTyped
<1> HIDE DEF k, v
<1>7. Later(made, made') /\ WriteTyped(w, made') /\ \A d : StoreFits(d, made) => d.edges[FreshEdgeId] = None
  BY <1>1, <1>6, Minted, NewEdgeTyped
<1>8. ASSUME y.solo # None PROVE Progress(y, Apply(db, w))
  <2> DEFINE x == call[c]
             u == FreshNode(x.o.text, x.o.mark, None)
  <2>1. /\ y.solo = x.solo /\ y.next = "end" /\ y.o = x.o /\ y.fresh = x.fresh
    BY <1>4 DEF GoesTo
  <2>2. StoreFits(x.solo, made) /\ db.edges = x.solo.edges /\ db.nodes = [x.solo.nodes EXCEPT ![x.fresh] = u]
    BY <1>3, <1>8, <2>1 DEF Progress
  <2>3. u \in Node
    <3>1. x.o.text \in Seq(Symbols) /\ x.o.mark \in Fields
      BY <1>3, <1>5, CallShape, NodesAssumption DEF Fields
    <3> QED BY <3>1 DEF FreshNode, Node, Fields
  <2>4. StoreFits(db, made) /\ db.edges[FreshEdgeId] = None
    BY <1>7 DEF SoloInv
  <2> HIDE DEF u
  <2>5. WholeEffect(x.o, x.fresh, x.solo, Apply(db, PutEdge(FreshEdgeId, v)))
    BY <1>1, <1>5, <1>6, <2>2, <2>3, <2>4, LinkWhole
  <2> QED BY <2>1, <2>5 DEF Progress
<1>9. Onward(c, y, w, made')
  BY <1>3, <1>4, <1>7, <1>8 DEF Onward, GoesTo, CallFits
<1> HIDE DEF w
<1> QED BY <1>1, <1>3, <1>4, <1>9, OnwardKeeps

LEMMA SplitTailAlone == ASSUME EditInv, SoloInv, NEW c \in Callers, SplitTail(c) PROVE SoloInv' /\ NoneReturns
<1> DEFINE v == Rested(call[c].o, call[c].read)
           w == PutNode(FreshNodeId, v)
           k == [call EXCEPT ![c].next = "join", ![c].fresh = FreshNodeId]
<1>1. Send(c, k, w) /\ running' = running /\ made' = [made EXCEPT !.nodes = @ + 1] /\ FreshNodeId \in NodeIds
  BY DEF SplitTail, Rested
<1>2. GoesOn(c, "tail")
  BY DEF SplitTail
<1>3. /\ CallTyped(call[c]) /\ call[c].pc = "answered" /\ call[c].next = "tail"
      /\ IsTable(call) /\ call[c].o \in Calls /\ CallFields \subseteq DOMAIN call[c] /\ CallFits(call[c])
      /\ call[c].solo # None => StoreFits(call[c].solo, made) /\ Progress(call[c], db)
  BY <1>2, GoesOnAlone
<1>4. PICK y : k = [call EXCEPT ![c] = y] /\ GoesTo(call[c], y, "join", FreshNodeId)
  <2>1. \E y : /\ [call EXCEPT ![c].next = "join", ![c].fresh = FreshNodeId] = [call EXCEPT ![c] = y]
               /\ GoesTo(call[c], y, "join", FreshNodeId)
    BY <1>3, NextFreshIs
  <2> QED BY <2>1
<1>5. /\ call[c].o.op = "splitNode" /\ call[c].read \in Node /\ call[c].o.at \in {0, 1} /\ call[c].o.node \in FirstNodes
  BY <1>3, CallShape DEF CallTyped, StageOf
<1>6. v \in Node
  <2>1. call[c].read.text \in Seq(Symbols) /\ call[c].read.type \in Fields /\ call[c].read.prop \in Fields
    BY <1>5 DEF Node
  <2>2. After(call[c].read.text, call[c].o.at) \in Seq(Symbols)
    BY <1>5, <2>1, HalvesTyped
  <2> QED BY <2>1, <2>2 DEF Rested, FreshNode, Node, Fields
<1>7. Later(made, made') /\ WriteTyped(w, made')
  <2>1. Later(made, made') /\ made'.nodes = FreshNodeId
    BY <1>1, Minted
  <2>2. FreshNodeId \in Int
    BY <1>1, IdsAssumption
  <2> HIDE DEF v
  <2> QED BY <1>1, <1>6, <2>1, <2>2 DEF WriteTyped, PutNode
<1> HIDE DEF k
<1>8. ASSUME y.solo # None PROVE Progress(y, Apply(db, w))
  <2> DEFINE x == call[c]
             D2 == Apply(db, w)
  <2>1. /\ y.solo = x.solo /\ y.next = "join" /\ y.o = x.o /\ y.fresh = FreshNodeId /\ y.read = x.read
    BY <1>4 DEF GoesTo
  <2>2. Splitting(x) /\ db.edges = x.solo.edges /\ db.nodes = Halved(x.o, x.solo)
    BY <1>3, <1>8, <2>1 DEF Progress
  <2>3. D2.edges = db.edges /\ D2.nodes = [db.nodes EXCEPT ![FreshNodeId] = v]
    <3>1. \A n, u : Apply(db, PutNode(n, u)) = [nodes |-> [db.nodes EXCEPT ![n] = u], edges |-> db.edges]
      BY Writes DEF SoloInv
    <3>2. D2 = [nodes |-> [db.nodes EXCEPT ![FreshNodeId] = v], edges |-> db.edges]
      BY <3>1
    <3> QED BY <3>2
  <2>4. FreshNodeId # x.o.node
    BY <1>5, IdsAssumption DEF SoloInv, MadeEdges, MadeTyped, FreshNodeId
  <2>5. Splitting(y)
    BY <2>1, <2>2 DEF Splitting
  <2> HIDE DEF D2
  <2>6. D2.edges = y.solo.edges /\ D2.nodes = [Halved(y.o, y.solo) EXCEPT ![y.fresh] = Rested(y.o, y.read)]
    BY <2>1, <2>2, <2>3
  <2>7. Progress(y, D2)
    BY <2>1, <2>4, <2>5, <2>6 DEF Progress
  <2> QED BY <2>7 DEF D2
<1>9. Onward(c, y, w, made')
  BY <1>1, <1>3, <1>4, <1>7, <1>8 DEF Onward, GoesTo, CallFits
<1> HIDE DEF w
<1> QED BY <1>1, <1>3, <1>4, <1>9, OnwardKeeps

LEMMA SplitJoinAlone == ASSUME EditInv, SoloInv, NEW c \in Callers, SplitJoin(c) PROVE SoloInv' /\ NoneReturns
<1> DEFINE i == NextOrder(db, call[c].o.node)
           v == Edge("doc-child", call[c].o.node, call[c].fresh, i, None)
           w == PutEdge(FreshEdgeId, v)
           k == [call EXCEPT ![c].next = "end"]
<1>1. Send(c, k, w) /\ running' = running /\ made' = [made EXCEPT !.edges = @ + 1] /\ FreshEdgeId \in EdgeIds
  BY DEF SplitJoin, SendNewEdge
<1>2. GoesOn(c, "join")
  BY DEF SplitJoin
<1>3. /\ CallTyped(call[c]) /\ call[c].pc = "answered" /\ call[c].next = "join"
      /\ IsTable(call) /\ call[c].o \in Calls /\ CallFields \subseteq DOMAIN call[c] /\ CallFits(call[c])
      /\ call[c].solo # None => StoreFits(call[c].solo, made) /\ Progress(call[c], db)
  BY <1>2, GoesOnAlone
<1>4. PICK y : k = [call EXCEPT ![c] = y] /\ GoesTo(call[c], y, "end", call[c].fresh)
  <2>1. \E y : [call EXCEPT ![c].next = "end"] = [call EXCEPT ![c] = y] /\ GoesTo(call[c], y, "end", call[c].fresh)
    BY <1>3, NextIs
  <2> QED BY <2>1
<1>5. call[c].o.op = "splitNode" /\ call[c].o.node \in NodeIds /\ call[c].fresh \in NodeIds
  <2>1. call[c].o.op = "splitNode" /\ call[c].fresh \in NodeIds
    BY <1>3 DEF CallFits, CallTyped, StageOf
  <2>2. call[c].o.node \in FirstNodes
    BY <1>3, <2>1, CallShape
  <2> QED BY <2>1, <2>2, IdsAssumption
<1>6. i \in Int /\ \A f \in From(db, "doc-child", call[c].o.node) : db.edges[f].order < i
  BY NextOrderIsLast DEF SoloInv
<1> HIDE DEF i
<1>7. /\ v \in EdgeRecord /\ v.kind = "doc-child" /\ v.source = call[c].o.node /\ v.target = call[c].fresh
      /\ v.order = i
  BY <1>5, <1>6, EdgeTyped DEF EdgeKinds
<1> HIDE DEF k, v
<1>8. Later(made, made') /\ WriteTyped(w, made') /\ \A d : StoreFits(d, made) => d.edges[FreshEdgeId] = None
  BY <1>1, <1>7, Minted, NewEdgeTyped
<1>9. ASSUME y.solo # None PROVE Progress(y, Apply(db, w))
  <2> DEFINE x == call[c]
  <2>1. /\ y.solo = x.solo /\ y.next = "end" /\ y.o = x.o /\ y.fresh = x.fresh
    BY <1>4 DEF GoesTo
  <2>2. /\ StoreFits(x.solo, made) /\ Splitting(x) /\ x.fresh # x.o.node /\ db.edges = x.solo.edges
        /\ db.nodes = [Halved(x.o, x.solo) EXCEPT ![x.fresh] = Rested(x.o, x.read)]
    BY <1>3, <1>9, <2>1 DEF Progress
  <2>3. StoreFits(db, made) /\ db.edges[FreshEdgeId] = None
    BY <1>8 DEF SoloInv
  <2>4. \A f \in From(db, "doc-child", x.o.node) : db.edges[f].order < v.order
    BY <1>6, <1>7
  <2>5. WholeEffect(x.o, x.fresh, x.solo, Apply(db, PutEdge(FreshEdgeId, v)))
    BY <1>1, <1>5, <1>7, <2>2, <2>3, <2>4, SplitWhole
  <2> QED BY <2>1, <2>5 DEF Progress
<1>10. Onward(c, y, w, made')
  BY <1>3, <1>4, <1>8, <1>9 DEF Onward, GoesTo, CallFits
<1> HIDE DEF w
<1> QED BY <1>1, <1>3, <1>4, <1>10, OnwardKeeps

LEMMA DropOldAlone == ASSUME EditInv, SoloInv, NEW c \in Callers, DropOld(c) PROVE SoloInv' /\ NoneReturns
<1> DEFINE w == RemoveEdge(call[c].cur)
           k == [call EXCEPT ![c].next = "walk"]
<1>1. Send(c, k, w) /\ running' = running /\ made' = made
  BY DEF DropOld
<1>2. GoesOn(c, "drop")
  BY DEF DropOld
<1>3. /\ CallTyped(call[c]) /\ call[c].pc = "answered" /\ call[c].next = "drop"
      /\ IsTable(call) /\ call[c].o \in Calls /\ CallFields \subseteq DOMAIN call[c] /\ CallFits(call[c])
      /\ call[c].solo # None => StoreFits(call[c].solo, made) /\ Progress(call[c], db)
  BY <1>2, GoesOnAlone
<1>4. PICK y : k = [call EXCEPT ![c] = y] /\ GoesTo(call[c], y, "walk", call[c].fresh)
  <2>1. \E y : [call EXCEPT ![c].next = "walk"] = [call EXCEPT ![c] = y] /\ GoesTo(call[c], y, "walk", call[c].fresh)
    BY <1>3, NextIs
  <2> QED BY <2>1
<1> HIDE DEF k
<1>5. Later(made, made') /\ WriteTyped(w, made')
  BY <1>1, Minted DEF WriteTyped, RemoveEdge
<1>6. ASSUME y.solo # None PROVE Progress(y, Apply(db, w))
  <2> DEFINE x == call[c]
  <2>1. /\ y.solo = x.solo /\ y.next = "walk" /\ y.o = x.o /\ y.phase = x.phase /\ y.left = x.left /\ y.order = x.order
    BY <1>4 DEF GoesTo
  <2>2. StoreFits(x.solo, made) /\ StoreFits(db, made) /\ x.next = "drop" /\ Progress(x, db)
    BY <1>3, <1>6, <2>1 DEF SoloInv
  <2> HIDE DEF x
  <2>3. Progress(y, Apply(db, RemoveEdge(x.cur)))
    BY <2>1, <2>2, MergeDrops
  <2> QED BY <2>3 DEF x
<1>7. CallFits(y)
  BY <1>3, <1>4 DEF CallFits, GoesTo
<1>8. Onward(c, y, w, made')
  BY <1>3, <1>4, <1>5, <1>6, <1>7 DEF Onward, GoesTo
<1> HIDE DEF w
<1> QED BY <1>1, <1>3, <1>4, <1>8, OnwardKeeps

\* The next list of a merge is of edges there are, whoever else writes.
LEMMA RestFits ==
  ASSUME EditInv, SoloInv, NEW x, CallFields \subseteq DOMAIN x, CallFits(x), x.next = "walk"
  PROVE  /\ CallFields \subseteq DOMAIN Rest(x)
         /\ Rest(x).o = x.o /\ Rest(x).pc = x.pc /\ Rest(x).next = x.next /\ Rest(x).solo = x.solo
         /\ Rest(x).fresh = x.fresh /\ Rest(x).read = x.read /\ Rest(x).cur = x.cur
         /\ Rest(x).phase \in 0 .. 4 /\ Rest(x).order \in Int /\ Rest(x).left \subseteq Lefts
         /\ Rest(x).left # {} => Rest(x).phase \in 1 .. 3
<1> DEFINE s == x.o.node
           t == x.o.target
           y == Rest(x)
           later == {i \in (x.phase + 1) .. 3 : From(db, Phase[i], s) # {}}
           p == IF later = {} THEN 4 ELSE CHOOSE i \in later : \A j \in later : i <= j
<1>0. x.phase \in 0 .. 3 /\ x.order \in Int /\ x.left \subseteq Lefts /\ (x.phase = 0 => x.left = {})
  BY DEF CallFits
<1>1. CASE x.left # {}
  <2>1. y = x
    BY <1>1 DEF Rest
  <2> QED BY <2>1, <1>0, <1>1
<1>2. CASE x.left = {}
  <2> DEFINE list == {[id |-> e, target |-> db.edges[e].target, doc |-> db.edges[e].doc] : e \in From(db, Phase[p], s)}
  <2>1. y = [x EXCEPT !.phase = p, !.left = IF p = 4 THEN {} ELSE list, !.order = IF p = 2 THEN NextOrder(db, t) ELSE @]
    BY <1>2 DEF Rest
  <2>2. p \in 1 .. 4
    <3>1. later \subseteq {1, 2, 3}
      BY <1>0
    <3>2. later # {} => \E i \in later : \A j \in later : i <= j
      <4> HIDE DEF later
      <4>1. CASE 1 \in later
        BY <4>1, <3>1
      <4>2. CASE 1 \notin later /\ 2 \in later
        BY <4>2, <3>1
      <4>3. CASE 1 \notin later /\ 2 \notin later /\ later # {}
        <5>1. later = {3}
          BY <4>3, <3>1
        <5> QED BY <5>1
      <4> QED BY <4>1, <4>2, <4>3
    <3> HIDE DEF later
    <3>3. later # {} => p \in later
      BY <3>2
    <3>4. later = {} => p = 4
      OBVIOUS
    <3> HIDE DEF p
    <3>5. p \in {1, 2, 3} \/ p = 4
      BY <3>1, <3>3, <3>4, Zenon
    <3> QED BY <3>5
  <2>3. list \subseteq Lefts
    <3>1. ASSUME NEW e \in From(db, Phase[p], s)
          PROVE  [id |-> e, target |-> db.edges[e].target, doc |-> db.edges[e].doc] \in Lefts
      <4>1. e \in EdgeIds /\ db.edges[e] \in EdgeRecord
        BY <3>1, EdgesTyped DEF From, SoloInv
      <4>2. db.edges[e].target \in NodeIds /\ db.edges[e].doc \in Docs \cup {None}
        BY <4>1, EdgeShape
      <4> QED BY <4>1, <4>2 DEF Lefts
    <3> QED BY <3>1
  <2>4. NextOrder(db, t) \in Int
    BY NextOrderIsLast DEF SoloInv
  <2> HIDE DEF list, p
  <2>5. /\ CallFields \subseteq DOMAIN y
        /\ y.o = x.o /\ y.pc = x.pc /\ y.next = x.next /\ y.solo = x.solo
        /\ y.fresh = x.fresh /\ y.read = x.read /\ y.cur = x.cur
        /\ y.phase = p /\ y.left = (IF p = 4 THEN {} ELSE list) /\ y.order = (IF p = 2 THEN NextOrder(db, t) ELSE x.order)
    <3> HIDE DEF y
    <3> QED BY <2>1 DEF CallFields
  <2> QED BY <2>2, <2>3, <2>4, <2>5, <1>0
<1> QED BY <1>1, <1>2

LEMMA RemoveSourceAlone == ASSUME EditInv, SoloInv, NEW c \in Callers, RemoveSource(c) PROVE SoloInv' /\ NoneReturns
<1> DEFINE w == RemoveNode(call[c].o.node)
           k == [call EXCEPT ![c].next = "end"]
<1>1. Send(c, k, w) /\ running' = running /\ made' = made /\ Rest(call[c]).phase = 4
  BY DEF RemoveSource
<1>2. GoesOn(c, "walk")
  BY DEF RemoveSource
<1>3. /\ CallTyped(call[c]) /\ call[c].pc = "answered" /\ call[c].next = "walk"
      /\ IsTable(call) /\ call[c].o \in Calls /\ CallFields \subseteq DOMAIN call[c] /\ CallFits(call[c])
      /\ call[c].solo # None => StoreFits(call[c].solo, made) /\ Progress(call[c], db)
  BY <1>2, GoesOnAlone
<1>4. PICK y : k = [call EXCEPT ![c] = y] /\ GoesTo(call[c], y, "end", call[c].fresh)
  <2>1. \E y : [call EXCEPT ![c].next = "end"] = [call EXCEPT ![c] = y] /\ GoesTo(call[c], y, "end", call[c].fresh)
    BY <1>3, NextIs
  <2> QED BY <2>1
<1> HIDE DEF k
<1>5. Later(made, made') /\ WriteTyped(w, made')
  BY <1>1, Minted DEF WriteTyped, RemoveNode
<1>6. call[c].o.op = "mergeNode" /\ call[c].o.node \in NodeIds /\ call[c].o.target \in NodeIds
  <2>1. call[c].o.op = "mergeNode"
    BY <1>3 DEF CallTyped, StageOf
  <2> QED BY <1>3, <2>1, CallShape, IdsAssumption
<1>7. ASSUME y.solo # None PROVE Progress(y, Apply(db, w))
  <2> DEFINE x == call[c]
  <2>1. /\ y.solo = x.solo /\ y.next = "end" /\ y.o = x.o
    BY <1>4 DEF GoesTo
  <2>2. /\ StoreFits(x.solo, made) /\ StoreFits(db, made) /\ Merging(x.o, x.solo, db)
        /\ Walking(x, db, x.o.node, x.o.target, {})
    BY <1>3, <1>7, <2>1 DEF SoloInv, Progress
  <2>3. x.phase \in 0 .. 3
    BY <1>3 DEF CallFits
  <2>4. Walking(Rest(x), db, x.o.node, x.o.target, {})
    BY <1>3, <2>2, <2>3, RestWalks
  <2> DEFINE r == Rest(x)
  <2>5. r.phase = 4 /\ Walking(r, db, x.o.node, x.o.target, {})
    BY <1>1, <2>4
  <2> HIDE DEF r, x
  <2>6. x.o.node \in NodeIds /\ x.o.target \in NodeIds
    BY <1>6 DEF x
  <2>7. WholeEffect(x.o, y.fresh, x.solo, Apply(db, RemoveNode(x.o.node)))
    BY <2>2, <2>5, <2>6, MergeEnds
  <2>8. Progress(y, Apply(db, RemoveNode(x.o.node)))
    BY <2>1, <2>7 DEF Progress
  <2> QED BY <2>8 DEF x
<1>8. Onward(c, y, w, made')
  BY <1>3, <1>4, <1>5, <1>7 DEF Onward, GoesTo, CallFits
<1> HIDE DEF w
<1> QED BY <1>1, <1>3, <1>4, <1>8, OnwardKeeps

LEMMA ReparentAlone == ASSUME EditInv, SoloInv, NEW c \in Callers, Reparent(c) PROVE SoloInv' /\ NoneReturns
<1> DEFINE x == call[c]
           y == Rest(x)
<1>1. GoesOn(c, "walk")
  BY DEF Reparent
<1>2. /\ CallTyped(x) /\ x.pc = "answered" /\ x.next = "walk"
      /\ IsTable(call) /\ x.o \in Calls /\ CallFields \subseteq DOMAIN x /\ CallFits(x)
      /\ x.solo # None => StoreFits(x.solo, made) /\ Progress(x, db)
  BY <1>1, GoesOnAlone
<1>3. PICK z \in y.left :
        LET rest == [y EXCEPT !.left = @ \ {z}]
        IN IF TargetHas(y, z)
           THEN /\ Send(c, [call EXCEPT ![c] = rest], RemoveEdge(z.id))
                /\ UNCHANGED <<running, made, acked>>
           ELSE SendNewEdge(c, [call EXCEPT ![c] = [rest EXCEPT !.next = "drop", !.cur = z.id,
                                                       !.order = IF y.phase = 2 THEN @ + 1 ELSE @]],
                            Edge(Phase[y.phase], y.o.target, z.target,
                                 IF y.phase = 2 THEN y.order ELSE 0, IF y.phase = 3 THEN z.doc ELSE None))
  BY DEF Reparent
<1> HIDE DEF x
<1>4. /\ CallFields \subseteq DOMAIN y
      /\ y.o = x.o /\ y.pc = x.pc /\ y.next = x.next /\ y.solo = x.solo
      /\ y.phase \in 0 .. 4 /\ y.order \in Int /\ y.left \subseteq Lefts
      /\ y.left # {} => y.phase \in 1 .. 3
  BY <1>2, RestFits
<1>5. x.o.op = "mergeNode" /\ x.o.target \in NodeIds
  <2>1. x.o.op = "mergeNode"
    BY <1>2 DEF CallTyped, StageOf
  <2> QED BY <1>2, <2>1, CallShape, IdsAssumption
<1>6. x.solo # None => /\ StoreFits(x.solo, made) /\ StoreFits(db, made) /\ Merging(y.o, x.solo, db)
                       /\ Walking(y, db, y.o.node, y.o.target, {})
  <2>1. SUFFICES ASSUME x.solo # None
        PROVE  /\ StoreFits(x.solo, made) /\ StoreFits(db, made) /\ Merging(y.o, x.solo, db)
               /\ Walking(y, db, y.o.node, y.o.target, {})
    OBVIOUS
  <2>2. /\ StoreFits(x.solo, made) /\ StoreFits(db, made) /\ Merging(x.o, x.solo, db)
        /\ Walking(x, db, x.o.node, x.o.target, {})
    BY <1>2, <2>1 DEF SoloInv, Progress
  <2>3. x.phase \in 0 .. 3
    BY <1>2 DEF CallFits
  <2>4. Walking(Rest(x), db, x.o.node, x.o.target, {})
    BY <1>2, <2>2, <2>3, RestWalks
  <2> HIDE DEF y
  <2> QED BY <2>2, <2>4, <1>4 DEF y
<1> HIDE DEF y
<1>7. y.phase \in 1 .. 3 /\ z \in Lefts /\ z.id \in EdgeIds /\ z.target \in NodeIds /\ z.doc \in Docs \cup {None}
  BY <1>4 DEF Lefts
<1> DEFINE rest == [y EXCEPT !.left = @ \ {z}]
<1>8. /\ CallFields \subseteq DOMAIN rest /\ rest.left = y.left \ {z}
      /\ rest.o = y.o /\ rest.pc = y.pc /\ rest.next = y.next /\ rest.solo = y.solo
      /\ rest.phase = y.phase /\ rest.order = y.order
  BY <1>4 DEF CallFields
<1>9. CASE TargetHas(y, z)
  <2> DEFINE w == RemoveEdge(z.id)
  <2>1. Send(c, [call EXCEPT ![c] = rest], w) /\ running' = running /\ made' = made
    BY <1>3, <1>9
  <2> HIDE DEF rest
  <2>2. Later(made, made') /\ WriteTyped(w, made')
    BY <2>1, Minted DEF WriteTyped, RemoveEdge
  <2>3. ASSUME rest.solo # None PROVE Progress(rest, Apply(db, w))
    <3>1. /\ StoreFits(x.solo, made) /\ StoreFits(db, made) /\ Merging(y.o, x.solo, db)
          /\ Walking(y, db, y.o.node, y.o.target, {})
      BY <1>4, <1>6, <1>8, <2>3
    <3>2. rest.next = "walk" /\ rest.solo = x.solo
      BY <1>2, <1>4, <1>8
    <3> QED BY <3>1, <3>2, <1>7, <1>8, <1>9, MergeSkips
  <2>4. CallFits(rest)
    BY <1>2, <1>4, <1>7, <1>8 DEF CallFits
  <2>5. Onward(c, rest, w, made')
    BY <1>2, <1>4, <1>8, <2>2, <2>3, <2>4 DEF Onward, x
  <2> HIDE DEF w
  <2>6. call[c].pc = "answered"
    BY <1>2 DEF x
  <2> QED BY <2>1, <2>5, <2>6, OnwardKeeps
<1>10. CASE ~TargetHas(y, z)
  <2> DEFINE i == IF y.phase = 2 THEN y.order ELSE 0
             j == IF y.phase = 3 THEN z.doc ELSE None
             v == Edge(Phase[y.phase], y.o.target, z.target, i, j)
             w == PutEdge(FreshEdgeId, v)
             u == [rest EXCEPT !.next = "drop", !.cur = z.id, !.order = IF y.phase = 2 THEN @ + 1 ELSE @]
  <2>1. /\ Send(c, [call EXCEPT ![c] = u], w) /\ running' = running /\ made' = [made EXCEPT !.edges = @ + 1]
        /\ FreshEdgeId \in EdgeIds
    BY <1>3, <1>10 DEF SendNewEdge
  <2>2. /\ CallFields \subseteq DOMAIN u /\ u.left = y.left \ {z} /\ u.next = "drop" /\ u.cur = z.id
        /\ u.o = y.o /\ u.pc = y.pc /\ u.solo = y.solo
        /\ u.phase = y.phase /\ u.order = IF y.phase = 2 THEN y.order + 1 ELSE y.order
    <3> HIDE DEF rest
    <3> QED BY <1>8 DEF CallFields
  <2> HIDE DEF u, rest
  <2>3. v \in EdgeRecord /\ ForTarget(y, z, v)
    <3>1. Phase[y.phase] \in EdgeKinds
      BY <1>7, PhaseKinds DEF MovedKinds, EdgeKinds
    <3>2. i \in Int /\ j \in Docs \cup {None}
      BY <1>4, <1>7
    <3>3. y.o.target \in NodeIds
      BY <1>4, <1>5
    <3>4. ForTarget(y, z, v)
      BY DEF ForTarget
    <3> HIDE DEF i, j
    <3> QED BY <1>7, <3>1, <3>2, <3>3, <3>4, EdgeTyped
  <2> HIDE DEF v
  <2>4. Later(made, made') /\ WriteTyped(w, made') /\ \A d : StoreFits(d, made) => d.edges[FreshEdgeId] = None
    BY <2>1, <2>3, Minted, NewEdgeTyped
  <2>5. ASSUME u.solo # None PROVE Progress(u, Apply(db, w))
    <3>1. /\ StoreFits(x.solo, made) /\ StoreFits(db, made) /\ Merging(y.o, x.solo, db)
          /\ Walking(y, db, y.o.node, y.o.target, {})
      BY <1>4, <1>6, <2>2, <2>5
    <3>2. u.solo = x.solo /\ db.edges[FreshEdgeId] = None /\ x.solo.edges[FreshEdgeId] = None
      BY <1>4, <2>2, <2>4, <3>1
    <3>3. Progress(u, Apply(db, PutEdge(FreshEdgeId, v)))
      BY <1>7, <1>10, <2>1, <2>2, <2>3, <3>1, <3>2, MergeCopies
    <3> QED BY <3>3
  <2>6. CallFits(u)
    <3>1. u.order \in Int
      BY <1>4, <2>2
    <3>2. u.phase \in 0 .. 3 /\ u.phase # 0 /\ u.left \subseteq Lefts /\ u.next = "drop"
      BY <1>4, <1>7, <2>2
    <3> QED BY <3>1, <3>2 DEF CallFits
  <2>7. Onward(c, u, w, made')
    BY <1>2, <1>4, <2>2, <2>4, <2>5, <2>6 DEF Onward, x
  <2> HIDE DEF w
  <2>8. call[c].pc = "answered"
    BY <1>2 DEF x
  <2> QED BY <2>1, <2>7, <2>8, OnwardKeeps
<1> QED BY <1>9, <1>10

----------------------------------------------------------------------------
(* The steps of the queue and the return of an operation.                  *)

LEMMA RunWriteAlone == ASSUME EditInv, SoloInv, RunWrite PROVE SoloInv' /\ NoneReturns
<1> DEFINE w == Head(queue).write
<1>1. PICK S : queue \in Seq(S)
  BY DEF EditInv, QueueOK, IsSeq
<1>2. /\ Len(queue) \in Nat \ {0} /\ Head(queue) = queue[1]
      /\ queue' \in Seq(S) /\ Len(queue') = Len(queue) - 1
      /\ \A i \in 1 .. Len(queue') : queue'[i] = queue[i + 1]
  BY <1>1 DEF RunWrite
<1>3. /\ db' = After1(db, w) /\ running'.ok = ~Throws(db, w) /\ running = None
      /\ call' = call /\ made' = made
  BY DEF RunWrite, After1
<1>4. w = queue[1].write
  BY <1>2
<1>5. WriteTyped(w, made)
  BY <1>2, <1>4 DEF SoloInv
<1> HIDE DEF w
<1>6. StoreFits(db', made')
  BY <1>3, <1>5, WriteFitsStore DEF SoloInv
<1>7. \A i \in 1 .. Len(queue') : WriteTyped(queue'[i].write, made')
  <2>1. ASSUME NEW i \in 1 .. Len(queue') PROVE WriteTyped(queue'[i].write, made')
    <3>1. i + 1 \in 1 .. Len(queue) /\ queue'[i] = queue[i + 1]
      BY <1>2
    <3> QED BY <3>1, <1>3 DEF SoloInv
  <2> QED BY <2>1
<1>8. ASSUME NEW c \in Busy(call), call[c].solo # None PROVE Alone(call[c], db', queue', running')
  <2>1. Alone(call[c], db, queue, running)
    BY <1>8 DEF SoloInv
  <2>2. queue # <<>>
    BY DEF RunWrite
  <2>3. /\ call[c].pc = "sent" /\ Len(queue) = 1
        /\ ~Throws(db, queue[1].write) => Progress(call[c], Apply(db, queue[1].write))
    BY <2>1, <2>2 DEF Alone
  <2>4. queue' = <<>>
    BY <1>2, <2>3
  <2>5. running'.ok => Progress(call[c], db')
    BY <1>3, <1>4, <2>3 DEF After1
  <2> QED BY <2>3, <2>4, <2>5 DEF Alone
<1> QED BY <1>3, <1>6, <1>7, <1>8 DEF SoloInv, NoneReturns, Busy

LEMMA SettleAlone == ASSUME EditInv, SoloInv, Settle PROVE SoloInv' /\ NoneReturns
<1> DEFINE a == running.by
<1>1. /\ running # None /\ running' = None /\ db' = db /\ queue' = queue /\ made' = made
      /\ call' = [call EXCEPT ![a].pc = "answered", ![a].ok = running.ok]
  BY DEF Settle
<1>2. a \in Busy(call) /\ call[a].pc = "sent" /\ IsTable(call) /\ \A b \in Busy(call) : CallFields \subseteq DOMAIN call[b]
  BY <1>1 DEF EditInv, QueueOK, Waits, TableOK, CallTyped
<1> HIDE DEF a
<1>3. PcIs(call, call', a, "answered") /\ call'[a].ok = running.ok
  <2>1. a \in Callers /\ IsTable(call) /\ CallFields \subseteq DOMAIN call[a]
    BY <1>2 DEF Busy
  <2>2. call' = [call EXCEPT ![a].pc = "answered", ![a].ok = running.ok]
    BY <1>1
  <2>3. PcIs(call, call', a, "answered") /\ OkIs(call', a, running.ok)
    BY <2>1, <2>2, AnswerMoves
  <2> QED BY <2>3 DEF OkIs
<1>4. SameCall(call'[a], call[a]) /\ call'[a].pc = "answered" /\ \A b \in Callers \ {a} : call'[b] = call[b]
  BY <1>3 DEF PcIs
<1>5. Busy(call') = Busy(call) /\ \A b \in Busy(call) : call'[b].pc # "idle"
  BY <1>2, <1>4 DEF Busy
<1>6. \A b \in Busy(call') : CallFits(call'[b])
  BY <1>4, <1>5, SameProgress DEF SoloInv, Busy
<1>7. ASSUME NEW b \in Busy(call'), call'[b].solo # None
      PROVE  Busy(call') = {b} /\ StoreFits(call'[b].solo, made') /\ Alone(call'[b], db', queue', running')
  <2>1. b \in Busy(call) /\ call'[b].solo = call[b].solo
    BY <1>4, <1>5 DEF SameCall, Busy
  <2>2. Busy(call) = {b} /\ StoreFits(call[b].solo, made) /\ Alone(call[b], db, queue, running)
    BY <2>1, <1>7 DEF SoloInv
  <2>3. b = a
    BY <2>2, <1>2
  <2>4. queue = <<>> /\ (running.ok => Progress(call[b], db))
    BY <2>2, <1>1, <1>2, <2>3 DEF Alone
  <2>5. running.ok => Progress(call'[b], db)
    BY <2>3, <2>4, <1>4, SameProgress
  <2>6. Alone(call'[b], db', queue', running')
    BY <1>1, <1>3, <1>4, <2>3, <2>4, <2>5 DEF Alone
  <2> QED BY <1>1, <1>5, <2>1, <2>2, <2>6
<1>8. MadeEdges(made') /\ StoreFits(db', made') /\ \A i \in 1 .. Len(queue') : WriteTyped(queue'[i].write, made')
  BY <1>1 DEF SoloInv
<1> QED BY <1>5, <1>6, <1>7, <1>8 DEF SoloInv, NoneReturns

LEMMA EndAlone ==
  ASSUME EditInv, SoloInv, NEW c \in Callers, End(c)
  PROVE  /\ SoloInv'
         /\ \A b \in Busy(call) \ {c} : call'[b].pc # "idle"
         /\ call[c].ok /\ call[c].solo # None => WholeEffect(call[c].o, call[c].fresh, call[c].solo, db')
<1>1. /\ call[c].pc = "answered" /\ (~call[c].ok \/ call[c].next = "end")
      /\ db' = db /\ queue' = queue /\ running' = running /\ made' = made
      /\ call' = [call EXCEPT ![c] = Idle]
  BY DEF End
<1>2. c \in Busy(call) /\ IsTable(call)
  BY <1>1 DEF Busy, EditInv, TableOK
<1>3. call'[c] = Idle /\ \A b \in Callers \ {c} : call'[b] = call[b]
  BY <1>1, <1>2 DEF IsTable
<1>4. Busy(call') = Busy(call) \ {c}
  BY <1>3 DEF Busy, Idle
<1>5. \A b \in Busy(call') : call'[b] = call[b] /\ b \in Busy(call) /\ b # c
  BY <1>3, <1>4 DEF Busy
<1>6. \A b \in Busy(call') : call'[b].solo = None
  BY <1>2, <1>5 DEF SoloInv
<1>7. SoloInv'
  BY <1>1, <1>5, <1>6 DEF SoloInv
<1>8. call[c].ok /\ call[c].solo # None => WholeEffect(call[c].o, call[c].fresh, call[c].solo, db')
  <2>1. SUFFICES ASSUME call[c].ok, call[c].solo # None PROVE Progress(call[c], db) /\ call[c].next = "end"
    BY <1>1 DEF Progress
  <2>2. Alone(call[c], db, queue, running)
    BY <2>1, <1>2 DEF SoloInv
  <2> QED BY <2>1, <2>2, <1>1 DEF Alone
<1>9. \A b \in Busy(call) \ {c} : call'[b].pc # "idle"
  BY <1>3 DEF Busy
<1> QED BY <1>7, <1>8, <1>9

----------------------------------------------------------------------------
(* Calling an operation.                                                   *)

\* x is the call o as it begins.
Beginning(o, x) ==
  /\ CallFields \subseteq DOMAIN x /\ x.o = o /\ x.next = FirstStage(o) /\ x.fresh = FreshNodeId /\ x.read = Read(o)
  /\ x.phase = 0 /\ x.left = {} /\ x.order = 0
\* An operation that passes its checks, the ids it may mint being there.
Passes(o) ==
  /\ o \in Calls /\ StoreFits(db, made) /\ ~Refused(o, db)
  /\ o.op = "createNode" => FreshNodeId \in NodeIds
  /\ o.op = "setEdge" /\ o.edge = None => FreshEdgeId \in EdgeIds

\* The nodes and edges an operation that passes its checks finds.
LEMMA PassesFinds ==
  ASSUME NEW o, Passes(o)
  PROVE  /\ o.op \in Setters \cup {"deleteNode", "splitNode", "mergeNode"} =>
              o.node \in FirstNodes /\ o.node \in NodeIds /\ Present(db, o.node) /\ db.nodes[o.node] \in Node
         /\ o.op = "mergeNode" => /\ o.target \in NodeIds /\ Present(db, o.target) /\ o.node # o.target
                                  /\ ~MidChain(db, o.node)
         /\ o.op = "splitNode" => o.at \in 1 .. (Len(db.nodes[o.node].text) - 1)
         /\ o.op = "createNode" => o.node = None \/ o.node \in FirstNodes
         /\ o.op = "setEdge" => o.edge = None \/ (o.edge \in EdgeIds /\ db.edges[o.edge] # None)
<1>1. db.nodes \in [NodeIds -> Node \cup {None}]
  BY DEF Passes, StoreFits
<1>2. o.op \in Setters => o.node \in FirstNodes /\ Present(db, o.node)
  BY CallShape DEF Passes, Refused, Setters
<1>3. o.op = "deleteNode" => o.node \in FirstNodes /\ Present(db, o.node)
  BY CallShape DEF Passes, Refused, Setters
<1>4. o.op = "splitNode" => /\ o.node \in FirstNodes /\ Present(db, o.node)
                            /\ o.at \in 1 .. (Len(db.nodes[o.node].text) - 1)
  BY CallShape DEF Passes, Refused, Setters
<1>5. o.op = "mergeNode" => /\ o.node \in FirstNodes /\ Present(db, o.node)
                            /\ o.target \in FirstNodes /\ Present(db, o.target) /\ o.node # o.target
                            /\ ~MidChain(db, o.node)
  BY CallShape DEF Passes, Refused, Setters
<1>6. o.op = "createNode" => o.node = None \/ o.node \in FirstNodes
  BY EdgesAssumption DEF Passes, Calls
<1>7. o.op = "setEdge" => o.edge = None \/ (o.edge \in EdgeIds /\ db.edges[o.edge] # None)
  <2>1. o.op = "setEdge" => o.edge \in EdgeIds \cup {None}
    BY EdgesAssumption DEF Passes, Calls
  <2> QED BY <2>1 DEF Passes, Refused, Setters
<1>8. \A n \in FirstNodes : n \in NodeIds /\ (Present(db, n) => db.nodes[n] \in Node)
  BY <1>1, IdsAssumption DEF Present
<1> QED BY <1>2, <1>3, <1>4, <1>5, <1>6, <1>7, <1>8

\* The first writes of the operations (edit-ops.ts, each operation).
LEMMA FirstSetter ==
  ASSUME NEW o, Passes(o), NEW x, Beginning(o, x), x.solo = db, o.op \in Setters
  PROVE  Progress(x, Apply(db, FirstWrite(o)))
<1> DEFINE v == SetterRecord(o, db.nodes[o.node])
<1>1. FirstWrite(o) = PutNode(o.node, v) /\ FirstStage(o) = "end"
  BY DEF FirstWrite, FirstStage, Setters
<1>2. o.node \in NodeIds /\ db = [nodes |-> db.nodes, edges |-> db.edges]
  BY PassesFinds DEF Passes, StoreFits
<1>3. Apply(db, PutNode(o.node, v)) = [nodes |-> [db.nodes EXCEPT ![o.node] = v], edges |-> db.edges]
  <2>1. \A n1, v1 : Apply(db, PutNode(n1, v1)) = [nodes |-> [db.nodes EXCEPT ![n1] = v1], edges |-> db.edges]
    BY Writes DEF Passes
  <2> QED BY <2>1
<1>4. [db EXCEPT !.nodes[o.node] = SetterRecord(o, @)] = [nodes |-> [db.nodes EXCEPT ![o.node] = v], edges |-> db.edges]
  BY <1>2
<1> HIDE DEF v
<1>5. WholeEffect(o, x.fresh, db, Apply(db, FirstWrite(o)))
  BY <1>1, <1>3, <1>4 DEF WholeEffect, Setters
<1> QED BY <1>1, <1>5 DEF Progress, Beginning

LEMMA FirstDelete ==
  ASSUME NEW o, Passes(o), NEW x, Beginning(o, x), x.solo = db, o.op = "deleteNode"
  PROVE  Progress(x, Apply(db, FirstWrite(o)))
<1> DEFINE D == Apply(db, RemoveNode(o.node))
<1>1. FirstWrite(o) = RemoveNode(o.node) /\ FirstStage(o) = "end"
  BY DEF FirstWrite, FirstStage, Setters
<1>2. Present(db, o.node) /\ db.edges \in [EdgeIds -> EdgeRecord \cup {None}]
  BY PassesFinds DEF Passes, StoreFits
<1>3. D = [nodes |-> [db.nodes EXCEPT ![o.node] = None],
           edges |-> [e \in EdgeIds |-> IF e \in Touching(db, o.node) THEN None ELSE db.edges[e]]]
  <2>1. \A n : Present(db, n) =>
          Apply(db, RemoveNode(n)) = [nodes |-> [db.nodes EXCEPT ![n] = None],
                                      edges |-> [e \in EdgeIds |-> IF e \in Touching(db, n) THEN None ELSE db.edges[e]]]
    BY Writes DEF Passes
  <2> QED BY <1>2, <2>1
<1> HIDE DEF D
<1>4. D.nodes = [db.nodes EXCEPT ![o.node] = None]
      /\ \A e \in EdgeIds : D.edges[e] = IF e \in Touching(db, o.node) THEN None ELSE db.edges[e]
  BY <1>3
<1>5. EdgesOf(D) = EdgesOf(db) \ Touching(db, o.node)
  BY <1>4 DEF EdgesOf
<1>6. SameApartFrom(db, D, {o.node})
  BY <1>4 DEF SameApartFrom, Touching, EdgesOf
<1>7. WholeEffect(o, x.fresh, db, D)
  BY <1>4, <1>5, <1>6 DEF WholeEffect, Setters
<1> QED BY <1>1, <1>7 DEF Progress, Beginning, D

LEMMA FirstCreate ==
  ASSUME NEW o, Passes(o), NEW x, Beginning(o, x), x.solo = db, o.op = "createNode"
  PROVE  Progress(x, Apply(db, FirstWrite(o)))
<1> DEFINE f == FreshNodeId
           v == FreshNode(o.text, o.mark, None)
           D == Apply(db, PutNode(f, v))
<1>1. FirstWrite(o) = PutNode(f, v) /\ FirstStage(o) = IF o.node # None THEN "link" ELSE "end"
  BY DEF FirstWrite, FirstStage, Setters
<1>2. f \in NodeIds /\ v # None /\ db.nodes \in [NodeIds -> Node \cup {None}]
  <2>1. v \in Node
    BY CallShape, NodesAssumption DEF Passes, FreshNode, Node, Fields
  <2> HIDE DEF v
  <2> QED BY <2>1, NodesAssumption DEF Passes, StoreFits
<1>3. D = [nodes |-> [db.nodes EXCEPT ![f] = v], edges |-> db.edges]
  <2>1. \A n1, v1 : Apply(db, PutNode(n1, v1)) = [nodes |-> [db.nodes EXCEPT ![n1] = v1], edges |-> db.edges]
    BY Writes DEF Passes
  <2> QED BY <2>1
<1> HIDE DEF D
<1>4. D.nodes = [db.nodes EXCEPT ![f] = v] /\ D.edges = db.edges
  BY <1>3
<1>5. CASE o.node # None
  <2>1. x.next = "link" /\ x.o = o /\ x.fresh = f
    BY <1>1, <1>5 DEF Beginning
  <2> QED BY <1>1, <1>4, <2>1 DEF Progress, D
<1>6. CASE o.node = None
  <2>1. x.next = "end" /\ x.o = o /\ x.fresh = f
    BY <1>1, <1>6 DEF Beginning
  <2> HIDE DEF v, f
  <2>2. {n \in NodeIds : Present(D, n)} = {n \in NodeIds : Present(db, n)} \cup {f}
    BY <1>2, <1>4 DEF Present
  <2>3. SameApartFrom(db, D, {})
    BY <1>4 DEF SameApartFrom
  <2>4. WholeEffect(o, f, db, D)
    BY <1>6, <2>2, <2>3 DEF WholeEffect, Setters
  <2> QED BY <1>1, <2>1, <2>4 DEF Progress, D
<1> QED BY <1>5, <1>6

LEMMA FirstSplit ==
  ASSUME NEW o, Passes(o), NEW x, Beginning(o, x), x.solo = db, o.op = "splitNode"
  PROVE  Progress(x, Apply(db, FirstWrite(o)))
<1> DEFINE n == o.node
           v == [db.nodes[n] EXCEPT !.text = Before(@, o.at)]
           D == Apply(db, PutNode(n, v))
<1>1. FirstWrite(o) = PutNode(n, v) /\ FirstStage(o) = "tail"
  BY DEF FirstWrite, FirstStage, Setters
<1>2. /\ n \in NodeIds /\ n # None /\ db.nodes[n] \in Node /\ db.nodes \in [NodeIds -> Node \cup {None}]
      /\ o.at \in 1 .. (Len(db.nodes[n].text) - 1)
  BY PassesFinds, MarkAssumption DEF Passes, StoreFits
<1>3. D = [nodes |-> [db.nodes EXCEPT ![n] = v], edges |-> db.edges]
  <2>1. \A n1, v1 : Apply(db, PutNode(n1, v1)) = [nodes |-> [db.nodes EXCEPT ![n1] = v1], edges |-> db.edges]
    BY Writes DEF Passes
  <2> QED BY <2>1
<1> HIDE DEF D
<1>4. D.nodes = Halved(o, db) /\ D.edges = db.edges
  BY <1>3 DEF Halved
<1>5. x.next = "tail" /\ x.o = o /\ x.read = db.nodes[n]
  BY <1>1, <1>2 DEF Beginning, Read
<1>6. Splitting(x)
  BY <1>2, <1>5 DEF Splitting
<1> HIDE DEF v
<1>7. Progress(x, D)
  BY <1>4, <1>5, <1>6 DEF Progress
<1> QED BY <1>1, <1>7 DEF D

LEMMA FirstMerge ==
  ASSUME NEW o, Passes(o), NEW x, Beginning(o, x), x.solo = db, o.op = "mergeNode"
  PROVE  Progress(x, Apply(db, FirstWrite(o)))
<1> DEFINE v == [db.nodes[o.target] EXCEPT !.text = @ \o db.nodes[o.node].text]
           D == Apply(db, PutNode(o.target, v))
<1>1. FirstWrite(o) = PutNode(o.target, v) /\ FirstStage(o) = "walk"
  BY DEF FirstWrite, FirstStage, Setters
<1>2. /\ o.node # o.target /\ Present(db, o.node) /\ ~MidChain(db, o.node)
      /\ o.target \in NodeIds /\ db.nodes \in [NodeIds -> Node \cup {None}]
  BY PassesFinds DEF Passes, StoreFits
<1>3. D = [nodes |-> [db.nodes EXCEPT ![o.target] = v], edges |-> db.edges]
  <2>1. \A n1, v1 : Apply(db, PutNode(n1, v1)) = [nodes |-> [db.nodes EXCEPT ![n1] = v1], edges |-> db.edges]
    BY Writes DEF Passes
  <2> HIDE DEF v
  <2> QED BY <2>1
<1> HIDE DEF D
<1>4. D.nodes = [db.nodes EXCEPT ![o.target].text = @ \o db.nodes[o.node].text] /\ D.edges = db.edges
  BY <1>3
<1> HIDE DEF v
<1>5. x.next = "walk" /\ x.o = o /\ x.phase = 0 /\ x.left = {}
  BY <1>1 DEF Beginning
<1>6. EdgesOf(D) = EdgesOf(db)
  BY <1>4 DEF EdgesOf
<1>7. Moving(db, D, o.node, o.target)
  BY <1>4, <1>6 DEF Moving, Kept, Added, Single
<1>8. Merging(o, db, D)
  BY <1>2, <1>4, <1>7 DEF Merging
<1>9. Walking(x, D, o.node, o.target, {})
  BY <1>5 DEF Walking
<1>10. Progress(x, D)
  BY <1>5, <1>8, <1>9 DEF Progress
<1> QED BY <1>1, <1>10 DEF D

LEMMA FirstEdge ==
  ASSUME NEW o, Passes(o), NEW x, Beginning(o, x), x.solo = db, o.op = "setEdge"
  PROVE  Progress(x, Apply(db, FirstWrite(o)))
<1> DEFINE e == IF o.edge = None THEN FreshEdgeId ELSE o.edge
           v == Edge(o.kind, o.node, o.target, o.order, o.doc)
           D == Apply(db, PutEdge(e, v))
<1>1. FirstWrite(o) = PutEdge(e, v) /\ FirstStage(o) = "end"
  BY DEF FirstWrite, FirstStage, Setters
<1>2. e \in EdgeIds /\ db.edges \in [EdgeIds -> EdgeRecord \cup {None}]
  BY PassesFinds DEF Passes, StoreFits
<1>3. v \in EdgeRecord /\ v.kind = o.kind /\ v.source = o.node /\ v.target = o.target
  <2>1. /\ o.kind \in EdgeKinds /\ o.node \in NodeIds /\ o.target \in NodeIds /\ o.order \in Int
        /\ o.doc \in Docs \cup {None}
    BY EdgesAssumption, IdsAssumption DEF Passes, Calls
  <2> QED BY <2>1, EdgeTyped
<1>4. D = [nodes |-> db.nodes, edges |-> [db.edges EXCEPT ![e] = v]]
  <2>1. \A e1, v1 : Apply(db, PutEdge(e1, v1)) = [nodes |-> db.nodes, edges |-> [db.edges EXCEPT ![e1] = v1]]
    BY Writes DEF Passes
  <2> QED BY <2>1
<1> HIDE DEF D, v, e
<1>5. D.nodes = db.nodes /\ D.edges[e] = v
  BY <1>2, <1>4
<1>6. e \in EdgesOf(D) /\ D.edges[e].kind = o.kind /\ D.edges[e].source = o.node /\ D.edges[e].target = o.target
  BY <1>2, <1>3, <1>5, EdgeShape DEF EdgesOf
<1>7. <<o.node, o.target>> \in Links(D, o.kind)
  BY <1>6 DEF Links
<1>8. WholeEffect(o, x.fresh, db, D)
  BY <1>5, <1>7 DEF WholeEffect, Setters
<1> QED BY <1>1, <1>8 DEF Progress, Beginning, D

\* What an operation alone has done once its first write has run.
LEMMA FirstProgress ==
  ASSUME NEW o, Passes(o), NEW x, Beginning(o, x), x.solo = db
  PROVE  Progress(x, Apply(db, FirstWrite(o)))
<1>1. o.op \in Setters \cup {"deleteNode", "splitNode", "mergeNode", "createNode", "setEdge"}
  BY CallShape DEF Passes
<1> QED BY <1>1, FirstSetter, FirstDelete, FirstSplit, FirstMerge, FirstCreate, FirstEdge

\* The ids a call mints when it begins.
Minting(o, m2) ==
  /\ Later(made, m2)
  /\ o.op = "createNode" => FreshNodeId <= m2.nodes
  /\ o.op = "setEdge" /\ o.edge = None => FreshEdgeId <= m2.edges

LEMMA FirstTyped ==
  ASSUME EditInv, NEW o, Passes(o), NEW x, Beginning(o, x), NEW m2, Minting(o, m2)
  PROVE  WriteTyped(FirstWrite(o), m2) /\ CallFits(x)
<1> DEFINE w == FirstWrite(o)
<1>1. StoreFits(db, m2)
  BY LaterFits DEF Passes, Minting
<1>2. o.op \in Setters \cup {"deleteNode", "splitNode", "mergeNode", "createNode", "setEdge"}
  BY CallShape DEF Passes
<1>3. w.op \in {"putNode", "removeNode", "putEdge", "removeEdge"}
  BY <1>2 DEF FirstWrite, PutNode, PutEdge, RemoveNode, Setters
<1>4. w.op = "putNode" => w.node \in Node
  <2>1. WriteFits(w, NewCall(o, {}))
    BY ExpectedFits DEF EditInv, Passes
  <2> QED BY <2>1 DEF WriteFits
<1>5. \A n \in NodeIds : Present(db, n) => n <= m2.nodes
  BY <1>1 DEF StoreFits
<1>6. w.op = "putNode" => w.id \in NodeIds /\ w.id <= m2.nodes
  <2>1. CASE o.op \in Setters \cup {"splitNode"}
    <3>1. w.op = "putNode" => w.id = o.node
      BY <2>1 DEF FirstWrite, PutNode, Setters
    <3>2. o.node \in NodeIds /\ Present(db, o.node)
      BY <2>1, PassesFinds
    <3> QED BY <1>5, <3>1, <3>2
  <2>2. CASE o.op = "mergeNode"
    <3>1. w.id = o.target
      BY <2>2 DEF FirstWrite, PutNode, Setters
    <3>2. o.target \in NodeIds /\ Present(db, o.target)
      BY <2>2, PassesFinds
    <3> QED BY <1>5, <3>1, <3>2
  <2>3. CASE o.op = "createNode"
    <3>1. w.id = FreshNodeId
      BY <2>3 DEF FirstWrite, PutNode, Setters
    <3> QED BY <2>3, <3>1 DEF Passes, Minting
  <2>4. CASE o.op \in {"deleteNode", "setEdge"}
    BY <2>4 DEF FirstWrite, RemoveNode, PutEdge, Setters
  <2> QED BY <1>2, <2>1, <2>2, <2>3, <2>4
<1>7. w.op = "putEdge" => w.id \in EdgeIds /\ w.id <= m2.edges /\ w.edge \in EdgeRecord
  <2>1. CASE o.op = "setEdge"
    <3> DEFINE e == IF o.edge = None THEN FreshEdgeId ELSE o.edge
               v == Edge(o.kind, o.node, o.target, o.order, o.doc)
    <3>1. w = PutEdge(e, v)
      BY <2>1 DEF FirstWrite, Setters
    <3>2. w.id = e /\ w.edge = v
      BY <3>1 DEF PutEdge
    <3>3. v \in EdgeRecord
      <4>1. /\ o.kind \in EdgeKinds /\ o.node \in NodeIds /\ o.target \in NodeIds /\ o.order \in Int
            /\ o.doc \in Docs \cup {None}
        BY <2>1, EdgesAssumption, IdsAssumption DEF Passes, Calls
      <4> QED BY <4>1, EdgeTyped
    <3> HIDE DEF v
    <3>4. o.edge # None => o.edge \in EdgesOf(db)
      BY <2>1, PassesFinds DEF EdgesOf
    <3>5. e \in EdgeIds /\ e <= m2.edges
      BY <2>1, <3>4, <1>1 DEF Passes, Minting, StoreFits, EdgesOf
    <3> QED BY <3>2, <3>3, <3>5
  <2>2. CASE o.op # "setEdge"
    BY <1>2, <2>2 DEF FirstWrite, PutNode, RemoveNode, Setters
  <2> QED BY <2>1, <2>2
<1> HIDE DEF w
<1>8. WriteTyped(w, m2)
  BY <1>3, <1>4, <1>6, <1>7 DEF WriteTyped
<1>9. CallFits(x)
  <2>1. x.next = "link" => o.op = "createNode" /\ o.node # None
    BY <1>2 DEF Beginning, FirstStage
  <2>2. x.next = "link" => o.node \in FirstNodes /\ x.fresh \in NodeIds
    BY <2>1, PassesFinds DEF Beginning, Passes
  <2>3. x.next # "join"
    BY <1>2 DEF Beginning, FirstStage
  <2>4. x.phase \in 0 .. 3 /\ x.order \in Int /\ x.left \subseteq Lefts /\ x.left = {}
    BY DEF Beginning
  <2> QED BY <2>1, <2>2, <2>3, <2>4 DEF CallFits, Beginning
<1> QED BY <1>8, <1>9 DEF w

\* What a call that begins mints (edit-ops.ts, the randomUUIDs).
LEMMA BeginMints ==
  ASSUME SoloInv, NEW c, NEW o, Begin(c, o)
  PROVE  Later(made, made') /\ (~Refused(o, db) => Minting(o, made'))
<1>1. /\ {"calls", "nodes", "edges"} \subseteq DOMAIN made /\ made.nodes \in Nat /\ made.edges \in Nat
      /\ Cardinality(FirstNodes) <= made.nodes /\ Cardinality(FirstNodes) \in Nat
  BY IdsAssumption DEF SoloInv, MadeEdges, MadeTyped
<1>2. PICK calls, nodes, edges :
        /\ made' = [made EXCEPT !.calls = calls, !.nodes = nodes, !.edges = edges]
        /\ nodes = IF o.op = "createNode" /\ ~Refused(o, db) THEN made.nodes + 1 ELSE made.nodes
        /\ edges = IF o.op = "setEdge" /\ o.edge = None /\ ~Refused(o, db) THEN made.edges + 1 ELSE made.edges
  BY <1>1 DEF Begin
<1>3. /\ {"calls", "nodes", "edges"} \subseteq DOMAIN made' /\ made'.nodes = nodes /\ made'.edges = edges
  BY <1>1, <1>2
<1>4. nodes \in Nat /\ edges \in Nat /\ made.nodes <= nodes /\ made.edges <= edges
  BY <1>1, <1>2
<1>5. Later(made, made')
  BY <1>1, <1>3, <1>4 DEF Later, MadeEdges, MadeTyped
<1>6. ~Refused(o, db) => Minting(o, made')
  BY <1>1, <1>2, <1>3, <1>5 DEF Minting, FreshNodeId, FreshEdgeId
<1> QED BY <1>5, <1>6

LEMMA BeginAlone ==
  ASSUME EditInv, SoloInv, NEW c \in Callers, NEW o \in Calls, Begin(c, o)
  PROVE  SoloInv' /\ NoneReturns
<1>1. c \notin Busy(call) /\ Active = Busy(call) /\ Busy(call) \subseteq Callers
  BY DEF Begin, Active, Busy
<1>2. Later(made, made') /\ (~Refused(o, db) => Minting(o, made'))
  BY BeginMints
<1>3. CASE Refused(o, db) \/ IsNoOp(o, Read(o))
  <2>1. UNCHANGED <<db, queue, running, call>>
    BY <1>3 DEF Begin
  <2>2. MadeEdges(made') /\ StoreFits(db, made') /\ \A i \in 1 .. Len(queue) : WriteTyped(queue[i].write, made')
    BY <1>2, LaterFits DEF SoloInv, Later
  <2>3. \A b \in Busy(call) : CallFits(call[b]) /\ (call[b].solo # None =>
          Busy(call) = {b} /\ StoreFits(call[b].solo, made') /\ Alone(call[b], db, queue, running))
    BY <1>2, LaterFits DEF SoloInv
  <2> QED BY <2>1, <2>2, <2>3 DEF SoloInv, NoneReturns, Busy
<1>4. CASE ~(Refused(o, db) \/ IsNoOp(o, Read(o)))
  <2> DEFINE races == {b \in Active : Written(call[b].o) \cap Written(o) # {}}
             k == [b \in Callers |-> IF b = c THEN NewCall(o, races)
                                     ELSE IF b \in Active
                                     THEN [call[b] EXCEPT !.solo = None, !.raced = @ \/ b \in races]
                                     ELSE Idle]
             w == FirstWrite(o)
  <2>1. Send(c, k, w) /\ running' = running
    BY <1>4 DEF Begin
  <2>2. Passes(o) /\ Minting(o, made')
    BY <1>2, <1>4 DEF Passes, Begin, SoloInv
  <2>3. Beginning(o, k[c]) /\ k[c].pc = "sent" /\ k[c].solo = IF Busy(call) = {} THEN db ELSE None
    BY <1>1 DEF Beginning, NewCall, CallFields
  <2>4. ASSUME NEW b \in Busy(call)
        PROVE  CallFields \subseteq DOMAIN k[b] /\ k[b].pc = call[b].pc /\ CallFits(k[b]) /\ k[b].solo = None
    <3>1. CallFields \subseteq DOMAIN call[b] /\ CallFits(call[b])
      BY DEF EditInv, TableOK, CallTyped, SoloInv
    <3> DEFINE y == [call[b] EXCEPT !.solo = None, !.raced = @ \/ b \in races]
    <3>2. k[b] = y
      BY <1>1 DEF Busy
    <3> HIDE DEF races, k
    <3>3. /\ CallFields \subseteq DOMAIN y /\ y.pc = call[b].pc /\ y.o = call[b].o /\ y.next = call[b].next
          /\ y.phase = call[b].phase /\ y.left = call[b].left /\ y.order = call[b].order
          /\ y.fresh = call[b].fresh /\ y.solo = None
      BY <3>1 DEF CallFields
    <3> HIDE DEF y
    <3>4. CallFits(y)
      BY <3>1, <3>3 DEF CallFits
    <3> QED BY <3>2, <3>3, <3>4
  <2>5. IsTable(k) /\ Busy(k) = Busy(call) \cup {c}
    <3>1. \A b \in Callers \ (Busy(call) \cup {c}) : k[b].pc = "idle"
      BY <1>1 DEF Idle
    <3>2. \A b \in Busy(call) \cup {c} : k[b].pc # "idle"
      BY <2>3, <2>4 DEF Busy
    <3>3. IsTable(k)
      BY DEF IsTable
    <3> HIDE DEF k
    <3> QED BY <1>1, <3>1, <3>2, <3>3 DEF Busy
  <2> HIDE DEF k, races, w
  <2>6. WriteTyped(w, made') /\ CallFits(k[c])
    BY <2>2, <2>3, FirstTyped DEF w
  <2>7. Busy(call) = {} => queue = <<>> /\ running = None
    <3>1. SUFFICES ASSUME Busy(call) = {} PROVE queue = <<>> /\ running = None
      OBVIOUS
    <3>2. PICK S : queue \in Seq(S)
      BY DEF EditInv, QueueOK, IsSeq
    <3>3. running = None /\ \A i \in 1 .. Len(queue) : FALSE
      BY <3>1 DEF EditInv, QueueOK, Waits
    <3>4. Len(queue) = 0
      BY <3>2, <3>3
    <3> QED BY <3>2, <3>3, <3>4
  <2>8. ASSUME NEW b \in Busy(k), k[b].solo # None
        PROVE  /\ Busy(k) = {c} /\ StoreFits(k[b].solo, made') /\ queue = <<>> /\ running = None
               /\ ~Throws(db, w) => Progress(k[b], Apply(db, w))
    <3>1. b = c
      BY <2>4, <2>5, <2>8
    <3>2. Busy(call) = {} /\ k[c].solo = db
      BY <2>3, <2>8, <3>1
    <3>3. StoreFits(db, made')
      BY <1>2, LaterFits DEF SoloInv
    <3>4. Progress(k[c], Apply(db, w))
      BY <2>2, <2>3, <3>2, FirstProgress DEF w
    <3>5. Busy(k) = {c}
      BY <2>5, <3>2
    <3>6. queue = <<>> /\ running = None
      BY <2>7, <3>2
    <3>7. StoreFits(k[b].solo, made')
      BY <3>1, <3>2, <3>3
    <3>8. Progress(k[b], Apply(db, w))
      BY <3>1, <3>4
    <3> QED BY <3>5, <3>6, <3>7, <3>8
  <2>9. \A b \in Busy(k) : CallFields \subseteq DOMAIN k[b] /\ CallFits(k[b])
    BY <2>3, <2>4, <2>5, <2>6 DEF Beginning
  <2>10. Handing(k, c, w, made')
    BY <1>2, <2>5, <2>6, <2>8, <2>9 DEF Handing
  <2>11. IsSeq(queue)
    BY DEF EditInv, QueueOK
  <2>12. SoloInv' /\ \A b \in Busy(k) : call'[b].pc # "idle"
    BY <2>1, <2>10, <2>11, HandingKeeps
  <2> QED BY <2>5, <2>12 DEF NoneReturns
<1> QED BY <1>3, <1>4

----------------------------------------------------------------------------
(* The invariant is inductive.                                             *)

\* The edges there are at first can be numbered.
LEMMA Numbering ==
  ASSUME NEW es, IsFiniteSet(es)
  PROVE  \E f \in [es -> 1 .. Cardinality(es)] : \A v, w \in es : v # w => f[v] # f[w]
<1> DEFINE n == Cardinality(es)
<1>1. PICK h : h \in [1 .. n -> es] /\ \A v \in es : \E i \in 1 .. n : h[i] = v
  BY FS_CardinalityType DEF ExistsBijection, Bijection, Surjection, Injection
<1> HIDE DEF n
<1> DEFINE f == [v \in es |-> CHOOSE i \in 1 .. n : h[i] = v]
<1>2. \A v \in es : f[v] \in 1 .. n /\ h[f[v]] = v
  BY <1>1
<1>3. f \in [es -> 1 .. n]
  BY <1>2
<1> HIDE DEF f
<1> QED BY <1>2, <1>3 DEF n

\* The edges of a store that are numbered so have these numbers.
LEMMA Numbered ==
  ASSUME NEW es, IsFiniteSet(es), es \subseteq EdgeRecord, 1 .. Cardinality(es) \subseteq EdgeIds,
         NEW id \in [es -> 1 .. Cardinality(es)], \A v, w \in es : v # w => id[v] # id[w],
         NEW d, d.edges = [e \in EdgeIds |-> IF \E v \in es : id[v] = e THEN CHOOSE v \in es : id[v] = e ELSE None]
  PROVE  /\ Cardinality(EdgesOf(d)) \in Nat
         /\ \A e \in EdgesOf(d) : e <= Cardinality(EdgesOf(d)) /\ d.edges[e] \in es
<1> DEFINE n == Cardinality(es)
           S == EdgesOf(d)
<1>1. n \in Nat
  BY FS_CardinalityType
<1>2. \A e \in EdgeIds : d.edges[e] = IF \E v \in es : id[v] = e THEN CHOOSE v \in es : id[v] = e ELSE None
  OBVIOUS
<1>3. \A v \in es : id[v] \in EdgeIds /\ id[v] \in 1 .. n
  OBVIOUS
<1>4. \A v \in es : v # None
  BY EdgeShape
<1>5. ASSUME NEW e \in S PROVE d.edges[e] \in es /\ id[d.edges[e]] = e
  BY <1>2, <1>5 DEF EdgesOf
<1>6. ASSUME NEW v \in es PROVE id[v] \in S
  <2>1. d.edges[id[v]] \in es
    BY <1>2, <1>3
  <2> QED BY <2>1, <1>3, <1>4 DEF EdgesOf
<1> HIDE DEF S
<1>7. id \in [es -> S]
  BY <1>6
<1>8. id \in Bijection(es, S)
  <2>1. id \in Injection(es, S)
    BY <1>7, Fun_IsInj
  <2>2. id \in Surjection(es, S)
    BY <1>5, <1>7 DEF Surjection
  <2> QED BY <2>1, <2>2 DEF Bijection
<1>9. Cardinality(S) = n
  BY <1>8, FS_Bijection DEF ExistsBijection
<1>10. \A e \in S : e <= n
  <2>1. ASSUME NEW e \in S PROVE e <= n
    <3>1. id[d.edges[e]] \in 1 .. n /\ id[d.edges[e]] = e
      BY <1>3, <1>5
    <3> QED BY <3>1, <1>1
  <2> QED BY <2>1
<1> QED BY <1>1, <1>5, <1>9, <1>10 DEF S

LEMMA SoloInit == Init => SoloInv
<1> SUFFICES ASSUME Init PROVE SoloInv
  OBVIOUS
<1>1. PICK t \in Texts, es \in FirstEdges :
        LET id == CHOOSE f \in [es -> 1 .. Cardinality(es)] : \A v, w \in es : v # w => f[v] # f[w]
        IN db = [nodes |-> [n \in NodeIds |-> IF n \in FirstNodes THEN FreshNode(t, None, None) ELSE None],
                 edges |-> [e \in EdgeIds |-> IF \E v \in es : id[v] = e
                                              THEN CHOOSE v \in es : id[v] = e ELSE None]]
  BY DEF Init
<1> DEFINE id == CHOOSE f \in [es -> 1 .. Cardinality(es)] : \A v, w \in es : v # w => f[v] # f[w]
           u == FreshNode(t, None, None)
<1>2. /\ db = [nodes |-> db.nodes, edges |-> db.edges]
      /\ db.nodes = [n \in NodeIds |-> IF n \in FirstNodes THEN u ELSE None]
      /\ db.edges = [e \in EdgeIds |-> IF \E v \in es : id[v] = e THEN CHOOSE v \in es : id[v] = e ELSE None]
  BY <1>1
<1>3. /\ IsFiniteSet(es) /\ es \subseteq EdgeRecord /\ 1 .. Cardinality(es) \subseteq EdgeIds
      /\ \A v \in es : v.source # v.target
  BY EdgesAssumption
<1>4. id \in [es -> 1 .. Cardinality(es)] /\ \A v, w \in es : v # w => id[v] # id[w]
  BY <1>3, Numbering
<1>5. u \in Node
  BY NodesAssumption DEF FreshNode, Node, Fields
<1> HIDE DEF id, u
<1>6. /\ Cardinality(EdgesOf(db)) \in Nat
      /\ \A e \in EdgesOf(db) : e <= Cardinality(EdgesOf(db)) /\ db.edges[e] \in es
  BY <1>2, <1>3, <1>4, Numbered
<1>7. made.nodes = Cardinality(FirstNodes) /\ made.edges = Cardinality(EdgesOf(db))
  BY DEF Init
<1>8. db \in [nodes : [NodeIds -> Node \cup {None}], edges : [EdgeIds -> EdgeRecord \cup {None}]]
  <2>1. db.nodes \in [NodeIds -> Node \cup {None}]
    BY <1>2, <1>5
  <2>2. \A e \in EdgeIds : db.edges[e] \in EdgeRecord \cup {None}
    BY <1>3, <1>6 DEF EdgesOf
  <2>3. db.edges \in [EdgeIds -> EdgeRecord \cup {None}]
    BY <1>2, <2>2
  <2> QED BY <1>2, <2>1, <2>3
<1>9. ASSUME NEW n \in NodeIds, Present(db, n) PROVE n <= made.nodes
  <2>1. n \in FirstNodes
    BY <1>2, <1>9 DEF Present
  <2> QED BY <2>1, <1>7, IdsAssumption
<1>10. StoreFits(db, made)
  BY <1>3, <1>6, <1>7, <1>8, <1>9 DEF StoreFits
<1>11. MadeEdges(made)
  BY <1>6, <1>7, EditInit DEF EditInv, MadeEdges
<1>12. Busy(call) = {} /\ queue = <<>> /\ Len(queue) = 0
  BY DEF Init, Busy, Idle
<1> QED BY <1>10, <1>11, <1>12 DEF SoloInv

\* The calls that return in a step are whole, and the invariant is kept.
LEMMA SoloStep ==
  EditInv /\ SoloInv /\ [Next]_vars =>
    /\ SoloInv'
    /\ \A c \in Callers : Returns(c) /\ call[c].ok /\ call[c].solo # None
         => WholeEffect(call[c].o, call[c].fresh, call[c].solo, db')
<1> DEFINE Whole(b) == call[b].ok /\ call[b].solo # None => WholeEffect(call[b].o, call[b].fresh, call[b].solo, db')
<1> SUFFICES ASSUME EditInv, SoloInv, [Next]_vars
             PROVE  SoloInv' /\ \A b \in Callers : Returns(b) => Whole(b)
  OBVIOUS
<1>1. ASSUME NoneReturns, NEW b \in Callers PROVE ~Returns(b)
  BY <1>1 DEF NoneReturns, Returns, Active, Busy, Idle
<1>2. CASE UNCHANGED vars
  <2>1. NoneReturns
    BY <1>2 DEF vars, NoneReturns, Busy
  <2> QED BY <1>1, <1>2, <2>1 DEF vars, SoloInv
<1>3. ASSUME NEW c \in Callers, NEW o \in Calls, Begin(c, o) PROVE SoloInv' /\ NoneReturns
  BY <1>3, BeginAlone
<1>4. CASE RunWrite
  BY <1>1, <1>4, RunWriteAlone
<1>5. CASE Settle
  BY <1>1, <1>5, SettleAlone
<1>6. ASSUME NEW c \in Callers, End(c) PROVE SoloInv' /\ \A b \in Callers : Returns(b) => Whole(b)
  <2>1. SoloInv' /\ (\A b \in Busy(call) \ {c} : call'[b].pc # "idle") /\ Whole(c)
    BY <1>6, EndAlone
  <2>2. \A b \in Callers : Returns(b) => b = c
    BY <2>1 DEF Returns, Active, Busy, Idle
  <2> HIDE DEF Whole
  <2> QED BY <2>1, <2>2
<1>7. ASSUME NEW c \in Callers, Continue(c), ~End(c) PROVE SoloInv' /\ NoneReturns
  BY <1>7, LinkAlone, SplitTailAlone, SplitJoinAlone, ReparentAlone, DropOldAlone, RemoveSourceAlone DEF Continue
<1> HIDE DEF Whole
<1> QED BY <1>1, <1>2, <1>3, <1>4, <1>5, <1>6, <1>7 DEF Next

\* An operation that no other overlapped has, when it returns ok, its whole
\* effect and no other, however many writes it takes (edit-ops.ts, all
\* operations).
THEOREM SolosAreWhole == Spec => SoloIsWhole
<1>1. EditInv /\ SoloInv /\ [Next]_vars =>
        [\A c \in Callers : Returns(c) /\ call[c].ok /\ call[c].solo # None
           => WholeEffect(call[c].o, call[c].fresh, call[c].solo, db')]_vars
  BY SoloStep
<1> QED BY <1>1, EditInit, EditStep, SoloInit, SoloStep, PTL DEF Spec, SoloIsWhole

=============================================================================
