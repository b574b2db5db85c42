----------------------------- MODULE MCEditOps -----------------------------
(* Instances of EditOps for TLC. *)
EXTENDS EditOps, TLC
EditTexts == {<<1, 2>>}
Links1 == {[kind |-> k, source |-> 1, target |-> t, order |-> 0, doc |-> None] : k \in EdgeKinds, t \in {2, 3}}
Links2 == {[kind |-> k, source |-> 2, target |-> 3, order |-> 0, doc |-> None] : k \in EdgeKinds}
\* No edge, one, or two: both of one kind from node 1, or one from each of 1 and 2.
EditEdges == {{}} \cup {{l} : l \in Links1}
             \cup {{l, m} : l \in Links1, m \in Links2}
             \cup {{l \in Links1 : l.kind = k} : k \in EdgeKinds}
SetEdge(e, k, s, t) == [op |-> "setEdge", edge |-> e, kind |-> k, node |-> s, target |-> t, order |-> 0, doc |-> None]
EditEdgeCalls == {SetEdge(None, "doc-child", 2, 3), SetEdge(None, "next-section", 1, 3), SetEdge(1, "parent-child", 3, 1)}
Symmetry == Permutations(Callers)
=============================================================================
