------------------------------ MODULE DocFlow -------------------------------
(***************************************************************************)
(* What a list of edges, oldest first, says of a document: the nodes of it *)
(* (computeDocumentSubgraph of traversal.ts) and the check of its flow     *)
(* (doc-flow.ts).  An edge has at least a kind, a source, a target and the *)
(* documents it names, each by the node that is its root.                  *)
(***************************************************************************)
EXTENDS Naturals, Sequences, FiniteSets, SequencesExt, FiniteSetsExt, Functions, Filtering

OfKind(E, kind) == Filtered(E, {e \in ToSet(E) : e.kind = kind})
Targets(E, S) == {e.target : e \in {x \in ToSet(E) : x.source \in S}}

\* edgesForDocument: what names the document, and every doc-child edge when the document is named at all.
EdgesForDocument(E, d) ==
  IF \E e \in ToSet(E) : d \in e.documentIds
  THEN Filtered(E, {e \in ToSet(E) : d \in e.documentIds \/ e.kind = "doc-child"})
  ELSE <<>>

\* A mutation: one level only.
Closure_Direct(E, S) == S \cup Targets(OfKind(E, "doc-child"), S)

\* All that S reaches along doc-child edges, S included.
Closure(E, S) ==
  LET down == OfKind(E, "doc-child")
      grow[k \in 0..Len(down)] == IF k = 0 THEN S ELSE LET s == grow[k - 1] IN s \cup Targets(down, s)
  IN grow[Len(down)]

\* computeDocumentSubgraph: docNodeIds.
DocNodeIds(E, d) ==
  LET flow == {e \in ToSet(EdgesForDocument(E, d)) : e.kind # "doc-child"}
  IN Closure(E, {d} \cup {e.source : e \in flow} \cup {e.target : e \in flow})

\* Following next-section edges from the head, up to the end or to the first node that comes again.
Followed(E, head) ==
  LET next == OfKind(E, "next-section")
      walk[k \in 0..Len(next)] ==
        IF k = 0 THEN <<head>>
        ELSE LET s == walk[k - 1]
                 after == Targets(next, {Last(s)})
             IN IF after = {} \/ ~ IsInjective(s) THEN s ELSE Append(s, CHOOSE n \in after : TRUE)
  IN walk[Len(next)]

HasCycle(E) == \E n \in {e.source : e \in ToSet(E)} : n \in Closure(E, Targets(OfKind(E, "doc-child"), {n}))

Broken(reason) == [ok |-> FALSE, reason |-> reason, order |-> <<>>]

\* A mutation: any section may be the end.
ValidateDocFlow_AnyEnd(E, d) ==
  LET scoped == EdgesForDocument(E, d)
      heads == OfKind(scoped, "doc-head")
      order == Followed(scoped, heads[1].source)
  IN IF Len(heads) # 1 THEN Broken("missing-head")
     ELSE IF ~ IsInjective(order) \/ HasCycle(scoped) THEN Broken("cycle")
     ELSE IF OfKind(scoped, "doc-end") = <<>> THEN Broken("missing-end")
     ELSE [ok |-> TRUE, reason |-> "", order |-> order]

\* validateDocFlow, its rules in their order; no edge of a store leads to a missing node.
ValidateDocFlow(E, d) ==
  LET scoped == EdgesForDocument(E, d)
      heads == OfKind(scoped, "doc-head")
      ends == OfKind(scoped, "doc-end")
      order == Followed(scoped, heads[1].source)
  IN IF Len(heads) # 1 THEN Broken("missing-head")
     ELSE IF \E e, f \in ToSet(OfKind(scoped, "next-section")) : e # f /\ e.source = f.source
       THEN Broken("cycle")
     ELSE IF ~ IsInjective(order) THEN Broken("cycle")
     ELSE IF HasCycle(scoped) THEN Broken("cycle")
     ELSE IF ends = <<>> \/ Head(ends).source # Last(order) THEN Broken("missing-end")
     ELSE [ok |-> TRUE, reason |-> "", order |-> order]
=============================================================================
