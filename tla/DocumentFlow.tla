---------------------------- MODULE DocumentFlow ----------------------------
(***************************************************************************)
(* How documents are read off the edges of a store: the check of a flow    *)
(* (DocFlow), the page that is built from a document (traversal.ts), and   *)
(* the documents of a node as the query sees them (retrieval.ts) and as    *)
(* the links see them (backlinks.ts).  They change by any put or removal   *)
(* that the store allows, so most flows are broken.                        *)
(* Not modelled: the order among the children of one node, texts, lines.   *)
(***************************************************************************)
EXTENDS DocFlow

CONSTANTS
  Roots,           \* the root nodes of the documents; a document has the id of its root
  Sections,        \* the other nodes
  FirstFlows,      \* the edges there may be at first, oldest first
  MaxFlowEdits     \* bound on the changes

VARIABLES
  flowNodes,       \* the nodes of the store
  flowEdges,       \* its edges, in the order of the store
  flowEdits        \* how many changes there were

flowVars == <<flowNodes, flowEdges, flowEdits>>

FlowEdge(kind, s, t, docs) == [kind |-> kind, source |-> s, target |-> t, documentIds |-> docs]

\* The edges a caller may put; only those of a flow name documents, and no edge leads to its own source.
PossibleEdges ==
  UNION {
    {FlowEdge(kind, s, t, {}) : kind \in {"doc-child", "parent-child", "crosslink"}, s \in Sections, t \in Sections},
    {FlowEdge("next-section", s, t, docs) : s \in Sections, t \in Sections, docs \in SUBSET Roots \ {{}}},
    {FlowEdge(kind, s, d, {d}) : kind \in {"doc-head", "doc-end"}, s \in Sections, d \in Roots}}

\* At first a store has some of these edges, none of them twice.
ASSUME FlowAssumption ==
  /\ IsFiniteSet(Sections)
  /\ \A E \in FirstFlows : E \in Seq(PossibleEdges) /\ IsInjective(E)

\* The sections of a page; without a valid flow they are the document's nodes.
PageSections(E, nodes, d) ==
  LET verdict == ValidateDocFlow(E, d)
  IN IF verdict.ok THEN ToSet(verdict.order) ELSE DocNodeIds(E, d) \cap nodes \cap Sections

\* Nodes that only parent-child edges hang on the page, when two or more sections hold one: each with such a section.
Duplicates(E, nodes, d) ==
  LET sections == PageSections(E, nodes, d)
      parents(n) == {e.source : e \in {x \in ToSet(OfKind(E, "parent-child")) : x.target = n}} \cap sections
      nested == Targets(OfKind(E, "doc-child"), DocNodeIds(E, d))
      hung == {n \in (nodes \cap Sections) \ (sections \cup nested) : Cardinality(parents(n)) >= 2}
  IN UNION {{n} \X parents(n) : n \in hung}

\* buildSubtree: the ways down the doc-child edges from n, each of which ends at a node of the subtree.
WaysDown(E, n) ==
  LET down == OfKind(E, "doc-child")
      ways[k \in 0..Len(down)] ==
        IF k = 0 THEN {<<n>>}
        ELSE ways[k - 1] \cup UNION {{Append(w, c) : c \in Targets(down, {Last(w)})} : w \in ways[k - 1]}
  IN ways[Len(down)]

\* buildTraversal: what is on the page, a subtree of each section and each duplicate; all are flat without a valid flow.
Page(E, nodes, d) ==
  LET roots == {<<n, n>> : n \in PageSections(E, nodes, d)} \cup Duplicates(E, nodes, d)
  IN UNION {{<<r, w>> : w \in IF ValidateDocFlow(E, d).ok THEN WaysDown(E, r[1]) ELSE {<<r[1]>>}} : r \in roots}

\* documentIdsForNode.
DocumentIdsForNode(E, n) == {d \in {e.target : e \in ToSet(OfKind(E, "doc-head"))} : n \in DocNodeIds(E, d)}

\* documentOf: by the edges of the flow alone.
DocumentOf(E, n) ==
  UNION {e.documentIds : e \in {x \in ToSet(E) :
    \/ x.kind \in {"doc-head", "next-section"} /\ n \in {x.source, x.target}
    \/ x.kind = "doc-end" /\ x.source = n}}

ScopeOf(E, e) ==
  LET s == DocumentOf(E, e.source)
      t == DocumentOf(E, e.target)
  IN IF s = {} \/ t = {} THEN "unscoped" ELSE IF s \cap t # {} THEN "intra-document" ELSE "cross-document"

FlowInit ==
  /\ flowNodes = Roots \cup Sections
  /\ flowEdges \in FirstFlows
  /\ flowEdits = 0

Edits == flowEdits < MaxFlowEdits /\ flowEdits' = flowEdits + 1

PutFlowEdge(e) ==
  /\ Edits
  /\ e.source # e.target /\ {e.source, e.target} \subseteq flowNodes
  /\ ~ Contains(flowEdges, e)
  /\ flowEdges' = Append(flowEdges, e)
  /\ UNCHANGED flowNodes

RemoveFlowEdge(e) ==
  /\ Edits
  /\ flowEdges' = Filtered(flowEdges, ToSet(flowEdges) \ {e})
  /\ UNCHANGED flowNodes

\* A removed node takes its edges along.
RemoveFlowNode(n) ==
  /\ Edits
  /\ flowNodes' = flowNodes \ {n}
  /\ flowEdges' = Filtered(flowEdges, {e \in ToSet(flowEdges) : n \notin {e.source, e.target}})

FlowNext ==
  \/ \E e \in PossibleEdges : PutFlowEdge(e)
  \/ \E e \in ToSet(flowEdges) : RemoveFlowEdge(e)
  \/ \E n \in flowNodes : RemoveFlowNode(n)

FlowSpec == FlowInit /\ [][FlowNext]_flowVars

(***************************************************************************)
(* The verdict, found by walking, is that of the definition of a flow: the *)
(* document has one head, its edges lead from there to its end over each   *)
(* section once, none has two next sections, and no node holds itself.     *)
(***************************************************************************)
FlowIsChain ==
  \A d \in Roots :
    LET own(kind) == {e \in ToSet(flowEdges) : e.kind = kind /\ d \in e.documentIds}
        follows(s) ==
          /\ \E e \in own("doc-head") : e.source = s[1] /\ own("doc-head") = {e}
          /\ \A i \in 1..Len(s) - 1 : \E e \in own("next-section") : e.source = s[i] /\ e.target = s[i + 1]
          /\ \A e \in own("next-section") : e.source # Last(s)
          /\ \E e \in own("doc-end") : e.source = Last(s)
        ranked == \E s \in SetToSeqs(Sections) :
          \A e \in ToSet(OfKind(flowEdges, "doc-child")) :
            \E i, j \in DOMAIN s : i < j /\ s[i] = e.source /\ s[j] = e.target
        chains == {s \in UNION {SetToSeqs(S) : S \in SUBSET Sections} : s # <<>> /\ follows(s)}
        functional == \A e, f \in own("next-section") : e.source = f.source => e = f
        verdict == ValidateDocFlow(flowEdges, d)
    IN Cardinality(own("doc-end")) <= 1 =>
         /\ verdict.ok <=> functional /\ ranked /\ chains # {}
         /\ verdict.ok => chains = {verdict.order}

(***************************************************************************)
(* What is on a page and what answers a query about its document agree:    *)
(* the page shows nodes of the document and duplicates only; without a     *)
(* valid flow it shows each node of the document once; with one it leaves  *)
(* out only what the flow's own edges reach from no section.               *)
(***************************************************************************)
PageIsDocument ==
  \A d \in Roots :
    LET page == Page(flowEdges, flowNodes, d)
        nodes == DocNodeIds(flowEdges, d) \cap flowNodes \cap Sections
        shown == {Last(item[2]) : item \in page}
        verdict == ValidateDocFlow(flowEdges, d)
        duplicates == {r[1] : r \in Duplicates(flowEdges, flowNodes, d)}
    IN /\ ~ verdict.ok =>
            /\ shown = nodes \cup duplicates
            /\ \A n \in nodes : \E item \in page : {x \in page : Last(x[2]) = n} = {item}
       /\ verdict.ok =>
            /\ shown \ Closure(flowEdges, duplicates) \subseteq nodes
            /\ \A n \in nodes \ shown : n \notin Closure(flowEdges, ToSet(verdict.order))

(***************************************************************************)
(* The documents of a node as the links tell them are documents it has for *)
(* a query, every section of a valid flow is one of its document by both,  *)
(* and so a link between two sections of it never counts as one across     *)
(* documents.                                                              *)
(***************************************************************************)
MembershipsAgree ==
  /\ \A n \in Sections \cap flowNodes : \A d \in DocumentOf(flowEdges, n) : n \in DocNodeIds(flowEdges, d)
  /\ \A d \in Roots :
       LET order == ToSet(ValidateDocFlow(flowEdges, d).order)
       IN /\ \A n \in order : d \in DocumentOf(flowEdges, n) \cap DocumentIdsForNode(flowEdges, n)
          /\ \A e \in ToSet(OfKind(flowEdges, "crosslink")) :
               {e.source, e.target} \subseteq order => ScopeOf(flowEdges, e) = "intra-document"

\* The page that is built of a document holds what the traversal of it finds, and so do the two answers
\* to "which documents is this node of".
PagesAreDocuments == PageIsDocument /\ MembershipsAgree
=============================================================================
