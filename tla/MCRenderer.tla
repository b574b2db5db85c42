----------------------------- MODULE MCRenderer ------------------------------
(***************************************************************************)
(* The renderer for TLC: the stage with its page, the roots in the graph   *)
(* of the page, the tab strip, and the layout of the panes.  The strip and *)
(* the layout each send their own field of the operator settings, the      *)
(* stage takes a tab as it comes and sees the graph as a whole, so one of  *)
(* the four moves and the others rest.                                     *)
(***************************************************************************)
EXTENDS Stage, PageGraph, MCTabs, Layout, TLC

CONSTANTS d1, d2, s1, s2, k1, p1, p2

VARIABLE part

\* The root of the second document is a section of the first one.
ShownNodes == [d \in {d1, d2} |-> IF d = d1 THEN {s1, d2} ELSE {s2}]

\* The first section, which has a child, is in both documents.
TwoSections == <<s1, s2>>
ChildOfFirst == [n \in {s1, s2, k1} |-> IF n = s1 THEN {k1} ELSE {}]
SharedFirst == [d \in {d1, d2} |-> IF d = d1 THEN {s1} ELSE {s1, s2}]

RegisteredPanes == <<p1, p2>>

Symmetry == Permutations(Stores)

TabsRest ==
  /\ strip = EmptyState /\ booted = FALSE /\ sent = <<>> /\ stale = FALSE /\ documents = {} /\ doubled = {}
  /\ settings = DefaultSettings /\ saved = DefaultSettings

RendererInit ==
  /\ part \in {"stage", "graph", "tabs", "layout"}
  /\ Init /\ GraphInit
  /\ IF part = "tabs" THEN TabInit ELSE TabsRest
  /\ LayoutInit

RendererNext ==
  \/ part = "stage" /\ Next /\ UNCHANGED <<graphVars, tabVars, layoutVars, part>>
  \/ part = "graph" /\ GraphNext /\ UNCHANGED <<vars, tabVars, layoutVars, part>>
  \/ part = "tabs" /\ TabNext /\ UNCHANGED <<vars, graphVars, layoutVars, part>>
  \/ part = "layout" /\ LayoutNext /\ UNCHANGED <<vars, graphVars, tabVars, part>>

RendererSpec == RendererInit /\ [][RendererNext]_<<vars, graphVars, tabVars, layoutVars, part>>
=============================================================================
