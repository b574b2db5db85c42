------------------------------ MODULE PageGraph ------------------------------
(***************************************************************************)
(* What is in the graph of the page: the roots that                        *)
(* src/renderer/sidebar-panes.ts authors for the focused document and for  *)
(* the other documents mounted beside it, the classification of them by    *)
(* src/renderer/content-reconcile.ts when content changes, what            *)
(* src/renderer/runtime.ts then destroys and attaches, and the decoration  *)
(* of shared sections by src/renderer/cross-document-shared.ts.            *)
(*                                                                         *)
(* Stage has the page as a whole with the dirty-edit guard and the         *)
(* failures; here nobody types, the renderer is booted, and the graph is   *)
(* seen root by root.  A section is rendered with the nodes under it.      *)
(* The focused document is shown by the sections inside the page-edit      *)
(* surface: its own roots are in the graph, but nowhere on the page.       *)
(***************************************************************************)
EXTENDS Naturals, Sequences, FiniteSetsExt

CONSTANTS
  Pages,       \* documents
  Sections,    \* sections, as a sequence: the order in which a page has them
  Under,       \* per section or node, its doc-children
  Unscoped,    \* the scope of the ids of a document that is alone
  OwnersBox,   \* the id of an owners box, which looks like that of a node
  FirstPages,  \* the sections of each document at first
  MaxGraphActs \* bound of the model: edits, mounts, toggles and settings

SectionSet == {Sections[i] : i \in DOMAIN Sections}

ASSUME UnderAssumption ==
  /\ \A x \in DOMAIN Under : Under[x] \subseteq DOMAIN Under \ SectionSet
  /\ SectionSet \subseteq DOMAIN Under

ASSUME PagesAssumption == Pages # {} /\ IsFiniteSet(Pages) /\ Unscoped \notin Pages

VARIABLES
  rag,       \* main: [text, page], the version of each node and the sections of each document
  news,      \* on their way to the renderer: changes, settings, and the answer to a fetch
  cached,    \* lastSnapshot
  authored,  \* lastTraversalEnvelope: its roots, by id
  mounted,   \* mountedDocumentIds, the first one has the surface
  focused,   \* _currentDocumentId
  stageKey,  \* mountedStageKey: the document of mountTab, Unscoped after mountTabs
  collapsed, \* collapsedOwnersBoxes
  tracked,   \* the runtime's documentRoots: [doc, id, block], and the surface of the last envelope
  onPage,    \* what was attached to the page, in order: [surface, blocks], blocks by id
  pending,   \* pendingContentChange, or NoChange
  deriving,  \* the re-derive in flight: [at, kind]
  requeued,  \* reDeriveQueuedKind, "none" if none is queued
  graphActs  \* bound: acts so far

hostView == <<cached, authored, mounted, focused, stageKey, collapsed>>
graphVars == <<rag, news, hostView, tracked, onPage, pending, deriving, requeued, graphActs>>

Act == graphActs < MaxGraphActs /\ graphActs' = graphActs + 1

NoBox == [owners |-> {}, closed |-> FALSE]
NoChange == [kind |-> "none", nodes |-> {}, edges |-> FALSE]
Resting == [at |-> "idle", kind |-> "none"]

----------------------------------------------------------------------------
(* The authored roots                                                       *)

\* The nodes rendered in a section: itself, its children and theirs.
Within(x) == {x} \cup Under[x] \cup UNION {Under[k] : k \in Under[x]}

BlockOf(s, x) == [text |-> [n \in Within(x) |-> s.text[n]], box |-> NoBox]

Body(s, d, scope) == [id \in {scope} \X s.page[d] |-> BlockOf(s, id[2])]

Owners(s, x) == {d \in Pages : x \in s.page[d]}

\* decorateShared: a block with a box keeps it as it is.
Decorated(s, closed, blocks) ==
  [id \in DOMAIN blocks |->
     IF blocks[id].box = NoBox /\ Cardinality(Owners(s, id[2])) > 1
       THEN [blocks[id] EXCEPT !.box = [owners |-> Owners(s, id[2]), closed |-> id[2] \in closed]]
       ELSE blocks[id]]

\* scopeDocumentIds after decorateShared, for one document of several.
Scoped(s, d) == Decorated(s, collapsed', Body(s, d, d))

ScopedUnion(s, ds) == [id \in UNION {DOMAIN Scoped(s, d) : d \in ds} |-> Scoped(s, id[1])[id]]

RootsAs(d, blocks) == {[doc |-> d, id |-> i, block |-> blocks[i]] : i \in DOMAIN blocks}

\* collectRagIds: it stops at the doc-children, and takes the box for one.
RagIds(e) == {e.id[2]} \cup Under[e.id[2]] \cup (IF e.block.box = NoBox THEN {} ELSE {OwnersBox})

SurfaceIds(blocks) == {i[2] : i \in DOMAIN blocks}

PlaceInPage(x) == CHOOSE i \in DOMAIN Sections : Sections[i] = x

\* The first n of a set of roots, in the order of the page.
FirstOf(roots, n) == {e \in roots : Cardinality({f \in roots : PlaceInPage(f.id[2]) < PlaceInPage(e.id[2])}) < n}

----------------------------------------------------------------------------
(* The classification and what is done with it                              *)

\* A mutation: the surface is compared like the root of a document.
SurfaceReplaced_OnFallback(old, new, hits, fallback) ==
  \/ hits \cap (SurfaceIds(old) \cup SurfaceIds(new)) # {}
  \/ fallback /\ old # new

\* Like a pane the surface is always compared.
SurfaceReplaced(old, new, hits, fallback) ==
  \/ hits \cap (SurfaceIds(old) \cup SurfaceIds(new)) # {}
  \/ old # new

(***************************************************************************)
(* reconcileDocumentRoots.  Roots correspond by document and id.  A root   *)
(* that vanished and one that appeared, both named by the change, are an   *)
(* identity replace, and its ids mark no other root.  The surface is no    *)
(* document's.                                                             *)
(***************************************************************************)
ReconcileDocumentRoots(previous, next, open, ch) ==
  LET key(e) == <<e.doc, e.id>>
      keysOf(S) == {key(e) : e \in S}
      known == {e \in previous.roots : e.doc \in open}
      named(d, S, T) == {e \in S : e.doc = d /\ key(e) \notin keysOf(T) /\ e.id[2] \in ch.nodes}
      pairs(d) == Min({Cardinality(named(d, known, next.roots)), Cardinality(named(d, next.roots, known))})
      from == UNION {FirstOf(named(d, known, next.roots), pairs(d)) : d \in open}
      to == UNION {FirstOf(named(d, next.roots, known), pairs(d)) : d \in open}
      consumed == {e.id[2] : e \in from \cup to}
      hits == ch.nodes \ consumed
      fallback == ch.kind # "content" \/ ch.edges
      changed(p, e) ==
        \/ hits \cap (RagIds(p) \cup RagIds(e)) # {}
        \/ RagIds(p) # RagIds(e)
        \/ (fallback \/ consumed \cap (RagIds(p) \cup RagIds(e)) # {}) /\ p.block # e.block
  IN [added |-> {e \in next.roots : key(e) \notin keysOf(known)} \ to,
      replaced |-> {e \in next.roots : \E p \in known : key(p) = key(e) /\ changed(p, e)},
      removed |-> {e \in previous.roots : /\ key(e) \notin keysOf(next.roots)
                                          /\ e.doc \in open \cup {Unscoped} \/ ch.kind = "structural"} \ from,
      from |-> from, to |-> to,
      surface |-> SurfaceReplaced(previous.surface, next.surface, hits, fallback)]

\* destroyRoot: of the roots with an id the one attached last, wherever it is on the page.
LastWith(seq, i) == Max({n \in DOMAIN seq : i \in DOMAIN seq[n].blocks} \cup {0})

\* An attachment all of whose roots are destroyed stays as an empty one.
Without(seq, ids) ==
  [n \in DOMAIN seq |->
     [seq[n] EXCEPT !.blocks = [j \in {i \in DOMAIN @ : i \notin ids \/ LastWith(seq, i) # n} |-> @[j]]]]

\* Roots of different documents differ in their ids.
BlocksOf(roots) == [i \in {e.id : e \in roots} |-> (CHOOSE e \in roots : e.id = i).block]

(***************************************************************************)
(* applyContentReconcile: the surface of the document before is not among  *)
(* the roots that may be destroyed, its replacement is attached next to    *)
(* it.  The other roots are attached one after the other: as their ids     *)
(* differ, they are one attachment here.                                   *)
(***************************************************************************)
ApplyContentReconcile(result, next) ==
  LET gone == {e.id : e \in result.removed \cup result.replaced \cup result.from}
      beside == {e \in result.added \cup result.replaced \cup result.to : e.id \notin DOMAIN next.surface}
      kept == Without(onPage, gone)
      shown == IF result.surface THEN Append(kept, [surface |-> TRUE, blocks |-> next.surface]) ELSE kept
  IN /\ onPage' = IF beside = {} THEN shown ELSE Append(shown, [surface |-> FALSE, blocks |-> BlocksOf(beside)])
     /\ tracked' = next

\* loadAppGraph: every root of the envelope is in the surface, whichever document it is of.
LoadAppGraph(s, blocks) ==
  LET decorated == Decorated(s, collapsed', blocks)
  IN /\ authored' = blocks
     /\ onPage' = <<[surface |-> TRUE, blocks |-> decorated]>>
     /\ tracked' = [roots |-> RootsAs(Unscoped, decorated), surface |-> decorated]

\* applyContentChange: the tracked roots are taken for those of the current document.
ApplyContentChange(s) ==
  LET blocks == Decorated(s, collapsed', Body(s, focused, Unscoped))
      next == [roots |-> RootsAs(focused, blocks), surface |-> blocks]
      previous == [tracked EXCEPT !.roots = {[e EXCEPT !.doc = focused] : e \in @}]
  IN /\ ApplyContentReconcile(ReconcileDocumentRoots(previous, next, {focused}, pending), next)
     /\ authored' = Body(s, focused, Unscoped)
     /\ pending' = NoChange

\* applyDocumentSet
ApplyDocumentSet(s, docs, ch) ==
  LET open == {docs[i] : i \in DOMAIN docs}
      next == [roots |-> UNION {RootsAs(d, Scoped(s, d)) : d \in open}, surface |-> Scoped(s, docs[1])]
  IN /\ ApplyContentReconcile(ReconcileDocumentRoots(tracked, next, open, ch), next)
     /\ authored' = ScopedUnion(s, open)
     /\ pending' = NoChange

Mounted == {mounted[i] : i \in DOMAIN mounted}
Several == Len(mounted) > 1

\* The documents of open tabs, in the order of the strip.
Groups == {docs \in UNION {[1..n -> Pages] : n \in 1..Cardinality(Pages)} :
             \A i, j \in DOMAIN docs : docs[i] = docs[j] => i = j}

----------------------------------------------------------------------------
(* The main process                                                         *)

Tell(message) == news' = Append(news, message)

\* A node is put: with another text, or with the same one and something that is not shown.
EditNode(n) ==
  /\ Act
  /\ \E more \in {0, 1} : rag' = [rag EXCEPT !.text[n] = @ + more]
  /\ Tell([kind |-> "content", nodes |-> {n}, edges |-> FALSE])
  /\ UNCHANGED <<hostView, tracked, onPage, pending, deriving, requeued>>

\* A section enters a document's flow or leaves it; the change names the ends of the edges that are put.
EditFlow(d, x) ==
  /\ Act
  /\ rag.page[d] # {x}
  /\ rag' = [rag EXCEPT !.page[d] = IF x \in @ THEN @ \ {x} ELSE @ \cup {x}]
  /\ \E ends \in SUBSET (rag.page[d] \ {x}) :
       Tell([kind |-> "structural", nodes |-> ends \cup (rag'.page[d] \cap {x}), edges |-> TRUE])
  /\ UNCHANGED <<hostView, tracked, onPage, pending, deriving, requeued>>

SetSettings ==
  /\ Act
  /\ Tell([kind |-> "settings"])
  /\ UNCHANGED <<rag, hostView, tracked, onPage, pending, deriving, requeued>>

AnswerSnapshot ==
  /\ deriving.at = "asked"
  /\ Tell([kind |-> "snapshot", of |-> rag])
  /\ deriving' = [deriving EXCEPT !.at = "answered"]
  /\ UNCHANGED <<rag, hostView, tracked, onPage, pending, requeued, graphActs>>

----------------------------------------------------------------------------
(* The renderer                                                             *)

Request(kind) ==
  IF deriving.at = "idle"
    THEN deriving' = [at |-> "asked", kind |-> kind] /\ UNCHANGED requeued
    ELSE requeued' = (IF "operator" \in {kind, requeued} THEN "operator" ELSE kind) /\ UNCHANGED deriving

\* onRagStoreChanged: changes add up until they are applied, a structural one stays structural.
Accumulated(old, new) ==
  [kind |-> IF "structural" \in {old.kind, new.kind} THEN "structural" ELSE "content",
   nodes |-> old.nodes \cup new.nodes,
   edges |-> old.edges \/ new.edges]

Incoming(kinds) == news # <<>> /\ Head(news).kind \in kinds /\ news' = Tail(news)

HearChange ==
  /\ Incoming({"content", "structural"})
  /\ pending' = Accumulated(pending, Head(news))
  /\ Request("content")
  /\ UNCHANGED <<rag, hostView, tracked, onPage, graphActs>>

HearSettings ==
  /\ Incoming({"settings"})
  /\ pending' = NoChange
  /\ Request("operator")
  /\ UNCHANGED <<rag, hostView, tracked, onPage, graphActs>>

TakeSnapshot ==
  /\ Incoming({"snapshot"})
  /\ cached' = Head(news).of
  /\ deriving' = [deriving EXCEPT !.at = "taken"]
  /\ UNCHANGED <<rag, authored, mounted, focused, stageKey, collapsed, tracked, onPage, pending, requeued, graphActs>>

\* The end of reDerive, and the queued one.
Done ==
  /\ deriving' = IF requeued = "none" THEN Resting ELSE [at |-> "asked", kind |-> requeued]
  /\ requeued' = "none"

ApplyContent ==
  /\ deriving = [at |-> "taken", kind |-> "content"]
  /\ UNCHANGED <<cached, mounted, focused, stageKey, collapsed>>
  /\ IF Several THEN ApplyDocumentSet(cached, mounted, pending) ELSE ApplyContentChange(cached)
  /\ Done
  /\ UNCHANGED <<rag, news, graphActs>>

AuthorAnew ==
  /\ deriving = [at |-> "taken", kind |-> "operator"]
  /\ UNCHANGED <<cached, mounted, focused, stageKey, collapsed>>
  /\ authored' = IF Several THEN ScopedUnion(cached, Mounted) ELSE Body(cached, focused, Unscoped)
  /\ deriving' = [deriving EXCEPT !.at = "refresh"]
  /\ UNCHANGED <<rag, news, tracked, onPage, pending, requeued, graphActs>>

\* refresh() loads what is authored when its settings have come.
Refresh ==
  /\ deriving.at = "refresh"
  /\ UNCHANGED <<cached, mounted, focused, stageKey, collapsed>>
  /\ LoadAppGraph(cached, authored)
  /\ Done
  /\ UNCHANGED <<rag, news, pending, graphActs>>

\* mountTab: one document, alone.
MountAlone(d) ==
  /\ Act /\ stageKey # d
  /\ mounted' = <<d>> /\ focused' = d /\ stageKey' = d /\ UNCHANGED <<cached, collapsed>>
  /\ LoadAppGraph(cached, Body(cached, d, Unscoped))
  /\ UNCHANGED <<rag, news, pending, deriving, requeued>>

\* mountTabs: documents side by side, the first one has the surface.
MountTabs(docs) ==
  /\ Act
  /\ mounted' = docs /\ stageKey' = Unscoped /\ UNCHANGED <<cached, focused, collapsed>>
  /\ ApplyDocumentSet(cached, docs, NoChange)
  /\ UNCHANGED <<rag, news, deriving, requeued>>

ToggleOwnersBox(x) ==
  /\ Cardinality(Owners(cached, x)) > 1
  /\ Act
  /\ collapsed' = (collapsed \ {x}) \cup ({x} \ collapsed)
  /\ UNCHANGED <<cached, mounted, focused, stageKey>>
  /\ IF Several
       THEN ApplyDocumentSet(cached, mounted, NoChange)
       ELSE LoadAppGraph(cached, authored) /\ UNCHANGED pending
  /\ UNCHANGED <<rag, news, deriving, requeued>>

----------------------------------------------------------------------------
GraphInit ==
  /\ rag = [text |-> [n \in DOMAIN Under |-> 0], page |-> FirstPages]
  /\ news = <<>> /\ cached = rag /\ collapsed = {}
  /\ focused = CHOOSE d \in Pages : TRUE
  /\ mounted = <<focused>> /\ stageKey = focused
  /\ authored = Body(rag, focused, Unscoped)
  /\ LET first == Decorated(rag, collapsed, authored)
     IN /\ onPage = <<[surface |-> TRUE, blocks |-> first]>>
        /\ tracked = [roots |-> RootsAs(Unscoped, first), surface |-> first]
  /\ pending = NoChange /\ deriving = Resting /\ requeued = "none"
  /\ graphActs = 0

GraphNext ==
  \/ \E n \in DOMAIN Under : EditNode(n)
  \/ \E d \in Pages, x \in SectionSet : EditFlow(d, x)
  \/ SetSettings
  \/ AnswerSnapshot
  \/ HearChange
  \/ HearSettings
  \/ TakeSnapshot
  \/ ApplyContent
  \/ AuthorAnew
  \/ Refresh
  \/ \E d \in Pages : MountAlone(d)
  \/ \E docs \in Groups : MountTabs(docs)
  \/ \E x \in SectionSet : ToggleOwnersBox(x)

GraphSpec == GraphInit /\ [][GraphNext]_graphVars

----------------------------------------------------------------------------
GraphSettled == news = <<>> /\ deriving = Resting

Newest == onPage[Max({n \in DOMAIN onPage : onPage[n].surface})].blocks

(***************************************************************************)
(* Once nothing is on its way to the renderer, nothing in the surface      *)
(* attached last is out of date: no section that is not in the document    *)
(* any more, no text of any node in it, no owner - through changes that    *)
(* add up while a snapshot is fetched, or are applied with an older one,   *)
(* settings and mounts in between, toggled boxes and reloads.              *)
(***************************************************************************)
SurfaceNeverStale ==
  GraphSettled => \A i \in DOMAIN Newest :
    /\ i[2] \in rag.page[IF i[1] = Unscoped THEN focused ELSE i[1]]
    /\ Newest[i].text = BlockOf(rag, i[2]).text
    /\ Newest[i].box.owners = (IF Cardinality(Owners(rag, i[2])) > 1 THEN Owners(rag, i[2]) ELSE {})

(***************************************************************************)
(* "the payload roots it collects lose their zone announcement so the      *)
(* document renders exactly ONCE - inside the surface"                     *)
(* (src/renderer/pane-graph.ts:1320).                                      *)
(***************************************************************************)
RendersOnce ==
  GraphSettled /\ ~Several /\ stageKey # Unscoped =>
    \A x \in rag.page[focused] : Cardinality({n \in DOMAIN onPage : <<Unscoped, x>> \in DOMAIN onPage[n].blocks}) = 1
=============================================================================
