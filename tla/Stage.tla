-------------------------------- MODULE Stage --------------------------------
(***************************************************************************)
(* The renderer's page: src/renderer/edit-controller.ts (the dirty-edit    *)
(* guard), the boot, re-derive and tab mount of                            *)
(* src/renderer/sidebar-panes.ts, and the graph of src/renderer/runtime.ts *)
(* they load, with the broadcasts and answers of src/main/main.ts.         *)
(*                                                                         *)
(* Every await of the renderer ends a step.  The main process answers over *)
(* the channel it broadcasts on, so a fetch that is answered in one step   *)
(* is answered as of a moment at which the earlier broadcasts are out and  *)
(* perhaps not yet handled.  Text is abstracted to the version of a node.  *)
(***************************************************************************)
EXTENDS Naturals, Sequences, FiniteSetsExt

CONSTANTS
  Docs,       \* documents, named by their root nodes
  Nodes,      \* nodes of the store
  Shown,      \* per document, the nodes its page shows; its root is not one of them
  Bodies,     \* bodies of tabs that show no document
  Search,     \* the one of them that awaits the answer to a query
  Stores,     \* names of the default store
  None,       \* nothing
  MaxActs,    \* bound of the model: what users, agents and failures do
  MaxWire     \* bound of the model: messages under way

ASSUME ShownAssumption == \A d \in Docs : Shown[d] \subseteq Nodes /\ d \notin Shown[d]
ASSUME BodiesAssumption == Search \in Bodies /\ None \notin Bodies \cup {"content", "operator", "template"}

VARIABLES
  store,      \* main: the version of each node
  default,    \* main: the name of the default store
  wire,       \* broadcasts and answers on their way to the renderer
  phase,      \* the boot: "snapshot", "rest", "up", or "aborted"
  snapshot,   \* lastSnapshot
  lastStore,  \* the store that snapshot names
  current,    \* _currentDocumentId
  tab,        \* mountedStageKey
  envelope,   \* lastTraversalEnvelope: [body, doc, text]
  other,      \* the body of a tab on the page that is no document, or None
  surface,    \* the page-edit surface attached last: [doc, text], or None
  dirty,      \* the edit controller: subjects with uncommitted text
  queued,     \* queuedRebuild
  queuedKind,
  flight,     \* the re-derive in flight: [at, kind, taken]
  again,      \* reDeriveQueuedKind, None if none is queued
  asking,     \* mountSearchStage awaits its answer
  refreshing, \* a pane's refresh() awaits the settings
  committing, \* subjects whose edit-commit is under way
  failed,     \* pageCommitFailure
  lapse,      \* history: a change was announced, or not announced, in vain
  typed,      \* history: there was input since the re-derive in flight began
  used        \* bound: acts so far

mainVars == <<store, default>>
hostVars == <<phase, snapshot, lastStore, current, tab, envelope>>
pageVars == <<other, surface>>
editVars == <<dirty, queued, queuedKind, committing, failed>>
workVars == <<flight, again, asking, refreshing>>
vars == <<mainVars, wire, hostVars, pageVars, editVars, workVars, lapse, typed, used>>

Kinds == <<"content", "operator", "template">>
RankOf(k) == CHOOSE i \in 1..3 : Kinds[i] = k
MergeKind(a, b) == IF a = None THEN b ELSE Kinds[Max({RankOf(a), RankOf(b)})]

Idle == [at |-> "idle", kind |-> None, taken |-> None]
TextOf(s, d) == [n \in Shown[d] |-> s[n]]
DocBody(s, d) == [body |-> None, doc |-> d, text |-> TextOf(s, d)]
SurfaceOf(env) == [doc |-> env.doc, text |-> env.text]
BackRefs == IF surface = None THEN {} ELSE Shown[surface.doc]

Spend == used < MaxActs /\ used' = used + 1
Post(what) == wire' = Append(wire, [what |-> what, of |-> default'])
Room == Len(wire) < MaxWire

Init ==
  /\ store = [n \in Nodes |-> 0] /\ default \in Stores
  /\ wire = <<>> /\ phase = "snapshot" /\ snapshot = None /\ lastStore = None
  /\ current = None /\ tab = None /\ envelope = None
  /\ other = None /\ surface = None
  /\ dirty = {} /\ queued = FALSE /\ queuedKind = "content"
  /\ committing = {} /\ failed = {}
  /\ flight = Idle /\ again = None /\ asking = FALSE /\ refreshing = FALSE
  /\ lapse = FALSE /\ typed = FALSE
  /\ used = 0

----------------------------------------------------------------------------
(* The edit controller and the start of a re-derive                         *)

\* reDerive: one at a time, a request while one is in flight is remembered.
ReDerive(kind) ==
  IF flight.at = "idle"
    THEN flight' = [at |-> "snapshot", kind |-> kind, taken |-> None] /\ typed' = FALSE /\ UNCHANGED again
    ELSE again' = MergeKind(again, kind) /\ UNCHANGED <<flight, typed>>

RequestRebuild(kind) ==
  IF dirty # {}
    THEN /\ queued' = TRUE /\ queuedKind' = MergeKind(queuedKind, kind)
         /\ UNCHANGED <<flight, again, typed>>
    ELSE ReDerive(kind) /\ queuedKind' = "content" /\ UNCHANGED queued

\* A mutation: it fires with any of them.
Fires_Early(left) == queued

\* The end of every path that cleans a subject: the queued rebuild fires with the last one.
Fires(left) == queued /\ left = {}

Clean(d) ==
  /\ dirty' = dirty \ {d}
  /\ IF Fires(dirty')
       THEN queued' = FALSE /\ queuedKind' = "content" /\ ReDerive(queuedKind)
       ELSE UNCHANGED <<queued, queuedKind, flight, again, typed>>

\* A mutation: the queued one is forgotten.
EndFlight_Forgets == flight' = Idle /\ again' = None

\* The finally of reDerive: a queued one starts, the guard is not asked again.
EndFlight ==
  IF again = None
    THEN flight' = Idle /\ UNCHANGED again
    ELSE flight' = [at |-> "snapshot", kind |-> again, taken |-> None] /\ again' = None

----------------------------------------------------------------------------
(* The page                                                                 *)

\* loadAppGraph: the graph is torn down and the envelope is the whole page.
Load(env) ==
  /\ envelope' = env /\ other' = env.body
  /\ surface' = IF env.body = None THEN SurfaceOf(env) ELSE None

\* shapeOf: the surface against the one materialized last.
Same(a, b) == a = b

\* applyContentChange: a root that changed is destroyed and attached again. (destroyRoot takes no surface for a root.)
Reconcile(env) ==
  /\ envelope' = env /\ UNCHANGED other
  /\ IF Same(surface, SurfaceOf(env))
       THEN UNCHANGED surface
       ELSE surface' = SurfaceOf(env)

----------------------------------------------------------------------------
(* The main process                                                         *)

\* An edit of an agent or a journal operation: executed and announced under the default's name.
Write(n) ==
  /\ Room /\ Spend
  /\ store' = [store EXCEPT ![n] = @ + 1]
  /\ UNCHANGED default /\ Post("changed")
  /\ UNCHANGED <<hostVars, pageVars, editVars, workVars, lapse, typed>>

\* An edit-commit reaches the store, or the store refuses it; the answer follows the broadcast.
CommitRuns(d) ==
  /\ d \in committing /\ Len(wire) + 1 < MaxWire
  /\ committing' = committing \ {d}
  /\ \/ /\ store' = [store EXCEPT ![d] = @ + 1]
        /\ wire' = wire \o <<[what |-> "changed", of |-> default], [what |-> "committed", of |-> d]>>
        /\ UNCHANGED used
     \/ /\ Spend
        /\ wire' = Append(wire, [what |-> "refused", of |-> d])
        /\ UNCHANGED store
  /\ UNCHANGED <<default, hostVars, pageVars, dirty, queued, queuedKind, failed, workVars, lapse, typed>>

SetTemplate ==
  /\ Room /\ Spend
  /\ UNCHANGED <<store, default>> /\ Post("template")
  /\ UNCHANGED <<hostVars, pageVars, editVars, workVars, lapse, typed>>

\* registryManage: the default is another store, whose texts are others; the answer asks for a rebuild.
SwitchDefault(s) ==
  /\ Room /\ phase = "up" /\ s # default /\ Spend
  /\ default' = s /\ store' = [n \in Nodes |-> store[n] + 10]
  /\ Post("managed")
  /\ UNCHANGED <<hostVars, pageVars, editVars, workVars, lapse, typed>>

----------------------------------------------------------------------------
(* Boot and re-derive                                                       *)

BootSnapshot ==
  /\ phase = "snapshot"
  /\ \/ /\ phase' = "rest" /\ snapshot' = store /\ lastStore' = default
        /\ UNCHANGED used
     \/ /\ phase' = "aborted" /\ Spend
        /\ UNCHANGED <<snapshot, lastStore>>
  /\ UNCHANGED <<mainVars, wire, current, tab, envelope, pageVars, editVars, workVars, lapse, typed>>

\* The document heads, the template and the settings are in: the first document is loaded
\* and only then the host subscribes to the broadcasts.
BootRest ==
  /\ phase = "rest"
  /\ \/ /\ phase' = "up" /\ UNCHANGED used
        /\ \E d \in Docs : current' = d /\ Load(DocBody(snapshot, d))
     \/ /\ phase' = "aborted" /\ Spend
        /\ UNCHANGED <<current, envelope, pageVars>>
  /\ UNCHANGED <<mainVars, wire, snapshot, lastStore, tab, editVars, workVars, lapse, typed>>

FetchSnapshot ==
  /\ flight.at = "snapshot"
  /\ \/ /\ flight' = [flight EXCEPT !.at = "heads", !.taken = [store |-> store, of |-> default]]
        /\ lapse' = FALSE /\ UNCHANGED <<again, used>>
     \/ EndFlight /\ lapse' = TRUE /\ Spend
  /\ UNCHANGED <<mainVars, wire, hostVars, pageVars, editVars, asking, refreshing, typed>>

FetchHeads ==
  /\ flight.at = "heads"
  /\ \/ /\ flight' = [flight EXCEPT !.at = "journal"]
        /\ snapshot' = flight.taken.store /\ lastStore' = flight.taken.of
        /\ UNCHANGED <<again, lapse, used>>
     \/ /\ EndFlight /\ lapse' = TRUE /\ Spend
        /\ UNCHANGED <<snapshot, lastStore>>
  /\ UNCHANGED <<mainVars, wire, phase, current, tab, envelope, pageVars, editVars, asking, refreshing, typed>>

\* Security and journal are in: the current document of this moment, the text of the snapshot taken.
FetchJournal ==
  /\ flight.at = "journal"
  /\ LET env == DocBody(flight.taken.store, current)
     IN  IF flight.kind = "content"
           THEN Reconcile(env) /\ EndFlight
           ELSE /\ envelope' = env /\ flight' = [flight EXCEPT !.at = "settings"]
                /\ UNCHANGED <<pageVars, again>>
  /\ UNCHANGED <<mainVars, wire, phase, snapshot, lastStore, current, tab, editVars, asking, refreshing,
                 lapse, typed, used>>

\* The refresh() a re-derive awaits: it loads the envelope of this moment.
FetchSettings ==
  /\ flight.at = "settings"
  /\ Load(envelope) /\ EndFlight
  /\ UNCHANGED <<mainVars, wire, phase, snapshot, lastStore, current, tab, editVars, asking, refreshing,
                 lapse, typed, used>>

\* The refresh() of a pane whose data came, beside every guard.
PaneRefresh ==
  /\ phase = "up" /\ ~refreshing /\ Spend
  /\ refreshing' = TRUE
  /\ UNCHANGED <<mainVars, wire, hostVars, pageVars, editVars, flight, again, asking, lapse, typed>>

PaneRefreshed ==
  /\ refreshing /\ refreshing' = FALSE
  /\ Load(envelope)
  /\ UNCHANGED <<mainVars, wire, phase, snapshot, lastStore, current, tab, editVars, flight, again, asking,
                 lapse, typed, used>>

----------------------------------------------------------------------------
(* What the renderer hears                                                  *)

\* onRagStoreChanged: a broadcast of a store the host does not show is dropped.
Ours(m) == m.of = lastStore

Changed(m) ==
  IF Ours(m)
    THEN RequestRebuild("content") /\ UNCHANGED lapse
    ELSE lapse' = TRUE /\ UNCHANGED <<queued, queuedKind, flight, again, typed>>

Hear ==
  /\ wire # <<>> /\ wire' = Tail(wire)
  /\ LET m == Head(wire)
     IN  IF phase # "up"
           THEN /\ lapse' = TRUE
                /\ UNCHANGED <<dirty, queued, queuedKind, failed, flight, again, typed>>
           ELSE \/ /\ m.what = "changed" /\ Changed(m)
                   /\ UNCHANGED <<dirty, failed>>
                \/ /\ m.what = "template" /\ RequestRebuild("template")
                   /\ UNCHANGED <<dirty, failed, lapse>>
                \/ /\ m.what = "settings" /\ RequestRebuild("operator")
                   /\ UNCHANGED <<dirty, failed, lapse>>
                \/ /\ m.what = "managed" /\ RequestRebuild("content")
                   /\ UNCHANGED <<dirty, failed, lapse>>
                \/ /\ m.what = "committed" /\ Clean(m.of) /\ failed' = failed \ {m.of}
                   /\ UNCHANGED lapse
                \/ /\ m.what = "refused" /\ failed' = failed \cup {m.of}
                   /\ UNCHANGED <<dirty, queued, queuedKind, flight, again, typed, lapse>>
  /\ UNCHANGED <<mainVars, hostVars, pageVars, committing, asking, refreshing, used>>

----------------------------------------------------------------------------
(* The user                                                                 *)

\* The page-edit surface takes input: the page's subject is the current document.
Input ==
  /\ phase = "up" /\ surface # None /\ Spend
  /\ dirty' = dirty \cup {current} /\ typed' = TRUE
  /\ UNCHANGED <<mainVars, wire, hostVars, pageVars, queued, queuedKind, committing, failed, workVars, lapse>>

\* The surface loses the focus.  The commit is refused at once when the page shows no node of that name.
Blur ==
  /\ surface # None /\ current \in dirty \ committing
  /\ \/ /\ current \in BackRefs
        /\ committing' = committing \cup {current}
        /\ UNCHANGED <<dirty, queued, queuedKind, failed, flight, again, typed>>
     \/ /\ current \notin BackRefs
        /\ Clean(current) /\ failed' = failed \cup {current}
        /\ UNCHANGED committing
  /\ UNCHANGED <<mainVars, wire, hostVars, pageVars, asking, refreshing, lapse, used>>

\* The document list: the current document changes at once, its page with the rebuild.
SelectDocument(d) ==
  /\ phase = "up" /\ d # current /\ Spend
  /\ current' = d /\ RequestRebuild("content")
  /\ UNCHANGED <<mainVars, wire, phase, snapshot, lastStore, tab, envelope, pageVars, dirty, committing, failed,
                 asking, refreshing, lapse>>

\* A tab becomes active: the strip saves itself, which announces new settings, and mounts its body.
MountTab(t) ==
  /\ phase = "up" /\ Room /\ t # tab /\ Spend
  /\ tab' = t
  /\ UNCHANGED <<store, default>> /\ Post("settings")
  /\ \/ /\ t \in Docs /\ current' = t /\ Load(DocBody(snapshot, t))
        /\ UNCHANGED asking
     \/ /\ t \in Bodies \ {Search} /\ Load([body |-> t, doc |-> None, text |-> None])
        /\ UNCHANGED <<current, asking>>
     \/ /\ t = Search /\ asking' = TRUE
        /\ UNCHANGED <<current, envelope, pageVars>>
  /\ UNCHANGED <<phase, snapshot, lastStore, editVars, flight, again, refreshing, lapse, typed>>

\* mountSearchStage goes on: whatever tab is active now.
SearchAnswered ==
  /\ asking /\ asking' = FALSE
  /\ Load([body |-> Search, doc |-> None, text |-> None])
  /\ UNCHANGED <<mainVars, wire, phase, snapshot, lastStore, current, tab, editVars, flight, again, refreshing,
                 lapse, typed, used>>

----------------------------------------------------------------------------
Next ==
  \/ \E n \in Nodes : Write(n)
  \/ \E d \in Docs : CommitRuns(d)
  \/ SetTemplate
  \/ \E s \in Stores : SwitchDefault(s)
  \/ BootSnapshot \/ BootRest
  \/ FetchSnapshot \/ FetchHeads \/ FetchJournal \/ FetchSettings
  \/ PaneRefresh \/ PaneRefreshed \/ Hear
  \/ Input \/ Blur
  \/ \E d \in Docs : SelectDocument(d)
  \/ \E t \in Docs \cup Bodies : MountTab(t)
  \/ SearchAnswered

Spec == Init /\ [][Next]_vars

----------------------------------------------------------------------------
(* Properties                                                               *)

Quiet == phase = "up" /\ wire = <<>> /\ flight.at = "idle" /\ committing = {} /\ ~asking /\ ~refreshing

\* When nothing is under way, nothing typed waits for its commit and no announcement went in vain,
\* no rebuild is left queued, and a page that shows a document shows the current one as the store has it
\* now, in its newest surface: whatever was written, selected or asked for while a re-derive was awaiting.
SettledPageIsStore ==
  (Quiet /\ dirty = {} /\ ~lapse) =>
     /\ ~queued
     /\ other = None =>
          surface = [doc |-> current, text |-> TextOf(store, current)]

\* What the dirty-edit guard comes to: the page is torn down under uncommitted text only by a re-derive
\* during which there was input, by a tab that mounts, or by a pane's refresh.
GuardHolds ==
  [][ (dirty # {} /\ pageVars' # pageVars)
        => \/ typed
           \/ tab' # tab
           \/ asking /\ ~asking'
           \/ refreshing /\ ~refreshing' ]_vars

\* The comment on the page surface seams: a failed commit keeps the dirty flag, the text is the only copy.
FailedCommitKeepsDirty == failed \subseteq dirty
=============================================================================
