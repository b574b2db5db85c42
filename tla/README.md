# Astrographer: a TLA+ model of the knowledge-store program

Astrographer is an Electron program that keeps documents as graphs of nodes and
edges in local JSON stores, shows and edits them in a page, answers retrieval
queries over them (lexically or with embedding vectors), and serves all of this
to agents as MCP tools.  This directory holds specifications of its core, TLC
configurations that check them on small instances, and proofs checked by TLAPS.
The source the modules translate is under `src/src/`; every definition's lines
are in `PROJECT.json` under `map`.

Contents: 1 inventory, 2 the modules and how they correspond to the code,
3 the runs, 4 bounds and symmetry, 5 fairness, 6 proofs, 7 findings and other
disagreements, 8 what is not modelled, 9 plan.

## 1. Inventory

| Part | State | Operations | Hard because | Correct when |
|---|---|---|---|---|
| Knowledge store (`rag-store.ts`, `adjacency.ts`) | maps of nodes and edges with quarantine flags, journal and cursor, lazy adjacency index, the file | put / remove node and edge, undo, redo, `applyBatch`, load, persist | a cascade is one step for the user; a batch fails half way; a write fails silently; the process dies | undo and redo move along one history; a batch is one step or none; the file is a point of that history; no active edge lacks its nodes; the index is never stale |
| Write queue and teardown (`rag-store.ts`, `rag-store-remove.ts`) | promise chain, torn-down latch | enqueue, run, teardown | callers hold a removed store | accepted writes land, later ones are refused |
| Retrieval engine (`retrieval.ts`) | lexical index, embedder, in-flight counter, stopped latch | query, `onStoreChanged`, `setEmbedder`, teardown | queries overlap the release and the promotion | never stopped mid-query; promoted once |
| Embedding cache (`vector-cache.ts`) | map, dirty flags, debounce timer, write chain, file | get, set, prune, flush | writes coalesce, overlap, fail | the last set is written; flush is durable |
| Vector boot (`vector-boot.ts`, `embeddings.ts`, `rag-store-default.ts`) | snapshot, vector index, phase, abort token | start, build, reconcile, adopt, drain, prune, promote, teardown; index maintenance | some fifteen awaits, edits and teardown at each | no gap at the promotion; nothing after the teardown |
| Store registry at run time (`rag-store-runtime.ts`, `rag-store-registry*.ts`, `rag-store-directory.ts`) | registry file, live directory, default and its boot | add, remove, rename, set / rename default, restart | file, directory and default must agree, across a reassignment that awaits | live is registry; one boot; one store object per file |
| Edit operations (`edit-ops.ts`) | none of their own | set content / props / subtree / type / metadata, create, delete, split, merge, rich text, edges | several queued writes in one operation | no lost update, no half merge |
| Page of the renderer (`renderer.ts`, `edit-controller.ts`, `main.ts` broadcasts) | the rendered version of each section, dirty subjects, queued rebuild, documents and panes | boot, re-derive, commit, tab mount, store switch | a dozen awaits in the re-derive, typing during each | the page that rests shows the store; no rebuild under the user's hands |
| Graph of the page (`sidebar-panes.ts`, `pane-graph.ts`, `content-reconcile.ts`, `runtime.ts`) | roots per mounted document | reconcile, mount, unmount, toggle | shared sections, change during a flight | no surface older than what is around it |
| Tab strip, layout (`tab-state.ts`, `tab-strip.ts`, `layout-state.ts`, `pane-drag.ts`, `operator-settings-store.ts`) | open tabs, zones, gesture, the settings file | open, close, move, drag, restart | long sequences, hand-made files, messages that overtake | order, open set and active tab agree; page and main agree |
| Calls to the page (`renderer-backend.ts`) | readiness, pending requests and timers | send, answer, reload, close | late answers, reloads | an answer is of its own request |
| Offered tools, settings, modules (`mcp-server.ts`, `security*.ts`, `module-store.ts`, `extensions.ts`) | gate, registered tools, two files | patch, install, restart | live against saved, two transports | no tool outside the gate; a restart keeps what was saved |
| Engine client (`engine-*.ts`, `idempotency-registry.ts`) | readiness, registry of requests, stream | calls with retries, stream | lost answers, frames after an end | one document per request; a stream is whole or fails |
| Reading (`retrieval.ts`, `traversal.ts`, `doc-flow.ts`, `backlinks.ts`, `merge-store-results.ts`, `query-audit.ts`) | none | queries, documents | cycles, shared children, a store that changes meanwhile | equal to a reference definition |
| Import (`markdown-*.ts`, `import-directory.ts`) | none | selection, parsing, one batch | ids and paths collide, imports again | reads as written |
| Measurement and tests (`o0-*.ts`, `dom-shim.ts`, `battery-host.ts`, scripts) | - | - | - | outside the program's own logic |

Interactions.  The page calls main over IPC channels, agents call it over MCP;
both reach the same handlers.  A handler takes the default store from the
runtime (or resolves a name in the directory), calls the store, whose
asynchronous methods run one at a time through the write queue, then tells the
retrieval engine which nodes changed (`onStoreChanged`, not awaited) and
broadcasts the change to the page, which re-derives itself.  The vector
controller of the default store builds its index from the store, writes through
the cache, and at the end hands the engine a vector embedder.  The registry
runtime adds, removes and renames stores while all this runs, and drains an
engine before it stops it.

JavaScript runs one handler at a time up to its next `await`; a step of every
module is such a stretch.  What interleaves is what the code awaits.

## 2. Modules

| Module | Models | Uses |
|---|---|---|
| `RagStore` | the store: maps, journal, batch, undo, file, index | - |
| `UndoHistory` | abstract: a timeline of contents and a point on it | - |
| `RagStoreHistory` | `RagStore` with the timeline as history, refining `UndoHistory` | `RagStore`, `UndoHistory` |
| `RetrievalEngine` | in-flight counter, promotion, stop of one engine | - |
| `StoreRelease` | queue, teardown and release of a removed store | `RetrievalEngine` |
| `VectorCache` | the embedding cache and its file, under any client | - |
| `VectorBoot` | build, maintenance and release of the vector engine | `RetrievalEngine`, `VectorCache` |
| `RagStoreRuntime` | registry file, directory, default, boots, restart | - |
| `EditOps` | edit operations as sequences of queued writes | - |
| `Stage` | boot, re-derive, edits and commits of the page | - |
| `PageGraph` | the roots of the mounted documents in the page's graph | - |
| `Tabs`, `Layout` | the tab strip; zones, panes and gestures; each with its settings | - |
| `RendererBackend` | tool calls on their way to the page and back | - |
| `ToolServer` | security settings, gate, tools, modules, restarts | - |
| `CreateTools`, `EngineStream` | creates with repeats and retries; one stream | - |
| `Filtering` | what a filter keeps of a list: its members in their order | - |
| `LexicalIndex` | the lexical index and its maintenance | - |
| `DocFlow` | pure: the nodes and the flow that a list of edges makes a document of | `Filtering` |
| `DocumentFlow`, `RetrievalQuery`, `FanOut` | the documents, a query of one store, a query of all | `DocFlow`; `Filtering`; - |
| `MarkdownImport` | selection, blocks, document, batch, imports again | `DocFlow` |
| `MCRagStore`, `MCRagStoreRuntime`, `MCVectorBoot`, `MCEditOps`, `MCStage`, `MCTabs` | instances for TLC | the module named |
| `MCRenderer`, `MCServices`, `MCKnowledge` | several components for one run | see below |
| `*Proofs` | proofs | see 6 |

`MCRenderer` (stage, graph, strip, layout), `MCServices` (cache, release, boot,
backend, tools, creates, stream, import) and `MCKnowledge` (store with cascades,
store with batches, lexical index, flows, queries, all stores) put components
beside each other that share no state.  A variable `part` says which one moves;
the others rest in a fixed state, so that the run explores the sum of the
components and not their product.  Components that do interact are composed in
their own modules: `StoreRelease` and `VectorBoot` drive the engine and the
cache they extend.

**RagStore.**  `db` is the two maps, with the in-memory quarantine flags and the
records whose stored hash does not match; `journal`, `cursor`, `adj` and `disk`
are the code's.  A handler is one action, including its `pushJournal`,
`invalidateAdjacency` and `persist`.  The two handlers that loop over a list
(`applyBatchSync`, undo or redo of a batch entry) run one operation per step,
with `task` holding the loop's locals: no other handler runs meanwhile, but the
process may die.  `RagStoreHistory` adds `timeline`, the contents between the
entries of the journal, and `savedTimeline`, those the file leads to; its
refinement says that an undo restores exactly the previous content whatever
inverse operations the journal stores, that a batch is one point or none, and
that a crash returns to a saved point with the undo stack of that point.  A
content is the nodes and the edges callers may read, without the state of an
edge: an update of role and state is journaled as a change of the role alone, and
its undo leaves the state (section 7).

**RetrievalEngine, StoreRelease.**  `running` is where each caller's query is,
`inFlight` the code's counter.  `StoreRelease` gives callers an entry they
looked up (`mayQuery`, `mayWrite`), and follows `drainAndReleaseEntry`: drain,
teardown of the store (awaited), second drain, synchronous stop.

**VectorCache.**  `entries` is the map, `dirty`, `writeQueued` and `timer` the
coalescing, `jobs` the chained writes, `flush` a caller that waits.  A write
takes the map as it is when it runs; it may fail, and the program may restart.

**VectorBoot.**  `pc` is the await the build is at; `snap`, `left`, `chunk`,
`listed`, `answer` are its locals.  `Touch` is the embedder's `onStoreChanged`
and runs inside each edit's action, up to its wait for the provider; `hooks` are
the runs that wait.  `Undo` is the journal handler of `main.ts`, which tells the
engine of no node.  `release` is the reassignment of the default: drain, latch,
abort token, wait for the build, stop.  History: `changed` (nodes that changed
since the reconcile pass began) and `exact` (per node, whether its runs ever
overlapped, "raced", or its last change was not told, "untold"; the first is for
good, see 6).

**RagStoreRuntime.**  An object is a store opened under a name; `entries` says
which object serves which name, `defaultEntry` which one the interface uses;
`current`, `defaultFile` and `vectorBoot` are the runtime's other bindings.
`HotApply` writes the registry and synchronises the directory, with the drift
path when the file was edited by hand.  `SetDefault` ends where the code awaits
the release of the old boot, `Reassigned` is the rest.  `touched`, `unread` and
`moved` are history: the file was edited by hand, the directory was not made of
it since, the default was renamed away from its file.

**EditOps.**  `call` is one operation per caller: `pc` says whether its write is
queued or answered, `next` what it does then.  A write whose caller runs in the
settling of another one (`running`) is not queued (`inQueue` in the code).
`acked` is history: what the last operation on a node left if none overlapped it.

**Stage.**  `page` is the version of each section on the page, `dirty` the
edit controller's set, `rebuild` its queued rebuild, `flight` where the
re-derive is; `wire` and the queues are broadcasts and answers on their way.
Text is the version of a node.  **PageGraph** is the graph behind it: which
roots each document has, what is scoped per document, and the classification of
a change.  Roots attached beside the surface are one attachment, as their ids
differ; one whose roots are all destroyed stays as an empty one.

**Tabs, Layout.**  They carry their record, the operations, the write-through to
the settings and its broadcast, and the file; `Layout` also the gesture in
progress.  `Written` are the tab sets a hand may have left in the file, `Asked`
the searches `provident.focus` is asked for by name.  Asked with `newTab` for one
that is open, it opens it again under the same name; the history variable
`doubled` collects these names, and those the first file has twice.

**RendererBackend, ToolServer, CreateTools, EngineStream.**  Requests carry
their number; a page has a generation.  `ToolServer` keeps what is live, what is
on disk and what a restart reads apart.  `served` are the tools of each open
server, the live one's or those of the POSTs in progress, `registered` the map of
handles they share: a change of the gate switches only what that map holds.
`CreateTools` keeps
what the engine did apart from what its answers told; `EngineStream` is the
iterator against frames, errors and ends in any order.

**LexicalIndex, DocumentFlow, RetrievalQuery, FanOut, MarkdownImport.**  The
algorithms as recursive functions, inside the handlers that call them, compared with reference definitions on the graph (reachability,
distances, chains) or with the text itself.  A loop of the code over a list is a
function on the numbers of its rounds.  An import's text is read into the lines
of each heading and a list of the nodes below them (`Outline`); their numbers and
edges are then defined by position, as the code's counters give them.  `FanOut` asks one store per step, so that
the registry may change between two.

## 3. Runs

Seven runs pass:

| Run | Question and answer |
|---|---|
| `rag_store_lost_writes` | Removals, batches, updates of roles and states; any file write may fail silently, the process may die: the journal is an undo history (`ImplementsUndoHistory`), the file is one point of it with the undo stack of that point (`FileIsOnePoint`), edges keep their nodes, the adjacency index is of the edges of now. |
| `vector_boot_build` | The build against edits, undos, a reassignment and a bad provider: index consistent until the promotion, no gap at it, the pruned cache keeps what nobody changed, nothing after a teardown, flush is durable, maintenance exact unless embeds overlap or an undo is not told. |
| `rag_store_runtime` | Any sequence of registry operations, hand edits and restarts: live is registry, after a hand edit from the next change of the list on; one boot, live content is what a restart would load unless the default was renamed away from its file. |
| `edit_ops` | Two operations of every kind on any small graph, overlapping or not: alone they have their whole effect and no other; only an operation on a node changes what another one on it wrote. |
| `renderer` | Stage: the page that rests shows the store, and no rebuild replaces what the user typed meanwhile.  Graph: a content-only pass leaves no surface stale.  Strip: consistent after any operation, file or restart, two searches of one name only where a focus asked for it, and survives restarts.  Layout: page and main agree once messages are delivered. |
| `services` | Eight services: no query cut off, no accepted write lost, the released file untouched, releases end; changes reach the cache file; an answer is of its request and nobody is stranded; no tool outside the gate; settings survive; one document per request; streams whole; imported files read as written. |
| `knowledge` | With two nodes, through cascades in every order and through batches of two operations, the journal refines `UndoHistory` (`StoresAreHistories`); the lexical index is that of the store; documents are chains, pages are documents; contexts, walks, filters and queries of all stores equal their reference. |

Five runs show a disagreement: `stage_lost_text`, `tabs_early_focus`,
`tools_boot`, `import_shortened`, `page_renders_once` (section 7).

Deadlock is checked only in `rag_store_lost_writes`: elsewhere the system may
rest (a promoted boot with its edits used up, a registry nobody changes, calls
that are all answered).

## 4. Bounds and symmetry

* `RagStore*`: two nodes and two edges are a cascade of two, a self-edge and a
  shared endpoint; the forms of the journal are shared out between the runs
  (type and endpoints, role and state, batches); a journal of one or two is
  trimmed and truncated after three operations; a batch of two has a first
  operation to take back.  Sequences are not bounded otherwise.
* `StoreRelease`: three callers give one inside, one before, one after the
  drain.  Each may call again and again.
* `VectorCache`: three chained writes are one running, one it coalesces into,
  and a flush behind them.  `MaxJobs` also assumes no more are chained.
* `VectorBoot`: chunks of one node make the build of two nodes a loop; two
  edits, one millisecond of clock (an edit in the snapshot's own millisecond and
  one after it), two concurrent runs of `onStoreChanged`.  In `services` one node
  and no undo, but failing writes, a query and liveness.  The proofs have no
  bound on edits, time or runs.
* `RagStoreRuntime`: three names are a default, the next default and one that
  stays; one explicit path shared or not; one edit; one hand edit between
  restarts; five generations of objects, more than ever live at once.
* `EditOps`: two callers and two calls; three first nodes with no edge, one, or
  two of every kind; texts of two symbols, so that a split has one place.  A call
  that would need an id beyond `NodeIds` or `EdgeIds` is not made; the instance has
  enough for all calls.
* `Stage`: two documents of which one is a section of the other, three acts of
  users or agents, three messages under way.  `PageGraph`: two pages that share a
  section with a child, three acts.  `Tabs`: one document, one search
  that a focus may ask for, those the strip names itself, two tabs, one patch under way.  `Layout`: two panes, two zones, three changes and
  two patches (a change, one made on it, and one that overtakes).
* `RendererBackend`: two clients, three requests, three page loads.  `ToolServer`: one
  module with one group, two POSTs at once; the settings files fail under stdio only
  (`MayFail`; a failed write does not touch the tools).  `CreateTools`: two slots, a registry of one entry, one
  retry.  `EngineStream`: four frames.
* `LexicalIndex`: two nodes, two terms, three texts; notices of up to two ids
  (`MaxNotice`), one of them twice too; any number of changes.
  `DocumentFlow`: three sections, two documents, any two writes on stores that
  are empty or hold a flow.
  `RetrievalQuery`: four nodes, depth and hops one (a cycle and a path past the
  bound exist).  `FanOut`: three stores, two changes of the registry, two queries.
* `MarkdownImport`: every text of two lines, or of two under a heading, then
  longer ones; two imports, one change between.

Symmetry is used where ids are interchangeable and the properties are not
liveness: store nodes and edges, boot nodes, texts and hook runs, store names,
callers of edits, stores of the page.  `services`, which checks liveness, has none.

## 5. Fairness

Only `services` needs it: for the cache, the release of a store and the boot.
Weak fairness on queued jobs, timers and continuations: the event loop runs
them.  Weak fairness on a query's settling and on the provider's answers: both
end in a timeout of the HTTP client or in synchronous code (the timeout ends with
the head of the response, `embeddings.ts:138`: that its body ends, too, is assumed).  None on edits,
queries, removals or reassignments: nobody has to make them.  `DirtyIsWritten`
(checked as `ChangesReachTheFile`) needs nothing of the file system: a failed
attempt is an attempt.  A part that rests must not be owed a step, so
`BootFairness` restates the boot's fairness with `part = "boot"` in each action.

## 6. Proofs

Checked by TLAPS for every value of the constants that satisfies the modules'
named assumptions: ids and callers form finite sets, numbers are natural,
markers such as "no node" are none of the data.  Each inductive invariant was
first checked by TLC on a small instance.

| Module | Theorem | Says |
|---|---|---|
| `RagStoreProofs` | `JournalIsUndoHistory` | the store implements `UndoHistory`, step by step |
| `RagStoreProofs` | `FileIsAlwaysOnePoint`, `EdgesStayAnchored`, `AdjacencyStaysFresh`, `TypeCorrect` | the file, the edges, the index; types of maps, journal, file and loops |
| `ServicesProofs` | `NeverStopsMidQuery`, `AcceptedWritesLand`, `ReleasedFileStrands`, `CounterNeverDrifts`, `TypeCorrect` | the release of a removed store |
| `VectorBootProofs` | `FlushIsDurable`, `CleanMeansCurrent`, `NoWriteIsDropped`, `CacheTypeCorrect` | the cache under any client |
| `VectorBootProofs` | `IndexConsistentUntilPromotion`, `MaintenanceIsExact`, `PassesCover`, `PruneKeepsUnchanged`, `TeardownHolds` | every property of the boot run |
| `VectorBootProofs` | `BootUsesTheCache`, `FlushOfBootIsDurable` | the boot implements the cache's client, step by step, so what holds of the cache holds in the boot |
| `RuntimeProofs` | `LiveFollowsRegistry`, `RestartReadsMemory`, `OneBootAtATime`, `VectorServesDefault`, `TypeCorrect` | the registry at run time |
| `EditOpsProofs` | `EditsStay` | what an unraced operation wrote of a node stays |
| `EditOpsProofs` | `SolosAreWhole` | an operation nothing overlaps has its whole effect and no other |
| `RendererProofs` | `PageSettlesOnTheStore`, `GuardHoldsAlways`, `LayoutHasConverged`, `SurfaceFollowsStore` | the page, the layout and the page's graph |
| `RendererProofs` | `StripAlwaysConsistent`, `StripAlwaysSurvives` | the tab strip, and what is left of it after a reload or a restart |
| `ServicesProofs` | `AnswersAreOwn`, `ServedToolsAreAllowed`, `SettingsSurviveRestart`, `OneDocument`, `StreamsAreWhole` | the services |
| `KnowledgeProofs` | `IndexStaysExact` | the lexical index is the one a rebuild would make |
| `KnowledgeProofs` | `ContextStaysBall`, `WalksEndRight`, `AnswersStayOfNow` | a query of one store: context, walks to targets, filters |
| `KnowledgeProofs` | `FlowsStayChains`, `PagesStayDocuments` | an accepted document is one chain, and its page is all of it, in order |
| `KnowledgeProofs` | `FanOutsStayWhole` | a query of all stores nobody disturbs asks each once, loses no hit, cites each once |
| `ImportProofs` | `ImportsReadAsWritten` | what is read of an imported document is the text of its file, in order, each line once |

The arguments:

* `RagStoreProofs`: `TypeInv` adds that every entry carries records that undo and
  redo may put back, that the cursor lies inside the journal, and that a running
  loop has operations left of the right kind.  `HistoryInv` is about what entries
  mean.  Entry i of the journal leads from content i of the timeline to content
  i + 1 when it is redone, from any store that holds the first, and back when it is
  undone (`Connects`); a batch entry has operations that are accepted one after the
  other on both ways (`Replays`), so its undo never meets a rejected one
  (`ReplayNeverFails`).  The same holds of the file (`FileHistory`), and of the loop
  under way: what it did leads from its snapshot to the maps, what it noted as
  inverse leads back, what a replay has yet to do leads to its target
  (`TaskHistory`).  Per kind of write one lemma shows that the entry it journals
  connects (`NodeEntryConnects`, `EdgeEntryConnects`, `RemovalIsChain` for a cascade
  in any order, `OpInverseReplaysBack` for an operation of a batch), and
  `PushKeeps` that discarding the redo tail and trimming the front keep what is
  connected aligned.  `StepKinds` then reduces every handler to a write, a move of
  the cursor, a crash or a step callers do not see; the invariant and the
  refinement are each proved for these four.  The invariant was too weak at first in
  two places TLC had not shown at one state per edge: the undo of a role change keeps
  the new state (hence `Content`), and a replay's target must be next to the cursor.
* `ServicesProofs`, the release: `LatchedByPhase` says which phase implies which latch:
  without it nothing excludes a stop in a phase where callers may still enter.
  The counter is exact because entering adds one to a finite set and settling
  removes one.
* `VectorBootProofs`, the cache: `FlushBounded` says that a waiting flush never waits for
  more jobs than there are, so the job it ends on wrote everything it owes.
* `VectorBootProofs`, the boot: `BootIInv` says, per await of the build, what the nodes
  have: before the promotion nobody else touches the index (`BuildOwnsIndex`),
  embedded nodes have the snapshot's text (`Embedding`), the pass over them
  leaves what it visited covered (`Reconciling`), so does the next (`Adopting`),
  what is asked of the provider is the live text of an unchanged node
  (`Awaited`), hence all nodes at the end (`Passed`); the vectors are in the cache
  (`Cached`).  After it, a node whose runs never overlapped has at most one,
  which carries its live text (`Maintained`).  The attempt corrected the model:
  an undo used to clear the history of an overlap, which let a node pass as
  never raced that two answers had listed twice; the overlap is now remembered
  for good.
* `RuntimeProofs`: `RuntimeIInv` is the types with `Agreement` of file, directory
  and bindings while the file is untouched by hand; `Follows` carries the directory
  past a hand edit, to the next operation that makes it of the file.
* `EditOpsProofs`: `EditInv` follows each write from the operation to the store:
  what a call in progress is expected to leave of a record is there, waits in
  the queue or, for the source of a merge, is still to be sent (`AllLanded`);
  every queued write is of a caller that waits for it and leaves what that caller
  is expected to leave (`QueueOK`, `WriteFits`); two calls that write one record
  both know that they are raced (`TableOK`).  `SendKeeps` is the argument for
  one write, queued or immediate; the actions only show what they send.
  `SoloInv` is about an operation that runs alone.  Then one call is in progress
  and at most one of its writes on its way, and `Progress` says, per stage, how far
  the store is from what the operation found to what it should leave: for a merge,
  which edges were moved (`Moving`, with `Kept`, `Added` and `Single` for the edges
  that stay, are new and may not be doubled) and which the lists under way still
  name (`Walking`).  `FirstProgress` gives it for the first writes, and `Numbered`
  that edges can be given ids at the start.
* `RendererProofs`: `PageIInv` follows each snapshot from the await that took it
  to the page (`SnapshotsFollow`, `SurfacesFollow`): what is older than the store
  has a message, a flight or a queued rebuild that will say so.  `GuardIInv`
  says that whoever rebuilds asked the guard after the last keystroke
  (`TypedMeanwhile`).  `LayoutIInv` orders broadcasts and patches: the last patch
  under way decides (`PatchesDecide`), broadcasts follow main's record.  For the
  graph, `GraphIInv` says that the surface attached last shows only blocks of the
  last envelope (`Shows`): a reconciliation that keeps it does so because nothing
  in it changed (`ReconcileKeeps`); and that authored and surface blocks are the
  cached snapshot's (`FreshBlocks`), except between the await that took the next
  snapshot and the step that applies it.  `CacheFollows` says that a cache older
  than the store is going to be replaced: a re-derive will ask, or a change it has
  not heard of, or the newest snapshot, is on its way.  For the strip, `TabIInv`
  says that the strip, every patch on its way and the settings are tab sets
  (`IsStrip`: the order lists each open tab once, the active one is open, searches
  have names of their own but for those in `doubled`, which only grows: `Widened`), that the last patch, or else the settings, is the strip
  whenever that has a tab, and that a file whose last write did not fail coerces to
  the settings.  Coercion makes a tab set of any file and leaves one as it is
  (`CoercedIs`, `CoercedStrip`); each operation keeps one (`AppendKeeps`,
  `CloseKeeps`, `ReorderKeeps`, ...).  The operations that filter a list take the
  members at a set of positions (`AtPositions`), whose ranks exist (`RanksExist`) by
  a minimal counterexample: `Least`, that a set of naturals has a least member, does
  the work of induction and follows from the library's theorem on strict subsets.
  `WrittenAssumption` only gives a file's tabs their shape; that two of them may be
  one search is in `doubled` from the start.
* `ServicesProofs`, the others: one invariant per service.  Numbers are given once
  (`NumbersMatch`) and each has one promise (`OnePromise`); the gate and the files
  agree except where a write failed (`OneGate`), and what the shared map holds is
  good for the gate (`HandlesFollow`), where a module's handle never leaves it; per request
  there is one document while its registry entry or its call lives; a stream's
  delivered frames are a prefix of the engine's.
* `KnowledgeProofs` proves what loops compute.  Induction over the rounds of a loop
  is stated of a set of round numbers and follows from `LeastOf`, that a non-empty
  set of naturals has a least member (`UpTo`); that the recursive function exists
  is `IterationExists`.  The index: `IsIndex` says what a table must hold, `NotifiedIs`
  that each id of a notice leaves it so, `ShiftCounts` that the documents a term is in
  are counted right.  A query of one store: the context after a round is the ball of that
  radius (`Grown`, `InBall`, `IsBall`); a walk of the code is a path of the graph and every
  path that may not be left out is walked (`PathEnds`, `PathCircles`, `Walked`),
  which `QueryIInv` carries through the query's awaits.  Documents: `FlowIInv`
  says that edges join nodes of the store and none is there twice; `ClosureIs`, that
  the sections found are the least set closed under the flow; a check that finds one
  head, one successor each and no cycle leaves one chain and accepts any
  (`ValidIsChain`, `ChainIsValid`).  That a walk along successors ends is the pigeonhole
  principle (`Rooms`, `FollowedEnds`), that the ranking it gives excludes a cycle
  `RankedHasNoCycle`, and `WaysEnd` carries the chain to the page.  All stores:
  `FanIInv` says that the directory lists different names in the order of their
  stamps (`IsDirectory`, kept by every change of the registry, `SetBehindIs`), and
  that a query nobody disturbed has asked the first of them and stands at the last
  it asked (`HasAsked`), so at its end it has asked all (`AllAnswered`).  The merged
  list is then built rank by rank (`Merged`) and the citations item by item (`Cites`).
  That a filter keeps the order is `FilteredPicks`.
* `ImportProofs` follows a text into the store and out of it again.  A block has
  lines that follow each other, and misses only such as may be lost (`BlockIs`);
  its tree hangs each node under an earlier one of a shallower kind, in the order
  of their lines (`IsForest`, `TreeHas`), for each form of a block (`ListHas`,
  `QuoteHas`, `TableHas`, ...); the outline joins the trees so that this holds of
  the whole text (`IsOutline`).  Numbers tell its nodes apart (`AreLeaves`), its
  edges are the two of each leaf and the flow (`AreEdgesOf`).  `ImportIInv` says
  of the store that each edge is of one document, leads down when it nests
  (`IsStored`), and has its id alone, and that of a document without leftovers
  there are exactly the edges of its text and its nodes with their lines
  (`HoldsAll`).  A batch replaces what has its ids and adds the rest
  (`PutDocumentsIs`): of an imported document nothing but its text is there when
  nothing was left over, and the other documents are left alone (`ImportStep`); a
  deletion voids only its own document.  From `HoldsAll` the reading follows: the flow is
  the sections in order (`FlowHolds`), what hangs under a node is what
  the outline hangs there (`LeafClosure`, `TrunkClosure`), and parts,
  sections and the root come one after the other (`PartsAreOrdered`,
  `TrunkBefore`, `DocumentReads`).  The accepted text has a heading, as the
  check of its flow refuses it otherwise (`HeadNeeded`).

Only model-checked:

* liveness (`ReleasesComplete`, `ChangesReachTheFile`), which is out of this
  prover's reach;
* `StoresAreHistories`, which is twice the refinement `JournalIsUndoHistory` proves, for
  the two instances the run compares;
* `RendersOnce` of `PageGraph`, which does not hold (section 7).

## 7. Findings

Violated on purpose, with what the repository says quoted in `PROJECT.json`:

1. `stage_lost_text`: the page-edit surface commits under the document's root, which a
   page does not show; the commit is refused and the dirty flag goes with it.
2. `tabs_early_focus`: a focus request during the boot commits onto the empty
   strip and replaces the saved tabs.
3. `tools_boot`: a module with a name the router refuses is saved first; the next
   start fails.
4. `import_shortened`: a re-import of a shortened file leaves edges of the old
   flow on nodes that stay, and the document is refused.
5. `page_renders_once`: a change of a node under a section makes the page lose
   the section or show it twice.

Seen while modelling, and described here only:

* Store.  An edge update of role and state is journaled as a role change; its
  undo does not restore the state (`rag-store.ts:1201` against `:219-221`).
* Vector boot.  Of two embeds of one node the earlier answer may arrive last and
  stays (`embeddings.ts:677`; `unit-f-embeddings.md:1502-1504`); undo and redo of a structural
  entry tell the engine of no node (`main.ts:813`); an undone batch brings back an
  old `updatedAt` that the reconcile pass cannot tell from the snapshot's
  (`Told`); a teardown while a batch of misses is under way ends the build as
  failed rather than cancelled; two caches may write one file during a
  reassignment.
* Registry.  After the default is renamed away from its derived file a restart
  opens another one (`rag-store-runtime.ts:640`, `:646-647`, `:683`); the drift path of a
  default operation rebuilds the directory but not every binding; a reassignment to a
  store that was added to the file by hand names a default the directory has no entry
  for, and no change of the list makes one while it is the default (`:552-570`, `:684-704`); the process
  exits with jobs in the queue (`main.ts:830`).
* Edit operations.  A merge whose write fails half way leaves its first writes
  (`edit-ops.ts:287-290`, `:334`; `unit-d-editing.md:124-127`).
* Stage.  A settings broadcast on a tab commit re-derives the page; broadcasts
  during the boot are lost; the `finally` of the re-derive does not ask the
  guard again; a dirty subject outside the focus holds back every re-derive; a
  successful commit clears the dirty flag though the user typed on
  (`edit-controller.ts:157`).
* Graph.  `mountTabs` and `interceptSharedCommit` have no caller.  Documents
  mounted beside the focus can go stale: a change heard between a snapshot and
  its application is consumed by the older snapshot, and a further broadcast
  makes the next pass content-only, against the comment near
  `sidebar-panes.ts:2040`; the counter of forks restarts with a reload although
  "cannot collide" is claimed (near `:948`); a fork loses the section's
  children.  `codeLoadBatch` commits its clone before it is validated; an undo of
  the code journal can resurrect destroyed roots.
* Strip.  `provident.focus` of an open search with `newTab` appends it under the
  `queryId` it has (`tab-state.ts:269-278`), so that two tabs share one although
  "tabs never collide on a `queryId`" (`user-flow-audit-checklist.md:192`); nothing
  in the coercion of a file tells two tabs of one search apart either.
  `StripConsistent` leaves out exactly these names.
* Layout.  A gesture made on an older broadcast loses what came between: only
  the last gesture's layout is kept; a move of a pane without an entry is
  ignored (`pane-drag.ts:76`; `unit-u-shell-4-drag-relocate.md:46-51`); a toggle during the
  boot persists the defaults; the settings file is not written atomically.
* Tools and engine.  Tools of a module keep the gate of their registration; over
  HTTP they exist on the first POST's server only; a POST that overlaps a later one
  keeps its static tools through a change of the gate, as the later one's handles
  replaced them in the map (`mcp-server.ts:1925`, `:2564`; `ToolsFollowGate` leaves
  these out); two concurrent calls with
  one request id both create (`unit-a2-document-crud-wiring.md:970-990`); a malformed
  frame leaves the stream's handle open; a ready page that overtakes
  `did-finish-load` is reset (`mcp-endpoint.md:455-457`).
* Reading.  `blockedBy` of an earlier seed is returned with a later seed's target
  (`retrieval.ts:1074`, `:1088`, `:1116`); `hops > maxHops` lets one more through
  (`unit-x-rag-provenance-traversal.md:528-529`); a store that changes during the embed
  leaves deleted nodes in unfiltered results; stores that are re-keyed during a
  query of all stores are asked twice (`mcp-server.ts:272-286`), and one failing
  default fails the whole; a section that hangs on two parents belongs to no
  document for `documentIdsForNode`.
* Import.  `a.md` and `a.markdown` make one id and overwrite each other in separate
  imports; headings inside quotes are dropped with their text; one file without a
  heading fails the whole selection; an import into a store that was renamed
  duplicates its documents.

## 8. Not modelled

Reasons per component are in `PROJECT.json`.  Left out as a whole: boot order and
windows, schemas and texts of the tools, rich text and paste (text processing),
the templates' validation, the construction of the panes, the measurement host,
the type declarations.  Inside the modelled parts: validation of records (every
write is of a valid record; rejections change nothing), files that are corrupt or edited (`Load` quarantines
as the code does, but no file of the runs gives it a cause, so that an undo never puts
an edge back on a quarantined end, `rag-store.ts:991`), scores and snippets, the
sequential build without a batch function, a controller without a cache, redo
in `VectorBoot` (the same handler, with the same effect on the index as undo),
carets, hit tests, the code CRUD of `runtime.ts`.

## 9. Plan

1. Proofs: every safety property of the passing runs has its theorem; liveness
   stays with TLC.
2. Models: the code CRUD of the page, the remaining calls of the engine client.
