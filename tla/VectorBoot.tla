------------------------------ MODULE VectorBoot ------------------------------
(***************************************************************************)
(* The vector boot controller of src/main/vector-boot.ts with what it      *)
(* drives: the store it reads, the vector index of src/main/embeddings.ts, *)
(* the engine it promotes, the embedding cache, and its release when the   *)
(* default store is reassigned (src/main/rag-store-default.ts).            *)
(*                                                                         *)
(* Every wait for the embedding provider or the cache file ends a step, so *)
(* edits, queries, index maintenance, timers and the teardown interleave   *)
(* with the build wherever the code awaits.  The controller is modelled as *)
(* it is created in production: with a batch embedder and a cache.         *)
(***************************************************************************)
EXTENDS RetrievalEngine, VectorCache

CONSTANTS
  Nodes,           \* ids of the store's nodes
  Empty,           \* a content that is empty or whitespace
  None,            \* no node, no vector
  Hooks,           \* concurrent runs of the embedder's onStoreChanged
  ChunkSize,       \* BATCH_CHUNK_SIZE
  MaxTime,         \* bound of the model: the clock, in milliseconds
  MaxEdits,        \* bound of the model: edits of the store, and the reassignment
  MayUndo,         \* the user may undo
  MayRelease,      \* the default store may be reassigned
  ProviderMayFail  \* the provider may reject or answer out of shape

ASSUME ChunkSizeAssumption == ChunkSize \in Nat \ {0}
ASSUME MarkersAssumption   == Empty \notin Texts /\ None \notin Texts \cup {Empty}
ASSUME NoneIsNoRecord      == None \notin [text : Texts \cup {Empty}, at : Nat] \cup [node : Nodes, text : Texts, mode : {"add", "update"}]

VARIABLES
  now,       \* Date.now()
  store,     \* the live nodes: content and updatedAt
  undoable,  \* what the undo of the last journal entry restores, if that is structural
  edits,     \* bound: edits and reassignments so far
  pc,        \* where build() is
  snap,      \* snapshotNodes; embedAt is its part with content
  left,      \* nodes the current loop has not visited
  chunk,     \* nodes of the chunk being embedded
  listed,    \* the node list the adopt loop walks
  answer,    \* the single embed that reconcile or adopt awaits
  index,     \* the vector index
  hooks,     \* the runs of onStoreChanged that await the provider
  release,   \* where the release of the controller is
  changed,   \* history: nodes that changed since the reconcile pass began
  exact      \* history: per node, what its touches since the promotion justify

storeVars == <<now, store, undoable, edits>>
buildVars == <<pc, snap, left, chunk, listed, answer>>
indexVars == <<index, hooks, exact>>
vars == <<engineVars, cacheVars, storeVars, buildVars, indexVars, release, changed>>

Records  == [text : Texts \cup {Empty}, at : 0..(MaxTime + MaxEdits)]
Live(n)  == store[n] # None
Content(s, n) == s[n] # None /\ s[n].text # Empty

\* The teardown arms the abort token in the step that sets the controller's latch.
Aborted == release \in {"awaitBuild", "released"}
Settled == pc \in {"created", "promoted", "failed", "cancelled"}

\* A cache hit needs no call of the provider.
Hit(text) == [text |-> text, own |-> TRUE] \in entries
Misses(C) == {snap[n].text : n \in C} \ {t \in Texts : Hit(t)}

-----------------------------------------------------------------------------
(* The vector index.  `ids' counts the occurrences of an id in nodeIds.    *)

EmptyIndex ==
  [emb |-> [n \in Nodes |-> None], ids |-> [n \in Nodes |-> 0], skipped |-> [n \in Nodes |-> "no"]]

\* removeIndexed: one occurrence of the id goes, with the vector.
RemoveIndexed(ix, n) ==
  IF ix.ids[n] = 0 THEN ix
  ELSE [ix EXCEPT !.emb[n] = None, !.ids[n] = @ - 1]

\* Mutant of Skip: the previous vector stays.
Skip_KeepsVector(ix, n, why) == [ix EXCEPT !.skipped[n] = why]
Skip(ix, n, why) == [RemoveIndexed(ix, n) EXCEPT !.skipped[n] = why]

\* Mutant of Embedded: the skipped entry stays.
Embedded_KeepsSkip(ix, n, text, mode) ==
  [ix EXCEPT !.emb[n] = text, !.ids[n] = IF mode = "add" THEN @ + 1 ELSE @]

\* The tails of updateVectorIndex and addToVectorIndex after a good answer.
Embedded(ix, n, text, mode) ==
  [ix EXCEPT !.emb[n] = text, !.skipped[n] = "no",
             !.ids[n] = IF mode = "add" THEN @ + 1 ELSE @]

\* ... and after a rejection; an add removes nothing.
Rejected(ix, n, mode) ==
  IF mode = "add" THEN [ix EXCEPT !.skipped[n] = "transient"] ELSE Skip(ix, n, "transient")

Mode(ix, n) == IF ix.ids[n] > 0 THEN "update" ELSE "add"

\* createVectorIndex over a set of nodes that were all embedded.
BuiltFrom(ix, C) ==
  [ix EXCEPT !.emb = [n \in Nodes |-> IF n \in C THEN snap[n].text ELSE ix.emb[n]],
             !.ids = [n \in Nodes |-> IF n \in C THEN ix.ids[n] + 1 ELSE ix.ids[n]]]

-----------------------------------------------------------------------------

Init ==
  /\ EngineInit
  /\ CacheInit
  /\ now = 0
  /\ store \in [Nodes -> {None} \cup [text : Texts \cup {Empty}, at : {0}]]
  /\ undoable = None
  /\ edits = 0
  /\ pc = "created"
  /\ snap = [n \in Nodes |-> None]
  /\ left = {}
  /\ chunk = {}
  /\ listed = [n \in Nodes |-> None]
  /\ answer = None
  /\ index = EmptyIndex
  /\ hooks = [h \in Hooks |-> None]
  /\ release = "serving"
  /\ changed = {}
  /\ exact = [n \in Nodes |-> "gap"]

Tick ==
  /\ now < MaxTime
  /\ now' = now + 1
  /\ UNCHANGED <<engineVars, cacheVars, store, undoable, edits, buildVars, indexVars, release, changed>>

-----------------------------------------------------------------------------
(* Edits of the store, each followed by engine.onStoreChanged for its node *)
(* (fire-and-forget).  Before the promotion the lexical embedder has no    *)
(* hook, and a stopped engine throws; the vector embedder runs Touch.      *)

Serving == embedder = "vector" /\ ~stopped

\* What the touches of a node justify (history): its vector is the one of the
\* live text unless two runs for the node ever overlapped.
Touching(n)  == \E h \in Hooks : hooks[h] # None /\ hooks[h].node = n
Justified(n) == IF Touching(n) \/ exact[n] = "raced" THEN "raced" ELSE "exact"

\* The embedder's onStoreChanged for node n, whose record is now r: a deleted
\* or empty node, and one whose text is cached, is done at once; otherwise a
\* run waits for the provider.
Touch(n, r) ==
  IF ~Serving
    THEN UNCHANGED <<indexVars, cacheVars>>
  ELSE
    /\ exact' = [exact EXCEPT ![n] = Justified(n)]
    /\ \/ /\ r = None
          /\ index' = [RemoveIndexed(index, n) EXCEPT !.skipped[n] = "no"]
          /\ UNCHANGED <<hooks, cacheVars>>
       \/ /\ r # None
          /\ r.text = Empty
          /\ index' = Skip(index, n, "empty")
          /\ UNCHANGED <<hooks, cacheVars>>
       \/ /\ r # None
          /\ r.text # Empty
          /\ CacheGet({r.text})
          /\ IF Hit(r.text)
               THEN /\ index' = Embedded(index, n, r.text, Mode(index, n))
                    /\ UNCHANGED hooks
               ELSE /\ \E h \in Hooks :
                         /\ hooks[h] = None
                         /\ hooks' = [hooks EXCEPT ![h] =
                              [node |-> n, text |-> r.text, mode |-> Mode(index, n)]]
                    /\ UNCHANGED index

\* refreshTimestamp: an update is strictly later than what it updates.
Refreshed(n) == IF Live(n) /\ now <= store[n].at THEN store[n].at + 1 ELSE now

Put(n, text, restore) ==
  /\ edits < MaxEdits
  /\ edits' = edits + 1
  /\ LET r == [text |-> text, at |-> Refreshed(n)]
     IN store' = [store EXCEPT ![n] = r] /\ Touch(n, r)
  /\ undoable' = restore
  /\ changed' = changed \cup {n}
  /\ UNCHANGED <<engineVars, now, buildVars, release>>

\* What an undo of a structural journal entry of node n restores.
Restoring(n) == IF MayUndo THEN [node |-> n, rec |-> store[n]] ELSE None

\* putNode of a new id (a structural entry) or of new content.
EditNode(n, text) ==
  /\ Live(n) => store[n].text # text
  /\ Put(n, text, IF Live(n) THEN None ELSE Restoring(n))

\* An edit through applyBatch, which is undone as a whole.
EditBatch(n, text) ==
  /\ MayUndo
  /\ Live(n)
  /\ store[n].text # text
  /\ Put(n, text, Restoring(n))

DeleteNode(n) ==
  /\ Live(n)
  /\ edits < MaxEdits
  /\ edits' = edits + 1
  /\ store' = [store EXCEPT ![n] = None]
  /\ Touch(n, None)
  /\ undoable' = Restoring(n)
  /\ changed' = changed \cup {n}
  /\ UNCHANGED <<engineVars, now, buildVars, release>>

\* Undo of an entry that is not of kind 'content' (the undo of one that is, is
\* an EditNode): the record comes back with its updatedAt, or the added node
\* goes.  The journal handler tells the engine of no node.
Undo ==
  /\ undoable # None
  /\ store' = [store EXCEPT ![undoable.node] = undoable.rec]
  /\ undoable' = None
  /\ exact' = IF Serving /\ exact[undoable.node] # "raced" THEN [exact EXCEPT ![undoable.node] = "untold"] ELSE exact
  /\ changed' = changed \cup {undoable.node}
  /\ UNCHANGED <<engineVars, cacheVars, now, edits, buildVars, index, hooks, release>>

\* The provider answers a waiting run: it applies its vector to whatever the
\* index is by now, and writes through.
HookAnswered(h) ==
  /\ hooks[h] # None
  /\ index' = Embedded(index, hooks[h].node, hooks[h].text, hooks[h].mode)
  /\ CacheSet({hooks[h].text})
  /\ hooks' = [hooks EXCEPT ![h] = None]
  /\ UNCHANGED <<engineVars, storeVars, buildVars, release, changed, exact>>

HookRejected(h) ==
  /\ ProviderMayFail
  /\ hooks[h] # None
  /\ index' = Rejected(index, hooks[h].node, hooks[h].mode)
  /\ hooks' = [hooks EXCEPT ![h] = None]
  /\ UNCHANGED <<engineVars, cacheVars, storeVars, buildVars, release, changed, exact>>

\* An answer the index refuses rejects the run, which main logs.
HookMalformed(h) ==
  /\ ProviderMayFail
  /\ hooks[h] # None
  /\ hooks' = [hooks EXCEPT ![h] = None]
  /\ exact' = [exact EXCEPT ![hooks[h].node] = "raced"]
  /\ UNCHANGED <<engineVars, cacheVars, storeVars, buildVars, index, release, changed>>

-----------------------------------------------------------------------------
(* build(), between its awaits.                                            *)

\* start(): single-shot; build() first awaits a no-op on the store's queue.
Start ==
  /\ pc = "created"
  /\ ~Aborted
  /\ pc' = "queued"
  /\ UNCHANGED <<engineVars, cacheVars, storeVars, snap, left, chunk, listed, answer, indexVars, release, changed>>

\* The snapshot; nodes without content are recorded and never embedded.
Snapshot ==
  /\ pc = "queued"
  /\ ~Aborted
  /\ snap' = store
  /\ left' = {n \in Nodes : Content(store, n)}
  /\ index' = [EmptyIndex EXCEPT !.skipped =
       [n \in Nodes |-> IF Live(n) /\ ~Content(store, n) THEN "empty" ELSE "no"]]
  /\ pc' = "embed"
  /\ UNCHANGED <<engineVars, cacheVars, storeVars, chunk, listed, answer, hooks, exact, release, changed>>

\* The next chunk of createVectorIndex goes to the batch wrapper.
NextChunk ==
  /\ pc = "embed"
  /\ chunk = {}
  /\ left # {}
  /\ \E C \in SUBSET left :
       /\ Cardinality(C) = (IF Cardinality(left) < ChunkSize THEN Cardinality(left) ELSE ChunkSize)
       /\ chunk' = C
       /\ left' = left \ C
       /\ CacheGet({snap[n].text : n \in C})
  /\ UNCHANGED <<engineVars, storeVars, pc, snap, listed, answer, indexVars, release, changed>>

\* Hits are adopted, misses embedded and written through.
ChunkAnswered ==
  /\ pc = "embed"
  /\ chunk # {}
  /\ Aborted => Misses(chunk) = {}
  /\ index' = BuiltFrom(index, chunk)
  /\ CacheSet(Misses(chunk))
  /\ chunk' = {}
  /\ UNCHANGED <<engineVars, storeVars, pc, snap, left, listed, answer, hooks, exact, release, changed>>

\* An aborted wrapper returns with holes at the misses, which createVectorIndex
\* takes for malformed vectors.
ChunkWithHoles ==
  /\ pc = "embed"
  /\ chunk # {}
  /\ Aborted
  /\ Misses(chunk) # {}
  /\ pc' = "failed"
  /\ UNCHANGED <<engineVars, cacheVars, storeVars, snap, left, chunk, listed, answer, indexVars, release, changed>>

\* A rejected chunk falls back to one call per node.
ChunkRejected ==
  /\ ProviderMayFail
  /\ pc = "embed"
  /\ chunk # {}
  /\ Misses(chunk) # {}
  /\ pc' = "items"
  /\ UNCHANGED <<engineVars, cacheVars, storeVars, snap, left, chunk, listed, answer, indexVars, release, changed>>

AfterItem(n) ==
  /\ chunk' = chunk \ {n}
  /\ pc' = IF chunk' = {} THEN "embed" ELSE "items"
  /\ UNCHANGED <<engineVars, storeVars, snap, left, listed, answer, hooks, exact, release, changed>>

\* Mutant of ItemAnswered: the fallback does not write through.
ItemAnswered_NotCached(n) ==
  /\ pc = "items"
  /\ n \in chunk
  /\ index' = BuiltFrom(index, {n})
  /\ UNCHANGED cacheVars
  /\ AfterItem(n)

\* The single wrapper does not write through once aborted.
ItemAnswered(n) ==
  /\ pc = "items"
  /\ n \in chunk
  /\ index' = BuiltFrom(index, {n})
  /\ IF Aborted THEN UNCHANGED cacheVars ELSE CacheSet(Misses({n}))
  /\ AfterItem(n)

ItemRejected(n) ==
  /\ ProviderMayFail
  /\ pc = "items"
  /\ n \in chunk
  /\ Misses({n}) # {}
  /\ index' = [index EXCEPT !.skipped[n] = "transient"]
  /\ UNCHANGED cacheVars
  /\ AfterItem(n)

\* The index is built: the reconcile pass begins over its ids.
Embed ==
  /\ pc = "embed"
  /\ chunk = {}
  /\ left = {}
  /\ ~Aborted
  /\ pc' = "reconcile"
  /\ left' = {n \in Nodes : index.ids[n] > 0}
  /\ changed' = {}
  /\ UNCHANGED <<engineVars, cacheVars, storeVars, snap, chunk, listed, answer, indexVars, release>>

\* Mutant of Changed: an edit is only noticed from the second millisecond on.
Changed_OffByOne(n) == Live(n) /\ store[n].at > snap[n].at + 1

\* The live node strictly postdates its snapshot.
Changed(n) == Live(n) /\ store[n].at > snap[n].at

\* The loop visits nodes without waiting - S of them - up to one, n, that has
\* to be embedded again.
ReconcileNext(n, S) ==
  /\ pc = "reconcile"
  /\ answer = None
  /\ ~Aborted
  /\ n \in left
  /\ Changed(n) /\ Content(store, n)
  /\ S \subseteq {m \in left : ~(Changed(m) /\ Content(store, m))}
  /\ index' = [index EXCEPT
       !.emb = [m \in Nodes |-> IF m \in S /\ Changed(m) THEN None ELSE index.emb[m]],
       !.ids = [m \in Nodes |-> IF m \in S /\ Changed(m) THEN 0 ELSE index.ids[m]],
       !.skipped = [m \in Nodes |-> IF m \in S /\ Changed(m) THEN "empty" ELSE index.skipped[m]]]
  /\ answer' = [node |-> n, text |-> store[n].text, mode |-> "update"]
  /\ left' = left \ (S \cup {n})
  /\ UNCHANGED <<engineVars, cacheVars, storeVars, pc, snap, chunk, listed, hooks, exact, release, changed>>

\* Nothing is left to embed: the adopt pass begins over the live list.
Reconciled ==
  /\ pc = "reconcile"
  /\ answer = None
  /\ ~Aborted
  /\ \A m \in left : ~(Changed(m) /\ Content(store, m))
  /\ LET emptied == {m \in left : Changed(m)}
     IN index' = [index EXCEPT
          !.emb = [m \in Nodes |-> IF m \in emptied THEN None ELSE index.emb[m]],
          !.ids = [m \in Nodes |-> IF m \in emptied THEN 0 ELSE index.ids[m]],
          !.skipped = [m \in Nodes |-> IF m \in emptied THEN "empty" ELSE index.skipped[m]]]
  /\ pc' = "adopt"
  /\ listed' = store
  /\ left' = {n \in Nodes : Live(n) /\ index'.ids[n] = 0 /\ ~Content(snap, n)}
  /\ UNCHANGED <<engineVars, cacheVars, storeVars, snap, chunk, answer, hooks, exact, release, changed>>

\* The content a node is adopted with is the one it was listed with.
AdoptNext(n) ==
  /\ pc = "adopt"
  /\ answer = None
  /\ ~Aborted
  /\ n \in left
  /\ left' = left \ {n}
  /\ IF Content(listed, n)
       THEN answer' = [node |-> n, text |-> listed[n].text, mode |-> "add"] /\ UNCHANGED index
       ELSE index' = Skip(index, n, "empty") /\ UNCHANGED answer
  /\ UNCHANGED <<engineVars, cacheVars, storeVars, pc, snap, chunk, listed, hooks, exact, release, changed>>

\* The provider answers the reconcile or adopt embed.
BuildAnswered ==
  /\ answer # None
  /\ index' = Embedded(index, answer.node, answer.text, answer.mode)
  /\ answer' = None
  /\ UNCHANGED <<engineVars, cacheVars, storeVars, pc, snap, left, chunk, listed, hooks, exact, release, changed>>

BuildRejected ==
  /\ ProviderMayFail
  /\ answer # None
  /\ index' = Rejected(index, answer.node, answer.mode)
  /\ answer' = None
  /\ UNCHANGED <<engineVars, cacheVars, storeVars, pc, snap, left, chunk, listed, hooks, exact, release, changed>>

\* An answer out of shape fails the build, which stays pending.
BuildMalformed ==
  /\ ProviderMayFail
  /\ answer # None \/ (pc \in {"embed", "items"} /\ chunk # {})
  /\ pc' = "failed"
  /\ answer' = None
  /\ UNCHANGED <<engineVars, cacheVars, storeVars, snap, left, chunk, listed, indexVars, release, changed>>

\* The passes are done: drain the cache's writes.
DrainCache ==
  /\ pc = "adopt"
  /\ answer = None
  /\ left = {}
  /\ ~Aborted
  /\ Flush
  /\ pc' = "drained"
  /\ UNCHANGED <<engineVars, storeVars, snap, left, chunk, listed, answer, indexVars, release, changed>>

\* Prune the cache to the live texts, and drain again.
PruneCache ==
  /\ pc = "drained"
  /\ Flushed
  /\ ~Aborted
  /\ PruneThenFlush({store[n].text : n \in {m \in Nodes : Content(store, m)}})
  /\ pc' = "create"
  /\ UNCHANGED <<engineVars, storeVars, snap, left, chunk, listed, answer, indexVars, release, changed>>

\* Mutant of Promote: the abort token is not checked after the last awaits.
Promote_Unchecked ==
  /\ pc = "create"
  /\ Flushed
  /\ SetEmbedder
  /\ pc' = "promoted"
  /\ UNCHANGED <<cacheVars, storeVars, snap, left, chunk, listed, answer, indexVars, release, changed>>

\* The atomic one-way promotion.
Promote ==
  /\ pc = "create"
  /\ Flushed
  /\ ~Aborted
  /\ SetEmbedder
  /\ pc' = "promoted"
  /\ UNCHANGED <<cacheVars, storeVars, snap, left, chunk, listed, answer, indexVars, release, changed>>

\* assertNotAborted throws at the next check.
Cancel ==
  /\ Aborted
  /\ answer = None
  /\ \/ pc \in {"queued", "reconcile", "adopt"}
     \/ pc = "embed" /\ chunk = {} /\ left = {}
     \/ pc \in {"drained", "create"} /\ Flushed
  /\ pc' = "cancelled"
  /\ UNCHANGED <<engineVars, cacheVars, storeVars, snap, left, chunk, listed, answer, indexVars, release, changed>>

-----------------------------------------------------------------------------
(* Queries, and the release of the controller: drain, teardown.            *)

\* Callers look the engine up when they call, and none of the repository's keeps
\* it across a wait.
Query(c) ==
  /\ release = "serving"
  /\ QueryEnter(c)
  /\ UNCHANGED <<cacheVars, storeVars, buildVars, indexVars, release, changed>>

Settle(c, outcome) ==
  /\ QuerySettle(c, outcome)
  /\ UNCHANGED <<cacheVars, storeVars, buildVars, indexVars, release, changed>>

\* hotSetDefault routes new calls to another engine.
Reassign ==
  /\ MayRelease
  /\ edits < MaxEdits
  /\ edits' = edits + 1
  /\ release = "serving"
  /\ release' = "drain"
  /\ UNCHANGED <<engineVars, cacheVars, now, store, undoable, buildVars, indexVars, changed>>

\* The poll sees no query in flight and calls teardown(), which latches, rejects
\* the start() promise, arms the abort token, and awaits the build.
BootTeardown ==
  /\ release = "drain"
  /\ inFlight = 0
  /\ IF pc = "created"
       THEN release' = "released" /\ EngineTeardown
       ELSE release' = "awaitBuild" /\ UNCHANGED engineVars
  /\ UNCHANGED <<cacheVars, storeVars, buildVars, indexVars, changed>>

\* Mutant of BootReleased: the rejection of the build is not caught.
BootReleased_Rethrows ==
  /\ release = "awaitBuild"
  /\ pc = "promoted"
  /\ release' = "released"
  /\ EngineTeardown
  /\ UNCHANGED <<cacheVars, storeVars, buildVars, indexVars, changed>>

\* The build has settled: the engine stops.
BootReleased ==
  /\ release = "awaitBuild"
  /\ Settled
  /\ release' = "released"
  /\ EngineTeardown
  /\ UNCHANGED <<cacheVars, storeVars, buildVars, indexVars, changed>>

CacheStep ==
  /\ TimerFires \/ RunWrite
  /\ UNCHANGED <<engineVars, storeVars, buildVars, indexVars, release, changed>>

-----------------------------------------------------------------------------

Edit ==
  \/ \E n \in Nodes, t \in Texts \cup {Empty} : EditNode(n, t)
  \/ \E n \in Nodes, t \in Texts \cup {Empty} : EditBatch(n, t)
  \/ \E n \in Nodes : DeleteNode(n)
  \/ Undo

Build ==
  \/ Start \/ Snapshot
  \/ NextChunk \/ ChunkAnswered \/ ChunkWithHoles \/ ChunkRejected
  \/ \E n \in Nodes : ItemAnswered(n) \/ ItemRejected(n)
  \/ Embed
  \/ \E n \in Nodes, S \in SUBSET Nodes : ReconcileNext(n, S)
  \/ Reconciled
  \/ \E n \in Nodes : AdoptNext(n)
  \/ BuildAnswered \/ BuildRejected \/ BuildMalformed
  \/ DrainCache \/ PruneCache
  \/ Promote \/ Cancel

Hook == \E h \in Hooks : HookAnswered(h) \/ HookRejected(h) \/ HookMalformed(h)

Serve ==
  \E c \in Callers : Query(c) \/ \E outcome \in {"resolve", "reject"} : Settle(c, outcome)

Release == Reassign \/ BootTeardown \/ BootReleased

Next == Tick \/ Edit \/ Build \/ Hook \/ Serve \/ Release \/ CacheStep

\* Main starts the controller once; the provider answers (its calls carry a
\* timeout), the event loop runs timers and continuations.  Nobody has to edit,
\* to query, or to reassign the default.
Fairness ==
  /\ WF_vars(Build)
  /\ WF_vars(Hook)
  /\ WF_vars(CacheStep)
  /\ WF_vars(BootTeardown)
  /\ WF_vars(BootReleased)
  /\ \A c \in Callers : WF_vars(\E outcome \in {"resolve", "reject"} : Settle(c, outcome))

Spec == Init /\ [][Next]_vars

FairSpec == Spec /\ Fairness

-----------------------------------------------------------------------------
(* Properties.                                                             *)

Indices == [emb : [Nodes -> Texts \cup {None}], ids : [Nodes -> Nat],
            skipped : [Nodes -> {"no", "empty", "transient"}]]

TypeOK ==
  /\ EngineTypeOK
  /\ CacheTypeOK
  /\ now \in 0..MaxTime
  /\ store \in [Nodes -> Records \cup {None}]
  /\ edits \in 0..MaxEdits
  /\ pc \in {"created", "queued", "embed", "items", "reconcile", "adopt", "drained",
             "create", "promoted", "failed", "cancelled"}
  /\ snap \in [Nodes -> Records \cup {None}]
  /\ left \in SUBSET Nodes
  /\ chunk \in SUBSET Nodes
  /\ listed \in [Nodes -> Records \cup {None}]
  /\ index \in Indices
  /\ release \in {"serving", "drain", "awaitBuild", "released"}
  /\ changed \in SUBSET Nodes
  /\ exact \in [Nodes -> {"gap", "exact", "raced", "untold"}]

\* Until the promotion only the build writes the index: an id is listed once,
\* exactly when it has a vector, and never for a skipped node.
BuildIndexConsistent ==
  embedder = "lexical" =>
    \A n \in Nodes :
      /\ index.ids[n] = (IF index.emb[n] = None THEN 0 ELSE 1)
      /\ index.skipped[n] # "no" => index.emb[n] = None

\* A record that the reconcile or adopt pass can tell from the snapshot's.
Told(n) == ~Content(snap, n) \/ store[n].at > snap[n].at \/ store[n].text = snap[n].text

\* The promotion leaves no gap behind the passes: a node that did not change
\* since the reconcile pass began has the vector of its live text, or a record
\* that its embed failed.  Edits during the build are told by updatedAt.
ReconcileCovers ==
  [][embedder' # embedder =>
       \A n \in Nodes :
         n \notin changed /\ Content(store, n) /\ Told(n)
           => index.emb[n] = store[n].text \/ index.skipped[n] = "transient"]_vars

\* Pruning keeps the vectors of what the build embedded and no edit changed, so
\* that the next boot embeds none of it again.
CacheCoversUnchanged ==
  [][pc = "drained" /\ pc' = "create" =>
       \A n \in Nodes :
         Content(store, n) /\ store[n] = snap[n] /\ index.emb[n] = store[n].text
           => [text |-> store[n].text, own |-> TRUE] \in entries']_vars

\* A build that is being torn down never promotes, and writes nothing through to
\* the cache, whichever of its awaits the teardown fell into.
TeardownIsFinal ==
  [][Aborted => /\ embedder' = embedder
                /\ embedder = "lexical" => entries' = entries]_vars

\* Index maintenance is exact for a node none of whose embeds ever overlapped,
\* unless its last change was an undo that nobody told the engine of.
IndexExactUnlessRaced ==
  Serving =>
    \A n \in Nodes :
      exact[n] = "exact" /\ ~Touching(n) =>
        /\ index.ids[n] = (IF index.emb[n] = None THEN 0 ELSE 1)
        /\ IF Live(n) /\ Content(store, n)
             THEN IF index.emb[n] = None
                    THEN index.skipped[n] = "transient"
                    ELSE index.emb[n] = store[n].text /\ index.skipped[n] = "no"
             ELSE /\ index.emb[n] = None
                  /\ index.skipped[n] = IF Live(n) THEN "empty" ELSE "no"

\* Once queries stop arriving, the teardown ends whatever the build is doing.
ReleaseCompletes == release = "drain" ~> release = "released"
=============================================================================
