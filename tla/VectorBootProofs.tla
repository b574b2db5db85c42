--------------------------- MODULE VectorBootProofs ---------------------------
(***************************************************************************)
(* What holds of the embedding cache under any client, and of the vector   *)
(* boot that uses it, for any nodes, texts, chunk size, and any number of  *)
(* edits, undos, runs of the hook and failures of the provider.            *)
(***************************************************************************)
EXTENDS VectorBoot, TLAPS

----------------------------------------------------------------------------
(* The cache, for any set of texts and under any client: the coalescing of *)
(* writes never drops the last one, and flush() keeps its promise.         *)

\* What flush() promises is still in the map, and the jobs it waits for are
\* on the chain.
FlushBounded ==
  /\ flush.owed \subseteq entries
  /\ flush.left <= jobs

\* The inductive strengthening of the properties below.
IInv == CacheTypeOK /\ WriteIsComing /\ FileCurrent /\ FlushReflectsSets /\ FlushBounded

-----------------------------------------------------------------------------

\* What the proofs below use of the flush record.
LEMMA FlushFields ==
  ASSUME flush \in FlushType
  PROVE  flush.left \in 0..MaxJobs /\ flush.owed \subseteq Entries
BY DEF FlushType

LEMMA InitIInv == CacheInit => IInv
<1> SUFFICES ASSUME CacheInit PROVE IInv
  OBVIOUS
<1>1. NoFlush \in FlushType /\ NoFlush.left = 0 /\ NoFlush.owed = {}
  BY MaxJobsAssumption DEF NoFlush, FlushType
<1>2. entries \in SUBSET Entries /\ file \in SUBSET Entries
  BY DEF CacheInit
<1>3. jobs \in 0..MaxJobs
  BY MaxJobsAssumption DEF CacheInit
<1>4. CacheTypeOK
  BY <1>1, <1>2, <1>3 DEF CacheInit, CacheTypeOK
<1> QED
  BY <1>1, <1>4 DEF CacheInit, IInv, Flushed, WriteIsComing, FileCurrent, FlushReflectsSets, FlushBounded

LEMMA StepIInv == IInv /\ [CacheNext]_cacheVars => IInv'
<1> SUFFICES ASSUME IInv, [CacheNext]_cacheVars PROVE IInv'
  OBVIOUS
<1>0. flush.left \in 0..MaxJobs /\ flush.owed \subseteq Entries /\ jobs \in 0..MaxJobs
  BY FlushFields DEF IInv, CacheTypeOK
<1> USE MaxJobsAssumption
    DEF IInv, CacheTypeOK, WriteIsComing, FileCurrent, FlushReflectsSets, FlushBounded, Flushed
<1>1. ASSUME NEW texts \in SUBSET Texts, CacheGet(texts) PROVE IInv'
  BY <1>1 DEF CacheGet
<1>2. ASSUME NEW texts \in SUBSET Texts, CacheSet(texts) PROVE IInv'
  <2>1. Own(texts) \subseteq Entries /\ (texts = {} => Own(texts) = {})
    BY DEF Own, Entries
  <2> QED
    BY <1>2, <2>1 DEF CacheSet
<1>3. ASSUME NEW keep \in SUBSET Texts, Prune(keep) PROVE IInv'
  <2>1. entries' \subseteq entries
    BY <1>3 DEF Prune
  <2>2. flush' \in FlushType /\ flush'.left = flush.left /\ flush'.owed = flush.owed \cap entries'
    BY <1>3 DEF Prune, FlushType
  <2>3. CacheTypeOK'
    BY <1>0, <1>3, <2>1, <2>2 DEF Prune
  <2>4. FileCurrent' /\ WriteIsComing'
    BY <1>0, <1>3 DEF Prune
  <2>5. FlushReflectsSets' /\ FlushBounded'
    BY <1>0, <1>3, <2>2 DEF Prune
  <2> QED
    BY <2>3, <2>4, <2>5
<1>4. CASE Flush
  <2>1. jobs' \in 0..MaxJobs /\ jobs' >= jobs
    BY <1>0, <1>4 DEF Flush
  <2>2. flush' = [left |-> jobs', owed |-> entries]
    BY <1>4 DEF Flush
  <2>3. flush' \in FlushType /\ flush'.left = jobs' /\ flush'.owed = entries
    BY <2>1, <2>2 DEF FlushType
  <2>4. jobs' = 0 => jobs = 0 /\ ~dirty
    BY <1>0, <1>4 DEF Flush
  <2>5. UNCHANGED <<entries, latched, dirty, file, behind>> /\ timer' \in BOOLEAN /\ writeQueued' \in BOOLEAN
    BY <1>4 DEF Flush
  <2>6. WriteIsComing'
    BY <1>0, <1>4 DEF Flush
  <2> QED
    BY <2>1, <2>3, <2>4, <2>5, <2>6
<1>5. CASE TimerFires
  <2>1. jobs' \in 0..MaxJobs /\ jobs' >= jobs
    BY <1>0, <1>5 DEF TimerFires
  <2>2. WriteIsComing'
    BY <1>0, <1>5 DEF TimerFires
  <2>3. UNCHANGED <<entries, latched, dirty, file, flush, behind>> /\ timer' \in BOOLEAN /\ writeQueued' \in BOOLEAN
    BY <1>5 DEF TimerFires
  <2> QED
    BY <1>0, <2>1, <2>2, <2>3
<1>6. CASE RunWrite
  <2>1. jobs' \in 0..MaxJobs /\ jobs' = jobs - 1 /\ dirty' = FALSE /\ writeQueued' = FALSE
        /\ UNCHANGED <<entries, latched, timer>>
    BY <1>0, <1>6 DEF RunWrite
  <2>2. flush' = [flush EXCEPT !.left = IF @ > 0 THEN @ - 1 ELSE 0]
    BY <1>6 DEF RunWrite
  <2>3. flush' \in FlushType /\ flush'.owed = flush.owed
        /\ flush'.left = IF flush.left > 0 THEN flush.left - 1 ELSE 0
    BY <1>0, <2>2 DEF FlushType
  <2>4. flush'.left <= jobs'
    BY <1>0, <2>1, <2>3
  <2>5. CASE file' = entries /\ behind' = FALSE
    BY <2>1, <2>3, <2>4, <2>5
  <2>6. CASE file' = file /\ behind' = TRUE
    BY <2>1, <2>3, <2>4, <2>6
  <2>7. (file' = entries /\ behind' = FALSE) \/ (file' = file /\ behind' = TRUE)
    BY <1>6, Zenon DEF RunWrite
  <2> QED
    BY <2>5, <2>6, <2>7
<1>7. CASE Recreate
  <2>1. NoFlush \in FlushType /\ NoFlush.left = 0 /\ NoFlush.owed = {}
    BY DEF NoFlush, FlushType
  <2> HIDE DEF NoFlush
  <2>2. 0 \in 0..MaxJobs /\ file' = file /\ {} \in SUBSET Entries
    BY <1>7 DEF Recreate
  <2>3. CASE CacheLoad(file) /\ behind' = FALSE
    <3>1. entries' = file /\ latched' = FALSE /\ dirty' = FALSE /\ writeQueued' = FALSE
          /\ jobs' = 0 /\ timer' = FALSE /\ flush' = NoFlush /\ behind' = FALSE
      BY <2>3 DEF CacheLoad
    <3>2. flush' \in FlushType /\ flush'.left = 0 /\ flush'.owed = {}
      BY <2>1, <3>1
    <3>3. CacheTypeOK'
      BY <2>2, <3>1, <3>2
    <3>4. WriteIsComing' /\ FileCurrent'
      BY <2>2, <3>1
    <3>5. FlushReflectsSets' /\ FlushBounded'
      BY <3>1, <3>2
    <3> QED
      BY <3>3, <3>4, <3>5
  <2>4. CASE CacheLoad({}) /\ behind' = TRUE
    <3>1. entries' = {} /\ latched' = FALSE /\ dirty' = FALSE /\ writeQueued' = FALSE
          /\ jobs' = 0 /\ timer' = FALSE /\ flush' = NoFlush /\ behind' = TRUE
      BY <2>4 DEF CacheLoad
    <3>2. flush' \in FlushType /\ flush'.left = 0 /\ flush'.owed = {}
      BY <2>1, <3>1
    <3>3. CacheTypeOK'
      BY <2>2, <3>1, <3>2
    <3>4. WriteIsComing' /\ FileCurrent'
      BY <2>2, <3>1
    <3>5. FlushReflectsSets' /\ FlushBounded'
      BY <3>1, <3>2
    <3> QED
      BY <3>3, <3>4, <3>5
  <2>5. (CacheLoad(file) /\ behind' = FALSE) \/ (CacheLoad({}) /\ behind' = TRUE)
    BY <1>7, Zenon DEF Recreate
  <2> QED
    BY <2>3, <2>4, <2>5
<1>8. ASSUME NEW keep \in SUBSET Texts, PruneThenFlush(keep) PROVE IInv'
  <2>1. entries' \subseteq entries /\ jobs' = jobs + 1 /\ jobs' \in 0..MaxJobs /\ writeQueued' = TRUE
    BY <1>0, <1>8 DEF PruneThenFlush
  <2>2. flush' = [left |-> jobs', owed |-> entries']
    BY <1>8 DEF PruneThenFlush
  <2>3. flush' \in FlushType /\ flush'.left = jobs' /\ flush'.owed = entries'
    BY <2>1, <2>2 DEF FlushType
  <2>4. UNCHANGED <<latched, dirty, file, behind>> /\ timer' = FALSE
    BY <1>8 DEF PruneThenFlush
  <2>5. jobs' # 0 /\ jobs' > 0
    BY <1>0, <2>1
  <2>6. CacheTypeOK'
    BY <2>1, <2>3, <2>4
  <2>7. WriteIsComing' /\ FileCurrent'
    BY <2>1, <2>5
  <2>8. FlushReflectsSets' /\ FlushBounded'
    BY <2>1, <2>3, <2>5
  <2> QED
    BY <2>6, <2>7, <2>8
<1>9. CASE UNCHANGED cacheVars
  BY <1>9 DEF cacheVars
<1> QED
  BY <1>1, <1>2, <1>3, <1>4, <1>5, <1>6, <1>7, <1>8, <1>9 DEF CacheNext

-----------------------------------------------------------------------------

LEMMA InductiveInvariant == CacheSafety => []IInv
BY InitIInv, StepIInv, PTL DEF CacheSafety

\* Types of the cache.
THEOREM CacheTypeCorrect == CacheSpec => []CacheTypeOK
<1>1. IInv => CacheTypeOK
  BY DEF IInv
<1> QED
  BY <1>1, InductiveInvariant, PTL DEF CacheSpec

\* A dirty map always has a write coming: the debounce of
\* src/main/vector-cache.ts drops none.
THEOREM NoWriteIsDropped == CacheSpec => []WriteIsComing
<1>1. IInv => WriteIsComing
  BY DEF IInv
<1> QED
  BY <1>1, InductiveInvariant, PTL DEF CacheSpec

\* With nothing to write the file is the map.
THEOREM CleanMeansCurrent == CacheSpec => []FileCurrent
<1>1. IInv => FileCurrent
  BY DEF IInv
<1> QED
  BY <1>1, InductiveInvariant, PTL DEF CacheSpec

\* When flush() resolves, every set() before it is in the file.
THEOREM FlushIsDurable == CacheSpec => []FlushReflectsSets
<1>1. IInv => FlushReflectsSets
  BY DEF IInv
<1> QED
  BY <1>1, InductiveInvariant, PTL DEF CacheSpec

----------------------------------------------------------------------------
(* Where the build is.                                                     *)

Versions == [text : Texts \cup {Empty}, at : Nat]
Runs == [node : Nodes, text : Texts, mode : {"add", "update"}]

BootTypeOK ==
  /\ embedder \in Embedders /\ stopped \in BOOLEAN
  /\ store \in [Nodes -> Versions \cup {None}] /\ snap \in [Nodes -> Versions \cup {None}]
  /\ listed \in [Nodes -> Versions \cup {None}]
  /\ undoable \in [node : Nodes, rec : Versions \cup {None}] \cup {None}
  /\ now \in Nat
  /\ pc \in {"created", "queued", "embed", "items", "reconcile", "adopt", "drained",
             "create", "promoted", "failed", "cancelled"}
  /\ left \in SUBSET Nodes /\ chunk \in SUBSET Nodes
  /\ answer \in Runs \cup {None} /\ hooks \in [Hooks -> Runs \cup {None}]
  /\ index \in Indices /\ exact \in [Nodes -> {"gap", "exact", "raced", "untold"}]

\* A node is listed once, exactly when it has a vector, and never when it was skipped.
Shape(n) ==
  /\ index.ids[n] = (IF index.emb[n] = None THEN 0 ELSE 1)
  /\ index.skipped[n] # "no" => index.emb[n] = None

\* Nobody but the build touches the index before the promotion.
BuildOwnsIndex ==
  /\ embedder = "vector" <=> pc = "promoted"
  /\ pc \notin {"reconcile", "adopt"} => answer = None
  /\ pc \in {"created", "queued"} => chunk = {}
  /\ embedder = "lexical" =>
       /\ \A h \in Hooks : hooks[h] = None
       /\ \A n \in Nodes : exact[n] = "gap" /\ Shape(n)

\* The nodes of the snapshot that have been embedded have their text of then, and the others nothing.
Embedding ==
  pc \in {"embed", "items"} =>
    /\ left \cap chunk = {}
    /\ \A n \in left \cup chunk : Content(snap, n) /\ index.emb[n] = None /\ index.skipped[n] = "no"
    /\ \A n \in Nodes \ (left \cup chunk) :
         Content(snap, n) => index.emb[n] = snap[n].text \/ index.skipped[n] = "transient"
    /\ \A n \in Nodes : ~Content(snap, n) => index.emb[n] = None

\* What a node that did not change will have when the passes are done.
Awaits(n) == answer # None /\ answer.node = n
Covered(n) ==
  n \notin changed /\ Content(store, n) /\ Told(n) =>
    index.emb[n] = store[n].text \/ index.skipped[n] = "transient" \/ Awaits(n)

\* What the provider was asked for is the live text, unless that changed since.
Awaited ==
  answer # None /\ answer.node \notin changed =>
    store[answer.node] # None /\ answer.text = store[answer.node].text

Reconciling ==
  pc = "reconcile" =>
    /\ \A n \in left : Content(snap, n) /\ index.emb[n] = snap[n].text
    /\ \A n \in Nodes : ~Content(snap, n) => index.emb[n] = None
    /\ answer # None => answer.mode = "update" /\ answer.node \notin left /\ index.emb[answer.node] # None
    /\ \A n \in Nodes \ left : Content(snap, n) => Covered(n)

Adopting ==
  pc = "adopt" =>
    /\ \A n \in left : index.emb[n] = None /\ ~Content(snap, n)
    /\ answer # None => answer.mode = "add" /\ answer.node \notin left /\ index.emb[answer.node] = None
                        /\ ~Content(snap, answer.node)
    /\ \A n \in Nodes \ changed : listed[n] = store[n]
    /\ \A n \in Nodes \ left : Covered(n)

Passed == pc \in {"drained", "create"} => \A n \in Nodes : Covered(n)

\* What the build embedded is in the cache, until the cache is pruned.
Cached ==
  ~Aborted /\ pc \in {"embed", "items", "reconcile", "adopt", "drained"} =>
    \A n \in Nodes : Content(snap, n) /\ index.emb[n] # None => Hit(snap[n].text)

\* After the promotion: a node whose runs never overlapped has at most one, which has its live text unless the
\* last change was not told, and without one its place in the index is exact.
ExactAt(n) ==
  IF Live(n) /\ Content(store, n)
    THEN IF index.emb[n] = None
           THEN index.skipped[n] = "transient"
           ELSE index.emb[n] = store[n].text /\ index.skipped[n] = "no"
    ELSE index.emb[n] = None /\ index.skipped[n] = IF Live(n) THEN "empty" ELSE "no"

Tidy(n) ==
  exact[n] # "raced" =>
    /\ Shape(n)
    /\ \A g, h \in Hooks : hooks[g] # None /\ hooks[h] # None /\ hooks[g].node = n /\ hooks[h].node = n => g = h
    /\ \A h \in Hooks : hooks[h] # None /\ hooks[h].node = n =>
         /\ hooks[h].mode = Mode(index, n)
         /\ exact[n] = "exact" => store[n] # None /\ hooks[h].text = store[n].text
    /\ exact[n] = "exact" => Touching(n) \/ ExactAt(n)

Maintained == Serving => \A n \in Nodes : Tidy(n)

BootIInv ==
  /\ BootTypeOK /\ BuildOwnsIndex /\ Embedding /\ Awaited /\ Reconciling /\ Adopting /\ Passed /\ Cached /\ Maintained

----------------------------------------------------------------------------
(* The operations of the index.                                            *)

\* The index changes at one node at most.
Elsewhere(ix, iy, n) ==
  \A m \in Nodes \ {n} : iy.emb[m] = ix.emb[m] /\ iy.ids[m] = ix.ids[m] /\ iy.skipped[m] = ix.skipped[m]
At(ix, n, emb, ids, skipped) == ix.emb[n] = emb /\ ix.ids[n] = ids /\ ix.skipped[n] = skipped

LEMMA IndexFields ==
  ASSUME NEW ix \in Indices
  PROVE  /\ ix.emb \in [Nodes -> Texts \cup {None}] /\ ix.ids \in [Nodes -> Nat]
         /\ ix.skipped \in [Nodes -> {"no", "empty", "transient"}]
BY DEF Indices

\* An index whose three parts are what another's become at one node.
LEMMA PartsGive ==
  ASSUME NEW ix \in Indices, NEW iy \in Indices, NEW n \in Nodes, NEW emb, NEW ids, NEW skipped,
         iy.emb = [ix.emb EXCEPT ![n] = emb], iy.ids = [ix.ids EXCEPT ![n] = ids],
         iy.skipped = [ix.skipped EXCEPT ![n] = skipped]
  PROVE  Elsewhere(ix, iy, n) /\ At(iy, n, emb, ids, skipped)
BY IndexFields DEF Elsewhere, At

LEMMA EmbeddedGives ==
  ASSUME NEW ix \in Indices, NEW n \in Nodes, NEW text \in Texts, NEW mode
  PROVE  /\ Embedded(ix, n, text, mode) \in Indices
         /\ Elsewhere(ix, Embedded(ix, n, text, mode), n)
         /\ At(Embedded(ix, n, text, mode), n, text, IF mode = "add" THEN ix.ids[n] + 1 ELSE ix.ids[n], "no")
PROOF
<1>. DEFINE ids == IF mode = "add" THEN ix.ids[n] + 1 ELSE ix.ids[n]
            a == [ix.emb EXCEPT ![n] = text]
            b == [ix.ids EXCEPT ![n] = ids]
            c == [ix.skipped EXCEPT ![n] = "no"]
            iy == [ix EXCEPT !.emb = a, !.skipped = c, !.ids = b]
<1>1. Embedded(ix, n, text, mode) = iy
  BY IndexFields DEF Embedded
<1>2. a \in [Nodes -> Texts \cup {None}] /\ b \in [Nodes -> Nat] /\ c \in [Nodes -> {"no", "empty", "transient"}]
  BY IndexFields
<1>3. iy \in Indices /\ iy.emb = a /\ iy.ids = b /\ iy.skipped = c
  <2>. HIDE DEF a, b, c
  <2>. QED BY <1>2 DEF Indices
<1>. HIDE DEF iy, ids
<1>4. Elsewhere(ix, iy, n) /\ At(iy, n, text, ids, "no")
  BY <1>3, PartsGive
<1>. QED BY <1>1, <1>3, <1>4 DEF ids

\* The place of a node that is listed once at most becomes empty.
LEMMA SkipGives ==
  ASSUME NEW ix \in Indices, NEW n \in Nodes, NEW why \in {"no", "empty", "transient"}
  PROVE  /\ Skip(ix, n, why) \in Indices
         /\ Elsewhere(ix, Skip(ix, n, why), n)
         /\ ix.ids[n] = (IF ix.emb[n] = None THEN 0 ELSE 1) => At(Skip(ix, n, why), n, None, 0, why)
PROOF
<1>. DEFINE iz == RemoveIndexed(ix, n)
            c == [iz.skipped EXCEPT ![n] = why]
            iy == [iz EXCEPT !.skipped = c]
<1>1. Skip(ix, n, why) = iy
  BY DEF Skip
<1>2. CASE ix.ids[n] = 0
  <2>1. iz = ix
    BY <1>2 DEF RemoveIndexed
  <2>. HIDE DEF iz
  <2>2. c \in [Nodes -> {"no", "empty", "transient"}] /\ c = [ix.skipped EXCEPT ![n] = why]
    BY <2>1, IndexFields
  <2>3. iy \in Indices /\ iy.emb = ix.emb /\ iy.ids = ix.ids /\ iy.skipped = c
    <3>1. \A x \in [Nodes -> {"no", "empty", "transient"}] :
            /\ [ix EXCEPT !.skipped = x] \in Indices /\ [ix EXCEPT !.skipped = x].emb = ix.emb
            /\ [ix EXCEPT !.skipped = x].ids = ix.ids /\ [ix EXCEPT !.skipped = x].skipped = x
      BY DEF Indices
    <3>. QED BY <2>1, <2>2, <3>1
  <2>. HIDE DEF iy, c
  <2>4. ix.emb = [ix.emb EXCEPT ![n] = ix.emb[n]] /\ ix.ids = [ix.ids EXCEPT ![n] = ix.ids[n]]
    BY IndexFields
  <2>5. Elsewhere(ix, iy, n) /\ At(iy, n, ix.emb[n], ix.ids[n], why)
    BY <2>2, <2>3, <2>4, PartsGive
  <2>. QED BY <1>1, <1>2, <2>3, <2>5 DEF At
<1>3. CASE ix.ids[n] # 0
  <2>. DEFINE a == [ix.emb EXCEPT ![n] = None]
              b == [ix.ids EXCEPT ![n] = ix.ids[n] - 1]
  <2>1. iz = [ix EXCEPT !.emb = a, !.ids = b]
    BY <1>3, IndexFields DEF RemoveIndexed
  <2>2. a \in [Nodes -> Texts \cup {None}] /\ b \in [Nodes -> Nat]
    BY <1>3, IndexFields
  <2>. HIDE DEF iz, a, b
  <2>3. iz \in Indices /\ iz.emb = a /\ iz.ids = b /\ iz.skipped = ix.skipped
    BY <2>1, <2>2 DEF Indices
  <2>4. c \in [Nodes -> {"no", "empty", "transient"}] /\ c = [ix.skipped EXCEPT ![n] = why]
    BY <2>3, IndexFields
  <2>5. iy \in Indices /\ iy.emb = a /\ iy.ids = b /\ iy.skipped = c
    <3>1. \A x \in [Nodes -> {"no", "empty", "transient"}] :
            /\ [iz EXCEPT !.skipped = x] \in Indices /\ [iz EXCEPT !.skipped = x].emb = iz.emb
            /\ [iz EXCEPT !.skipped = x].ids = iz.ids /\ [iz EXCEPT !.skipped = x].skipped = x
      BY <2>3 DEF Indices
    <3>. QED BY <2>3, <2>4, <3>1
  <2>. HIDE DEF iy, c
  <2>6. Elsewhere(ix, iy, n) /\ At(iy, n, None, ix.ids[n] - 1, why)
    BY <2>4, <2>5, PartsGive DEF a, b
  <2>. QED BY <1>1, <1>3, <2>5, <2>6 DEF At
<1>. QED BY <1>2, <1>3

LEMMA RejectedGives ==
  ASSUME NEW ix \in Indices, NEW n \in Nodes, NEW mode \in {"add", "update"}
  PROVE  /\ Rejected(ix, n, mode) \in Indices
         /\ Elsewhere(ix, Rejected(ix, n, mode), n)
         /\ ix.ids[n] = (IF ix.emb[n] = None THEN 0 ELSE 1) /\ (mode = "add" => ix.emb[n] = None)
              => At(Rejected(ix, n, mode), n, None, 0, "transient")
PROOF
<1>1. CASE mode = "add"
  <2>. DEFINE c == [ix.skipped EXCEPT ![n] = "transient"]
              iy == [ix EXCEPT !.skipped = c]
  <2>1. Rejected(ix, n, mode) = iy
    BY <1>1 DEF Rejected
  <2>2. c \in [Nodes -> {"no", "empty", "transient"}]
    BY IndexFields
  <2>3. iy \in Indices /\ iy.emb = ix.emb /\ iy.ids = ix.ids /\ iy.skipped = c
    <3>. HIDE DEF c
    <3>. QED BY <2>2 DEF Indices
  <2>. HIDE DEF iy
  <2>4. ix.emb = [ix.emb EXCEPT ![n] = ix.emb[n]] /\ ix.ids = [ix.ids EXCEPT ![n] = ix.ids[n]]
    BY IndexFields
  <2>5. Elsewhere(ix, iy, n) /\ At(iy, n, ix.emb[n], ix.ids[n], "transient")
    BY <2>3, <2>4, PartsGive
  <2>. QED BY <1>1, <2>1, <2>3, <2>5 DEF At
<1>2. CASE mode # "add"
  BY <1>2, SkipGives DEF Rejected
<1>. QED BY <1>1, <1>2

LEMMA BuiltGives ==
  ASSUME NEW ix \in Indices, NEW C \in SUBSET Nodes, snap \in [Nodes -> Versions \cup {None}],
         \A n \in C : Content(snap, n)
  PROVE  /\ BuiltFrom(ix, C) \in Indices
         /\ \A n \in Nodes \ C : At(BuiltFrom(ix, C), n, ix.emb[n], ix.ids[n], ix.skipped[n])
         /\ \A n \in C : At(BuiltFrom(ix, C), n, snap[n].text, ix.ids[n] + 1, ix.skipped[n])
PROOF
<1>1. \A n \in C : snap[n].text \in Texts
  BY DEF Content, Versions
<1>. DEFINE a == [n \in Nodes |-> IF n \in C THEN snap[n].text ELSE ix.emb[n]]
            b == [n \in Nodes |-> IF n \in C THEN ix.ids[n] + 1 ELSE ix.ids[n]]
            iy == [ix EXCEPT !.emb = a, !.ids = b]
<1>2. BuiltFrom(ix, C) = iy
  BY DEF BuiltFrom
<1>3. a \in [Nodes -> Texts \cup {None}] /\ b \in [Nodes -> Nat]
  BY <1>1, IndexFields
<1>4. iy \in Indices /\ iy.emb = a /\ iy.ids = b /\ iy.skipped = ix.skipped
  <2>. HIDE DEF a, b
  <2>. QED BY <1>3 DEF Indices
<1>. HIDE DEF iy
<1>. QED BY <1>2, <1>4 DEF At

----------------------------------------------------------------------------
(* Steps that leave the build and the index alone.                         *)

LEMMA QuietStep ==
  ASSUME BootIInv, BootTypeOK',
         UNCHANGED <<store, snap, left, chunk, listed, answer, index, hooks, exact, changed, embedder>>,
         pc' = pc \/ (pc = "created" /\ pc' = "queued"),
         entries \subseteq entries', Aborted => Aborted', stopped => stopped'
  PROVE  BootIInv'
PROOF
<1>1. BuildOwnsIndex'
  BY DEF BootIInv, BuildOwnsIndex, Shape
<1>2. Embedding'
  BY DEF BootIInv, Embedding, Content
<1>3. \A n : Covered(n) <=> Covered(n)'
  BY DEF Covered, Content, Told, Awaits
<1>4. Awaited' /\ Reconciling' /\ Adopting' /\ Passed'
  BY <1>3 DEF BootIInv, Awaited, Reconciling, Adopting, Passed, Content
<1>5. Cached'
  BY DEF BootIInv, Cached, Content, Hit
<1>6. \A n : Tidy(n) <=> Tidy(n)'
  BY DEF Tidy, Shape, Mode, Touching, ExactAt, Live, Content
<1>7. Maintained'
  BY <1>6 DEF BootIInv, Maintained, Serving
<1>. QED BY <1>1, <1>2, <1>4, <1>5, <1>7 DEF BootIInv

LEMMA SideStep ==
  ASSUME BootIInv, Tick \/ Serve \/ Release \/ CacheStep \/ Start
  PROVE  BootIInv'
PROOF
<1>1. UNCHANGED <<store, snap, left, chunk, listed, answer, index, hooks, exact, changed, embedder, undoable>>
  BY DEF Tick, Serve, Query, QueryEnter, Settle, QuerySettle, Release, Reassign, BootTeardown, BootReleased,
         EngineTeardown, CacheStep, Start, storeVars, buildVars, indexVars, engineVars
<1>2. entries' = entries /\ (pc' = pc \/ (pc = "created" /\ pc' = "queued"))
  BY DEF Tick, Serve, Query, QueryEnter, Settle, QuerySettle, Release, Reassign, BootTeardown, BootReleased,
         CacheStep, TimerFires, RunWrite, Start, storeVars, buildVars, cacheVars
<1>3. (Aborted => Aborted') /\ (stopped => stopped') /\ stopped' \in BOOLEAN /\ now' \in Nat
  <2>1. CASE Tick
    BY <2>1 DEF Tick, engineVars, BootIInv, BootTypeOK, Aborted
  <2>2. CASE Serve
    BY <2>2 DEF Serve, Query, QueryEnter, Settle, QuerySettle, storeVars, BootIInv, BootTypeOK, Aborted
  <2>3. CASE Release
    BY <2>3 DEF Release, Reassign, BootTeardown, BootReleased, EngineTeardown, engineVars, storeVars,
                BootIInv, BootTypeOK, Aborted
  <2>4. CASE CacheStep \/ Start
    BY <2>4 DEF CacheStep, Start, engineVars, storeVars, BootIInv, BootTypeOK, Aborted
  <2>. QED BY <2>1, <2>2, <2>3, <2>4
<1>4. BootTypeOK'
  BY <1>1, <1>2, <1>3 DEF BootIInv, BootTypeOK
<1>. QED BY <1>1, <1>2, <1>3, <1>4, QuietStep

----------------------------------------------------------------------------
(* Edits.                                                                  *)

\* The build sees a change of the store in its later passes, and so does the history.
LEMMA BuildSees ==
  ASSUME BootIInv, BootTypeOK', NEW n \in Nodes, changed' = changed \cup {n},
         \A m \in Nodes \ {n} : store'[m] = store[m],
         UNCHANGED <<snap, left, chunk, listed, answer, pc, release, embedder>>,
         embedder = "lexical" => UNCHANGED <<index, hooks, exact, entries>>
  PROVE  BuildOwnsIndex' /\ Embedding' /\ Awaited' /\ Reconciling' /\ Adopting' /\ Passed' /\ Cached'
PROOF
<1>1. CASE embedder = "lexical"
  <2>1. UNCHANGED <<index, hooks, exact, entries>>
    BY <1>1
  <2>2. BuildOwnsIndex' /\ Embedding' /\ Cached'
    BY <1>1, <2>1 DEF BootIInv, BuildOwnsIndex, Shape, Embedding, Cached, Content, Hit, Aborted
  <2>6. Awaited'
    BY DEF BootIInv, BootTypeOK, Awaited, Runs
  <2>3. ASSUME NEW m \in Nodes, Covered(m) PROVE Covered(m)'
    BY <2>1, <2>3 DEF Covered, Content, Told, Awaits
  <2>4. Reconciling'
    BY <2>1, <2>3 DEF BootIInv, Reconciling, Content
  <2>5. Adopting' /\ Passed'
    BY <2>1, <2>3 DEF BootIInv, Adopting, Passed, Content
  <2>. QED BY <2>2, <2>4, <2>5, <2>6
<1>2. CASE embedder = "vector"
  BY <1>2 DEF BootIInv, BuildOwnsIndex, Embedding, Awaited, Reconciling, Adopting, Passed, Cached, Embedders
<1>. QED BY <1>1, <1>2 DEF BootIInv, BootTypeOK, Embedders

\* What a touch does to the types, and to nodes that are not touched.
LEMMA TouchKeeps ==
  ASSUME BootIInv, NEW n \in Nodes, NEW r \in Versions \cup {None}, Touch(n, r), UNCHANGED <<embedder, stopped>>,
         \A m \in Nodes \ {n} : store'[m] = store[m]
  PROVE  /\ index' \in Indices /\ hooks' \in [Hooks -> Runs \cup {None}]
         /\ exact' \in [Nodes -> {"gap", "exact", "raced", "untold"}]
         /\ Serving => \A m \in Nodes \ {n} : Tidy(m)'
PROOF
<1>0. index \in Indices /\ hooks \in [Hooks -> Runs \cup {None}]
      /\ exact \in [Nodes -> {"gap", "exact", "raced", "untold"}]
  BY DEF BootIInv, BootTypeOK
<1>1. CASE ~Serving
  BY <1>0, <1>1 DEF Touch, indexVars
<1>2. CASE Serving
  <2>1. exact' = [exact EXCEPT ![n] = Justified(n)] /\ Justified(n) \in {"raced", "exact"}
    BY <1>2 DEF Touch, Justified
  <2>2. exact' \in [Nodes -> {"gap", "exact", "raced", "untold"}] /\ \A m \in Nodes \ {n} : exact'[m] = exact[m]
    BY <1>0, <2>1
  <2>3. \/ /\ index' = Skip(index, n, "no") /\ UNCHANGED hooks
        \/ /\ index' = Skip(index, n, "empty") /\ UNCHANGED hooks
        \/ /\ r # None /\ r.text # Empty /\ index' = Embedded(index, n, r.text, Mode(index, n)) /\ UNCHANGED hooks
        \/ /\ r # None /\ r.text # Empty /\ UNCHANGED index
           /\ \E h \in Hooks : hooks[h] = None
                /\ hooks' = [hooks EXCEPT ![h] = [node |-> n, text |-> r.text, mode |-> Mode(index, n)]]
    BY <1>2 DEF Touch, Skip
  <2>4. r # None /\ r.text # Empty => r.text \in Texts /\ Mode(index, n) \in {"add", "update"}
    BY DEF Versions, Mode
  <2>5. index' \in Indices /\ Elsewhere(index, index', n)
    <3>1. CASE index' = Skip(index, n, "no") \/ index' = Skip(index, n, "empty")
      BY <1>0, <3>1, SkipGives
    <3>2. CASE r # None /\ r.text # Empty /\ index' = Embedded(index, n, r.text, Mode(index, n))
      BY <1>0, <2>4, <3>2, EmbeddedGives
    <3>3. CASE UNCHANGED index
      BY <1>0, <3>3 DEF Elsewhere
    <3>. QED BY <2>3, <3>1, <3>2, <3>3
  <2>6. hooks' \in [Hooks -> Runs \cup {None}]
        /\ \A h \in Hooks : hooks'[h] = hooks[h] \/ (hooks[h] = None /\ hooks'[h].node = n)
    <3>1. CASE UNCHANGED hooks
      BY <1>0, <3>1
    <3>2. CASE \E h \in Hooks : hooks[h] = None /\ r # None /\ r.text # Empty
                /\ hooks' = [hooks EXCEPT ![h] = [node |-> n, text |-> r.text, mode |-> Mode(index, n)]]
      <4>1. PICK h \in Hooks : hooks[h] = None /\ r # None /\ r.text # Empty
                /\ hooks' = [hooks EXCEPT ![h] = [node |-> n, text |-> r.text, mode |-> Mode(index, n)]]
        BY <3>2
      <4>2. [node |-> n, text |-> r.text, mode |-> Mode(index, n)] \in Runs
        BY <2>4, <4>1 DEF Runs
      <4>. QED BY <1>0, <4>1, <4>2
    <3>. QED BY <2>3, <3>1, <3>2
  <2>7. ASSUME NEW m \in Nodes \ {n}, Tidy(m) PROVE Tidy(m)'
    <3>1. \A h \in Hooks : (hooks'[h] # None /\ hooks'[h].node = m) => (hooks[h] # None /\ hooks'[h] = hooks[h])
      BY <2>6, <2>7
    <3>2. \A h \in Hooks : (hooks[h] # None /\ hooks[h].node = m) => hooks'[h] = hooks[h]
      BY <2>6, <2>7
    <3>3. /\ index'.emb[m] = index.emb[m] /\ index'.ids[m] = index.ids[m] /\ index'.skipped[m] = index.skipped[m]
          /\ exact'[m] = exact[m] /\ store'[m] = store[m]
      BY <2>2, <2>5, <2>7 DEF Elsewhere
    <3>4. (Shape(m) => Shape(m)') /\ (Mode(index, m) = Mode(index, m)') /\ (ExactAt(m) => ExactAt(m)')
      BY <3>3 DEF Shape, Mode, ExactAt, Live, Content
    <3>5. Touching(m) => Touching(m)'
      BY <3>2 DEF Touching
    <3>. QED BY <2>7, <3>1, <3>3, <3>4, <3>5 DEF Tidy
  <2>. QED BY <1>2, <2>2, <2>5, <2>6, <2>7 DEF BootIInv, Maintained
<1>. QED BY <1>1, <1>2

\* A touched node is tidy when the store has the record it was touched with.
LEMMA TouchedIsTidy ==
  ASSUME BootIInv, NEW n \in Nodes, NEW r \in Versions \cup {None}, Touch(n, r), Serving, store'[n] = r
  PROVE  Tidy(n)'
PROOF
<1>0. index \in Indices /\ hooks \in [Hooks -> Runs \cup {None}]
      /\ exact \in [Nodes -> {"gap", "exact", "raced", "untold"}] /\ Tidy(n)
  BY DEF BootIInv, BootTypeOK, Maintained
<1>1. exact'[n] = Justified(n)
  BY <1>0 DEF Touch
<1>2. CASE Justified(n) = "raced"
  BY <1>1, <1>2 DEF Tidy
<1>3. CASE Justified(n) # "raced"
  <2>1. ~Touching(n) /\ exact[n] # "raced" /\ exact'[n] = "exact" /\ Shape(n)
    BY <1>0, <1>1, <1>3 DEF Justified, Tidy
  <2>2. \A h \in Hooks : hooks[h] # None => hooks[h].node # n
    BY <2>1 DEF Touching
  <2>3. index.ids[n] = (IF index.emb[n] = None THEN 0 ELSE 1)
    BY <2>1 DEF Shape
  <2>4. ASSUME UNCHANGED hooks, Shape(n)', ExactAt(n)' PROVE Tidy(n)'
    BY <2>1, <2>2, <2>4 DEF Tidy
  <2>5. CASE r = None
    <3>1. index' = Skip(index, n, "no") /\ UNCHANGED hooks
      BY <2>5 DEF Touch, Skip
    <3>2. index'.emb[n] = None /\ index'.ids[n] = 0 /\ index'.skipped[n] = "no"
      BY <1>0, <2>3, <3>1, SkipGives DEF At
    <3>3. Shape(n)' /\ ExactAt(n)'
      BY <2>5, <3>2 DEF Shape, ExactAt, Live, Content
    <3>. QED BY <2>4, <3>1, <3>3
  <2>6. CASE r # None /\ r.text = Empty
    <3>1. index' = Skip(index, n, "empty") /\ UNCHANGED hooks
      BY <2>6 DEF Touch, Skip
    <3>2. index'.emb[n] = None /\ index'.ids[n] = 0 /\ index'.skipped[n] = "empty"
      BY <1>0, <2>3, <3>1, SkipGives DEF At
    <3>3. Shape(n)' /\ ExactAt(n)'
      BY <2>6, <3>2 DEF Shape, ExactAt, Live, Content
    <3>. QED BY <2>4, <3>1, <3>3
  <2>7. CASE r # None /\ r.text # Empty
    <3>0. r.text \in Texts /\ r.text # None
      BY <2>7, MarkersAssumption DEF Versions
    <3>1. CASE Hit(r.text)
      <4>1. index' = Embedded(index, n, r.text, Mode(index, n)) /\ UNCHANGED hooks
        BY <2>7, <3>1 DEF Touch
      <4>2. index'.emb[n] = r.text /\ index'.skipped[n] = "no"
            /\ index'.ids[n] = IF Mode(index, n) = "add" THEN index.ids[n] + 1 ELSE index.ids[n]
        BY <1>0, <3>0, <4>1, EmbeddedGives DEF At
      <4>3. index'.ids[n] = 1
        BY <2>3, <4>2 DEF Mode
      <4>4. Shape(n)' /\ ExactAt(n)'
        BY <2>7, <3>0, <4>2, <4>3 DEF Shape, ExactAt, Live, Content
      <4>. QED BY <2>4, <4>1, <4>4
    <3>2. CASE ~Hit(r.text)
      <4>1. PICK h \in Hooks : hooks[h] = None
                /\ hooks' = [hooks EXCEPT ![h] = [node |-> n, text |-> r.text, mode |-> Mode(index, n)]]
        BY <2>7, <3>2 DEF Touch
      <4>2. UNCHANGED index
        BY <2>7, <3>2 DEF Touch
      <4>3. [node |-> n, text |-> r.text, mode |-> Mode(index, n)] \in Runs
        BY <3>0 DEF Runs, Mode
      <4>4. hooks'[h] = [node |-> n, text |-> r.text, mode |-> Mode(index, n)] /\ hooks'[h] # None
        BY <1>0, <4>1, <4>3, NoneIsNoRecord DEF Runs
      <4>5. \A g \in Hooks : hooks'[g] # None /\ hooks'[g].node = n => g = h
        BY <1>0, <2>2, <4>1
      <4>6. Touching(n)' /\ Shape(n)' /\ Mode(index, n)' = Mode(index, n)
        BY <2>1, <4>2, <4>4 DEF Touching, Shape, Mode
      <4>. QED BY <2>1, <2>7, <4>4, <4>5, <4>6 DEF Tidy
    <3>. QED BY <3>1, <3>2
  <2>. QED BY <2>5, <2>6, <2>7
<1>. QED BY <1>2, <1>3

LEMMA TouchStep ==
  ASSUME BootIInv, NEW n \in Nodes, NEW r \in Versions \cup {None}, Touch(n, r),
         store' = [store EXCEPT ![n] = r], changed' = changed \cup {n},
         undoable' \in [node : Nodes, rec : Versions \cup {None}] \cup {None},
         UNCHANGED <<engineVars, now, buildVars, release>>
  PROVE  BootIInv'
PROOF
<1>1. /\ UNCHANGED <<embedder, stopped, pc, snap, left, chunk, listed, answer>>
      /\ store'[n] = r /\ \A m \in Nodes \ {n} : store'[m] = store[m]
      /\ store' \in [Nodes -> Versions \cup {None}]
  BY DEF engineVars, buildVars, BootIInv, BootTypeOK
<1>2. /\ index' \in Indices /\ hooks' \in [Hooks -> Runs \cup {None}]
      /\ exact' \in [Nodes -> {"gap", "exact", "raced", "untold"}]
      /\ Serving => \A m \in Nodes \ {n} : Tidy(m)'
  BY <1>1, TouchKeeps
<1>3. BootTypeOK'
  BY <1>1, <1>2 DEF BootIInv, BootTypeOK
<1>4. embedder = "lexical" => UNCHANGED <<index, hooks, exact, entries>>
  BY DEF Touch, Serving, indexVars, cacheVars
<1>5. BuildOwnsIndex' /\ Embedding' /\ Awaited' /\ Reconciling' /\ Adopting' /\ Passed' /\ Cached'
  BY <1>1, <1>3, <1>4, BuildSees
<1>6. Maintained'
  <2>1. Serving => Tidy(n)'
    BY <1>1, TouchedIsTidy
  <2>. QED BY <1>1, <1>2, <2>1 DEF Maintained, Serving
<1>. QED BY <1>3, <1>5, <1>6 DEF BootIInv

LEMMA EditStep == ASSUME BootIInv, Edit PROVE BootIInv'
PROOF
<1>0. store \in [Nodes -> Versions \cup {None}] /\ now \in Nat
  BY DEF BootIInv, BootTypeOK
<1>1. \A n \in Nodes : Restoring(n) \in [node : Nodes, rec : Versions \cup {None}] \cup {None}
  BY <1>0 DEF Restoring
<1>2. ASSUME NEW n \in Nodes, NEW t \in Texts \cup {Empty}, NEW restore, Put(n, t, restore),
             restore \in [node : Nodes, rec : Versions \cup {None}] \cup {None}
      PROVE  BootIInv'
  <2>. DEFINE r == [text |-> t, at |-> Refreshed(n)]
  <2>1. Refreshed(n) \in Nat
    <3>1. CASE Live(n)
      <4>1. store[n].at \in Nat
        BY <1>0, <3>1 DEF Live, Versions
      <4>. QED BY <1>0, <4>1 DEF Refreshed
    <3>2. CASE ~Live(n)
      BY <1>0, <3>2 DEF Refreshed
    <3>. QED BY <3>1, <3>2
  <2>2. r \in Versions \cup {None}
    BY <2>1 DEF Versions
  <2>3. /\ store' = [store EXCEPT ![n] = r] /\ Touch(n, r) /\ changed' = changed \cup {n}
        /\ undoable' = restore /\ UNCHANGED <<engineVars, now, buildVars, release>>
    BY <1>2 DEF Put
  <2>. HIDE DEF r
  <2>. QED BY <1>2, <2>2, <2>3, TouchStep
<1>3. ASSUME NEW n \in Nodes, NEW t \in Texts \cup {Empty}, EditNode(n, t) \/ EditBatch(n, t) PROVE BootIInv'
  <2>1. \E restore \in [node : Nodes, rec : Versions \cup {None}] \cup {None} : Put(n, t, restore)
    BY <1>1, <1>3 DEF EditNode, EditBatch
  <2>. QED BY <1>2, <2>1
<1>4. ASSUME NEW n \in Nodes, DeleteNode(n) PROVE BootIInv'
  BY <1>1, <1>4, TouchStep DEF DeleteNode
<1>5. CASE Undo
  <2>1. PICK n \in Nodes : n = undoable.node
    BY <1>5 DEF Undo, BootIInv, BootTypeOK
  <2>2. undoable.rec \in Versions \cup {None}
    BY <1>5 DEF Undo, BootIInv, BootTypeOK
  <2>3. /\ UNCHANGED <<embedder, stopped, snap, left, chunk, listed, answer, pc, release, index, hooks, entries, now>>
        /\ store' = [store EXCEPT ![n] = undoable.rec] /\ changed' = changed \cup {n} /\ undoable' = None
        /\ exact' = IF Serving /\ exact[n] # "raced" THEN [exact EXCEPT ![n] = "untold"] ELSE exact
    BY <1>5, <2>1 DEF Undo, engineVars, buildVars, cacheVars
  <2>4. \A m \in Nodes \ {n} : store'[m] = store[m] /\ exact'[m] = exact[m]
    BY <1>0, <2>3 DEF BootIInv, BootTypeOK
  <2>5. BootTypeOK'
    BY <2>2, <2>3 DEF BootIInv, BootTypeOK
  <2>6. embedder = "lexical" => UNCHANGED exact
    BY <2>3 DEF Serving
  <2>7. BuildOwnsIndex' /\ Embedding' /\ Awaited' /\ Reconciling' /\ Adopting' /\ Passed' /\ Cached'
    BY <2>3, <2>4, <2>5, <2>6, BuildSees
  <2>8. ASSUME Serving, NEW m \in Nodes, m # n PROVE Tidy(m)'
    BY <2>3, <2>4, <2>8 DEF BootIInv, Maintained, Tidy, Shape, Mode, Touching, ExactAt, Live, Content
  <2>9. ASSUME Serving PROVE Tidy(n)'
    <3>1. exact'[n] = IF exact[n] # "raced" THEN "untold" ELSE "raced"
      BY <2>3, <2>9 DEF BootIInv, BootTypeOK
    <3>. QED BY <2>3, <2>9, <3>1 DEF BootIInv, Maintained, Tidy, Shape, Mode
  <2>10. Maintained'
    BY <2>3, <2>8, <2>9 DEF Maintained, Serving
  <2>. QED BY <2>5, <2>7, <2>10 DEF BootIInv
<1>. QED BY <1>3, <1>4, <1>5 DEF Edit

----------------------------------------------------------------------------
(* The provider answers runs of the hook.                                  *)

\* A run that ends disturbs no other node.
LEMMA OthersTidy ==
  ASSUME BootTypeOK, NEW n \in Nodes, NEW m \in Nodes \ {n}, Tidy(m), Elsewhere(index, index', n),
         exact'[m] = exact[m], UNCHANGED store,
         \A h \in Hooks : hooks'[h] = hooks[h] \/ (hooks'[h] = None /\ hooks[h].node = n)
  PROVE  Tidy(m)'
PROOF
<1>1. \A h \in Hooks : (hooks'[h] # None /\ hooks'[h].node = m) => (hooks[h] # None /\ hooks'[h] = hooks[h])
  OBVIOUS
<1>2. \A h \in Hooks : (hooks[h] # None /\ hooks[h].node = m) => hooks'[h] = hooks[h]
  OBVIOUS
<1>3. index'.emb[m] = index.emb[m] /\ index'.ids[m] = index.ids[m] /\ index'.skipped[m] = index.skipped[m]
  BY DEF Elsewhere
<1>4. (Shape(m) => Shape(m)') /\ (Mode(index, m) = Mode(index, m)') /\ (ExactAt(m) => ExactAt(m)')
  BY <1>3 DEF Shape, Mode, ExactAt, Live, Content
<1>5. Touching(m) => Touching(m)'
  BY <1>2 DEF Touching
<1>. QED BY <1>1, <1>4, <1>5 DEF Tidy

LEMMA HookStep == ASSUME BootIInv, Hook PROVE BootIInv'
PROOF
<1>1. PICK h \in Hooks : HookAnswered(h) \/ HookRejected(h) \/ HookMalformed(h)
  BY DEF Hook
<1>2. hooks[h] # None /\ hooks' = [hooks EXCEPT ![h] = None]
  BY <1>1 DEF HookAnswered, HookRejected, HookMalformed
<1>3. PICK n \in Nodes, text \in Texts, mode \in {"add", "update"} :
        hooks[h].node = n /\ hooks[h].text = text /\ hooks[h].mode = mode
  BY <1>2 DEF BootIInv, BootTypeOK, Runs
<1>4. /\ UNCHANGED <<embedder, stopped, store, undoable, now, pc, snap, left, chunk, listed, answer, release, changed>>
  BY <1>1 DEF HookAnswered, HookRejected, HookMalformed, engineVars, storeVars, buildVars
<1>5. embedder = "vector" /\ pc = "promoted" /\ answer = None
  BY <1>2 DEF BootIInv, BootTypeOK, BuildOwnsIndex, Embedders
<1>6. /\ hooks' \in [Hooks -> Runs \cup {None}] /\ hooks'[h] = None
      /\ \A g \in Hooks : hooks'[g] = hooks[g] \/ (hooks'[g] = None /\ hooks[g].node = n)
      /\ \A g \in Hooks \ {h} : hooks'[g] = hooks[g]
  BY <1>2, <1>3 DEF BootIInv, BootTypeOK
<1>7. ASSUME index' \in Indices, exact' \in [Nodes -> {"gap", "exact", "raced", "untold"}],
             Elsewhere(index, index', n), \A m \in Nodes \ {n} : exact'[m] = exact[m],
             Serving => Tidy(n)'
      PROVE  BootIInv'
  <2>1. BootTypeOK'
    BY <1>4, <1>6, <1>7 DEF BootIInv, BootTypeOK
  <2>2. BuildOwnsIndex' /\ Embedding' /\ Awaited' /\ Reconciling' /\ Adopting' /\ Passed' /\ Cached'
    BY <1>4, <1>5 DEF BuildOwnsIndex, Embedding, Awaited, Reconciling, Adopting, Passed, Cached
  <2>3. \A m \in Nodes \ {n} : Serving => Tidy(m)'
    BY <1>3, <1>4, <1>6, <1>7, OthersTidy DEF BootIInv, Maintained
  <2>4. Maintained'
    BY <1>4, <1>7, <2>3 DEF Maintained, Serving
  <2>. QED BY <2>1, <2>2, <2>4 DEF BootIInv
<1>8. /\ index \in Indices /\ exact \in [Nodes -> {"gap", "exact", "raced", "untold"}]
      /\ Serving => Tidy(n)
  BY <1>3 DEF BootIInv, BootTypeOK, Maintained
\* What Tidy says when the run is the only one.
<1>9. ASSUME Serving, exact[n] # "raced"
      PROVE  /\ index.ids[n] = (IF index.emb[n] = None THEN 0 ELSE 1)
             /\ \A g \in Hooks : hooks'[g] # None => hooks'[g].node # n
             /\ mode = "add" <=> index.ids[n] = 0
             /\ mode = "add" => index.emb[n] = None
             /\ exact[n] = "exact" => store[n] # None /\ text = store[n].text
  <2>1. Shape(n) /\ mode = Mode(index, n)
    BY <1>2, <1>3, <1>8, <1>9 DEF Tidy
  <2>2. \A g \in Hooks : hooks[g] # None /\ hooks[g].node = n => g = h
    BY <1>2, <1>3, <1>8, <1>9 DEF Tidy
  <2>3. exact[n] = "exact" => store[n] # None /\ text = store[n].text
    BY <1>2, <1>3, <1>8, <1>9 DEF Tidy
  <2>4. index.ids[n] \in Nat
    BY <1>3, <1>8, IndexFields
  <2>. QED BY <1>6, <2>1, <2>2, <2>3, <2>4 DEF Shape, Mode
<1>10. CASE HookAnswered(h)
  <2>1. index' = Embedded(index, n, text, mode) /\ UNCHANGED exact
    BY <1>3, <1>10 DEF HookAnswered
  <2>2. /\ index' \in Indices /\ Elsewhere(index, index', n)
        /\ index'.emb[n] = text /\ index'.skipped[n] = "no"
        /\ index'.ids[n] = IF mode = "add" THEN index.ids[n] + 1 ELSE index.ids[n]
    BY <1>3, <1>8, <2>1, EmbeddedGives DEF At
  <2>3. ASSUME Serving, exact[n] # "raced" PROVE Tidy(n)'
    <3>1. text # None /\ text # Empty
      BY <1>3, MarkersAssumption
    <3>2. Shape(n)'
      BY <1>9, <2>2, <2>3, <3>1 DEF Shape
    <3>3. exact[n] = "exact" => ExactAt(n)'
      BY <1>4, <1>9, <2>2, <2>3, <3>1 DEF ExactAt, Live, Content
    <3>. QED BY <1>9, <2>1, <2>3, <3>2, <3>3 DEF Tidy
  <2>4. Serving => Tidy(n)'
    BY <2>1, <2>3 DEF Tidy
  <2>. QED BY <1>7, <1>8, <2>1, <2>2, <2>4
<1>11. CASE HookRejected(h)
  <2>1. index' = Rejected(index, n, mode) /\ UNCHANGED exact
    BY <1>3, <1>11 DEF HookRejected
  <2>2. index' \in Indices /\ Elsewhere(index, index', n)
    BY <1>3, <1>8, <2>1, RejectedGives
  <2>3. ASSUME Serving, exact[n] # "raced" PROVE Tidy(n)'
    <3>1. index'.emb[n] = None /\ index'.ids[n] = 0 /\ index'.skipped[n] = "transient"
      BY <1>3, <1>8, <1>9, <2>1, <2>3, RejectedGives DEF At
    <3>2. Shape(n)'
      BY <3>1 DEF Shape
    <3>3. exact[n] = "exact" => ExactAt(n)'
      BY <1>3, <1>4, <1>9, <2>3, <3>1, MarkersAssumption DEF ExactAt, Live, Content
    <3>. QED BY <1>9, <2>1, <2>3, <3>2, <3>3 DEF Tidy
  <2>4. Serving => Tidy(n)'
    BY <2>1, <2>3 DEF Tidy
  <2>. QED BY <1>7, <1>8, <2>1, <2>2, <2>4
<1>12. CASE HookMalformed(h)
  <2>1. exact' = [exact EXCEPT ![n] = "raced"] /\ UNCHANGED index
    BY <1>3, <1>12 DEF HookMalformed
  <2>2. /\ exact' \in [Nodes -> {"gap", "exact", "raced", "untold"}] /\ exact'[n] = "raced"
        /\ \A m \in Nodes \ {n} : exact'[m] = exact[m]
    BY <1>3, <1>8, <2>1
  <2>3. Tidy(n)' /\ Elsewhere(index, index', n)
    BY <2>1, <2>2 DEF Tidy, Elsewhere
  <2>. QED BY <1>7, <1>8, <2>1, <2>2, <2>3
<1>. QED BY <1>1, <1>10, <1>11, <1>12

----------------------------------------------------------------------------
(* The build.                                                              *)

\* Where the build goes on, and the index is not the hook's yet.
LEMMA BuildGoesOn ==
  ASSUME BootIInv, BootTypeOK', embedder = "lexical", UNCHANGED <<embedder, hooks, exact>>,
         pc' \notin {"promoted", "created", "queued"}, pc' \notin {"reconcile", "adopt"} => answer' = None,
         \A n \in Nodes : Shape(n)',
         Embedding', Awaited', Reconciling', Adopting', Passed', Cached'
  PROVE  BootIInv'
PROOF
<1>1. BuildOwnsIndex'
  BY DEF BootIInv, BuildOwnsIndex
<1>2. Maintained'
  BY DEF Maintained, Serving
<1>. QED BY <1>1, <1>2 DEF BootIInv

\* The steps of the build, before its promotion.
BuildStays == UNCHANGED <<embedder, stopped, hooks, exact, store, undoable, now, release>> /\ embedder = "lexical"

LEMMA Stays ==
  ASSUME BootIInv, Build, ~Promote, ~Start PROVE BuildStays /\ pc \notin {"promoted", "created"}
PROOF
<1>1. /\ UNCHANGED <<embedder, stopped, hooks, exact, store, undoable, now, release>>
      /\ pc \notin {"promoted", "created"}
  <2>1. ASSUME NEW n \in Nodes, NEW S, ItemAnswered(n) \/ ItemRejected(n) \/ ReconcileNext(n, S) \/ AdoptNext(n)
        PROVE  /\ UNCHANGED <<embedder, stopped, hooks, exact, store, undoable, now, release>>
               /\ pc \notin {"promoted", "created"}
    BY <2>1 DEF ItemAnswered, ItemRejected, AfterItem, ReconcileNext, AdoptNext, engineVars, storeVars, indexVars
  <2>2. Snapshot \/ NextChunk \/ ChunkAnswered \/ ChunkWithHoles \/ ChunkRejected \/ Embed \/ Reconciled
        \/ DrainCache \/ PruneCache
          => /\ UNCHANGED <<embedder, stopped, hooks, exact, store, undoable, now, release>>
             /\ pc \notin {"promoted", "created"}
    BY DEF Snapshot, NextChunk, ChunkAnswered, ChunkWithHoles, ChunkRejected, Embed, Reconciled, DrainCache,
           PruneCache, engineVars, storeVars, indexVars
  <2>3. BuildAnswered \/ BuildRejected \/ BuildMalformed \/ Cancel
          => /\ UNCHANGED <<embedder, stopped, hooks, exact, store, undoable, now, release>>
             /\ pc \notin {"promoted", "created"}
    BY DEF BuildAnswered, BuildRejected, BuildMalformed, Cancel, engineVars, storeVars, indexVars,
           BootIInv, BuildOwnsIndex
  <2>. QED BY <2>1, <2>2, <2>3 DEF Build
<1>2. embedder = "lexical"
  BY <1>1 DEF BootIInv, BootTypeOK, BuildOwnsIndex, Embedders
<1>. QED BY <1>1, <1>2 DEF BuildStays

LEMMA SnapshotStep == ASSUME BootIInv, BuildStays, Snapshot PROVE BootIInv'
PROOF
<1>. DEFINE f == [n \in Nodes |-> IF Live(n) /\ ~Content(store, n) THEN "empty" ELSE "no"]
<1>1. /\ pc = "queued" /\ pc' = "embed" /\ snap' = store /\ left' = {n \in Nodes : Content(store, n)}
      /\ UNCHANGED <<chunk, listed, answer>> /\ chunk = {} /\ answer = None
      /\ index' = [EmptyIndex EXCEPT !.skipped = f]
  BY DEF Snapshot, BootIInv, BuildOwnsIndex
<1>2. index' \in Indices /\ index'.emb = [n \in Nodes |-> None] /\ index'.ids = [n \in Nodes |-> 0] /\ index'.skipped = f
  BY <1>1 DEF EmptyIndex, Indices
<1>3. BootTypeOK'
  BY <1>1, <1>2 DEF BootIInv, BootTypeOK, BuildStays
<1>4. \A n \in Nodes : Shape(n)'
  BY <1>2 DEF Shape
<1>5. Embedding' /\ Cached' /\ Awaited' /\ Reconciling' /\ Adopting' /\ Passed'
  BY <1>1, <1>2 DEF Embedding, Cached, Awaited, Reconciling, Adopting, Passed, Content, Live, BuildStays
<1>. QED BY <1>1, <1>3, <1>4, <1>5, BuildGoesOn DEF BuildStays

\* The pass of createVectorIndex.
LEMMA EmbedStep ==
  ASSUME BootIInv, BuildStays,
         \/ NextChunk \/ ChunkAnswered \/ ChunkWithHoles \/ ChunkRejected
         \/ \E n \in Nodes : ItemAnswered(n) \/ ItemRejected(n)
         \/ Embed
  PROVE  BootIInv'
PROOF
<1>0. /\ pc \in {"embed", "items"} /\ answer = None /\ UNCHANGED <<snap, listed, answer>>
      /\ \A n \in Nodes : Shape(n)
  BY DEF NextChunk, ChunkAnswered, ChunkWithHoles, ChunkRejected, ItemAnswered, ItemRejected, AfterItem, Embed,
         BootIInv, BuildOwnsIndex, BuildStays
<1>1. /\ left \cap chunk = {}
      /\ \A n \in left \cup chunk : Content(snap, n) /\ index.emb[n] = None /\ index.skipped[n] = "no"
      /\ \A n \in Nodes \ (left \cup chunk) :
           Content(snap, n) => index.emb[n] = snap[n].text \/ index.skipped[n] = "transient"
      /\ \A n \in Nodes : ~Content(snap, n) => index.emb[n] = None
  BY <1>0 DEF BootIInv, Embedding
<1>2. /\ left \in SUBSET Nodes /\ chunk \in SUBSET Nodes /\ index \in Indices
      /\ snap \in [Nodes -> Versions \cup {None}]
  BY DEF BootIInv, BootTypeOK
<1>3. \A n \in Nodes : Content(snap, n) => snap[n].text \in Texts /\ snap[n].text # None
  BY <1>2, MarkersAssumption DEF Content, Versions
<1>4. ASSUME BootTypeOK', pc' \in {"embed", "items", "failed"}, \A n \in Nodes : Shape(n)', Embedding', Cached'
      PROVE  BootIInv'
  <2>1. Awaited' /\ Reconciling' /\ Adopting' /\ Passed'
    BY <1>0, <1>4 DEF Awaited, Reconciling, Adopting, Passed
  <2>. QED BY <1>0, <1>4, <2>1, BuildGoesOn DEF BuildStays
<1>5. CASE NextChunk
  <2>1. PICK C \in SUBSET left : chunk' = C /\ left' = left \ C
    BY <1>5 DEF NextChunk
  <2>2. pc' = pc /\ chunk = {} /\ UNCHANGED <<index, entries>>
    BY <1>5 DEF NextChunk, CacheGet, indexVars
  <2>3. BootTypeOK'
    BY <1>0, <1>2, <2>1, <2>2 DEF BootIInv, BootTypeOK, BuildStays
  <2>4. Embedding'
    BY <1>0, <1>1, <2>1, <2>2 DEF Embedding, Content
  <2>5. Cached' /\ \A n \in Nodes : Shape(n)'
    BY <1>0, <2>2 DEF BootIInv, Cached, Content, Hit, Shape, Aborted, BuildStays
  <2>. QED BY <1>0, <1>4, <2>2, <2>3, <2>4, <2>5
\* Nodes that are embedded get the text of the snapshot, which is in the cache from then on.
<1>6. ASSUME NEW C \in SUBSET chunk, index' = BuiltFrom(index, C), chunk' = chunk \ C, UNCHANGED left,
             pc' \in {"embed", "items"}, entries \subseteq entries',
             ~Aborted => entries \cup Own(Misses(C)) \subseteq entries'
      PROVE  BootIInv'
  <2>1. \A n \in C : n \in Nodes /\ Content(snap, n)
    BY <1>1, <1>2, <1>6
  <2>2. /\ index' \in Indices
        /\ \A n \in Nodes \ C : At(index', n, index.emb[n], index.ids[n], index.skipped[n])
        /\ \A n \in C : At(index', n, snap[n].text, index.ids[n] + 1, index.skipped[n])
    <3>1. C \in SUBSET Nodes
      BY <2>1
    <3>. QED BY <1>2, <1>6, <2>1, <3>1, BuiltGives
  <2>3. BootTypeOK'
    BY <1>0, <1>2, <1>6, <2>2 DEF BootIInv, BootTypeOK, BuildStays
  <2>4. ASSUME NEW n \in Nodes PROVE Shape(n)'
    <3>1. CASE n \in C
      BY <1>0, <1>1, <1>3, <1>6, <2>1, <2>2, <3>1 DEF Shape, At
    <3>2. CASE n \notin C
      BY <1>0, <2>2, <3>2 DEF Shape, At
    <3>. QED BY <3>1, <3>2
  <2>5. Embedding'
    <3>1. left' \cap chunk' = {}
      BY <1>1, <1>6
    <3>2. ASSUME NEW n \in left' \cup chunk'
          PROVE  Content(snap', n) /\ index'.emb[n] = None /\ index'.skipped[n] = "no"
      <4>1. n \in left \cup chunk /\ n \notin C /\ n \in Nodes
        BY <1>1, <1>2, <1>6, <3>2
      <4>. QED BY <1>0, <1>1, <2>2, <4>1 DEF At, Content
    <3>3. ASSUME NEW n \in Nodes \ (left' \cup chunk'), Content(snap', n)
          PROVE  index'.emb[n] = snap'[n].text \/ index'.skipped[n] = "transient"
      <4>1. CASE n \in C
        BY <1>0, <2>2, <4>1 DEF At
      <4>2. CASE n \notin C
        <5>1. n \notin left \cup chunk /\ Content(snap, n)
          BY <1>0, <1>6, <3>3, <4>2 DEF Content
        <5>. QED BY <1>0, <1>1, <2>2, <4>2, <5>1 DEF At
      <4>. QED BY <4>1, <4>2
    <3>4. ASSUME NEW n \in Nodes, ~Content(snap', n) PROVE index'.emb[n] = None
      <4>1. ~Content(snap, n) /\ n \notin C
        BY <1>0, <2>1, <3>4 DEF Content
      <4>. QED BY <1>1, <2>2, <4>1 DEF At
    <3>. QED BY <3>1, <3>2, <3>3, <3>4 DEF Embedding
  <2>6. Cached'
    <3>1. ASSUME ~Aborted', NEW n \in Nodes, Content(snap', n), index'.emb[n] # None
          PROVE  [text |-> snap'[n].text, own |-> TRUE] \in entries'
      <4>1. ~Aborted /\ Content(snap, n) /\ snap' = snap
        BY <1>0, <3>1 DEF Aborted, BuildStays, Content
      <4>2. PICK t \in Texts : t = snap[n].text
        BY <1>3, <4>1
      <4>3. CASE n \in C
        <5>1. [text |-> t, own |-> TRUE] \in entries \/ t \in Misses(C)
          BY <4>2, <4>3 DEF Misses, Hit
        <5>2. t \in Misses(C) => [text |-> t, own |-> TRUE] \in Own(Misses(C))
          BY DEF Own
        <5>. QED BY <1>6, <4>1, <4>2, <5>1, <5>2
      <4>4. CASE n \notin C
        <5>1. index.emb[n] # None
          BY <2>2, <3>1, <4>4 DEF At
        <5>2. [text |-> snap[n].text, own |-> TRUE] \in entries
          BY <1>0, <4>1, <5>1 DEF BootIInv, Cached, Hit
        <5>. QED BY <1>6, <4>1, <5>2
      <4>. QED BY <4>3, <4>4
    <3>2. UNCHANGED snap
      BY <1>0
    <3>3. ASSUME ~Aborted', NEW n \in Nodes, Content(snap, n)', (index.emb[n] # None)'
          PROVE  Hit(snap[n].text)'
      BY <3>1, <3>3 DEF Content, Hit
    <3>. QED BY <3>3 DEF Cached
  <2>. QED BY <1>4, <1>6, <2>3, <2>4, <2>5, <2>6
<1>7. CASE ChunkAnswered
  <2>1. /\ index' = BuiltFrom(index, chunk) /\ chunk' = chunk \ chunk /\ UNCHANGED left /\ pc' = "embed"
        /\ entries' = entries \cup Own(Misses(chunk))
    BY <1>7 DEF ChunkAnswered, CacheSet
  <2>. QED BY <1>6, <2>1
<1>8. CASE ChunkWithHoles \/ ChunkRejected
  <2>1. UNCHANGED <<index, entries, left, chunk>> /\ pc' \in {"failed", "items"}
    BY <1>8 DEF ChunkWithHoles, ChunkRejected, indexVars, cacheVars
  <2>2. BootTypeOK'
    BY <1>0, <2>1 DEF BootIInv, BootTypeOK, BuildStays
  <2>3. Embedding'
    BY <1>0, <1>1, <2>1 DEF Embedding, Content
  <2>4. Cached' /\ \A n \in Nodes : Shape(n)'
    BY <1>0, <2>1 DEF BootIInv, Cached, Content, Hit, Shape, Aborted, BuildStays
  <2>. QED BY <1>4, <2>1, <2>2, <2>3, <2>4
<1>9. ASSUME NEW n \in Nodes, ItemAnswered(n) PROVE BootIInv'
  <2>1. /\ index' = BuiltFrom(index, {n}) /\ {n} \in SUBSET chunk /\ chunk' = chunk \ {n} /\ UNCHANGED left
        /\ pc' \in {"embed", "items"}
    BY <1>9 DEF ItemAnswered, AfterItem
  <2>2. entries \subseteq entries' /\ (~Aborted => entries \cup Own(Misses({n})) \subseteq entries')
    BY <1>9 DEF ItemAnswered, CacheSet, cacheVars
  <2>. QED BY <1>6, <2>1, <2>2
<1>10. ASSUME NEW n \in Nodes, ItemRejected(n) PROVE BootIInv'
  <2>. DEFINE c == [index.skipped EXCEPT ![n] = "transient"]
  <2>1. /\ index' = [index EXCEPT !.skipped = c] /\ n \in chunk /\ chunk' = chunk \ {n} /\ UNCHANGED <<left, entries>>
        /\ pc' \in {"embed", "items"}
    BY <1>10 DEF ItemRejected, AfterItem, cacheVars
  <2>2. c \in [Nodes -> {"no", "empty", "transient"}] /\ c[n] = "transient"
        /\ \A m \in Nodes \ {n} : c[m] = index.skipped[m]
    BY <1>2, IndexFields
  <2>. HIDE DEF c
  <2>3. index' \in Indices /\ index'.emb = index.emb /\ index'.ids = index.ids /\ index'.skipped = c
    BY <1>2, <2>1, <2>2 DEF Indices
  <2>4. BootTypeOK'
    BY <1>0, <1>2, <2>1, <2>3 DEF BootIInv, BootTypeOK, BuildStays
  <2>5. index.emb[n] = None
    BY <1>1, <2>1
  <2>6. \A m \in Nodes : Shape(m)'
    BY <1>0, <2>2, <2>3, <2>5 DEF Shape
  <2>7. Embedding'
    <3>1. left' \cap chunk' = {}
      BY <1>1, <2>1
    <3>2. \A m \in left' \cup chunk' : Content(snap', m) /\ index'.emb[m] = None /\ index'.skipped[m] = "no"
      BY <1>0, <1>1, <1>2, <2>1, <2>2, <2>3 DEF Content
    <3>3. \A m \in Nodes \ (left' \cup chunk') :
            Content(snap', m) => index'.emb[m] = snap'[m].text \/ index'.skipped[m] = "transient"
      BY <1>0, <1>1, <2>1, <2>2, <2>3 DEF Content
    <3>4. \A m \in Nodes : ~Content(snap', m) => index'.emb[m] = None
      BY <1>0, <1>1, <2>3 DEF Content
    <3>. QED BY <3>1, <3>2, <3>3, <3>4 DEF Embedding
  <2>8. Cached'
    BY <1>0, <2>1, <2>3 DEF BootIInv, Cached, Content, Hit, Aborted, BuildStays
  <2>. QED BY <1>4, <2>1, <2>4, <2>6, <2>7, <2>8
<1>11. CASE Embed
  <2>1. /\ chunk = {} /\ left = {} /\ pc' = "reconcile" /\ left' = {n \in Nodes : index.ids[n] > 0} /\ changed' = {}
        /\ UNCHANGED <<chunk, index, entries>>
    BY <1>11 DEF Embed, indexVars, cacheVars
  <2>2. BootTypeOK'
    BY <1>0, <2>1 DEF BootIInv, BootTypeOK, BuildStays
  <2>3. ASSUME NEW n \in Nodes PROVE n \in left' <=> index.emb[n] # None
    BY <1>0, <2>1 DEF Shape
  <2>4. Reconciling'
    <3>1. ASSUME NEW n \in left' PROVE Content(snap', n) /\ index'.emb[n] = snap'[n].text
      <4>1. n \in Nodes /\ index.emb[n] # None
        BY <2>1, <2>3
      <4>2. index.skipped[n] = "no"
        BY <1>0, <4>1 DEF Shape
      <4>. QED BY <1>0, <1>1, <2>1, <4>1, <4>2 DEF Content
    <3>2. \A n \in Nodes : ~Content(snap', n) => index'.emb[n] = None
      BY <1>0, <1>1, <2>1 DEF Content
    <3>3. ASSUME NEW n \in Nodes \ left', Content(snap', n) PROVE index'.skipped[n] = "transient"
      <4>1. index.emb[n] = None /\ Content(snap, n)
        BY <1>0, <2>3, <3>3 DEF Content
      <4>. QED BY <1>1, <1>3, <2>1, <4>1
    <3>. QED BY <1>0, <3>1, <3>2, <3>3 DEF Reconciling, Covered
  <2>5. Cached' /\ \A n \in Nodes : Shape(n)'
    BY <1>0, <2>1 DEF BootIInv, Cached, Content, Hit, Shape, Aborted, BuildStays
  <2>6. Embedding' /\ Awaited' /\ Adopting' /\ Passed'
    BY <1>0, <2>1 DEF Embedding, Awaited, Adopting, Passed
  <2>. QED BY <2>1, <2>2, <2>4, <2>5, <2>6, BuildGoesOn DEF BuildStays
<1>. QED BY <1>5, <1>7, <1>8, <1>9, <1>10, <1>11

\* The nodes of T lose their place in the index: they are empty now.
Emptied(ix, T) ==
  [ix EXCEPT !.emb = [m \in Nodes |-> IF m \in T THEN None ELSE ix.emb[m]],
             !.ids = [m \in Nodes |-> IF m \in T THEN 0 ELSE ix.ids[m]],
             !.skipped = [m \in Nodes |-> IF m \in T THEN "empty" ELSE ix.skipped[m]]]

LEMMA EmptyingGives ==
  ASSUME NEW ix \in Indices, NEW T
  PROVE  /\ Emptied(ix, T) \in Indices
         /\ \A m \in Nodes : IF m \in T THEN At(Emptied(ix, T), m, None, 0, "empty")
                                        ELSE At(Emptied(ix, T), m, ix.emb[m], ix.ids[m], ix.skipped[m])
PROOF
<1>. DEFINE a == [m \in Nodes |-> IF m \in T THEN None ELSE ix.emb[m]]
            b == [m \in Nodes |-> IF m \in T THEN 0 ELSE ix.ids[m]]
            c == [m \in Nodes |-> IF m \in T THEN "empty" ELSE ix.skipped[m]]
            iy == [ix EXCEPT !.emb = a, !.ids = b, !.skipped = c]
<1>1. a \in [Nodes -> Texts \cup {None}] /\ b \in [Nodes -> Nat] /\ c \in [Nodes -> {"no", "empty", "transient"}]
  BY IndexFields
<1>2. iy \in Indices /\ iy.emb = a /\ iy.ids = b /\ iy.skipped = c
  <2>. HIDE DEF a, b, c
  <2>. QED BY <1>1 DEF Indices
<1>3. Emptied(ix, T) = iy
  BY DEF Emptied
<1>. HIDE DEF iy
<1>. QED BY <1>2, <1>3 DEF At

LEMMA ReconcileStep ==
  ASSUME BootIInv, BuildStays, NEW n \in Nodes, NEW S, ReconcileNext(n, S) PROVE BootIInv'
PROOF
<1>. DEFINE T == {m \in S : Changed(m)}
            asked == [node |-> n, text |-> store[n].text, mode |-> "update"]
<1>1. /\ pc = "reconcile" /\ pc' = pc /\ answer = None /\ n \in left /\ Changed(n) /\ Content(store, n)
      /\ S \subseteq {m \in left : ~(Changed(m) /\ Content(store, m))}
      /\ left' = left \ (S \cup {n}) /\ answer' = asked
      /\ UNCHANGED <<snap, chunk, listed, changed, entries>>
  BY DEF ReconcileNext, cacheVars
<1>2. /\ left \in SUBSET Nodes /\ index \in Indices /\ store \in [Nodes -> Versions \cup {None}]
      /\ \A m \in Nodes : Shape(m)
  BY DEF BootIInv, BootTypeOK, BuildOwnsIndex, BuildStays
<1>3. /\ index' \in Indices
      /\ \A m \in Nodes : IF m \in T THEN At(index', m, None, 0, "empty")
                                     ELSE At(index', m, index.emb[m], index.ids[m], index.skipped[m])
  <2>1. \A m : m \in S /\ Changed(m) <=> m \in T
    OBVIOUS
  <2>. HIDE DEF T
  <2>2. index' = Emptied(index, T)
    BY <2>1 DEF ReconcileNext, Emptied
  <2>. QED BY <1>2, <2>2, EmptyingGives
<1>4. store[n] # None /\ store[n].text \in Texts /\ asked \in Runs /\ asked # None
  BY <1>1, <1>2, NoneIsNoRecord DEF Content, Versions, Runs
<1>5. BootTypeOK'
  BY <1>1, <1>3, <1>4 DEF BootIInv, BootTypeOK, BuildStays
<1>6. ASSUME NEW m \in Nodes PROVE Shape(m)'
  BY <1>2, <1>3 DEF Shape, At
<1>7. /\ \A m \in left : Content(snap, m) /\ index.emb[m] = snap[m].text
      /\ \A m \in Nodes : ~Content(snap, m) => index.emb[m] = None
      /\ \A m \in Nodes \ left : Content(snap, m) => Covered(m)
  BY <1>1 DEF BootIInv, Reconciling
<1>8. n \notin T /\ \A m \in left' : m \notin T /\ m \in left /\ m \in Nodes
  BY <1>1, <1>2
<1>9. ASSUME NEW m \in Nodes \ left', Content(snap, m) PROVE Covered(m)'
  <2>1. CASE m = n
    BY <1>1, <1>4, <2>1 DEF Covered, Awaits
  <2>2. CASE m \in left /\ m # n
    <3>1. ASSUME Content(store, m), Told(m) PROVE m \notin T /\ index.emb[m] = store[m].text
      <4>1. m \in S /\ ~Changed(m)
        BY <1>1, <2>2, <3>1
      <4>2. ~(store[m].at > snap[m].at)
        BY <3>1, <4>1 DEF Changed, Content, Live
      <4>. QED BY <1>7, <1>9, <2>2, <3>1, <4>1, <4>2 DEF Told
    <3>2. Content(store, m)' => Content(store, m)
      BY DEF Content, BuildStays
    <3>3. Told(m)' => Told(m)
      BY <1>1 DEF Told, Content, BuildStays
    <3>. QED BY <1>3, <3>1, <3>2, <3>3 DEF Covered, At, BuildStays
  <2>3. CASE m \notin left
    <3>1. Covered(m) /\ m \notin T
      BY <1>1, <1>7, <1>9, <2>3
    <3>2. index'.emb[m] = index.emb[m] /\ index'.skipped[m] = index.skipped[m]
      BY <1>3, <3>1 DEF At
    <3>. QED BY <1>1, <3>1, <3>2 DEF Covered, Awaits, Content, Told, BuildStays
  <2>. QED BY <2>1, <2>2, <2>3
<1>10. Reconciling'
  <2>1. \A m \in left' : Content(snap', m) /\ index'.emb[m] = snap'[m].text
    BY <1>1, <1>3, <1>7, <1>8 DEF At, Content
  <2>2. \A m \in Nodes : ~Content(snap', m) => index'.emb[m] = None
    BY <1>1, <1>3, <1>7 DEF At, Content
  <2>3. answer'.mode = "update" /\ answer'.node = n /\ n \notin left' /\ index'.emb[n] # None
    <3>1. index'.emb[n] = snap[n].text /\ snap[n] # None /\ snap[n].text # Empty
      BY <1>1, <1>3, <1>7, <1>8 DEF At, Content
    <3>2. snap[n].text # None
      BY <1>2, <3>1, MarkersAssumption DEF BootIInv, BootTypeOK, Versions
    <3>. QED BY <1>1, <3>1, <3>2
  <2>4. \A m \in Nodes \ left' : Content(snap, m)' => Covered(m)'
    BY <1>1, <1>9 DEF Content
  <2>. QED BY <2>1, <2>2, <2>3, <2>4 DEF Reconciling
<1>11. Awaited'
  BY <1>1, <1>4 DEF Awaited, BuildStays
<1>12. Cached'
  <2>1. \A m \in Nodes : index'.emb[m] # None => index.emb[m] # None
    BY <1>3 DEF At
  <2>. QED BY <1>1, <2>1 DEF BootIInv, Cached, Content, Hit, Aborted, BuildStays
<1>13. Embedding' /\ Adopting' /\ Passed'
  BY <1>1 DEF Embedding, Adopting, Passed
<1>. QED BY <1>1, <1>5, <1>6, <1>10, <1>11, <1>12, <1>13, BuildGoesOn DEF BuildStays

LEMMA ReconciledStep == ASSUME BootIInv, BuildStays, Reconciled PROVE BootIInv'
PROOF
<1>. DEFINE T == {m \in left : Changed(m)}
<1>1. /\ pc = "reconcile" /\ pc' = "adopt" /\ answer = None /\ listed' = store
      /\ \A m \in left : ~(Changed(m) /\ Content(store, m))
      /\ left' = {n \in Nodes : Live(n) /\ index'.ids[n] = 0 /\ ~Content(snap, n)}
      /\ UNCHANGED <<snap, chunk, answer, changed, entries>>
  BY DEF Reconciled, cacheVars
<1>2. left \in SUBSET Nodes /\ index \in Indices /\ \A m \in Nodes : Shape(m)
  BY DEF BootIInv, BootTypeOK, BuildOwnsIndex, BuildStays
<1>3. /\ index' \in Indices
      /\ \A m \in Nodes : IF m \in T THEN At(index', m, None, 0, "empty")
                                     ELSE At(index', m, index.emb[m], index.ids[m], index.skipped[m])
  <2>1. index' = Emptied(index, T)
    BY DEF Reconciled, Emptied
  <2>. HIDE DEF T
  <2>. QED BY <1>2, <2>1, EmptyingGives
<1>4. BootTypeOK'
  BY <1>1, <1>3 DEF BootIInv, BootTypeOK, BuildStays
<1>5. ASSUME NEW m \in Nodes PROVE Shape(m)'
  BY <1>2, <1>3 DEF Shape, At
<1>6. /\ \A m \in left : Content(snap, m) /\ index.emb[m] = snap[m].text
      /\ \A m \in Nodes : ~Content(snap, m) => index.emb[m] = None
      /\ \A m \in Nodes \ left : Content(snap, m) => Covered(m)
  BY <1>1 DEF BootIInv, Reconciling
<1>7. ASSUME NEW m \in Nodes, m \notin changed, Content(store, m), Told(m), m \notin left'
      PROVE  index'.emb[m] = store[m].text \/ index'.skipped[m] = "transient"
  <2>1. CASE m \in left
    <3>1. ~Changed(m) /\ m \notin T
      BY <1>1, <1>7, <2>1
    <3>2. index.emb[m] = store[m].text
      BY <1>6, <1>7, <2>1, <3>1 DEF Changed, Content, Live, Told
    <3>. QED BY <1>3, <3>1, <3>2 DEF At
  <2>2. CASE m \notin left /\ Content(snap, m)
    <3>1. index.emb[m] = store[m].text \/ index.skipped[m] = "transient"
      BY <1>1, <1>6, <1>7, <2>2 DEF Covered, Awaits
    <3>. QED BY <1>3, <2>2, <3>1 DEF At
  <2>3. CASE ~Content(snap, m)
    <3>1. index'.emb[m] = None
      BY <1>3, <1>6, <2>3 DEF At
    <3>2. index'.ids[m] = 0
      BY <1>5, <3>1 DEF Shape
    <3>. QED BY <1>1, <1>7, <2>3, <3>2 DEF Content, Live
  <2>. QED BY <2>1, <2>2, <2>3
<1>8. Adopting'
  <2>1. ASSUME NEW n \in left' PROVE index'.emb[n] = None /\ ~Content(snap', n)
    <3>1. n \in Nodes /\ index'.ids[n] = 0 /\ ~Content(snap, n)
      BY <1>1
    <3>2. index'.emb[n] = None
      BY <1>5, <3>1 DEF Shape
    <3>. QED BY <1>1, <3>1, <3>2 DEF Content
  <2>2. \A n \in Nodes \ left' : Covered(n)'
    BY <1>1, <1>7 DEF Covered, Content, Told, BuildStays
  <2>. QED BY <1>1, <2>1, <2>2 DEF Adopting, BuildStays
<1>9. Cached'
  <2>1. \A m \in Nodes : index'.emb[m] # None => index.emb[m] # None
    BY <1>3 DEF At
  <2>. QED BY <1>1, <2>1 DEF BootIInv, Cached, Content, Hit, Aborted, BuildStays
<1>10. Embedding' /\ Awaited' /\ Reconciling' /\ Passed'
  BY <1>1 DEF Embedding, Awaited, Reconciling, Passed
<1>. QED BY <1>1, <1>4, <1>5, <1>8, <1>9, <1>10, BuildGoesOn DEF BuildStays

LEMMA AdoptStep ==
  ASSUME BootIInv, BuildStays, NEW n \in Nodes, AdoptNext(n) PROVE BootIInv'
PROOF
<1>1. /\ pc = "adopt" /\ pc' = pc /\ answer = None /\ n \in left /\ left' = left \ {n}
      /\ UNCHANGED <<snap, chunk, listed, changed, entries>>
  BY DEF AdoptNext, cacheVars
<1>2. /\ left \in SUBSET Nodes /\ index \in Indices /\ listed \in [Nodes -> Versions \cup {None}]
      /\ \A m \in Nodes : Shape(m)
  BY DEF BootIInv, BootTypeOK, BuildOwnsIndex, BuildStays
<1>3. /\ \A m \in left : index.emb[m] = None /\ ~Content(snap, m)
      /\ \A m \in Nodes \ changed : listed[m] = store[m]
      /\ \A m \in Nodes \ left : Covered(m)
  BY <1>1 DEF BootIInv, Adopting
<1>4. Embedding' /\ Reconciling' /\ Passed'
  BY <1>1 DEF Embedding, Reconciling, Passed
<1>5. CASE Content(listed, n)
  <2>. DEFINE asked == [node |-> n, text |-> listed[n].text, mode |-> "add"]
  <2>1. answer' = asked /\ UNCHANGED index
    BY <1>5 DEF AdoptNext
  <2>2. asked \in Runs /\ asked # None
    BY <1>2, <1>5, NoneIsNoRecord DEF Content, Versions, Runs
  <2>3. BootTypeOK'
    BY <1>1, <2>1, <2>2 DEF BootIInv, BootTypeOK, BuildStays
  <2>4. Awaited'
    BY <1>1, <1>3, <1>5, <2>1 DEF Awaited, Content, BuildStays
  <2>5. ASSUME NEW m \in Nodes \ left' PROVE Covered(m)'
    <3>1. CASE m = n
      BY <2>1, <2>2, <3>1 DEF Covered, Awaits
    <3>2. CASE m # n
      BY <1>1, <1>3, <2>1, <3>2 DEF Covered, Awaits, Content, Told, BuildStays
    <3>. QED BY <3>1, <3>2
  <2>6. Adopting'
    <3>1. \A m \in left' : index'.emb[m] = None /\ ~Content(snap', m)
      BY <1>1, <1>3, <2>1 DEF Content
    <3>2. answer'.mode = "add" /\ answer'.node = n /\ n \notin left' /\ index'.emb[n] = None /\ ~Content(snap', n)
      BY <1>1, <1>3, <2>1 DEF Content
    <3>3. \A m \in Nodes \ changed' : listed'[m] = store'[m]
      BY <1>1, <1>3 DEF BuildStays
    <3>. QED BY <2>5, <3>1, <3>2, <3>3 DEF Adopting
  <2>7. Cached' /\ \A m \in Nodes : Shape(m)'
    BY <1>1, <1>2, <2>1 DEF BootIInv, Cached, Content, Hit, Shape, Aborted, BuildStays
  <2>. QED BY <1>1, <1>4, <2>3, <2>4, <2>6, <2>7, BuildGoesOn DEF BuildStays
<1>6. CASE ~Content(listed, n)
  <2>1. index' = Skip(index, n, "empty") /\ UNCHANGED answer
    BY <1>6 DEF AdoptNext
  <2>2. index' \in Indices /\ Elsewhere(index, index', n) /\ At(index', n, None, 0, "empty")
    BY <1>2, <2>1, SkipGives DEF Shape
  <2>3. BootTypeOK'
    BY <1>1, <2>1, <2>2 DEF BootIInv, BootTypeOK, BuildStays
  <2>4. \A m \in Nodes : Shape(m)'
    BY <1>2, <2>2 DEF Shape, Elsewhere, At
  <2>5. ASSUME NEW m \in Nodes \ left' PROVE Covered(m)'
    <3>1. CASE m = n
      BY <1>1, <1>3, <1>6, <3>1 DEF Covered, Content, BuildStays
    <3>2. CASE m # n
      BY <1>1, <1>3, <2>1, <2>2, <3>2 DEF Covered, Awaits, Content, Told, Elsewhere, BuildStays
    <3>. QED BY <3>1, <3>2
  <2>6. Adopting'
    <3>1. \A m \in left' : index'.emb[m] = None /\ ~Content(snap', m)
      BY <1>1, <1>2, <1>3, <2>2 DEF Content, Elsewhere
    <3>2. \A m \in Nodes \ changed' : listed'[m] = store'[m]
      BY <1>1, <1>3 DEF BuildStays
    <3>. QED BY <1>1, <2>1, <2>5, <3>1, <3>2 DEF Adopting
  <2>7. Awaited'
    BY <1>1, <2>1 DEF Awaited
  <2>8. Cached'
    <3>1. \A m \in Nodes : index'.emb[m] # None => index.emb[m] # None
      BY <2>2 DEF Elsewhere, At
    <3>. QED BY <1>1, <3>1 DEF BootIInv, Cached, Content, Hit, Aborted, BuildStays
  <2>. QED BY <1>1, <1>4, <2>1, <2>3, <2>4, <2>6, <2>7, <2>8, BuildGoesOn DEF BuildStays
<1>. QED BY <1>5, <1>6

\* The provider's answer to a pass, whichever: its node has the text it was asked for, or a record of the failure.
LEMMA AnswerStep ==
  ASSUME BootIInv, BuildStays, BuildAnswered \/ BuildRejected PROVE BootIInv'
PROOF
<1>1. /\ answer # None /\ answer' = None
      /\ UNCHANGED <<pc, snap, left, chunk, listed, changed, entries>>
  BY DEF BuildAnswered, BuildRejected, cacheVars
<1>2. PICK n \in Nodes, text \in Texts, mode \in {"add", "update"} :
        answer.node = n /\ answer.text = text /\ answer.mode = mode
  BY <1>1 DEF BootIInv, BootTypeOK, Runs
<1>3. /\ pc \in {"reconcile", "adopt"} /\ index \in Indices /\ \A m \in Nodes : Shape(m)
      /\ left \in SUBSET Nodes
  BY <1>1 DEF BootIInv, BootTypeOK, BuildOwnsIndex, BuildStays
<1>4. /\ mode = "add" <=> index.emb[n] = None
      /\ mode = "add" <=> pc = "adopt"
      /\ n \notin left
      /\ pc = "adopt" => ~Content(snap, n)
      /\ pc = "reconcile" => Content(snap, n)
  BY <1>1, <1>2, <1>3 DEF BootIInv, Reconciling, Adopting
<1>5. n \notin changed => store[n] # None /\ text = store[n].text
  BY <1>1, <1>2 DEF BootIInv, Awaited
<1>6. /\ index' \in Indices /\ Elsewhere(index, index', n)
      /\ Shape(n)'
      /\ index'.emb[n] = text \/ index'.skipped[n] = "transient"
  <2>1. Shape(n) /\ text # None
    BY <1>3, MarkersAssumption
  <2>2. CASE BuildAnswered
    <3>1. index' = Embedded(index, n, text, mode)
      BY <1>2, <2>2 DEF BuildAnswered
    <3>2. /\ index' \in Indices /\ Elsewhere(index, index', n)
          /\ At(index', n, text, IF mode = "add" THEN index.ids[n] + 1 ELSE index.ids[n], "no")
      BY <1>3, <3>1, EmbeddedGives
    <3>. QED BY <1>4, <2>1, <3>2 DEF Shape, At
  <2>3. CASE BuildRejected
    <3>1. index' = Rejected(index, n, mode)
      BY <1>2, <2>3 DEF BuildRejected
    <3>2. index' \in Indices /\ Elsewhere(index, index', n) /\ At(index', n, None, 0, "transient")
      BY <1>3, <1>4, <2>1, <3>1, RejectedGives DEF Shape
    <3>. QED BY <3>2 DEF Shape, At
  <2>. QED BY <2>2, <2>3
<1>7. BootTypeOK'
  BY <1>1, <1>6 DEF BootIInv, BootTypeOK, BuildStays
<1>8. \A m \in Nodes : Shape(m)'
  BY <1>3, <1>6 DEF Shape, Elsewhere
<1>9. ASSUME NEW m \in Nodes, Covered(m) PROVE Covered(m)'
  <2>1. CASE m = n
    BY <1>1, <1>5, <1>6, <2>1 DEF Covered, Content, BuildStays
  <2>2. CASE m # n
    BY <1>1, <1>2, <1>6, <1>9, <2>2 DEF Covered, Awaits, Content, Told, Elsewhere, BuildStays
  <2>. QED BY <2>1, <2>2
<1>10. ASSUME NEW m \in left PROVE index'.emb[m] = index.emb[m]
  BY <1>3, <1>4, <1>6 DEF Elsewhere
<1>11. Reconciling'
  <2>. SUFFICES ASSUME pc = "reconcile" PROVE Reconciling'
    BY <1>1 DEF Reconciling
  <2>1. /\ \A m \in left : Content(snap, m) /\ index.emb[m] = snap[m].text
        /\ \A m \in Nodes : ~Content(snap, m) => index.emb[m] = None
        /\ \A m \in Nodes \ left : Content(snap, m) => Covered(m)
    BY DEF BootIInv, Reconciling
  <2>2. \A m \in left' : Content(snap', m) /\ index'.emb[m] = snap'[m].text
    BY <1>1, <1>10, <2>1 DEF Content
  <2>3. \A m \in Nodes : ~Content(snap', m) => index'.emb[m] = None
    BY <1>1, <1>4, <1>6, <2>1 DEF Content, Elsewhere
  <2>4. \A m \in Nodes \ left' : Content(snap, m)' => Covered(m)'
    BY <1>1, <1>9, <2>1 DEF Content
  <2>. QED BY <1>1, <2>2, <2>3, <2>4 DEF Reconciling
<1>12. Adopting'
  <2>. SUFFICES ASSUME pc = "adopt" PROVE Adopting'
    BY <1>1 DEF Adopting
  <2>1. /\ \A m \in left : index.emb[m] = None /\ ~Content(snap, m)
        /\ \A m \in Nodes \ changed : listed[m] = store[m]
        /\ \A m \in Nodes \ left : Covered(m)
    BY DEF BootIInv, Adopting
  <2>2. \A m \in left' : index'.emb[m] = None /\ ~Content(snap', m)
    BY <1>1, <1>10, <2>1 DEF Content
  <2>3. \A m \in Nodes \ changed' : listed'[m] = store'[m]
    BY <1>1, <2>1 DEF BuildStays
  <2>4. \A m \in Nodes \ left' : Covered(m)'
    BY <1>1, <1>9, <2>1
  <2>. QED BY <1>1, <2>2, <2>3, <2>4 DEF Adopting
<1>13. Cached'
  <2>1. \A m \in Nodes : Content(snap, m) /\ index'.emb[m] # None => index.emb[m] # None
    BY <1>3, <1>4, <1>6 DEF Elsewhere
  <2>. QED BY <1>1, <2>1 DEF BootIInv, Cached, Content, Hit, Aborted, BuildStays
<1>14. Embedding' /\ Awaited' /\ Passed'
  BY <1>1, <1>3 DEF Embedding, Awaited, Passed
<1>. QED BY <1>1, <1>3, <1>7, <1>8, <1>11, <1>12, <1>13, <1>14, BuildGoesOn DEF BuildStays

\* The build ends: it fails, is cancelled, or its passes are done.
LEMMA EndStep ==
  ASSUME BootIInv, BuildStays, BuildMalformed \/ Cancel \/ DrainCache \/ PruneCache PROVE BootIInv'
PROOF
<1>1. /\ UNCHANGED <<snap, left, chunk, listed, changed, index>> /\ answer' = None
      /\ pc' \in {"failed", "cancelled", "drained", "create"}
  BY DEF BuildMalformed, Cancel, DrainCache, PruneCache, indexVars, BootIInv, BuildOwnsIndex
<1>2. BootTypeOK'
  BY <1>1 DEF BootIInv, BootTypeOK, BuildStays
<1>3. \A m \in Nodes : Shape(m)'
  BY <1>1 DEF BootIInv, BuildOwnsIndex, Shape, BuildStays
<1>4. Embedding' /\ Awaited' /\ Reconciling' /\ Adopting'
  BY <1>1 DEF Embedding, Awaited, Reconciling, Adopting
<1>5. Passed'
  <2>1. pc' \in {"drained", "create"} =>
          \/ pc = "adopt" /\ left = {} /\ answer = None
          \/ pc = "drained"
    BY DEF BuildMalformed, Cancel, DrainCache, PruneCache
  <2>2. pc = "drained" => answer = None
    BY DEF BootIInv, BuildOwnsIndex
  <2>3. pc' \in {"drained", "create"} => answer = None /\ \A m \in Nodes : Covered(m)
    BY <2>1, <2>2 DEF BootIInv, Adopting, Passed
  <2>. QED BY <1>1, <2>3 DEF Passed, Covered, Awaits, Content, Told, BuildStays
<1>6. Cached'
  <2>1. pc' = "drained" => pc = "adopt" /\ UNCHANGED entries
    BY DEF BuildMalformed, Cancel, DrainCache, PruneCache, Flush
  <2>. QED BY <1>1, <2>1 DEF BootIInv, Cached, Content, Hit, Aborted, BuildStays
<1>. QED BY <1>1, <1>2, <1>3, <1>4, <1>5, <1>6, BuildGoesOn DEF BuildStays

LEMMA PromoteStep == ASSUME BootIInv, Promote PROVE BootIInv'
PROOF
<1>1. /\ pc = "create" /\ pc' = "promoted"
      /\ UNCHANGED <<stopped, store, undoable, now, snap, left, chunk, listed, answer, index, hooks, exact>>
      /\ embedder' = "vector"
  BY DEF Promote, SetEmbedder, storeVars, indexVars
<1>2. embedder = "lexical" /\ answer = None
  BY <1>1 DEF BootIInv, BootTypeOK, BuildOwnsIndex, Embedders
<1>3. BootTypeOK'
  BY <1>1 DEF BootIInv, BootTypeOK, Embedders
<1>4. BuildOwnsIndex'
  BY <1>1, <1>2 DEF BuildOwnsIndex
<1>5. Embedding' /\ Awaited' /\ Reconciling' /\ Adopting' /\ Passed' /\ Cached'
  BY <1>1, <1>2 DEF Embedding, Awaited, Reconciling, Adopting, Passed, Cached
<1>6. ASSUME NEW n \in Nodes PROVE Tidy(n)'
  <2>1. exact[n] = "gap" /\ Shape(n) /\ \A h \in Hooks : hooks[h] = None
    BY <1>2 DEF BootIInv, BuildOwnsIndex
  <2>. QED BY <1>1, <2>1 DEF Tidy, Shape
<1>. QED BY <1>3, <1>4, <1>5, <1>6 DEF BootIInv, Maintained

----------------------------------------------------------------------------
(* The invariant.                                                          *)

LEMMA BootInit == Init => BootIInv
PROOF
<1>. SUFFICES ASSUME Init PROVE BootIInv
  OBVIOUS
<1>1. index \in Indices /\ \A n \in Nodes : At(index, n, None, 0, "no")
  BY DEF Init, EmptyIndex, Indices, At
<1>2. BootTypeOK
  <2>1. store \in [Nodes -> Versions \cup {None}]
    <3>1. store \in [Nodes -> {None} \cup [text : Texts \cup {Empty}, at : {0}]]
      BY DEF Init
    <3>2. [text : Texts \cup {Empty}, at : {0}] \subseteq Versions
      BY DEF Versions
    <3>. QED BY <3>1, <3>2
  <2>2. /\ snap \in [Nodes -> Versions \cup {None}] /\ listed \in [Nodes -> Versions \cup {None}]
        /\ hooks \in [Hooks -> Runs \cup {None}] /\ exact \in [Nodes -> {"gap", "exact", "raced", "untold"}]
    BY DEF Init
  <2>3. embedder \in Embedders /\ stopped \in BOOLEAN /\ undoable = None /\ now \in Nat /\ pc = "created"
        /\ left = {} /\ chunk = {} /\ answer = None
    BY DEF Init, EngineInit, Embedders
  <2>. QED BY <1>1, <2>1, <2>2, <2>3 DEF BootTypeOK
<1>3. BuildOwnsIndex
  BY <1>1 DEF Init, EngineInit, BuildOwnsIndex, Shape, At
<1>4. Embedding /\ Awaited /\ Reconciling /\ Adopting /\ Passed /\ Cached /\ Maintained
  BY DEF Init, EngineInit, Embedding, Awaited, Reconciling, Adopting, Passed, Cached, Maintained, Serving
<1>. QED BY <1>2, <1>3, <1>4 DEF BootIInv

LEMMA BootNext == BootIInv /\ [Next]_vars => BootIInv'
PROOF
<1>. SUFFICES ASSUME BootIInv, [Next]_vars PROVE BootIInv'
  OBVIOUS
<1>1. CASE Tick \/ Serve \/ Release \/ CacheStep \/ Start
  BY <1>1, SideStep
<1>2. CASE Edit
  BY <1>2, EditStep
<1>3. CASE Hook
  BY <1>3, HookStep
<1>4. CASE Promote
  BY <1>4, PromoteStep
<1>5. CASE Build /\ ~Promote /\ ~Start
  <2>1. BuildStays
    BY <1>5, Stays
  <2>2. CASE Snapshot
    BY <2>1, <2>2, SnapshotStep
  <2>3. CASE NextChunk \/ ChunkAnswered \/ ChunkWithHoles \/ ChunkRejected \/ Embed
             \/ \E n \in Nodes : ItemAnswered(n) \/ ItemRejected(n)
    BY <2>1, <2>3, EmbedStep
  <2>4. ASSUME NEW n \in Nodes, NEW S \in SUBSET Nodes, ReconcileNext(n, S) PROVE BootIInv'
    BY <2>1, <2>4, ReconcileStep
  <2>5. CASE Reconciled
    BY <2>1, <2>5, ReconciledStep
  <2>6. ASSUME NEW n \in Nodes, AdoptNext(n) PROVE BootIInv'
    BY <2>1, <2>6, AdoptStep
  <2>7. CASE BuildAnswered \/ BuildRejected
    BY <2>1, <2>7, AnswerStep
  <2>8. CASE BuildMalformed \/ Cancel \/ DrainCache \/ PruneCache
    BY <2>1, <2>8, EndStep
  <2>. QED BY <1>5, <2>2, <2>3, <2>4, <2>5, <2>6, <2>7, <2>8 DEF Build
<1>6. CASE UNCHANGED vars
  <2>1. UNCHANGED <<store, snap, left, chunk, listed, answer, index, hooks, exact, changed, embedder, pc, entries,
                    release, stopped, undoable, now>>
    BY <1>6 DEF vars, engineVars, cacheVars, storeVars, buildVars, indexVars
  <2>2. BootTypeOK'
    BY <2>1 DEF BootIInv, BootTypeOK
  <2>. QED BY <2>1, <2>2, QuietStep DEF Aborted
<1>. QED BY <1>1, <1>2, <1>3, <1>4, <1>5, <1>6 DEF Next

LEMMA BootInvariant == Spec => []BootIInv
BY BootInit, BootNext, PTL DEF Spec

----------------------------------------------------------------------------
(* What it gives.                                                          *)

\* Only the build writes the index before the promotion, and whatever fails, is skipped or is emptied, an id is
\* listed once, exactly when it has a vector.
THEOREM IndexConsistentUntilPromotion == Spec => []BuildIndexConsistent
<1>1. BootIInv => BuildIndexConsistent
  BY DEF BootIInv, BuildOwnsIndex, Shape, BuildIndexConsistent
<1>. QED BY <1>1, BootInvariant, PTL

\* After the promotion, the place of a node whose runs of the hook never overlapped is exact once the last has
\* been answered, unless the last change was an undo, which is told to nobody.
THEOREM MaintenanceIsExact == Spec => []IndexExactUnlessRaced
<1>1. BootIInv => IndexExactUnlessRaced
  BY DEF BootIInv, Maintained, Tidy, Shape, ExactAt, IndexExactUnlessRaced
<1>. QED BY <1>1, BootInvariant, PTL

LEMMA OnlyPromoteTurns == ASSUME [Next]_vars, ~Promote PROVE UNCHANGED embedder
PROOF
<1>1. CASE Tick \/ Serve \/ Release \/ CacheStep
  BY <1>1 DEF Tick, Serve, Query, QueryEnter, Settle, QuerySettle, Release, Reassign, BootTeardown, BootReleased,
              EngineTeardown, CacheStep, engineVars
<1>2. CASE Edit
  BY <1>2 DEF Edit, EditNode, EditBatch, Put, DeleteNode, Undo, engineVars
<1>3. CASE Hook
  BY <1>3 DEF Hook, HookAnswered, HookRejected, HookMalformed, engineVars
<1>4. CASE Build
  <2>1. ASSUME NEW n \in Nodes, NEW S, ItemAnswered(n) \/ ItemRejected(n) \/ ReconcileNext(n, S) \/ AdoptNext(n)
        PROVE  UNCHANGED embedder
    BY <2>1 DEF ItemAnswered, ItemRejected, AfterItem, ReconcileNext, AdoptNext, engineVars
  <2>2. Start \/ Snapshot \/ NextChunk \/ ChunkAnswered \/ ChunkWithHoles \/ ChunkRejected \/ Embed \/ Reconciled
          => UNCHANGED embedder
    BY DEF Start, Snapshot, NextChunk, ChunkAnswered, ChunkWithHoles, ChunkRejected, Embed, Reconciled, engineVars
  <2>3. BuildAnswered \/ BuildRejected \/ BuildMalformed \/ DrainCache \/ PruneCache \/ Cancel => UNCHANGED embedder
    BY DEF BuildAnswered, BuildRejected, BuildMalformed, DrainCache, PruneCache, Cancel, engineVars
  <2>. QED BY <1>4, <2>1, <2>2, <2>3 DEF Build
<1>5. CASE UNCHANGED vars
  BY <1>5 DEF vars, engineVars
<1>. QED BY <1>1, <1>2, <1>3, <1>4, <1>5 DEF Next

\* The promotion leaves no gap behind the passes: what changed during the build, and can be told from the snapshot,
\* has been embedded again, adopted, emptied, or recorded as failed.
THEOREM PassesCover == Spec => ReconcileCovers
<1>1. ASSUME BootIInv, [Next]_vars, embedder' # embedder, NEW n \in Nodes,
             n \notin changed, Content(store, n), Told(n)
      PROVE  index.emb[n] = store[n].text \/ index.skipped[n] = "transient"
  <2>1. pc = "create"
    BY <1>1, OnlyPromoteTurns DEF Promote
  <2>2. answer = None /\ Covered(n)
    BY <1>1, <2>1 DEF BootIInv, BuildOwnsIndex, Passed
  <2>. QED BY <1>1, <2>2 DEF Covered, Awaits
<1>2. BootIInv /\ [Next]_vars =>
        [embedder' # embedder =>
           \A n \in Nodes :
             n \notin changed /\ Content(store, n) /\ Told(n)
               => index.emb[n] = store[n].text \/ index.skipped[n] = "transient"]_vars
  BY <1>1
<1>. QED BY <1>2, BootInvariant, PTL DEF Spec, ReconcileCovers

\* What was embedded for a node that did not change survives the pruning of the cache before the promotion.
THEOREM PruneKeepsUnchanged == Spec => CacheCoversUnchanged
<1>1. ASSUME BootIInv, Next, pc = "drained", pc' = "create", NEW n \in Nodes,
             Content(store, n), store[n] = snap[n], index.emb[n] = store[n].text
      PROVE  [text |-> store[n].text, own |-> TRUE] \in entries'
  <2>1. PruneCache
    <3>1. ~(Tick \/ Edit \/ Hook \/ Serve \/ Release \/ CacheStep)
      BY <1>1 DEF Tick, Edit, EditNode, EditBatch, Put, DeleteNode, Undo, Hook, HookAnswered, HookRejected,
                  HookMalformed, Serve, Query, Settle, Release, Reassign, BootTeardown, BootReleased, CacheStep,
                  buildVars
    <3>2. Build
      BY <1>1, <3>1 DEF Next
    <3>3. \A k \in Nodes, S \in SUBSET Nodes :
            ~(ItemAnswered(k) \/ ItemRejected(k) \/ ReconcileNext(k, S) \/ AdoptNext(k))
      BY <1>1 DEF ItemAnswered, ItemRejected, ReconcileNext, AdoptNext
    <3>4. ~(Start \/ Snapshot \/ NextChunk \/ ChunkAnswered \/ ChunkWithHoles \/ ChunkRejected \/ Embed \/ Reconciled)
      BY <1>1 DEF Start, Snapshot, NextChunk, ChunkAnswered, ChunkWithHoles, ChunkRejected, Embed, Reconciled
    <3>5. ~(BuildAnswered \/ BuildRejected \/ BuildMalformed \/ DrainCache \/ Promote \/ Cancel)
      BY <1>1 DEF BuildAnswered, BuildRejected, BuildMalformed, DrainCache, Promote, Cancel
    <3>. QED BY <3>2, <3>3, <3>4, <3>5 DEF Build
  <2>2. PICK t \in Texts : t = store[n].text /\ t # None
    BY <1>1, MarkersAssumption DEF BootIInv, BootTypeOK, Content, Versions
  <2>3. [text |-> t, own |-> TRUE] \in entries
    BY <1>1, <2>1, <2>2 DEF PruneCache, BootIInv, Cached, Content, Hit
  <2>4. entries' = {e \in entries : (latched => e.own) /\ e.text \in {store[m].text : m \in {k \in Nodes : Content(store, k)}}}
    BY <2>1 DEF PruneCache, PruneThenFlush
  <2>5. t \in {store[m].text : m \in {k \in Nodes : Content(store, k)}}
    BY <1>1, <2>2
  <2>. QED BY <2>2, <2>3, <2>4, <2>5
<1>2. BootIInv /\ [Next]_vars =>
        [pc = "drained" /\ pc' = "create" =>
           \A n \in Nodes :
             Content(store, n) /\ store[n] = snap[n] /\ index.emb[n] = store[n].text
               => [text |-> store[n].text, own |-> TRUE] \in entries']_vars
  BY <1>1
<1>. QED BY <1>2, BootInvariant, PTL DEF Spec, CacheCoversUnchanged

\* Whatever await a teardown fell into, the build it aborts neither promotes nor writes to the cache.
THEOREM TeardownHolds == Spec => TeardownIsFinal
<1>1. ASSUME [Next]_vars, Aborted PROVE UNCHANGED embedder
  BY <1>1, OnlyPromoteTurns DEF Promote
<1>2. ASSUME BootIInv, [Next]_vars, Aborted, embedder = "lexical" PROVE UNCHANGED entries
  <2>1. CASE Tick \/ Serve \/ Release \/ CacheStep
    BY <2>1 DEF Tick, Serve, Query, Settle, Release, Reassign, BootTeardown, BootReleased, CacheStep, TimerFires,
                RunWrite, cacheVars
  <2>2. CASE Edit
    BY <1>2, <2>2 DEF Edit, EditNode, EditBatch, Put, DeleteNode, Undo, Touch, Serving, cacheVars
  <2>3. CASE Hook
    BY <1>2, <2>3 DEF Hook, HookAnswered, HookRejected, HookMalformed, BootIInv, BuildOwnsIndex
  <2>4. CASE Build
    <3>1. ASSUME NEW n \in Nodes, NEW S, ItemAnswered(n) \/ ItemRejected(n) \/ ReconcileNext(n, S) \/ AdoptNext(n)
          PROVE  UNCHANGED entries
      BY <1>2, <3>1 DEF ItemAnswered, ItemRejected, AfterItem, ReconcileNext, AdoptNext, cacheVars
    <3>2. Start \/ Snapshot \/ NextChunk \/ ChunkWithHoles \/ ChunkRejected \/ Embed \/ Reconciled => UNCHANGED entries
      BY DEF Start, Snapshot, NextChunk, CacheGet, ChunkWithHoles, ChunkRejected, Embed, Reconciled, cacheVars
    <3>3. ChunkAnswered => UNCHANGED entries
      <4>1. Own({}) = {}
        BY DEF Own
      <4>. QED BY <1>2, <4>1 DEF ChunkAnswered, CacheSet
    <3>4. BuildAnswered \/ BuildRejected \/ BuildMalformed \/ DrainCache \/ PruneCache \/ Promote \/ Cancel
            => UNCHANGED entries
      BY <1>2 DEF BuildAnswered, BuildRejected, BuildMalformed, DrainCache, PruneCache, Promote, Cancel, cacheVars
    <3>. QED BY <2>4, <3>1, <3>2, <3>3, <3>4 DEF Build
  <2>5. CASE UNCHANGED vars
    BY <2>5 DEF vars, cacheVars
  <2>. QED BY <1>2, <2>1, <2>2, <2>3, <2>4, <2>5 DEF Next
<1>3. BootIInv /\ [Next]_vars =>
        [Aborted => /\ embedder' = embedder
                    /\ embedder = "lexical" => entries' = entries]_vars
  BY <1>1, <1>2
<1>. QED BY <1>3, BootInvariant, PTL DEF Spec, TeardownIsFinal

----------------------------------------------------------------------------
(* The boot as a client of the cache.                                      *)

\* It flushes once, after its passes.
Early == {"created", "queued", "embed", "items", "reconcile", "adopt"}
FlushesOnce == pc \in Early => Flushed

\* Every step of the boot, its hooks included, is a legal use of the cache.
LEMMA UsesCache == ASSUME BootIInv, FlushesOnce, [Next]_vars PROVE [CacheNext]_cacheVars
PROOF
<1>1. CASE Tick \/ Serve \/ Release \/ CacheStep
  <2>1. CASE CacheStep
    BY <2>1 DEF CacheStep, CacheNext
  <2>. QED BY <1>1, <2>1 DEF Tick, Serve, Query, Settle, Release, Reassign, BootTeardown, BootReleased
<1>2. CASE Edit
  <2>1. ASSUME NEW n \in Nodes, NEW r \in Versions \cup {None}, Touch(n, r) PROVE [CacheNext]_cacheVars
    <3>1. CASE UNCHANGED cacheVars
      BY <3>1
    <3>2. CASE r # None /\ r.text # Empty /\ CacheGet({r.text})
      <4>1. {r.text} \in SUBSET Texts
        BY <3>2 DEF Versions
      <4>. QED BY <3>2, <4>1 DEF CacheNext
    <3>. QED BY <2>1, <3>1, <3>2 DEF Touch
  <2>2. ASSUME NEW n \in Nodes, NEW t \in Texts \cup {Empty}, NEW restore, Put(n, t, restore) PROVE [CacheNext]_cacheVars
    <3>1. [text |-> t, at |-> Refreshed(n)] \in Versions
      BY DEF Versions, Refreshed, BootIInv, BootTypeOK, Live
    <3>. QED BY <2>1, <2>2, <3>1 DEF Put
  <2>3. \A n \in Nodes : DeleteNode(n) => [CacheNext]_cacheVars
    BY <2>1 DEF DeleteNode
  <2>4. Undo => UNCHANGED cacheVars
    BY DEF Undo
  <2>. QED BY <1>2, <2>2, <2>3, <2>4 DEF Edit, EditNode, EditBatch
<1>3. CASE Hook
  <2>1. PICK h \in Hooks : HookAnswered(h) \/ HookRejected(h) \/ HookMalformed(h)
    BY <1>3 DEF Hook
  <2>2. CASE HookAnswered(h)
    <3>1. {hooks[h].text} \in SUBSET Texts /\ CacheSet({hooks[h].text})
      BY <2>2 DEF HookAnswered, BootIInv, BootTypeOK, Runs
    <3>. QED BY <3>1 DEF CacheNext
  <2>. QED BY <2>1, <2>2 DEF HookRejected, HookMalformed
<1>4. CASE Build
  <2>1. \A C \in SUBSET Nodes :
          (\A n \in C : Content(snap, n)) => {snap[n].text : n \in C} \in SUBSET Texts /\ Misses(C) \in SUBSET Texts
    BY DEF BootIInv, BootTypeOK, Content, Versions, Misses
  <2>2. pc \in {"embed", "items"} =>
          left \in SUBSET Nodes /\ chunk \in SUBSET Nodes /\ \A n \in left \cup chunk : Content(snap, n)
    BY DEF BootIInv, BootTypeOK, Embedding
  <2>3. CASE NextChunk
    <3>1. PICK C \in SUBSET left : CacheGet({snap[n].text : n \in C})
      BY <2>3 DEF NextChunk
    <3>2. {snap[n].text : n \in C} \in SUBSET Texts
      BY <2>1, <2>2, <2>3, <3>1 DEF NextChunk
    <3>. QED BY <3>1, <3>2 DEF CacheNext
  <2>4. CASE ChunkAnswered
    <3>1. CacheSet(Misses(chunk)) /\ Misses(chunk) \in SUBSET Texts
      BY <2>1, <2>2, <2>4 DEF ChunkAnswered
    <3>. QED BY <3>1 DEF CacheNext
  <2>5. ASSUME NEW n \in Nodes, NEW S, ItemAnswered(n) \/ ItemRejected(n) \/ ReconcileNext(n, S) \/ AdoptNext(n)
        PROVE  [CacheNext]_cacheVars
    <3>1. CASE ItemAnswered(n)
      <4>1. {n} \in SUBSET Nodes /\ \A m \in {n} : Content(snap, m)
        BY <2>2, <3>1 DEF ItemAnswered
      <4>2. Misses({n}) \in SUBSET Texts
        BY <2>1, <4>1
      <4>. QED BY <3>1, <4>2 DEF ItemAnswered, CacheNext
    <3>. QED BY <2>5, <3>1 DEF ItemRejected, ReconcileNext, AdoptNext
  <2>6. CASE DrainCache
    BY <2>6 DEF DrainCache, FlushesOnce, Early, CacheNext
  <2>7. CASE PruneCache
    <3>1. {store[n].text : n \in {m \in Nodes : Content(store, m)}} \in SUBSET Texts
      BY DEF BootIInv, BootTypeOK, Content, Versions
    <3>. QED BY <2>7, <3>1 DEF PruneCache, CacheNext
  <2>8. Start \/ Snapshot \/ ChunkWithHoles \/ ChunkRejected \/ Embed \/ Reconciled
        \/ BuildAnswered \/ BuildRejected \/ BuildMalformed \/ Promote \/ Cancel => UNCHANGED cacheVars
    BY DEF Start, Snapshot, ChunkWithHoles, ChunkRejected, Embed, Reconciled, BuildAnswered, BuildRejected,
           BuildMalformed, Promote, Cancel
  <2>. QED BY <1>4, <2>3, <2>4, <2>5, <2>6, <2>7, <2>8 DEF Build
<1>5. CASE UNCHANGED vars
  BY <1>5 DEF vars
<1>. QED BY <1>1, <1>2, <1>3, <1>4, <1>5 DEF Next

LEMMA FlushesOnceStays ==
  ASSUME BootTypeOK, CacheTypeOK, FlushesOnce, [Next]_vars PROVE FlushesOnce'
PROOF
<1>2. ASSUME pc' \in Early => pc \in Early, UNCHANGED flush PROVE FlushesOnce'
  BY <1>2 DEF FlushesOnce, Flushed
<1>3. CASE Tick \/ Serve \/ Release
  BY <1>2, <1>3 DEF Tick, Serve, Query, Settle, Release, Reassign, BootTeardown, BootReleased, buildVars, cacheVars
<1>4. CASE CacheStep
  <2>1. CASE TimerFires
    BY <1>2, <1>4, <2>1 DEF CacheStep, TimerFires, buildVars
  <2>2. CASE RunWrite
    BY <1>4, <2>2 DEF CacheStep, RunWrite, buildVars, FlushesOnce, Early, Flushed, CacheTypeOK, FlushType
  <2>. QED BY <1>4, <2>1, <2>2 DEF CacheStep
<1>5. CASE Edit
  <2>1. ASSUME NEW n \in Nodes, NEW r, Touch(n, r) PROVE UNCHANGED flush
    BY <2>1 DEF Touch, CacheGet, cacheVars
  <2>. QED BY <1>2, <1>5, <2>1 DEF Edit, EditNode, EditBatch, Put, DeleteNode, Undo, buildVars, cacheVars
<1>6. CASE Hook
  BY <1>2, <1>6 DEF Hook, HookAnswered, HookRejected, HookMalformed, CacheSet, buildVars, cacheVars
<1>7. CASE Build
  <2>1. ASSUME NEW n \in Nodes, NEW S, ItemAnswered(n) \/ ItemRejected(n) \/ ReconcileNext(n, S) \/ AdoptNext(n)
        PROVE  FlushesOnce'
    <3>1. UNCHANGED flush /\ pc \in Early
      BY <2>1 DEF ItemAnswered, ItemRejected, AfterItem, ReconcileNext, AdoptNext, CacheSet, cacheVars, Early
    <3>. QED BY <1>2, <3>1
  <2>2. CASE Start \/ Snapshot \/ NextChunk \/ ChunkAnswered \/ Embed \/ Reconciled
    <3>1. UNCHANGED flush /\ pc \in Early
      BY <2>2 DEF Start, Snapshot, NextChunk, ChunkAnswered, Embed, Reconciled, CacheGet, CacheSet, cacheVars, Early
    <3>. QED BY <1>2, <3>1
  <2>3. CASE ChunkWithHoles \/ ChunkRejected \/ BuildAnswered \/ BuildRejected \/ BuildMalformed \/ Promote \/ Cancel
    <3>1. UNCHANGED flush /\ (pc' \in Early => pc \in Early)
      BY <2>3 DEF ChunkWithHoles, ChunkRejected, BuildAnswered, BuildRejected, BuildMalformed, Promote, Cancel,
                  cacheVars, Early
    <3>. QED BY <1>2, <3>1
  <2>4. CASE DrainCache \/ PruneCache
    BY <2>4 DEF DrainCache, PruneCache, FlushesOnce, Early
  <2>. QED BY <1>7, <2>1, <2>2, <2>3, <2>4 DEF Build
<1>8. CASE UNCHANGED vars
  BY <1>2, <1>8 DEF vars, buildVars, cacheVars
<1>. QED BY <1>3, <1>4, <1>5, <1>6, <1>7, <1>8 DEF Next

LEMMA CacheInBoot == Spec => [](IInv /\ FlushesOnce)
PROOF
<1>1. Init => IInv /\ FlushesOnce
  BY InitIInv DEF Init, CacheInit, FlushesOnce, Flushed, NoFlush
<1>2. ASSUME BootIInv, IInv, FlushesOnce, [Next]_vars PROVE (IInv /\ FlushesOnce)'
  <2>1. IInv'
    BY <1>2, UsesCache, StepIInv
  <2>2. FlushesOnce'
    BY <1>2, FlushesOnceStays DEF BootIInv, IInv
  <2>. QED BY <2>1, <2>2
<1>3. BootIInv /\ IInv /\ FlushesOnce /\ [Next]_vars => (IInv /\ FlushesOnce)'
  BY <1>2
<1>. QED BY <1>1, <1>3, BootInvariant, PTL DEF Spec

\* The boot is a legal client of the cache: whatever it does, the cache moves by its own steps only, so that what
\* is proved of the cache under any client holds of it.
THEOREM BootUsesTheCache == Spec => CacheSafety
PROOF
<1>1. Init => CacheInit
  BY DEF Init
<1>2. BootIInv /\ IInv /\ FlushesOnce /\ [Next]_vars => [CacheNext]_cacheVars
  BY UsesCache
<1>. QED BY <1>1, <1>2, BootInvariant, CacheInBoot, PTL DEF Spec, CacheSafety

\* When a flush of the boot resolves, what it embedded before is in the file, or a write failed.
THEOREM FlushOfBootIsDurable == Spec => []FlushReflectsSets
<1>1. IInv => FlushReflectsSets
  BY DEF IInv
<1>. QED BY <1>1, CacheInBoot, PTL

=============================================================================
