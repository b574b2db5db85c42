----------------------------- MODULE VectorCache -----------------------------
(***************************************************************************)
(* The persisted embedding cache of src/main/vector-cache.ts: an in-memory *)
(* map, a debounce timer, a chain of whole-map writes, and the file.       *)
(*                                                                         *)
(* An entry is the text it was embedded from and whether it was made by    *)
(* the current provider tuple (kind, model, dimension); the vector is a    *)
(* function of the two.                                                    *)
(***************************************************************************)
EXTENDS Integers, FiniteSets

CONSTANTS
  Texts,         \* non-empty node contents
  MaxJobs,       \* bound of the model: writes chained at a time
  WriteMayFail   \* the environment may make a file write or read fail

ASSUME MaxJobsAssumption == MaxJobs \in Nat \ {0}

VARIABLES
  entries,      \* the in-memory map
  latched,      \* currentTuple is known
  dirty,        \* the map has changes no write has picked up
  writeQueued,  \* the flag of that name
  jobs,         \* writes chained on `queue' and not run yet
  timer,        \* the debounce timer is set
  file,         \* the entries in the cache file
  flush,        \* the promise flush() returned, see FlushType
  behind        \* history: the file missed its last write, or was unreadable

cacheVars == <<entries, latched, dirty, writeQueued, jobs, timer, file, flush, behind>>

Entries    == [text : Texts, own : BOOLEAN]
Own(texts) == [text : texts, own : {TRUE}]

\* `left' jobs have to run before the promise resolves; `owed' (history) is the
\* map when flush() was called, less what was pruned since.
NoFlush   == [left |-> 0, owed |-> {}]
FlushType == [left : 0..MaxJobs, owed : SUBSET Entries]

\* createVectorCache: an absent or unreadable file is an empty cache.
CacheLoad(f) ==
  /\ entries' = f
  /\ latched' = FALSE
  /\ dirty' = FALSE
  /\ writeQueued' = FALSE
  /\ jobs' = 0
  /\ timer' = FALSE
  /\ flush' = NoFlush

CacheInit ==
  /\ file \in SUBSET Entries
  /\ entries = file
  /\ latched = FALSE
  /\ dirty = FALSE
  /\ writeQueued = FALSE
  /\ jobs = 0
  /\ timer = FALSE
  /\ flush = NoFlush
  /\ behind = FALSE

-----------------------------------------------------------------------------

\* get() of each of the texts: every call latches the tuple.
CacheGet(texts) ==
  /\ latched' = (latched \/ texts # {})
  /\ UNCHANGED <<entries, dirty, writeQueued, jobs, timer, file, flush, behind>>

\* set() of each of the texts, with the vector just embedded.
CacheSet(texts) ==
  /\ entries' = entries \cup Own(texts)
  /\ latched' = (latched \/ texts # {})
  /\ dirty' = (dirty \/ texts # {})
  /\ timer' = (timer \/ texts # {})
  /\ UNCHANGED <<writeQueued, jobs, file, flush, behind>>

\* prune(): drop the foreign entries, once the tuple is known, and those of no
\* kept text; the write is chained unconditionally.
Prune(keep) ==
  /\ jobs < MaxJobs
  /\ entries' = {e \in entries : (latched => e.own) /\ e.text \in keep}
  /\ writeQueued' = TRUE
  /\ jobs' = jobs + 1
  /\ flush' = [flush EXCEPT !.owed = @ \cap entries']
  /\ UNCHANGED <<latched, dirty, timer, file, behind>>

\* Mutant of Flush: the timer is cleared and nothing is forced.
Flush_TimerOnly ==
  /\ timer' = FALSE
  /\ flush' = [left |-> jobs, owed |-> entries]
  /\ UNCHANGED <<entries, latched, dirty, writeQueued, jobs, file, behind>>

\* flush(): clear the timer, force the trailing write, return the chain.
Flush ==
  LET force == dirty /\ ~writeQueued
  IN /\ force => jobs < MaxJobs
     /\ timer' = FALSE
     /\ writeQueued' = (writeQueued \/ force)
     /\ jobs' = IF force THEN jobs + 1 ELSE jobs
     /\ flush' = [left |-> jobs', owed |-> entries]
     /\ UNCHANGED <<entries, latched, dirty, file, behind>>

\* prune() and flush() in one turn: the write prune() chains is the last one the
\* promise of flush() waits for.
PruneThenFlush(keep) ==
  /\ jobs < MaxJobs
  /\ entries' = {e \in entries : (latched => e.own) /\ e.text \in keep}
  /\ writeQueued' = TRUE
  /\ jobs' = jobs + 1
  /\ timer' = FALSE
  /\ flush' = [left |-> jobs', owed |-> entries']
  /\ UNCHANGED <<latched, dirty, file, behind>>

Flushed == flush.left = 0

\* The debounce timer fires.
TimerFires ==
  /\ timer
  /\ dirty => jobs < MaxJobs
  /\ timer' = FALSE
  /\ writeQueued' = (writeQueued \/ dirty)
  /\ jobs' = IF dirty THEN jobs + 1 ELSE jobs
  /\ UNCHANGED <<entries, latched, dirty, file, flush, behind>>

\* Mutants of RunWrite: the flag is not reset; the map written is the one of
\* the pending flush(); a job settles a flush() that is not pending.
RunWrite_FlagKept ==
  /\ jobs > 0
  /\ jobs' = jobs - 1
  /\ dirty' = FALSE
  /\ file' = entries
  /\ behind' = FALSE
  /\ flush' = [flush EXCEPT !.left = IF @ > 0 THEN @ - 1 ELSE 0]
  /\ UNCHANGED <<entries, latched, writeQueued, timer>>
\* The head of the chain: the flags are reset first, then the whole map as it
\* is now goes to the tmp file and is renamed; a failure is swallowed.
RunWrite ==
  /\ jobs > 0
  /\ jobs' = jobs - 1
  /\ writeQueued' = FALSE
  /\ dirty' = FALSE
  /\ \/ file' = entries /\ behind' = FALSE
     \/ WriteMayFail /\ file' = file /\ behind' = TRUE
  /\ flush' = [flush EXCEPT !.left = IF @ > 0 THEN @ - 1 ELSE 0]
  /\ UNCHANGED <<entries, latched, timer>>

\* The process dies and the cache is created again.
Recreate ==
  /\ \/ CacheLoad(file) /\ behind' = FALSE
     \/ WriteMayFail /\ CacheLoad({}) /\ behind' = TRUE
  /\ UNCHANGED file

-----------------------------------------------------------------------------
(* The cache on its own, under any client.  One client flushes at a time.  *)

CacheNext ==
  \/ \E texts \in SUBSET Texts : CacheGet(texts) \/ CacheSet(texts)
  \/ \E keep \in SUBSET Texts : Prune(keep)
  \/ Flushed /\ Flush
  \/ \E keep \in SUBSET Texts : Flushed /\ PruneThenFlush(keep)
  \/ TimerFires
  \/ RunWrite
  \/ Recreate

\* The event loop runs the timer and the chain.
CacheFairness == WF_cacheVars(TimerFires) /\ WF_cacheVars(RunWrite)

CacheSafety == CacheInit /\ [][CacheNext]_cacheVars

CacheSpec == CacheSafety /\ CacheFairness

-----------------------------------------------------------------------------
(* Properties.                                                             *)

CacheTypeOK ==
  /\ entries \in SUBSET Entries
  /\ latched \in BOOLEAN
  /\ dirty \in BOOLEAN
  /\ writeQueued \in BOOLEAN
  /\ jobs \in 0..MaxJobs
  /\ timer \in BOOLEAN
  /\ file \in SUBSET Entries
  /\ flush \in FlushType
  /\ behind \in BOOLEAN

\* A change of the map always has a write coming: coalescing, flushing and
\* pruning never drop the last one.
WriteIsComing ==
  /\ dirty => timer \/ writeQueued
  /\ writeQueued => jobs > 0

\* With nothing to write the file is the map, unless its last write failed.
FileCurrent == ~dirty /\ jobs = 0 /\ ~behind => file = entries

\* flush() resolves only when the file reflects every set() before it, however
\* many writes were already queued.
FlushReflectsSets == Flushed /\ ~behind => flush.owed \subseteq file

\* A change reaches a write.
DirtyIsWritten == dirty ~> ~dirty

=============================================================================
