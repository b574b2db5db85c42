----------------------------- MODULE MCServices ------------------------------
(***************************************************************************)
(* The services around the stores for TLC: the embedding cache, the        *)
(* release of a store and of a default store's vector boot, the way of a   *)
(* tool call to the page, the tools that are offered, the two halves of    *)
(* the client of the Gnosis engine, and the import of files.  None reads   *)
(* the state of another one, so one moves and the others rest.             *)
(***************************************************************************)
EXTENDS StoreRelease, RendererBackend, ToolServer, CreateTools, EngineStream, MarkdownImport

CONSTANTS Texts, MaxJobs, WriteMayFail, Empty, NoRecord

VARIABLES
  part,
  entries, latched, dirty, writeQueued, jobs, timer, file, flush, behind,
  now, store, undoable, edits, pc, snap, left, chunk, listed, answers, index, hooks, release,
  changed, exact, bootStopped, bootEmbedder, bootRunning, bootInFlight,
  bootEntries, bootLatched, bootDirty, bootQueued, bootJobs, bootTimer, bootFile, bootFlush, bootBehind

Cache == INSTANCE VectorCache

(***************************************************************************)
(* The build of one node with its own engine and cache, to release it at   *)
(* every point.                                                            *)
(***************************************************************************)
Boot == INSTANCE VectorBoot WITH
  Callers <- {"query"}, Texts <- {"text"}, MaxJobs <- 2, Nodes <- {"n"}, None <- NoRecord,
  Hooks <- {"hook"}, ChunkSize <- 1, MaxTime <- 0, MaxEdits <- 2, MayUndo <- FALSE,
  MayRelease <- TRUE, ProviderMayFail <- TRUE,
  answer <- answers, stopped <- bootStopped, embedder <- bootEmbedder, running <- bootRunning,
  inFlight <- bootInFlight, entries <- bootEntries, latched <- bootLatched, dirty <- bootDirty,
  writeQueued <- bootQueued, jobs <- bootJobs, timer <- bootTimer, file <- bootFile,
  flush <- bootFlush, behind <- bootBehind

(***************************************************************************)
(* What may be imported: two files that make one id, and a directory with  *)
(* a file, a hidden one and a link.  Their texts are any of two lines, or  *)
(* of two lines under a heading, and then longer ones.                     *)
(***************************************************************************)
SomePaths == {"a.md", "a.markdown", "dir"}

SomeListing == [d \in {"dir"} |-> {"c.md", ".e.md", "link"}]

SomeSegments ==
  [f \in {"a.md", "a.markdown", "c.md", ".e.md"} |-> IF f \in {"c.md", ".e.md"} THEN <<"dir", f>> ELSE <<f>>]

SomeSanitized ==
  [s \in {"dir"} \cup DOMAIN SomeSegments |->
     CASE s = "dir" -> "dir" [] s = "c.md" -> "c" [] s = ".e.md" -> ".e" [] OTHER -> "a"]

SomeKinds ==
  [p \in SomePaths \cup {"c.md", ".e.md", "link"} |->
     CASE p = "dir" -> "directory" [] p = "link" -> "link" [] p = ".e.md" -> "hidden" [] OTHER -> "markdown"]

OtherStores == {<<"n">>}

ShortTexts == UNION {[1..n -> LineKinds] : n \in 1..2} \cup {<<"atx", k, "line">> : k \in LineKinds}

LongTexts ==
  {<<"atx", "line">>,
   <<"line", "atx", "item", "item", "blank", "line", "equals", "quote", "quoted atx", "quote">>,
   <<"atx", "pipe", "pipes", "pipe", "pipe">>}

cacheVars == <<entries, latched, dirty, writeQueued, jobs, timer, file, flush, behind>>

bootVars ==
  <<now, store, undoable, edits, pc, snap, left, chunk, listed, answers, index, hooks, release,
    changed, exact, bootStopped, bootEmbedder, bootRunning, bootInFlight, bootEntries, bootLatched,
    bootDirty, bootQueued, bootJobs, bootTimer, bootFile, bootFlush, bootBehind>>

ServicesInit ==
  /\ part \in {"cache", "release", "boot", "backend", "tools", "create", "stream", "import"}
  /\ Cache!CacheInit   /\ (part # "cache" => file = {})
  /\ ToolInit    /\ (part # "tools" => transport = "stdio")
  /\ ImportInit  /\ (part # "import" => text = <<"atx">>)
  /\ Init /\ BackendInit /\ CreateInit /\ StreamInit
  /\ Boot!Init /\ (part # "boot" => bootFile = {} /\ store = [n \in {"n"} |-> NoRecord])

ServicesNext ==
  \/ /\ part = "cache" /\ Cache!CacheNext
     /\ UNCHANGED <<bootVars, vars, backendVars, toolVars, createVars, streamVars, importVars, part>>
  \/ /\ part = "release" /\ Next
     /\ UNCHANGED <<bootVars, cacheVars, backendVars, toolVars, createVars, streamVars, importVars, part>>
  \/ /\ part = "boot" /\ Boot!Next
     /\ UNCHANGED <<cacheVars, vars, backendVars, toolVars, createVars, streamVars, importVars, part>>
  \/ /\ part = "backend" /\ BackendNext
     /\ UNCHANGED <<bootVars, cacheVars, vars, toolVars, createVars, streamVars, importVars, part>>
  \/ /\ part = "tools" /\ ToolNext
     /\ UNCHANGED <<bootVars, cacheVars, vars, backendVars, createVars, streamVars, importVars, part>>
  \/ /\ part = "create" /\ CreateNext
     /\ UNCHANGED <<bootVars, cacheVars, vars, backendVars, toolVars, streamVars, importVars, part>>
  \/ /\ part = "stream" /\ StreamNext
     /\ UNCHANGED <<bootVars, cacheVars, vars, backendVars, toolVars, createVars, importVars, part>>
  \/ /\ part = "import" /\ ImportNext
     /\ UNCHANGED <<bootVars, cacheVars, vars, backendVars, toolVars, createVars, streamVars, part>>

ServicesVars == <<bootVars, cacheVars, vars, backendVars, toolVars, createVars, streamVars, importVars, part>>

\* Boot!Fairness where that part moves: its build is enabled where it rests.
BootFairness ==
  /\ WF_bootVars(part = "boot" /\ Boot!Build)
  /\ WF_bootVars(part = "boot" /\ Boot!Hook)
  /\ WF_bootVars(part = "boot" /\ Boot!CacheStep)
  /\ WF_bootVars(part = "boot" /\ Boot!BootTeardown)
  /\ WF_bootVars(part = "boot" /\ Boot!BootReleased)
  /\ WF_bootVars(part = "boot" /\ \E settled \in {"resolve", "reject"} : Boot!Settle("query", settled))

\* What is fair of the cache and of a release is not enabled where they rest.
ServicesFairness == Cache!CacheFairness /\ Fairness /\ BootFairness

\* Under any client of the cache, one that flushes and prunes while writes are
\* queued too, a change of the map reaches a write.
ChangesReachTheFile == Cache!DirtyIsWritten

\* Every release ends: that of a removed store, and that of a default store's boot.
ReleasesComplete == ReleaseCompletes /\ Boot!ReleaseCompletes

ServicesSpec == ServicesInit /\ [][ServicesNext]_ServicesVars /\ ServicesFairness
=============================================================================
