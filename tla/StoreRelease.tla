---------------------------- MODULE StoreRelease ----------------------------
(***************************************************************************)
(* hotRemove / hotRename of a store (src/main/rag-store-runtime.ts) and    *)
(* drainAndReleaseEntry (src/main/rag-store-remove.ts): the entry leaves   *)
(* the live directory, its queries drain, the store's write queue drains,  *)
(* its queries drain again, its engine stops.                              *)
(*                                                                         *)
(* A caller that looked the entry up before it left still holds it: it may *)
(* enter one query and enqueue one mutation while the release runs.  The   *)
(* write queue is the promise chain of enqueue() in src/main/rag-store.ts. *)
(***************************************************************************)
EXTENDS RetrievalEngine, Sequences

VARIABLES
  phase,     \* where the release is
  mayQuery,  \* callers holding the entry that have not queried yet
  mayWrite,  \* ... and that have not mutated yet
  queue,     \* the jobs chained on queueTail and not run yet
  tornDown,  \* the store's latch
  written    \* the mutations in the file, in order

releaseVars == <<phase, mayQuery, mayWrite, queue, tornDown, written>>
vars == <<engineVars, releaseVars>>

Phases == {"registered", "drain", "teardownStore", "drainAgain", "released"}

Init ==
  /\ EngineInit
  /\ phase = "registered"
  /\ mayQuery = {}
  /\ mayWrite = {}
  /\ queue = <<>>
  /\ tornDown = FALSE
  /\ written = <<>>

\* A handler resolves the store's entry in the directory, once per caller.
Lookup(c) ==
  /\ phase = "registered"
  /\ c \notin mayQuery \cup mayWrite \cup Unsettled
  /\ \A i \in DOMAIN queue : queue[i] # c
  /\ \A i \in DOMAIN written : written[i] # c
  /\ mayQuery' = mayQuery \cup {c}
  /\ mayWrite' = mayWrite \cup {c}
  /\ UNCHANGED <<engineVars, phase, queue, tornDown, written>>

Query(c) ==
  /\ c \in mayQuery
  /\ QueryEnter(c)
  /\ mayQuery' = mayQuery \ {c}
  /\ UNCHANGED <<phase, mayWrite, queue, tornDown, written>>

\* The handler is done with the entry, or the engine refused its query.
Forget(c) ==
  /\ c \in mayQuery \cup mayWrite
  /\ mayQuery' = mayQuery \ {c}
  /\ mayWrite' = mayWrite \ {c}
  /\ UNCHANGED <<engineVars, phase, queue, tornDown, written>>

Settle(c, outcome) ==
  /\ QuerySettle(c, outcome)
  /\ UNCHANGED releaseVars

\* Mutant of Enqueue: the latch is not consulted.
Enqueue_AfterTeardown(c) ==
  /\ c \in mayWrite
  /\ queue' = Append(queue, c)
  /\ mayWrite' = mayWrite \ {c}
  /\ UNCHANGED <<engineVars, phase, mayQuery, tornDown, written>>

\* enqueue(): throws once the store is torn down.
Enqueue(c) ==
  /\ c \in mayWrite
  /\ ~tornDown
  /\ queue' = Append(queue, c)
  /\ mayWrite' = mayWrite \ {c}
  /\ UNCHANGED <<engineVars, phase, mayQuery, tornDown, written>>

\* The head of the chain runs and writes the file.
RunJob ==
  /\ queue # <<>>
  /\ queue' = Tail(queue)
  /\ written' = Append(written, Head(queue))
  /\ UNCHANGED <<engineVars, phase, mayQuery, mayWrite, tornDown>>

Unregister ==
  /\ phase = "registered"
  /\ phase' = "drain"
  /\ UNCHANGED <<engineVars, mayQuery, mayWrite, queue, tornDown, written>>

\* The poll sees no query in flight; store.teardown() latches and awaits the tail.
StartStoreTeardown ==
  /\ phase = "drain"
  /\ inFlight = 0
  /\ phase' = "teardownStore"
  /\ tornDown' = TRUE
  /\ UNCHANGED <<engineVars, mayQuery, mayWrite, queue, written>>

\* Mutant of StoreTornDown: the tail is not awaited.
StoreTornDown_NotAwaited ==
  /\ phase = "teardownStore"
  /\ phase' = "drainAgain"
  /\ UNCHANGED <<engineVars, mayQuery, mayWrite, queue, tornDown, written>>

\* The tail settles.  Nothing was appended behind it, so the chain is empty.
StoreTornDown ==
  /\ phase = "teardownStore"
  /\ queue = <<>>
  /\ phase' = "drainAgain"
  /\ UNCHANGED <<engineVars, mayQuery, mayWrite, queue, tornDown, written>>

\* Mutant of StopEngine: the second drain loop is missing.
StopEngine_NoReentry ==
  /\ phase = "drainAgain"
  /\ phase' = "released"
  /\ EngineTeardown
  /\ UNCHANGED <<mayQuery, mayWrite, queue, tornDown, written>>

\* The poll sees no query in flight and stops the engine in the same step.
StopEngine ==
  /\ phase = "drainAgain"
  /\ inFlight = 0
  /\ phase' = "released"
  /\ EngineTeardown
  /\ UNCHANGED <<mayQuery, mayWrite, queue, tornDown, written>>

Release == Unregister \/ StartStoreTeardown \/ StoreTornDown \/ StopEngine

Call ==
  \E c \in Callers :
    \/ Lookup(c)
    \/ Query(c)
    \/ Forget(c)
    \/ \E outcome \in {"resolve", "reject"} : Settle(c, outcome)
    \/ Enqueue(c)

\* Everything is done: the entry is gone and nobody holds it.
Finished == phase = "released" /\ mayQuery \cup mayWrite = {} /\ UNCHANGED vars

Next == Call \/ RunJob \/ Release \/ Finished

\* The event loop runs the job chain and the polling timers; a query settles
\* because its embedder call carries a timeout.  Nothing obliges the operator
\* to remove the store, or a caller to use the entry.
Fairness ==
  /\ WF_vars(RunJob)
  /\ WF_vars(StartStoreTeardown)
  /\ WF_vars(StoreTornDown)
  /\ WF_vars(StopEngine)
  /\ \A c \in Callers : WF_vars(\E outcome \in {"resolve", "reject"} : Settle(c, outcome))

Spec == Init /\ [][Next]_vars

FairSpec == Spec /\ Fairness

-----------------------------------------------------------------------------
(* Properties.                                                             *)

TypeOK ==
  /\ EngineTypeOK
  /\ phase \in Phases
  /\ mayQuery \in SUBSET Callers
  /\ mayWrite \in SUBSET Callers
  /\ queue \in Seq(Callers)
  /\ tornDown \in BOOLEAN
  /\ written \in Seq(Callers)

\* inFlight() is the number of unsettled queries, whichever way they settle:
\* the drain would otherwise end early or never.
CounterExact == inFlight = Cardinality(Unsettled)

\* A removed engine is never marked STOPPED mid-query (drainAndReleaseEntry):
\* not even when a query enters while the store's teardown is awaited.
NeverStoppedMidQuery == stopped => Unsettled = {}

\* Once the release has stopped the engine the file strands byte-identical.
FileStrands == [][phase = "released" => written' = written]_written

\* A mutation accepted before the teardown reaches the file before the release
\* goes on, in the order it was accepted.
NothingAcceptedIsLost == phase \in {"drainAgain", "released"} => queue = <<>>

\* The unbounded drain ends: a removed store is eventually released, although
\* late callers may make the poll see their queries.
ReleaseCompletes == phase = "drain" ~> phase = "released"

=============================================================================
