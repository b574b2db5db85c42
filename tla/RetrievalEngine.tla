--------------------------- MODULE RetrievalEngine ---------------------------
(***************************************************************************)
(* The retrieval engine of src/main/retrieval.ts (createRetrieval) as its  *)
(* owners see it: queries in flight, the one-way promotion of the          *)
(* embedder, and the STOPPED latch.  What a query answers is left out; it  *)
(* keeps the embedder it entered with until it settles.                    *)
(*                                                                         *)
(* StoreRelease and VectorBoot EXTEND this module and drive its operators. *)
(***************************************************************************)
EXTENDS Integers, FiniteSets

CONSTANT Callers  \* concurrent calls of query()

ASSUME CallersAssumption == IsFiniteSet(Callers)

VARIABLES
  stopped,   \* the STOPPED latch
  embedder,  \* the active embedder; "vector" once promoted
  running,   \* the embedder each unsettled query entered with
  inFlight   \* inFlightCount

engineVars == <<stopped, embedder, running, inFlight>>

Embedders == {"lexical", "vector"}
NoQuery   == "none"

EngineInit ==
  /\ stopped = FALSE
  /\ embedder = "lexical"
  /\ running = [c \in Callers |-> NoQuery]
  /\ inFlight = 0

Unsettled == {c \in Callers : running[c] # NoQuery}

\* query() of a stopped engine throws before it is counted.
QueryEnter(c) ==
  /\ running[c] = NoQuery
  /\ ~stopped
  /\ inFlight' = inFlight + 1
  /\ running' = [running EXCEPT ![c] = embedder]
  /\ UNCHANGED <<stopped, embedder>>

QuerySettle(c, outcome) ==
  /\ running[c] # NoQuery
  /\ outcome \in {"resolve", "reject"}
  /\ inFlight' = inFlight - 1
  /\ running' = [running EXCEPT ![c] = NoQuery]
  /\ UNCHANGED <<stopped, embedder>>

\* setEmbedder: throws when stopped or already promoted.
SetEmbedder ==
  /\ ~stopped
  /\ embedder = "lexical"
  /\ embedder' = "vector"
  /\ UNCHANGED <<stopped, running, inFlight>>

\* teardown: idempotent; neither embedder has a teardown hook.
EngineTeardown ==
  /\ stopped' = TRUE
  /\ UNCHANGED <<embedder, running, inFlight>>

EngineTypeOK ==
  /\ stopped \in BOOLEAN
  /\ embedder \in Embedders
  /\ running \in [Callers -> Embedders \cup {NoQuery}]
  /\ inFlight \in Nat

=============================================================================
