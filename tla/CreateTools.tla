----------------------------- MODULE CreateTools -----------------------------
(***************************************************************************)
(* gnosis.document.create and gnosis.wiki.create (src/main/mcp-server.ts): *)
(* the registry of request ids (idempotency-registry.ts) in front of the   *)
(* call of the engine with its readiness gate, timeout and retries         *)
(* (engine-crud-rag-store.ts).  The engine is external: it may be not      *)
(* ready, refuse a request, or execute one whose answer is lost.           *)
(***************************************************************************)
EXTENDS Naturals, Sequences, SequencesExt

CONSTANTS
  Slots,                  \* calls in progress at a time
  CallerIds, RequestIds,  \* of the calls that carry a request id
  MaxRetries,             \* retries of a create; main() configures none
  MaxEntries,             \* entries of the registry
  MaxCreated              \* bound of the model: documents the engine creates

ASSUME CreateAssumption == MaxRetries \in Nat /\ MaxEntries \in Nat \ {0}

VARIABLES
  calls,     \* slot -> [key, at, left, made]: where it is, the retries left, and the document of its request
  cache,     \* the registry: <<[key, result]>>, the oldest entry first
  created,   \* the engine's documents: the key each was created for
  answered,  \* history: key -> the documents its calls were answered with
  excused    \* history: keys of overlapping calls, of a lost answer, or evicted

createVars == <<calls, cache, created, answered, excused>>

Keys == CallerIds \X RequestIds

CreateInit ==
  calls = <<>> /\ cache = <<>> /\ created = <<>> /\ answered = [k \in Keys |-> {}] /\ excused = {}

----------------------------------------------------------------------------
(* The registry                                                            *)

\* A mutation: the request id alone.
CacheKey_RequestOnly(k) == k[2]

CacheKey(k) == k

Cached(k)   == \E i \in DOMAIN cache : cache[i].key = CacheKey(k)
PlaceOf(k)  == CHOOSE i \in DOMAIN cache : cache[i].key = CacheKey(k)
RegistryGet(k) == cache[PlaceOf(k)].result
Others(k)   == IF Cached(k) THEN RemoveAt(cache, PlaceOf(k)) ELSE cache

\* set(): the entry becomes the youngest one, and the oldest ones beyond the limit go.
RegistrySet(k, result) ==
  LET all == Append(Others(k), [key |-> CacheKey(k), result |-> result])
  IN  IF Len(all) > MaxEntries THEN Tail(all) ELSE all

----------------------------------------------------------------------------
(* The tools                                                               *)

At(c, place) == c \in DOMAIN calls /\ calls[c].at = place
Key(c) == calls[c].key
Move(c, place) == calls' = [calls EXCEPT ![c].at = place]
EndCall(c) == calls' = [d \in DOMAIN calls \ {c} |-> calls[d]]
Give(k, document) == answered' = [answered EXCEPT ![k] = @ \cup {document}]

\* The tool looks its key up, and calls the engine when it finds nothing.
Create(c, k) ==
  /\ c \notin DOMAIN calls
  /\ IF Cached(k) THEN Give(k, RegistryGet(k)) /\ UNCHANGED <<calls, excused>>
     ELSE /\ calls' = [d \in DOMAIN calls \cup {c} |->
                         IF d = c THEN [key |-> k, at |-> "gate", left |-> MaxRetries, made |-> 0] ELSE calls[d]]
          /\ excused' = IF \E d \in DOMAIN calls : Key(d) = k THEN excused \cup {k} ELSE excused
          /\ UNCHANGED answered
  /\ UNCHANGED <<cache, created>>

\* withRetry(): an engine that is not available is asked again after a pause; any other error ends the call.
Unavailable(c) ==
  IF calls[c].left = 0 THEN EndCall(c)
  ELSE calls' = [calls EXCEPT ![c] = [key |-> Key(c), at |-> "pause", left |-> calls[c].left - 1, made |-> 0]]

\* crudCall(): the gate is asked before each request.
GateAnswers(c) ==
  /\ At(c, "gate") /\ (Move(c, "sent") \/ Unavailable(c) \/ EndCall(c))
  /\ UNCHANGED <<cache, created, answered, excused>>

PauseEnds(c) ==
  /\ At(c, "pause") /\ Move(c, "gate")
  /\ UNCHANGED <<cache, created, answered, excused>>

Made(c) == Len(created) < MaxCreated /\ created' = Append(created, Key(c))

\* The engine creates the document ...
EngineCreates(c) ==
  /\ At(c, "sent") /\ Made(c)
  /\ calls' = [calls EXCEPT ![c] = [@ EXCEPT !.at = "executed", !.made = Len(created) + 1]]
  /\ UNCHANGED <<cache, answered, excused>>

\* ... or refuses to.
EngineRefuses(c) ==
  /\ At(c, "sent") /\ EndCall(c)
  /\ UNCHANGED <<cache, created, answered, excused>>

\* No answer within the timeout: the engine has executed the request, never saw it, or is about to execute it.
AnswerLost(c) ==
  /\ At(c, "sent") \/ At(c, "executed")
  /\ Unavailable(c) /\ excused' = excused \cup {Key(c)}
  /\ UNCHANGED created \/ (At(c, "sent") /\ Made(c))
  /\ UNCHANGED <<cache, answered>>

\* The answer is recorded under its key and given to the caller.
Answer(c) ==
  /\ At(c, "executed") /\ EndCall(c) /\ Give(Key(c), calls[c].made)
  /\ cache' = RegistrySet(Key(c), calls[c].made)
  /\ excused' = excused \cup {k \in Keys \ {Key(c)} : Cached(k) /\ ~Cached(k)'}
  /\ UNCHANGED created

CreateNext ==
  \E c \in Slots :
    \/ \E k \in Keys : Create(c, k)
    \/ GateAnswers(c) \/ PauseEnds(c)
    \/ EngineCreates(c) \/ EngineRefuses(c) \/ AnswerLost(c) \/ Answer(c)

CreateSpec == CreateInit /\ [][CreateNext]_createVars

----------------------------------------------------------------------------
(* Properties                                                              *)

\* However often a call is repeated, retried after an unready engine, or refused, a request id makes one document
\* and each of its calls is answered with that document, of the same caller; what excuses a second one is an
\* answer that was lost, an entry that was evicted, and two calls at a time.
OneDocumentPerRequest ==
  \A k \in Keys :
    /\ \A document \in answered[k] : created[document] = k
    /\ k \notin excused => \A i, j \in DOMAIN created : created[i] = k /\ created[j] = k => i = j
=============================================================================
