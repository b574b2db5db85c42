---------------------------- MODULE EngineStream -----------------------------
(***************************************************************************)
(* The stream of an answer of the Gnosis engine: ragStream() over the SSE  *)
(* client (src/main/engine-rag-store.ts), read to its end by the tool      *)
(* gnosis.stream (mcp-server.ts).  The connection is opened before the     *)
(* gate has answered, and its frames arrive while the tool is not waiting. *)
(***************************************************************************)
EXTENDS Naturals, Sequences, SequencesExt

CONSTANT MaxFrames  \* bound of the model: frames of a stream

VARIABLES
  engineGate,    \* the readiness gate: "unasked", "asked", "ready" or "refused"
  connection,    \* "none", "open", "ended" by the engine or "closed" by the client
  frames,        \* what the engine has sent: "chunk", "bad" or "done"
  unread,        \* `queue': the frames that are not read yet, by their number
  doneReceived, streamDone, streamError,
  chunks,        \* what the tool has read, by their number
  outcome        \* of the tool: "none", "end" or "error"

streamVars == <<engineGate, connection, frames, unread, doneReceived, streamDone, streamError, chunks, outcome>>

StreamInit ==
  /\ engineGate = "unasked" /\ connection = "none" /\ frames = <<>> /\ unread = <<>>
  /\ doneReceived = FALSE /\ streamDone = FALSE /\ streamError = FALSE
  /\ chunks = <<>> /\ outcome = "none"

----------------------------------------------------------------------------
(* The connection                                                          *)

\* The first next(): the connection is opened and the gate asked, in this order.
Subscribe ==
  /\ engineGate = "unasked" /\ engineGate' = "asked" /\ connection' = "open"
  /\ UNCHANGED <<frames, unread, doneReceived, streamDone, streamError, chunks, outcome>>

GateResolves(answer) ==
  /\ engineGate = "asked" /\ engineGate' = answer
  /\ UNCHANGED <<connection, frames, unread, doneReceived, streamDone, streamError, chunks, outcome>>

\* onEvent, or onError for a frame that cannot be parsed: the next ones are queued all the same.
FrameArrives(kind) ==
  /\ connection = "open" /\ Len(frames) < MaxFrames
  /\ frames' = Append(frames, kind)
  /\ unread' = IF kind = "bad" THEN unread ELSE Append(unread, Len(frames) + 1)
  /\ doneReceived' = (doneReceived \/ kind = "done")
  /\ streamError' = (streamError \/ kind = "bad")
  /\ UNCHANGED <<engineGate, connection, streamDone, chunks, outcome>>

\* onClose: only an end after `done' is a clean one.
ConnectionEnds ==
  /\ connection = "open" /\ connection' = "ended"
  /\ streamDone' = (streamDone \/ doneReceived)
  /\ streamError' = (streamError \/ ~doneReceived)
  /\ UNCHANGED <<engineGate, frames, unread, doneReceived, chunks, outcome>>

\* onError
ConnectionFails ==
  /\ connection = "open" /\ connection' = "ended" /\ streamError' = TRUE
  /\ UNCHANGED <<engineGate, frames, unread, doneReceived, streamDone, chunks, outcome>>

----------------------------------------------------------------------------
(* next(): the gate first, then the frames that are queued, an error, the end *)

Gated == outcome = "none" /\ engineGate = "ready"

GateFails ==
  /\ outcome = "none" /\ engineGate = "refused"
  /\ outcome' = "error" /\ connection' = IF connection = "open" THEN "closed" ELSE connection
  /\ UNCHANGED <<engineGate, frames, unread, doneReceived, streamDone, streamError, chunks>>

Read ==
  /\ Gated /\ unread # <<>>
  /\ unread' = Tail(unread) /\ chunks' = Append(chunks, Head(unread))
  /\ streamDone' = (streamDone \/ frames[Head(unread)] = "done")
  /\ UNCHANGED <<engineGate, connection, frames, doneReceived, streamError, outcome>>

ReadError ==
  /\ Gated /\ unread = <<>> /\ streamError /\ outcome' = "error"
  /\ UNCHANGED <<engineGate, connection, frames, unread, doneReceived, streamDone, streamError, chunks>>

\* A mutation: the end is looked at before the error.
ReadEnd_First ==
  /\ Gated /\ unread = <<>> /\ streamDone
  /\ outcome' = "end" /\ connection' = IF connection = "open" THEN "closed" ELSE connection
  /\ UNCHANGED <<engineGate, frames, unread, doneReceived, streamDone, streamError, chunks>>

ReadEnd ==
  /\ Gated /\ unread = <<>> /\ ~streamError /\ streamDone
  /\ outcome' = "end" /\ connection' = IF connection = "open" THEN "closed" ELSE connection
  /\ UNCHANGED <<engineGate, frames, unread, doneReceived, streamDone, streamError, chunks>>

StreamNext ==
  \/ Subscribe \/ ConnectionEnds \/ ConnectionFails
  \/ \E answer \in {"ready", "refused"} : GateResolves(answer)
  \/ \E kind \in {"chunk", "bad", "done"} : FrameArrives(kind)
  \/ GateFails \/ Read \/ ReadError \/ ReadEnd

StreamSpec == StreamInit /\ [][StreamNext]_streamVars

----------------------------------------------------------------------------
(* Properties                                                              *)

\* A stream that the tool returns without an error is whole: the frames from the first one on, in order, `done'
\* among them, and none skipped, however the frames, the end of the connection and the gate's answer interleave
\* with the reading; and nothing of a stream is read unless the gate has let it pass.
StreamIsWhole ==
  /\ outcome = "end" =>
       /\ \A i \in DOMAIN chunks : chunks[i] = i
       /\ \E i \in DOMAIN chunks : frames[i] = "done"
  /\ chunks # <<>> => engineGate = "ready"
=============================================================================
