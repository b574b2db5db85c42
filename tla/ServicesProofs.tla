--------------------------- MODULE ServicesProofs ---------------------------
(***************************************************************************)
(* What holds of the services around the stores for any number of calls,   *)
(* frames, requests, modules and pages, and of the release of a store for  *)
(* any finite number of callers: its types, the query counter and the two  *)
(* promises of drainAndReleaseEntry.                                       *)
(***************************************************************************)
EXTENDS StoreRelease, RendererBackend, EngineStream, CreateTools, ToolServer, FiniteSetTheorems, TLAPS

\* What is left of a sequence without one of its elements.
LEMMA RemoveAtElements ==
  ASSUME NEW S, NEW s \in Seq(S), NEW p \in DOMAIN s
  PROVE  /\ RemoveAt(s, p) \in Seq(S) /\ Len(RemoveAt(s, p)) = Len(s) - 1
         /\ \A i \in DOMAIN RemoveAt(s, p) :
              LET j == IF i < p THEN i ELSE i + 1 IN j \in DOMAIN s /\ RemoveAt(s, p)[i] = s[j]
         /\ \A j \in DOMAIN s : j # p => \E i \in DOMAIN RemoveAt(s, p) : RemoveAt(s, p)[i] = s[j]
PROOF
<1>. DEFINE a == SubSeq(s, 1, p - 1)
            b == SubSeq(s, p + 1, Len(s))
<1>1. a \in Seq(S) /\ Len(a) = p - 1 /\ \A i \in 1..p - 1 : a[i] = s[i]
  OBVIOUS
<1>2. b \in Seq(S) /\ Len(b) = Len(s) - p /\ \A i \in 1..Len(s) - p : b[i] = s[p + i]
  OBVIOUS
<1>3. RemoveAt(s, p) = a \o b
  BY DEF RemoveAt
<1>. HIDE DEF a, b
<1>4. a \o b \in Seq(S) /\ Len(a \o b) = Len(s) - 1
  BY <1>1, <1>2
<1>5. \A i \in 1..p - 1 : (a \o b)[i] = s[i]
  BY <1>1, <1>2
<1>6. ASSUME NEW i \in p..Len(s) - 1 PROVE (a \o b)[i] = s[i + 1]
  <2>1. (a \o b)[i] = b[i - (p - 1)] /\ i - (p - 1) \in 1..Len(s) - p
    BY <1>1, <1>2
  <2>2. b[i - (p - 1)] = s[p + (i - (p - 1))] /\ p + (i - (p - 1)) = i + 1
    BY <1>2, <2>1
  <2>. QED BY <2>1, <2>2
<1>7. ASSUME NEW i \in DOMAIN (a \o b)
      PROVE  LET j == IF i < p THEN i ELSE i + 1 IN j \in DOMAIN s /\ (a \o b)[i] = s[j]
  <2>1. i \in 1..Len(s) - 1 /\ Len(s) \in Nat /\ DOMAIN s = 1..Len(s) /\ p \in 1..Len(s)
    BY <1>4
  <2>2. CASE i < p
    <3>1. i \in 1..p - 1 /\ i \in DOMAIN s
      BY <2>1, <2>2
    <3>. QED BY <2>2, <3>1, <1>5
  <2>3. CASE ~(i < p)
    <3>1. i \in p..Len(s) - 1 /\ i + 1 \in DOMAIN s
      BY <2>1, <2>3
    <3>. QED BY <2>3, <3>1, <1>6
  <2>. QED BY <2>2, <2>3
<1>8. ASSUME NEW j \in DOMAIN s, j # p PROVE \E i \in DOMAIN (a \o b) : (a \o b)[i] = s[j]
  <2>1. CASE j < p
    <3>1. j \in 1..p - 1 /\ j \in DOMAIN (a \o b)
      BY <2>1, <1>4
    <3>. QED BY <3>1, <1>5
  <2>2. CASE j > p
    <3>1. j - 1 \in p..Len(s) - 1 /\ j - 1 \in DOMAIN (a \o b) /\ (j - 1) + 1 = j
      BY <2>2, <1>4
    <3>. QED BY <3>1, <1>6
  <2>. QED BY <2>1, <2>2, <1>8
<1>. QED BY <1>3, <1>4, <1>7, <1>8

----------------------------------------------------------------------------
(* The stream of an answer                                                 *)

FrameKinds == {"chunk", "bad", "done"}

\* The types of what the reader of a stream looks at.
StreamTypeOK ==
  /\ engineGate \in {"unasked", "asked", "ready", "refused"}
  /\ frames \in Seq(FrameKinds)
  /\ unread \in Seq(Nat) /\ chunks \in Seq(Nat)
  /\ doneReceived \in BOOLEAN /\ streamDone \in BOOLEAN /\ streamError \in BOOLEAN
  /\ outcome \in {"none", "end", "error"}

\* What has been read and what is queued has arrived; without an error it is all the frames, in order.
NothingSkipped ==
  /\ Len(chunks) + Len(unread) <= Len(frames)
  /\ ~streamError =>
       /\ Len(chunks) + Len(unread) = Len(frames)
       /\ \A i \in DOMAIN chunks : chunks[i] = i
       /\ \A i \in DOMAIN unread : unread[i] = Len(chunks) + i

\* The flags of the end are set by a frame `done' only.
DoneWasSent ==
  /\ doneReceived <=> \E i \in DOMAIN frames : frames[i] = "done"
  /\ ~streamError /\ streamDone => doneReceived

StreamIInv == StreamTypeOK /\ NothingSkipped /\ DoneWasSent /\ StreamIsWhole

----------------------------------------------------------------------------
\* A frame that arrives follows those that are read or queued.
LEMMA FrameArrivesInv ==
  ASSUME StreamIInv, NEW kind \in FrameKinds, FrameArrives(kind)
  PROVE  StreamIInv'
PROOF
<1>. USE DEF StreamIInv, FrameArrives, FrameKinds
<1>1. /\ frames' \in Seq(FrameKinds) /\ Len(frames') = Len(frames) + 1
      /\ \A i \in DOMAIN frames : i \in DOMAIN frames' /\ frames'[i] = frames[i]
      /\ frames'[Len(frames')] = kind /\ Len(frames') \in DOMAIN frames'
      /\ \A i \in DOMAIN frames' : i \in DOMAIN frames \/ i = Len(frames')
  BY DEF StreamTypeOK
<1>2. StreamTypeOK'
  BY <1>1 DEF StreamTypeOK
<1>3. NothingSkipped'
  <2>0. Len(chunks') + Len(unread') <= Len(frames')
    BY <1>1 DEF StreamTypeOK, NothingSkipped
  <2>1. SUFFICES ASSUME ~streamError'
                 PROVE  /\ Len(chunks') + Len(unread') = Len(frames')
                        /\ \A i \in DOMAIN chunks' : chunks'[i] = i
                        /\ \A i \in DOMAIN unread' : unread'[i] = Len(chunks') + i
    BY <2>0 DEF NothingSkipped
  <2>2. ~streamError /\ unread' = Append(unread, Len(frames) + 1) /\ chunks' = chunks
    BY <2>1
  <2>3. Len(unread') = Len(unread) + 1 /\ \A i \in DOMAIN unread' : i \in DOMAIN unread \/ i = Len(unread) + 1
    BY <2>2 DEF StreamTypeOK
  <2>4. Len(chunks) + Len(unread) = Len(frames)
    BY <2>2 DEF NothingSkipped
  <2>5. ASSUME NEW i \in DOMAIN unread' PROVE unread'[i] = Len(chunks') + i
    <3>1. CASE i \in DOMAIN unread
      BY <3>1, <2>2 DEF StreamTypeOK, NothingSkipped
    <3>2. CASE i = Len(unread) + 1
      BY <3>2, <2>2, <2>4 DEF StreamTypeOK
    <3>. QED BY <3>1, <3>2, <2>3
  <2>6. Len(chunks') + Len(unread') = Len(frames')
    BY <2>2, <2>3, <2>4, <1>1 DEF StreamTypeOK
  <2>7. \A i \in DOMAIN chunks' : chunks'[i] = i
    BY <2>2 DEF NothingSkipped
  <2>. QED BY <2>5, <2>6, <2>7
<1>4. DoneWasSent'
  <2>1. CASE kind = "done"
    BY <1>1, <2>1 DEF DoneWasSent, StreamTypeOK
  <2>2. CASE kind # "done"
    BY <1>1, <2>2 DEF DoneWasSent, StreamTypeOK
  <2>. QED BY <2>1, <2>2
<1>5. StreamIsWhole'
  <2>1. outcome' = "end" => \E i \in DOMAIN chunks' : i \in DOMAIN frames' /\ frames'[i] = "done"
    <3>1. SUFFICES ASSUME outcome' = "end" PROVE \E i \in DOMAIN chunks' : i \in DOMAIN frames' /\ frames'[i] = "done"
      OBVIOUS
    <3>2. PICK i \in DOMAIN chunks : frames[i] = "done" BY <3>1 DEF StreamIsWhole
    <3>3. i \in DOMAIN frames BY DEF StreamTypeOK, NothingSkipped
    <3>. QED BY <3>2, <3>3, <1>1
  <2>. QED BY <2>1 DEF StreamIsWhole
<1>. QED BY <1>2, <1>3, <1>4, <1>5

\* A frame that is read is the first one of the queue.
LEMMA ReadInv ==
  ASSUME StreamIInv, Read
  PROVE  StreamIInv'
PROOF
<1>. USE DEF StreamIInv, Read, Gated
<1>1. /\ unread # <<>> /\ 1 \in DOMAIN unread /\ Len(unread) \in Nat \ {0} /\ Head(unread) = unread[1] /\ Head(unread) \in Nat
      /\ unread' \in Seq(Nat) /\ Len(unread') = Len(unread) - 1
      /\ \A i \in DOMAIN unread' : i + 1 \in DOMAIN unread /\ unread'[i] = unread[i + 1]
  BY DEF StreamTypeOK
<1>2. /\ chunks' = Append(chunks, unread[1]) /\ chunks' \in Seq(Nat) /\ Len(chunks') = Len(chunks) + 1
      /\ \A i \in DOMAIN chunks' : \/ i \in DOMAIN chunks /\ chunks'[i] = chunks[i]
                                   \/ i = Len(chunks) + 1 /\ chunks'[i] = unread[1]
  <2>1. chunks' = Append(chunks, unread[1]) /\ chunks \in Seq(Nat) /\ unread[1] \in Nat
    BY <1>1 DEF StreamTypeOK
  <2>. QED BY <2>1
<1>3. StreamTypeOK'
  BY <1>1, <1>2 DEF StreamTypeOK
<1>4. NothingSkipped'
  <2>1. Len(chunks') + Len(unread') <= Len(frames')
    BY <1>1, <1>2 DEF NothingSkipped, StreamTypeOK
  <2>2. ASSUME ~streamError' PROVE Len(chunks') + Len(unread') = Len(frames')
    BY <1>1, <1>2, <2>2 DEF NothingSkipped, StreamTypeOK
  <2>3. ASSUME ~streamError', NEW i \in DOMAIN chunks' PROVE chunks'[i] = i
    <3>1. unread[1] = Len(chunks) + 1
      BY <1>1, <2>3 DEF NothingSkipped
    <3>. QED BY <1>2, <2>3, <3>1 DEF NothingSkipped
  <2>4. ASSUME ~streamError', NEW i \in DOMAIN unread' PROVE unread'[i] = Len(chunks') + i
    <3>1. unread[i + 1] = Len(chunks) + (i + 1)
      BY <1>1, <2>4 DEF NothingSkipped
    <3>. QED BY <3>1, <1>1, <1>2 DEF StreamTypeOK
  <2>. QED BY <2>1, <2>2, <2>3, <2>4 DEF NothingSkipped
<1>5. DoneWasSent'
  <2>1. ASSUME ~streamError', streamDone' PROVE doneReceived'
    <3>1. CASE streamDone
      BY <2>1, <3>1 DEF DoneWasSent
    <3>2. CASE frames[Head(unread)] = "done"
      <4>1. Head(unread) = Len(chunks) + 1
        BY <1>1, <2>1 DEF NothingSkipped
      <4>2. Head(unread) \in DOMAIN frames
        BY <1>1, <4>1 DEF NothingSkipped, StreamTypeOK
      <4>. QED BY <3>2, <4>2 DEF DoneWasSent
    <3>. QED BY <2>1, <3>1, <3>2
  <2>. QED BY <2>1 DEF DoneWasSent
<1>6. StreamIsWhole'
  BY DEF StreamIsWhole
<1>. QED BY <1>3, <1>4, <1>5, <1>6

\* The stream ends for the reader when every frame is read, the last of them `done' or not.
LEMMA ReadEndInv ==
  ASSUME StreamIInv, ReadEnd
  PROVE  StreamIInv'
PROOF
<1>. USE DEF StreamIInv, ReadEnd, Gated
<1>1. StreamTypeOK' /\ NothingSkipped' /\ DoneWasSent'
  BY DEF StreamTypeOK, NothingSkipped, DoneWasSent
<1>2. Len(chunks) = Len(frames) /\ \A i \in DOMAIN chunks : chunks[i] = i
  BY DEF StreamTypeOK, NothingSkipped
<1>3. \E i \in DOMAIN chunks : frames[i] = "done"
  BY <1>2 DEF StreamTypeOK, DoneWasSent
<1>4. StreamIsWhole'
  BY <1>2, <1>3 DEF StreamIsWhole
<1>. QED BY <1>1, <1>4

\* The gate, the end of the connection and an error change nothing that is read.
LEMMA OtherInv ==
  ASSUME StreamIInv,
         \/ Subscribe \/ ConnectionEnds \/ ConnectionFails \/ GateFails \/ ReadError
         \/ \E answer \in {"ready", "refused"} : GateResolves(answer)
         \/ UNCHANGED streamVars
  PROVE  StreamIInv'
PROOF
<1>. USE DEF StreamIInv
<1>1. UNCHANGED <<frames, unread, chunks, doneReceived>>
  BY DEF Subscribe, ConnectionEnds, ConnectionFails, GateFails, ReadError, GateResolves, streamVars
<1>2. outcome' = "end" => outcome = "end"
  BY DEF Subscribe, ConnectionEnds, ConnectionFails, GateFails, ReadError, GateResolves, streamVars
<1>3. (streamError => streamError') /\ (~streamError' /\ streamDone' => streamDone \/ doneReceived)
  BY DEF Subscribe, ConnectionEnds, ConnectionFails, GateFails, ReadError, GateResolves, streamVars, StreamTypeOK
<1>4. StreamTypeOK'
  BY <1>1 DEF Subscribe, ConnectionEnds, ConnectionFails, GateFails, ReadError, GateResolves, streamVars, StreamTypeOK
<1>5. NothingSkipped'
  BY <1>1, <1>3 DEF NothingSkipped, StreamTypeOK
<1>6. DoneWasSent'
  BY <1>1, <1>3 DEF DoneWasSent, StreamTypeOK
<1>7. engineGate = "ready" => engineGate' = "ready"
  BY DEF Subscribe, ConnectionEnds, ConnectionFails, GateFails, ReadError, GateResolves, streamVars
<1>8. StreamIsWhole'
  BY <1>1, <1>2, <1>7 DEF StreamIsWhole
<1>. QED BY <1>4, <1>5, <1>6, <1>8

\* A stream is returned without an error only if it is whole and the gate has let it pass, however its frames,
\* the end of its connection and the answer of the gate interleave with the reading of it.
THEOREM StreamsAreWhole == StreamSpec => []StreamIsWhole
PROOF
<1>1. StreamInit => StreamIInv
  <2>. SUFFICES ASSUME StreamInit PROVE StreamIInv
    OBVIOUS
  <2>0. <<>> \in Seq(Nat) /\ <<>> \in Seq(FrameKinds)
    OBVIOUS
  <2>1. StreamTypeOK
    BY <2>0 DEF StreamInit, StreamTypeOK
  <2>2. NothingSkipped /\ DoneWasSent
    BY DEF StreamInit, NothingSkipped, DoneWasSent
  <2>3. StreamIsWhole
    BY DEF StreamInit, StreamIsWhole
  <2>. QED BY <2>1, <2>2, <2>3 DEF StreamIInv
<1>2. StreamIInv /\ [StreamNext]_streamVars => StreamIInv'
  BY FrameArrivesInv, ReadInv, ReadEndInv, OtherInv DEF StreamNext, FrameKinds
<1>3. StreamIInv => StreamIsWhole
  BY DEF StreamIInv
<1>. QED BY <1>1, <1>2, <1>3, PTL DEF StreamSpec

----------------------------------------------------------------------------
(* The calls that create                                                   *)

Entries == [key : Keys, result : Nat]
CallStates == [key : Keys, at : {"gate", "pause", "sent", "executed"}, left : Nat, made : Nat]

CreateTypeOK ==
  /\ calls \in [DOMAIN calls -> CallStates]
  /\ cache \in Seq(Entries)
  /\ created \in Seq(Keys)
  /\ answered \in [Keys -> SUBSET Nat]
  /\ excused \subseteq Keys

\* The document was made for the key.
MadeIn(documents, document, k) == document \in DOMAIN documents /\ documents[document] = k

\* What is about to be answered, what is kept, and what was answered are documents of the request.
DocumentsMatch ==
  /\ \A c \in DOMAIN calls : calls[c].at = "executed" => MadeIn(created, calls[c].made, calls[c].key)
  /\ \A i \in DOMAIN cache : MadeIn(created, cache[i].result, cache[i].key)
  /\ \A k \in Keys : \A document \in answered[k] : MadeIn(created, document, k)

\* A request that nothing excuses has one call at most, none when it is in the registry; it has one document at
\* most, and the registry or its call holds that one.
Single(k) ==
  /\ \A c, d \in DOMAIN calls : calls[c].key = k /\ calls[d].key = k => c = d
  /\ \A c \in DOMAIN calls, i \in DOMAIN cache : ~(calls[c].key = k /\ cache[i].key = k)
  /\ \A i, j \in DOMAIN created : created[i] = k /\ created[j] = k => i = j
  /\ \A i \in DOMAIN created : created[i] = k =>
       \/ \E j \in DOMAIN cache : cache[j].key = k
       \/ \E c \in DOMAIN calls : calls[c].key = k /\ calls[c].at = "executed"

CreateIInv == CreateTypeOK /\ DocumentsMatch /\ \A k \in Keys \ excused : Single(k)

\* An entry that is recorded is the youngest one; all the others were there before.
LEMMA RegistrySetKeeps ==
  ASSUME cache \in Seq(Entries), NEW k \in Keys, NEW document \in Nat
  PROVE  /\ RegistrySet(k, document) \in Seq(Entries)
         /\ \E i \in DOMAIN RegistrySet(k, document) : RegistrySet(k, document)[i] = [key |-> k, result |-> document]
         /\ \A i \in DOMAIN RegistrySet(k, document) :
              \/ RegistrySet(k, document)[i] = [key |-> k, result |-> document]
              \/ \E j \in DOMAIN cache : RegistrySet(k, document)[i] = cache[j]
PROOF
<1>. DEFINE new == [key |-> k, result |-> document]
            all == Append(Others(k), new)
<1>1. Others(k) \in Seq(Entries) /\ \A i \in DOMAIN Others(k) : \E j \in DOMAIN cache : Others(k)[i] = cache[j]
  <2>1. CASE ~Cached(k)
    BY <2>1 DEF Others
  <2>2. CASE Cached(k)
    <3>1. PICK p \in DOMAIN cache : Others(k) = RemoveAt(cache, p)
      BY <2>2 DEF Others, Cached, PlaceOf
    <3>2. /\ RemoveAt(cache, p) \in Seq(Entries)
          /\ \A i \in DOMAIN RemoveAt(cache, p) :
               LET j == IF i < p THEN i ELSE i + 1 IN j \in DOMAIN cache /\ RemoveAt(cache, p)[i] = cache[j]
      BY RemoveAtElements
    <3>. QED BY <3>1, <3>2, Zenon
  <2>. QED BY <2>1, <2>2
<1>2. new \in Entries
  BY DEF Entries
<1>. HIDE DEF new
<1>3. /\ all \in Seq(Entries) /\ Len(all) = Len(Others(k)) + 1 /\ all[Len(all)] = new
      /\ \A i \in 1..Len(Others(k)) : all[i] = Others(k)[i]
  BY <1>1, <1>2
<1>4. RegistrySet(k, document) = IF Len(all) > MaxEntries THEN Tail(all) ELSE all
  BY DEF RegistrySet, CacheKey, new
<1>. HIDE DEF all
<1>5. \A i \in DOMAIN all : all[i] = new \/ \E j \in DOMAIN cache : all[i] = cache[j]
  BY <1>1, <1>3
<1>6. CASE Len(all) <= MaxEntries
  BY <1>3, <1>4, <1>5, <1>6, CreateAssumption DEF new
<1>7. CASE Len(all) > MaxEntries
  <2>1. Len(all) > 1
    BY <1>7, <1>3, CreateAssumption
  <2>2. Tail(all) \in Seq(Entries) /\ Len(Tail(all)) = Len(all) - 1 /\ \A i \in 1..Len(all) - 1 : Tail(all)[i] = all[i + 1]
    BY <1>3, <2>1
  <2>3. Tail(all)[Len(all) - 1] = new /\ Len(all) - 1 \in DOMAIN Tail(all)
    BY <1>3, <2>1, <2>2
  <2>4. \A i \in DOMAIN Tail(all) : Tail(all)[i] = all[i + 1] /\ i + 1 \in DOMAIN all
    BY <1>3, <2>2
  <2>5. RegistrySet(k, document) = Tail(all)
    <3>1. Len(all) > MaxEntries
      BY <1>7
    <3>. QED BY <1>4, <3>1
  <2>6. \A i \in DOMAIN Tail(all) : Tail(all)[i] = new \/ \E j \in DOMAIN cache : Tail(all)[i] = cache[j]
    BY <1>5, <2>4
  <2>. QED BY <2>2, <2>3, <2>5, <2>6 DEF new
<1>. QED BY <1>3, <1>6, <1>7, CreateAssumption

\* A document more: the ones from before keep their place.
LEMMA CreatedGrows ==
  ASSUME CreateTypeOK, NEW k \in Keys, created' = Append(created, k)
  PROVE  /\ created' \in Seq(Keys) /\ Len(created) + 1 \in DOMAIN created' /\ created'[Len(created) + 1] = k
         /\ \A i \in DOMAIN created : i \in DOMAIN created' /\ created'[i] = created[i]
         /\ \A i \in DOMAIN created' : i \in DOMAIN created \/ i = Len(created) + 1
         /\ \A document, key : MadeIn(created, document, key) => MadeIn(created', document, key)
PROOF
<1>1. /\ created' \in Seq(Keys) /\ Len(created) + 1 \in DOMAIN created' /\ created'[Len(created) + 1] = k
      /\ \A i \in DOMAIN created : i \in DOMAIN created' /\ created'[i] = created[i]
      /\ \A i \in DOMAIN created' : i \in DOMAIN created \/ i = Len(created) + 1
  BY DEF CreateTypeOK
<1>. QED BY <1>1 DEF MadeIn

\* A step by which a call moves on or ends: an executed one only ends when its request is excused.
LEMMA CallMoves ==
  ASSUME CreateIInv, calls' \in [DOMAIN calls' -> CallStates], DOMAIN calls' \subseteq DOMAIN calls,
         \A c \in DOMAIN calls' : calls'[c].key = calls[c].key /\ (calls'[c].at = "executed" => calls'[c] = calls[c]),
         \A c \in DOMAIN calls : calls[c].at = "executed" =>
           (c \in DOMAIN calls' /\ calls'[c] = calls[c]) \/ calls[c].key \in excused',
         excused \subseteq excused', excused' \subseteq Keys, UNCHANGED <<cache, answered>>,
         created' = created \/ \E k \in excused' : created' = Append(created, k)
  PROVE  CreateIInv'
PROOF
<1>1. created' \in Seq(Keys) /\ \A document, key : MadeIn(created, document, key) => MadeIn(created', document, key)
  BY CreatedGrows DEF CreateIInv, CreateTypeOK, MadeIn
<1>2. CreateTypeOK'
  BY <1>1 DEF CreateIInv, CreateTypeOK
<1>3. DocumentsMatch'
  BY <1>1 DEF CreateIInv, DocumentsMatch
<1>4. ASSUME NEW k \in Keys \ excused' PROVE Single(k)'
  <2>1. Single(k)
    BY DEF CreateIInv
  <2>2. \A i \in DOMAIN created' : created'[i] = k => i \in DOMAIN created /\ created[i] = k
    BY CreatedGrows DEF CreateIInv
  <2>3. /\ \A c, d \in DOMAIN calls' : calls'[c].key = k /\ calls'[d].key = k => c = d
        /\ \A c \in DOMAIN calls', i \in DOMAIN cache' : ~(calls'[c].key = k /\ cache'[i].key = k)
    BY <2>1 DEF Single
  <2>4. \A i, j \in DOMAIN created' : created'[i] = k /\ created'[j] = k => i = j
    BY <2>1, <2>2 DEF Single
  <2>5. ASSUME NEW i \in DOMAIN created', created'[i] = k
        PROVE  \/ \E j \in DOMAIN cache' : cache'[j].key = k
               \/ \E c \in DOMAIN calls' : calls'[c].key = k /\ calls'[c].at = "executed"
    BY <2>1, <2>2, <2>5 DEF Single
  <2>. QED BY <2>3, <2>4, <2>5 DEF Single
<1>. QED BY <1>2, <1>3, <1>4 DEF CreateIInv

\* A call that ends, and one that goes on or is given up.
LEMMA EndCallMoves ==
  ASSUME CreateTypeOK, NEW c \in DOMAIN calls, EndCall(c)
  PROVE  /\ calls' \in [DOMAIN calls' -> CallStates] /\ DOMAIN calls' = DOMAIN calls \ {c}
         /\ \A d \in DOMAIN calls' : calls'[d] = calls[d]
BY DEF CreateTypeOK, EndCall

LEMMA UnavailableMoves ==
  ASSUME CreateTypeOK, NEW c \in DOMAIN calls, Unavailable(c)
  PROVE  /\ calls' \in [DOMAIN calls' -> CallStates] /\ DOMAIN calls' \subseteq DOMAIN calls
         /\ \A d \in DOMAIN calls' : calls'[d].key = calls[d].key /\ (calls'[d].at = "executed" => calls'[d] = calls[d])
         /\ \A d \in DOMAIN calls \ {c} : d \in DOMAIN calls' /\ calls'[d] = calls[d]
PROOF
<1>1. CASE calls[c].left = 0
  <2>1. EndCall(c)
    BY <1>1 DEF Unavailable
  <2>. QED BY <2>1, EndCallMoves
<1>2. CASE calls[c].left # 0
  <2>1. calls[c] \in CallStates /\ calls[c].left - 1 \in Nat
    BY <1>2 DEF CreateTypeOK, CallStates
  <2>2. calls' = [calls EXCEPT ![c] = [key |-> calls[c].key, at |-> "pause", left |-> calls[c].left - 1, made |-> 0]]
    BY <1>2 DEF Unavailable, Key
  <2>3. [key |-> calls[c].key, at |-> "pause", left |-> calls[c].left - 1, made |-> 0] \in CallStates
    BY <2>1 DEF CallStates
  <2>. QED BY <2>2, <2>3 DEF CreateTypeOK
<1>. QED BY <1>1, <1>2

LEMMA MoveMoves ==
  ASSUME CreateTypeOK, NEW c \in DOMAIN calls, NEW place \in {"gate", "sent"}, Move(c, place)
  PROVE  /\ calls' \in [DOMAIN calls' -> CallStates] /\ DOMAIN calls' = DOMAIN calls
         /\ \A d \in DOMAIN calls' : calls'[d].key = calls[d].key /\ (calls'[d].at = "executed" => calls'[d] = calls[d])
         /\ \A d \in DOMAIN calls \ {c} : calls'[d] = calls[d]
PROOF
<1>1. calls[c] \in CallStates /\ calls' = [calls EXCEPT ![c] = [calls[c] EXCEPT !.at = place]]
  BY DEF CreateTypeOK, Move
<1>2. [calls[c] EXCEPT !.at = place] \in CallStates /\ [calls[c] EXCEPT !.at = place].key = calls[c].key
      /\ [calls[c] EXCEPT !.at = place].at = place
  BY <1>1 DEF CallStates
<1>. QED BY <1>1, <1>2 DEF CreateTypeOK

LEMMA GateInv == ASSUME CreateIInv, NEW c, GateAnswers(c) \/ PauseEnds(c) \/ EngineRefuses(c) PROVE CreateIInv'
PROOF
<1>1. c \in DOMAIN calls /\ calls[c].at # "executed" /\ CreateTypeOK
  BY DEF GateAnswers, PauseEnds, EngineRefuses, At, CreateIInv
<1>2. EndCall(c) \/ Unavailable(c) \/ Move(c, "gate") \/ Move(c, "sent")
  BY DEF GateAnswers, PauseEnds, EngineRefuses
<1>3. UNCHANGED <<cache, created, answered, excused>>
  BY DEF GateAnswers, PauseEnds, EngineRefuses
<1>4. /\ calls' \in [DOMAIN calls' -> CallStates] /\ DOMAIN calls' \subseteq DOMAIN calls
      /\ \A d \in DOMAIN calls' : calls'[d].key = calls[d].key /\ (calls'[d].at = "executed" => calls'[d] = calls[d])
      /\ \A d \in DOMAIN calls \ {c} : d \in DOMAIN calls' /\ calls'[d] = calls[d]
  <2>1. CASE EndCall(c)
    BY <2>1, <1>1, EndCallMoves
  <2>2. CASE Unavailable(c)
    BY <2>2, <1>1, UnavailableMoves
  <2>3. CASE Move(c, "gate") \/ Move(c, "sent")
    BY <2>3, <1>1, MoveMoves
  <2>. QED BY <1>2, <2>1, <2>2, <2>3
<1>5. \A d \in DOMAIN calls : calls[d].at = "executed" => d \in DOMAIN calls' /\ calls'[d] = calls[d]
  BY <1>1, <1>4
<1>. QED BY <1>1, <1>3, <1>4, <1>5, CallMoves DEF CreateIInv, CreateTypeOK

\* A lost answer excuses its request, whether or not the engine has executed it.
LEMMA AnswerLostInv == ASSUME CreateIInv, NEW c, AnswerLost(c) PROVE CreateIInv'
PROOF
<1>1. c \in DOMAIN calls /\ CreateTypeOK /\ calls[c].key \in Keys
  BY DEF AnswerLost, At, CreateIInv, CreateTypeOK, CallStates
<1>2. /\ excused' = excused \cup {calls[c].key} /\ UNCHANGED <<cache, answered>> /\ Unavailable(c)
      /\ created' = created \/ created' = Append(created, calls[c].key)
  BY DEF AnswerLost, Made, Key
<1>3. /\ calls' \in [DOMAIN calls' -> CallStates] /\ DOMAIN calls' \subseteq DOMAIN calls
      /\ \A d \in DOMAIN calls' : calls'[d].key = calls[d].key /\ (calls'[d].at = "executed" => calls'[d] = calls[d])
      /\ \A d \in DOMAIN calls \ {c} : d \in DOMAIN calls' /\ calls'[d] = calls[d]
  BY <1>1, <1>2, UnavailableMoves
<1>. QED BY <1>1, <1>2, <1>3, CallMoves DEF CreateIInv, CreateTypeOK

\* A call that finds its request in the registry is answered, any other one goes to the engine.
LEMMA CreateInv == ASSUME CreateIInv, NEW c, NEW k \in Keys, Create(c, k) PROVE CreateIInv'
PROOF
<1>. USE DEF CreateIInv
<1>1. c \notin DOMAIN calls /\ UNCHANGED <<cache, created>>
  BY DEF Create
<1>2. CASE Cached(k)
  <2>1. PICK i \in DOMAIN cache : cache[i].key = k /\ RegistryGet(k) = cache[i].result
    BY <1>2 DEF Cached, RegistryGet, PlaceOf, CacheKey
  <2>2. /\ answered' = [answered EXCEPT ![k] = @ \cup {cache[i].result}] /\ UNCHANGED <<calls, excused>>
        /\ MadeIn(created, cache[i].result, k) /\ cache[i].result \in Nat
    <3>1. answered' = [answered EXCEPT ![k] = @ \cup {cache[i].result}] /\ UNCHANGED <<calls, excused>>
      BY <1>2, <2>1 DEF Create, Give
    <3>2. MadeIn(created, cache[i].result, k)
      BY <2>1 DEF DocumentsMatch
    <3>3. cache[i] \in Entries
      BY <2>1 DEF CreateTypeOK
    <3>. QED BY <3>1, <3>2, <3>3 DEF Entries
  <2>3. CreateTypeOK' /\ DocumentsMatch'
    BY <2>2, <1>1 DEF CreateTypeOK, DocumentsMatch, MadeIn
  <2>4. \A x \in Keys \ excused' : Single(x)'
    BY <2>2, <1>1 DEF Single
  <2>. QED BY <2>3, <2>4
<1>3. CASE ~Cached(k)
  <2>. DEFINE new == [key |-> k, at |-> "gate", left |-> MaxRetries, made |-> 0]
  <2>1. new \in CallStates
    BY CreateAssumption DEF CallStates
  <2>2. /\ DOMAIN calls' = DOMAIN calls \cup {c} /\ calls' \in [DOMAIN calls' -> CallStates] /\ calls'[c] = new
        /\ \A d \in DOMAIN calls : calls'[d] = calls[d]
    BY <1>1, <1>3, <2>1 DEF Create, CreateTypeOK
  <2>3. /\ excused' \in SUBSET Keys /\ excused \subseteq excused' /\ UNCHANGED answered
        /\ k \notin excused' => \A d \in DOMAIN calls : calls[d].key # k
    BY <1>3 DEF Create, CreateTypeOK, Key
  <2>4. CreateTypeOK' /\ DocumentsMatch'
    BY <1>1, <2>2, <2>3 DEF CreateTypeOK, DocumentsMatch, MadeIn
  <2>5. ASSUME NEW x \in Keys \ excused' PROVE Single(x)'
    <3>1. Single(x)
      BY <2>3
    <3>2. new.key = x => (\A d \in DOMAIN calls : calls[d].key # x) /\ (\A i \in DOMAIN cache : cache[i].key # x)
      BY <1>3, <2>3 DEF Cached, CacheKey
    <3>3. \A a, b \in DOMAIN calls' : calls'[a].key = x /\ calls'[b].key = x => a = b
      BY <2>2, <3>1, <3>2 DEF Single
    <3>4. \A a \in DOMAIN calls', i \in DOMAIN cache' : ~(calls'[a].key = x /\ cache'[i].key = x)
      BY <1>1, <2>2, <3>1, <3>2 DEF Single
    <3>5. ASSUME NEW i \in DOMAIN created', created'[i] = x
          PROVE  \/ \E j \in DOMAIN cache' : cache'[j].key = x
                 \/ \E a \in DOMAIN calls' : calls'[a].key = x /\ calls'[a].at = "executed"
      BY <1>1, <2>2, <3>1, <3>5 DEF Single
    <3>. QED BY <1>1, <3>1, <3>3, <3>4, <3>5 DEF Single
  <2>. QED BY <2>4, <2>5
<1>. QED BY <1>2, <1>3

\* The engine makes a document for a call: its request has none, if nothing excuses it.
LEMMA EngineCreatesInv == ASSUME CreateIInv, NEW c, EngineCreates(c) PROVE CreateIInv'
PROOF
<1>. DEFINE k == calls[c].key
<1>1. /\ c \in DOMAIN calls /\ calls[c].at = "sent" /\ calls[c] \in CallStates /\ k \in Keys
      /\ created' = Append(created, k) /\ UNCHANGED <<cache, answered, excused>> /\ CreateTypeOK
  BY DEF EngineCreates, At, Made, Key, CreateIInv, CreateTypeOK, CallStates
<1>2. calls' = [calls EXCEPT ![c] = [calls[c] EXCEPT !.at = "executed", !.made = Len(created) + 1]]
  BY DEF EngineCreates
<1>3. Len(created) + 1 \in Nat
  BY <1>1 DEF CreateTypeOK
<1>4. /\ DOMAIN calls' = DOMAIN calls /\ calls' \in [DOMAIN calls' -> CallStates]
      /\ \A d \in DOMAIN calls : calls'[d].key = calls[d].key /\ (d # c => calls'[d] = calls[d])
      /\ calls'[c].at = "executed" /\ calls'[c].made = Len(created) + 1
  <2>1. [calls[c] EXCEPT !.at = "executed", !.made = Len(created) + 1] \in CallStates
    BY <1>1, <1>3 DEF CallStates
  <2>. QED BY <1>1, <1>2, <2>1 DEF CreateTypeOK, CallStates
<1>5. /\ created' \in Seq(Keys) /\ Len(created) + 1 \in DOMAIN created' /\ created'[Len(created) + 1] = k
      /\ \A i \in DOMAIN created : i \in DOMAIN created' /\ created'[i] = created[i]
      /\ \A i \in DOMAIN created' : i \in DOMAIN created \/ i = Len(created) + 1
      /\ \A document, key : MadeIn(created, document, key) => MadeIn(created', document, key)
  BY <1>1, CreatedGrows
<1>6. CreateTypeOK'
  BY <1>1, <1>4, <1>5 DEF CreateTypeOK
<1>7. DocumentsMatch'
  <2>1. MadeIn(created', Len(created) + 1, k)
    BY <1>5 DEF MadeIn
  <2>2. \A d \in DOMAIN calls' : calls'[d].at = "executed" => MadeIn(created', calls'[d].made, calls'[d].key)
    BY <1>1, <1>4, <1>5, <2>1 DEF CreateIInv, DocumentsMatch
  <2>. QED BY <1>1, <1>5, <2>2 DEF CreateIInv, DocumentsMatch
<1>8. ASSUME NEW x \in Keys \ excused' PROVE Single(x)'
  <2>1. Single(x)
    BY <1>1, <1>8 DEF CreateIInv
  <2>2. x = k => \A i \in DOMAIN created : created[i] # x
    BY <1>1, <2>1 DEF Single
  <2>3. \A i, j \in DOMAIN created' : created'[i] = x /\ created'[j] = x => i = j
    BY <1>5, <2>1, <2>2 DEF Single
  <2>4. /\ \A a, b \in DOMAIN calls' : calls'[a].key = x /\ calls'[b].key = x => a = b
        /\ \A a \in DOMAIN calls', i \in DOMAIN cache' : ~(calls'[a].key = x /\ cache'[i].key = x)
    BY <1>1, <1>4, <2>1 DEF Single
  <2>5. ASSUME NEW i \in DOMAIN created', created'[i] = x
        PROVE  \/ \E j \in DOMAIN cache' : cache'[j].key = x
               \/ \E a \in DOMAIN calls' : calls'[a].key = x /\ calls'[a].at = "executed"
    <3>1. CASE x = k
      BY <3>1, <1>1, <1>4
    <3>2. CASE x # k
      <4>1. i \in DOMAIN created /\ created[i] = x
        BY <1>5, <2>5, <3>2
      <4>. QED BY <1>1, <1>4, <2>1, <4>1, <3>2 DEF Single
    <3>. QED BY <3>1, <3>2
  <2>. QED BY <2>3, <2>4, <2>5 DEF Single
<1>. QED BY <1>6, <1>7, <1>8 DEF CreateIInv

\* The document is recorded and given to the caller; a request that loses its entry by this is excused.
LEMMA AnswerInv == ASSUME CreateIInv, NEW c, Answer(c) PROVE CreateIInv'
PROOF
<1>. DEFINE k == calls[c].key
            document == calls[c].made
<1>1. /\ c \in DOMAIN calls /\ calls[c].at = "executed" /\ k \in Keys /\ document \in Nat /\ CreateTypeOK
      /\ EndCall(c) /\ created' = created /\ answered' = [answered EXCEPT ![k] = @ \cup {document}]
      /\ cache' = RegistrySet(k, document) /\ MadeIn(created, document, k)
      /\ excused' = excused \cup {x \in Keys \ {k} : Cached(x) /\ ~Cached(x)'}
  BY DEF Answer, At, Give, Key, CreateIInv, CreateTypeOK, CallStates, DocumentsMatch
<1>2. /\ calls' \in [DOMAIN calls' -> CallStates] /\ DOMAIN calls' = DOMAIN calls \ {c}
      /\ \A d \in DOMAIN calls' : calls'[d] = calls[d]
  BY <1>1, EndCallMoves
<1>3. /\ cache' \in Seq(Entries)
      /\ \E i \in DOMAIN cache' : cache'[i] = [key |-> k, result |-> document]
      /\ \A i \in DOMAIN cache' : cache'[i] = [key |-> k, result |-> document] \/ \E j \in DOMAIN cache : cache'[i] = cache[j]
  <2>1. cache \in Seq(Entries) /\ k \in Keys /\ document \in Nat /\ cache' = RegistrySet(k, document)
    BY <1>1 DEF CreateTypeOK
  <2>. HIDE DEF k, document
  <2>. QED BY <2>1, RegistrySetKeeps
<1>4. CreateTypeOK'
  BY <1>1, <1>2, <1>3 DEF CreateTypeOK
<1>5. DocumentsMatch'
  <2>1. \A i \in DOMAIN cache' : MadeIn(created, cache'[i].result, cache'[i].key)
    BY <1>1, <1>3 DEF CreateIInv, DocumentsMatch
  <2>2. \A x \in Keys : \A y \in answered'[x] : MadeIn(created, y, x)
    BY <1>1 DEF CreateIInv, DocumentsMatch, CreateTypeOK
  <2>. QED BY <1>1, <1>2, <2>1, <2>2 DEF CreateIInv, DocumentsMatch, MadeIn
<1>6. ASSUME NEW x \in Keys \ excused' PROVE Single(x)'
  <2>1. Single(x)
    BY <1>1, <1>6 DEF CreateIInv
  <2>2. \A d \in DOMAIN calls' : calls'[d].key = x => x # k
    BY <1>1, <1>2, <2>1 DEF Single
  <2>3. \A a, b \in DOMAIN calls' : calls'[a].key = x /\ calls'[b].key = x => a = b
    BY <1>2, <2>1 DEF Single
  <2>4. \A a \in DOMAIN calls', i \in DOMAIN cache' : ~(calls'[a].key = x /\ cache'[i].key = x)
    BY <1>2, <1>3, <2>1, <2>2 DEF Single
  <2>5. ASSUME NEW i \in DOMAIN created', created'[i] = x
        PROVE  \/ \E j \in DOMAIN cache' : cache'[j].key = x
               \/ \E a \in DOMAIN calls' : calls'[a].key = x /\ calls'[a].at = "executed"
    <3>1. CASE x = k
      BY <3>1, <1>3
    <3>2. CASE x # k /\ Cached(x)
      BY <3>2, <1>1, <1>6 DEF Cached, CacheKey
    <3>3. CASE x # k /\ ~Cached(x)
      <4>1. PICK a \in DOMAIN calls : calls[a].key = x /\ calls[a].at = "executed"
        BY <3>3, <1>1, <2>1, <2>5 DEF Single, Cached, CacheKey
      <4>. QED BY <3>3, <4>1, <1>2
    <3>. QED BY <3>1, <3>2, <3>3
  <2>. QED BY <1>1, <2>1, <2>3, <2>4, <2>5 DEF Single
<1>. QED BY <1>4, <1>5, <1>6 DEF CreateIInv

\* However often a request is repeated, retried after an unready engine, or refused, it makes one document, with
\* which each of its calls is answered; any numbers of callers, requests, slots, retries and kept entries.
THEOREM OneDocument == CreateSpec => []OneDocumentPerRequest
PROOF
<1>1. CreateInit => CreateIInv
  <2>. SUFFICES ASSUME CreateInit PROVE CreateIInv
    OBVIOUS
  <2>. USE DEF CreateInit
  <2>1. <<>> \in Seq(Entries) /\ <<>> \in Seq(Keys) /\ <<>> \in [{} -> CallStates] /\ DOMAIN <<>> = {}
    OBVIOUS
  <2>2. CreateTypeOK
    BY <2>1 DEF CreateTypeOK
  <2>3. DocumentsMatch /\ \A k \in Keys : Single(k)
    BY <2>1 DEF DocumentsMatch, Single
  <2>. QED BY <2>2, <2>3 DEF CreateIInv
<1>2. ASSUME CreateIInv, CreateNext PROVE CreateIInv'
  BY <1>2, GateInv, AnswerLostInv, CreateInv, EngineCreatesInv, AnswerInv DEF CreateNext
<1>3. CreateIInv /\ UNCHANGED createVars => CreateIInv'
  BY DEF CreateIInv, CreateTypeOK, DocumentsMatch, MadeIn, Single, createVars
<1>4. CreateIInv => OneDocumentPerRequest
  BY DEF CreateIInv, DocumentsMatch, MadeIn, Single, OneDocumentPerRequest
<1>. QED BY <1>1, <1>2, <1>3, <1>4, PTL DEF CreateSpec

----------------------------------------------------------------------------
(* The tools that are offered                                              *)

ModuleRecords == [disabled : BOOLEAN, quarantined : BOOLEAN]
Handles == [enabled : BOOLEAN, gate : SUBSET Groups]

Servers == {"stdio"} \cup Posts

ToolTypeOK ==
  /\ transport \in {"stdio", "http"}
  /\ savedGroups \subseteq Groups /\ storeGroups \subseteq Groups /\ currentEnabled \subseteq Groups /\ live \subseteq Groups
  /\ modules \in [DOMAIN modules -> ModuleRecords] /\ DOMAIN modules \subseteq Modules
  /\ savedModules \in [DOMAIN savedModules -> ModuleRecords] /\ DOMAIN savedModules \subseteq Modules
  /\ DOMAIN registered \subseteq Tools /\ DOMAIN served \subseteq Servers
  /\ \A s \in DOMAIN served : \A t \in DOMAIN served[s] : t \in DOMAIN registered /\ served[s][t] \in Handles

\* The gate is the store's settings, and main()'s copy of them, from which the next difference is taken.
OneGate ==
  started =>
    /\ live = storeGroups /\ currentEnabled = storeGroups
    /\ ~groupsBehind => savedGroups = storeGroups
    /\ ~modulesBehind => savedModules = modules

\* The router has modules that are loaded.
RoutedAreLoaded == router \subseteq LoadedModules(modules)

\* A handle is good for a gate: a module's tool closed over a gate without the groups or has them now, too, and
\* a static tool is allowed.
GoodFor(handle, t, enabled) ==
  handle.enabled =>
    IF t \in Modules THEN ModuleToolAllowed(handle.gate) => ModuleToolAllowed(enabled)
    ELSE t \in RegisteredToolNames(enabled)

\* The handles the map holds are good for the gate of now, and those of modules' tools are all held.
HandlesFollow ==
  \A s \in DOMAIN served : \A t \in DOMAIN served[s] :
    /\ t \in Modules => registered[t] = s
    /\ registered[t] = s => GoodFor(served[s][t], t, live)

\* The live server is alone, and of the static tools that are allowed it may miss module.list only.
LiveComplete ==
  started /\ transport = "stdio" =>
    /\ DOMAIN served = {"stdio"} /\ DOMAIN served["stdio"] = DOMAIN registered
    /\ \A t \in DOMAIN registered : registered[t] = "stdio"
    /\ \A t \in RegisteredToolNames(live) \ {"module.list"} : t \in DOMAIN registered /\ served["stdio"][t].enabled

\* Without the process there is no server.
DownIsEmpty == ~started => DOMAIN served = {}

ToolIInv == ToolTypeOK /\ OneGate /\ RoutedAreLoaded /\ HandlesFollow /\ LiveComplete /\ DownIsEmpty

\* What the router is made of.
LEMMA RouterOf ==
  ASSUME NEW records, SyncModuleRouter(records)
  PROVE  router' \subseteq LoadedModules(records)
BY DEF SyncModuleRouter

\* The tools of a gate and their groups.
LEMMA NamesAllowed ==
  ASSUME NEW enabled \in SUBSET Groups, NEW routed \in SUBSET Modules
  PROVE  /\ RegisteredToolNames(enabled) \subseteq StaticTools /\ AllowedToolNames(enabled, routed) \subseteq Tools
         /\ AllowedToolNames(enabled, routed) \ Modules = RegisteredToolNames(enabled)
         /\ StaticTools \cap Modules = {}
BY ModulesAssumption DEF RegisteredToolNames, AllowedToolNames, StaticTools, Tools

\* The handles of a server before and after it gets tools.
LEMMA WithToolsIs ==
  ASSUME NEW handles, NEW names, NEW enabled
  PROVE  /\ DOMAIN WithTools(handles, names, enabled) = DOMAIN handles \cup names
         /\ \A t \in names :
              WithTools(handles, names, enabled)[t] = [enabled |-> TRUE, gate |-> IF t \in Modules THEN enabled ELSE {}]
         /\ \A t \in DOMAIN handles \ names : WithTools(handles, names, enabled)[t] = handles[t]
BY DEF WithTools

\* A handle that is made is good for the gate it is made with.
LEMMA NewIsGood ==
  ASSUME NEW enabled \in SUBSET Groups, NEW routed \in SUBSET Modules, NEW t \in AllowedToolNames(enabled, routed),
         NEW handle, handle = [enabled |-> TRUE, gate |-> IF t \in Modules THEN enabled ELSE {}]
  PROVE  handle \in Handles /\ GoodFor(handle, t, enabled)
<1>1. (IF t \in Modules THEN enabled ELSE {}) \in SUBSET Groups
  OBVIOUS
<1>2. handle \in Handles
  BY <1>1 DEF Handles
<1>3. t \in Modules => handle.gate = enabled
  OBVIOUS
<1>4. t \notin Modules => t \in RegisteredToolNames(enabled)
  BY NamesAllowed
<1>. QED BY <1>2, <1>3, <1>4 DEF GoodFor

\* A handle that is switched is good for the new gate, and on if the gate allows its tool.
LEMMA SwitchedIsGood ==
  ASSUME NEW handle \in Handles, NEW t \in Tools, NEW enabled,
         NEW switched, switched = [handle EXCEPT !.enabled = ToolAllowed(t, enabled) /\ (t # "list_targets" => "code" \in enabled)]
  PROVE  /\ switched \in Handles /\ GoodFor(switched, t, enabled)
         /\ t \in RegisteredToolNames(enabled) \ {"module.list"} => switched.enabled
<1>1. (ToolAllowed(t, enabled) /\ (t # "list_targets" => "code" \in enabled)) \in BOOLEAN
  BY DEF ToolAllowed
<1>2. switched \in Handles
  <2>1. \A b \in BOOLEAN : [handle EXCEPT !.enabled = b] \in Handles
    BY DEF Handles
  <2>. QED BY <1>1, <2>1
<1>3. switched.enabled <=> ToolAllowed(t, enabled) /\ (t # "list_targets" => "code" \in enabled)
  BY DEF Handles
<1>4. t \in Modules /\ switched.enabled => ModuleToolAllowed(enabled)
  BY <1>3, ModulesAssumption DEF ToolAllowed, GroupForTool, ModuleToolAllowed
<1>5. t \notin Modules /\ switched.enabled => t \in RegisteredToolNames(enabled)
  BY <1>3 DEF RegisteredToolNames, Tools, StaticTools
<1>6. t \in RegisteredToolNames(enabled) \ {"module.list"} => switched.enabled
  BY <1>3 DEF RegisteredToolNames, StaticTools
<1>. QED BY <1>2, <1>4, <1>5, <1>6 DEF GoodFor

\* A patch of the gate switches the handles and adds what is missing.
LEMMA PatchFollows ==
  ASSUME ToolIInv, started, NEW add \in SUBSET Groups, NEW remove \in SUBSET Groups, ApplyGatePatch(add, remove),
         UNCHANGED <<transport, started, router>>
  PROVE  /\ DOMAIN registered' \subseteq Tools /\ DOMAIN served' \subseteq Servers
         /\ \A s \in DOMAIN served' : \A t \in DOMAIN served'[s] : t \in DOMAIN registered' /\ served'[s][t] \in Handles
         /\ HandlesFollow' /\ LiveComplete'
PROOF
<1>. DEFINE enabled == (live \cup add) \ remove
            missing == IF transport = "stdio" THEN AllowedToolNames(enabled, router) \ DOMAIN registered ELSE {}
<1>1. /\ live' = enabled /\ enabled \in SUBSET Groups /\ registered' = Holding(missing, "stdio")
      /\ served' = [s \in DOMAIN served |-> WithTools(Regated(s, enabled), missing, enabled)]
  BY DEF ApplyGatePatch, ToolIInv, ToolTypeOK
<1>2. router \in SUBSET Modules
  BY DEF ToolIInv, ToolTypeOK, RoutedAreLoaded, LoadedModules
<1>3. /\ missing \subseteq AllowedToolNames(enabled, router) /\ missing \subseteq Tools /\ missing \cap DOMAIN registered = {}
      /\ transport = "stdio" => missing = AllowedToolNames(enabled, router) \ DOMAIN registered
      /\ transport # "stdio" => missing = {}
  BY <1>1, <1>2, NamesAllowed
<1>. HIDE DEF enabled, missing
<1>4. /\ DOMAIN registered' = DOMAIN registered \cup missing
      /\ \A t \in DOMAIN registered : registered'[t] = registered[t]
      /\ \A t \in missing : registered'[t] = "stdio"
  BY <1>1, <1>3 DEF Holding
<1>5. ASSUME NEW s \in DOMAIN served
      PROVE  /\ DOMAIN served'[s] = DOMAIN served[s] \cup missing
             /\ \A t \in missing : served'[s][t] = [enabled |-> TRUE, gate |-> IF t \in Modules THEN enabled ELSE {}]
             /\ \A t \in DOMAIN served[s] :
                  served'[s][t] = IF registered[t] # s THEN served[s][t]
                                  ELSE [served[s][t] EXCEPT !.enabled = ToolAllowed(t, enabled)
                                                                        /\ (t # "list_targets" => "code" \in enabled)]
  <2>. DEFINE old == Regated(s, enabled)
  <2>1. /\ DOMAIN old = DOMAIN served[s]
        /\ \A t \in DOMAIN served[s] :
             old[t] = IF registered[t] # s THEN served[s][t]
                      ELSE [served[s][t] EXCEPT !.enabled = ToolAllowed(t, enabled) /\ (t # "list_targets" => "code" \in enabled)]
    BY DEF Regated
  <2>2. served'[s] = WithTools(old, missing, enabled)
    BY <1>1
  <2>3. DOMAIN served[s] \cap missing = {}
    BY <1>3 DEF ToolIInv, ToolTypeOK
  <2>. HIDE DEF old
  <2>4. /\ DOMAIN served'[s] = DOMAIN old \cup missing
        /\ \A t \in missing : served'[s][t] = [enabled |-> TRUE, gate |-> IF t \in Modules THEN enabled ELSE {}]
        /\ \A t \in DOMAIN old \ missing : served'[s][t] = old[t]
    BY <2>2 DEF WithTools
  <2>5. \A t \in DOMAIN served[s] : served'[s][t] = old[t]
    BY <2>1, <2>3, <2>4
  <2>. QED BY <2>1, <2>4, <2>5
<1>5a. ASSUME NEW s \in DOMAIN served, NEW t \in missing
       PROVE  /\ served'[s][t] = [enabled |-> TRUE, gate |-> IF t \in Modules THEN enabled ELSE {}]
              /\ served'[s][t].enabled
  <2>1. \A x \in missing : served'[s][x] = [enabled |-> TRUE, gate |-> IF x \in Modules THEN enabled ELSE {}]
    BY <1>5
  <2>2. served'[s][t] = [enabled |-> TRUE, gate |-> IF t \in Modules THEN enabled ELSE {}]
    BY <2>1
  <2>. QED BY <2>2
<1>6. DOMAIN served' = DOMAIN served
  BY <1>1
<1>7. ASSUME NEW s \in DOMAIN served', NEW t \in DOMAIN served'[s]
      PROVE  /\ t \in DOMAIN registered' /\ served'[s][t] \in Handles
             /\ t \in Modules => registered'[t] = s
             /\ registered'[t] = s => GoodFor(served'[s][t], t, live')
  <2>1. CASE t \in missing
    <3>1. transport = "stdio" /\ s = "stdio"
      <4>1. transport = "stdio"
        BY <1>3, <2>1
      <4>2. started /\ LiveComplete
        BY DEF ToolIInv
      <4>3. DOMAIN served = {"stdio"}
        BY <4>1, <4>2 DEF LiveComplete
      <4>. QED BY <1>6, <4>1, <4>3
    <3>2. served'[s][t] = [enabled |-> TRUE, gate |-> IF t \in Modules THEN enabled ELSE {}]
      BY <1>5a, <1>6, <2>1
    <3>3. served'[s][t] \in Handles /\ GoodFor(served'[s][t], t, enabled)
      BY <1>1, <1>2, <1>3, <2>1, <3>2, NewIsGood
    <3>. QED BY <1>1, <1>4, <2>1, <3>1, <3>3
  <2>2. CASE t \notin missing
    <3>1. /\ t \in DOMAIN served[s] /\ t \in DOMAIN registered /\ t \in Tools /\ registered'[t] = registered[t]
          /\ served[s][t] \in Handles /\ (t \in Modules => registered[t] = s)
      BY <1>4, <1>5, <1>6, <2>2 DEF ToolIInv, ToolTypeOK, HandlesFollow
    <3>2. CASE registered[t] = s
      <4>1. served'[s][t] = [served[s][t] EXCEPT !.enabled = ToolAllowed(t, enabled) /\ (t # "list_targets" => "code" \in enabled)]
        BY <1>5, <1>6, <3>1, <3>2
      <4>2. served'[s][t] \in Handles /\ GoodFor(served'[s][t], t, enabled)
        BY <3>1, <4>1, SwitchedIsGood
      <4>. QED BY <1>1, <1>4, <3>1, <4>2
    <3>3. CASE registered[t] # s
      BY <1>4, <1>5, <1>6, <3>1, <3>3
    <3>. QED BY <3>2, <3>3
  <2>. QED BY <2>1, <2>2
<1>8. LiveComplete'
  <2>. SUFFICES ASSUME transport = "stdio"
       PROVE  /\ DOMAIN served' = {"stdio"} /\ DOMAIN served'["stdio"] = DOMAIN registered'
              /\ \A t \in DOMAIN registered' : registered'[t] = "stdio"
              /\ \A t \in RegisteredToolNames(enabled) \ {"module.list"} : t \in DOMAIN registered' /\ served'["stdio"][t].enabled
    BY <1>1 DEF LiveComplete
  <2>1. /\ DOMAIN served = {"stdio"} /\ DOMAIN served["stdio"] = DOMAIN registered
        /\ \A t \in DOMAIN registered : registered[t] = "stdio" /\ served["stdio"][t] \in Handles /\ t \in Tools
    <3>1. started /\ transport = "stdio" /\ LiveComplete /\ ToolTypeOK
      BY DEF ToolIInv
    <3>2. /\ DOMAIN served = {"stdio"} /\ DOMAIN served["stdio"] = DOMAIN registered
          /\ \A t \in DOMAIN registered : registered[t] = "stdio"
      BY <3>1 DEF LiveComplete
    <3>. QED BY <3>1, <3>2 DEF ToolTypeOK
  <2>2. ASSUME NEW t \in RegisteredToolNames(enabled) \ {"module.list"}
        PROVE  t \in DOMAIN registered' /\ served'["stdio"][t].enabled
    <3>1. CASE t \in DOMAIN registered
      <4>1. served'["stdio"][t] = [served["stdio"][t] EXCEPT !.enabled = ToolAllowed(t, enabled) /\ (t # "list_targets" => "code" \in enabled)]
        BY <1>5, <2>1, <3>1
      <4>2. served["stdio"][t] \in Handles /\ t \in Tools
        BY <2>1, <3>1
      <4>3. served'["stdio"][t].enabled
        BY <2>2, <4>1, <4>2, SwitchedIsGood
      <4>. QED BY <1>4, <3>1, <4>3
    <3>2. CASE t \notin DOMAIN registered
      <4>1. t \in missing
        BY <1>3, <2>2, <3>2 DEF AllowedToolNames
      <4>. QED BY <1>4, <1>5a, <2>1, <4>1
    <3>. QED BY <3>1, <3>2
  <2>3. DOMAIN served' = {"stdio"} /\ "stdio" \in DOMAIN served
    BY <1>6, <2>1
  <2>4. DOMAIN served'["stdio"] = DOMAIN served["stdio"] \cup missing
    BY <1>5, <2>3
  <2>5. \A t \in DOMAIN registered' : registered'[t] = "stdio"
    BY <1>4, <2>1
  <2>. QED BY <1>4, <2>1, <2>2, <2>3, <2>4, <2>5
<1>9. HandlesFollow'
  BY <1>7 DEF HandlesFollow
<1>. QED BY <1>3, <1>4, <1>6, <1>7, <1>8, <1>9 DEF ToolIInv, ToolTypeOK

LEMMA SecuritySetInv ==
  ASSUME ToolIInv, NEW add \in SUBSET Groups, NEW remove \in SUBSET Groups, SecuritySet(add, remove)
  PROVE  ToolIInv'
PROOF
<1>1. /\ started /\ storeGroups' = (storeGroups \cup add) \ remove /\ currentEnabled' = storeGroups'
      /\ ApplyGatePatch(storeGroups' \ currentEnabled, currentEnabled \ storeGroups')
      /\ (savedGroups' = storeGroups' /\ groupsBehind' = FALSE) \/ (groupsBehind' = TRUE /\ UNCHANGED savedGroups)
      /\ UNCHANGED <<transport, started, savedModules, modules, router, modulesBehind>>
  BY DEF SecuritySet, StoreSet, packages
<1>2. /\ live = storeGroups /\ currentEnabled = storeGroups /\ storeGroups' \in SUBSET Groups
      /\ (storeGroups' \ currentEnabled) \in SUBSET Groups /\ (currentEnabled \ storeGroups') \in SUBSET Groups
  BY <1>1 DEF ToolIInv, ToolTypeOK, OneGate
<1>3. live' = storeGroups'
  BY <1>1, <1>2 DEF ApplyGatePatch
<1>4. /\ DOMAIN registered' \subseteq Tools /\ DOMAIN served' \subseteq Servers
      /\ \A s \in DOMAIN served' : \A t \in DOMAIN served'[s] : t \in DOMAIN registered' /\ served'[s][t] \in Handles
      /\ HandlesFollow' /\ LiveComplete'
  BY <1>1, <1>2, PatchFollows
<1>5. ToolTypeOK'
  BY <1>1, <1>2, <1>3, <1>4 DEF ToolIInv, ToolTypeOK
<1>6. OneGate' /\ RoutedAreLoaded' /\ DownIsEmpty'
  BY <1>1, <1>3 DEF OneGate, RoutedAreLoaded, LoadedModules, DownIsEmpty, ToolIInv
<1>. QED BY <1>4, <1>5, <1>6 DEF ToolIInv

\* What an install and the operator's switch have in common.
LEMMA ModulesChange ==
  ASSUME ToolIInv, started, NEW records, records \in [DOMAIN records -> ModuleRecords], DOMAIN records \subseteq Modules,
         PersistModules(records), SyncModuleRouter(records),
         UNCHANGED <<transport, started, gates, servers>>
  PROVE  ToolIInv'
PROOF
<1>1. /\ modules' = records /\ router' \subseteq LoadedModules(records)
      /\ (savedModules' = records /\ modulesBehind' = FALSE) \/ (modulesBehind' = TRUE /\ UNCHANGED savedModules)
      /\ UNCHANGED <<savedGroups, storeGroups, currentEnabled, live, groupsBehind, served, registered>>
  BY RouterOf DEF PersistModules, gates, servers
<1>2. ToolTypeOK'
  BY <1>1 DEF ToolIInv, ToolTypeOK
<1>3. OneGate'
  BY <1>1 DEF ToolIInv, OneGate
<1>4. RoutedAreLoaded'
  BY <1>1 DEF RoutedAreLoaded, LoadedModules
<1>5. HandlesFollow' /\ LiveComplete' /\ DownIsEmpty'
  BY <1>1 DEF ToolIInv, HandlesFollow, LiveComplete, DownIsEmpty
<1>. QED BY <1>2, <1>3, <1>4, <1>5 DEF ToolIInv

LEMMA InstallInv == ASSUME ToolIInv, NEW m \in Modules, Install(m) PROVE ToolIInv'
PROOF
<1>1. [disabled |-> FALSE, quarantined |-> FALSE] \in ModuleRecords
  BY DEF ModuleRecords
<1>2. Put(m) \in [DOMAIN Put(m) -> ModuleRecords] /\ DOMAIN Put(m) \subseteq Modules
  BY <1>1 DEF Put, ToolIInv, ToolTypeOK
<1>. QED BY <1>2, ModulesChange DEF Install

LEMMA SetDisabledInv ==
  ASSUME ToolIInv, NEW m \in Modules, NEW disabled \in BOOLEAN, SetDisabled(m, disabled) PROVE ToolIInv'
PROOF
<1>. DEFINE records == [modules EXCEPT ![m].disabled = disabled]
<1>1. modules[m] \in ModuleRecords /\ DOMAIN records = DOMAIN modules /\ DOMAIN modules \subseteq Modules
  BY DEF SetDisabled, ToolIInv, ToolTypeOK
<1>2. [modules[m] EXCEPT !.disabled = disabled] \in ModuleRecords
  BY <1>1 DEF ModuleRecords
<1>3. records \in [DOMAIN records -> ModuleRecords]
  BY <1>2 DEF ToolIInv, ToolTypeOK
<1>4. PersistModules(records) /\ SyncModuleRouter(records) /\ started
      /\ UNCHANGED <<transport, started, gates, servers>>
  BY DEF SetDisabled
<1>. HIDE DEF records
<1>. QED BY <1>1, <1>3, <1>4, ModulesChange

LEMMA PostInv == ASSUME ToolIInv, NEW r \in Posts, Post(r) PROVE ToolIInv'
PROOF
<1>. DEFINE names == ToRegister(AllowedToolNames(live, router))
<1>1. /\ started /\ transport = "http" /\ r \notin DOMAIN served
      /\ served' = [s \in DOMAIN served \cup {r} |-> IF s = r THEN WithTools(<<>>, names, live) ELSE served[s]]
      /\ registered' = Holding(names, r)
      /\ UNCHANGED <<transport, started, savedGroups, storeGroups, currentEnabled, live, groupsBehind,
                      savedModules, modules, router, modulesBehind>>
  BY DEF Post, gates, packages
<1>2. /\ live \in SUBSET Groups /\ router \in SUBSET Modules
      /\ names \subseteq AllowedToolNames(live, router) /\ names \subseteq Tools
      /\ \A t \in names : t \in Modules => t \notin DOMAIN registered
  <2>1. live \in SUBSET Groups /\ router \in SUBSET Modules
    BY DEF ToolIInv, ToolTypeOK, RoutedAreLoaded, LoadedModules
  <2>. QED BY <2>1, NamesAllowed DEF ToRegister
<1>. HIDE DEF names
<1>3. /\ DOMAIN registered' = DOMAIN registered \cup names
      /\ \A t \in DOMAIN registered' : registered'[t] = IF t \in names THEN r ELSE registered[t]
  BY <1>1 DEF Holding
<1>4. /\ DOMAIN served' = DOMAIN served \cup {r} /\ \A s \in DOMAIN served : served'[s] = served[s]
      /\ DOMAIN served'[r] = names
      /\ \A t \in names : served'[r][t] = [enabled |-> TRUE, gate |-> IF t \in Modules THEN live ELSE {}]
  <2>1. /\ DOMAIN served' = DOMAIN served \cup {r} /\ served'[r] = WithTools(<<>>, names, live)
        /\ \A s \in DOMAIN served : served'[s] = served[s]
    BY <1>1
  <2>2. DOMAIN <<>> = {}
    OBVIOUS
  <2>3. /\ DOMAIN served'[r] = DOMAIN <<>> \cup names
        /\ \A t \in names : served'[r][t] = [enabled |-> TRUE, gate |-> IF t \in Modules THEN live ELSE {}]
    BY <2>1 DEF WithTools
  <2>. QED BY <2>1, <2>2, <2>3
<1>5. ASSUME NEW s \in DOMAIN served', NEW t \in DOMAIN served'[s]
      PROVE  /\ t \in DOMAIN registered' /\ served'[s][t] \in Handles
             /\ t \in Modules => registered'[t] = s
             /\ registered'[t] = s => GoodFor(served'[s][t], t, live')
  <2>1. CASE s = r
    <3>1. t \in names /\ registered'[t] = r /\ live' = live
      BY <1>1, <1>3, <1>4, <2>1
    <3>2. served'[s][t] \in Handles /\ GoodFor(served'[s][t], t, live)
      BY <1>2, <1>4, <2>1, <3>1, NewIsGood
    <3>. QED BY <1>3, <2>1, <3>1, <3>2
  <2>2. CASE s # r
    <3>1. s \in DOMAIN served /\ served'[s] = served[s] /\ t \in DOMAIN served[s] /\ live' = live
      BY <1>1, <1>4, <2>2
    <3>2. /\ t \in DOMAIN registered /\ served[s][t] \in Handles /\ (t \in Modules => registered[t] = s)
          /\ registered[t] = s => GoodFor(served[s][t], t, live)
      BY <3>1 DEF ToolIInv, ToolTypeOK, HandlesFollow
    <3>. QED BY <1>2, <1>3, <2>2, <3>1, <3>2
  <2>. QED BY <2>1, <2>2
<1>6. ToolTypeOK'
  <2>1. DOMAIN registered' \subseteq Tools
    BY <1>2, <1>3 DEF ToolIInv, ToolTypeOK
  <2>2. DOMAIN served' \subseteq Servers
    BY <1>4 DEF ToolIInv, ToolTypeOK, Servers
  <2>3. \A s \in DOMAIN served' : \A t \in DOMAIN served'[s] : t \in DOMAIN registered' /\ served'[s][t] \in Handles
    BY <1>5
  <2>4. /\ live' \subseteq Groups /\ transport' \in {"stdio", "http"} /\ storeGroups' \subseteq Groups
        /\ savedGroups' \subseteq Groups /\ currentEnabled' \subseteq Groups
        /\ modules' \in [DOMAIN modules' -> ModuleRecords] /\ DOMAIN modules' \subseteq Modules
        /\ savedModules' \in [DOMAIN savedModules' -> ModuleRecords] /\ DOMAIN savedModules' \subseteq Modules
    BY <1>1 DEF ToolIInv, ToolTypeOK
  <2>. QED BY <2>1, <2>2, <2>3, <2>4 DEF ToolTypeOK
<1>7. HandlesFollow'
  BY <1>5 DEF HandlesFollow
<1>8. OneGate' /\ RoutedAreLoaded' /\ LiveComplete' /\ DownIsEmpty'
  BY <1>1 DEF ToolIInv, OneGate, RoutedAreLoaded, LoadedModules, LiveComplete, DownIsEmpty
<1>. QED BY <1>6, <1>7, <1>8 DEF ToolIInv

LEMMA PostClosesInv == ASSUME ToolIInv, NEW r \in Posts, PostCloses(r) PROVE ToolIInv'
PROOF
<1>1. /\ r \in DOMAIN served /\ DOMAIN served' = DOMAIN served \ {r} /\ DOMAIN registered' = DOMAIN registered
      /\ \A s \in DOMAIN served' : served'[s] = served[s]
      /\ \A t \in DOMAIN registered : registered'[t] = IF registered[t] = r THEN "closed" ELSE registered[t]
      /\ UNCHANGED <<transport, started, savedGroups, storeGroups, currentEnabled, live, groupsBehind,
                      savedModules, modules, router, modulesBehind>>
  BY DEF PostCloses, gates, packages
<1>2. "closed" \notin Servers /\ r # "stdio" /\ started
  BY <1>1, PostsAssumption DEF Servers, ToolIInv, DownIsEmpty
<1>3. ASSUME NEW s \in DOMAIN served', NEW t \in DOMAIN served'[s]
      PROVE  /\ t \in DOMAIN registered' /\ served'[s][t] \in Handles
             /\ t \in Modules => registered'[t] = s
             /\ registered'[t] = s => GoodFor(served'[s][t], t, live')
  <2>1. s \in DOMAIN served /\ s # r /\ s \in Servers /\ served'[s] = served[s] /\ t \in DOMAIN served[s] /\ live' = live
    BY <1>1 DEF ToolIInv, ToolTypeOK
  <2>2. /\ t \in DOMAIN registered /\ served[s][t] \in Handles /\ (t \in Modules => registered[t] = s)
        /\ registered[t] = s => GoodFor(served[s][t], t, live)
    BY <2>1 DEF ToolIInv, ToolTypeOK, HandlesFollow
  <2>. QED BY <1>1, <1>2, <2>1, <2>2
<1>4. ToolTypeOK'
  BY <1>1, <1>3 DEF ToolIInv, ToolTypeOK
<1>5. HandlesFollow'
  BY <1>3 DEF HandlesFollow
<1>6. OneGate' /\ RoutedAreLoaded' /\ LiveComplete' /\ DownIsEmpty'
  BY <1>1, <1>2 DEF ToolIInv, OneGate, RoutedAreLoaded, LoadedModules, LiveComplete, DownIsEmpty
<1>. QED BY <1>4, <1>5, <1>6 DEF ToolIInv

LEMMA ExitInv == ToolIInv /\ Exit => ToolIInv'
PROOF
<1>. SUFFICES ASSUME ToolIInv, Exit PROVE ToolIInv'
  OBVIOUS
<1>1. /\ started' = FALSE /\ storeGroups' = {} /\ currentEnabled' = {} /\ live' = {} /\ modules' = <<>> /\ router' = {}
      /\ served' = <<>> /\ registered' = <<>> /\ UNCHANGED <<transport, savedGroups>>
  BY DEF Exit
<1>2. savedModules' \in [DOMAIN savedModules' -> ModuleRecords] /\ DOMAIN savedModules' \subseteq Modules
  <2>1. CASE UNCHANGED savedModules
    BY <2>1 DEF ToolIInv, ToolTypeOK
  <2>2. ASSUME NEW m \in DOMAIN savedModules, savedModules' = [savedModules EXCEPT ![m].quarantined = TRUE]
        PROVE  savedModules' \in [DOMAIN savedModules' -> ModuleRecords] /\ DOMAIN savedModules' \subseteq Modules
    <3>1. [savedModules[m] EXCEPT !.quarantined = TRUE] \in ModuleRecords
      BY DEF ToolIInv, ToolTypeOK, ModuleRecords
    <3>. QED BY <2>2, <3>1 DEF ToolIInv, ToolTypeOK
  <2>. QED BY <2>1, <2>2 DEF Exit
<1>3. \A S : <<>> \in [{} -> S] /\ DOMAIN <<>> = {}
  OBVIOUS
<1>4. ToolTypeOK'
  BY <1>1, <1>2, <1>3 DEF ToolIInv, ToolTypeOK
<1>. QED BY <1>1, <1>3, <1>4 DEF ToolIInv, OneGate, RoutedAreLoaded, HandlesFollow, LiveComplete, DownIsEmpty

LEMMA BootServerInv == ToolIInv /\ BootServer => ToolIInv'
PROOF
<1>. SUFFICES ASSUME ToolIInv, BootServer PROVE ToolIInv'
  OBVIOUS
<1>. DEFINE names == IF transport = "http" THEN {} ELSE AllowedToolNames(savedGroups, router')
<1>1. /\ ~started /\ started' = TRUE /\ storeGroups' = savedGroups /\ currentEnabled' = savedGroups /\ live' = savedGroups
      /\ modules' = savedModules /\ SyncModuleRouter(savedModules)
      /\ served' = [s \in {"stdio"} \cap {transport} |-> WithTools(<<>>, names, savedGroups)]
      /\ registered' = [t \in names |-> "stdio"]
      /\ UNCHANGED <<transport, savedGroups, savedModules, groupsBehind, modulesBehind>>
  BY DEF BootServer
<1>2. /\ router' \subseteq LoadedModules(savedModules) /\ router' \in SUBSET Modules /\ savedGroups \in SUBSET Groups
      /\ transport \in {"stdio", "http"}
  BY <1>1, RouterOf DEF LoadedModules, ToolIInv, ToolTypeOK
<1>3. /\ names \subseteq AllowedToolNames(savedGroups, router') /\ names \subseteq Tools
      /\ transport = "stdio" => RegisteredToolNames(savedGroups) \subseteq names
  BY <1>2, NamesAllowed DEF AllowedToolNames
<1>. HIDE DEF names
<1>4. /\ DOMAIN registered' = names /\ \A t \in names : registered'[t] = "stdio"
      /\ DOMAIN served' = {"stdio"} \cap {transport}
      /\ \A s \in DOMAIN served' :
           /\ DOMAIN served'[s] = names
           /\ \A t \in names : served'[s][t] = [enabled |-> TRUE, gate |-> IF t \in Modules THEN savedGroups ELSE {}]
  <2>1. \A s \in DOMAIN served' : served'[s] = WithTools(<<>>, names, savedGroups)
    BY <1>1
  <2>. QED BY <1>1, <2>1, WithToolsIs
<1>5. ASSUME NEW s \in DOMAIN served', NEW t \in DOMAIN served'[s]
      PROVE  /\ s = "stdio" /\ t \in DOMAIN registered' /\ registered'[t] = s /\ served'[s][t] \in Handles
             /\ GoodFor(served'[s][t], t, live') /\ served'[s][t].enabled
  <2>1. s = "stdio" /\ t \in names
    BY <1>4
  <2>2. served'[s][t] = [enabled |-> TRUE, gate |-> IF t \in Modules THEN savedGroups ELSE {}]
    BY <1>4, <2>1
  <2>3. served'[s][t] \in Handles /\ GoodFor(served'[s][t], t, savedGroups)
    BY <1>2, <1>3, <2>1, <2>2, NewIsGood
  <2>. QED BY <1>1, <1>4, <2>1, <2>2, <2>3
<1>6. ToolTypeOK'
  <2>1. DOMAIN registered' \subseteq Tools /\ DOMAIN served' \subseteq Servers
    BY <1>3, <1>4 DEF Servers
  <2>. QED BY <1>1, <1>5, <2>1 DEF ToolIInv, ToolTypeOK
<1>7. HandlesFollow'
  BY <1>5 DEF HandlesFollow
<1>8. LiveComplete'
  BY <1>1, <1>3, <1>4, <1>5 DEF LiveComplete
<1>9. OneGate' /\ RoutedAreLoaded' /\ DownIsEmpty'
  BY <1>1, <1>2 DEF OneGate, RoutedAreLoaded, LoadedModules, DownIsEmpty
<1>. QED BY <1>6, <1>7, <1>8, <1>9 DEF ToolIInv

LEMMA ToolsInv == ToolSpec => []ToolIInv
PROOF
<1>1. ToolInit => ToolIInv
  <2>. SUFFICES ASSUME ToolInit PROVE ToolIInv
    OBVIOUS
  <2>1. \A S : <<>> \in [{} -> S] /\ DOMAIN <<>> = {}
    OBVIOUS
  <2>2. ToolTypeOK
    BY <2>1 DEF ToolInit, ToolTypeOK, DefaultGroups, Groups
  <2>. QED BY <2>1, <2>2 DEF ToolInit, ToolIInv, OneGate, RoutedAreLoaded, HandlesFollow, LiveComplete, DownIsEmpty
<1>2. ASSUME ToolIInv, ToolNext PROVE ToolIInv'
  BY <1>2, SecuritySetInv, InstallInv, SetDisabledInv, PostInv, PostClosesInv, ExitInv, BootServerInv DEF ToolNext
<1>3. ToolIInv /\ UNCHANGED toolVars => ToolIInv'
  BY DEF toolVars, ToolIInv, ToolTypeOK, OneGate, RoutedAreLoaded, LoadedModules, HandlesFollow, LiveComplete, DownIsEmpty
<1>. QED BY <1>1, <1>2, <1>3, PTL DEF ToolSpec

\* What any server serves needs no group that is off and no module that is not loaded, unless a later POST has
\* replaced the handle, which never happens to a module's tool; and of the static tools the live server misses
\* nothing but module.list: after any patches, installs, switches, POSTs and restarts with any modules.
THEOREM ServedToolsAreAllowed == ToolSpec => []ToolsFollowGate
PROOF
<1>1. ASSUME ToolIInv PROVE ToolsFollowGate
  <2>. SUFFICES ASSUME started PROVE
           /\ \A s \in DOMAIN served : \A t \in Tools : Callable(s, t) /\ (t \in Modules \/ registered[t] = s) =>
                /\ t \in AllowedToolNames(live, LoadedModules(modules))
                /\ t \in Modules => ModuleToolAllowed(live)
           /\ transport = "stdio" => \A t \in RegisteredToolNames(live) \ {"module.list"} : Callable("stdio", t)
    BY DEF ToolsFollowGate
  <2>1. live \in SUBSET Groups /\ router \in SUBSET Modules /\ router \subseteq LoadedModules(modules)
    BY <1>1 DEF ToolIInv, ToolTypeOK, RoutedAreLoaded, LoadedModules
  <2>2. ASSUME NEW s \in DOMAIN served, NEW t \in Tools, Callable(s, t), t \in Modules \/ registered[t] = s
        PROVE  t \in AllowedToolNames(live, LoadedModules(modules)) /\ (t \in Modules => ModuleToolAllowed(live))
    <3>1. registered[t] = s /\ GoodFor(served[s][t], t, live)
      BY <1>1, <2>2 DEF Callable, ToolIInv, HandlesFollow
    <3>2. CASE t \in Modules
      <4>1. ModuleToolAllowed(live) /\ t \in router
        BY <2>2, <3>1, <3>2 DEF Callable, GoodFor
      <4>2. ToolAllowed(t, live)
        BY <3>2, <4>1, ModulesAssumption DEF ModuleToolAllowed, ToolAllowed, GroupForTool
      <4>. QED BY <2>1, <4>1, <4>2 DEF AllowedToolNames
    <3>3. CASE t \notin Modules
      BY <2>2, <3>1, <3>3 DEF Callable, GoodFor, AllowedToolNames
    <3>. QED BY <3>2, <3>3
  <2>3. ASSUME NEW t \in RegisteredToolNames(live) \ {"module.list"}, transport = "stdio" PROVE Callable("stdio", t)
    <3>1. t \notin Modules
      BY <2>1, NamesAllowed
    <3>. QED BY <1>1, <2>3, <3>1 DEF Callable, ToolIInv, LiveComplete
  <2>. QED BY <2>2, <2>3
<1>. QED BY <1>1, ToolsInv, PTL

\* The settings in use are those a restart would read, unless the last write failed: each patch of the gate is the
\* difference to the settings before it.
THEOREM SettingsSurviveRestart == ToolSpec => []RestartKeepsSettings
PROOF
<1>1. ToolIInv => RestartKeepsSettings
  BY DEF ToolIInv, OneGate, RestartKeepsSettings
<1>. QED BY <1>1, ToolsInv, PTL

----------------------------------------------------------------------------
(* The calls to the page                                                   *)

Requests == [id : Nat, number : Nat]
Messages == [kind : {"reply"}, id : Nat, number : Nat] \cup [kind : {"ready"}, number : Nat]
PageStates == [number : Nat, listens : BOOLEAN, readied : BOOLEAN, loaded : BOOLEAN]

BackendTypeOK ==
  /\ ready \in BOOLEAN /\ firstLoadSeen \in BOOLEAN /\ window \in BOOLEAN /\ loadEvent \in BOOLEAN
  /\ wrong \in BOOLEAN /\ overtaken \in BOOLEAN
  /\ waiting \in Seq(Seq(Clients)) /\ Len(waiting) > 0
  /\ seq \in Nat /\ requests = seq
  /\ pending \in [DOMAIN pending -> Clients] /\ DOMAIN pending \subseteq 1..seq
  /\ asked \in [DOMAIN asked -> Nat] /\ DOMAIN asked \subseteq Clients
  /\ page \in PageStates
  /\ inbox \subseteq Requests /\ outbox \in Seq(Messages)

\* A request has the number of its id, on its way, in its answer, and with its caller.
NumbersMatch ==
  /\ \A r \in inbox : r.id = r.number
  /\ \A i \in DOMAIN outbox : outbox[i].kind = "reply" => outbox[i].id = outbox[i].number
  /\ \A n \in DOMAIN pending : pending[n] \in DOMAIN asked /\ asked[pending[n]] = n
  /\ ~wrong

\* Only the last promise is awaited, by each caller once; who awaits it has no request.
OnePromise ==
  /\ \A g \in DOMAIN waiting : g # gate => waiting[g] = <<>>
  /\ \A i \in DOMAIN waiting[gate] : waiting[gate][i] \in DOMAIN asked /\ asked[waiting[gate][i]] = 0
  /\ \A i, j \in DOMAIN waiting[gate] : waiting[gate][i] = waiting[gate][j] => i = j
  /\ ready => waiting[gate] = <<>>

NobodyStranded ==
  \A c \in DOMAIN asked :
    \/ asked[c] # 0 /\ \E n \in DOMAIN pending : pending[n] = c
    \/ asked[c] = 0 /\ ~ready /\ \E i \in DOMAIN waiting[gate] : waiting[gate][i] = c

\* The readiness of this page has arrived, if it is not on its way: the calls are served, and its load event is
\* not to come, but for the first page.
OwnReady(message) == message.kind = "ready" /\ message.number = page.number
ReadinessArrives ==
  /\ loadEvent => ~page.loaded
  /\ window /\ page.readied /\ ~overtaken /\ (\A i \in DOMAIN outbox : ~OwnReady(outbox[i])) =>
       ready /\ (firstLoadSeen => page.loaded)

BackendIInv == BackendTypeOK /\ NumbersMatch /\ OnePromise /\ NobodyStranded /\ ReadinessArrives

\* The gate is the last promise.
LEMMA GateType ==
  ASSUME BackendTypeOK
  PROVE  gate \in DOMAIN waiting /\ gate \in Nat /\ waiting[gate] \in Seq(Clients)
BY DEF BackendTypeOK, gate

\* Callers who send get the next ids, one after the other.
LEMMA SendAllGives ==
  ASSUME BackendTypeOK, NEW callers \in Seq(Clients),
         \A i, j \in DOMAIN callers : callers[i] = callers[j] => i = j,
         SendAll(callers)
  PROVE  /\ seq' \in Nat /\ requests' = seq' /\ seq' = seq + Len(callers)
         /\ inbox' \subseteq Requests /\ \A r \in inbox' : r \in inbox \/ r.id = r.number
         /\ DOMAIN pending' = DOMAIN pending \cup {seq + i : i \in DOMAIN callers}
         /\ DOMAIN pending' \subseteq 1..seq' /\ pending' \in [DOMAIN pending' -> Clients]
         /\ \A n \in DOMAIN pending : pending'[n] = pending[n]
         /\ \A i \in DOMAIN callers : pending'[seq + i] = callers[i]
         /\ DOMAIN asked' = DOMAIN asked \cup {callers[i] : i \in DOMAIN callers}
         /\ DOMAIN asked' \subseteq Clients /\ asked' \in [DOMAIN asked' -> Nat]
         /\ \A i \in DOMAIN callers : asked'[callers[i]] = seq + i
         /\ \A c \in DOMAIN asked : (\A i \in DOMAIN callers : callers[i] # c) => asked'[c] = asked[c]
PROOF
<1>. DEFINE sent == {[id |-> seq + i, number |-> seq + i] : i \in DOMAIN callers}
            ids == {seq + i : i \in DOMAIN callers}
            who == {callers[i] : i \in DOMAIN callers}
<1>1. seq \in Nat /\ requests = seq /\ Len(callers) \in Nat /\ DOMAIN callers = 1..Len(callers)
      /\ DOMAIN pending \subseteq 1..seq /\ \A i \in DOMAIN callers : i \in Nat /\ callers[i] \in Clients
  BY DEF BackendTypeOK
<1>2. /\ seq' = seq + Len(callers) /\ requests' = requests + Len(callers) /\ inbox' = inbox \cup sent
      /\ pending' = [n \in DOMAIN pending \cup {r.id : r \in sent} |->
                       IF \E i \in DOMAIN callers : seq + i = n
                         THEN callers[CHOOSE i \in DOMAIN callers : seq + i = n] ELSE pending[n]]
      /\ asked' = [c \in DOMAIN asked \cup who |->
                     IF \E i \in 1..Len(callers) : callers[i] = c
                       THEN seq + CHOOSE i \in DOMAIN callers : callers[i] = c ELSE asked[c]]
  BY <1>1 DEF SendAll, Id, ToSet, Contains
<1>3. {r.id : r \in sent} = ids
  <2>1. ASSUME NEW n PROVE n \in {r.id : r \in sent} <=> n \in ids
    <3>1. ASSUME NEW i \in DOMAIN callers, n = seq + i PROVE n \in {r.id : r \in sent}
      <4>1. [id |-> n, number |-> n] \in sent
        BY <3>1
      <4>2. PICK r : r = [id |-> n, number |-> n]
        OBVIOUS
      <4>3. r \in sent /\ r.id = n
        BY <4>1, <4>2
      <4>. HIDE DEF sent
      <4>. QED BY <4>3
    <3>2. ASSUME NEW r \in sent, n = r.id PROVE n \in ids
      BY <3>2
    <3>. QED BY <3>1, <3>2
  <2>. QED BY <2>1
<1>4. \A i \in DOMAIN callers : (CHOOSE j \in DOMAIN callers : seq + j = seq + i) = i
  BY <1>1
<1>5. ASSUME NEW i \in DOMAIN callers PROVE (CHOOSE j \in DOMAIN callers : callers[j] = callers[i]) = i
  <2>1. \E j \in DOMAIN callers : callers[j] = callers[i]
    OBVIOUS
  <2>2. PICK p : p = CHOOSE j \in DOMAIN callers : callers[j] = callers[i]
    OBVIOUS
  <2>3. p \in DOMAIN callers /\ callers[p] = callers[i]
    BY <2>1, <2>2, Zenon
  <2>. QED BY <2>2, <2>3
<1>6. inbox' \subseteq Requests /\ \A r \in inbox' : r \in inbox \/ r.id = r.number
  <2>1. \A r \in sent : r \in Requests /\ r.id = r.number
    BY <1>1 DEF Requests
  <2>. QED BY <1>2, <2>1 DEF BackendTypeOK
<1>7. DOMAIN pending' = DOMAIN pending \cup ids /\ \A i \in DOMAIN callers : pending'[seq + i] = callers[i]
  BY <1>2, <1>3, <1>4
<1>8. \A n \in DOMAIN pending : pending'[n] = pending[n]
  BY <1>1, <1>2
<1>9. DOMAIN pending' \subseteq 1..seq'
  BY <1>1, <1>2, <1>7
<1>10. \A n \in DOMAIN pending' : pending'[n] \in Clients
  <2>1. \A n \in DOMAIN pending : pending[n] \in Clients
    BY DEF BackendTypeOK
  <2>2. \A n \in ids : \E i \in DOMAIN callers : n = seq + i
    OBVIOUS
  <2>. QED BY <2>1, <2>2, <1>1, <1>7, <1>8
<1>11. DOMAIN asked' = DOMAIN asked \cup who /\ \A i \in DOMAIN callers : asked'[callers[i]] = seq + i
  BY <1>1, <1>2, <1>5
<1>12. \A c \in DOMAIN asked : (\A i \in DOMAIN callers : callers[i] # c) => asked'[c] = asked[c]
  BY <1>1, <1>2
<1>13. DOMAIN asked' \subseteq Clients /\ \A c \in DOMAIN asked' : asked'[c] \in Nat
  BY <1>1, <1>11, <1>12 DEF BackendTypeOK
<1>14. pending' = [n \in DOMAIN pending' |-> pending'[n]] /\ asked' = [c \in DOMAIN asked' |-> asked'[c]]
  BY <1>2
<1>15. pending' \in [DOMAIN pending' -> Clients] /\ asked' \in [DOMAIN asked' -> Nat]
  BY <1>10, <1>13, <1>14
<1>16. seq' \in Nat /\ requests' = seq' /\ seq' = seq + Len(callers)
  BY <1>1, <1>2
<1>. QED BY <1>6, <1>7, <1>8, <1>9, <1>11, <1>12, <1>13, <1>15, <1>16

\* The callers' part of the invariant survives any step that leaves it and the page's messages alone.
BackendHeld == BackendTypeOK /\ NumbersMatch /\ OnePromise /\ NobodyStranded

\* Somebody who has a request pending or awaits the promise is one of these.
LEMMA CallersAre ==
  ASSUME BackendHeld
  PROVE  DOMAIN asked \subseteq {pending[n] : n \in DOMAIN pending} \cup ToSet(waiting[gate])
PROOF
<1>1. ASSUME NEW c \in DOMAIN asked
      PROVE  c \in {pending[n] : n \in DOMAIN pending} \cup ToSet(waiting[gate])
  BY <1>1 DEF BackendHeld, NobodyStranded, ToSet
<1>. QED BY <1>1

\* handleReset() leaves no caller.
LEMMA HandleResetGives ==
  ASSUME BackendHeld, HandleReset
  PROVE  /\ asked' = <<>> /\ pending' = <<>> /\ ready' = FALSE
         /\ waiting' \in Seq(Seq(Clients)) /\ Len(waiting') > 0
         /\ gate' \in DOMAIN waiting' /\ \A g \in DOMAIN waiting' : waiting'[g] = <<>>
PROOF
<1>. DEFINE cleared == [waiting EXCEPT ![gate] = <<>>]
<1>1. gate \in DOMAIN waiting /\ gate \in Nat /\ waiting \in Seq(Seq(Clients)) /\ gate = Len(waiting)
  BY GateType DEF BackendHeld, BackendTypeOK, gate
<1>2. pending' = <<>> /\ ready' = FALSE /\ waiting' = Append(cleared, <<>>)
      /\ asked' = Without(asked, {pending[n] : n \in DOMAIN pending} \cup ToSet(waiting[gate]))
  BY DEF HandleReset
<1>3. asked' = <<>>
  <2>. DEFINE all == {pending[n] : n \in DOMAIN pending} \cup ToSet(waiting[gate])
  <2>1. DOMAIN asked \ all = {}
    BY CallersAre
  <2>. HIDE DEF all
  <2>2. asked' = [x \in DOMAIN asked \ all |-> asked[x]]
    BY <1>2 DEF Without, all
  <2>. QED BY <2>1, <2>2
<1>4. cleared \in Seq(Seq(Clients)) /\ Len(cleared) = gate /\ \A g \in 1..gate : cleared[g] = <<>>
  <2>1. <<>> \in Seq(Clients)
    OBVIOUS
  <2>2. cleared \in Seq(Seq(Clients)) /\ Len(cleared) = gate
    BY <1>1, <2>1
  <2>3. ASSUME NEW g \in 1..gate PROVE cleared[g] = <<>>
    BY <1>1, <2>3 DEF BackendHeld, OnePromise
  <2>. QED BY <2>2, <2>3
<1>. HIDE DEF cleared
<1>5. waiting' \in Seq(Seq(Clients)) /\ Len(waiting') = gate + 1
      /\ waiting'[gate + 1] = <<>> /\ \A g \in 1..gate : waiting'[g] = cleared[g]
  <2>1. <<>> \in Seq(Clients)
    OBVIOUS
  <2>. QED BY <1>1, <1>2, <1>4, <2>1
<1>6. ASSUME NEW g \in DOMAIN waiting' PROVE waiting'[g] = <<>>
  <2>1. g \in 1..gate \/ g = gate + 1
    BY <1>1, <1>5
  <2>. QED BY <2>1, <1>4, <1>5
<1>7. gate' \in DOMAIN waiting' /\ Len(waiting') > 0
  BY <1>1, <1>5 DEF gate
<1>. QED BY <1>2, <1>3, <1>5, <1>6, <1>7

\* After handleReset() nobody is left to be answered or stranded.
LEMMA HandleResetHolds ==
  ASSUME BackendHeld, HandleReset,
         firstLoadSeen' \in BOOLEAN, window' \in BOOLEAN, loadEvent' \in BOOLEAN, overtaken' \in BOOLEAN,
         page' \in PageStates, UNCHANGED <<seq, requests, wrong>>,
         \/ UNCHANGED <<inbox, outbox>>
         \/ inbox' = {} /\ outbox' = <<>>
  PROVE  BackendHeld'
PROOF
<1>1. /\ asked' = <<>> /\ pending' = <<>> /\ ready' = FALSE
      /\ waiting' \in Seq(Seq(Clients)) /\ Len(waiting') > 0
      /\ gate' \in DOMAIN waiting' /\ \A g \in DOMAIN waiting' : waiting'[g] = <<>>
  BY HandleResetGives
<1>2. DOMAIN asked' = {} /\ DOMAIN pending' = {} /\ asked' \in [{} -> Nat] /\ pending' \in [{} -> Clients]
  <2>1. \A S : <<>> \in [{} -> S] /\ DOMAIN <<>> = {}
    OBVIOUS
  <2>. QED BY <1>1, <2>1
<1>3. inbox' \subseteq Requests /\ outbox' \in Seq(Messages)
      /\ (\A r \in inbox' : r.id = r.number)
      /\ (\A i \in DOMAIN outbox' : outbox'[i].kind = "reply" => outbox'[i].id = outbox'[i].number)
  <2>1. <<>> \in Seq(Messages) /\ DOMAIN <<>> = {}
    OBVIOUS
  <2>. QED BY <2>1 DEF BackendHeld, BackendTypeOK, NumbersMatch
<1>4. BackendTypeOK'
  BY <1>1, <1>2, <1>3 DEF BackendHeld, BackendTypeOK
<1>5. NumbersMatch'
  BY <1>2, <1>3 DEF BackendHeld, NumbersMatch
<1>6. OnePromise'
  <2>1. waiting'[gate'] = <<>> /\ DOMAIN waiting'[gate'] = {}
    BY <1>1
  <2>. QED BY <1>1, <2>1 DEF OnePromise
<1>7. NobodyStranded'
  BY <1>2 DEF NobodyStranded
<1>. QED BY <1>4, <1>5, <1>6, <1>7 DEF BackendHeld

\* When all who wait and have no request send theirs, each caller has one pending.
LEMMA SendAllHolds ==
  ASSUME BackendHeld, NEW callers \in Seq(Clients),
         \A i, j \in DOMAIN callers : callers[i] = callers[j] => i = j,
         \A i \in DOMAIN callers : callers[i] \in DOMAIN asked => asked[callers[i]] = 0,
         \A i \in DOMAIN waiting[gate] : \E j \in DOMAIN callers : callers[j] = waiting[gate][i],
         SendAll(callers)
  PROVE  /\ seq' \in Nat /\ requests' = seq'
         /\ inbox' \subseteq Requests /\ \A r \in inbox' : r.id = r.number
         /\ pending' \in [DOMAIN pending' -> Clients] /\ DOMAIN pending' \subseteq 1..seq'
         /\ asked' \in [DOMAIN asked' -> Nat] /\ DOMAIN asked' \subseteq Clients
         /\ \A n \in DOMAIN pending' : pending'[n] \in DOMAIN asked' /\ asked'[pending'[n]] = n
         /\ \A c \in DOMAIN asked' : asked'[c] # 0 /\ \E n \in DOMAIN pending' : pending'[n] = c
PROOF
<1>1. /\ seq' \in Nat /\ requests' = seq' /\ seq' = seq + Len(callers)
      /\ inbox' \subseteq Requests /\ \A r \in inbox' : r \in inbox \/ r.id = r.number
  BY SendAllGives DEF BackendHeld
<1>2. /\ DOMAIN pending' = DOMAIN pending \cup {seq + i : i \in DOMAIN callers}
      /\ DOMAIN pending' \subseteq 1..seq' /\ pending' \in [DOMAIN pending' -> Clients]
      /\ (\A n \in DOMAIN pending : pending'[n] = pending[n])
      /\ \A i \in DOMAIN callers : pending'[seq + i] = callers[i]
  BY SendAllGives DEF BackendHeld
<1>3. /\ DOMAIN asked' = DOMAIN asked \cup {callers[i] : i \in DOMAIN callers}
      /\ DOMAIN asked' \subseteq Clients /\ asked' \in [DOMAIN asked' -> Nat]
      /\ (\A i \in DOMAIN callers : asked'[callers[i]] = seq + i)
      /\ \A c \in DOMAIN asked : (\A i \in DOMAIN callers : callers[i] # c) => asked'[c] = asked[c]
  BY SendAllGives DEF BackendHeld
<1>4. seq \in Nat /\ DOMAIN pending \subseteq 1..seq /\ \A i \in DOMAIN callers : i \in Nat /\ i > 0
  BY DEF BackendHeld, BackendTypeOK
<1>5. \A r \in inbox' : r.id = r.number
  BY <1>1 DEF BackendHeld, NumbersMatch
<1>6. ASSUME NEW n \in DOMAIN pending' PROVE pending'[n] \in DOMAIN asked' /\ asked'[pending'[n]] = n
  <2>1. CASE n \in DOMAIN pending
    <3>1. pending[n] \in DOMAIN asked /\ asked[pending[n]] = n /\ n # 0
      BY <2>1, <1>4 DEF BackendHeld, NumbersMatch
    <3>2. \A i \in DOMAIN callers : callers[i] # pending[n]
      BY <3>1
    <3>. QED BY <2>1, <3>1, <3>2, <1>2, <1>3
  <2>2. CASE \E i \in DOMAIN callers : n = seq + i
    BY <2>2, <1>2, <1>3
  <2>. QED BY <2>1, <2>2, <1>2
<1>7. ASSUME NEW c \in DOMAIN asked' PROVE asked'[c] # 0 /\ \E n \in DOMAIN pending' : pending'[n] = c
  <2>1. CASE \E i \in DOMAIN callers : callers[i] = c
    <3>1. PICK i \in DOMAIN callers : callers[i] = c
      BY <2>1
    <3>2. seq + i \in DOMAIN pending' /\ pending'[seq + i] = c /\ asked'[c] = seq + i
      BY <3>1, <1>2, <1>3
    <3>. QED BY <3>2, <1>4
  <2>2. CASE \A i \in DOMAIN callers : callers[i] # c
    <3>1. c \in DOMAIN asked /\ asked'[c] = asked[c]
      BY <2>2, <1>3
    <3>2. asked[c] # 0 /\ \E n \in DOMAIN pending : pending[n] = c
      BY <2>2, <3>1 DEF BackendHeld, NobodyStranded
    <3>. QED BY <3>1, <3>2, <1>2
  <2>. QED BY <2>1, <2>2
<1>. QED BY <1>1, <1>2, <1>3, <1>5, <1>6, <1>7

\* When the caller of a request is told, the others wait for what they waited for.
LEMMA ForgetHolds ==
  ASSUME BackendHeld, NEW n \in DOMAIN pending,
         pending' = Without(pending, {n}), asked' = Without(asked, {pending[n]}),
         UNCHANGED <<waiting, ready, seq>>
  PROVE  /\ pending' \in [DOMAIN pending' -> Clients] /\ DOMAIN pending' \subseteq 1..seq'
         /\ asked' \in [DOMAIN asked' -> Nat] /\ DOMAIN asked' \subseteq Clients
         /\ \A m \in DOMAIN pending' : pending'[m] \in DOMAIN asked' /\ asked'[pending'[m]] = m
         /\ OnePromise' /\ NobodyStranded'
PROOF
<1>. DEFINE c == pending[n]
<1>1. DOMAIN pending' = DOMAIN pending \ {n} /\ \A m \in DOMAIN pending' : pending'[m] = pending[m]
  BY DEF Without
<1>2. DOMAIN asked' = DOMAIN asked \ {c} /\ \A d \in DOMAIN asked' : asked'[d] = asked[d]
  BY DEF Without
<1>3. pending' = [m \in DOMAIN pending' |-> pending'[m]] /\ asked' = [d \in DOMAIN asked' |-> asked'[d]]
  BY DEF Without
<1>4. \A m \in DOMAIN pending : pending[m] \in DOMAIN asked /\ asked[pending[m]] = m /\ m # 0 /\ pending[m] \in Clients
  BY DEF BackendHeld, BackendTypeOK, NumbersMatch
<1>5. \A d \in DOMAIN asked : asked[d] \in Nat /\ d \in Clients
  BY DEF BackendHeld, BackendTypeOK
<1>6. pending' \in [DOMAIN pending' -> Clients] /\ DOMAIN pending' \subseteq 1..seq'
  BY <1>1, <1>3, <1>4 DEF BackendHeld, BackendTypeOK
<1>7. asked' \in [DOMAIN asked' -> Nat] /\ DOMAIN asked' \subseteq Clients
  BY <1>2, <1>3, <1>5
<1>8. \A m \in DOMAIN pending' : pending'[m] \in DOMAIN asked' /\ asked'[pending'[m]] = m
  BY <1>1, <1>2, <1>4
<1>9. OnePromise'
  <2>1. gate' = gate /\ waiting' = waiting /\ ready' = ready
    BY DEF gate
  <2>2. \A i \in DOMAIN waiting[gate] : waiting[gate][i] \in DOMAIN asked /\ asked[waiting[gate][i]] = 0
    BY DEF BackendHeld, OnePromise
  <2>3. c \in DOMAIN asked /\ asked[c] = n /\ n # 0
    BY <1>4
  <2>4. ASSUME NEW i \in DOMAIN waiting[gate]
        PROVE  waiting[gate][i] \in DOMAIN asked' /\ asked'[waiting[gate][i]] = 0
    BY <1>2, <2>2, <2>3
  <2>5. waiting'[gate'] = waiting[gate]
    BY <2>1
  <2>6. /\ \A g \in DOMAIN waiting' : g # gate' => waiting'[g] = <<>>
        /\ \A i, j \in DOMAIN waiting[gate] : waiting[gate][i] = waiting[gate][j] => i = j
        /\ ready' => waiting[gate] = <<>>
    BY <2>1 DEF BackendHeld, OnePromise
  <2>. QED BY <2>4, <2>5, <2>6 DEF OnePromise
<1>10. NobodyStranded'
  <2>1. gate' = gate /\ waiting' = waiting /\ ready' = ready
    BY DEF gate
  <2>2. ASSUME NEW d \in DOMAIN asked'
        PROVE  \/ asked'[d] # 0 /\ \E m \in DOMAIN pending' : pending'[m] = d
               \/ asked'[d] = 0 /\ ~ready /\ \E i \in DOMAIN waiting[gate] : waiting[gate][i] = d
    BY <1>1, <1>2 DEF BackendHeld, NobodyStranded
  <2>. QED BY <2>1, <2>2 DEF NobodyStranded
<1>. QED BY <1>6, <1>7, <1>8, <1>9, <1>10

\* The messages of the page, one taken and one added.
LEMMA TakeMessage ==
  ASSUME BackendHeld, outbox # <<>>, outbox' = Tail(outbox)
  PROVE  /\ Head(outbox) \in Messages /\ 1 \in DOMAIN outbox /\ Head(outbox) = outbox[1]
         /\ outbox' \in Seq(Messages)
         /\ \A i \in DOMAIN outbox' : i + 1 \in DOMAIN outbox /\ outbox'[i] = outbox[i + 1]
         /\ \A i \in DOMAIN outbox : i = 1 \/ \E j \in DOMAIN outbox' : outbox'[j] = outbox[i]
PROOF
<1>1. outbox \in Seq(Messages) /\ Len(outbox) \in Nat /\ Len(outbox) > 0
  BY DEF BackendHeld, BackendTypeOK
<1>2. outbox' \in Seq(Messages) /\ Len(outbox') = Len(outbox) - 1
      /\ \A i \in 1..Len(outbox) - 1 : outbox'[i] = outbox[i + 1]
  BY <1>1
<1>3. Head(outbox) \in Messages /\ 1 \in DOMAIN outbox /\ Head(outbox) = outbox[1]
  BY <1>1
<1>4. ASSUME NEW i \in DOMAIN outbox, i # 1 PROVE \E j \in DOMAIN outbox' : outbox'[j] = outbox[i]
  <2>1. i - 1 \in DOMAIN outbox' /\ i - 1 \in 1..Len(outbox) - 1 /\ (i - 1) + 1 = i
    BY <1>1, <1>2, <1>4
  <2>. QED BY <1>2, <2>1
<1>. QED BY <1>1, <1>2, <1>3, <1>4

LEMMA AddMessage ==
  ASSUME BackendHeld, NEW m \in Messages, outbox' = Append(outbox, m)
  PROVE  /\ outbox' \in Seq(Messages)
         /\ \A i \in DOMAIN outbox' : (i \in DOMAIN outbox /\ outbox'[i] = outbox[i]) \/ outbox'[i] = m
         /\ \A i \in DOMAIN outbox : i \in DOMAIN outbox' /\ outbox'[i] = outbox[i]
         /\ \E i \in DOMAIN outbox' : outbox'[i] = m
PROOF
<1>1. outbox \in Seq(Messages)
  BY DEF BackendHeld, BackendTypeOK
<1>2. outbox' \in Seq(Messages) /\ Len(outbox') = Len(outbox) + 1 /\ outbox'[Len(outbox) + 1] = m
      /\ \A i \in 1..Len(outbox) : outbox'[i] = outbox[i]
  BY <1>1
<1>. QED BY <1>1, <1>2

LEMMA InvokeInv == ASSUME BackendIInv, NEW c \in Clients, Invoke(c) PROVE BackendIInv'
PROOF
<1>1. BackendHeld
  BY DEF BackendIInv, BackendHeld
<1>2. UNCHANGED <<ready, firstLoadSeen, window, page, outbox, loadEvent, overtaken, wrong>> /\ c \notin DOMAIN asked
  BY DEF Invoke, arrival, Busy
<1>3. ReadinessArrives'
  BY <1>2 DEF BackendIInv, ReadinessArrives, OwnReady
<1>4. gate \in DOMAIN waiting /\ gate \in Nat /\ waiting[gate] \in Seq(Clients)
  BY GateType DEF BackendIInv
<1>5. CASE ready
  <2>1. UNCHANGED waiting /\ SendAll(<<c>>)
    BY <1>5 DEF Invoke
  <2>2. waiting[gate] = <<>> /\ DOMAIN waiting[gate] = {}
    BY <1>5 DEF BackendIInv, OnePromise
  <2>3. <<c>> \in Seq(Clients) /\ DOMAIN <<c>> = {1} /\ <<c>>[1] = c
    OBVIOUS
  <2>4. /\ seq' \in Nat /\ requests' = seq'
        /\ inbox' \subseteq Requests /\ (\A r \in inbox' : r.id = r.number)
        /\ pending' \in [DOMAIN pending' -> Clients] /\ DOMAIN pending' \subseteq 1..seq'
        /\ asked' \in [DOMAIN asked' -> Nat] /\ DOMAIN asked' \subseteq Clients
        /\ (\A n \in DOMAIN pending' : pending'[n] \in DOMAIN asked' /\ asked'[pending'[n]] = n)
        /\ \A d \in DOMAIN asked' : asked'[d] # 0 /\ \E n \in DOMAIN pending' : pending'[n] = d
    BY SendAllHolds, <1>1, <1>2, <2>1, <2>2, <2>3
  <2>5. BackendTypeOK'
    BY <1>2, <2>1, <2>4 DEF BackendIInv, BackendTypeOK
  <2>6. NumbersMatch' /\ NobodyStranded'
    BY <1>2, <2>4 DEF BackendIInv, NumbersMatch, NobodyStranded
  <2>7. OnePromise'
    <3>1. waiting'[gate'] = <<>> /\ DOMAIN waiting'[gate'] = {} /\ gate' = gate
      BY <2>1, <2>2 DEF gate
    <3>. QED BY <2>1, <3>1 DEF BackendIInv, OnePromise
  <2>. QED BY <1>3, <2>5, <2>6, <2>7 DEF BackendIInv
<1>6. CASE ~ready
  <2>1. /\ waiting' = [waiting EXCEPT ![gate] = Append(@, c)]
        /\ asked' = [d \in DOMAIN asked \cup {c} |-> IF d = c THEN 0 ELSE asked[d]]
        /\ UNCHANGED <<seq, pending, inbox, requests>>
    BY <1>6 DEF Invoke
  <2>2. waiting \in Seq(Seq(Clients)) /\ Append(waiting[gate], c) \in Seq(Clients)
    BY <1>4 DEF BackendIInv, BackendTypeOK
  <2>3. waiting' \in Seq(Seq(Clients)) /\ Len(waiting') = Len(waiting) /\ waiting'[gate] = Append(waiting[gate], c)
        /\ \A g \in DOMAIN waiting' : g # gate => waiting'[g] = waiting[g]
    BY <1>4, <2>1, <2>2
  <2>4. gate' = gate /\ DOMAIN waiting' = DOMAIN waiting
    BY <2>2, <2>3 DEF gate
  <2>5. DOMAIN asked' = DOMAIN asked \cup {c} /\ asked'[c] = 0 /\ \A d \in DOMAIN asked : asked'[d] = asked[d]
    BY <1>2, <2>1
  <2>6. asked' \in [DOMAIN asked' -> Nat] /\ DOMAIN asked' \subseteq Clients
    BY <2>1, <2>5 DEF BackendIInv, BackendTypeOK
  <2>7. BackendTypeOK'
    BY <1>2, <2>1, <2>3, <2>6 DEF BackendIInv, BackendTypeOK
  <2>8. NumbersMatch'
    BY <1>2, <2>1, <2>5 DEF BackendIInv, NumbersMatch
  <2>9. Append(waiting[gate], c) \in Seq(Clients)
        /\ DOMAIN Append(waiting[gate], c) = DOMAIN waiting[gate] \cup {Len(waiting[gate]) + 1}
        /\ Append(waiting[gate], c)[Len(waiting[gate]) + 1] = c /\ Len(waiting[gate]) + 1 \notin DOMAIN waiting[gate]
        /\ \A i \in DOMAIN waiting[gate] : Append(waiting[gate], c)[i] = waiting[gate][i]
    BY <1>4
  <2>10. waiting'[gate'] = Append(waiting[gate], c)
    BY <2>3, <2>4
  <2>11. OnePromise'
    <3>1. /\ \A i \in DOMAIN waiting[gate] : waiting[gate][i] \in DOMAIN asked /\ asked[waiting[gate][i]] = 0
                                              /\ waiting[gate][i] # c
      BY <1>2 DEF BackendIInv, OnePromise
    <3>2. \A i \in DOMAIN waiting'[gate'] : waiting'[gate'][i] \in DOMAIN asked' /\ asked'[waiting'[gate'][i]] = 0
      BY <3>1, <2>5, <2>9, <2>10
    <3>3. \A i, j \in DOMAIN waiting'[gate'] : waiting'[gate'][i] = waiting'[gate'][j] => i = j
      BY <3>1, <2>9, <2>10 DEF BackendIInv, OnePromise
    <3>4. \A g \in DOMAIN waiting' : g # gate' => waiting'[g] = <<>>
      BY <2>3, <2>4 DEF BackendIInv, OnePromise
    <3>. QED BY <1>2, <1>6, <3>2, <3>3, <3>4 DEF OnePromise
  <2>12. NobodyStranded'
    <3>1. ASSUME NEW d \in DOMAIN asked'
          PROVE  \/ asked'[d] # 0 /\ \E n \in DOMAIN pending' : pending'[n] = d
                 \/ asked'[d] = 0 /\ ~ready' /\ \E i \in DOMAIN waiting'[gate'] : waiting'[gate'][i] = d
      <4>1. CASE d = c
        BY <4>1, <1>2, <1>6, <2>5, <2>9, <2>10
      <4>2. CASE d # c
        <5>1. d \in DOMAIN asked /\ asked'[d] = asked[d]
          BY <4>2, <2>5
        <5>2. CASE asked[d] # 0 /\ \E n \in DOMAIN pending : pending[n] = d
          BY <5>1, <5>2, <2>1
        <5>3. CASE asked[d] = 0 /\ \E i \in DOMAIN waiting[gate] : waiting[gate][i] = d
          BY <5>1, <5>3, <1>2, <1>6, <2>9, <2>10
        <5>. QED BY <5>1, <5>2, <5>3 DEF BackendIInv, NobodyStranded
      <4>. QED BY <4>1, <4>2
    <3>. QED BY <3>1 DEF NobodyStranded
  <2>. QED BY <1>3, <2>7, <2>8, <2>11, <2>12 DEF BackendIInv
<1>. QED BY <1>5, <1>6

LEMMA InvokeTimeoutInv == ASSUME BackendIInv, NEW n \in DOMAIN pending, InvokeTimeout(n) PROVE BackendIInv'
PROOF
<1>1. BackendHeld /\ pending' = Without(pending, {n}) /\ asked' = Without(asked, {pending[n]})
      /\ UNCHANGED <<ready, firstLoadSeen, window, page, outbox, loadEvent, overtaken, waiting, seq, inbox, requests,
                     wrong>>
  BY DEF BackendIInv, BackendHeld, InvokeTimeout, arrival
<1>2. /\ pending' \in [DOMAIN pending' -> Clients] /\ DOMAIN pending' \subseteq 1..seq'
      /\ asked' \in [DOMAIN asked' -> Nat] /\ DOMAIN asked' \subseteq Clients
      /\ (\A m \in DOMAIN pending' : pending'[m] \in DOMAIN asked' /\ asked'[pending'[m]] = m)
      /\ OnePromise' /\ NobodyStranded'
  BY <1>1, ForgetHolds
<1>3. BackendTypeOK'
  BY <1>1, <1>2 DEF BackendIInv, BackendTypeOK
<1>4. NumbersMatch'
  BY <1>1, <1>2 DEF BackendIInv, NumbersMatch
<1>5. ReadinessArrives'
  BY <1>1 DEF BackendIInv, ReadinessArrives, OwnReady
<1>. QED BY <1>2, <1>3, <1>4, <1>5 DEF BackendIInv

LEMMA WaitTimeoutInv ==
  ASSUME BackendIInv, NEW g \in DOMAIN waiting, NEW p \in DOMAIN waiting[g], WaitTimeout(g, p) PROVE BackendIInv'
PROOF
<1>. DEFINE line == waiting[gate]
            rest == RemoveAt(line, p)
<1>1. g = gate
  <2>1. waiting[g] # <<>>
    OBVIOUS
  <2>. QED BY <2>1 DEF BackendIInv, OnePromise
<1>2. waiting' = [waiting EXCEPT ![gate] = rest] /\ asked' = Without(asked, {line[p]})
      /\ UNCHANGED <<ready, firstLoadSeen, window, page, outbox, loadEvent, overtaken, seq, pending, inbox, requests,
                     wrong>>
  BY <1>1 DEF WaitTimeout, arrival
<1>3. gate \in DOMAIN waiting /\ gate \in Nat /\ line \in Seq(Clients) /\ waiting \in Seq(Seq(Clients))
      /\ p \in DOMAIN line
  BY <1>1, GateType DEF BackendIInv, BackendTypeOK
<1>4. /\ rest \in Seq(Clients)
      /\ \A i \in DOMAIN rest : LET j == IF i < p THEN i ELSE i + 1 IN j \in DOMAIN line /\ rest[i] = line[j]
      /\ \A j \in DOMAIN line : j # p => \E i \in DOMAIN rest : rest[i] = line[j]
  BY <1>3, RemoveAtElements
<1>5. DOMAIN asked' = DOMAIN asked \ {line[p]} /\ (\A d \in DOMAIN asked' : asked'[d] = asked[d])
      /\ asked' = [d \in DOMAIN asked' |-> asked'[d]]
  BY <1>2 DEF Without
<1>6. /\ \A i \in DOMAIN line : line[i] \in DOMAIN asked /\ asked[line[i]] = 0
      /\ \A i, j \in DOMAIN line : line[i] = line[j] => i = j
      /\ ready => line = <<>>
      /\ \A h \in DOMAIN waiting : h # gate => waiting[h] = <<>>
  BY DEF BackendIInv, OnePromise
<1>7. ~ready
  BY <1>3, <1>6
<1>. HIDE DEF line, rest
<1>8. waiting' \in Seq(Seq(Clients)) /\ Len(waiting') = Len(waiting) /\ waiting'[gate] = rest
      /\ \A h \in DOMAIN waiting' : h # gate => waiting'[h] = waiting[h]
  BY <1>2, <1>3, <1>4
<1>9. gate' = gate /\ DOMAIN waiting' = DOMAIN waiting
  BY <1>3, <1>8 DEF gate
<1>10. \A i \in DOMAIN rest : \E j \in DOMAIN line : j # p /\ rest[i] = line[j]
  <2>1. ASSUME NEW i \in DOMAIN rest PROVE \E j \in DOMAIN line : j # p /\ rest[i] = line[j]
    <3>1. i \in Nat /\ p \in Nat
      BY <1>3, <1>4
    <3>2. (IF i < p THEN i ELSE i + 1) # p
      BY <3>1
    <3>. QED BY <3>2, <1>4
  <2>. QED BY <2>1
<1>11. \A i \in DOMAIN rest : rest[i] \in DOMAIN asked' /\ asked'[rest[i]] = 0
  BY <1>3, <1>5, <1>6, <1>10
<1>12. \A i, j \in DOMAIN rest : rest[i] = rest[j] => i = j
  <2>1. ASSUME NEW i \in DOMAIN rest, NEW j \in DOMAIN rest, rest[i] = rest[j] PROVE i = j
    <3>1. i \in Nat /\ j \in Nat /\ p \in Nat
      <4>1. i \in Nat /\ j \in Nat
        BY <1>4
      <4>2. p \in Nat
        BY <1>3
      <4>. QED BY <4>1, <4>2
    <3>2. (IF i < p THEN i ELSE i + 1) = (IF j < p THEN j ELSE j + 1)
      BY <1>4, <1>6, <2>1
    <3>. QED BY <3>1, <3>2
  <2>. QED BY <2>1
<1>13. OnePromise'
  <2>1. waiting'[gate'] = rest
    BY <1>8, <1>9
  <2>2. \A h \in DOMAIN waiting' : h # gate' => waiting'[h] = <<>>
    BY <1>6, <1>8, <1>9
  <2>. QED BY <1>2, <1>7, <1>11, <1>12, <2>1, <2>2 DEF OnePromise
<1>14. NobodyStranded'
  <2>1. ASSUME NEW d \in DOMAIN asked'
        PROVE  \/ asked'[d] # 0 /\ \E n \in DOMAIN pending' : pending'[n] = d
               \/ asked'[d] = 0 /\ ~ready' /\ \E i \in DOMAIN waiting'[gate'] : waiting'[gate'][i] = d
    <3>1. d \in DOMAIN asked /\ d # line[p] /\ asked'[d] = asked[d]
      BY <1>5
    <3>2. CASE asked[d] # 0 /\ \E n \in DOMAIN pending : pending[n] = d
      BY <3>1, <3>2, <1>2
    <3>3. CASE asked[d] = 0 /\ \E j \in DOMAIN line : line[j] = d
      <4>1. PICK j \in DOMAIN line : line[j] = d
        BY <3>3
      <4>2. j # p
        BY <3>1, <4>1
      <4>3. \E i \in DOMAIN rest : rest[i] = d
        BY <1>4, <4>1, <4>2
      <4>. QED BY <3>1, <3>3, <4>3, <1>2, <1>7, <1>8, <1>9
    <3>. QED BY <3>1, <3>2, <3>3 DEF BackendIInv, NobodyStranded, line
  <2>. QED BY <2>1 DEF NobodyStranded
<1>15. NumbersMatch'
  <2>1. \A n \in DOMAIN pending : n # 0
    BY DEF BackendIInv, BackendTypeOK
  <2>2. asked[line[p]] = 0
    BY <1>3, <1>6
  <2>3. \A n \in DOMAIN pending : pending[n] \in DOMAIN asked' /\ asked'[pending[n]] = n
    BY <1>5, <2>1, <2>2 DEF BackendIInv, NumbersMatch
  <2>. QED BY <1>2, <2>3 DEF BackendIInv, NumbersMatch
<1>16. BackendTypeOK'
  <2>1. asked' \in [DOMAIN asked' -> Nat] /\ DOMAIN asked' \subseteq Clients
    BY <1>5 DEF BackendIInv, BackendTypeOK
  <2>. QED BY <1>2, <1>8, <2>1 DEF BackendIInv, BackendTypeOK
<1>17. ReadinessArrives'
  BY <1>2 DEF BackendIInv, ReadinessArrives, OwnReady
<1>. QED BY <1>13, <1>14, <1>15, <1>16, <1>17 DEF BackendIInv

\* A message other than the readiness of this page tells nothing new about it.
LEMMA ReadinessKept ==
  ASSUME BackendIInv, outbox # <<>>, outbox' = Tail(outbox), UNCHANGED <<window, page, firstLoadSeen, loadEvent>>,
         overtaken => overtaken', ready => ready',
         OwnReady(Head(outbox)) => ready' /\ (overtaken' \/ (firstLoadSeen => page.loaded))
  PROVE  ReadinessArrives'
PROOF
<1>1. /\ 1 \in DOMAIN outbox /\ Head(outbox) = outbox[1]
      /\ \A i \in DOMAIN outbox : i = 1 \/ \E j \in DOMAIN outbox' : outbox'[j] = outbox[i]
  BY TakeMessage DEF BackendIInv, BackendHeld
<1>2. (loadEvent => ~page.loaded)'
  BY DEF BackendIInv, ReadinessArrives
<1>3. ASSUME window, page.readied, ~overtaken', \A j \in DOMAIN outbox' : ~OwnReady(outbox'[j])
      PROVE  ready' /\ (firstLoadSeen => page.loaded)
  <2>1. CASE OwnReady(Head(outbox))
    BY <1>3, <2>1
  <2>2. CASE ~OwnReady(Head(outbox))
    <3>1. \A i \in DOMAIN outbox : ~OwnReady(outbox[i])
      BY <1>1, <1>3, <2>2 DEF OwnReady
    <3>. QED BY <1>3, <3>1 DEF BackendIInv, ReadinessArrives
  <2>. QED BY <2>1, <2>2
<1>. QED BY <1>2, <1>3 DEF ReadinessArrives, OwnReady

LEMMA HandleReplyInv == ASSUME BackendIInv, HandleReply PROVE BackendIInv'
PROOF
<1>. DEFINE n == Head(outbox).id
<1>1. BackendHeld /\ outbox # <<>> /\ Head(outbox).kind = "reply" /\ outbox' = Tail(outbox)
      /\ UNCHANGED <<ready, firstLoadSeen, waiting, seq, window, page, inbox, loadEvent, requests, overtaken>>
  BY DEF BackendIInv, BackendHeld, HandleReply, Is
<1>2. /\ 1 \in DOMAIN outbox /\ Head(outbox) = outbox[1] /\ outbox' \in Seq(Messages)
      /\ \A i \in DOMAIN outbox' : i + 1 \in DOMAIN outbox /\ outbox'[i] = outbox[i + 1]
  BY <1>1, TakeMessage
<1>3. Head(outbox).number = n
  BY <1>1, <1>2 DEF BackendIInv, NumbersMatch
<1>4. \A i \in DOMAIN outbox' : outbox'[i].kind = "reply" => outbox'[i].id = outbox'[i].number
  BY <1>2 DEF BackendIInv, NumbersMatch
<1>5. ReadinessArrives'
  BY <1>1, ReadinessKept DEF OwnReady
<1>6. CASE n \notin DOMAIN pending
  <2>1. UNCHANGED <<pending, asked, wrong>>
    BY <1>6 DEF HandleReply
  <2>2. gate' = gate /\ waiting' = waiting
    BY <1>1 DEF gate
  <2>3. BackendTypeOK' /\ NumbersMatch'
    BY <1>1, <1>2, <1>4, <2>1 DEF BackendIInv, BackendTypeOK, NumbersMatch
  <2>4. OnePromise' /\ NobodyStranded'
    BY <1>1, <2>1, <2>2 DEF BackendIInv, OnePromise, NobodyStranded
  <2>. QED BY <1>5, <2>3, <2>4 DEF BackendIInv
<1>7. CASE n \in DOMAIN pending
  <2>1. pending' = Without(pending, {n}) /\ asked' = Without(asked, {pending[n]})
        /\ wrong' = (wrong \/ asked[pending[n]] # Head(outbox).number)
    BY <1>7 DEF HandleReply
  <2>2. wrong' = FALSE
    BY <1>3, <1>7, <2>1 DEF BackendIInv, NumbersMatch
  <2>3. /\ pending' \in [DOMAIN pending' -> Clients] /\ DOMAIN pending' \subseteq 1..seq'
        /\ asked' \in [DOMAIN asked' -> Nat] /\ DOMAIN asked' \subseteq Clients
        /\ (\A m \in DOMAIN pending' : pending'[m] \in DOMAIN asked' /\ asked'[pending'[m]] = m)
        /\ OnePromise' /\ NobodyStranded'
    BY <1>1, <1>7, <2>1, ForgetHolds
  <2>4. BackendTypeOK'
    BY <1>1, <1>2, <2>2, <2>3 DEF BackendIInv, BackendTypeOK
  <2>5. NumbersMatch'
    BY <1>1, <1>4, <2>2, <2>3 DEF BackendIInv, NumbersMatch
  <2>. QED BY <1>5, <2>3, <2>4, <2>5 DEF BackendIInv
<1>. QED BY <1>6, <1>7

LEMMA MarkReadyInv == ASSUME BackendIInv, MarkReady PROVE BackendIInv'
PROOF
<1>1. BackendHeld /\ outbox # <<>> /\ outbox' = Tail(outbox)
      /\ UNCHANGED <<firstLoadSeen, window, page, loadEvent, wrong>>
      /\ overtaken' = (overtaken \/ (firstLoadSeen /\ ~page.loaded /\ Head(outbox).number = page.number))
  BY DEF BackendIInv, BackendHeld, MarkReady
<1>2. /\ outbox' \in Seq(Messages)
      /\ \A i \in DOMAIN outbox' : i + 1 \in DOMAIN outbox /\ outbox'[i] = outbox[i + 1]
  BY <1>1, TakeMessage
<1>3. \A i \in DOMAIN outbox' : outbox'[i].kind = "reply" => outbox'[i].id = outbox'[i].number
  BY <1>2 DEF BackendIInv, NumbersMatch
<1>4. overtaken' \in BOOLEAN /\ overtaken \in BOOLEAN /\ page.loaded \in BOOLEAN /\ firstLoadSeen \in BOOLEAN
  BY <1>1 DEF BackendIInv, BackendTypeOK, PageStates
<1>5. gate \in DOMAIN waiting /\ gate \in Nat /\ waiting[gate] \in Seq(Clients) /\ waiting \in Seq(Seq(Clients))
  BY GateType DEF BackendIInv, BackendTypeOK
<1>6. ready' = TRUE
  BY DEF MarkReady, BackendIInv, BackendTypeOK
<1>7. ReadinessArrives'
  BY <1>1, <1>4, <1>6, ReadinessKept DEF OwnReady
<1>8. CASE ready
  <2>1. UNCHANGED <<ready, waiting, seq, pending, inbox, asked, requests>>
    BY <1>8 DEF MarkReady
  <2>2. gate' = gate /\ waiting' = waiting
    BY <2>1 DEF gate
  <2>3. BackendTypeOK' /\ NumbersMatch'
    BY <1>1, <1>2, <1>3, <1>4, <2>1 DEF BackendIInv, BackendTypeOK, NumbersMatch
  <2>4. OnePromise' /\ NobodyStranded'
    BY <2>1, <2>2 DEF BackendIInv, OnePromise, NobodyStranded
  <2>. QED BY <1>7, <2>3, <2>4 DEF BackendIInv
<1>9. CASE ~ready
  <2>1. waiting' = [waiting EXCEPT ![gate] = <<>>]
    BY <1>9 DEF MarkReady
  <2>2. waiting' \in Seq(Seq(Clients)) /\ Len(waiting') = Len(waiting) /\ waiting'[gate] = <<>>
        /\ \A h \in DOMAIN waiting' : h # gate => waiting'[h] = waiting[h]
    <3>1. <<>> \in Seq(Clients)
      OBVIOUS
    <3>. QED BY <1>5, <2>1, <3>1
  <2>3. gate' = gate /\ \A h \in DOMAIN waiting' : waiting'[h] = <<>>
    <3>1. gate' = gate
      BY <2>2 DEF gate
    <3>2. DOMAIN waiting' = DOMAIN waiting
      BY <1>5, <2>2
    <3>3. ASSUME NEW h \in DOMAIN waiting' PROVE waiting'[h] = <<>>
      BY <2>2, <3>2 DEF BackendIInv, OnePromise
    <3>. QED BY <3>1, <3>3
  <2>4. /\ seq' \in Nat /\ requests' = seq'
        /\ inbox' \subseteq Requests /\ (\A r \in inbox' : r.id = r.number)
        /\ pending' \in [DOMAIN pending' -> Clients] /\ DOMAIN pending' \subseteq 1..seq'
        /\ asked' \in [DOMAIN asked' -> Nat] /\ DOMAIN asked' \subseteq Clients
        /\ (\A n \in DOMAIN pending' : pending'[n] \in DOMAIN asked' /\ asked'[pending'[n]] = n)
        /\ \A d \in DOMAIN asked' : asked'[d] # 0 /\ \E n \in DOMAIN pending' : pending'[n] = d
    <3>1. CASE window
      <4>1. SendAll(waiting[gate])
        BY <1>9, <3>1 DEF MarkReady
      <4>2. /\ \A i \in DOMAIN waiting[gate] : waiting[gate][i] \in DOMAIN asked => asked[waiting[gate][i]] = 0
            /\ \A i, j \in DOMAIN waiting[gate] : waiting[gate][i] = waiting[gate][j] => i = j
            /\ \A i \in DOMAIN waiting[gate] : \E j \in DOMAIN waiting[gate] : waiting[gate][j] = waiting[gate][i]
        BY DEF BackendIInv, OnePromise
      <4>. QED BY <1>1, <1>5, <4>1, <4>2, SendAllHolds
    <3>2. CASE ~window
      <4>1. asked' = Without(asked, ToSet(waiting[gate])) /\ UNCHANGED <<seq, pending, inbox, requests>>
        BY <1>9, <3>2 DEF MarkReady
      <4>2. DOMAIN asked' = DOMAIN asked \ ToSet(waiting[gate]) /\ (\A d \in DOMAIN asked' : asked'[d] = asked[d])
            /\ asked' = [d \in DOMAIN asked' |-> asked'[d]]
        BY <4>1 DEF Without
      <4>3. \A n \in DOMAIN pending : n # 0 /\ pending[n] \in DOMAIN asked /\ asked[pending[n]] = n
        BY DEF BackendIInv, BackendTypeOK, NumbersMatch
      <4>4. \A d \in ToSet(waiting[gate]) : asked[d] = 0
        BY DEF ToSet, BackendIInv, OnePromise
      <4>5. \A n \in DOMAIN pending : pending[n] \in DOMAIN asked' /\ asked'[pending[n]] = n
        BY <4>2, <4>3, <4>4
      <4>6. ASSUME NEW d \in DOMAIN asked' PROVE asked'[d] # 0 /\ \E n \in DOMAIN pending : pending[n] = d
        BY <4>2 DEF BackendIInv, NobodyStranded, ToSet
      <4>7. asked' \in [DOMAIN asked' -> Nat] /\ DOMAIN asked' \subseteq Clients
        BY <4>2 DEF BackendIInv, BackendTypeOK
      <4>. QED BY <4>1, <4>5, <4>6, <4>7 DEF BackendIInv, BackendTypeOK, NumbersMatch
    <3>. QED BY <3>1, <3>2
  <2>5. BackendTypeOK'
    BY <1>1, <1>2, <1>4, <1>5, <1>6, <2>2, <2>4 DEF BackendIInv, BackendTypeOK
  <2>6. NumbersMatch' /\ NobodyStranded'
    BY <1>1, <1>3, <2>4 DEF BackendIInv, NumbersMatch, NobodyStranded
  <2>7. OnePromise'
    <3>1. waiting'[gate'] = <<>> /\ DOMAIN waiting'[gate'] = {}
      BY <2>2, <2>3
    <3>. QED BY <2>3, <3>1 DEF OnePromise
  <2>. QED BY <1>7, <2>5, <2>6, <2>7 DEF BackendIInv
<1>. QED BY <1>8, <1>9

LEMMA DidFinishLoadInv == ASSUME BackendIInv, DidFinishLoad PROVE BackendIInv'
PROOF
<1>1. BackendHeld /\ loadEvent /\ loadEvent' = FALSE /\ page' = [page EXCEPT !.loaded = TRUE]
      /\ UNCHANGED <<seq, window, inbox, outbox, requests, wrong, overtaken>>
  BY DEF BackendIInv, BackendHeld, DidFinishLoad
<1>2. page' \in PageStates /\ page'.number = page.number /\ page'.readied = page.readied /\ page'.loaded = TRUE
  BY <1>1 DEF BackendIInv, BackendTypeOK, PageStates
<1>3. firstLoadSeen' = TRUE
  BY DEF DidFinishLoad, BackendIInv, BackendTypeOK
<1>4. ASSUME firstLoadSeen
      PROVE  window /\ page.readied /\ ~overtaken => \E i \in DOMAIN outbox : OwnReady(outbox[i])
  BY <1>1, <1>4 DEF BackendIInv, ReadinessArrives
<1>5. CASE firstLoadSeen
  <2>1. HandleReset
    BY <1>5 DEF DidFinishLoad
  <2>2. BackendHeld'
    BY <1>1, <1>2, <1>3, <2>1, HandleResetHolds DEF BackendIInv, BackendTypeOK
  <2>3. ReadinessArrives'
    BY <1>1, <1>2, <1>4, <1>5 DEF ReadinessArrives, OwnReady
  <2>. QED BY <2>2, <2>3 DEF BackendIInv, BackendHeld
<1>6. CASE ~firstLoadSeen
  <2>1. UNCHANGED <<ready, waiting, pending, asked>>
    BY <1>6 DEF DidFinishLoad
  <2>2. gate' = gate /\ waiting' = waiting
    BY <2>1 DEF gate
  <2>3. BackendTypeOK' /\ NumbersMatch'
    BY <1>1, <1>2, <1>3, <2>1 DEF BackendIInv, BackendTypeOK, NumbersMatch
  <2>4. OnePromise' /\ NobodyStranded'
    BY <2>1, <2>2 DEF BackendIInv, OnePromise, NobodyStranded
  <2>5. ReadinessArrives'
    BY <1>1, <1>2, <2>1 DEF BackendIInv, ReadinessArrives, OwnReady
  <2>. QED BY <2>3, <2>4, <2>5 DEF BackendIInv
<1>. QED BY <1>5, <1>6

LEMMA WindowClosesInv == ASSUME BackendIInv, WindowCloses PROVE BackendIInv'
PROOF
<1>1. BackendHeld /\ HandleReset /\ window' = FALSE /\ inbox' = {} /\ outbox' = <<>> /\ loadEvent' = FALSE
      /\ UNCHANGED <<firstLoadSeen, seq, page, requests, wrong, overtaken>>
  BY DEF BackendIInv, BackendHeld, WindowCloses
<1>2. BackendHeld'
  BY <1>1, HandleResetHolds DEF BackendIInv, BackendTypeOK
<1>3. ReadinessArrives'
  BY <1>1 DEF ReadinessArrives
<1>. QED BY <1>2, <1>3 DEF BackendIInv, BackendHeld

\* What the page and its window do does not touch the callers.
LEMMA PageMoves ==
  ASSUME BackendIInv, UNCHANGED <<ready, firstLoadSeen, waiting, seq, pending, window, asked, requests, wrong>>,
         overtaken' \in BOOLEAN, loadEvent' \in BOOLEAN, page' \in PageStates, inbox' \subseteq inbox,
         outbox' \in Seq(Messages),
         \A i \in DOMAIN outbox' : outbox'[i].kind = "reply" => outbox'[i].id = outbox'[i].number,
         ReadinessArrives'
  PROVE  BackendIInv'
PROOF
<1>1. gate' = gate /\ waiting' = waiting
  BY DEF gate
<1>2. BackendTypeOK' /\ NumbersMatch'
  BY DEF BackendIInv, BackendTypeOK, NumbersMatch
<1>3. OnePromise' /\ NobodyStranded'
  BY <1>1 DEF BackendIInv, OnePromise, NobodyStranded
<1>. QED BY <1>2, <1>3 DEF BackendIInv

LEMMA ReloadInv == ASSUME BackendIInv, Reload PROVE BackendIInv'
PROOF
<1>1. page' = Blank(page.number + 1) /\ inbox' = {} /\ overtaken' = FALSE
      /\ UNCHANGED <<ready, firstLoadSeen, waiting, seq, pending, window, outbox, loadEvent, asked, requests, wrong>>
  BY DEF Reload
<1>2. page' \in PageStates /\ page'.readied = FALSE /\ page'.loaded = FALSE
  BY <1>1 DEF Blank, PageStates, BackendIInv, BackendTypeOK
<1>3. ReadinessArrives'
  BY <1>1, <1>2 DEF ReadinessArrives
<1>4. outbox \in Seq(Messages) /\ \A i \in DOMAIN outbox : outbox[i].kind = "reply" => outbox[i].id = outbox[i].number
  BY DEF BackendIInv, BackendTypeOK, NumbersMatch
<1>. QED BY <1>1, <1>2, <1>3, <1>4, PageMoves DEF BackendIInv, BackendTypeOK

LEMMA PageInv == ASSUME BackendIInv, PageListens \/ PageReady \/ PageLoads \/ PageServes PROVE BackendIInv'
PROOF
<1>1. UNCHANGED <<ready, firstLoadSeen, waiting, seq, pending, window, asked, requests, wrong, overtaken>> /\ window
  BY DEF PageListens, PageReady, PageLoads, PageServes, PageOnly
<1>2. overtaken \in BOOLEAN /\ loadEvent \in BOOLEAN /\ page \in PageStates /\ BackendHeld /\ outbox \in Seq(Messages)
  BY DEF BackendIInv, BackendTypeOK, BackendHeld
<1>3. \A i \in DOMAIN outbox : outbox[i].kind = "reply" => outbox[i].id = outbox[i].number
  BY DEF BackendIInv, NumbersMatch
<1>4. CASE PageListens
  <2>1. page' = [page EXCEPT !.listens = TRUE] /\ UNCHANGED <<inbox, outbox, loadEvent>>
    BY <1>4 DEF PageListens
  <2>2. page' \in PageStates /\ page'.number = page.number /\ page'.readied = page.readied
        /\ page'.loaded = page.loaded
    BY <1>2, <2>1 DEF PageStates
  <2>3. ReadinessArrives'
    BY <1>1, <2>1, <2>2 DEF BackendIInv, ReadinessArrives, OwnReady
  <2>. QED BY <1>1, <1>2, <1>3, <2>1, <2>2, <2>3, PageMoves
<1>5. CASE PageReady
  <2>. DEFINE m == [kind |-> "ready", number |-> page.number]
  <2>1. page' = [page EXCEPT !.readied = TRUE] /\ outbox' = Append(outbox, m) /\ UNCHANGED <<inbox, loadEvent>>
    BY <1>5 DEF PageReady
  <2>2. page' \in PageStates /\ page'.number = page.number /\ page'.loaded = page.loaded /\ page.number \in Nat
    BY <1>2, <2>1 DEF PageStates
  <2>3. m \in Messages /\ m.kind = "ready" /\ m.number = page'.number
    BY <2>2 DEF Messages
  <2>. HIDE DEF m
  <2>4. /\ outbox' \in Seq(Messages)
        /\ \A i \in DOMAIN outbox' : (i \in DOMAIN outbox /\ outbox'[i] = outbox[i]) \/ outbox'[i] = m
        /\ \E i \in DOMAIN outbox' : outbox'[i] = m
    BY <1>2, <2>1, <2>3, AddMessage
  <2>5. \A i \in DOMAIN outbox' : outbox'[i].kind = "reply" => outbox'[i].id = outbox'[i].number
    BY <1>3, <2>3, <2>4
  <2>6. ReadinessArrives'
    <3>1. \E i \in DOMAIN outbox' : outbox'[i].kind = "ready" /\ outbox'[i].number = page'.number
      BY <2>3, <2>4
    <3>. QED BY <1>1, <2>1, <2>2, <3>1 DEF BackendIInv, ReadinessArrives, OwnReady
  <2>. QED BY <1>1, <1>2, <2>1, <2>2, <2>4, <2>5, <2>6, PageMoves
<1>6. CASE PageLoads
  <2>1. ~page.loaded /\ loadEvent' = TRUE /\ UNCHANGED <<page, inbox, outbox>>
    BY <1>6 DEF PageLoads
  <2>2. ReadinessArrives'
    BY <1>1, <2>1 DEF BackendIInv, ReadinessArrives, OwnReady
  <2>. QED BY <1>1, <1>2, <1>3, <2>1, <2>2, PageMoves
<1>7. CASE PageServes
  <2>1. PICK r \in inbox :
          /\ inbox' = inbox \ {r}
          /\ outbox' = IF page.listens THEN Append(outbox, [kind |-> "reply", id |-> r.id, number |-> r.number])
                       ELSE outbox
    BY <1>7 DEF PageServes
  <2>2. UNCHANGED <<page, loadEvent>>
    BY <1>7 DEF PageServes
  <2>. DEFINE m == [kind |-> "reply", id |-> r.id, number |-> r.number]
  <2>3. m \in Messages /\ m.kind = "reply" /\ m.id = m.number
    BY DEF BackendIInv, BackendTypeOK, NumbersMatch, Requests, Messages
  <2>4. outbox' = Append(outbox, m) \/ outbox' = outbox
    BY <2>1
  <2>. HIDE DEF m
  <2>5. /\ outbox' \in Seq(Messages)
        /\ \A i \in DOMAIN outbox' : (i \in DOMAIN outbox /\ outbox'[i] = outbox[i]) \/ outbox'[i] = m
        /\ \A i \in DOMAIN outbox : i \in DOMAIN outbox' /\ outbox'[i] = outbox[i]
    BY <1>2, <2>3, <2>4, AddMessage
  <2>6. \A i \in DOMAIN outbox' : outbox'[i].kind = "reply" => outbox'[i].id = outbox'[i].number
    BY <1>3, <2>3, <2>5
  <2>7. ReadinessArrives'
    <3>1. ASSUME NEW i \in DOMAIN outbox, OwnReady(outbox[i])
          PROVE  \E j \in DOMAIN outbox' : outbox'[j].kind = "ready" /\ outbox'[j].number = page'.number
      BY <2>2, <2>5, <3>1 DEF OwnReady
    <3>. QED BY <1>1, <2>2, <3>1 DEF BackendIInv, ReadinessArrives, OwnReady
  <2>8. inbox' \subseteq inbox
    BY <2>1
  <2>. QED BY <1>1, <1>2, <2>2, <2>5, <2>6, <2>7, <2>8, PageMoves
<1>. QED BY <1>4, <1>5, <1>6, <1>7

\* No caller gets the answer to another request, none is left behind by a reset, and a page that has loaded and
\* said that it is ready is served, for any number of callers, requests and pages.
THEOREM AnswersAreOwn == BackendSpec => []OwnAnswer
PROOF
<1>1. BackendInit => BackendIInv
  <2>. SUFFICES ASSUME BackendInit PROVE BackendIInv
    OBVIOUS
  <2>1. \A S : <<>> \in [{} -> S] /\ <<>> \in Seq(S) /\ DOMAIN <<>> = {}
    OBVIOUS
  <2>2. waiting = << <<>> >> /\ Len(waiting) = 1 /\ DOMAIN waiting = {1} /\ waiting[1] = <<>>
    BY DEF BackendInit
  <2>3. waiting \in Seq(Seq(Clients))
    BY <2>1, <2>2
  <2>4. gate = 1
    BY <2>2 DEF gate
  <2>5. page \in PageStates /\ page.loaded = FALSE /\ page.readied = FALSE
    BY DEF BackendInit, Blank, PageStates
  <2>6. BackendTypeOK
    <3>1. /\ ready \in BOOLEAN /\ firstLoadSeen \in BOOLEAN /\ window \in BOOLEAN /\ loadEvent \in BOOLEAN
          /\ wrong \in BOOLEAN /\ overtaken \in BOOLEAN /\ seq \in Nat /\ requests = seq
      BY DEF BackendInit
    <3>2. /\ pending \in [DOMAIN pending -> Clients] /\ DOMAIN pending \subseteq 1..seq
          /\ asked \in [DOMAIN asked -> Nat] /\ DOMAIN asked \subseteq Clients
      BY <2>1 DEF BackendInit
    <3>3. inbox \subseteq Requests /\ outbox \in Seq(Messages)
      BY <2>1 DEF BackendInit
    <3>. QED BY <2>2, <2>3, <2>5, <3>1, <3>2, <3>3 DEF BackendTypeOK
  <2>7. NumbersMatch /\ NobodyStranded /\ ReadinessArrives
    BY <2>1, <2>5 DEF BackendInit, NumbersMatch, NobodyStranded, ReadinessArrives
  <2>8. OnePromise
    BY <2>1, <2>2, <2>4 DEF BackendInit, OnePromise
  <2>. QED BY <2>6, <2>7, <2>8 DEF BackendIInv
<1>2. ASSUME BackendIInv, BackendNext PROVE BackendIInv'
  <2>1. CASE CallTimerFires
    BY <1>2, <2>1, WaitTimeoutInv, InvokeTimeoutInv DEF CallTimerFires
  <2>. QED BY <1>2, <2>1, InvokeInv, HandleReplyInv, MarkReadyInv, DidFinishLoadInv, WindowClosesInv, ReloadInv,
              PageInv DEF BackendNext
<1>3. ASSUME BackendIInv, UNCHANGED backendVars PROVE BackendIInv'
  <2>1. gate' = gate /\ waiting' = waiting
    BY <1>3 DEF backendVars, gate
  <2>2. BackendTypeOK' /\ NumbersMatch' /\ ReadinessArrives'
    BY <1>3 DEF backendVars, BackendIInv, BackendTypeOK, NumbersMatch, ReadinessArrives, OwnReady
  <2>3. OnePromise' /\ NobodyStranded'
    BY <1>3, <2>1 DEF backendVars, BackendIInv, OnePromise, NobodyStranded
  <2>. QED BY <2>2, <2>3 DEF BackendIInv
<1>4. ASSUME BackendIInv PROVE OwnAnswer
  <2>1. \A c \in DOMAIN asked :
          \/ asked[c] # 0 /\ \E n \in DOMAIN pending : pending[n] = c
          \/ asked[c] = 0 /\ ~ready /\ Contains(waiting[gate], c)
    <3>1. gate \in DOMAIN waiting /\ waiting[gate] \in Seq(Clients)
      BY <1>4, GateType DEF BackendIInv
    <3>2. \A c : (\E i \in DOMAIN waiting[gate] : waiting[gate][i] = c) => Contains(waiting[gate], c)
      BY <3>1 DEF Contains
    <3>. QED BY <1>4, <3>2 DEF BackendIInv, NobodyStranded
  <2>2. ASSUME window, page.loaded, page.readied, ~overtaken, \A i \in DOMAIN outbox : ~Is(outbox[i], "ready")
        PROVE  ready
    BY <1>4, <2>2 DEF BackendIInv, ReadinessArrives, OwnReady, Is
  <2>. QED BY <1>4, <2>1, <2>2 DEF OwnAnswer, BackendIInv, NumbersMatch
<1>. QED BY <1>1, <1>2, <1>3, <1>4, PTL DEF BackendSpec

----------------------------------------------------------------------------
(* The release of a removed store                                           *)

\* The store's latch is set, and its chain empty, from the second drain on.
LatchedByPhase ==
  /\ phase \in {"teardownStore", "drainAgain", "released"} => tornDown
  /\ phase \in {"drainAgain", "released"} => queue = <<>>

\* The inductive strengthening of the properties below.
ReleaseIInv == TypeOK /\ CounterExact /\ NeverStoppedMidQuery /\ LatchedByPhase

\* The unsettled queries are finitely many.
LEMMA UnsettledFinite ==
  IsFiniteSet(Unsettled) /\ Cardinality(Unsettled) \in Nat
<1>1. Unsettled \subseteq Callers
  BY DEF Unsettled
<1>2. IsFiniteSet(Unsettled)
  BY <1>1, CallersAssumption, FS_Subset
<1> QED
  BY <1>2, FS_CardinalityType

\* A query that enters adds one to them.
LEMMA EnterCounts ==
  ASSUME NEW c \in Callers, EngineTypeOK, QueryEnter(c), CounterExact
  PROVE  CounterExact' /\ EngineTypeOK' /\ ~stopped /\ ~stopped'
<1>1. Unsettled' = Unsettled \cup {c} /\ c \notin Unsettled
  BY DEF Unsettled, QueryEnter, EngineTypeOK, NoQuery, Embedders
<1>2. Cardinality(Unsettled') = Cardinality(Unsettled) + 1
  BY <1>1, UnsettledFinite, FS_AddElement
<1>3. CounterExact'
  BY <1>2 DEF CounterExact, QueryEnter
<1> QED
  BY <1>3 DEF QueryEnter, EngineTypeOK

\* A query that settles, either way, takes one off.
LEMMA SettleCounts ==
  ASSUME NEW c \in Callers, NEW o, EngineTypeOK, QuerySettle(c, o), CounterExact
  PROVE  CounterExact' /\ EngineTypeOK' /\ Unsettled' \subseteq Unsettled
<1>1. Unsettled' = Unsettled \ {c} /\ c \in Unsettled
  BY DEF Unsettled, QuerySettle, EngineTypeOK, NoQuery, Embedders
<1>2. Cardinality(Unsettled') = Cardinality(Unsettled) - 1
  BY <1>1, UnsettledFinite, FS_RemoveElement
<1>3. Cardinality(Unsettled) # 0
  BY <1>1, UnsettledFinite, FS_EmptySet
<1>4. CounterExact'
  BY <1>2 DEF CounterExact, QuerySettle
<1>5. inFlight - 1 \in Nat
  BY <1>3, UnsettledFinite DEF CounterExact
<1>6. EngineTypeOK'
  BY <1>5 DEF QuerySettle, EngineTypeOK
<1> QED
  BY <1>1, <1>4, <1>6

\* Nothing is counted exactly when nothing is unsettled.
LEMMA NoneInFlight ==
  ASSUME CounterExact, inFlight = 0
  PROVE  Unsettled = {}
BY UnsettledFinite, FS_EmptySet DEF CounterExact

LEMMA ReleaseInit == Init => ReleaseIInv
<1> SUFFICES ASSUME Init PROVE ReleaseIInv
  OBVIOUS
<1>1. Unsettled = {}
  BY DEF Init, EngineInit, Unsettled, NoQuery
<1>2. CounterExact
  BY <1>1, FS_EmptySet DEF Init, EngineInit, CounterExact
<1>3. TypeOK
  <2>1. <<>> \in Seq(Callers)
    OBVIOUS
  <2>2. EngineTypeOK
    BY DEF Init, EngineInit, EngineTypeOK, Embedders
  <2> QED
    BY <2>1, <2>2 DEF Init, TypeOK, Phases
<1> QED
  BY <1>1, <1>2, <1>3 DEF ReleaseIInv, NeverStoppedMidQuery, LatchedByPhase, Init

LEMMA ReleaseStep == ReleaseIInv /\ [Next]_vars => ReleaseIInv'
<1> SUFFICES ASSUME ReleaseIInv, [Next]_vars PROVE ReleaseIInv'
  OBVIOUS
<1> USE DEF ReleaseIInv
<1>1. ASSUME NEW c \in Callers, Lookup(c) PROVE ReleaseIInv'
  BY <1>1 DEF Lookup, engineVars, TypeOK, EngineTypeOK, CounterExact, Unsettled,
    NeverStoppedMidQuery, LatchedByPhase
<1>2. ASSUME NEW c \in Callers, Query(c) PROVE ReleaseIInv'
  <2>1. CounterExact' /\ EngineTypeOK' /\ ~stopped'
    BY <1>2, EnterCounts DEF Query, TypeOK
  <2> QED
    BY <1>2, <2>1 DEF Query, TypeOK, NeverStoppedMidQuery, LatchedByPhase
<1>3. ASSUME NEW c \in Callers, Forget(c) PROVE ReleaseIInv'
  BY <1>3 DEF Forget, engineVars, TypeOK, EngineTypeOK, CounterExact, Unsettled,
    NeverStoppedMidQuery, LatchedByPhase
<1>4. ASSUME NEW c \in Callers, NEW o \in {"resolve", "reject"}, Settle(c, o) PROVE ReleaseIInv'
  <2>1. CounterExact' /\ EngineTypeOK' /\ Unsettled' \subseteq Unsettled /\ stopped' = stopped
    BY <1>4, SettleCounts DEF Settle, QuerySettle, TypeOK
  <2> QED
    BY <1>4, <2>1 DEF Settle, releaseVars, TypeOK, NeverStoppedMidQuery, LatchedByPhase
<1>5. ASSUME NEW c \in Callers, Enqueue(c) PROVE ReleaseIInv'
  BY <1>5 DEF Enqueue, engineVars, TypeOK, EngineTypeOK, CounterExact, Unsettled,
    NeverStoppedMidQuery, LatchedByPhase, Phases
<1>6. CASE RunJob
  BY <1>6 DEF RunJob, engineVars, TypeOK, EngineTypeOK, CounterExact, Unsettled,
    NeverStoppedMidQuery, LatchedByPhase
<1>7. CASE Unregister
  BY <1>7 DEF Unregister, engineVars, TypeOK, EngineTypeOK, CounterExact, Unsettled,
    NeverStoppedMidQuery, LatchedByPhase, Phases
<1>8. CASE StartStoreTeardown
  BY <1>8 DEF StartStoreTeardown, engineVars, TypeOK, EngineTypeOK, CounterExact, Unsettled,
    NeverStoppedMidQuery, LatchedByPhase, Phases
<1>9. CASE StoreTornDown
  BY <1>9 DEF StoreTornDown, engineVars, TypeOK, EngineTypeOK, CounterExact, Unsettled,
    NeverStoppedMidQuery, LatchedByPhase, Phases
<1>10. CASE StopEngine
  <2>1. Unsettled = {} /\ Unsettled' = Unsettled
    BY <1>10, NoneInFlight DEF StopEngine, EngineTeardown, Unsettled
  <2> QED
    BY <1>10, <2>1 DEF StopEngine, EngineTeardown, TypeOK, EngineTypeOK, CounterExact,
      NeverStoppedMidQuery, LatchedByPhase, Phases
<1>11. CASE UNCHANGED vars
  BY <1>11 DEF vars, engineVars, releaseVars, TypeOK, EngineTypeOK, CounterExact, Unsettled,
    NeverStoppedMidQuery, LatchedByPhase
<1> QED
  BY <1>1, <1>2, <1>3, <1>4, <1>5, <1>6, <1>7, <1>8, <1>9, <1>10, <1>11
    DEF Next, Call, Release, Finished

THEOREM ReleaseInductive == Spec => []ReleaseIInv
BY ReleaseInit, ReleaseStep, PTL DEF Spec

\* Types of the release, for any number of callers.
THEOREM TypeCorrect == Spec => []TypeOK
<1>1. ReleaseIInv => TypeOK
  BY DEF ReleaseIInv
<1> QED
  BY <1>1, ReleaseInductive, PTL

\* inFlight() never miscounts, however queries enter and settle
\* (src/main/retrieval.ts).
THEOREM CounterNeverDrifts == Spec => []CounterExact
<1>1. ReleaseIInv => CounterExact
  BY DEF ReleaseIInv
<1> QED
  BY <1>1, ReleaseInductive, PTL

\* A removed engine is never marked STOPPED while a query is mid-flight
\* (src/main/rag-store-remove.ts).
THEOREM NeverStopsMidQuery == Spec => []NeverStoppedMidQuery
<1>1. ReleaseIInv => NeverStoppedMidQuery
  BY DEF ReleaseIInv
<1> QED
  BY <1>1, ReleaseInductive, PTL

\* Every mutation the store accepted is in the file before its engine stops
\* (teardown of src/main/rag-store.ts).
THEOREM AcceptedWritesLand == Spec => []NothingAcceptedIsLost
<1>1. ReleaseIInv => NothingAcceptedIsLost
  BY DEF ReleaseIInv, LatchedByPhase, NothingAcceptedIsLost
<1> QED
  BY <1>1, ReleaseInductive, PTL

\* After the release no step writes the stranded file.
THEOREM ReleasedFileStrands == Spec => FileStrands
<1>1. ReleaseIInv /\ [Next]_vars => [phase = "released" => written' = written]_written
  <2> SUFFICES ASSUME ReleaseIInv, [Next]_vars, phase = "released" PROVE written' = written
    OBVIOUS
  <2>1. queue = <<>>
    BY DEF ReleaseIInv, LatchedByPhase
  <2>2. ~RunJob
    BY <2>1 DEF RunJob
  <2> QED
    BY <2>2 DEF Next, Call, Release, Finished, Lookup, Query, Forget, Settle, Enqueue,
      Unregister, StartStoreTeardown, StoreTornDown, StopEngine, releaseVars, vars
<1> QED
  BY <1>1, ReleaseInductive, PTL DEF Spec, FileStrands

=============================================================================
