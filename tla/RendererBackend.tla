--------------------------- MODULE RendererBackend ---------------------------
(***************************************************************************)
(* The way of a tool call to the page and back (class RendererBackend of   *)
(* src/main/mcp-server.ts): the readiness gate, the requests by id, their  *)
(* timers, and what a reload or a closed window does to them.              *)
(*                                                                         *)
(* The messages of the page arrive in order; the window's own event that a *)
(* page has loaded is not ordered with them.                               *)
(***************************************************************************)
EXTENDS Naturals, Sequences, FiniteSets, SequencesExt

CONSTANTS
  Clients,        \* tool calls in progress at a time
  MaxRequests,    \* bound of the model: requests sent
  MaxPages        \* bound of the model: pages loaded into the window

VARIABLES
  ready,
  firstLoadSeen,
  waiting,        \* `readyPromise', the last one, and those before it: the callers who await each
  seq, pending,   \* `seq', and the caller behind each id that awaits a reply
  window,         \* the window is there
  page,           \* the page in it: [number, listens, readied, loaded]
  inbox, outbox,  \* requests on their way to the page, messages on their way from it
  loadEvent,      \* did-finish-load has not been handled yet
  \* history
  asked,          \* what each caller waits for, by the number of its request; 0 when it has not sent one
  requests,       \* requests sent
  wrong,          \* a caller was given the answer to another request
  overtaken       \* the readiness of a reloaded page arrived before its load event

backendVars == <<ready, firstLoadSeen, waiting, seq, pending, window, page, inbox, outbox, loadEvent,
                 asked, requests, wrong, overtaken>>

arrival == <<ready, firstLoadSeen, window, page, outbox, loadEvent, overtaken>>

gate == Len(waiting)
Blank(n) == [number |-> n, listens |-> FALSE, readied |-> FALSE, loaded |-> FALSE]
Busy(c) == c \in DOMAIN asked
Without(f, S) == [x \in DOMAIN f \ S |-> f[x]]
Is(message, kind) == message.kind = kind

BackendInit ==
  /\ ready = FALSE /\ firstLoadSeen = FALSE
  /\ waiting = << <<>> >> /\ seq = 0 /\ pending = <<>>
  /\ window = TRUE /\ page = Blank(1) /\ inbox = {} /\ outbox = <<>> /\ loadEvent = FALSE
  /\ asked = <<>> /\ requests = 0 /\ wrong = FALSE /\ overtaken = FALSE

----------------------------------------------------------------------------
(* The backend                                                             *)

\* A mutation: the number of open requests names the next one.
Id_Open(i) == Cardinality(DOMAIN pending) + i

\* The id of the i-th request sent now.
Id(i) == seq + i

\* The callers send their requests, one after the other.
SendAll(callers) ==
  /\ requests + Len(callers) <= MaxRequests /\ requests' = requests + Len(callers)
  /\ seq' = seq + Len(callers)
  /\ LET sent == {[id |-> Id(i), number |-> requests + i] : i \in DOMAIN callers}
     IN  /\ inbox' = inbox \cup sent
         /\ pending' = [n \in DOMAIN pending \cup {r.id : r \in sent} |->
                          IF \E i \in DOMAIN callers : Id(i) = n
                            THEN callers[CHOOSE i \in DOMAIN callers : Id(i) = n]
                            ELSE pending[n]]
  /\ asked' = [c \in DOMAIN asked \cup ToSet(callers) |->
                 IF Contains(callers, c) THEN requests + CHOOSE i \in DOMAIN callers : callers[i] = c ELSE asked[c]]

\* invoke(): a request is sent at once when the page is ready, and fails without a window.
Invoke(c) ==
  /\ ~Busy(c)
  /\ IF ready THEN window /\ SendAll(<<c>>) /\ UNCHANGED waiting
     ELSE /\ waiting' = [waiting EXCEPT ![gate] = Append(@, c)]
          /\ asked' = [d \in DOMAIN asked \cup {c} |-> IF d = c THEN 0 ELSE asked[d]]
          /\ UNCHANGED <<seq, pending, inbox, requests>>
  /\ UNCHANGED <<arrival, wrong>>

\* The caller gets an error; it may call again.
WaitTimeout(g, i) ==
  /\ waiting' = [waiting EXCEPT ![g] = RemoveAt(@, i)] /\ asked' = Without(asked, {waiting[g][i]})
  /\ UNCHANGED <<arrival, seq, pending, inbox, requests, wrong>>

InvokeTimeout(n) ==
  /\ pending' = Without(pending, {n}) /\ asked' = Without(asked, {pending[n]})
  /\ UNCHANGED <<arrival, waiting, seq, inbox, requests, wrong>>

\* handleReply(): an id that is not pending any more is ignored.
HandleReply ==
  /\ outbox # <<>> /\ Is(Head(outbox), "reply") /\ outbox' = Tail(outbox)
  /\ LET n == Head(outbox).id
     IN  IF n \notin DOMAIN pending THEN UNCHANGED <<pending, asked, wrong>>
         ELSE /\ pending' = Without(pending, {n}) /\ asked' = Without(asked, {pending[n]})
              /\ wrong' = (wrong \/ asked[pending[n]] # Head(outbox).number)
  /\ UNCHANGED <<ready, firstLoadSeen, waiting, seq, window, page, inbox, loadEvent, requests, overtaken>>

\* markReady(): the callers at the gate go on, in the order in which they came.
MarkReady ==
  /\ outbox # <<>> /\ Is(Head(outbox), "ready") /\ outbox' = Tail(outbox)
  /\ overtaken' = (overtaken \/ (firstLoadSeen /\ ~page.loaded /\ Head(outbox).number = page.number))
  /\ IF ready THEN UNCHANGED <<ready, waiting, seq, pending, inbox, asked, requests>>
     ELSE /\ ready' = TRUE /\ waiting' = [waiting EXCEPT ![gate] = <<>>]
          /\ IF window THEN SendAll(waiting[gate])
             ELSE asked' = Without(asked, ToSet(waiting[gate])) /\ UNCHANGED <<seq, pending, inbox, requests>>
  /\ UNCHANGED <<firstLoadSeen, window, page, loadEvent, wrong>>

\* handleReset(): who has a request pending or awaits the promise is rejected, and a new promise takes its place.
HandleReset ==
  /\ asked' = Without(asked, {pending[n] : n \in DOMAIN pending} \cup ToSet(waiting[gate]))
  /\ pending' = <<>> /\ ready' = FALSE
  /\ waiting' = Append([waiting EXCEPT ![gate] = <<>>], <<>>)

\* did-finish-load: the first one is the initial load, each other one a reload.
DidFinishLoad ==
  /\ loadEvent /\ loadEvent' = FALSE
  /\ page' = [page EXCEPT !.loaded = TRUE]
  /\ IF firstLoadSeen THEN HandleReset /\ UNCHANGED firstLoadSeen
     ELSE firstLoadSeen' = TRUE /\ UNCHANGED <<ready, waiting, pending, asked>>
  /\ UNCHANGED <<seq, window, inbox, outbox, requests, wrong, overtaken>>

----------------------------------------------------------------------------
(* The window and its page                                                 *)

WindowCloses ==
  /\ window /\ window' = FALSE /\ HandleReset
  /\ inbox' = {} /\ outbox' = <<>> /\ loadEvent' = FALSE
  /\ UNCHANGED <<firstLoadSeen, seq, page, requests, wrong, overtaken>>

\* What was sent to the old page, and what it was working at, is lost; its messages still arrive.
Reload ==
  /\ window /\ page.loaded /\ page.number < MaxPages
  /\ page' = Blank(page.number + 1) /\ inbox' = {} /\ overtaken' = FALSE
  /\ UNCHANGED <<ready, firstLoadSeen, waiting, seq, pending, window, outbox, loadEvent, asked, requests, wrong>>

PageOnly == window /\ UNCHANGED <<ready, firstLoadSeen, waiting, seq, pending, window, asked, requests, wrong, overtaken>>

\* The entry script listens for requests, and says so a few answers of the main process later.
PageListens ==
  /\ PageOnly /\ ~page.listens /\ page' = [page EXCEPT !.listens = TRUE]
  /\ UNCHANGED <<inbox, outbox, loadEvent>>
PageReady ==
  /\ PageOnly /\ page.listens /\ ~page.readied /\ page' = [page EXCEPT !.readied = TRUE]
  /\ outbox' = Append(outbox, [kind |-> "ready", number |-> page.number])
  /\ UNCHANGED <<inbox, loadEvent>>
PageLoads ==
  /\ PageOnly /\ ~page.loaded /\ ~loadEvent /\ loadEvent' = TRUE
  /\ UNCHANGED <<page, inbox, outbox>>

\* The page serves a request, in any order; one that arrives before it listens is lost.
PageServes ==
  /\ PageOnly
  /\ \E r \in inbox :
       /\ inbox' = inbox \ {r}
       /\ outbox' = IF page.listens THEN Append(outbox, [kind |-> "reply", id |-> r.id, number |-> r.number]) ELSE outbox
  /\ UNCHANGED <<page, loadEvent>>

CallTimerFires ==
  \/ \E g \in DOMAIN waiting : \E i \in DOMAIN waiting[g] : WaitTimeout(g, i)
  \/ \E n \in DOMAIN pending : InvokeTimeout(n)

BackendNext ==
  \/ HandleReply \/ MarkReady \/ DidFinishLoad \/ WindowCloses \/ Reload
  \/ PageListens \/ PageReady \/ PageLoads \/ PageServes \/ CallTimerFires
  \/ \E c \in Clients : Invoke(c)

BackendSpec == BackendInit /\ [][BackendNext]_backendVars

----------------------------------------------------------------------------
(* Properties                                                              *)

\* Whatever replies come late, after their timeout, a reset or a reload, no caller gets the answer to another
\* request; and each caller who still waits has either a pending request of its own or the promise that the
\* next readiness resolves, so that nobody is left behind by a reset.  When a page has loaded and its readiness
\* has arrived, calls are served again, unless the readiness overtook the load event of a reload.
OwnAnswer ==
  /\ ~wrong
  /\ \A c \in DOMAIN asked :
       \/ asked[c] # 0 /\ \E n \in DOMAIN pending : pending[n] = c
       \/ asked[c] = 0 /\ ~ready /\ Contains(waiting[gate], c)
  /\ (window /\ page.loaded /\ page.readied /\ ~overtaken /\ \A i \in DOMAIN outbox : ~Is(outbox[i], "ready")) => ready
=============================================================================
