------------------------------- MODULE Tabs --------------------------------
(***************************************************************************)
(* The tab strip (src/renderer/tab-state.ts, src/renderer/tab-strip.ts)    *)
(* and the settings that carry it from one renderer, and one process, to   *)
(* the next (src/main/operator-settings-store.ts).                         *)
(*                                                                         *)
(* The operations are pure functions of the tab state; every commit sends  *)
(* the whole state to the main process, which coerces it and writes its    *)
(* file.  The first file may have been edited by hand.                     *)
(***************************************************************************)
EXTENDS Naturals, Sequences, FiniteSetsExt, SequencesExt

CONSTANTS
  TabDocs,        \* documents that a store may hold
  Asked,          \* names of searches that provident.focus is asked for
  Query,          \* the search parameters that are not the first ones
  Nothing,        \* nothing
  Written,        \* tab sets a hand may have left in the file
  MaxTabs,        \* bound of the model: open tabs
  MaxSent         \* bound of the model: patches on their way to the main process

WrittenTabs(raw) ==
  /\ raw = [open |-> raw.open, order |-> raw.order, active |-> raw.active]
  /\ Len(raw.open) \in Nat /\ raw.open = [i \in 1..Len(raw.open) |-> raw.open[i]]
  /\ Len(raw.order) \in Nat /\ raw.order = [i \in 1..Len(raw.order) |-> raw.order[i]]
  /\ \A i \in DOMAIN raw.open :
       /\ raw.open[i] = [id |-> raw.open[i].id, target |-> raw.open[i].target, search |-> raw.open[i].search]
       /\ raw.open[i].target = [kind |-> raw.open[i].target.kind, id |-> raw.open[i].target.id]
       /\ raw.open[i].id \in Nat

ASSUME WrittenAssumption == \A raw \in Written : WrittenTabs(raw)
ASSUME NothingAssumption == Nothing \notin Nat
ASSUME MaxTabsAssumption == MaxTabs \in Nat

VARIABLES
  strip,          \* TabStrip.state
  booted,         \* bootTabs has loaded it
  sent,           \* tab sets on their way to the main process, in order
  settings,       \* the operator settings: [tabs, default]
  saved,          \* their file
  stale,          \* the last write of the file failed
  documents,      \* the documents of the focused store
  \* history
  doubled         \* names of searches that were opened again on demand, or stood twice in the first file

tabVars == <<strip, booted, sent, settings, saved, stale, documents, doubled>>

Document(d) == [kind |-> "document", id |-> d]
SearchFor(q) == [kind |-> "search", id |-> q]
Landing == [kind |-> "other", id |-> Nothing]
Malformed == [kind |-> "malformed", id |-> Nothing]
Targets == {Document(d) : d \in TabDocs} \cup {SearchFor(q) : q \in Asked} \cup {Landing}

\* The ids tab-1, tab-2, ... are their numbers.
Ids(open) == {open[i].id : i \in DOMAIN open}
Searches(open) == {i \in DOMAIN open : open[i].target.kind = "search"}
NamesOf(open) == {open[i].target.id : i \in Searches(open)}
At(open, id) == CHOOSE i \in DOMAIN open : open[i].id = id

\* The members of a sequence that are at some of its positions, in order.
AtPositions(s, positions) ==
  [n \in 1..Cardinality(positions) |->
     s[CHOOSE i \in positions : Cardinality({j \in positions : j <= i}) = n]]

EmptyState == [open |-> <<>>, order |-> <<>>, active |-> Nothing]

----------------------------------------------------------------------------
(* tab-state.ts                                                             *)

\* nextTabId, nextQueryId: counting on from the number of open tabs.
NextFree(used, count) == Min({n \in count + 1 .. 2 * count + 1 : n \notin used})

Append1(state, target, search) ==
  LET id == NextFree(Ids(state.open), Len(state.open))
  IN  [open |-> Append(state.open, [id |-> id, target |-> target, search |-> search]),
       order |-> Append(state.order, id), active |-> id]

FocusTarget(state, target, newTab) ==
  LET same == {i \in DOMAIN state.open : state.open[i].target = target}
  IN  IF ~newTab /\ same # {}
        THEN [state EXCEPT !.active = state.open[Min(same)].id]
        ELSE Append1(state, target, Nothing)

\* The left neighbour of a closed active tab becomes active, else the right one.
CloseTab(state, id) ==
  LET at == CHOOSE i \in DOMAIN state.order : state.order[i] = id
      order == AtPositions(state.order, {i \in DOMAIN state.order : state.order[i] # id})
  IN  [open |-> AtPositions(state.open, {i \in DOMAIN state.open : state.open[i].id # id}),
       order |-> order,
       active |-> IF state.active # id THEN state.active
                  ELSE IF order = <<>> THEN Nothing
                  ELSE order[IF at > 1 THEN at - 1 ELSE 1]]

ReorderTab(state, id, to) ==
  LET others == AtPositions(state.order, {i \in DOMAIN state.order : state.order[i] # id})
  IN  [state EXCEPT !.order = InsertAt(others, IF to <= Len(others) THEN to ELSE Len(others) + 1, id)]

SetSearchParams(state, id, search) ==
  [state EXCEPT !.open[At(state.open, id)].search = search]

\* The most recent document if the store has it, else its first one, else the landing page.
ResolveDefaultTarget(default, first) ==
  IF default \in documents THEN Document(default)
  ELSE IF documents # {} THEN Document(first)
  ELSE Landing

EnsureFirstTab(state, default) ==
  IF state.open # <<>> THEN state
  ELSE Append1(EmptyState, ResolveDefaultTarget(default, CHOOSE d \in documents : TRUE), Nothing)

\* Whatever was read becomes a tab set: of every id the first tab with a target, the order without
\* repetitions and completed, an active tab.
CoerceTabState(raw) ==
  LET good == {i \in DOMAIN raw.open : raw.open[i].target # Malformed}
      open == AtPositions(raw.open, {i \in good : \A j \in good : j < i => raw.open[j].id # raw.open[i].id})
      listed == {i \in DOMAIN raw.order :
                   raw.order[i] \in Ids(open) /\ \A j \in DOMAIN raw.order : j < i => raw.order[j] # raw.order[i]}
      missing == AtPositions(open, {i \in DOMAIN open : open[i].id \notin ToSet(raw.order)})
      order == AtPositions(raw.order, listed) \o [i \in DOMAIN missing |-> missing[i].id]
  IN  [open |-> open, order |-> order,
       active |-> IF raw.active \in Ids(open) THEN raw.active ELSE IF order = <<>> THEN Nothing ELSE Head(order)]

----------------------------------------------------------------------------
(* The settings store of the main process and its file                      *)

\* A failed write is swallowed.  Bound of the model: the one after it succeeds.
Persist(new) ==
  \/ saved' = new /\ stale' = FALSE
  \/ ~stale /\ UNCHANGED saved /\ stale' = TRUE

\* The process starts: what the file says, coerced; the renderer boots.
Start(file) ==
  /\ settings' = [tabs |-> CoerceTabState(file.tabs), default |-> file.default]
  /\ strip' = EmptyState /\ booted' = FALSE /\ sent' = <<>>

TabInit ==
  \E tabs \in Written, d \in {Nothing} \cup TabDocs :
    /\ saved = [tabs |-> tabs, default |-> d] /\ stale = FALSE
    /\ settings = [tabs |-> CoerceTabState(tabs), default |-> d]
    /\ strip = EmptyState /\ booted = FALSE /\ sent = <<>>
    /\ documents \in SUBSET TabDocs
    /\ LET open == settings.tabs.open
       IN  doubled = {open[i].target.id : i \in {j \in Searches(open) :
                        \E k \in Searches(open) \ {j} : open[k].target.id = open[j].target.id}}

SetTabs ==
  /\ sent # <<>> /\ sent' = Tail(sent)
  /\ settings' = [settings EXCEPT !.tabs = CoerceTabState(Head(sent))]
  /\ Persist(settings')
  /\ UNCHANGED <<strip, booted, documents, doubled>>

\* A patch of another setting leaves the tabs alone.
SetDefault(d) ==
  /\ settings' = [settings EXCEPT !.default = d]
  /\ Persist(settings')
  /\ UNCHANGED <<strip, booted, sent, documents, doubled>>

\* The defaults stand for a file that is missing or cannot be parsed.
DefaultSettings == [tabs |-> EmptyState, default |-> Nothing]

\* Process death loses what is on its way, and the file when it strikes in a write.
RestartTabs ==
  /\ saved' \in {saved, DefaultSettings} /\ stale' = FALSE
  /\ Start(saved')
  /\ UNCHANGED <<documents, doubled>>

----------------------------------------------------------------------------
(* The strip                                                                *)

\* A mutation: the state sent is the one before.
Commit_Before(next) == strip' = next /\ sent' = Append(sent, strip)

Commit(next) == strip' = next /\ sent' = Append(sent, next)

Acts == Len(sent) < MaxSent /\ UNCHANGED <<booted, settings, saved, stale, documents>>
Grows == Len(strip.open) < MaxTabs

\* bootTabs: the settings are answered after what an earlier renderer sent.
BootTabs ==
  /\ ~booted /\ booted' = TRUE /\ sent = <<>>
  /\ Commit(EnsureFirstTab(CoerceTabState(settings.tabs), settings.default))
  /\ UNCHANGED <<settings, saved, stale, documents, doubled>>

\* The window reloads.
ReloadTabs ==
  /\ booted /\ booted' = FALSE /\ strip' = EmptyState
  /\ UNCHANGED <<sent, settings, saved, stale, documents, doubled>>

Operate(next) == Acts /\ Commit(next) /\ UNCHANGED doubled

\* provident.focus is served from the moment the renderer is ready, the strip's loading or not.  It takes a
\* search by its name, and with newTab opens it again under the same one.
Focus(target, newTab) ==
  LET next == FocusTarget(strip, target, newTab)
  IN  /\ Acts /\ Len(next.open) <= MaxTabs /\ Commit(next)
      /\ doubled' = doubled \cup {q \in NamesOf(strip.open) : newTab /\ target = SearchFor(q)}

\* A focus without a target, or of a tab that is not there while none is open.
FocusDefault == Operate(EnsureFirstTab(strip, settings.default))

Activate(id) == Operate([strip EXCEPT !.active = id])
NewTab == booted /\ Grows /\ documents = {} /\ Operate(Append1(strip, Landing, Nothing))
Close(id) == booted /\ Operate(EnsureFirstTab(CloseTab(strip, id), settings.default))
Reorder(id, to) == booted /\ Operate(ReorderTab(strip, id, to))

\* A mutation: the number of open tabs names the search, as it once did.
ExpandSearchTab_ByCount ==
  booted /\ Grows /\ Operate(Append1(strip, SearchFor(Len(strip.open) + 1), Nothing))

ExpandSearchTab ==
  booted /\ Grows /\ Operate(Append1(strip, SearchFor(NextFree(NamesOf(strip.open), Len(strip.open))), Nothing))

EditSearchQuery(id) ==
  /\ booted /\ strip.open[At(strip.open, id)].target.kind = "search"
  /\ Operate(SetSearchParams(strip, id, Query))

\* The focused store changes.
StoreChanges ==
  /\ documents' \in SUBSET TabDocs \ {documents}
  /\ UNCHANGED <<strip, booted, sent, settings, saved, stale, doubled>>

TabNext ==
  \/ SetTabs \/ RestartTabs \/ BootTabs \/ ReloadTabs \/ NewTab \/ ExpandSearchTab \/ FocusDefault \/ StoreChanges
  \/ \E d \in {Nothing} \cup TabDocs : SetDefault(d)
  \/ \E target \in Targets, newTab \in BOOLEAN : Focus(target, newTab)
  \/ \E id \in Ids(strip.open) :
       \/ Activate(id) \/ Close(id) \/ EditSearchQuery(id)
       \/ \E to \in 1..MaxTabs : Reorder(id, to)

TabSpec == TabInit /\ [][TabNext]_tabVars

----------------------------------------------------------------------------
(* Properties                                                               *)

\* After any sequence of operations, reloads and restarts, from any file, the strip lists each open tab once and
\* one of them is the active one; two searches share a name only where provident.focus was asked to open that
\* search again (or the first file had it twice): the strip itself never gives a name that is in use.
StripConsistent ==
  /\ Len(strip.order) = Len(strip.open) /\ ToSet(strip.order) = Ids(strip.open)
  /\ Cardinality(Ids(strip.open)) = Len(strip.open)
  /\ strip.active \in Ids(strip.open) \cup {Nothing} /\ (strip.active = Nothing => strip.open = <<>>)
  /\ \A i, j \in Searches(strip.open) :
       i # j /\ strip.open[i].target.id = strip.open[j].target.id => strip.open[i].target.id \in doubled

\* Once the patches are in, a reload mounts the very same strip, and so does a restart unless the file
\* could not be written: coercion never touches a state the strip can be in.
StripSurvives ==
  (strip.open # <<>> /\ sent = <<>>) =>
    /\ settings.tabs = strip
    /\ ~stale => CoerceTabState(saved.tabs) = strip

\* docs/specs/unit-u-shell-9a-main-focus-tabs.md:118-120 and src/renderer/renderer.ts:867-869: the tabs survive a
\* restart; the boot loads the persisted set.  So what a booting page sends keeps every tab of the settings.
BootKeepsTabs ==
  [][(~booted /\ Len(sent') > Len(sent)) =>
       Ids(settings.tabs.open) \subseteq Ids(Last(sent').open)]_tabVars
=============================================================================
