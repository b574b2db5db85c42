------------------------------- MODULE Layout -------------------------------
(***************************************************************************)
(* The panes of the shell: which are shown, in which zone and order, and   *)
(* the pointer gestures that move them (src/renderer/renderer.ts,          *)
(* pane-drag.ts, pane-gutter.ts, layout-state.ts, sidebar-panes.ts).       *)
(*                                                                         *)
(* The renderer changes its copy of the layout first and sends it to the   *)
(* main process, which broadcasts the settings after every change; what    *)
(* the renderer hears replaces its copy, whatever it did meanwhile.        *)
(***************************************************************************)
EXTENDS Naturals, FiniteSets, Sequences

CONSTANTS
  Registered,     \* the app panes, in the order of their registration
  Zones, Left,    \* the zones; panes without a place of their own are in Left
  Sizes, Default, \* sizes of a zone, and the one of a new layout
  FirstRun,       \* the panes shown on a first run
  NoGesture,      \* no gesture, and no size yet
  MaxChanges,     \* bound of the model: changes of the layout
  MaxPatches      \* bound of the model: messages on their way, there and back

Panes == {Registered[i] : i \in DOMAIN Registered}
Gestures == [kind : {"pane"}, pane : Panes, moved : BOOLEAN]
              \cup [kind : {"gutter"}, zone : Zones, size : Sizes \cup {NoGesture}]

\* With more than two panes, panes of the same order would have to be told apart.
ASSUME LayoutAssumption ==
  /\ Left \in Zones /\ Default \in Sizes /\ FirstRun \subseteq Panes
  /\ Registered \in Seq(Panes) /\ Len(Registered) <= 2
  /\ NoGesture \notin Gestures \cup Sizes

VARIABLES
  layout,         \* SidebarPanes.layout: [placed: pane -> [zone, order, collapsed], zone: zone -> [size, minimized]]
  enabled,        \* the panes the registry has enabled
  applied,        \* boot has read the settings
  touched,        \* paneVisibilityTouched
  gesture,        \* activeGesture, and the controller that follows it
  revealed,       \* the zones shown as drop targets
  config,         \* the operator settings: [layout, enabled, initialized]
  up,             \* patches and reads on their way to the main process
  down,           \* broadcasts and answers on their way back
  \* history
  meant,          \* the layout that the last gesture made
  changes         \* changes of the layout so far

shown == <<gesture, revealed>>
layoutVars == <<layout, enabled, applied, touched, gesture, revealed, config, up, down, meant, changes>>

NewLayout == [placed |-> <<>>, zone |-> [z \in Zones |-> [size |-> Default, minimized |-> FALSE]]]

----------------------------------------------------------------------------
(* The layout and its changes                                              *)

\* Where a pane is shown: its own place, else the left zone in the order of registration.
DefaultPlace(p) ==
  [zone |-> Left,
   order |-> Cardinality({i \in DOMAIN Registered : Registered[i] \in enabled /\ \E j \in DOMAIN Registered : j > i /\ Registered[j] = p}),
   collapsed |-> FALSE]
Place(lay, p) == IF p \in DOMAIN lay.placed THEN lay.placed[p] ELSE DefaultPlace(p)
ShownIn(lay, z) == {p \in enabled : Place(lay, p).zone = z}

\* A collapsed pane is given a place of its own.
Collapse(lay, p) ==
  [lay EXCEPT !.placed = [q \in DOMAIN lay.placed \cup {p} |->
     IF q = p THEN [Place(lay, p) EXCEPT !.collapsed = ~@] ELSE lay.placed[q]]]

Ahead(lay, q, p, z) ==
  {r \in DOMAIN lay.placed \ {p} : lay.placed[r].zone = z /\ lay.placed[r].order < lay.placed[q].order}

\* movePane: only a pane that has a place is moved; the panes of both zones are numbered anew.
MovePane(lay, p, z, at) ==
  IF p \notin DOMAIN lay.placed THEN lay
  ELSE LET Rank(q) == Cardinality(Ahead(lay, q, p, lay.placed[q].zone))
           from == lay.placed[p].zone
       IN  [lay EXCEPT !.placed = [q \in DOMAIN lay.placed |->
              IF q = p THEN [lay.placed[p] EXCEPT !.zone = z, !.order = at]
              ELSE IF lay.placed[q].zone = z
                THEN [lay.placed[q] EXCEPT !.order = Rank(q) + (IF Rank(q) >= at THEN 1 ELSE 0)]
              ELSE IF lay.placed[q].zone = from THEN [lay.placed[q] EXCEPT !.order = Rank(q)]
              ELSE lay.placed[q]]]

\* insertionIndexForPoint: one slot before each placed pane of the zone, one after the last.
Slots(lay, p, z) == 0 .. Cardinality({q \in DOMAIN lay.placed \ {p} : lay.placed[q].zone = z})

\* An empty zone cannot be minimized.
SetZoneMinimized(lay, z, minimized, panes) == [lay EXCEPT !.zone[z].minimized = minimized /\ panes # {}]
SetZoneSize(lay, z, size) == [lay EXCEPT !.zone[z].size = size]

----------------------------------------------------------------------------
(* The main process                                                        *)

Send(patch) == Len(up) + Len(down) < MaxPatches /\ up' = Append(up, patch)
LayoutPatch(lay) == [kind |-> "layout", value |-> lay]
EnabledPatch(set) == [kind |-> "enabled", value |-> set]

\* What is not in the patch stays.
Patched(patch) ==
  CASE patch.kind = "layout" -> [config EXCEPT !.layout = patch.value]
    [] patch.kind = "enabled" -> [config EXCEPT !.enabled = patch.value, !.initialized = TRUE]
    [] OTHER -> config

\* Every patch is answered by a broadcast of the whole settings, a read by its answer.
SettingsSet ==
  /\ up # <<>> /\ up' = Tail(up)
  /\ config' = Patched(Head(up))
  /\ down' = Append(down, config'.layout)
  /\ UNCHANGED <<layout, enabled, applied, touched, shown, meant, changes>>

\* onOperatorSettingsChanged, and the answer that refresh() waits for.
LayoutHears ==
  /\ applied /\ down # <<>> /\ down' = Tail(down)
  /\ layout' = Head(down)
  /\ UNCHANGED <<enabled, meant, changes, applied, touched, shown, config, up>>

\* A patch of another setting, or refresh(): neither has a layout, and a layout comes back.
OtherPatch == applied /\ Send([kind |-> "other"]) /\ UNCHANGED <<layout, enabled, applied, touched, shown, config, down, meant, changes>>

----------------------------------------------------------------------------
(* The page                                                                *)

LayoutInit ==
  /\ config = [layout |-> NewLayout, enabled |-> {}, initialized |-> FALSE]
  /\ layout = NewLayout /\ meant = NewLayout /\ changes = 0
  /\ enabled = Panes /\ applied = FALSE /\ touched = FALSE
  /\ gesture = NoGesture /\ revealed = {}
  /\ up = <<>> /\ down = <<>>

\* The window reloads; the settings are asked for after what the old page sent.
LayoutReload ==
  /\ applied /\ up = <<>>
  /\ applied' = FALSE /\ touched' = FALSE /\ enabled' = Panes
  /\ gesture' = NoGesture /\ revealed' = {} /\ down' = <<>>
  /\ UNCHANGED <<layout, config, up, meant, changes>>

\* A mutation: the boot forgets to look for an earlier toggle.
ApplyPersisted_Blind(firstRun) ==
  /\ enabled' = IF firstRun THEN FirstRun ELSE config.enabled
  /\ IF firstRun THEN Send(EnabledPatch(FirstRun)) ELSE UNCHANGED up

\* applyPersistedPaneVisibility: a toggle made while the settings were on their way wins.
ApplyPersisted(firstRun) ==
  IF touched THEN UNCHANGED <<enabled, up>>
  ELSE /\ enabled' = IF firstRun THEN FirstRun ELSE config.enabled
       /\ IF firstRun THEN Send(EnabledPatch(FirstRun)) ELSE UNCHANGED up

\* boot: the answer is what the settings were before the page's own toggles came in, or after.
LayoutBoot ==
  /\ ~applied /\ applied' = TRUE
  /\ layout' = config.layout /\ meant' = config.layout
  /\ ApplyPersisted(config.enabled = {} /\ ~config.initialized)
  /\ down' = <<>>
  /\ UNCHANGED <<touched, changes, shown, config>>

\* Every pane can be toggled from the native menu, from before the settings are there.
ToggleVisibility(p) ==
  /\ enabled' = IF p \in enabled THEN enabled \ {p} ELSE enabled \cup {p}
  /\ touched' = TRUE /\ Send(EnabledPatch(enabled'))
  /\ UNCHANGED <<layout, applied, shown, config, down, meant, changes>>

\* The write-through of every layout change.
SetLayout(next) ==
  /\ changes < MaxChanges /\ changes' = changes + 1
  /\ layout' = next /\ meant' = next
  /\ Send(LayoutPatch(next))
Page == applied /\ UNCHANGED <<enabled, applied, touched, config, down>>

ToggleCollapse(p) ==
  /\ Page /\ p \in enabled
  /\ SetLayout(Collapse(layout, p))
  /\ UNCHANGED shown

ZoneMinimizeToggle(z) ==
  /\ Page /\ ShownIn(layout, z) # {}
  /\ SetLayout(SetZoneMinimized(layout, z, ~layout.zone[z].minimized, ShownIn(layout, z)))
  /\ UNCHANGED shown

PaneTabExpand(z) ==
  /\ Page /\ layout.zone[z].minimized /\ ShownIn(layout, z) # {}
  /\ SetLayout(SetZoneMinimized(layout, z, FALSE, {}))
  /\ UNCHANGED shown

----------------------------------------------------------------------------
(* Gestures                                                                *)

NoWrite == UNCHANGED <<layout, up, meant, changes>>

\* A pointer goes down on the header of a pane; an unfinished gesture is cancelled first.
PaneDown(p) ==
  /\ Page /\ p \in enabled /\ NoWrite
  /\ gesture' = [kind |-> "pane", pane |-> p, moved |-> FALSE] /\ revealed' = {}

Resizable(z) == ShownIn(layout, z) # {} /\ ~layout.zone[z].minimized

GutterDown(z) ==
  /\ Page /\ Resizable(z) /\ NoWrite
  /\ gesture' = [kind |-> "gutter", zone |-> z, size |-> NoGesture] /\ revealed' = {}

\* The zones within reach of the pointer are shown as drop targets.
PaneMove(reached) ==
  /\ Page /\ gesture # NoGesture /\ gesture.kind = "pane" /\ NoWrite
  /\ gesture' = [gesture EXCEPT !.moved = TRUE] /\ revealed' = reached

GutterMove(size) ==
  /\ Page /\ gesture # NoGesture /\ gesture.kind = "gutter" /\ NoWrite
  /\ gesture' = [gesture EXCEPT !.size = size] /\ UNCHANGED revealed

Released == gesture' = NoGesture /\ revealed' = {}

\* A drop onto the pane's own position writes nothing.
PaneDrop(z, at) ==
  /\ Page /\ gesture # NoGesture /\ gesture.kind = "pane" /\ gesture.moved
  /\ at \in Slots(layout, gesture.pane, z)
  /\ LET next == MovePane(layout, gesture.pane, z, at)
         stays == gesture.pane \in DOMAIN layout.placed /\ Place(next, gesture.pane) = Place(layout, gesture.pane)
     IN  IF stays THEN NoWrite ELSE SetLayout(next)
  /\ Released

GutterUp ==
  /\ Page /\ gesture # NoGesture /\ gesture.kind = "gutter"
  /\ IF gesture.size = NoGesture THEN NoWrite
     ELSE SetLayout(SetZoneSize(layout, gesture.zone, gesture.size))
  /\ Released

\* A click, a drop outside of all zones, a cancelled or a lost pointer.
GestureCancel == Page /\ gesture # NoGesture /\ NoWrite /\ Released

\* A double click on a gutter puts the default size back.
GutterReset(z) ==
  /\ Page /\ Resizable(z)
  /\ SetLayout(SetZoneSize(layout, z, Default))
  /\ UNCHANGED shown

LayoutNext ==
  \/ SettingsSet \/ LayoutHears \/ OtherPatch \/ LayoutReload \/ LayoutBoot \/ GutterUp \/ GestureCancel
  \/ \E p \in Panes : ToggleVisibility(p) \/ ToggleCollapse(p) \/ PaneDown(p)
  \/ \E z \in Zones : ZoneMinimizeToggle(z) \/ PaneTabExpand(z) \/ GutterDown(z) \/ GutterReset(z)
  \/ \E reached \in SUBSET Zones : PaneMove(reached)
  \/ \E size \in Sizes : GutterMove(size)
  \/ \E z \in Zones, at \in 0..Len(Registered) : PaneDrop(z, at)

LayoutSpec == LayoutInit /\ [][LayoutNext]_layoutVars

----------------------------------------------------------------------------
(* Properties                                                              *)

LayoutQuiet == applied /\ up = <<>> /\ down = <<>>

\* Once every message has arrived the page has the layout and the panes that the settings have, whatever
\* toggles, gestures, reloads and changes of other settings went before; and no drop target stays shown.
\* A broadcast, or the answer to a refresh, may put an older layout back for a while: when the messages have
\* arrived the layout is again the one that the last gesture made, of whatever layout it found.
LayoutConverges ==
  /\ LayoutQuiet => layout = config.layout /\ layout = meant /\ enabled = config.enabled
  /\ gesture = NoGesture => revealed = {}
=============================================================================
