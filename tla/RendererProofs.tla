---------------------------- MODULE RendererProofs ----------------------------
(***************************************************************************)
(* What holds of the renderer's layout, page, graph of the page and tab    *)
(* strip for any panes, zones, documents and nodes, and any number of      *)
(* messages on their way.                                                  *)
(***************************************************************************)
EXTENDS Stage, Layout, PageGraph, Tabs, SequenceTheorems, FiniteSetTheorems, WellFoundedInduction, TLAPS

----------------------------------------------------------------------------
(* Patches on their way                                                    *)

Silent(s, kind) == \A i \in DOMAIN s : s[i].kind # kind
LastSays(s, kind, value) ==
  \A i \in DOMAIN s : s[i].kind = kind /\ (\A j \in DOMAIN s : j > i => s[j].kind # kind) => s[i].value = value

\* What the settings will have when the patches of a kind are in.
EndsWith(s, kind, stored, value) == (Silent(s, kind) => stored = value) /\ LastSays(s, kind, value)

\* A patch that is added decides, if it is of that kind.
LEMMA AppendEnds ==
  ASSUME NEW S, NEW s \in Seq(S), NEW m \in S, NEW kind, NEW stored, NEW value, NEW new,
         EndsWith(s, kind, stored, value),
         IF m.kind = kind THEN m.value = new ELSE new = value
  PROVE  EndsWith(Append(s, m), kind, stored, new)
PROOF
<1>. DEFINE t == Append(s, m)
            n == Len(s) + 1
<1>1. n \in DOMAIN t /\ t[n] = m /\ DOMAIN t = DOMAIN s \cup {n} /\ n \notin DOMAIN s
      /\ (\A i \in DOMAIN s : i < n /\ t[i] = s[i])
  OBVIOUS
<1>. HIDE DEF t, n
<1>2. CASE m.kind = kind
  <2>1. ~Silent(t, kind)
    BY <1>1, <1>2 DEF Silent
  <2>2. LastSays(t, kind, new)
    BY <1>1, <1>2 DEF LastSays
  <2>. QED BY <2>1, <2>2 DEF EndsWith, t
<1>3. CASE m.kind # kind
  <2>1. Silent(t, kind) => Silent(s, kind)
    BY <1>1 DEF Silent
  <2>2. LastSays(t, kind, new)
    <3>1. ASSUME NEW i \in DOMAIN t, t[i].kind = kind, \A j \in DOMAIN t : j > i => t[j].kind # kind
          PROVE  t[i].value = new
      <4>1. i \in DOMAIN s /\ s[i].kind = kind /\ t[i] = s[i]
        BY <1>1, <1>3, <3>1
      <4>2. \A j \in DOMAIN s : j > i => s[j].kind # kind
        BY <1>1, <3>1
      <4>. QED BY <4>1, <4>2, <1>3 DEF EndsWith, LastSays
    <3>. QED BY <3>1 DEF LastSays
  <2>. QED BY <2>1, <2>2, <1>3 DEF EndsWith, t
<1>. QED BY <1>2, <1>3

\* The first patch is stored; the others stay on their way.
LEMMA TailEnds ==
  ASSUME NEW S, NEW s \in Seq(S), s # <<>>, NEW kind, NEW stored, NEW value, NEW new,
         EndsWith(s, kind, stored, value),
         IF Head(s).kind = kind THEN new = Head(s).value ELSE new = stored
  PROVE  EndsWith(Tail(s), kind, new, value)
PROOF
<1>. DEFINE t == Tail(s)
<1>1. Len(s) \in Nat /\ Len(s) > 0 /\ DOMAIN s = 1..Len(s) /\ Head(s) = s[1]
  OBVIOUS
<1>2. DOMAIN t = 1..Len(s) - 1 /\ \A i \in DOMAIN t : i + 1 \in DOMAIN s /\ t[i] = s[i + 1]
  OBVIOUS
<1>. HIDE DEF t
<1>3. ASSUME NEW i \in DOMAIN s, i # 1 PROVE i - 1 \in DOMAIN t /\ t[i - 1] = s[i]
  <2>1. i - 1 \in DOMAIN t /\ (i - 1) + 1 = i
    BY <1>1, <1>2, <1>3
  <2>. QED BY <2>1, <1>2
<1>4. LastSays(t, kind, value)
  <2>1. ASSUME NEW i \in DOMAIN t, t[i].kind = kind, \A j \in DOMAIN t : j > i => t[j].kind # kind
        PROVE  t[i].value = value
    <3>1. i + 1 \in DOMAIN s /\ s[i + 1].kind = kind
      BY <1>2, <2>1
    <3>2. ASSUME NEW j \in DOMAIN s, j > i + 1 PROVE s[j].kind # kind
      <4>1. j - 1 \in DOMAIN t /\ t[j - 1] = s[j] /\ j - 1 > i
        BY <1>1, <1>2, <1>3, <3>2
      <4>. QED BY <4>1, <2>1
    <3>3. s[i + 1].value = value
      BY <3>1, <3>2 DEF EndsWith, LastSays
    <3>. QED BY <3>3, <1>2
  <2>. QED BY <2>1 DEF LastSays
<1>5. ASSUME Silent(t, kind) PROVE new = value
  <2>1. \A i \in DOMAIN s : i # 1 => s[i].kind # kind
    BY <1>3, <1>5 DEF Silent
  <2>2. CASE Head(s).kind = kind
    BY <2>1, <2>2, <1>1 DEF EndsWith, LastSays
  <2>3. CASE Head(s).kind # kind
    <3>1. Silent(s, kind)
      BY <2>1, <2>3, <1>1 DEF Silent
    <3>. QED BY <3>1, <2>3 DEF EndsWith
  <2>. QED BY <2>2, <2>3
<1>. QED BY <1>4, <1>5 DEF EndsWith, t

----------------------------------------------------------------------------
(* The layout                                                              *)

Places == [zone : Zones, order : Nat, collapsed : BOOLEAN]
Layouts == [placed : UNION {[S -> Places] : S \in SUBSET Panes},
            zone : [Zones -> [size : Sizes, minimized : BOOLEAN]]]
Configs == [layout : Layouts, enabled : SUBSET Panes, initialized : BOOLEAN]
Patches == [kind : {"layout"}, value : Layouts] \cup [kind : {"enabled"}, value : SUBSET Panes] \cup [kind : {"other"}]

LayoutTypeOK ==
  /\ layout \in Layouts /\ meant \in Layouts /\ config \in Configs
  /\ enabled \in SUBSET Panes /\ applied \in BOOLEAN /\ touched \in BOOLEAN
  /\ gesture \in Gestures \cup {NoGesture} /\ revealed \in SUBSET Zones
  /\ up \in Seq(Patches) /\ down \in Seq(Layouts) /\ changes \in Nat

\* The newest message on its way back is what the settings are; without any, and without patches, the page has it.
BroadcastsFollow ==
  /\ down # <<>> => down[Len(down)] = config.layout
  /\ applied /\ up = <<>> /\ down = <<>> => layout = config.layout

\* The last gesture decides the layout of the settings; the last toggle, or the boot, which panes are enabled.
PatchesDecide ==
  /\ EndsWith(up, "layout", config.layout, meant)
  /\ applied \/ touched => EndsWith(up, "enabled", config.enabled, enabled)

\* Before the boot has read the settings the page sends toggles only.
BootSendsToggles ==
  ~applied => Silent(up, "layout") /\ (~touched => up = <<>>)

LayoutIInv ==
  LayoutTypeOK /\ BroadcastsFollow /\ PatchesDecide /\ BootSendsToggles /\ (gesture = NoGesture => revealed = {})

LEMMA PanesFinite == IsFiniteSet(Panes) /\ \A S \in SUBSET Panes : IsFiniteSet(S) /\ Cardinality(S) \in Nat
PROOF
<1>1. Registered \in Seq(Panes)
  BY LayoutAssumption
<1>2. IsFiniteSet(DOMAIN Registered)
  BY <1>1, FS_Interval
<1>3. IsFiniteSet(Panes)
  <2>1. Registered \in Surjection(DOMAIN Registered, Panes)
    BY <1>1 DEF Surjection, Panes
  <2>. QED BY <1>2, <2>1, FS_Surjection DEF ExistsSurjection
<1>. QED BY <1>3, FS_Subset, FS_CardinalityType

LEMMA PlaceType == ASSUME enabled \in SUBSET Panes, NEW lay \in Layouts, NEW p \in Panes PROVE Place(lay, p) \in Places
PROOF
<1>1. CASE p \in DOMAIN lay.placed
  BY <1>1 DEF Place, Layouts
<1>2. CASE p \notin DOMAIN lay.placed
  <2>. DEFINE before == {i \in DOMAIN Registered : Registered[i] \in enabled /\ \E j \in DOMAIN Registered : j > i /\ Registered[j] = p}
  <2>1. Registered \in Seq(Panes) /\ Left \in Zones
    BY LayoutAssumption
  <2>2. IsFiniteSet(DOMAIN Registered)
    BY <2>1, FS_Interval
  <2>3. Cardinality(before) \in Nat
    BY <2>2, FS_Subset, FS_CardinalityType
  <2>. HIDE DEF before
  <2>4. Place(lay, p) = [zone |-> Left, order |-> Cardinality(before), collapsed |-> FALSE]
    BY <1>2 DEF Place, DefaultPlace, before
  <2>. QED BY <2>1, <2>3, <2>4 DEF Places
<1>. QED BY <1>1, <1>2

\* A layout whose places are changed.
LEMMA PlacedType ==
  ASSUME NEW lay \in Layouts, NEW S \in SUBSET Panes, NEW placed \in [S -> Places]
  PROVE  [lay EXCEPT !.placed = placed] \in Layouts
PROOF
<1>1. placed \in UNION {[T -> Places] : T \in SUBSET Panes}
  OBVIOUS
<1>. QED BY <1>1 DEF Layouts

LEMMA CollapseType ==
  ASSUME enabled \in SUBSET Panes, NEW lay \in Layouts, NEW p \in Panes PROVE Collapse(lay, p) \in Layouts
PROOF
<1>. DEFINE S == DOMAIN lay.placed \cup {p}
            moved == [Place(lay, p) EXCEPT !.collapsed = ~@]
            placed == [q \in S |-> IF q = p THEN moved ELSE lay.placed[q]]
<1>1. moved \in Places
  BY PlaceType DEF Places
<1>2. S \in SUBSET Panes /\ \A q \in DOMAIN lay.placed : lay.placed[q] \in Places
  BY DEF Layouts
<1>3. placed \in [S -> Places]
  BY <1>1, <1>2
<1>4. Collapse(lay, p) = [lay EXCEPT !.placed = placed]
  BY DEF Collapse
<1>. QED BY <1>2, <1>3, <1>4, PlacedType

LEMMA MovePaneType ==
  ASSUME NEW lay \in Layouts, NEW p \in Panes, NEW z \in Zones, NEW at \in Nat PROVE MovePane(lay, p, z, at) \in Layouts
PROOF
<1>1. CASE p \notin DOMAIN lay.placed
  BY <1>1 DEF MovePane
<1>2. CASE p \in DOMAIN lay.placed
  <2>. DEFINE S == DOMAIN lay.placed
              Rank(q) == Cardinality(Ahead(lay, q, p, lay.placed[q].zone))
              from == lay.placed[p].zone
              placed == [q \in S |->
                IF q = p THEN [lay.placed[p] EXCEPT !.zone = z, !.order = at]
                ELSE IF lay.placed[q].zone = z
                  THEN [lay.placed[q] EXCEPT !.order = Rank(q) + (IF Rank(q) >= at THEN 1 ELSE 0)]
                ELSE IF lay.placed[q].zone = from THEN [lay.placed[q] EXCEPT !.order = Rank(q)]
                ELSE lay.placed[q]]
  <2>1. S \in SUBSET Panes /\ \A q \in S : lay.placed[q] \in Places
    BY DEF Layouts
  <2>2. \A q \in S : Rank(q) \in Nat
    <3>1. \A q \in S : Ahead(lay, q, p, lay.placed[q].zone) \in SUBSET Panes
      BY <2>1 DEF Ahead
    <3>. QED BY <3>1, PanesFinite
  <2>3. MovePane(lay, p, z, at) = [lay EXCEPT !.placed = placed]
    BY <1>2 DEF MovePane
  <2>4. ASSUME NEW q \in S PROVE placed[q] \in Places
    <3>. DEFINE n == Rank(q)
    <3>1. n \in Nat /\ lay.placed[q] \in Places /\ lay.placed[p] \in Places
      BY <1>2, <2>1, <2>2
    <3>2. placed[q] \in {[lay.placed[p] EXCEPT !.zone = z, !.order = at],
                         [lay.placed[q] EXCEPT !.order = n + 1], [lay.placed[q] EXCEPT !.order = n + 0],
                         [lay.placed[q] EXCEPT !.order = n], lay.placed[q]}
      OBVIOUS
    <3>. HIDE DEF n, placed
    <3>3. [lay.placed[p] EXCEPT !.zone = z, !.order = at] \in Places
      BY <3>1 DEF Places
    <3>4. \A m \in Nat : [lay.placed[q] EXCEPT !.order = m] \in Places
      BY <3>1 DEF Places
    <3>. QED BY <3>1, <3>2, <3>3, <3>4
  <2>5. placed \in [S -> Places]
    BY <2>4
  <2>. HIDE DEF placed
  <2>. QED BY <2>1, <2>3, <2>5, PlacedType
<1>. QED BY <1>1, <1>2

LEMMA ZoneTypes ==
  ASSUME NEW lay \in Layouts, NEW z \in Zones
  PROVE  /\ \A minimized \in BOOLEAN : \A panes : SetZoneMinimized(lay, z, minimized, panes) \in Layouts
         /\ \A size \in Sizes : SetZoneSize(lay, z, size) \in Layouts
BY DEF Layouts, SetZoneMinimized, SetZoneSize

\* A patch that is sent is the last one.
LEMMA SendGives ==
  ASSUME LayoutTypeOK, NEW patch \in Patches, Send(patch)
  PROVE  /\ up' = Append(up, patch) /\ up' \in Seq(Patches) /\ up' # <<>>
         /\ \A kind : patch.kind # kind /\ Silent(up, kind) => Silent(up', kind)
PROOF
<1>1. up \in Seq(Patches) /\ up' = Append(up, patch)
  BY DEF LayoutTypeOK, Send
<1>2. up' \in Seq(Patches) /\ up' # <<>>
  BY <1>1
<1>3. \A i \in DOMAIN up' : up'[i] = patch \/ (i \in DOMAIN up /\ up'[i] = up[i])
  <2>. DEFINE t == Append(up, patch)
              n == Len(up) + 1
  <2>1. DOMAIN t = DOMAIN up \cup {n} /\ t[n] = patch /\ \A i \in DOMAIN up : t[i] = up[i]
    BY <1>1
  <2>2. up' = t
    BY <1>1
  <2>. HIDE DEF t, n
  <2>. QED BY <2>1, <2>2
<1>. QED BY <1>1, <1>2, <1>3 DEF Silent

LEMMA SetLayoutInv ==
  ASSUME LayoutIInv, NEW next \in Layouts, Page, SetLayout(next),
         gesture' \in Gestures \cup {NoGesture}, revealed' \in SUBSET Zones, gesture' = NoGesture => revealed' = {}
  PROVE  LayoutIInv'
PROOF
<1>. DEFINE patch == LayoutPatch(next)
<1>1. /\ applied /\ UNCHANGED <<enabled, applied, touched, config, down>>
      /\ layout' = next /\ meant' = next /\ changes' = changes + 1 /\ Send(patch)
  BY DEF Page, SetLayout
<1>2. patch \in Patches /\ patch.kind = "layout" /\ patch.value = next
  BY DEF LayoutPatch, Patches
<1>. HIDE DEF patch
<1>3. up' = Append(up, patch) /\ up' \in Seq(Patches) /\ up' # <<>> /\ up \in Seq(Patches)
  BY <1>1, <1>2, SendGives DEF LayoutIInv, LayoutTypeOK
<1>4. LayoutTypeOK'
  BY <1>1, <1>3 DEF LayoutIInv, LayoutTypeOK
<1>5. BroadcastsFollow'
  BY <1>1, <1>3 DEF LayoutIInv, BroadcastsFollow
<1>6. EndsWith(up', "layout", config.layout, next)
  BY <1>2, <1>3, AppendEnds DEF LayoutIInv, PatchesDecide
<1>7. EndsWith(up', "enabled", config.enabled, enabled)
  BY <1>1, <1>2, <1>3, AppendEnds DEF LayoutIInv, PatchesDecide
<1>8. PatchesDecide'
  BY <1>1, <1>6, <1>7 DEF PatchesDecide
<1>. QED BY <1>1, <1>4, <1>5, <1>8 DEF LayoutIInv, BootSendsToggles

LEMMA NoWriteInv ==
  ASSUME LayoutIInv, Page, NoWrite,
         gesture' \in Gestures \cup {NoGesture}, revealed' \in SUBSET Zones, gesture' = NoGesture => revealed' = {}
  PROVE  LayoutIInv'
PROOF
<1>1. UNCHANGED <<enabled, applied, touched, config, down, layout, up, meant, changes>>
  BY DEF Page, NoWrite
<1>. QED BY <1>1 DEF LayoutIInv, LayoutTypeOK, BroadcastsFollow, PatchesDecide, BootSendsToggles

LEMMA SettingsSetInv == LayoutIInv /\ SettingsSet => LayoutIInv'
PROOF
<1>. SUFFICES ASSUME LayoutIInv, SettingsSet PROVE LayoutIInv'
  OBVIOUS
<1>1. /\ up # <<>> /\ up' = Tail(up) /\ config' = Patched(Head(up)) /\ down' = Append(down, config'.layout)
      /\ UNCHANGED <<layout, enabled, applied, touched, shown, meant, changes>>
  BY DEF SettingsSet
<1>2. up \in Seq(Patches) /\ config \in Configs /\ down \in Seq(Layouts)
  BY DEF LayoutIInv, LayoutTypeOK
<1>3. Head(up) \in Patches /\ up' \in Seq(Patches)
  BY <1>1, <1>2
<1>4. /\ config' \in Configs
      /\ IF Head(up).kind = "layout" THEN config'.layout = Head(up).value ELSE config'.layout = config.layout
      /\ IF Head(up).kind = "enabled" THEN config'.enabled = Head(up).value ELSE config'.enabled = config.enabled
  <2>1. CASE Head(up) \in [kind : {"layout"}, value : Layouts]
    BY <1>1, <1>2, <2>1 DEF Patched, Configs
  <2>2. CASE Head(up) \in [kind : {"enabled"}, value : SUBSET Panes]
    BY <1>1, <1>2, <2>2 DEF Patched, Configs
  <2>3. CASE Head(up) \in [kind : {"other"}]
    BY <1>1, <1>2, <2>3 DEF Patched, Configs
  <2>. QED BY <1>3, <2>1, <2>2, <2>3 DEF Patches
<1>5. down' \in Seq(Layouts) /\ down' # <<>> /\ down'[Len(down')] = config'.layout
  <2>1. config'.layout \in Layouts /\ down' = Append(down, config'.layout)
    BY <1>1, <1>4 DEF Configs
  <2>. QED BY <1>2, <2>1
<1>6. LayoutTypeOK'
  BY <1>1, <1>3, <1>4, <1>5 DEF LayoutIInv, LayoutTypeOK, shown
<1>7. BroadcastsFollow'
  BY <1>5 DEF BroadcastsFollow
<1>8. EndsWith(Tail(up), "layout", config'.layout, meant)
  BY <1>1, <1>2, <1>4, TailEnds DEF LayoutIInv, PatchesDecide
<1>9. applied \/ touched => EndsWith(Tail(up), "enabled", config'.enabled, enabled)
  BY <1>1, <1>2, <1>4, TailEnds DEF LayoutIInv, PatchesDecide
<1>10. PatchesDecide'
  BY <1>1, <1>8, <1>9 DEF PatchesDecide
<1>11. BootSendsToggles'
  <2>1. \A i \in DOMAIN up' : i + 1 \in DOMAIN up /\ up'[i] = up[i + 1]
    BY <1>1, <1>2
  <2>. QED BY <1>1, <2>1 DEF LayoutIInv, BootSendsToggles, Silent
<1>. QED BY <1>1, <1>6, <1>7, <1>10, <1>11 DEF LayoutIInv, shown

LEMMA LayoutHearsInv == LayoutIInv /\ LayoutHears => LayoutIInv'
PROOF
<1>. SUFFICES ASSUME LayoutIInv, LayoutHears PROVE LayoutIInv'
  OBVIOUS
<1>1. /\ applied /\ down # <<>> /\ down' = Tail(down) /\ layout' = Head(down)
      /\ UNCHANGED <<enabled, meant, changes, applied, touched, gesture, revealed, config, up>>
  BY DEF LayoutHears, shown
<1>2. down \in Seq(Layouts) /\ Len(down) \in Nat /\ Len(down) > 0
  BY <1>1 DEF LayoutIInv, LayoutTypeOK
<1>3. down' \in Seq(Layouts) /\ Len(down') = Len(down) - 1 /\ layout' \in Layouts /\ layout' = down[1]
      /\ \A i \in 1..Len(down) - 1 : down'[i] = down[i + 1]
  BY <1>1, <1>2
<1>4. LayoutTypeOK'
  BY <1>1, <1>3 DEF LayoutIInv, LayoutTypeOK
<1>5. BroadcastsFollow'
  <2>1. down[Len(down)] = config.layout
    BY <1>1 DEF LayoutIInv, BroadcastsFollow
  <2>2. CASE Len(down) = 1
    BY <1>1, <1>3, <2>1, <2>2 DEF BroadcastsFollow
  <2>3. CASE Len(down) > 1
    <3>1. Len(down) - 1 \in 1..Len(down) - 1 /\ (Len(down) - 1) + 1 = Len(down)
      BY <1>2, <2>3
    <3>2. down'[Len(down')] = down[Len(down)] /\ down' # <<>>
      BY <1>3, <3>1
    <3>. QED BY <1>1, <2>1, <3>2 DEF BroadcastsFollow
  <2>4. Len(down) = 1 \/ Len(down) > 1
    BY <1>2
  <2>. QED BY <2>2, <2>3, <2>4
<1>. QED BY <1>1, <1>4, <1>5 DEF LayoutIInv, PatchesDecide, BootSendsToggles

LEMMA OtherPatchInv == LayoutIInv /\ OtherPatch => LayoutIInv'
PROOF
<1>. SUFFICES ASSUME LayoutIInv, OtherPatch PROVE LayoutIInv'
  OBVIOUS
<1>. DEFINE patch == [kind |-> "other"]
<1>1. /\ applied /\ Send(patch)
      /\ UNCHANGED <<layout, enabled, applied, touched, gesture, revealed, config, down, meant, changes>>
  BY DEF OtherPatch, shown
<1>2. patch \in Patches /\ patch.kind = "other"
  BY DEF Patches
<1>. HIDE DEF patch
<1>3. up' = Append(up, patch) /\ up' \in Seq(Patches) /\ up' # <<>> /\ up \in Seq(Patches)
  BY <1>1, <1>2, SendGives DEF LayoutIInv, LayoutTypeOK
<1>4. EndsWith(up', "layout", config.layout, meant)
  BY <1>2, <1>3, AppendEnds DEF LayoutIInv, PatchesDecide
<1>5. EndsWith(up', "enabled", config.enabled, enabled)
  BY <1>1, <1>2, <1>3, AppendEnds DEF LayoutIInv, PatchesDecide
<1>6. PatchesDecide'
  BY <1>1, <1>4, <1>5 DEF PatchesDecide
<1>7. LayoutTypeOK'
  BY <1>1, <1>3 DEF LayoutIInv, LayoutTypeOK
<1>8. BroadcastsFollow'
  BY <1>1, <1>3 DEF LayoutIInv, BroadcastsFollow
<1>. QED BY <1>1, <1>6, <1>7, <1>8 DEF LayoutIInv, BootSendsToggles

LEMMA ToggleVisibilityInv == ASSUME LayoutIInv, NEW p \in Panes, ToggleVisibility(p) PROVE LayoutIInv'
PROOF
<1>. DEFINE patch == EnabledPatch(enabled')
<1>1. /\ enabled' \in SUBSET Panes /\ touched' = TRUE /\ Send(patch)
      /\ UNCHANGED <<layout, applied, gesture, revealed, config, down, meant, changes>>
  BY DEF ToggleVisibility, shown, LayoutIInv, LayoutTypeOK
<1>2. patch \in Patches /\ patch.kind = "enabled" /\ patch.value = enabled'
  BY <1>1 DEF EnabledPatch, Patches
<1>. HIDE DEF patch
<1>3. up' = Append(up, patch) /\ up' \in Seq(Patches) /\ up' # <<>> /\ up \in Seq(Patches)
  BY <1>1, <1>2, SendGives DEF LayoutIInv, LayoutTypeOK
<1>4. EndsWith(up', "layout", config.layout, meant)
  BY <1>2, <1>3, AppendEnds DEF LayoutIInv, PatchesDecide
<1>5. EndsWith(up', "enabled", config.enabled, enabled')
  <2>1. CASE applied \/ touched
    BY <1>2, <1>3, <2>1, AppendEnds DEF LayoutIInv, PatchesDecide
  <2>2. CASE ~(applied \/ touched)
    <3>1. up = <<>>
      BY <2>2 DEF LayoutIInv, BootSendsToggles
    <3>2. up' = <<patch>> /\ DOMAIN up' = {1} /\ up'[1] = patch
      BY <1>3, <3>1
    <3>. QED BY <1>2, <3>2 DEF EndsWith, Silent, LastSays
  <2>. QED BY <2>1, <2>2
<1>6. PatchesDecide'
  BY <1>1, <1>4, <1>5 DEF PatchesDecide
<1>7. LayoutTypeOK'
  BY <1>1, <1>3 DEF LayoutIInv, LayoutTypeOK
<1>8. BroadcastsFollow'
  BY <1>1, <1>3 DEF LayoutIInv, BroadcastsFollow
<1>9. BootSendsToggles'
  BY <1>1, <1>2, SendGives DEF LayoutIInv, BootSendsToggles
<1>. QED BY <1>1, <1>6, <1>7, <1>8, <1>9 DEF LayoutIInv

LEMMA LayoutReloadInv == LayoutIInv /\ LayoutReload => LayoutIInv'
PROOF
<1>. SUFFICES ASSUME LayoutIInv, LayoutReload PROVE LayoutIInv'
  OBVIOUS
<1>1. /\ up = <<>> /\ applied' = FALSE /\ touched' = FALSE /\ enabled' = Panes
      /\ gesture' = NoGesture /\ revealed' = {} /\ down' = <<>>
      /\ UNCHANGED <<layout, config, up, meant, changes>>
  BY DEF LayoutReload
<1>2. <<>> \in Seq(Layouts) /\ DOMAIN <<>> = {}
  OBVIOUS
<1>3. LayoutTypeOK'
  BY <1>1, <1>2 DEF LayoutIInv, LayoutTypeOK
<1>. QED BY <1>1, <1>2, <1>3 DEF LayoutIInv, BroadcastsFollow, PatchesDecide, BootSendsToggles, Silent

LEMMA LayoutBootInv == LayoutIInv /\ LayoutBoot => LayoutIInv'
PROOF
<1>. SUFFICES ASSUME LayoutIInv, LayoutBoot PROVE LayoutIInv'
  OBVIOUS
<1>. DEFINE firstRun == config.enabled = {} /\ ~config.initialized
            patch == EnabledPatch(FirstRun)
<1>1. /\ ~applied /\ applied' = TRUE /\ layout' = config.layout /\ meant' = config.layout /\ down' = <<>>
      /\ UNCHANGED <<touched, changes, gesture, revealed, config>>
      /\ ApplyPersisted(firstRun)
  BY DEF LayoutBoot, shown
<1>2. config \in Configs /\ config.layout \in Layouts /\ config.enabled \in SUBSET Panes /\ up \in Seq(Patches)
      /\ <<>> \in Seq(Layouts) /\ FirstRun \in SUBSET Panes
  BY LayoutAssumption DEF LayoutIInv, LayoutTypeOK, Configs
<1>3. Silent(up, "layout") /\ EndsWith(up, "layout", config.layout, config.layout)
  BY <1>1 DEF LayoutIInv, BootSendsToggles, EndsWith, Silent, LastSays
<1>4. CASE touched \/ ~firstRun
  <2>1. up' = up /\ enabled' = IF touched THEN enabled ELSE config.enabled
    BY <1>1, <1>4 DEF ApplyPersisted
  <2>2. enabled' \in SUBSET Panes
    BY <1>2, <2>1 DEF LayoutIInv, LayoutTypeOK
  <2>3. EndsWith(up, "enabled", config.enabled, enabled')
    <3>1. CASE touched
      BY <2>1, <3>1 DEF LayoutIInv, PatchesDecide
    <3>2. CASE ~touched
      <4>1. DOMAIN up = {}
        BY <1>1, <3>2 DEF LayoutIInv, BootSendsToggles
      <4>. QED BY <2>1, <3>2, <4>1 DEF EndsWith, LastSays
    <3>. QED BY <3>1, <3>2
  <2>4. LayoutTypeOK'
    BY <1>1, <1>2, <2>1, <2>2 DEF LayoutIInv, LayoutTypeOK
  <2>5. PatchesDecide'
    BY <1>1, <1>3, <2>1, <2>3 DEF PatchesDecide
  <2>. QED BY <1>1, <2>4, <2>5 DEF LayoutIInv, BroadcastsFollow, BootSendsToggles
<1>5. CASE ~touched /\ firstRun
  <2>1. enabled' = FirstRun /\ Send(patch)
    BY <1>1, <1>5 DEF ApplyPersisted
  <2>2. patch \in Patches /\ patch.kind = "enabled" /\ patch.value = FirstRun
    BY <1>2 DEF EnabledPatch, Patches
  <2>3. up = <<>>
    BY <1>1, <1>5 DEF LayoutIInv, BootSendsToggles
  <2>. HIDE DEF patch
  <2>4. up' \in Seq(Patches) /\ up' # <<>> /\ up' = Append(up, patch)
    BY <2>1, <2>2, SendGives DEF LayoutIInv
  <2>5. DOMAIN up' = {1} /\ up'[1] = patch
    BY <2>3, <2>4
  <2>6. EndsWith(up', "enabled", config.enabled, FirstRun) /\ EndsWith(up', "layout", config.layout, config.layout)
    BY <2>2, <2>5 DEF EndsWith, Silent, LastSays
  <2>7. LayoutTypeOK'
    BY <1>1, <1>2, <2>1, <2>4 DEF LayoutIInv, LayoutTypeOK
  <2>8. PatchesDecide'
    BY <1>1, <2>1, <2>6 DEF PatchesDecide
  <2>. QED BY <1>1, <2>7, <2>8 DEF LayoutIInv, BroadcastsFollow, BootSendsToggles
<1>. QED BY <1>4, <1>5

\* The changes of one zone, and the gestures.
LEMMA GestureInv ==
  ASSUME LayoutIInv,
         \/ GutterUp \/ GestureCancel
         \/ \E p \in Panes : ToggleCollapse(p) \/ PaneDown(p)
         \/ \E z \in Zones : ZoneMinimizeToggle(z) \/ PaneTabExpand(z) \/ GutterDown(z) \/ GutterReset(z)
         \/ \E reached \in SUBSET Zones : PaneMove(reached)
         \/ \E size \in Sizes : GutterMove(size)
         \/ \E z \in Zones, at \in 0..Len(Registered) : PaneDrop(z, at)
  PROVE  LayoutIInv'
PROOF
<1>1. /\ layout \in Layouts /\ enabled \in SUBSET Panes /\ gesture \in Gestures \cup {NoGesture}
      /\ revealed \in SUBSET Zones /\ (gesture = NoGesture => revealed = {})
      /\ NoGesture \notin Gestures \cup Sizes /\ Default \in Sizes /\ Len(Registered) \in Nat
  BY LayoutAssumption DEF LayoutIInv, LayoutTypeOK
<1>2. CASE GutterUp
  <2>1. Page /\ gesture' = NoGesture /\ revealed' = {} /\ gesture # NoGesture /\ gesture.kind = "gutter"
        /\ IF gesture.size = NoGesture THEN NoWrite ELSE SetLayout(SetZoneSize(layout, gesture.zone, gesture.size))
    BY <1>2 DEF GutterUp, Released
  <2>2. gesture.zone \in Zones /\ gesture.size \in Sizes \cup {NoGesture}
    BY <1>1, <2>1 DEF Gestures
  <2>3. gesture.size # NoGesture => SetZoneSize(layout, gesture.zone, gesture.size) \in Layouts
    BY <1>1, <2>2, ZoneTypes
  <2>. QED BY <2>1, <2>3, NoWriteInv, SetLayoutInv
<1>3. CASE GestureCancel
  BY <1>3, NoWriteInv DEF GestureCancel, Released
<1>4. ASSUME NEW p \in Panes, ToggleCollapse(p) PROVE LayoutIInv'
  <2>1. Page /\ SetLayout(Collapse(layout, p)) /\ UNCHANGED <<gesture, revealed>>
    BY <1>4 DEF ToggleCollapse, shown
  <2>2. Collapse(layout, p) \in Layouts
    BY <1>1, CollapseType
  <2>. QED BY <1>1, <2>1, <2>2, SetLayoutInv
<1>5. ASSUME NEW p \in Panes, PaneDown(p) PROVE LayoutIInv'
  <2>1. Page /\ NoWrite /\ gesture' = [kind |-> "pane", pane |-> p, moved |-> FALSE] /\ revealed' = {}
    BY <1>5 DEF PaneDown
  <2>2. gesture' \in Gestures
    BY <2>1 DEF Gestures
  <2>. QED BY <2>1, <2>2, NoWriteInv
<1>6. ASSUME NEW z \in Zones, ZoneMinimizeToggle(z) PROVE LayoutIInv'
  <2>. DEFINE next == SetZoneMinimized(layout, z, ~layout.zone[z].minimized, ShownIn(layout, z))
  <2>1. Page /\ SetLayout(next) /\ UNCHANGED <<gesture, revealed>>
    BY <1>6 DEF ZoneMinimizeToggle, shown
  <2>2. next \in Layouts
    BY <1>1, ZoneTypes
  <2>. HIDE DEF next
  <2>. QED BY <1>1, <2>1, <2>2, SetLayoutInv
<1>7. ASSUME NEW z \in Zones, PaneTabExpand(z) PROVE LayoutIInv'
  <2>. DEFINE next == SetZoneMinimized(layout, z, FALSE, {})
  <2>1. Page /\ SetLayout(next) /\ UNCHANGED <<gesture, revealed>>
    BY <1>7 DEF PaneTabExpand, shown
  <2>2. next \in Layouts
    BY <1>1, ZoneTypes
  <2>. HIDE DEF next
  <2>. QED BY <1>1, <2>1, <2>2, SetLayoutInv
<1>8. ASSUME NEW z \in Zones, GutterDown(z) PROVE LayoutIInv'
  <2>1. Page /\ NoWrite /\ gesture' = [kind |-> "gutter", zone |-> z, size |-> NoGesture] /\ revealed' = {}
    BY <1>8 DEF GutterDown
  <2>2. gesture' \in Gestures
    BY <2>1 DEF Gestures
  <2>. QED BY <2>1, <2>2, NoWriteInv
<1>9. ASSUME NEW z \in Zones, GutterReset(z) PROVE LayoutIInv'
  <2>. DEFINE next == SetZoneSize(layout, z, Default)
  <2>1. Page /\ SetLayout(next) /\ UNCHANGED <<gesture, revealed>>
    BY <1>9 DEF GutterReset, shown
  <2>2. next \in Layouts
    BY <1>1, ZoneTypes
  <2>. HIDE DEF next
  <2>. QED BY <1>1, <2>1, <2>2, SetLayoutInv
<1>10. ASSUME NEW reached \in SUBSET Zones, PaneMove(reached) PROVE LayoutIInv'
  <2>1. Page /\ NoWrite /\ gesture # NoGesture /\ gesture.kind = "pane"
        /\ gesture' = [gesture EXCEPT !.moved = TRUE] /\ revealed' = reached
    BY <1>10 DEF PaneMove
  <2>2. gesture \in [kind : {"pane"}, pane : Panes, moved : BOOLEAN]
    BY <1>1, <2>1 DEF Gestures
  <2>3. gesture' \in [kind : {"pane"}, pane : Panes, moved : BOOLEAN]
    BY <2>1, <2>2
  <2>4. gesture' \in Gestures
    BY <2>3 DEF Gestures
  <2>. QED BY <1>1, <2>1, <2>4, NoWriteInv
<1>11. ASSUME NEW size \in Sizes, GutterMove(size) PROVE LayoutIInv'
  <2>1. Page /\ NoWrite /\ gesture # NoGesture /\ gesture.kind = "gutter"
        /\ gesture' = [gesture EXCEPT !.size = size] /\ UNCHANGED revealed
    BY <1>11 DEF GutterMove
  <2>2. gesture \in [kind : {"gutter"}, zone : Zones, size : Sizes \cup {NoGesture}]
    BY <1>1, <2>1 DEF Gestures
  <2>3. gesture' \in [kind : {"gutter"}, zone : Zones, size : Sizes \cup {NoGesture}]
    BY <2>1, <2>2
  <2>4. gesture' \in Gestures
    BY <2>3 DEF Gestures
  <2>. QED BY <1>1, <2>1, <2>4, NoWriteInv
<1>12. ASSUME NEW z \in Zones, NEW at \in 0..Len(Registered), PaneDrop(z, at) PROVE LayoutIInv'
  <2>. DEFINE next == MovePane(layout, gesture.pane, z, at)
  <2>1. Page /\ gesture # NoGesture /\ gesture.kind = "pane" /\ (NoWrite \/ SetLayout(next))
        /\ gesture' = NoGesture /\ revealed' = {}
    BY <1>12 DEF PaneDrop, Released
  <2>2. gesture.pane \in Panes /\ at \in Nat
    BY <1>1, <2>1 DEF Gestures
  <2>3. next \in Layouts
    BY <1>1, <2>2, MovePaneType
  <2>. HIDE DEF next
  <2>. QED BY <2>1, <2>3, NoWriteInv, SetLayoutInv
<1>. QED BY <1>2, <1>3, <1>4, <1>5, <1>6, <1>7, <1>8, <1>9, <1>10, <1>11, <1>12

\* When the messages have arrived the page shows the layout and the panes of the settings, the ones of the last
\* gesture and of the last toggle, for any panes, zones and sizes and any number of messages on their way.
THEOREM LayoutHasConverged == LayoutSpec => []LayoutConverges
PROOF
<1>1. LayoutInit => LayoutIInv
  <2>. SUFFICES ASSUME LayoutInit PROVE LayoutIInv
    OBVIOUS
  <2>1. \A S : <<>> \in [{} -> S] /\ <<>> \in Seq(S) /\ DOMAIN <<>> = {}
    OBVIOUS
  <2>2. NewLayout \in Layouts
    <3>1. <<>> \in UNION {[S -> Places] : S \in SUBSET Panes}
      BY <2>1
    <3>. QED BY <3>1, LayoutAssumption DEF NewLayout, Layouts
  <2>3. [layout |-> NewLayout, enabled |-> {}, initialized |-> FALSE] \in Configs
    BY <2>2 DEF Configs
  <2>4. config \in Configs /\ config.layout = NewLayout
    BY <2>3 DEF LayoutInit
  <2>5. LayoutTypeOK
    BY <2>1, <2>2, <2>4 DEF LayoutInit, LayoutTypeOK
  <2>6. BroadcastsFollow /\ BootSendsToggles
    BY <2>1, <2>4 DEF LayoutInit, BroadcastsFollow, BootSendsToggles, Silent
  <2>7. PatchesDecide
    BY <2>1, <2>4 DEF LayoutInit, PatchesDecide, EndsWith, Silent, LastSays
  <2>. QED BY <2>5, <2>6, <2>7 DEF LayoutInit, LayoutIInv
<1>2. ASSUME LayoutIInv, LayoutNext PROVE LayoutIInv'
  BY <1>2, SettingsSetInv, LayoutHearsInv, OtherPatchInv, LayoutReloadInv, LayoutBootInv, ToggleVisibilityInv,
     GestureInv DEF LayoutNext
<1>3. LayoutIInv /\ UNCHANGED layoutVars => LayoutIInv'
  BY DEF layoutVars, LayoutIInv, LayoutTypeOK, BroadcastsFollow, PatchesDecide, BootSendsToggles
<1>4. LayoutIInv => LayoutConverges
  <2>. SUFFICES ASSUME LayoutIInv, LayoutQuiet
                PROVE  layout = config.layout /\ layout = meant /\ enabled = config.enabled
    BY DEF LayoutConverges, LayoutIInv
  <2>1. applied /\ up = <<>> /\ down = <<>> /\ Silent(up, "layout") /\ Silent(up, "enabled")
    BY DEF LayoutQuiet, Silent
  <2>. QED BY <2>1 DEF LayoutIInv, BroadcastsFollow, PatchesDecide, EndsWith
<1>. QED BY <1>1, <1>2, <1>3, <1>4, PTL DEF LayoutSpec

----------------------------------------------------------------------------
(* The page                                                                *)

KindSet == {"content", "operator", "template"}
Stations == {"idle", "snapshot", "heads", "journal", "settings"}

\* What is known of the types the guard depends on.
GuardTypeOK ==
  /\ phase \in {"snapshot", "rest", "up", "aborted"} /\ queued \in BOOLEAN
  /\ flight.at \in Stations

\* While a re-derive is in flight text is uncommitted only if there was input since; nothing happens before the boot.
TypedMeanwhile ==
  /\ flight.at # "idle" /\ dirty # {} => typed
  /\ phase # "up" => dirty = {} /\ flight.at = "idle"

GuardIInv == GuardTypeOK /\ TypedMeanwhile

\* A re-derive is asked for only with nothing uncommitted.
LEMMA ReDeriveGuard ==
  ASSUME GuardIInv, NEW kind, ReDerive(kind), dirty' = {}, phase = "up", UNCHANGED phase, queued' \in BOOLEAN
  PROVE  GuardIInv'
BY DEF ReDerive, GuardIInv, GuardTypeOK, TypedMeanwhile, Stations

LEMMA RequestRebuildGuard ==
  ASSUME GuardIInv, NEW kind, RequestRebuild(kind), phase = "up", UNCHANGED <<phase, dirty>>
  PROVE  GuardIInv'
PROOF
<1>1. CASE dirty # {}
  BY <1>1 DEF RequestRebuild, GuardIInv, GuardTypeOK, TypedMeanwhile
<1>2. CASE dirty = {}
  <2>1. ReDerive(kind) /\ dirty' = {} /\ queued' \in BOOLEAN
    BY <1>2 DEF RequestRebuild, GuardIInv, GuardTypeOK
  <2>. QED BY <2>1, ReDeriveGuard
<1>. QED BY <1>1, <1>2

LEMMA CleanGuard ==
  ASSUME GuardIInv, NEW d, Clean(d), phase = "up", UNCHANGED phase
  PROVE  GuardIInv'
PROOF
<1>1. CASE Fires(dirty')
  <2>1. ReDerive(queuedKind) /\ dirty' = {} /\ queued' = FALSE
    BY <1>1 DEF Clean, Fires
  <2>. QED BY <2>1, ReDeriveGuard
<1>2. CASE ~Fires(dirty')
  BY <1>2 DEF Clean, GuardIInv, GuardTypeOK, TypedMeanwhile
<1>. QED BY <1>1, <1>2

\* The end of a re-derive: the queued one follows, and what was typed meanwhile counts for it.
LEMMA EndFlightGuard ==
  ASSUME GuardIInv, EndFlight, flight.at # "idle", UNCHANGED <<phase, dirty, typed, queued>>
  PROVE  GuardIInv'
BY DEF EndFlight, Idle, GuardIInv, GuardTypeOK, TypedMeanwhile, Stations

LEMMA GuardStep == ASSUME GuardIInv, Next PROVE GuardIInv'
PROOF
<1>1. ASSUME NEW n, Write(n) PROVE GuardIInv'
  BY <1>1 DEF Write, hostVars, editVars, workVars, GuardIInv, GuardTypeOK, TypedMeanwhile
<1>2. ASSUME NEW d, CommitRuns(d) PROVE GuardIInv'
  BY <1>2 DEF CommitRuns, hostVars, workVars, GuardIInv, GuardTypeOK, TypedMeanwhile
<1>3. CASE SetTemplate
  BY <1>3 DEF SetTemplate, hostVars, editVars, workVars, GuardIInv, GuardTypeOK, TypedMeanwhile
<1>4. ASSUME NEW s, SwitchDefault(s) PROVE GuardIInv'
  BY <1>4 DEF SwitchDefault, hostVars, editVars, workVars, GuardIInv, GuardTypeOK, TypedMeanwhile
<1>5. CASE BootSnapshot \/ BootRest
  BY <1>5 DEF BootSnapshot, BootRest, editVars, workVars, GuardIInv, GuardTypeOK, TypedMeanwhile
<1>6. CASE FetchSnapshot
  <2>1. CASE EndFlight
    BY <1>6, <2>1, EndFlightGuard DEF FetchSnapshot, hostVars, editVars
  <2>2. CASE flight' = [flight EXCEPT !.at = "heads", !.taken = [store |-> store, of |-> default]]
    <3>1. flight'.at \in {"heads"} \cup {flight.at}
      BY <2>2
    <3>. QED BY <1>6, <3>1 DEF FetchSnapshot, hostVars, editVars, GuardIInv, GuardTypeOK, TypedMeanwhile, Stations
  <2>. QED BY <1>6, <2>1, <2>2 DEF FetchSnapshot
<1>7. CASE FetchHeads
  <2>1. CASE EndFlight
    BY <1>7, <2>1, EndFlightGuard DEF FetchHeads, editVars
  <2>2. CASE flight' = [flight EXCEPT !.at = "journal"]
    <3>1. flight'.at \in {"journal"} \cup {flight.at}
      BY <2>2
    <3>. QED BY <1>7, <3>1 DEF FetchHeads, editVars, GuardIInv, GuardTypeOK, TypedMeanwhile, Stations
  <2>. QED BY <1>7, <2>1, <2>2 DEF FetchHeads
<1>8. CASE FetchJournal
  <2>1. CASE EndFlight
    BY <1>8, <2>1, EndFlightGuard DEF FetchJournal, editVars
  <2>2. CASE flight' = [flight EXCEPT !.at = "settings"]
    <3>1. flight'.at \in {"settings"} \cup {flight.at}
      BY <2>2
    <3>. QED BY <1>8, <3>1 DEF FetchJournal, editVars, GuardIInv, GuardTypeOK, TypedMeanwhile, Stations
  <2>. QED BY <1>8, <2>1, <2>2 DEF FetchJournal
<1>9. CASE FetchSettings
  BY <1>9, EndFlightGuard DEF FetchSettings, editVars
<1>10. CASE PaneRefresh \/ PaneRefreshed \/ SearchAnswered
  BY <1>10 DEF PaneRefresh, PaneRefreshed, SearchAnswered, hostVars, editVars, GuardIInv, GuardTypeOK, TypedMeanwhile
<1>11. CASE Hear
  <2>. DEFINE m == Head(wire)
  <2>1. UNCHANGED phase
    BY <1>11 DEF Hear, hostVars
  <2>2. CASE phase # "up"
    BY <1>11, <2>1, <2>2 DEF Hear, GuardIInv, GuardTypeOK, TypedMeanwhile
  <2>3. CASE phase = "up" /\ \E kind \in KindSet : RequestRebuild(kind) /\ UNCHANGED dirty
    BY <2>1, <2>3, RequestRebuildGuard
  <2>4. CASE phase = "up" /\ UNCHANGED <<dirty, queued, flight, typed>>
    BY <2>1, <2>4 DEF GuardIInv, GuardTypeOK, TypedMeanwhile
  <2>5. CASE phase = "up" /\ Clean(m.of)
    BY <2>1, <2>5, CleanGuard
  <2>6. phase = "up" => \/ \E kind \in KindSet : RequestRebuild(kind) /\ UNCHANGED dirty
                        \/ UNCHANGED <<dirty, queued, flight, typed>>
                        \/ Clean(m.of)
    BY <1>11 DEF Hear, Changed, KindSet
  <2>. QED BY <2>2, <2>3, <2>4, <2>5, <2>6
<1>12. CASE Input
  BY <1>12 DEF Input, hostVars, workVars, GuardIInv, GuardTypeOK, TypedMeanwhile
<1>13. CASE Blur
  <2>1. phase = "up" /\ UNCHANGED phase
    BY <1>13 DEF Blur, hostVars, GuardIInv, TypedMeanwhile
  <2>2. CASE Clean(current)
    BY <2>1, <2>2, CleanGuard
  <2>3. CASE UNCHANGED <<dirty, queued, flight, typed>>
    BY <2>1, <2>3 DEF GuardIInv, GuardTypeOK, TypedMeanwhile
  <2>. QED BY <1>13, <2>2, <2>3 DEF Blur
<1>14. ASSUME NEW d, SelectDocument(d) PROVE GuardIInv'
  BY <1>14, RequestRebuildGuard DEF SelectDocument
<1>15. ASSUME NEW t, MountTab(t) PROVE GuardIInv'
  BY <1>15 DEF MountTab, editVars, GuardIInv, GuardTypeOK, TypedMeanwhile
<1>. QED BY <1>1, <1>2, <1>3, <1>4, <1>5, <1>6, <1>7, <1>8, <1>9, <1>10, <1>11, <1>12, <1>13, <1>14, <1>15 DEF Next

LEMMA GuardInv == Spec => []GuardIInv
PROOF
<1>1. Init => GuardIInv
  <2>. SUFFICES ASSUME Init PROVE GuardIInv
    OBVIOUS
  <2>1. phase = "snapshot" /\ queued = FALSE /\ flight.at = "idle" /\ dirty = {}
    BY DEF Init, Idle
  <2>. QED BY <2>1 DEF GuardIInv, GuardTypeOK, TypedMeanwhile, Stations
<1>2. GuardIInv /\ UNCHANGED vars => GuardIInv'
  BY DEF vars, hostVars, editVars, workVars, GuardIInv, GuardTypeOK, TypedMeanwhile
<1>. QED BY <1>1, <1>2, GuardStep, PTL DEF Spec

\* The page is torn down under uncommitted text only by a re-derive during which there was input, by a tab that
\* mounts, or by a pane's refresh, for any documents and any number of messages and failures.
THEOREM GuardHoldsAlways == Spec => GuardHolds
PROOF
<1>. DEFINE Safe == (dirty # {} /\ pageVars' # pageVars)
                      => \/ typed
                         \/ tab' # tab
                         \/ asking /\ ~asking'
                         \/ refreshing /\ ~refreshing'
<1>1. ASSUME GuardIInv, Next, dirty # {}, pageVars' # pageVars, ~typed
      PROVE  tab' # tab \/ (asking /\ ~asking') \/ (refreshing /\ ~refreshing')
  <2>1. flight.at = "idle" /\ phase = "up"
    BY <1>1 DEF GuardIInv, TypedMeanwhile
  <2>2. ~BootRest /\ ~FetchJournal /\ ~FetchSettings
    BY <2>1 DEF BootRest, FetchJournal, FetchSettings
  <2>3. ASSUME NEW t, MountTab(t) PROVE tab' # tab
    BY <2>3 DEF MountTab
  <2>4. SearchAnswered => asking /\ ~asking'
    BY DEF SearchAnswered
  <2>5. PaneRefreshed => refreshing /\ ~refreshing'
    BY DEF PaneRefreshed
  <2>6. \/ \E t : MountTab(t)
        \/ SearchAnswered \/ PaneRefreshed
    <3>1. ASSUME NEW n, Write(n) \/ CommitRuns(n) \/ SwitchDefault(n) \/ SelectDocument(n) PROVE FALSE
      BY <1>1, <3>1 DEF Write, CommitRuns, SwitchDefault, SelectDocument
    <3>2. SetTemplate \/ BootSnapshot \/ FetchSnapshot \/ FetchHeads \/ PaneRefresh \/ Hear \/ Input \/ Blur => FALSE
      BY <1>1 DEF SetTemplate, BootSnapshot, FetchSnapshot, FetchHeads, PaneRefresh, Hear, Input, Blur
    <3>. QED BY <1>1, <2>2, <3>1, <3>2 DEF Next
  <2>. QED BY <2>3, <2>4, <2>5, <2>6
<1>2. GuardIInv /\ [Next]_vars => [Safe]_vars
  BY <1>1
<1>. QED BY <1>2, GuardInv, PTL DEF Spec, GuardHolds

\* What the renderer is told.
Broadcasts == [what : {"changed", "template", "managed", "settings", "committed", "refused"}, of : Stores \cup Docs]

IsFlight(f) == f = [at |-> f.at, kind |-> f.kind, taken |-> f.taken]

PageTypeOK ==
  /\ wire \in Seq(Broadcasts) /\ default \in Stores
  /\ again \in KindSet \cup {None} /\ queuedKind \in KindSet
  /\ IsFlight(flight)

\* A change of the store is on its way to the renderer; a new snapshot will be taken; the page will be shown anew.
NewsIn(s) == \E i \in DOMAIN s : s[i].what \in {"changed", "managed"}
News == NewsIn(wire)
Todo == queued \/ again # None \/ flight.at = "snapshot"
Rederives == Todo \/ flight.at \in {"heads", "journal"}
Current == SurfaceOf(DocBody(snapshot, current))

\* A snapshot that is older than the store is followed by another one.
SnapshotsFollow ==
  /\ queued => dirty # {}
  /\ flight.at = "idle" => again = None
  /\ flight.at = "journal" => flight.taken.store = snapshot
  /\ ~lapse /\ flight.at = "heads" => flight.taken.store = store \/ News \/ Todo
  /\ ~lapse /\ phase \in {"rest", "up"} => snapshot = store \/ News \/ Todo \/ flight.at = "heads"

\* An envelope, or a surface, that is not of the current document and snapshot is followed by another one.
SurfacesFollow ==
  phase = "up" =>
    /\ other = None => envelope.body = None
    /\ ~lapse /\ envelope.body = None => SurfaceOf(envelope) = Current \/ Rederives
    /\ ~lapse /\ other = None => surface = Current \/ Rederives \/ flight.at = "settings"

PageIInv == GuardIInv /\ PageTypeOK /\ SnapshotsFollow /\ SurfacesFollow

LEMMA MergeKindType ==
  ASSUME NEW a \in KindSet \cup {None}, NEW b \in KindSet
  PROVE  MergeKind(a, b) \in KindSet
PROOF
<1>1. \A k \in KindSet : RankOf(k) \in 1..3
  <2>1. \A k \in KindSet : \E i \in 1..3 : Kinds[i] = k
    BY DEF KindSet, Kinds
  <2>. QED BY <2>1 DEF RankOf
<1>2. \A i, j \in 1..3 : Max({i, j}) \in 1..3
  <2>1. ASSUME NEW i \in 1..3, NEW j \in 1..3 PROVE Max({i, j}) \in 1..3
    <3>1. \E x \in {i, j} : \A y \in {i, j} : x >= y
      OBVIOUS
    <3>2. Max({i, j}) \in {i, j}
      BY <3>1 DEF Max
    <3>. QED BY <3>2
  <2>. QED BY <2>1
<1>3. \A i \in 1..3 : Kinds[i] \in KindSet
  BY DEF KindSet, Kinds
<1>4. CASE a = None
  BY <1>4 DEF MergeKind
<1>5. CASE a # None
  BY <1>1, <1>2, <1>3, <1>5 DEF MergeKind
<1>. QED BY <1>4, <1>5

\* What is told is added at the end, and heard from the start.
LEMMA NewsTold ==
  ASSUME NEW s \in Seq(Broadcasts), NEW m \in Broadcasts
  PROVE  /\ Append(s, m) \in Seq(Broadcasts)
         /\ NewsIn(s) => NewsIn(Append(s, m))
         /\ m.what \in {"changed", "managed"} => NewsIn(Append(s, m))
PROOF
<1>. DEFINE t == Append(s, m)
            n == Len(s) + 1
<1>1. t \in Seq(Broadcasts) /\ n \in DOMAIN t /\ t[n] = m /\ \A i \in DOMAIN s : i \in DOMAIN t /\ t[i] = s[i]
  OBVIOUS
<1>. HIDE DEF t, n
<1>2. (NewsIn(s) => NewsIn(t)) /\ (m.what \in {"changed", "managed"} => NewsIn(t))
  BY <1>1 DEF NewsIn
<1>. QED BY <1>1, <1>2 DEF t

LEMMA NewsHeard ==
  ASSUME NEW s \in Seq(Broadcasts), s # <<>>
  PROVE  /\ Tail(s) \in Seq(Broadcasts) /\ Head(s) \in Broadcasts
         /\ NewsIn(s) => NewsIn(Tail(s)) \/ Head(s).what \in {"changed", "managed"}
PROOF
<1>. DEFINE t == Tail(s)
<1>1. Len(s) \in Nat /\ Len(s) > 0 /\ DOMAIN s = 1..Len(s) /\ Head(s) = s[1] /\ Head(s) \in Broadcasts
  OBVIOUS
<1>2. t \in Seq(Broadcasts) /\ DOMAIN t = 1..Len(s) - 1 /\ \A i \in DOMAIN t : t[i] = s[i + 1]
  OBVIOUS
<1>. HIDE DEF t
<1>3. ASSUME NEW i \in DOMAIN s, i # 1 PROVE i - 1 \in DOMAIN t /\ t[i - 1] = s[i]
  <2>1. i - 1 \in DOMAIN t /\ (i - 1) + 1 = i
    BY <1>1, <1>2, <1>3
  <2>. QED BY <2>1, <1>2
<1>4. NewsIn(s) => NewsIn(t) \/ Head(s).what \in {"changed", "managed"}
  BY <1>1, <1>3 DEF NewsIn
<1>. QED BY <1>1, <1>2, <1>4 DEF t

\* Requests are never forgotten.
Requested ==
  /\ flight' = flight \/ (flight.at = "idle" /\ flight'.at = "snapshot")
  /\ flight'.at = "idle" => again' = None
  /\ queued \/ again # None => Todo'
  /\ again' \in KindSet \cup {None} /\ queuedKind' \in KindSet /\ IsFlight(flight')

LEMMA ReDeriveGives ==
  ASSUME PageIInv, NEW kind \in KindSet, ReDerive(kind)
  PROVE  /\ flight' = flight \/ (flight.at = "idle" /\ flight'.at = "snapshot")
         /\ flight'.at = "idle" => again' = None
         /\ again' \in KindSet \cup {None} /\ IsFlight(flight')
         /\ again' # None \/ flight'.at = "snapshot"
PROOF
<1>1. again \in KindSet \cup {None} /\ None \notin KindSet
  BY BodiesAssumption DEF PageIInv, PageTypeOK, KindSet
<1>2. CASE flight.at = "idle"
  <2>1. flight'.at = "snapshot" /\ again' = again /\ IsFlight(flight')
    BY <1>2 DEF ReDerive, IsFlight
  <2>. QED BY <1>1, <1>2, <2>1
<1>3. CASE flight.at # "idle"
  <2>1. flight' = flight /\ again' = MergeKind(again, kind)
    BY <1>3 DEF ReDerive
  <2>2. again' \in KindSet
    BY <1>1, <2>1, MergeKindType
  <2>. QED BY <1>1, <1>3, <2>1, <2>2 DEF PageIInv, PageTypeOK
<1>. QED BY <1>2, <1>3

LEMMA RequestRebuildGives ==
  ASSUME PageIInv, NEW kind \in KindSet, RequestRebuild(kind), UNCHANGED dirty
  PROVE  Requested /\ Todo' /\ (queued' => dirty' # {})
PROOF
<1>1. queuedKind \in KindSet /\ again \in KindSet \cup {None} /\ "content" \in KindSet
  BY DEF PageIInv, PageTypeOK, KindSet
<1>2. CASE dirty # {}
  <2>1. queued' = TRUE /\ queuedKind' = MergeKind(queuedKind, kind) /\ UNCHANGED <<flight, again>>
    BY <1>2 DEF RequestRebuild
  <2>2. queuedKind' \in KindSet
    BY <1>1, <2>1, MergeKindType
  <2>3. Todo'
    BY <2>1 DEF Todo
  <2>. QED BY <1>1, <1>2, <2>1, <2>2, <2>3 DEF Requested, PageIInv, PageTypeOK, SnapshotsFollow
<1>3. CASE dirty = {}
  <2>1. ReDerive(kind) /\ queuedKind' = "content" /\ UNCHANGED queued
    BY <1>3 DEF RequestRebuild
  <2>2. /\ flight' = flight \/ (flight.at = "idle" /\ flight'.at = "snapshot")
        /\ flight'.at = "idle" => again' = None
        /\ again' \in KindSet \cup {None} /\ IsFlight(flight')
        /\ again' # None \/ flight'.at = "snapshot"
    BY <2>1, ReDeriveGives
  <2>3. Todo'
    BY <2>2 DEF Todo
  <2>. QED BY <1>1, <1>3, <2>1, <2>2, <2>3 DEF Requested, PageIInv, SnapshotsFollow
<1>. QED BY <1>2, <1>3

LEMMA CleanGives ==
  ASSUME PageIInv, NEW d, Clean(d)
  PROVE  Requested /\ (queued' => dirty' # {})
PROOF
<1>1. queuedKind \in KindSet /\ again \in KindSet \cup {None} /\ "content" \in KindSet /\ dirty' = dirty \ {d}
  BY DEF PageIInv, PageTypeOK, KindSet, Clean
<1>2. CASE Fires(dirty')
  <2>1. queued' = FALSE /\ queuedKind' = "content" /\ ReDerive(queuedKind)
    BY <1>2 DEF Clean
  <2>2. /\ flight' = flight \/ (flight.at = "idle" /\ flight'.at = "snapshot")
        /\ flight'.at = "idle" => again' = None
        /\ again' \in KindSet \cup {None} /\ IsFlight(flight')
        /\ again' # None \/ flight'.at = "snapshot"
    BY <1>1, <2>1, ReDeriveGives
  <2>3. Todo'
    BY <2>2 DEF Todo
  <2>. QED BY <1>1, <2>1, <2>2, <2>3 DEF Requested
<1>3. CASE ~Fires(dirty')
  <2>1. UNCHANGED <<queued, queuedKind, flight, again>>
    BY <1>3 DEF Clean
  <2>2. queued' => dirty' # {}
    BY <1>3, <2>1 DEF Fires
  <2>. QED BY <1>1, <2>1, <2>2 DEF Requested, Todo, PageIInv, PageTypeOK, SnapshotsFollow
<1>. QED BY <1>2, <1>3

\* A step that leaves the host and its page alone loses neither a request nor the news of a change.
LEMMA HostStays ==
  ASSUME PageIInv, GuardIInv', Requested, queued' => dirty' # {},
         UNCHANGED <<phase, snapshot, envelope, other, surface>>, current' = current \/ Todo',
         wire' \in Seq(Broadcasts), default' \in Stores, lapse => lapse',
         store' = store \/ News', News => News' \/ lapse' \/ Todo'
  PROVE  PageIInv'
PROOF
<1>1. PageTypeOK'
  BY DEF Requested, PageTypeOK
<1>2. Todo => Todo'
  BY DEF Requested, Todo
<1>3. SnapshotsFollow'
  BY <1>2 DEF Requested, PageIInv, SnapshotsFollow
<1>4. (Rederives => Rederives') /\ (Todo' => Rederives') /\ (current' = current => Current' = Current)
  BY <1>2 DEF Requested, Rederives, Current
<1>5. SurfacesFollow'
  BY <1>4 DEF Requested, PageIInv, SurfacesFollow
<1>. QED BY <1>1, <1>3, <1>5 DEF PageIInv

\* Nothing is asked of the edit controller.
LEMMA NothingAsked ==
  ASSUME PageIInv, UNCHANGED <<queued, queuedKind, flight, again>> PROVE Requested
BY DEF PageIInv, PageTypeOK, SnapshotsFollow, Requested, Todo

LEMMA PostGives ==
  ASSUME PageIInv, NEW what \in {"changed", "template", "managed", "settings"}, Post(what), default' \in Stores
  PROVE  /\ wire' \in Seq(Broadcasts) /\ (News => News')
         /\ what \in {"changed", "managed"} => News'
PROOF
<1>. DEFINE m == [what |-> what, of |-> default']
<1>1. wire \in Seq(Broadcasts) /\ m \in Broadcasts /\ m.what = what /\ wire' = Append(wire, m)
  BY DEF PageIInv, PageTypeOK, Broadcasts, Post
<1>. HIDE DEF m
<1>. QED BY <1>1, NewsTold DEF News

\* What the main process does.
LEMMA MainStep ==
  ASSUME PageIInv, GuardIInv',
         \/ \E n \in Nodes : Write(n)
         \/ \E d \in Docs : CommitRuns(d)
         \/ SetTemplate
         \/ \E s \in Stores : SwitchDefault(s)
  PROVE  PageIInv'
PROOF
<1>1. /\ UNCHANGED <<phase, snapshot, envelope, other, surface, current, dirty, lapse>>
      /\ UNCHANGED <<queued, queuedKind, flight, again>>
  BY DEF Write, CommitRuns, SetTemplate, SwitchDefault, hostVars, pageVars, editVars, workVars
<1>2. Requested /\ (queued' => dirty' # {})
  BY <1>1, NothingAsked DEF PageIInv, SnapshotsFollow
<1>3. default \in Stores /\ wire \in Seq(Broadcasts)
  BY DEF PageIInv, PageTypeOK
<1>4. ASSUME wire' \in Seq(Broadcasts), default' \in Stores, News => News', store' = store \/ News' PROVE PageIInv'
  BY <1>1, <1>2, <1>4, HostStays
<1>5. ASSUME NEW n \in Nodes, Write(n) PROVE PageIInv'
  BY <1>3, <1>4, <1>5, PostGives DEF Write
<1>6. ASSUME NEW d \in Docs, CommitRuns(d) PROVE PageIInv'
  <2>. DEFINE a == [what |-> "changed", of |-> default]
              b == [what |-> "committed", of |-> d]
              c == [what |-> "refused", of |-> d]
  <2>1. a \in Broadcasts /\ b \in Broadcasts /\ c \in Broadcasts /\ a.what = "changed"
    BY <1>3 DEF Broadcasts
  <2>2. UNCHANGED default
    BY <1>6 DEF CommitRuns
  <2>. HIDE DEF a, b, c
  <2>3. CASE wire' = wire \o <<a, b>>
    <3>1. wire \o <<a, b>> = Append(Append(wire, a), b)
      BY <1>3, <2>1
    <3>2. Append(wire, a) \in Seq(Broadcasts) /\ NewsIn(Append(wire, a))
      BY <1>3, <2>1, NewsTold
    <3>3. wire' \in Seq(Broadcasts) /\ News'
      BY <2>1, <2>3, <3>1, <3>2, NewsTold DEF News
    <3>. QED BY <1>3, <1>4, <2>2, <3>3
  <2>4. CASE wire' = Append(wire, c) /\ UNCHANGED store
    <3>1. wire' \in Seq(Broadcasts) /\ (News => News')
      BY <1>3, <2>1, <2>4, NewsTold DEF News
    <3>. QED BY <1>3, <1>4, <2>2, <2>4, <3>1
  <2>. QED BY <1>6, <2>3, <2>4 DEF CommitRuns, a, b, c
<1>7. CASE SetTemplate
  BY <1>3, <1>4, <1>7, PostGives DEF SetTemplate
<1>8. ASSUME NEW s \in Stores, SwitchDefault(s) PROVE PageIInv'
  BY <1>3, <1>4, <1>8, PostGives DEF SwitchDefault
<1>. QED BY <1>5, <1>6, <1>7, <1>8

\* What the renderer hears, and what its user does to the guard.
LEMMA EditStep ==
  ASSUME PageIInv, GuardIInv', Hear \/ Input \/ Blur \/ PaneRefresh \/ \E d \in Docs : SelectDocument(d)
  PROVE  PageIInv'
PROOF
<1>1. UNCHANGED <<phase, snapshot, envelope, other, surface, store, default>>
  BY DEF Hear, Input, Blur, PaneRefresh, SelectDocument, mainVars, hostVars, pageVars
<1>2. wire \in Seq(Broadcasts) /\ default' \in Stores /\ (queued => dirty # {})
  BY <1>1 DEF PageIInv, PageTypeOK, SnapshotsFollow
<1>3. CASE Hear
  <2>. DEFINE m == Head(wire)
  <2>1. wire' = Tail(wire) /\ wire # <<>> /\ UNCHANGED current
    BY <1>3 DEF Hear, hostVars
  <2>2. wire' \in Seq(Broadcasts) /\ (News => News' \/ m.what \in {"changed", "managed"})
    BY <1>2, <2>1, NewsHeard DEF News
  <2>3. ASSUME UNCHANGED <<dirty, queued, queuedKind, flight, again>>, lapse => lapse',
               News => News' \/ lapse'
        PROVE  PageIInv'
    BY <1>1, <1>2, <2>1, <2>2, <2>3, NothingAsked, HostStays
  <2>4. ASSUME NEW kind \in KindSet, RequestRebuild(kind), UNCHANGED <<dirty, lapse>> PROVE PageIInv'
    BY <1>1, <1>2, <2>1, <2>2, <2>4, RequestRebuildGives, HostStays
  <2>5. CASE phase # "up"
    BY <1>3, <2>3, <2>5 DEF Hear
  <2>6. CASE phase = "up" /\ m.what = "changed" /\ Changed(m) /\ UNCHANGED dirty
    BY <2>3, <2>4, <2>6 DEF Changed, KindSet
  <2>7. CASE phase = "up" /\ UNCHANGED <<dirty, lapse>> /\ \E kind \in KindSet : RequestRebuild(kind)
    BY <2>4, <2>7
  <2>8. CASE phase = "up" /\ m.what = "committed" /\ Clean(m.of) /\ UNCHANGED lapse
    <3>1. Requested /\ (queued' => dirty' # {})
      BY <2>8, CleanGives
    <3>2. News => News'
      BY <2>2, <2>8
    <3>. QED BY <1>1, <1>2, <2>1, <2>2, <2>8, <3>1, <3>2, HostStays
  <2>9. CASE phase = "up" /\ m.what = "refused" /\ UNCHANGED <<dirty, queued, queuedKind, flight, again, lapse>>
    BY <2>2, <2>3, <2>9
  <2>. QED BY <1>3, <2>5, <2>6, <2>7, <2>8, <2>9 DEF Hear, KindSet
<1>4. CASE Input
  <2>1. UNCHANGED <<current, queued, queuedKind, flight, again, wire, lapse>> /\ dirty' # {}
    BY <1>4 DEF Input, hostVars, workVars
  <2>. QED BY <1>1, <1>2, <2>1, NothingAsked, HostStays DEF News
<1>5. CASE Blur
  <2>1. UNCHANGED <<current, wire, lapse>>
    BY <1>5 DEF Blur, hostVars
  <2>2. CASE UNCHANGED <<dirty, queued, queuedKind, flight, again>>
    BY <1>1, <1>2, <2>1, <2>2, NothingAsked, HostStays DEF News
  <2>3. CASE Clean(current)
    BY <1>1, <1>2, <2>1, <2>3, CleanGives, HostStays DEF News
  <2>. QED BY <1>5, <2>2, <2>3 DEF Blur
<1>6. CASE PaneRefresh
  <2>1. UNCHANGED <<current, queued, queuedKind, flight, again, wire, lapse, dirty>>
    BY <1>6 DEF PaneRefresh, hostVars, editVars
  <2>. QED BY <1>1, <1>2, <2>1, NothingAsked, HostStays DEF News
<1>7. ASSUME NEW d \in Docs, SelectDocument(d) PROVE PageIInv'
  <2>1. RequestRebuild("content") /\ UNCHANGED <<dirty, wire, lapse>>
    BY <1>7 DEF SelectDocument
  <2>2. Requested /\ Todo' /\ (queued' => dirty' # {})
    BY <2>1, RequestRebuildGives DEF KindSet
  <2>. QED BY <1>1, <1>2, <2>1, <2>2, HostStays DEF News
<1>. QED BY <1>3, <1>4, <1>5, <1>6, <1>7

\* The end of a re-derive starts the one that was asked for meanwhile.
LEMMA EndFlightGives ==
  ASSUME PageIInv, EndFlight, UNCHANGED queued
  PROVE  /\ IF again = None THEN flight'.at = "idle" ELSE flight'.at = "snapshot"
         /\ again' = None /\ IsFlight(flight')
         /\ queued \/ again # None => Todo'
BY DEF EndFlight, Idle, IsFlight, Todo

\* The boot.
LEMMA BootStep == ASSUME PageIInv, GuardIInv', BootSnapshot \/ BootRest PROVE PageIInv'
PROOF
<1>1. UNCHANGED <<store, default, wire, dirty, queued, queuedKind, flight, again, lapse>>
  BY DEF BootSnapshot, BootRest, mainVars, editVars, workVars
<1>2. PageTypeOK'
  BY <1>1 DEF PageIInv, PageTypeOK
<1>3. (News <=> News') /\ (Todo <=> Todo')
  BY <1>1 DEF News, Todo
<1>4. phase # "up" /\ flight.at = "idle"
  BY DEF BootSnapshot, BootRest, PageIInv, GuardIInv, TypedMeanwhile
<1>5. SnapshotsFollow'
  <2>1. CASE BootSnapshot
    BY <1>1, <1>3, <1>4, <2>1 DEF BootSnapshot, PageIInv, SnapshotsFollow
  <2>2. CASE BootRest
    BY <1>1, <1>3, <1>4, <2>2 DEF BootRest, PageIInv, SnapshotsFollow
  <2>. QED BY <2>1, <2>2
<1>6. SurfacesFollow'
  <2>1. CASE phase' # "up"
    BY <2>1 DEF SurfacesFollow
  <2>2. CASE phase' = "up"
    <3>1. BootRest /\ UNCHANGED snapshot
      BY <1>4, <2>2 DEF BootSnapshot, BootRest
    <3>2. PICK d : current' = d /\ Load(DocBody(snapshot, d))
      BY <2>2, <3>1 DEF BootRest
    <3>3. envelope' = DocBody(snapshot, d) /\ Current' = SurfaceOf(DocBody(snapshot, d)) /\ other' = None
          /\ surface' = SurfaceOf(DocBody(snapshot, d)) /\ envelope'.body = None
      BY <3>1, <3>2 DEF Load, Current, DocBody
    <3>. QED BY <3>3 DEF SurfacesFollow
  <2>. QED BY <2>1, <2>2
<1>. QED BY <1>2, <1>5, <1>6 DEF PageIInv

\* The awaits of a re-derive.
LEMMA FetchStep ==
  ASSUME PageIInv, GuardIInv', FetchSnapshot \/ FetchHeads \/ FetchJournal \/ FetchSettings
  PROVE  PageIInv'
PROOF
<1>1. UNCHANGED <<store, default, wire, dirty, queued, queuedKind, phase, current>>
  BY DEF FetchSnapshot, FetchHeads, FetchJournal, FetchSettings, mainVars, editVars, hostVars
<1>2. News <=> News'
  BY <1>1 DEF News
<1>3. flight.at # "idle" /\ phase = "up" /\ IsFlight(flight)
  BY DEF FetchSnapshot, FetchHeads, FetchJournal, FetchSettings, PageIInv, GuardIInv, TypedMeanwhile, PageTypeOK
<1>4. ASSUME again' \in KindSet \cup {None}, IsFlight(flight') PROVE PageTypeOK'
  BY <1>1, <1>4 DEF PageIInv, PageTypeOK
<1>5. CASE FetchSnapshot
  <2>1. UNCHANGED <<snapshot, envelope, other, surface>>
    BY <1>5 DEF FetchSnapshot, hostVars, pageVars
  <2>2. CASE EndFlight /\ lapse' = TRUE
    <3>1. PageTypeOK'
      BY <1>1, <1>4, <2>2, EndFlightGives
    <3>2. SnapshotsFollow'
      BY <1>1, <2>2, EndFlightGives DEF PageIInv, SnapshotsFollow
    <3>3. SurfacesFollow'
      BY <1>1, <2>1, <2>2 DEF PageIInv, SurfacesFollow
    <3>. QED BY <3>1, <3>2, <3>3 DEF PageIInv
  <2>3. CASE flight' = [flight EXCEPT !.at = "heads", !.taken = [store |-> store, of |-> default]] /\ UNCHANGED again
    <3>1. flight' = [at |-> "heads", kind |-> flight.kind, taken |-> [store |-> store, of |-> default]]
      BY <1>3, <2>3 DEF IsFlight
    <3>2. flight'.at = "heads" /\ flight'.taken.store = store /\ IsFlight(flight')
      BY <3>1 DEF IsFlight
    <3>3. PageTypeOK'
      BY <1>4, <2>3, <3>2 DEF PageIInv, PageTypeOK
    <3>4. SnapshotsFollow'
      BY <1>1, <3>2 DEF PageIInv, SnapshotsFollow
    <3>5. SurfacesFollow'
      BY <1>1, <2>1, <3>2 DEF PageIInv, SurfacesFollow, Rederives
    <3>. QED BY <3>3, <3>4, <3>5 DEF PageIInv
  <2>. QED BY <1>5, <2>2, <2>3 DEF FetchSnapshot
<1>6. CASE FetchHeads
  <2>1. UNCHANGED <<envelope, other, surface>> /\ flight.at = "heads"
    BY <1>6 DEF FetchHeads, pageVars
  <2>2. CASE EndFlight /\ lapse' = TRUE /\ UNCHANGED snapshot
    <3>1. PageTypeOK'
      BY <1>1, <1>4, <2>2, EndFlightGives
    <3>2. SnapshotsFollow'
      BY <1>1, <2>2, EndFlightGives DEF PageIInv, SnapshotsFollow
    <3>3. SurfacesFollow'
      BY <1>1, <2>1, <2>2 DEF PageIInv, SurfacesFollow
    <3>. QED BY <3>1, <3>2, <3>3 DEF PageIInv
  <2>3. CASE /\ flight' = [flight EXCEPT !.at = "journal"] /\ UNCHANGED <<again, lapse>>
             /\ snapshot' = flight.taken.store
    <3>1. flight' = [at |-> "journal", kind |-> flight.kind, taken |-> flight.taken]
      BY <1>3, <2>3 DEF IsFlight
    <3>2. flight'.at = "journal" /\ flight'.taken = flight.taken /\ IsFlight(flight')
      BY <3>1 DEF IsFlight
    <3>3. PageTypeOK'
      BY <1>4, <2>3, <3>2 DEF PageIInv, PageTypeOK
    <3>4. Todo => Todo'
      BY <1>1, <2>1, <2>3 DEF Todo
    <3>5. SnapshotsFollow'
      BY <1>1, <1>2, <2>1, <2>3, <3>2, <3>4 DEF PageIInv, SnapshotsFollow
    <3>6. SurfacesFollow'
      BY <1>1, <2>1, <3>2 DEF PageIInv, SurfacesFollow, Rederives
    <3>. QED BY <3>3, <3>5, <3>6 DEF PageIInv
  <2>. QED BY <1>6, <2>2, <2>3 DEF FetchHeads
<1>7. CASE FetchJournal
  <2>. DEFINE env == DocBody(flight.taken.store, current)
  <2>1. UNCHANGED <<snapshot, other, lapse>> /\ flight.at = "journal" /\ envelope' = env
    BY <1>7 DEF FetchJournal, Reconcile, pageVars
  <2>2. env = DocBody(snapshot, current) /\ env.body = None /\ Current' = SurfaceOf(env)
    BY <1>1, <2>1 DEF PageIInv, SnapshotsFollow, DocBody, Current
  <2>. HIDE DEF env
  <2>3. CASE Reconcile(env) /\ EndFlight
    <3>1. PageTypeOK'
      BY <1>1, <1>4, <2>3, EndFlightGives
    <3>2. SnapshotsFollow'
      <4>1. Todo => Todo'
        BY <1>1, <2>1, <2>3, EndFlightGives DEF Todo
      <4>2. flight'.at \in {"idle", "snapshot"} /\ again' = None
        BY <1>1, <2>3, EndFlightGives
      <4>. QED BY <1>1, <1>2, <2>1, <4>1, <4>2 DEF PageIInv, SnapshotsFollow
    <3>3. surface' = Current'
      BY <2>2, <2>3 DEF Reconcile, Same
    <3>4. SurfacesFollow'
      BY <2>1, <2>2, <3>3 DEF SurfacesFollow
    <3>. QED BY <3>1, <3>2, <3>4 DEF PageIInv
  <2>4. CASE flight' = [flight EXCEPT !.at = "settings"] /\ UNCHANGED again
    <3>1. flight' = [at |-> "settings", kind |-> flight.kind, taken |-> flight.taken]
      BY <1>3, <2>4 DEF IsFlight
    <3>2. flight'.at = "settings" /\ IsFlight(flight')
      BY <3>1 DEF IsFlight
    <3>3. PageTypeOK'
      BY <1>4, <2>4, <3>2 DEF PageIInv, PageTypeOK
    <3>4. Todo => Todo'
      BY <1>1, <2>1, <2>4 DEF Todo
    <3>5. SnapshotsFollow'
      BY <1>1, <1>2, <2>1, <3>2, <3>4 DEF PageIInv, SnapshotsFollow
    <3>6. SurfacesFollow'
      BY <2>1, <2>2, <3>2 DEF SurfacesFollow
    <3>. QED BY <3>3, <3>5, <3>6 DEF PageIInv
  <2>. QED BY <1>7, <2>3, <2>4 DEF FetchJournal, env
<1>8. CASE FetchSettings
  <2>1. UNCHANGED <<snapshot, lapse>> /\ flight.at = "settings" /\ Load(envelope) /\ EndFlight
    BY <1>8 DEF FetchSettings
  <2>2. Todo => Todo'
    BY <1>1, <2>1, EndFlightGives DEF Todo
  <2>3. flight'.at \in {"idle", "snapshot"} /\ again' = None
    BY <1>1, <2>1, EndFlightGives
  <2>4. PageTypeOK'
    BY <1>1, <1>4, <2>1, EndFlightGives
  <2>5. SnapshotsFollow'
    BY <1>1, <1>2, <2>1, <2>2, <2>3 DEF PageIInv, SnapshotsFollow
  <2>6. (Rederives => Rederives') /\ Current' = Current
    BY <1>1, <2>1, <2>2 DEF Rederives, Current
  <2>7. envelope' = envelope /\ other' = envelope.body /\ (envelope.body = None => surface' = SurfaceOf(envelope))
    BY <2>1 DEF Load
  <2>8. SurfacesFollow'
    BY <1>1, <2>1, <2>6, <2>7 DEF PageIInv, SurfacesFollow
  <2>. QED BY <2>4, <2>5, <2>8 DEF PageIInv
<1>. QED BY <1>5, <1>6, <1>7, <1>8

\* What is loaded beside the re-derives: the envelope of a pane's refresh, the body of a tab.
LEMMA MountStep ==
  ASSUME PageIInv, GuardIInv', PaneRefreshed \/ SearchAnswered \/ \E t \in Docs \cup Bodies : MountTab(t)
  PROVE  PageIInv'
PROOF
<1>1. UNCHANGED <<store, default, dirty, queued, queuedKind, flight, again, phase, snapshot, lapse>>
  BY DEF PaneRefreshed, SearchAnswered, MountTab, mainVars, editVars
<1>2. wire' \in Seq(Broadcasts) /\ (News => News')
  <2>1. CASE UNCHANGED wire
    BY <2>1 DEF PageIInv, PageTypeOK, News
  <2>2. CASE Post("settings")
    BY <1>1, <2>2, PostGives DEF PageIInv, PageTypeOK
  <2>. QED BY <2>1, <2>2 DEF PaneRefreshed, SearchAnswered, MountTab
<1>3. PageTypeOK'
  BY <1>1, <1>2 DEF PageIInv, PageTypeOK
<1>4. (Todo <=> Todo') /\ (Rederives <=> Rederives')
  BY <1>1 DEF Todo, Rederives
<1>5. SnapshotsFollow'
  BY <1>1, <1>2, <1>4 DEF PageIInv, SnapshotsFollow
<1>6. CASE PaneRefreshed
  <2>1. /\ UNCHANGED current /\ envelope' = envelope /\ other' = envelope.body
        /\ envelope.body = None => surface' = SurfaceOf(envelope)
    BY <1>6 DEF PaneRefreshed, Load
  <2>2. Current' = Current
    BY <1>1, <2>1 DEF Current
  <2>3. SurfacesFollow'
    BY <1>1, <1>4, <2>1, <2>2 DEF PageIInv, SurfacesFollow
  <2>. QED BY <1>3, <1>5, <2>3 DEF PageIInv
<1>7. ASSUME NEW b \in Bodies, Load([body |-> b, doc |-> None, text |-> None]) PROVE PageIInv'
  <2>1. other' = b /\ envelope'.body = b /\ b # None
    BY <1>7, BodiesAssumption DEF Load
  <2>2. SurfacesFollow'
    BY <2>1 DEF SurfacesFollow
  <2>. QED BY <1>3, <1>5, <2>2 DEF PageIInv
<1>8. ASSUME NEW t \in Docs \cup Bodies, MountTab(t) PROVE PageIInv'
  <2>1. CASE current' = t /\ Load(DocBody(snapshot, t))
    <3>1. envelope' = DocBody(snapshot, t) /\ Current' = SurfaceOf(DocBody(snapshot, t)) /\ other' = None
          /\ surface' = SurfaceOf(DocBody(snapshot, t)) /\ envelope'.body = None
      BY <1>1, <2>1 DEF Load, Current, DocBody
    <3>2. SurfacesFollow'
      BY <3>1 DEF SurfacesFollow
    <3>. QED BY <1>3, <1>5, <3>2 DEF PageIInv
  <2>2. CASE UNCHANGED <<current, envelope, other, surface>>
    <3>1. Current' = Current
      BY <1>1, <2>2 DEF Current
    <3>2. SurfacesFollow'
      BY <1>1, <1>4, <2>2, <3>1 DEF PageIInv, SurfacesFollow
    <3>. QED BY <1>3, <1>5, <3>2 DEF PageIInv
  <2>. QED BY <1>7, <1>8, <2>1, <2>2 DEF MountTab, pageVars
<1>9. CASE SearchAnswered
  BY <1>7, <1>9, BodiesAssumption DEF SearchAnswered
<1>. QED BY <1>6, <1>8, <1>9

LEMMA PageInit == Init => PageIInv
PROOF
<1>. SUFFICES ASSUME Init PROVE PageIInv
  OBVIOUS
<1>1. GuardIInv
  <2>1. phase = "snapshot" /\ queued = FALSE /\ flight.at = "idle" /\ dirty = {}
    BY DEF Init, Idle
  <2>. QED BY <2>1 DEF GuardIInv, GuardTypeOK, TypedMeanwhile, Stations
<1>2. PageTypeOK
  <2>1. wire = <<>> /\ default \in Stores /\ again = None /\ queuedKind = "content" /\ flight = Idle
    BY DEF Init
  <2>. QED BY <2>1 DEF PageTypeOK, KindSet, IsFlight, Idle
<1>3. SnapshotsFollow
  BY DEF Init, Idle, SnapshotsFollow
<1>4. SurfacesFollow
  BY DEF Init, SurfacesFollow
<1>. QED BY <1>1, <1>2, <1>3, <1>4 DEF PageIInv

LEMMA PageInv == Spec => []PageIInv
PROOF
<1>1. ASSUME PageIInv, Next PROVE PageIInv'
  <2>1. GuardIInv'
    BY <1>1, GuardStep DEF PageIInv
  <2>. QED BY <1>1, <2>1, MainStep, EditStep, BootStep, FetchStep, MountStep DEF Next
<1>2. ASSUME PageIInv, UNCHANGED vars PROVE PageIInv'
  <2>1. /\ UNCHANGED <<store, default, wire, dirty, queued, queuedKind, flight, again, phase, snapshot, lapse, typed>>
        /\ UNCHANGED <<current, envelope, other, surface>>
    BY <1>2 DEF vars, mainVars, hostVars, pageVars, editVars, workVars
  <2>2. GuardIInv'
    BY <1>2, <2>1 DEF PageIInv, GuardIInv, GuardTypeOK, TypedMeanwhile
  <2>3. PageTypeOK' /\ (News <=> News') /\ (Todo <=> Todo') /\ (Rederives <=> Rederives') /\ Current' = Current
    BY <1>2, <2>1 DEF PageIInv, PageTypeOK, News, Todo, Rederives, Current
  <2>. QED BY <1>2, <2>1, <2>2, <2>3 DEF PageIInv, SnapshotsFollow, SurfacesFollow
<1>. QED BY <1>1, <1>2, PageInit, PTL DEF Spec

\* When nothing is under way and no announcement went in vain, the page shows the current document as the store
\* has it now, and no rebuild is left queued: for any documents, any texts, and any number of writes, awaits,
\* tabs and messages.
THEOREM PageSettlesOnTheStore == Spec => []SettledPageIsStore
PROOF
<1>1. PageIInv => SettledPageIsStore
  <2>. SUFFICES ASSUME PageIInv, Quiet, dirty = {}, ~lapse
                PROVE  ~queued /\ (other = None => surface = [doc |-> current, text |-> TextOf(store, current)])
    BY DEF SettledPageIsStore
  <2>1. phase = "up" /\ wire = <<>> /\ flight.at = "idle"
    BY DEF Quiet
  <2>2. ~queued /\ again = None /\ ~News
    BY <2>1 DEF PageIInv, SnapshotsFollow, News, NewsIn
  <2>3. ~Todo /\ ~Rederives
    BY <2>1, <2>2 DEF Todo, Rederives
  <2>4. snapshot = store
    BY <2>1, <2>2, <2>3 DEF PageIInv, SnapshotsFollow
  <2>5. other = None => surface = Current
    BY <2>1, <2>3 DEF PageIInv, SurfacesFollow
  <2>. QED BY <2>2, <2>4, <2>5 DEF Current, SurfaceOf, DocBody
<1>. QED BY <1>1, PageInv, PTL

----------------------------------------------------------------------------
(* The graph of the page                                                    *)

IsSequence(s) == Len(s) \in Nat /\ s = [i \in 1 .. Len(s) |-> s[i]]

OwnersShown(s, x) == IF Cardinality(Owners(s, x)) > 1 THEN Owners(s, x) ELSE {}

\* What blocks show is what the snapshot s has; f is the focused document.
FreshBlocks(blocks, s, f) ==
  \A i \in DOMAIN blocks :
    /\ blocks[i] = [text |-> blocks[i].text, box |-> blocks[i].box]
    /\ i[2] \in s.page[IF i[1] = Unscoped THEN f ELSE i[1]]
    /\ blocks[i].text = BlockOf(s, i[2]).text
    /\ blocks[i].box # NoBox => blocks[i].box.owners = OwnersShown(s, i[2])

FreshBoxes(blocks, s) == \A i \in DOMAIN blocks : blocks[i].box.owners = OwnersShown(s, i[2])

\* The surface attached last shows nothing but blocks of the last envelope's.
Shows(seq, blocks) ==
  /\ IsSequence(seq)
  /\ \A m \in DOMAIN seq : seq[m] = [surface |-> seq[m].surface, blocks |-> seq[m].blocks]
  /\ \E n \in DOMAIN seq :
       /\ seq[n].surface /\ \A m \in DOMAIN seq : seq[m].surface => m <= n
       /\ DOMAIN seq[n].blocks \subseteq DOMAIN blocks
       /\ \A i \in DOMAIN seq[n].blocks : seq[n].blocks[i] = blocks[i]

\* A snapshot is on its way exactly while its answer is awaited.
OneSnapshot ==
  /\ IsSequence(news)
  /\ \A i \in DOMAIN news : news[i].kind = "snapshot" => deriving.at = "answered"
  /\ \A i, j \in DOMAIN news : news[i].kind = "snapshot" /\ news[j].kind = "snapshot" => i = j

GraphIInv ==
  /\ deriving = [at |-> deriving.at, kind |-> deriving.kind]
  /\ tracked = [roots |-> tracked.roots, surface |-> tracked.surface]
  /\ IsSequence(mounted) /\ \A i \in DOMAIN mounted : mounted[i] \in Pages
  /\ OneSnapshot
  /\ Shows(onPage, tracked.surface)
  /\ deriving.at # "taken" => FreshBlocks(authored, cached, focused)
  /\ deriving.at \notin {"taken", "refresh"} =>
       FreshBlocks(tracked.surface, cached, focused) /\ FreshBoxes(tracked.surface, cached)

LEMMA AppendIs ==
  ASSUME NEW s, IsSequence(s), NEW m
  PROVE  /\ IsSequence(Append(s, m)) /\ DOMAIN Append(s, m) = DOMAIN s \cup {Len(s) + 1}
         /\ DOMAIN s = 1 .. Len(s) /\ Len(s) \in Nat /\ Len(Append(s, m)) = Len(s) + 1
         /\ \A i \in DOMAIN s : Append(s, m)[i] = s[i]
         /\ Append(s, m)[Len(s) + 1] = m
<1> DEFINE S == {s[i] : i \in 1 .. Len(s)} \cup {m}
           n == Len(s)
<1>1. n \in Nat /\ s = [i \in 1 .. n |-> s[i]]
  BY DEF IsSequence
<1>2. s \in Seq(S) /\ m \in S
  <2>1. s \in [1 .. n -> S]
    BY <1>1
  <2>2. m \in S
    OBVIOUS
  <2> HIDE DEF S
  <2> QED BY <1>1, <2>1, <2>2
<1> HIDE DEF S
<1>3. /\ Append(s, m) \in Seq(S) /\ Len(Append(s, m)) = n + 1
      /\ \A i \in 1 .. n : Append(s, m)[i] = s[i]
      /\ Append(s, m)[n + 1] = m
  BY <1>2, AppendProperties
<1>4. DOMAIN Append(s, m) = 1 .. n + 1 /\ DOMAIN s = 1 .. n
  BY <1>1, <1>2, <1>3
<1>5. IsSequence(Append(s, m))
  <2> DEFINE t == Append(s, m)
  <2>1. t \in Seq(S) /\ Len(t) = n + 1
    BY <1>3
  <2> HIDE DEF t
  <2>2. t = [i \in 1 .. Len(t) |-> t[i]]
    BY <2>1
  <2> QED BY <1>1, <2>1, <2>2 DEF IsSequence, t
<1> QED BY <1>1, <1>3, <1>4, <1>5

LEMMA TailIs ==
  ASSUME NEW s, IsSequence(s), s # <<>>
  PROVE  /\ IsSequence(Tail(s)) /\ Head(s) = s[1] /\ 1 \in DOMAIN s /\ Len(Tail(s)) = Len(s) - 1
         /\ \A i \in DOMAIN Tail(s) : i + 1 \in DOMAIN s /\ Tail(s)[i] = s[i + 1] /\ i \in Nat /\ i + 1 # 1
         /\ \A i \in DOMAIN s : i # 1 => i - 1 \in DOMAIN Tail(s) /\ Tail(s)[i - 1] = s[i]
<1> DEFINE S == {s[i] : i \in 1 .. Len(s)}
           n == Len(s)
<1>1. n \in Nat /\ s = [i \in 1 .. n |-> s[i]]
  BY DEF IsSequence
<1>2. s \in Seq(S)
  <2>1. s \in [1 .. n -> S]
    BY <1>1
  <2> HIDE DEF S
  <2> QED BY <1>1, <2>1
<1> HIDE DEF S
<1>3. /\ Tail(s) \in Seq(S) /\ Len(Tail(s)) = n - 1 /\ Head(s) = s[1] /\ n > 0
      /\ \A i \in 1 .. n - 1 : Tail(s)[i] = s[i + 1]
  BY <1>2, HeadTailProperties, EmptySeq
<1>4. DOMAIN Tail(s) = 1 .. n - 1 /\ DOMAIN s = 1 .. n
  BY <1>1, <1>2, <1>3
<1>5. IsSequence(Tail(s))
  <2> DEFINE t == Tail(s)
  <2>1. t \in Seq(S) /\ Len(t) = n - 1 /\ n - 1 \in Nat
    BY <1>1, <1>3
  <2> HIDE DEF t
  <2>2. t = [i \in 1 .. Len(t) |-> t[i]]
    BY <2>1
  <2> QED BY <2>1, <2>2 DEF IsSequence, t
<1> QED BY <1>1, <1>3, <1>4, <1>5

----------------------------------------------------------------------------
(* What is authored from a snapshot shows that snapshot.                    *)

LEMMA BodyFresh ==
  ASSUME NEW s, NEW d, NEW f, NEW scope, scope = Unscoped => f = d, scope # Unscoped => scope = d
  PROVE  FreshBlocks(Body(s, d, scope), s, f)
<1> SUFFICES ASSUME NEW i \in {scope} \X s.page[d]
             PROVE  LET b == Body(s, d, scope)[i]
                    IN  /\ b = [text |-> b.text, box |-> b.box]
                        /\ i[2] \in s.page[IF i[1] = Unscoped THEN f ELSE i[1]]
                        /\ b.text = BlockOf(s, i[2]).text
                        /\ b.box # NoBox => b.box.owners = OwnersShown(s, i[2])
  BY DEF FreshBlocks, Body
<1>1. i[1] = scope /\ i[2] \in s.page[d]
  OBVIOUS
<1>2. Body(s, d, scope)[i] = BlockOf(s, i[2])
  BY DEF Body
<1>3. BlockOf(s, i[2]).box = NoBox /\ BlockOf(s, i[2]) = [text |-> BlockOf(s, i[2]).text, box |-> BlockOf(s, i[2]).box]
  BY DEF BlockOf
<1> QED BY <1>1, <1>2, <1>3

LEMMA DecoratedFresh ==
  ASSUME NEW s, NEW closed, NEW f, NEW blocks, FreshBlocks(blocks, s, f)
  PROVE  FreshBlocks(Decorated(s, closed, blocks), s, f) /\ FreshBoxes(Decorated(s, closed, blocks), s)
<1> DEFINE D == Decorated(s, closed, blocks)
<1>1. DOMAIN D = DOMAIN blocks
  BY DEF Decorated
<1>2. ASSUME NEW i \in DOMAIN blocks
      PROVE  /\ D[i] = [text |-> D[i].text, box |-> D[i].box]
             /\ i[2] \in s.page[IF i[1] = Unscoped THEN f ELSE i[1]]
             /\ D[i].text = BlockOf(s, i[2]).text
             /\ D[i].box.owners = OwnersShown(s, i[2])
  <2>1. /\ blocks[i] = [text |-> blocks[i].text, box |-> blocks[i].box]
        /\ i[2] \in s.page[IF i[1] = Unscoped THEN f ELSE i[1]]
        /\ blocks[i].text = BlockOf(s, i[2]).text
        /\ blocks[i].box # NoBox => blocks[i].box.owners = OwnersShown(s, i[2])
    BY DEF FreshBlocks
  <2> DEFINE box == [owners |-> Owners(s, i[2]), closed |-> i[2] \in closed]
  <2>2. CASE blocks[i].box = NoBox /\ Cardinality(Owners(s, i[2])) > 1
    <3>1. D[i] = [blocks[i] EXCEPT !.box = box]
      BY <2>2 DEF Decorated
    <3>2. PICK t, b : blocks[i] = [text |-> t, box |-> b]
      BY <2>1
    <3>3. D[i] = [text |-> t, box |-> box] /\ blocks[i].text = t
      BY <3>1, <3>2
    <3>4. box.owners = OwnersShown(s, i[2])
      BY <2>2 DEF OwnersShown
    <3> QED BY <2>1, <3>3, <3>4
  <2>3. CASE ~(blocks[i].box = NoBox /\ Cardinality(Owners(s, i[2])) > 1)
    <3>1. D[i] = blocks[i]
      BY <2>3 DEF Decorated
    <3>2. blocks[i].box.owners = OwnersShown(s, i[2])
      BY <2>1, <2>3 DEF OwnersShown, NoBox
    <3> QED BY <2>1, <3>1, <3>2
  <2> QED BY <2>2, <2>3
<1> HIDE DEF D
<1>3. FreshBlocks(D, s, f) /\ FreshBoxes(D, s)
  BY <1>1, <1>2 DEF FreshBlocks, FreshBoxes
<1> QED BY <1>3 DEF D

LEMMA ScopedFresh ==
  ASSUME NEW s, NEW f, NEW d \in Pages
  PROVE  FreshBlocks(Scoped(s, d), s, f) /\ FreshBoxes(Scoped(s, d), s) /\ \A i \in DOMAIN Scoped(s, d) : i[1] = d
<1>1. FreshBlocks(Body(s, d, d), s, f)
  BY BodyFresh, PagesAssumption
<1>2. FreshBlocks(Decorated(s, collapsed', Body(s, d, d)), s, f) /\ FreshBoxes(Decorated(s, collapsed', Body(s, d, d)), s)
  BY <1>1, DecoratedFresh
<1>3. \A i \in DOMAIN Scoped(s, d) : i[1] = d
  BY DEF Scoped, Decorated, Body
<1> QED BY <1>2, <1>3 DEF Scoped

LEMMA UnionFresh ==
  ASSUME NEW s, NEW f, NEW ds \in SUBSET Pages
  PROVE  FreshBlocks(ScopedUnion(s, ds), s, f)
<1> DEFINE U == ScopedUnion(s, ds)
<1>1. ASSUME NEW i \in DOMAIN U
      PROVE  /\ U[i] = [text |-> U[i].text, box |-> U[i].box]
             /\ i[2] \in s.page[IF i[1] = Unscoped THEN f ELSE i[1]]
             /\ U[i].text = BlockOf(s, i[2]).text
             /\ U[i].box # NoBox => U[i].box.owners = OwnersShown(s, i[2])
  <2>1. PICK d \in ds : i \in DOMAIN Scoped(s, d)
    BY DEF ScopedUnion
  <2>2. i[1] = d /\ FreshBlocks(Scoped(s, d), s, f)
    BY <2>1, ScopedFresh
  <2>3. U[i] = Scoped(s, d)[i]
    BY <2>2 DEF ScopedUnion
  <2> QED BY <2>1, <2>2, <2>3 DEF FreshBlocks
<1> HIDE DEF U
<1>2. FreshBlocks(U, s, f)
  BY <1>1 DEF FreshBlocks
<1> QED BY <1>2 DEF U

----------------------------------------------------------------------------
(* What is done with it                                                     *)

\* The graph is loaded anew.
LEMMA LoadKeeps ==
  ASSUME NEW s, NEW blocks, LoadAppGraph(s, blocks), NEW f
  PROVE  /\ tracked' = [roots |-> tracked'.roots, surface |-> tracked'.surface]
         /\ Shows(onPage', tracked'.surface)
         /\ authored' = blocks
         /\ FreshBlocks(blocks, s, f) => FreshBlocks(tracked'.surface, s, f) /\ FreshBoxes(tracked'.surface, s)
<1> DEFINE D == Decorated(s, collapsed', blocks)
<1>1. /\ authored' = blocks /\ onPage' = <<[surface |-> TRUE, blocks |-> D]>>
      /\ tracked' = [roots |-> RootsAs(Unscoped, D), surface |-> D]
  BY DEF LoadAppGraph
<1>2. FreshBlocks(blocks, s, f) => FreshBlocks(D, s, f) /\ FreshBoxes(D, s)
  BY DecoratedFresh
<1> HIDE DEF D
<1>3. IsSequence(onPage') /\ DOMAIN onPage' = {1} /\ onPage'[1] = [surface |-> TRUE, blocks |-> D]
  BY <1>1 DEF IsSequence
<1>4. Shows(onPage', D)
  BY <1>3 DEF Shows
<1> QED BY <1>1, <1>2, <1>4

\* Without destroyed roots, the surface attached last shows no other blocks than before.
LEMMA WithoutShows ==
  ASSUME NEW seq, NEW blocks, Shows(seq, blocks), NEW ids
  PROVE  Shows(Without(seq, ids), blocks)
<1> DEFINE t == Without(seq, ids)
           rest(n) == {i \in DOMAIN seq[n].blocks : i \notin ids \/ LastWith(seq, i) # n}
<1>1. DOMAIN t = DOMAIN seq /\ IsSequence(t)
  <2>1. DOMAIN t = DOMAIN seq
    BY DEF Without
  <2>2. Len(seq) \in Nat /\ DOMAIN seq = 1 .. Len(seq)
    BY DEF Shows, IsSequence
  <2>3. t = [n \in 1 .. Len(seq) |-> t[n]]
    BY <2>1, <2>2 DEF Without
  <2> HIDE DEF t
  <2>4. Len(t) = Len(seq)
    BY <2>2, <2>3
  <2> QED BY <2>1, <2>2, <2>3, <2>4 DEF IsSequence
<1>2. ASSUME NEW n \in DOMAIN seq
      PROVE  t[n] = [surface |-> seq[n].surface, blocks |-> [j \in rest(n) |-> seq[n].blocks[j]]]
  <2>1. PICK a, b : seq[n] = [surface |-> a, blocks |-> b]
    BY DEF Shows
  <2>2. t[n] = [seq[n] EXCEPT !.blocks = [j \in rest(n) |-> @[j]]]
    BY DEF Without
  <2>3. seq[n].surface = a /\ seq[n].blocks = b
    BY <2>1
  <2> HIDE DEF rest, t
  <2>4. t[n] = [surface |-> a, blocks |-> [j \in rest(n) |-> b[j]]]
    BY <2>1, <2>2
  <2> QED BY <2>3, <2>4
<1>3. PICK n \in DOMAIN seq :
        /\ seq[n].surface /\ \A m \in DOMAIN seq : seq[m].surface => m <= n
        /\ DOMAIN seq[n].blocks \subseteq DOMAIN blocks
        /\ \A i \in DOMAIN seq[n].blocks : seq[n].blocks[i] = blocks[i]
  BY DEF Shows
<1>4. \A m \in DOMAIN seq : rest(m) \subseteq DOMAIN seq[m].blocks
  OBVIOUS
<1> HIDE DEF rest, t
<1>5. \A m \in DOMAIN t : t[m] = [surface |-> t[m].surface, blocks |-> t[m].blocks] /\ t[m].surface = seq[m].surface
  BY <1>1, <1>2
<1>6. /\ t[n].blocks = [j \in rest(n) |-> seq[n].blocks[j]]
      /\ DOMAIN t[n].blocks = rest(n) /\ \A i \in rest(n) : t[n].blocks[i] = seq[n].blocks[i]
  <2> DEFINE r == [j \in rest(n) |-> seq[n].blocks[j]]
  <2>1. DOMAIN r = rest(n) /\ \A i \in rest(n) : r[i] = seq[n].blocks[i]
    OBVIOUS
  <2>2. t[n] = [surface |-> seq[n].surface, blocks |-> r]
    BY <1>2
  <2> HIDE DEF r
  <2>3. t[n].blocks = r
    BY <2>2
  <2> QED BY <2>1, <2>3 DEF r
<1>7. /\ DOMAIN t[n].blocks \subseteq DOMAIN blocks
      /\ \A i \in DOMAIN t[n].blocks : t[n].blocks[i] = blocks[i]
  BY <1>3, <1>4, <1>6
<1> QED BY <1>1, <1>3, <1>5, <1>7 DEF Shows, t

LEMMA BesideShows ==
  ASSUME NEW seq, NEW blocks, Shows(seq, blocks), NEW beside
  PROVE  Shows(Append(seq, [surface |-> FALSE, blocks |-> beside]), blocks)
<1> DEFINE e == [surface |-> FALSE, blocks |-> beside]
           t == Append(seq, e)
<1>1. /\ IsSequence(t) /\ DOMAIN t = DOMAIN seq \cup {Len(seq) + 1}
      /\ \A i \in DOMAIN seq : t[i] = seq[i]
      /\ t[Len(seq) + 1] = e
  BY AppendIs DEF Shows
<1>2. e = [surface |-> e.surface, blocks |-> e.blocks] /\ ~e.surface
  OBVIOUS
<1>3. PICK n \in DOMAIN seq :
        /\ seq[n].surface /\ \A m \in DOMAIN seq : seq[m].surface => m <= n
        /\ DOMAIN seq[n].blocks \subseteq DOMAIN blocks
        /\ \A i \in DOMAIN seq[n].blocks : seq[n].blocks[i] = blocks[i]
  BY DEF Shows
<1> HIDE DEF t, e
<1>4. \A m \in DOMAIN t : t[m] = [surface |-> t[m].surface, blocks |-> t[m].blocks]
  BY <1>1, <1>2 DEF Shows
<1>5. n \in DOMAIN t /\ t[n] = seq[n] /\ \A m \in DOMAIN t : t[m].surface => m <= n
  BY <1>1, <1>2, <1>3
<1>6. Shows(t, blocks)
  BY <1>1, <1>3, <1>4, <1>5 DEF Shows
<1> QED BY <1>6 DEF t, e

LEMMA SurfaceShows ==
  ASSUME NEW seq, NEW old, Shows(seq, old), NEW blocks
  PROVE  Shows(Append(seq, [surface |-> TRUE, blocks |-> blocks]), blocks)
<1> DEFINE e == [surface |-> TRUE, blocks |-> blocks]
           t == Append(seq, e)
           n == Len(seq) + 1
<1>1. /\ IsSequence(t) /\ DOMAIN t = DOMAIN seq \cup {n} /\ DOMAIN seq = 1 .. Len(seq) /\ Len(seq) \in Nat
      /\ \A i \in DOMAIN seq : t[i] = seq[i]
      /\ t[n] = e
  BY AppendIs DEF Shows
<1>2. e = [surface |-> e.surface, blocks |-> e.blocks] /\ e.surface /\ e.blocks = blocks
  OBVIOUS
<1>3. \A m \in DOMAIN t : m <= n
  BY <1>1
<1> HIDE DEF t, e
<1>4. \A m \in DOMAIN t : t[m] = [surface |-> t[m].surface, blocks |-> t[m].blocks]
  BY <1>1, <1>2 DEF Shows
<1>5. t[n].surface /\ t[n].blocks = blocks /\ n \in DOMAIN t
  BY <1>1, <1>2
<1> HIDE DEF n
<1> QED BY <1>1, <1>3, <1>4, <1>5 DEF Shows, t, e

\* A reconciliation that leaves the surface leaves it because nothing in it changed.
LEMMA ReconcileKeeps ==
  ASSUME Shows(onPage, tracked.surface), NEW previous, previous.surface = tracked.surface,
         NEW next, NEW open, NEW ch,
         ApplyContentReconcile(ReconcileDocumentRoots(previous, next, open, ch), next)
  PROVE  tracked' = next /\ Shows(onPage', next.surface)
<1> DEFINE result == ReconcileDocumentRoots(previous, next, open, ch)
           gone == {e.id : e \in result.removed \cup result.replaced \cup result.from}
           beside == {e \in result.added \cup result.replaced \cup result.to : e.id \notin DOMAIN next.surface}
           kept == Without(onPage, gone)
           placed == IF result.surface THEN Append(kept, [surface |-> TRUE, blocks |-> next.surface]) ELSE kept
<1>1. /\ onPage' = IF beside = {} THEN placed ELSE Append(placed, [surface |-> FALSE, blocks |-> BlocksOf(beside)])
      /\ tracked' = next
  BY DEF ApplyContentReconcile
<1>2. ~result.surface => next.surface = tracked.surface
  BY DEF ReconcileDocumentRoots, SurfaceReplaced
<1> HIDE DEF result, gone, beside
<1>3. Shows(kept, tracked.surface)
  BY WithoutShows
<1> HIDE DEF kept
<1>4. Shows(placed, next.surface)
  <2>1. CASE result.surface
    BY <1>3, <2>1, SurfaceShows
  <2>2. CASE ~result.surface
    BY <1>2, <1>3, <2>2
  <2> QED BY <2>1, <2>2
<1> HIDE DEF placed
<1>5. Shows(onPage', next.surface)
  BY <1>1, <1>4, BesideShows
<1> QED BY <1>1, <1>5

----------------------------------------------------------------------------
(* The invariant                                                            *)

\* What a step that leaves the page alone, or only tells or hears, has to show.
LEMMA PageRests ==
  ASSUME GraphIInv, UNCHANGED <<hostView, tracked, onPage>>, OneSnapshot',
         deriving' = [at |-> deriving'.at, kind |-> deriving'.kind],
         deriving'.at = deriving.at \/ {deriving.at, deriving'.at} \subseteq {"idle", "asked", "answered"}
  PROVE  GraphIInv'
<1>1. UNCHANGED <<cached, authored, mounted, focused, tracked, onPage>>
  BY DEF hostView
<1>2. deriving'.at # "taken" => FreshBlocks(authored, cached, focused)
  BY DEF GraphIInv
<1>3. deriving'.at \notin {"taken", "refresh"} =>
        FreshBlocks(tracked.surface, cached, focused) /\ FreshBoxes(tracked.surface, cached)
  BY DEF GraphIInv
<1> QED BY <1>1, <1>2, <1>3 DEF GraphIInv

\* What is told is no snapshot.
LEMMA ToldKeeps ==
  ASSUME OneSnapshot, NEW m, m.kind # "snapshot", Tell(m), deriving' = deriving
  PROVE  OneSnapshot'
<1>1. /\ IsSequence(news') /\ DOMAIN news' = DOMAIN news \cup {Len(news) + 1}
      /\ \A i \in DOMAIN news : news'[i] = news[i]
      /\ news'[Len(news) + 1] = m
  BY AppendIs DEF OneSnapshot, Tell
<1> QED BY <1>1 DEF OneSnapshot

\* What is heard, unless it is the snapshot, leaves the rest on its way.
LEMMA HeardKeeps ==
  ASSUME OneSnapshot, news # <<>>, news' = Tail(news),
         deriving.at = "answered" => deriving'.at = "answered"
  PROVE  OneSnapshot'
<1>1. /\ IsSequence(news')
      /\ \A i \in DOMAIN news' : i + 1 \in DOMAIN news /\ news'[i] = news[i + 1] /\ i \in Nat
  BY TailIs DEF OneSnapshot
<1>2. \A i, j \in DOMAIN news' : i + 1 = j + 1 => i = j
  BY <1>1
<1> QED BY <1>1, <1>2 DEF OneSnapshot

LEMMA RequestIs ==
  ASSUME NEW kind, Request(kind), deriving = [at |-> deriving.at, kind |-> deriving.kind]
  PROVE  /\ deriving' = [at |-> deriving'.at, kind |-> deriving'.kind]
         /\ deriving' = deriving \/ (deriving.at = "idle" /\ deriving'.at = "asked")
<1>1. CASE deriving.at = "idle"
  BY <1>1 DEF Request
<1>2. CASE deriving.at # "idle"
  BY <1>2 DEF Request
<1> QED BY <1>1, <1>2

LEMMA DoneIs ==
  ASSUME Done
  PROVE  deriving' = [at |-> deriving'.at, kind |-> deriving'.kind] /\ deriving'.at \in {"idle", "asked"}
  BY DEF Done, Resting

LEMMA MainKeeps ==
  ASSUME GraphIInv,
         \/ \E n \in DOMAIN Under : EditNode(n)
         \/ \E d \in Pages, x \in SectionSet : EditFlow(d, x)
         \/ SetSettings
  PROVE  GraphIInv'
<1>1. UNCHANGED <<hostView, tracked, onPage, deriving>>
  BY DEF EditNode, EditFlow, SetSettings
<1>2. PICK m : m.kind # "snapshot" /\ Tell(m)
  <2>1. CASE \E n \in DOMAIN Under : EditNode(n)
    <3>1. PICK n : Tell([kind |-> "content", nodes |-> {n}, edges |-> FALSE])
      BY <2>1 DEF EditNode
    <3> QED BY <3>1
  <2>2. CASE \E d \in Pages, x \in SectionSet : EditFlow(d, x)
    <3>1. PICK ns : Tell([kind |-> "structural", nodes |-> ns, edges |-> TRUE])
      BY <2>2 DEF EditFlow
    <3> QED BY <3>1
  <2>3. CASE SetSettings
    <3>1. Tell([kind |-> "settings"])
      BY <2>3 DEF SetSettings
    <3> QED BY <3>1
  <2> QED BY <2>1, <2>2, <2>3
<1>3. OneSnapshot'
  BY <1>1, <1>2, ToldKeeps DEF GraphIInv
<1>4. deriving = [at |-> deriving.at, kind |-> deriving.kind]
  BY DEF GraphIInv
<1> QED BY <1>1, <1>3, <1>4, PageRests

LEMMA AnswerKeeps ==
  ASSUME GraphIInv, AnswerSnapshot
  PROVE  GraphIInv'
<1>1. /\ UNCHANGED <<hostView, tracked, onPage>> /\ deriving.at = "asked"
      /\ deriving' = [at |-> "answered", kind |-> deriving.kind]
  BY DEF AnswerSnapshot, GraphIInv
<1>2. OneSnapshot'
  <2> DEFINE m == [kind |-> "snapshot", of |-> rag]
  <2>1. Tell(m)
    BY DEF AnswerSnapshot
  <2> HIDE DEF m
  <2>2. /\ IsSequence(news') /\ DOMAIN news' = DOMAIN news \cup {Len(news) + 1}
        /\ \A i \in DOMAIN news : news'[i] = news[i]
    BY <2>1, AppendIs DEF GraphIInv, OneSnapshot, Tell
  <2>3. \A i \in DOMAIN news : news[i].kind # "snapshot"
    BY <1>1 DEF GraphIInv, OneSnapshot
  <2>4. deriving'.at = "answered"
    BY <1>1
  <2> QED BY <2>2, <2>3, <2>4 DEF OneSnapshot
<1> QED BY <1>1, <1>2, PageRests

LEMMA HearKeeps ==
  ASSUME GraphIInv, HearChange \/ HearSettings
  PROVE  GraphIInv'
<1>1. /\ UNCHANGED <<hostView, tracked, onPage>> /\ news # <<>> /\ news' = Tail(news)
      /\ \E kind : Request(kind)
  BY DEF HearChange, HearSettings, Incoming, hostView
<1>2. /\ deriving' = [at |-> deriving'.at, kind |-> deriving'.kind]
      /\ deriving' = deriving \/ (deriving.at = "idle" /\ deriving'.at = "asked")
  BY <1>1, RequestIs DEF GraphIInv
<1>3. OneSnapshot'
  BY <1>1, <1>2, HeardKeeps DEF GraphIInv
<1> QED BY <1>1, <1>2, <1>3, PageRests

LEMMA TakeKeeps ==
  ASSUME GraphIInv, TakeSnapshot
  PROVE  GraphIInv'
<1>1. /\ news # <<>> /\ Head(news).kind = "snapshot" /\ news' = Tail(news)
      /\ UNCHANGED <<authored, mounted, focused, tracked, onPage>>
      /\ deriving' = [at |-> "taken", kind |-> deriving.kind]
  BY DEF TakeSnapshot, Incoming, GraphIInv
<1>2. OneSnapshot'
  <2>1. /\ IsSequence(news') /\ news[1].kind = "snapshot" /\ 1 \in DOMAIN news
        /\ \A i \in DOMAIN news' : i + 1 \in DOMAIN news /\ news'[i] = news[i + 1] /\ i + 1 # 1
    BY <1>1, TailIs DEF GraphIInv, OneSnapshot
  <2>2. \A i \in DOMAIN news : news[i].kind = "snapshot" => i = 1
    BY <2>1 DEF GraphIInv, OneSnapshot
  <2>3. \A i \in DOMAIN news' : news'[i].kind # "snapshot"
    BY <2>1, <2>2
  <2> QED BY <2>1, <2>3 DEF OneSnapshot
<1>3. deriving'.at = "taken" /\ deriving' = [at |-> deriving'.at, kind |-> deriving'.kind]
  BY <1>1
<1> QED BY <1>1, <1>2, <1>3 DEF GraphIInv

\* A page that is applied from the snapshot that was taken shows it.
LEMMA AppliedSet ==
  ASSUME GraphIInv, NEW docs, IsSequence(docs), \A i \in DOMAIN docs : docs[i] \in Pages, 1 \in DOMAIN docs,
         NEW ch, ApplyDocumentSet(cached, docs, ch), NEW f
  PROVE  /\ tracked' = [roots |-> tracked'.roots, surface |-> tracked'.surface]
         /\ Shows(onPage', tracked'.surface)
         /\ FreshBlocks(authored', cached, f)
         /\ FreshBlocks(tracked'.surface, cached, f) /\ FreshBoxes(tracked'.surface, cached)
<1> DEFINE open == {docs[i] : i \in DOMAIN docs}
           scoped == Scoped(cached, docs[1])
           next == [roots |-> UNION {RootsAs(d, Scoped(cached, d)) : d \in open}, surface |-> scoped]
<1>1. ApplyContentReconcile(ReconcileDocumentRoots(tracked, next, open, ch), next) /\ authored' = ScopedUnion(cached, open)
  BY DEF ApplyDocumentSet
<1>2. FreshBlocks(scoped, cached, f) /\ FreshBoxes(scoped, cached)
  BY ScopedFresh
<1>3. FreshBlocks(ScopedUnion(cached, open), cached, f)
  <2>1. open \in SUBSET Pages
    OBVIOUS
  <2> HIDE DEF open
  <2> QED BY <2>1, UnionFresh
<1>4. next = [roots |-> next.roots, surface |-> next.surface] /\ next.surface = scoped
  OBVIOUS
<1> HIDE DEF open, scoped, next
<1>5. Shows(onPage, tracked.surface)
  BY DEF GraphIInv
<1>6. tracked' = next /\ Shows(onPage', next.surface)
  BY <1>1, <1>5, ReconcileKeeps
<1> QED BY <1>1, <1>2, <1>3, <1>4, <1>6

LEMMA AppliedOne ==
  ASSUME GraphIInv, ApplyContentChange(cached)
  PROVE  /\ tracked' = [roots |-> tracked'.roots, surface |-> tracked'.surface]
         /\ Shows(onPage', tracked'.surface)
         /\ FreshBlocks(authored', cached, focused)
         /\ FreshBlocks(tracked'.surface, cached, focused) /\ FreshBoxes(tracked'.surface, cached)
<1> DEFINE blocks == Decorated(cached, collapsed', Body(cached, focused, Unscoped))
           next == [roots |-> RootsAs(focused, blocks), surface |-> blocks]
           previous == [tracked EXCEPT !.roots = {[e EXCEPT !.doc = focused] : e \in @}]
<1>1. /\ ApplyContentReconcile(ReconcileDocumentRoots(previous, next, {focused}, pending), next)
      /\ authored' = Body(cached, focused, Unscoped)
  BY DEF ApplyContentChange
<1>2. FreshBlocks(Body(cached, focused, Unscoped), cached, focused)
  BY BodyFresh
<1>3. FreshBlocks(blocks, cached, focused) /\ FreshBoxes(blocks, cached)
  BY <1>2, DecoratedFresh
<1>4. next = [roots |-> next.roots, surface |-> next.surface] /\ next.surface = blocks
  OBVIOUS
<1>5. previous.surface = tracked.surface
  <2>1. PICK a, b : tracked = [roots |-> a, surface |-> b]
    BY DEF GraphIInv
  <2> QED BY <2>1
<1>6. Shows(onPage, tracked.surface)
  BY DEF GraphIInv
<1> HIDE DEF blocks, next, previous
<1>7. tracked' = next /\ Shows(onPage', next.surface)
  BY <1>1, <1>5, <1>6, ReconcileKeeps
<1> QED BY <1>1, <1>2, <1>3, <1>4, <1>7

\* A step that shows what the cached snapshot has keeps the invariant.
LEMMA ShownKeeps ==
  ASSUME GraphIInv, cached' = cached, OneSnapshot', IsSequence(mounted'), \A i \in DOMAIN mounted' : mounted'[i] \in Pages,
         deriving' = [at |-> deriving'.at, kind |-> deriving'.kind],
         tracked' = [roots |-> tracked'.roots, surface |-> tracked'.surface],
         Shows(onPage', tracked'.surface),
         deriving'.at # "taken" => FreshBlocks(authored', cached, focused'),
         deriving'.at \notin {"taken", "refresh"} =>
           FreshBlocks(tracked'.surface, cached, focused') /\ FreshBoxes(tracked'.surface, cached)
  PROVE  GraphIInv'
  BY DEF GraphIInv

LEMMA DoneKeeps ==
  ASSUME OneSnapshot, Done, news' = news, deriving.at # "answered"
  PROVE  OneSnapshot'
  BY DEF OneSnapshot

LEMMA ApplyKeeps ==
  ASSUME GraphIInv, ApplyContent
  PROVE  GraphIInv'
<1>1. /\ deriving.at = "taken" /\ UNCHANGED <<cached, mounted, focused, news>> /\ Done
      /\ IF Several THEN ApplyDocumentSet(cached, mounted, pending) ELSE ApplyContentChange(cached)
  BY DEF ApplyContent
<1>2. OneSnapshot'
  BY <1>1, DoneKeeps DEF GraphIInv
<1>3. IsSequence(mounted) /\ \A i \in DOMAIN mounted : mounted[i] \in Pages
  BY DEF GraphIInv
<1>4. Several => 1 \in DOMAIN mounted
  <2>1. Len(mounted) \in Nat /\ DOMAIN mounted = 1 .. Len(mounted)
    BY <1>3 DEF IsSequence
  <2> QED BY <2>1 DEF Several
<1>5. /\ tracked' = [roots |-> tracked'.roots, surface |-> tracked'.surface]
      /\ Shows(onPage', tracked'.surface)
      /\ FreshBlocks(authored', cached, focused)
      /\ FreshBlocks(tracked'.surface, cached, focused) /\ FreshBoxes(tracked'.surface, cached)
  <2>1. CASE Several
    <3>1. ApplyDocumentSet(cached, mounted, pending)
      BY <1>1, <2>1
    <3> QED BY <1>3, <1>4, <2>1, <3>1, AppliedSet
  <2>2. CASE ~Several
    <3>1. ApplyContentChange(cached)
      BY <1>1, <2>2
    <3> QED BY <3>1, AppliedOne
  <2> QED BY <2>1, <2>2
<1>6. deriving' = [at |-> deriving'.at, kind |-> deriving'.kind]
  BY <1>1, DoneIs
<1> QED BY <1>1, <1>2, <1>3, <1>5, <1>6, ShownKeeps

LEMMA AnewKeeps ==
  ASSUME GraphIInv, AuthorAnew
  PROVE  GraphIInv'
<1>1. /\ deriving.at = "taken" /\ UNCHANGED <<cached, mounted, focused, news, tracked, onPage>>
      /\ authored' = IF Several THEN ScopedUnion(cached, Mounted) ELSE Body(cached, focused, Unscoped)
      /\ deriving' = [at |-> "refresh", kind |-> deriving.kind]
  BY DEF AuthorAnew, GraphIInv
<1>2. deriving'.at = "refresh" /\ deriving' = [at |-> deriving'.at, kind |-> deriving'.kind]
  BY <1>1
<1>3. OneSnapshot'
  BY <1>1, <1>2 DEF GraphIInv, OneSnapshot
<1>4. FreshBlocks(authored', cached, focused)
  <2>1. Mounted \in SUBSET Pages
    BY DEF GraphIInv, Mounted
  <2>2. FreshBlocks(ScopedUnion(cached, Mounted), cached, focused)
    BY <2>1, UnionFresh
  <2>3. FreshBlocks(Body(cached, focused, Unscoped), cached, focused)
    BY BodyFresh
  <2> QED BY <1>1, <2>2, <2>3
<1> QED BY <1>1, <1>2, <1>3, <1>4 DEF GraphIInv

LEMMA RefreshKeeps ==
  ASSUME GraphIInv, Refresh
  PROVE  GraphIInv'
<1>1. deriving.at = "refresh" /\ UNCHANGED <<cached, mounted, focused, news>> /\ LoadAppGraph(cached, authored) /\ Done
  BY DEF Refresh
<1>2. FreshBlocks(authored, cached, focused)
  BY <1>1 DEF GraphIInv
<1>3. /\ tracked' = [roots |-> tracked'.roots, surface |-> tracked'.surface]
      /\ Shows(onPage', tracked'.surface)
      /\ authored' = authored
      /\ FreshBlocks(tracked'.surface, cached, focused) /\ FreshBoxes(tracked'.surface, cached)
  BY <1>1, <1>2, LoadKeeps
<1>4. OneSnapshot'
  BY <1>1, DoneKeeps DEF GraphIInv
<1>5. deriving' = [at |-> deriving'.at, kind |-> deriving'.kind]
  BY <1>1, DoneIs
<1>6. IsSequence(mounted) /\ \A i \in DOMAIN mounted : mounted[i] \in Pages
  BY DEF GraphIInv
<1> QED BY <1>1, <1>2, <1>3, <1>4, <1>5, <1>6, ShownKeeps

LEMMA AloneKeeps ==
  ASSUME GraphIInv, NEW d \in Pages, MountAlone(d)
  PROVE  GraphIInv'
<1>1. /\ UNCHANGED <<cached, news, deriving>> /\ mounted' = <<d>> /\ focused' = d
      /\ LoadAppGraph(cached, Body(cached, d, Unscoped))
  BY DEF MountAlone
<1>2. FreshBlocks(Body(cached, d, Unscoped), cached, d)
  BY BodyFresh
<1>3. /\ tracked' = [roots |-> tracked'.roots, surface |-> tracked'.surface]
      /\ Shows(onPage', tracked'.surface)
      /\ authored' = Body(cached, d, Unscoped)
      /\ FreshBlocks(tracked'.surface, cached, d) /\ FreshBoxes(tracked'.surface, cached)
  BY <1>1, <1>2, LoadKeeps
<1>4. IsSequence(mounted') /\ \A i \in DOMAIN mounted' : mounted'[i] \in Pages
  BY <1>1 DEF IsSequence
<1>5. OneSnapshot' /\ deriving' = [at |-> deriving'.at, kind |-> deriving'.kind]
  BY <1>1 DEF GraphIInv, OneSnapshot
<1> QED BY <1>1, <1>2, <1>3, <1>4, <1>5, ShownKeeps

LEMMA TabsKeep ==
  ASSUME GraphIInv, NEW docs \in Groups, MountTabs(docs)
  PROVE  GraphIInv'
<1>1. UNCHANGED <<cached, focused, news, deriving>> /\ mounted' = docs /\ ApplyDocumentSet(cached, docs, NoChange)
  BY DEF MountTabs
<1>2. IsSequence(docs) /\ (\A i \in DOMAIN docs : docs[i] \in Pages) /\ 1 \in DOMAIN docs
  <2>1. PICK n \in 1 .. Cardinality(Pages) : docs \in [1 .. n -> Pages]
    BY DEF Groups
  <2>2. n \in Nat \ {0}
    BY <2>1, PagesAssumption, FS_CardinalityType
  <2>3. Len(docs) = n
    BY <2>1, <2>2
  <2> QED BY <2>1, <2>2, <2>3 DEF IsSequence
<1>3. /\ tracked' = [roots |-> tracked'.roots, surface |-> tracked'.surface]
      /\ Shows(onPage', tracked'.surface)
      /\ FreshBlocks(authored', cached, focused)
      /\ FreshBlocks(tracked'.surface, cached, focused) /\ FreshBoxes(tracked'.surface, cached)
  BY <1>1, <1>2, AppliedSet
<1>4. OneSnapshot' /\ deriving' = [at |-> deriving'.at, kind |-> deriving'.kind]
  BY <1>1 DEF GraphIInv, OneSnapshot
<1> QED BY <1>1, <1>2, <1>3, <1>4, ShownKeeps

LEMMA ToggleKeeps ==
  ASSUME GraphIInv, NEW x, ToggleOwnersBox(x)
  PROVE  GraphIInv'
<1>1. /\ UNCHANGED <<cached, mounted, focused, news, deriving>>
      /\ IF Several THEN ApplyDocumentSet(cached, mounted, NoChange) ELSE LoadAppGraph(cached, authored)
  BY DEF ToggleOwnersBox
<1>2. IsSequence(mounted) /\ \A i \in DOMAIN mounted : mounted[i] \in Pages
  BY DEF GraphIInv
<1>3. OneSnapshot' /\ deriving' = [at |-> deriving'.at, kind |-> deriving'.kind]
  BY <1>1 DEF GraphIInv, OneSnapshot
<1>4. CASE Several
  <2>1. 1 \in DOMAIN mounted
    <3>1. Len(mounted) \in Nat /\ DOMAIN mounted = 1 .. Len(mounted)
      BY <1>2 DEF IsSequence
    <3> QED BY <1>4, <3>1 DEF Several
  <2>2. ApplyDocumentSet(cached, mounted, NoChange)
    BY <1>1, <1>4
  <2>3. /\ tracked' = [roots |-> tracked'.roots, surface |-> tracked'.surface]
        /\ Shows(onPage', tracked'.surface)
        /\ FreshBlocks(authored', cached, focused)
        /\ FreshBlocks(tracked'.surface, cached, focused) /\ FreshBoxes(tracked'.surface, cached)
    BY <1>2, <2>1, <2>2, AppliedSet
  <2> QED BY <1>1, <1>2, <1>3, <2>3, ShownKeeps
<1>5. CASE ~Several
  <2>1. LoadAppGraph(cached, authored)
    BY <1>1, <1>5
  <2>2. /\ tracked' = [roots |-> tracked'.roots, surface |-> tracked'.surface]
        /\ Shows(onPage', tracked'.surface)
        /\ authored' = authored
        /\ FreshBlocks(authored, cached, focused) =>
             FreshBlocks(tracked'.surface, cached, focused) /\ FreshBoxes(tracked'.surface, cached)
    BY <2>1, LoadKeeps
  <2>3. deriving.at # "taken" => FreshBlocks(authored, cached, focused)
    BY DEF GraphIInv
  <2> QED BY <1>1, <1>2, <1>3, <2>2, <2>3, ShownKeeps
<1> QED BY <1>4, <1>5

LEMMA GraphInitInv == GraphInit => GraphIInv
<1> SUFFICES ASSUME GraphInit PROVE GraphIInv
  OBVIOUS
<1> DEFINE first == Decorated(rag, collapsed, authored)
<1>1. /\ news = <<>> /\ cached = rag /\ mounted = <<focused>> /\ authored = Body(rag, focused, Unscoped)
      /\ focused \in Pages
      /\ onPage = <<[surface |-> TRUE, blocks |-> first]>>
      /\ tracked = [roots |-> RootsAs(Unscoped, first), surface |-> first]
      /\ deriving = [at |-> "idle", kind |-> "none"]
  BY PagesAssumption DEF GraphInit, Resting
<1>2. FreshBlocks(authored, cached, focused)
  BY <1>1, BodyFresh
<1>3. FreshBlocks(first, cached, focused) /\ FreshBoxes(first, cached)
  BY <1>1, <1>2, DecoratedFresh
<1> HIDE DEF first
<1>4. IsSequence(onPage) /\ DOMAIN onPage = {1} /\ onPage[1] = [surface |-> TRUE, blocks |-> first]
  BY <1>1 DEF IsSequence
<1>5. Shows(onPage, first)
  BY <1>4 DEF Shows
<1>6. IsSequence(mounted) /\ \A i \in DOMAIN mounted : mounted[i] \in Pages
  BY <1>1 DEF IsSequence
<1>7. OneSnapshot
  <2>1. IsSequence(news) /\ DOMAIN news = {}
    BY <1>1 DEF IsSequence
  <2> QED BY <2>1 DEF OneSnapshot
<1> QED BY <1>1, <1>2, <1>3, <1>5, <1>6, <1>7 DEF GraphIInv

LEMMA GraphStep == GraphIInv /\ [GraphNext]_graphVars => GraphIInv'
<1> SUFFICES ASSUME GraphIInv, [GraphNext]_graphVars PROVE GraphIInv'
  OBVIOUS
<1>1. CASE UNCHANGED graphVars
  <2>1. UNCHANGED <<news, cached, authored, mounted, focused, tracked, onPage, deriving>>
    BY <1>1 DEF graphVars, hostView
  <2> QED BY <2>1 DEF GraphIInv, OneSnapshot
<1>2. CASE GraphNext
  BY <1>2, MainKeeps, AnswerKeeps, HearKeeps, TakeKeeps, ApplyKeeps, AnewKeeps, RefreshKeeps, AloneKeeps, TabsKeep,
     ToggleKeeps DEF GraphNext
<1> QED BY <1>1, <1>2

----------------------------------------------------------------------------
(* The snapshot the page is made of                                         *)

Changing(m) == m.kind \in {"content", "structural"}

WillAsk == deriving.at = "asked" \/ requeued # "none"

\* The last message about the store announces a change.
Announced ==
  \E i \in DOMAIN news : Changing(news[i]) /\ \A j \in DOMAIN news : news[j].kind = "snapshot" => j < i

Arriving == \E i \in DOMAIN news : news[i].kind = "snapshot" /\ news[i].of = rag

CacheIsStore == cached = rag /\ \A i \in DOMAIN news : news[i].kind # "snapshot"

\* A cache that is older than the store is replaced: a re-derive will ask, or
\* a message that makes it ask, or the newest snapshot, is on its way.
CacheFollows ==
  /\ requeued # "none" => deriving.at # "idle"
  /\ WillAsk \/ Announced \/ Arriving \/ CacheIsStore

\* What is told leaves what was announced or asked for; a change announces itself.
LEMMA CacheTold ==
  ASSUME OneSnapshot, CacheFollows, NEW m, m.kind # "snapshot", Tell(m),
         UNCHANGED <<cached, deriving, requeued>>, rag' = rag \/ Changing(m)
  PROVE  CacheFollows'
<1>1. /\ DOMAIN news' = DOMAIN news \cup {Len(news) + 1} /\ DOMAIN news = 1 .. Len(news) /\ Len(news) \in Nat
      /\ \A i \in DOMAIN news : news'[i] = news[i]
      /\ news'[Len(news) + 1] = m
  BY AppendIs DEF OneSnapshot, Tell
<1>2. CASE Changing(m)
  <2>1. \A j \in DOMAIN news' : news'[j].kind = "snapshot" => j < Len(news) + 1
    BY <1>1
  <2>2. Announced'
    BY <1>1, <1>2, <2>1 DEF Announced
  <2> QED BY <2>2 DEF CacheFollows
<1>3. CASE rag' = rag /\ ~Changing(m)
  <2>1. WillAsk => WillAsk'
    BY DEF WillAsk
  <2>2. Announced => Announced'
    BY <1>1 DEF Announced
  <2>3. Arriving => Arriving'
    BY <1>1, <1>3 DEF Arriving
  <2>4. CacheIsStore => CacheIsStore'
    BY <1>1, <1>3 DEF CacheIsStore
  <2> QED BY <2>1, <2>2, <2>3, <2>4 DEF CacheFollows
<1> QED BY <1>2, <1>3

\* What is heard, and is no snapshot, makes the renderer ask.
LEMMA CacheHeard ==
  ASSUME CacheFollows, HearChange \/ HearSettings
  PROVE  CacheFollows'
<1>1. PICK kind \in {"content", "operator"} : Request(kind)
  BY DEF HearChange, HearSettings
<1>2. CASE deriving.at = "idle"
  <2>1. deriving'.at = "asked" /\ deriving' = [at |-> "asked", kind |-> kind]
    BY <1>1, <1>2 DEF Request
  <2> QED BY <2>1 DEF CacheFollows, WillAsk
<1>3. CASE deriving.at # "idle"
  <2>1. deriving' = deriving /\ requeued' \in {"operator", kind}
    BY <1>1, <1>3 DEF Request
  <2>2. requeued' # "none"
    BY <2>1
  <2> QED BY <1>3, <2>1, <2>2 DEF CacheFollows, WillAsk
<1> QED BY <1>2, <1>3

LEMMA CacheAnswered ==
  ASSUME OneSnapshot, CacheFollows, AnswerSnapshot
  PROVE  CacheFollows'
<1> DEFINE m == [kind |-> "snapshot", of |-> rag]
<1>1. Tell(m) /\ rag' = rag /\ deriving' = [deriving EXCEPT !.at = "answered"] /\ m.kind = "snapshot" /\ m.of = rag
  BY DEF AnswerSnapshot
<1> HIDE DEF m
<1>2. Len(news) + 1 \in DOMAIN news' /\ news'[Len(news) + 1] = m
  BY <1>1, AppendIs DEF OneSnapshot, Tell
<1>3. Arriving'
  BY <1>1, <1>2 DEF Arriving
<1>4. deriving'.at # "idle" \/ requeued' = "none"
  BY DEF AnswerSnapshot, CacheFollows
<1> QED BY <1>3, <1>4 DEF CacheFollows

LEMMA CacheTaken ==
  ASSUME GraphIInv, CacheFollows, TakeSnapshot
  PROVE  CacheFollows'
<1>1. /\ news # <<>> /\ Head(news).kind = "snapshot" /\ news' = Tail(news) /\ cached' = Head(news).of
      /\ UNCHANGED <<rag, requeued>> /\ deriving' = [at |-> "taken", kind |-> deriving.kind]
  BY DEF TakeSnapshot, Incoming, GraphIInv
<1>2. /\ Head(news) = news[1] /\ 1 \in DOMAIN news /\ IsSequence(news)
      /\ \A i \in DOMAIN news' : i + 1 \in DOMAIN news /\ news'[i] = news[i + 1] /\ i \in Nat /\ i + 1 # 1
      /\ \A i \in DOMAIN news : i # 1 => i - 1 \in DOMAIN news' /\ news'[i - 1] = news[i]
  BY <1>1, TailIs DEF GraphIInv, OneSnapshot
<1>3. \A i \in DOMAIN news : news[i].kind = "snapshot" => i = 1
  BY <1>1, <1>2 DEF GraphIInv, OneSnapshot
<1>4. \A i \in DOMAIN news' : news'[i].kind # "snapshot"
  BY <1>2, <1>3
<1>5. deriving.at = "answered"
  BY <1>1, <1>2 DEF GraphIInv, OneSnapshot
<1>6. WillAsk => WillAsk'
  BY <1>1, <1>5 DEF WillAsk
<1>7. Announced => Announced'
  <2> SUFFICES ASSUME NEW i \in DOMAIN news, Changing(news[i]) PROVE Announced'
    BY DEF Announced
  <2>1. i # 1
    BY <1>1, <1>2 DEF Changing
  <2>2. i - 1 \in DOMAIN news' /\ news'[i - 1] = news[i]
    BY <1>2, <2>1
  <2> QED BY <1>4, <2>2 DEF Announced
<1>8. Arriving => CacheIsStore'
  BY <1>1, <1>2, <1>3, <1>4 DEF Arriving, CacheIsStore
<1>9. ~CacheIsStore
  BY <1>1, <1>2 DEF CacheIsStore
<1>10. deriving'.at # "idle"
  BY <1>1
<1> QED BY <1>6, <1>7, <1>8, <1>9, <1>10 DEF CacheFollows

\* The end of a re-derive asks again when it was queued.
LEMMA CacheDone ==
  ASSUME CacheFollows, Done, UNCHANGED <<rag, news, cached>>, deriving.at # "asked"
  PROVE  CacheFollows'
<1>1. CASE requeued = "none"
  <2>1. (Announced => Announced') /\ (Arriving => Arriving') /\ (CacheIsStore => CacheIsStore')
    BY DEF Announced, Arriving, CacheIsStore
  <2>2. ~WillAsk
    BY <1>1 DEF WillAsk
  <2>3. requeued' = "none"
    BY DEF Done
  <2> QED BY <2>1, <2>2, <2>3 DEF CacheFollows
<1>2. CASE requeued # "none"
  <2>1. deriving'.at = "asked" /\ requeued' = "none"
    BY <1>2 DEF Done
  <2> QED BY <2>1 DEF CacheFollows, WillAsk
<1> QED BY <1>1, <1>2

\* Steps of the page leave what is asked for and what is on its way.
LEMMA CacheRests ==
  ASSUME CacheFollows, UNCHANGED <<rag, news, cached, requeued>>, WillAsk => WillAsk',
         deriving.at # "idle" => deriving'.at # "idle"
  PROVE  CacheFollows'
<1>1. (Announced => Announced') /\ (Arriving => Arriving') /\ (CacheIsStore => CacheIsStore')
  BY DEF Announced, Arriving, CacheIsStore
<1> QED BY <1>1 DEF CacheFollows

LEMMA CacheStep == GraphIInv /\ CacheFollows /\ [GraphNext]_graphVars => CacheFollows'
<1> SUFFICES ASSUME GraphIInv, CacheFollows, [GraphNext]_graphVars PROVE CacheFollows'
  OBVIOUS
<1>1. OneSnapshot
  BY DEF GraphIInv
<1>2. CASE UNCHANGED graphVars
  <2>1. UNCHANGED <<rag, news, cached, requeued, deriving>>
    BY <1>2 DEF graphVars, hostView
  <2>2. WillAsk => WillAsk'
    BY <2>1 DEF WillAsk
  <2> QED BY <2>1, <2>2, CacheRests
<1>3. CASE \E n \in DOMAIN Under : EditNode(n)
  <2>1. PICK n \in DOMAIN Under : EditNode(n)
    BY <1>3
  <2> DEFINE m == [kind |-> "content", nodes |-> {n}, edges |-> FALSE]
  <2>2. Tell(m) /\ m.kind = "content" /\ UNCHANGED <<cached, deriving, requeued>>
    BY <2>1 DEF EditNode, hostView
  <2> HIDE DEF m
  <2> QED BY <1>1, <2>2, CacheTold DEF Changing
<1>4. CASE \E d \in Pages, x \in SectionSet : EditFlow(d, x)
  <2>1. PICK d \in Pages, x \in SectionSet : EditFlow(d, x)
    BY <1>4
  <2>2. PICK ns : Tell([kind |-> "structural", nodes |-> ns, edges |-> TRUE])
    BY <2>1 DEF EditFlow
  <2> DEFINE m == [kind |-> "structural", nodes |-> ns, edges |-> TRUE]
  <2>3. Tell(m) /\ m.kind = "structural" /\ UNCHANGED <<cached, deriving, requeued>>
    BY <2>1, <2>2 DEF EditFlow, hostView
  <2> HIDE DEF m
  <2> QED BY <1>1, <2>3, CacheTold DEF Changing
<1>5. CASE SetSettings
  <2> DEFINE m == [kind |-> "settings"]
  <2>1. Tell(m) /\ m.kind = "settings" /\ UNCHANGED <<rag, cached, deriving, requeued>>
    BY <1>5 DEF SetSettings, hostView
  <2> HIDE DEF m
  <2> QED BY <1>1, <2>1, CacheTold
<1>6. CASE ApplyContent \/ Refresh
  <2>1. Done /\ UNCHANGED <<rag, news, cached>> /\ deriving.at # "asked"
    BY <1>6 DEF ApplyContent, Refresh
  <2> QED BY <2>1, CacheDone
<1>7. CASE AuthorAnew
  <2>1. /\ UNCHANGED <<rag, news, cached, requeued>> /\ deriving.at = "taken"
        /\ deriving' = [at |-> "refresh", kind |-> deriving.kind]
    BY <1>7 DEF AuthorAnew, GraphIInv
  <2>2. (WillAsk => WillAsk') /\ deriving'.at # "idle"
    BY <2>1 DEF WillAsk
  <2> QED BY <2>1, <2>2, CacheRests
<1>8. CASE \/ \E d \in Pages : MountAlone(d)
           \/ \E docs \in Groups : MountTabs(docs)
           \/ \E x \in SectionSet : ToggleOwnersBox(x)
  <2>1. UNCHANGED <<rag, news, cached, requeued, deriving>>
    BY <1>8 DEF MountAlone, MountTabs, ToggleOwnersBox
  <2>2. WillAsk => WillAsk'
    BY <2>1 DEF WillAsk
  <2> QED BY <2>1, <2>2, CacheRests
<1> QED BY <1>1, <1>2, <1>3, <1>4, <1>5, <1>6, <1>7, <1>8, CacheHeard, CacheAnswered, CacheTaken DEF GraphNext

LEMMA CacheInit == GraphInit => CacheFollows
<1> SUFFICES ASSUME GraphInit PROVE CacheFollows
  OBVIOUS
<1>1. news = <<>> /\ cached = rag /\ requeued = "none"
  BY DEF GraphInit
<1>2. DOMAIN news = {}
  BY <1>1
<1> QED BY <1>1, <1>2 DEF CacheFollows, CacheIsStore

----------------------------------------------------------------------------
\* However changes add up, snapshots arrive late, documents are mounted beside
\* each other and boxes are toggled: when nothing is on its way to the renderer,
\* the page-edit surface attached last shows no section, text or owner the
\* store does not have.
THEOREM SurfaceFollowsStore == GraphSpec => []SurfaceNeverStale
<1>1. ASSUME GraphIInv, CacheFollows PROVE SurfaceNeverStale
  <2> SUFFICES ASSUME GraphSettled, NEW i \in DOMAIN Newest
               PROVE  /\ i[2] \in rag.page[IF i[1] = Unscoped THEN focused ELSE i[1]]
                      /\ Newest[i].text = BlockOf(rag, i[2]).text
                      /\ Newest[i].box.owners = (IF Cardinality(Owners(rag, i[2])) > 1 THEN Owners(rag, i[2]) ELSE {})
    BY DEF SurfaceNeverStale
  <2>1. cached = rag /\ deriving.at = "idle"
    <3>1. deriving.at = "idle" /\ DOMAIN news = {}
      BY DEF GraphSettled, Resting
    <3> QED BY <1>1, <3>1 DEF CacheFollows, WillAsk, Announced, Arriving, CacheIsStore
  <2>2. FreshBlocks(tracked.surface, rag, focused) /\ FreshBoxes(tracked.surface, rag)
    BY <1>1, <2>1 DEF GraphIInv
  <2>3. PICK n \in DOMAIN onPage :
          /\ onPage[n].surface /\ \A m \in DOMAIN onPage : onPage[m].surface => m <= n
          /\ DOMAIN onPage[n].blocks \subseteq DOMAIN tracked.surface
          /\ \A j \in DOMAIN onPage[n].blocks : onPage[n].blocks[j] = tracked.surface[j]
    BY <1>1 DEF GraphIInv, Shows
  <2>4. DOMAIN onPage \subseteq Nat
    BY <1>1 DEF GraphIInv, Shows, IsSequence
  <2>5. Max({m \in DOMAIN onPage : onPage[m].surface}) = n
    <3> DEFINE S == {m \in DOMAIN onPage : onPage[m].surface}
    <3>1. n \in S /\ (\A m \in S : n >= m) /\ S \subseteq Nat
      BY <2>3, <2>4
    <3> HIDE DEF S
    <3>2. \A x \in S : (\A y \in S : x >= y) => x = n
      BY <3>1
    <3>3. Max(S) = n
      BY <3>1, <3>2 DEF Max
    <3> QED BY <3>3 DEF S
  <2>6. Newest = onPage[n].blocks
    BY <2>5 DEF Newest
  <2>7. i \in DOMAIN tracked.surface /\ Newest[i] = tracked.surface[i]
    BY <2>3, <2>6
  <2> QED BY <2>2, <2>7 DEF FreshBlocks, FreshBoxes, OwnersShown
<1> QED BY <1>1, GraphInitInv, GraphStep, CacheInit, CacheStep, PTL DEF GraphSpec

----------------------------------------------------------------------------
(* Sequences and sets of positions                                          *)

\* Every set of natural numbers has a least one: the induction the rest needs.
LEMMA Least ==
  ASSUME NEW T \in SUBSET Nat, T # {}
  PROVE  \E x \in T : \A y \in T : x <= y
<1> DEFINE TT == {1 .. n : n \in T}
           R == StrictSubsetOrdering(Nat)
<1>1. IsWellFoundedOn(R, FiniteSubsetsOf(Nat))
  BY FS_StrictSubsetOrderingWellFounded
<1>2. \A n \in Nat : 1 .. n \in SUBSET Nat /\ IsFiniteSet(1 .. n)
  BY FS_Interval
<1>3. TT \subseteq FiniteSubsetsOf(Nat) /\ TT # {}
  BY <1>2 DEF FiniteSubsetsOf
<1> HIDE DEF R, TT
<1>4. PICK X \in TT : \A Y \in TT : <<Y, X>> \notin R
  BY <1>1, <1>3, WFMin
<1>5. PICK x \in T : X = 1 .. x
  BY DEF TT
<1>6. ASSUME NEW y \in T, ~(x <= y) PROVE FALSE
  <2>1. 1 .. y \subseteq 1 .. x /\ x \in 1 .. x /\ x \notin 1 .. y
    BY <1>6
  <2>2. <<1 .. y, 1 .. x>> \in R
    BY <2>1, <1>2 DEF R, StrictSubsetOrdering
  <2>3. 1 .. y \in TT
    BY DEF TT
  <2> QED BY <1>4, <1>5, <2>2, <2>3
<1> QED BY <1>6

LEMMA MinIs ==
  ASSUME NEW T \in SUBSET Nat, T # {}
  PROVE  Min(T) \in T /\ \A y \in T : Min(T) <= y
BY Least DEF Min

\* The positions a sequence is thinned to, in their order.
Ranks(s, positions, f) ==
  /\ f \in [DOMAIN AtPositions(s, positions) -> positions]
  /\ \A n \in DOMAIN f : AtPositions(s, positions)[n] = s[f[n]]
  /\ \A n, m \in DOMAIN f : n < m => f[n] < f[m]
  /\ \A i \in positions : \E n \in DOMAIN f : f[n] = i

LEMMA RanksExist ==
  ASSUME NEW s, IsSequence(s), NEW P \in SUBSET DOMAIN s
  PROVE  IsSequence(AtPositions(s, P)) /\ \E f : Ranks(s, P, f)
<1> DEFINE Below(i) == {j \in P : j <= i}
           rank == [i \in P |-> Cardinality(Below(i))]
           c == Cardinality(P)
           f == [n \in 1 .. c |-> CHOOSE i \in P : Cardinality(Below(i)) = n]
<1>1. DOMAIN s = 1 .. Len(s) /\ Len(s) \in Nat
  BY DEF IsSequence
<1>2. P \subseteq Nat /\ IsFiniteSet(P) /\ c \in Nat
  <2>1. IsFiniteSet(1 .. Len(s))
    BY <1>1, FS_Interval
  <2>2. IsFiniteSet(P)
    BY <1>1, <2>1, FS_Subset
  <2> QED BY <1>1, <2>2, FS_CardinalityType
<1>3. \A i \in P : rank[i] \in 1 .. c
  <2> SUFFICES ASSUME NEW i \in P PROVE rank[i] \in 1 .. c
    OBVIOUS
  <2>1. IsFiniteSet(Below(i)) /\ Cardinality(Below(i)) <= c /\ Cardinality(Below(i)) \in Nat
    BY <1>2, FS_Subset, FS_CardinalityType
  <2>2. i \in Below(i)
    BY <1>2
  <2>3. Cardinality(Below(i)) # 0
    BY <2>1, <2>2, FS_EmptySet
  <2> QED BY <1>2, <2>1, <2>3
<1>4. \A i, j \in P : i < j => rank[i] < rank[j]
  <2> SUFFICES ASSUME NEW i \in P, NEW j \in P, i < j PROVE rank[i] < rank[j]
    OBVIOUS
  <2>1. Below(i) \subseteq Below(j) /\ j \in Below(j) /\ j \notin Below(i)
    BY <1>2
  <2>2. IsFiniteSet(Below(j)) /\ IsFiniteSet(Below(i))
    BY <1>2, FS_Subset
  <2>3. Cardinality(Below(i)) <= Cardinality(Below(j)) /\ Cardinality(Below(i)) # Cardinality(Below(j))
    BY <2>1, <2>2, FS_Subset
  <2> QED BY <2>2, <2>3, FS_CardinalityType
<1>5. \A n \in 1 .. c : \E i \in P : rank[i] = n
  <2> DEFINE Q == {rank[i] : i \in P}
  <2>1. Q \subseteq 1 .. c
    BY <1>3
  <2>2. IsFiniteSet(1 .. c) /\ Cardinality(1 .. c) = c
    BY <1>2, FS_Interval
  <2>3. rank \in Bijection(P, Q)
    <3>1. rank \in [P -> Q] /\ \A q \in Q : \E i \in P : rank[i] = q
      OBVIOUS
    <3> HIDE DEF rank, Q
    <3>2. ASSUME NEW i \in P, NEW j \in P, rank[i] = rank[j], i # j PROVE FALSE
      <4>1. i < j \/ j < i
        BY <1>2, <3>2
      <4>2. rank[i] < rank[j] \/ rank[j] < rank[i]
        BY <1>4, <4>1
      <4> QED BY <1>3, <3>2, <4>2
    <3> QED BY <3>1, <3>2 DEF Bijection, Injection, Surjection, IsInjective
  <2> HIDE DEF rank, Q
  <2>4. IsFiniteSet(Q) /\ Cardinality(Q) = c
    <3>1. ExistsBijection(P, Q)
      BY <2>3 DEF ExistsBijection
    <3> QED BY <1>2, <3>1, FS_Bijection
  <2>5. Q = 1 .. c
    BY <2>1, <2>2, <2>4, FS_Subset
  <2> QED BY <2>5 DEF Q
<1>6. \A n \in 1 .. c : f[n] \in P /\ rank[f[n]] = n
  BY <1>5
<1>7. AtPositions(s, P) = [n \in 1 .. c |-> s[f[n]]]
  BY DEF AtPositions
<1> HIDE DEF rank, f, c
<1>8. IsSequence(AtPositions(s, P)) /\ DOMAIN AtPositions(s, P) = 1 .. c
  <2> DEFINE t == AtPositions(s, P)
  <2>1. t = [n \in 1 .. c |-> s[f[n]]]
    BY <1>7
  <2> HIDE DEF t
  <2>2. DOMAIN t = 1 .. c /\ Len(t) = c
    BY <1>2, <2>1
  <2> QED BY <1>2, <2>1, <2>2 DEF IsSequence, t
<1>9. Ranks(s, P, f)
  <2>1. f \in [1 .. c -> P]
    BY <1>6 DEF f
  <2>2. \A n, m \in 1 .. c : n < m => f[n] < f[m]
    <3> SUFFICES ASSUME NEW n \in 1 .. c, NEW m \in 1 .. c, n < m, ~(f[n] < f[m]) PROVE FALSE
      OBVIOUS
    <3>1. f[n] \in P /\ f[m] \in P /\ rank[f[n]] = n /\ rank[f[m]] = m
      BY <1>6
    <3>2. f[m] = f[n] \/ f[m] < f[n]
      BY <1>2, <3>1
    <3>3. m = n \/ m < n
      BY <1>4, <3>1, <3>2
    <3> QED BY <3>3
  <2>3. \A i \in P : \E n \in 1 .. c : f[n] = i
    <3> SUFFICES ASSUME NEW i \in P PROVE f[rank[i]] = i
      BY <1>3
    <3>1. rank[i] \in 1 .. c /\ f[rank[i]] \in P /\ rank[f[rank[i]]] = rank[i]
      BY <1>3, <1>6
    <3> QED BY <1>2, <1>3, <1>4, <3>1
  <2>4. DOMAIN f = 1 .. c /\ \A n \in 1 .. c : AtPositions(s, P)[n] = s[f[n]]
    BY <1>7, <2>1
  <2> QED BY <1>8, <2>1, <2>2, <2>3, <2>4 DEF Ranks
<1> QED BY <1>8, <1>9

\* What AtPositions keeps.
LEMMA Thinned ==
  ASSUME NEW s, IsSequence(s), NEW P \in SUBSET DOMAIN s
  PROVE  /\ IsSequence(AtPositions(s, P))
         /\ \A n \in DOMAIN AtPositions(s, P) : \E i \in P : AtPositions(s, P)[n] = s[i]
         /\ \A i \in P : \E n \in DOMAIN AtPositions(s, P) : AtPositions(s, P)[n] = s[i]
         /\ (\A i, j \in P : s[i] = s[j] => i = j) =>
              \A n, m \in DOMAIN AtPositions(s, P) : AtPositions(s, P)[n] = AtPositions(s, P)[m] => n = m
<1> DEFINE t == AtPositions(s, P)
<1>1. IsSequence(t)
  BY RanksExist
<1>2. PICK f : Ranks(s, P, f)
  BY RanksExist
<1>3. /\ f \in [DOMAIN t -> P] /\ \A n \in DOMAIN t : t[n] = s[f[n]]
      /\ \A n, m \in DOMAIN t : n < m => f[n] < f[m]
      /\ \A i \in P : \E n \in DOMAIN t : f[n] = i
  BY <1>2 DEF Ranks
<1>4. DOMAIN t \subseteq Nat /\ P \subseteq Nat
  BY <1>1 DEF IsSequence
<1> HIDE DEF t
<1>5. \A n, m \in DOMAIN t : f[n] = f[m] => n = m
  BY <1>3, <1>4
<1>6. (\A i, j \in P : s[i] = s[j] => i = j) => \A n, m \in DOMAIN t : t[n] = t[m] => n = m
  BY <1>3, <1>5
<1>7. (\A n \in DOMAIN t : \E i \in P : t[n] = s[i]) /\ \A i \in P : \E n \in DOMAIN t : t[n] = s[i]
  BY <1>3
<1> QED BY <1>1, <1>6, <1>7 DEF t

\* At all of its positions a sequence is itself, at none it is empty.
LEMMA ThinnedAll ==
  ASSUME NEW s, IsSequence(s)
  PROVE  AtPositions(s, DOMAIN s) = s /\ AtPositions(s, {}) = <<>>
<1> DEFINE n == Len(s)
           P == DOMAIN s
<1>1. n \in Nat /\ P = 1 .. n /\ s = [i \in 1 .. n |-> s[i]]
  BY DEF IsSequence
<1>2. Cardinality(P) = n
  BY <1>1, FS_Interval
<1>3. \A i \in P : Cardinality({j \in P : j <= i}) = i
  <2> SUFFICES ASSUME NEW i \in P PROVE Cardinality({j \in P : j <= i}) = i
    OBVIOUS
  <2>1. {j \in P : j <= i} = 1 .. i
    BY <1>1
  <2>2. i \in Nat /\ ~(1 > i) /\ i - 1 + 1 = i
    BY <1>1
  <2>3. Cardinality(1 .. i) = i
    BY <2>2, FS_Interval
  <2> QED BY <2>1, <2>3
<1>4. \A k \in 1 .. n : (CHOOSE i \in P : Cardinality({j \in P : j <= i}) = k) = k
  BY <1>1, <1>3
<1>5. AtPositions(s, P) = [k \in 1 .. n |-> s[k]]
  <2> DEFINE place(k) == CHOOSE i \in P : Cardinality({j \in P : j <= i}) = k
  <2>1. AtPositions(s, P) = [k \in 1 .. Cardinality(P) |-> s[place(k)]]
    BY DEF AtPositions
  <2>2. \A k \in 1 .. n : place(k) = k
    BY <1>4
  <2> HIDE DEF place, P
  <2> QED BY <1>2, <2>1, <2>2
<1>6. AtPositions(s, {}) = <<>>
  BY FS_EmptySet DEF AtPositions
<1> QED BY <1>1, <1>5, <1>6

\* u is s followed by t.
Joins(u, s, t) ==
  /\ IsSequence(u) /\ Len(u) = Len(s) + Len(t)
  /\ DOMAIN u = 1 .. Len(s) + Len(t) /\ DOMAIN s = 1 .. Len(s) /\ DOMAIN t = 1 .. Len(t)
  /\ Len(s) \in Nat /\ Len(t) \in Nat
  /\ \A i \in DOMAIN s : u[i] = s[i]
  /\ \A i \in DOMAIN t : Len(s) + i \in DOMAIN u /\ u[Len(s) + i] = t[i]
  /\ \A i \in DOMAIN u : i \notin DOMAIN s => i - Len(s) \in DOMAIN t /\ u[i] = t[i - Len(s)]

LEMMA ConcatIs ==
  ASSUME NEW s, NEW t, IsSequence(s), IsSequence(t)
  PROVE  Joins(s \o t, s, t)
<1> DEFINE S == {s[i] : i \in 1 .. Len(s)} \cup {t[i] : i \in 1 .. Len(t)}
           u == s \o t
<1>1. Len(s) \in Nat /\ s = [i \in 1 .. Len(s) |-> s[i]] /\ Len(t) \in Nat /\ t = [i \in 1 .. Len(t) |-> t[i]]
  BY DEF IsSequence
<1>2. s \in Seq(S) /\ t \in Seq(S)
  <2>1. s \in [1 .. Len(s) -> S] /\ t \in [1 .. Len(t) -> S]
    BY <1>1
  <2> HIDE DEF S
  <2> QED BY <1>1, <2>1
<1> HIDE DEF S
<1>3. /\ u \in Seq(S) /\ Len(u) = Len(s) + Len(t)
      /\ \A i \in 1 .. Len(s) + Len(t) : u[i] = IF i <= Len(s) THEN s[i] ELSE t[i - Len(s)]
  BY <1>2, ConcatProperties
<1> HIDE DEF u
<1>4. DOMAIN u = 1 .. Len(s) + Len(t) /\ DOMAIN s = 1 .. Len(s) /\ DOMAIN t = 1 .. Len(t)
  BY <1>1, <1>3
<1>5. IsSequence(u)
  <2>1. u = [i \in 1 .. Len(u) |-> u[i]]
    BY <1>3
  <2> QED BY <1>1, <1>3, <2>1 DEF IsSequence
<1>6. \A i \in DOMAIN s : u[i] = s[i]
  BY <1>1, <1>3, <1>4
<1>7. \A i \in DOMAIN t : Len(s) + i \in DOMAIN u /\ u[Len(s) + i] = t[i]
  BY <1>1, <1>3, <1>4
<1>8. \A i \in DOMAIN u : i \notin DOMAIN s => i - Len(s) \in DOMAIN t /\ u[i] = t[i - Len(s)]
  BY <1>1, <1>3, <1>4
<1>9. Joins(u, s, t)
  BY <1>1, <1>3, <1>4, <1>5, <1>6, <1>7, <1>8 DEF Joins
<1> QED BY <1>9 DEF u

\* What is inserted is there once, and everything else is where it was, or one further.
LEMMA InsertIs ==
  ASSUME NEW s, IsSequence(s), NEW k \in 1 .. Len(s) + 1, NEW e
  PROVE  /\ IsSequence(InsertAt(s, k, e)) /\ Len(InsertAt(s, k, e)) = Len(s) + 1
         /\ InsertAt(s, k, e) = [i \in 1 .. Len(s) + 1 |-> IF i < k THEN s[i] ELSE IF i = k THEN e ELSE s[i - 1]]
<1> DEFINE S == {s[i] : i \in 1 .. Len(s)} \cup {e}
           n == Len(s)
           u == InsertAt(s, k, e)
           a == SubSeq(s, 1, k - 1)
           b == SubSeq(s, k, n)
<1>1. n \in Nat /\ s = [i \in 1 .. n |-> s[i]] /\ k \in Nat
  BY DEF IsSequence
<1>2. s \in Seq(S) /\ e \in S
  <2>1. s \in [1 .. n -> S] /\ e \in S
    BY <1>1
  <2> HIDE DEF S
  <2> QED BY <1>1, <2>1
<1> HIDE DEF S
<1>3. a \in Seq(S) /\ Len(a) = k - 1 /\ \A i \in 1 .. k - 1 : a[i] = s[i]
  BY <1>1, <1>2
<1>4. b \in Seq(S) /\ Len(b) = n + 1 - k /\ \A i \in 1 .. n + 1 - k : b[i] = s[k + i - 1]
  BY <1>1, <1>2
<1> HIDE DEF a, b
<1>5. /\ a \o <<e>> \in Seq(S) /\ Len(a \o <<e>>) = k
      /\ \A i \in 1 .. k : (a \o <<e>>)[i] = IF i < k THEN s[i] ELSE e
  BY <1>1, <1>2, <1>3
<1>6. u = (a \o <<e>>) \o b
  BY DEF InsertAt, a, b
<1> DEFINE ae == a \o <<e>>
<1>7. /\ u \in Seq(S) /\ Len(u) = k + Len(b)
      /\ \A i \in 1 .. k + Len(b) : u[i] = IF i <= k THEN ae[i] ELSE b[i - k]
  <2> HIDE DEF u
  <2>1. ae \in Seq(S) /\ Len(ae) = k /\ u = ae \o b
    BY <1>5, <1>6
  <2> HIDE DEF ae
  <2> QED BY <1>1, <1>4, <2>1, ConcatProperties
<1> HIDE DEF u
<1>8. Len(u) = n + 1 /\ k + Len(b) = n + 1
  BY <1>1, <1>4, <1>7
<1>9. \A i \in 1 .. n + 1 : u[i] = IF i < k THEN s[i] ELSE IF i = k THEN e ELSE s[i - 1]
  <2> SUFFICES ASSUME NEW i \in 1 .. n + 1 PROVE u[i] = IF i < k THEN s[i] ELSE IF i = k THEN e ELSE s[i - 1]
    OBVIOUS
  <2>1. CASE i <= k
    <3>1. i \in 1 .. k + Len(b) /\ i \in 1 .. k
      BY <1>1, <1>8, <2>1
    <3>2. u[i] = ae[i]
      <4> HIDE DEF ae
      <4> QED BY <1>7, <2>1, <3>1
    <3> QED BY <1>1, <1>5, <2>1, <3>1, <3>2
  <2>2. CASE ~(i <= k)
    <3>1. u[i] = b[i - k] /\ i - k \in 1 .. n + 1 - k
      BY <1>1, <1>7, <1>8, <2>2
    <3>2. b[i - k] = s[k + (i - k) - 1] /\ k + (i - k) - 1 = i - 1
      BY <1>1, <1>4, <2>2, <3>1
    <3> QED BY <1>1, <2>2, <3>1, <3>2
  <2> QED BY <2>1, <2>2
<1>10. u = [i \in 1 .. n + 1 |-> u[i]]
  BY <1>1, <1>7, <1>8
<1>11. IsSequence(u)
  BY <1>1, <1>8, <1>10 DEF IsSequence
<1>12. u = [i \in 1 .. n + 1 |-> IF i < k THEN s[i] ELSE IF i = k THEN e ELSE s[i - 1]]
  BY <1>9, <1>10
<1> QED BY <1>8, <1>11, <1>12 DEF u

----------------------------------------------------------------------------
(* The tab set                                                              *)

IsTab(e) ==
  /\ e = [id |-> e.id, target |-> e.target, search |-> e.search] /\ e.id \in Nat
  /\ e.target = [kind |-> e.target.kind, id |-> e.target.id] /\ e.target # Malformed
IsTabs(open) == IsSequence(open) /\ \A i \in DOMAIN open : IsTab(open[i])

Alone(open) == \A i, j \in DOMAIN open : open[i].id = open[j].id => i = j

IsSearch(e) == e.target.kind = "search"
SearchesApart(open, shared) ==
  \A i, j \in DOMAIN open :
    IsSearch(open[i]) /\ IsSearch(open[j]) /\ open[i].target.id = open[j].target.id => i = j \/ open[i].target.id \in shared

ListsOnce(order, ids) ==
  /\ IsSequence(order)
  /\ \A i \in DOMAIN order : order[i] \in ids
  /\ \A x \in ids : \E i \in DOMAIN order : order[i] = x
  /\ \A i, j \in DOMAIN order : order[i] = order[j] => i = j

\* A tab set the operations start from and end in.
IsStrip(s, shared) ==
  /\ s = [open |-> s.open, order |-> s.order, active |-> s.active]
  /\ IsTabs(s.open) /\ Alone(s.open) /\ SearchesApart(s.open, shared)
  /\ ListsOnce(s.order, Ids(s.open))
  /\ IF s.open = <<>> THEN s.active = Nothing ELSE s.active \in Ids(s.open)

\* The first free number is free.
LEMMA NextFreeIs ==
  ASSUME NEW s, IsSequence(s), NEW P \in SUBSET DOMAIN s, NEW g
  PROVE  /\ NextFree({g[i] : i \in P}, Len(s)) \in Nat
         /\ NextFree({g[i] : i \in P}, Len(s)) \notin {g[i] : i \in P}
<1> DEFINE n == Len(s)
           taken == {g[i] : i \in P}
           free == {m \in n + 1 .. 2 * n + 1 : m \notin taken}
<1>1. n \in Nat /\ DOMAIN s = 1 .. n
  BY DEF IsSequence
<1>2. IsFiniteSet(1 .. n) /\ Cardinality(1 .. n) = n
  BY <1>1, FS_Interval
<1>3. IsFiniteSet(P) /\ Cardinality(P) <= n /\ Cardinality(P) \in Nat
  BY <1>1, <1>2, FS_Subset, FS_CardinalityType
<1>4. IsFiniteSet(taken) /\ Cardinality(taken) <= Cardinality(P) /\ Cardinality(taken) \in Nat
  <2> DEFINE h == [i \in P |-> g[i]]
  <2>1. h \in Surjection(P, taken)
    <3>1. h \in [P -> taken] /\ \A x \in taken : \E i \in P : h[i] = x
      OBVIOUS
    <3> HIDE DEF h, taken
    <3> QED BY <3>1 DEF Surjection
  <2> HIDE DEF h, taken
  <2>3. IsFiniteSet(taken) /\ Cardinality(taken) <= Cardinality(P)
    BY <1>3, <2>1, FS_Surjection
  <2> QED BY <2>3, FS_CardinalityType
<1> HIDE DEF taken
<1>5. free # {}
  <2> SUFFICES ASSUME free = {} PROVE FALSE
    OBVIOUS
  <2>1. n + 1 .. 2 * n + 1 \subseteq taken
    OBVIOUS
  <2>2. Cardinality(n + 1 .. 2 * n + 1) <= Cardinality(taken)
    BY <1>4, <2>1, FS_Subset
  <2>3. n + 1 \in Int /\ 2 * n + 1 \in Int /\ ~(n + 1 > 2 * n + 1) /\ (2 * n + 1) - (n + 1) + 1 = n + 1
    BY <1>1
  <2>4. Cardinality(n + 1 .. 2 * n + 1) = n + 1
    BY <2>3, FS_Interval
  <2> QED BY <1>1, <1>3, <1>4, <2>2, <2>4
<1>6. free \subseteq Nat
  BY <1>1
<1>7. NextFree(taken, n) = Min(free)
  BY DEF NextFree
<1>8. Min(free) \in free
  <2> HIDE DEF free
  <2> QED BY <1>5, <1>6, MinIs
<1> QED BY <1>6, <1>7, <1>8 DEF taken

LEMMA StripOf ==
  ASSUME NEW shared, NEW open, NEW order, NEW active, IsTabs(open), Alone(open), SearchesApart(open, shared),
         ListsOnce(order, Ids(open)), IF open = <<>> THEN active = Nothing ELSE active \in Ids(open)
  PROVE  IsStrip([open |-> open, order |-> order, active |-> active], shared)
<1> DEFINE s == [open |-> open, order |-> order, active |-> active]
<1>1. s.open = open /\ s.order = order /\ s.active = active /\ s = [open |-> s.open, order |-> s.order, active |-> s.active]
  OBVIOUS
<1> HIDE DEF s
<1>2. IsStrip(s, shared)
  BY <1>1 DEF IsStrip
<1> QED BY <1>2 DEF s

\* More names may be shared.
LEMMA Widened ==
  ASSUME NEW shared, NEW s, IsStrip(s, shared), NEW wider, shared \subseteq wider
  PROVE  IsStrip(s, wider)
BY DEF IsStrip, SearchesApart

LEMMA EmptyIsStrip == \A shared : IsStrip(EmptyState, shared)
<1> SUFFICES ASSUME NEW shared PROVE IsStrip(EmptyState, shared)
  OBVIOUS
<1>1. IsTabs(<<>>) /\ Alone(<<>>) /\ SearchesApart(<<>>, shared) /\ Ids(<<>>) = {}
  BY DEF IsTabs, Alone, SearchesApart, Ids, IsSequence
<1>2. ListsOnce(<<>>, Ids(<<>>))
  BY <1>1 DEF ListsOnce, IsSequence
<1> QED BY <1>1, <1>2, StripOf DEF EmptyState

\* A tab set thinned to tabs of its own.
LEMMA ThinnedTabs ==
  ASSUME NEW s, IsSequence(s), NEW P \in SUBSET DOMAIN s,
         \A i \in P : IsTab(s[i]),
         \A i, j \in P : s[i].id = s[j].id => i = j
  PROVE  /\ IsTabs(AtPositions(s, P)) /\ Alone(AtPositions(s, P))
         /\ Ids(AtPositions(s, P)) = {s[i].id : i \in P}
         /\ \A shared : SearchesApart(s, shared) => SearchesApart(AtPositions(s, P), shared)
<1> DEFINE t == AtPositions(s, P)
<1>1. IsSequence(t)
  BY RanksExist
<1>2. PICK f : Ranks(s, P, f)
  BY RanksExist
<1>3. /\ f \in [DOMAIN t -> P] /\ \A n \in DOMAIN t : t[n] = s[f[n]]
      /\ \A n, m \in DOMAIN t : n < m => f[n] < f[m]
      /\ \A i \in P : \E n \in DOMAIN t : f[n] = i
  BY <1>2 DEF Ranks
<1>4. DOMAIN t \subseteq Nat /\ P \subseteq Nat
  BY <1>1 DEF IsSequence
<1> HIDE DEF t
<1>5. \A n, m \in DOMAIN t : f[n] = f[m] => n = m
  BY <1>3, <1>4
<1>6. \A n \in DOMAIN t : f[n] \in P /\ t[n] = s[f[n]]
  BY <1>3
<1>7. IsTabs(t)
  BY <1>1, <1>6 DEF IsTabs
<1>8. Alone(t)
  BY <1>5, <1>6 DEF Alone
<1>9. ASSUME NEW shared, SearchesApart(s, shared) PROVE SearchesApart(t, shared)
  BY <1>5, <1>6, <1>9 DEF SearchesApart
<1>10. Ids(t) = {s[i].id : i \in P}
  <2>1. \A n \in DOMAIN t : t[n].id \in {s[i].id : i \in P}
    BY <1>6
  <2>2. \A i \in P : s[i].id \in {t[n].id : n \in DOMAIN t}
    BY <1>3, <1>6
  <2> QED BY <2>1, <2>2 DEF Ids
<1> QED BY <1>7, <1>8, <1>9, <1>10 DEF t

\* A tab that is appended, under a free number.
LEMMA AppendKeeps ==
  ASSUME NEW shared, NEW state, IsStrip(state, shared), NEW target, target # Malformed, target = [kind |-> target.kind, id |-> target.id],
         NEW search,
         \A i \in DOMAIN state.open : IsSearch(state.open[i]) /\ target.kind = "search" =>
                                      state.open[i].target.id # target.id \/ target.id \in shared
  PROVE  IsStrip(Append1(state, target, search), shared) /\ Append1(state, target, search).open # <<>>
<1> DEFINE id == NextFree(Ids(state.open), Len(state.open))
           e == [id |-> id, target |-> target, search |-> search]
           open == Append(state.open, e)
           order == Append(state.order, id)
           n == Len(state.open)
<1>1. IsTabs(state.open) /\ Alone(state.open) /\ SearchesApart(state.open, shared) /\ ListsOnce(state.order, Ids(state.open))
  BY DEF IsStrip
<1>2. IsSequence(state.open) /\ IsSequence(state.order)
  BY <1>1 DEF IsTabs, ListsOnce
<1>3. id \in Nat /\ id \notin Ids(state.open)
  <2> DEFINE g == [i \in DOMAIN state.open |-> state.open[i].id]
  <2>1. Ids(state.open) = {g[i] : i \in DOMAIN state.open}
    BY DEF Ids
  <2> HIDE DEF g
  <2>2. DOMAIN state.open \in SUBSET DOMAIN state.open
    OBVIOUS
  <2>3. /\ NextFree({g[i] : i \in DOMAIN state.open}, Len(state.open)) \in Nat
        /\ NextFree({g[i] : i \in DOMAIN state.open}, Len(state.open)) \notin {g[i] : i \in DOMAIN state.open}
    BY <1>2, <2>2, NextFreeIs
  <2> QED BY <2>1, <2>3
<1>4. e.id = id /\ e.target = target /\ e.search = search /\ e = [id |-> e.id, target |-> e.target, search |-> e.search]
  OBVIOUS
<1> HIDE DEF id, e
<1>5. /\ IsSequence(open) /\ DOMAIN open = DOMAIN state.open \cup {n + 1}
      /\ \A i \in DOMAIN state.open : open[i] = state.open[i]
      /\ open[n + 1] = e
  BY <1>2, AppendIs
<1>6. /\ IsSequence(order) /\ DOMAIN order = DOMAIN state.order \cup {Len(state.order) + 1}
      /\ \A i \in DOMAIN state.order : order[i] = state.order[i]
      /\ order[Len(state.order) + 1] = id
  BY <1>2, AppendIs
<1>7. Append1(state, target, search) = [open |-> open, order |-> order, active |-> id]
  BY DEF Append1, id, e
<1> HIDE DEF open, order
<1>8. IsTabs(open)
  BY <1>1, <1>3, <1>4, <1>5 DEF IsTabs, IsTab
<1>9. Ids(open) = Ids(state.open) \cup {id}
  BY <1>4, <1>5 DEF Ids
<1>10. Alone(open)
  BY <1>1, <1>3, <1>4, <1>5 DEF Alone, Ids
<1>11. SearchesApart(open, shared)
  BY <1>1, <1>4, <1>5 DEF SearchesApart, IsSearch
<1>12. ListsOnce(order, Ids(open))
  <2>1. \A i \in DOMAIN state.order : state.order[i] \in Ids(state.open) /\ state.order[i] # id
    BY <1>1, <1>3 DEF ListsOnce
  <2> QED BY <1>1, <1>3, <1>6, <1>9, <2>1 DEF ListsOnce
<1>13. open # <<>>
  <2>1. n + 1 \in DOMAIN open
    BY <1>5
  <2> QED BY <2>1
<1>14. IsStrip([open |-> open, order |-> order, active |-> id], shared)
  BY <1>8, <1>9, <1>10, <1>11, <1>12, <1>13, StripOf
<1> QED BY <1>7, <1>13, <1>14

LEMMA EnsureKeeps ==
  ASSUME NEW shared, NEW state, IsStrip(state, shared), NEW recent
  PROVE  IsStrip(EnsureFirstTab(state, recent), shared) /\ EnsureFirstTab(state, recent).open # <<>>
<1>1. CASE state.open # <<>>
  BY <1>1 DEF EnsureFirstTab
<1>2. CASE state.open = <<>>
  <2> DEFINE target == ResolveDefaultTarget(recent, CHOOSE d \in documents : TRUE)
  <2>1. target # Malformed /\ target = [kind |-> target.kind, id |-> target.id]
    BY DEF ResolveDefaultTarget, Document, Landing, Malformed
  <2>2. EnsureFirstTab(state, recent) = Append1(EmptyState, target, Nothing)
    BY <1>2 DEF EnsureFirstTab
  <2>3. DOMAIN EmptyState.open = {}
    BY DEF EmptyState
  <2> HIDE DEF target
  <2> QED BY <2>1, <2>2, <2>3, EmptyIsStrip, AppendKeeps
<1> QED BY <1>1, <1>2

LEMMA ActiveKeeps ==
  ASSUME NEW shared, NEW state, IsStrip(state, shared), NEW id \in Ids(state.open)
  PROVE  IsStrip([state EXCEPT !.active = id], shared) /\ [state EXCEPT !.active = id].open # <<>>
<1>1. PICK open, order, active : state = [open |-> open, order |-> order, active |-> active]
  BY DEF IsStrip
<1>2. state.open = open /\ state.order = order /\ [state EXCEPT !.active = id] = [open |-> open, order |-> order, active |-> id]
  BY <1>1
<1>3. open # <<>>
  BY <1>2 DEF Ids
<1> QED BY <1>2, <1>3, StripOf DEF IsStrip

LEMMA FocusKeeps ==
  ASSUME NEW shared, NEW state, IsStrip(state, shared), NEW target \in Targets, NEW newTab, NEW wider, shared \subseteq wider,
         newTab /\ target.kind = "search" /\ target.id \in NamesOf(state.open) => target.id \in wider
  PROVE  IsStrip(FocusTarget(state, target, newTab), wider) /\ FocusTarget(state, target, newTab).open # <<>>
<1> DEFINE same == {i \in DOMAIN state.open : state.open[i].target = target}
<1>1. target # Malformed /\ target = [kind |-> target.kind, id |-> target.id]
  BY DEF Targets, Document, SearchFor, Landing, Malformed
<1>2. IsStrip(state, wider)
  BY Widened
<1>3. CASE ~newTab /\ same # {}
  <2>1. FocusTarget(state, target, newTab) = [state EXCEPT !.active = state.open[Min(same)].id]
    BY <1>3 DEF FocusTarget
  <2>2. same \subseteq Nat /\ same \subseteq DOMAIN state.open
    BY DEF IsStrip, IsTabs, IsSequence
  <2>3. Min(same) \in DOMAIN state.open
    <3> HIDE DEF same
    <3> QED BY <1>3, <2>2, MinIs
  <2>4. state.open[Min(same)].id \in Ids(state.open)
    BY <2>3 DEF Ids
  <2> HIDE DEF same
  <2>5. ASSUME NEW id \in Ids(state.open) PROVE IsStrip([state EXCEPT !.active = id], wider) /\ [state EXCEPT !.active = id].open # <<>>
    BY <1>2, ActiveKeeps
  <2> QED BY <2>1, <2>4, <2>5
<1>4. CASE ~(~newTab /\ same # {})
  <2>1. FocusTarget(state, target, newTab) = Append1(state, target, Nothing)
    BY <1>4 DEF FocusTarget
  <2>2. ASSUME NEW i \in DOMAIN state.open, IsSearch(state.open[i]), target.kind = "search", state.open[i].target.id = target.id
        PROVE  target.id \in wider
    <3>1. state.open[i].target = [kind |-> "search", id |-> target.id] /\ target = [kind |-> "search", id |-> target.id]
      BY <1>1, <2>2 DEF IsStrip, IsTabs, IsTab, IsSearch
    <3>2. i \in same /\ target.id \in NamesOf(state.open)
      BY <2>2, <3>1 DEF NamesOf, Searches, IsSearch
    <3> HIDE DEF same
    <3> QED BY <1>4, <2>2, <3>2
  <2> HIDE DEF same
  <2> QED BY <1>1, <1>2, <2>1, <2>2, AppendKeeps
<1> QED BY <1>3, <1>4

\* A tab that is closed.
LEMMA CloseKeeps ==
  ASSUME NEW shared, NEW state, IsStrip(state, shared), NEW id \in Ids(state.open)
  PROVE  IsStrip(CloseTab(state, id), shared)
<1> DEFINE at == CHOOSE i \in DOMAIN state.order : state.order[i] = id
           P == {i \in DOMAIN state.order : state.order[i] # id}
           Q == {i \in DOMAIN state.open : state.open[i].id # id}
           order == AtPositions(state.order, P)
           open == AtPositions(state.open, Q)
           active == IF state.active # id THEN state.active
                     ELSE IF order = <<>> THEN Nothing
                     ELSE order[IF at > 1 THEN at - 1 ELSE 1]
           n == Len(state.order)
<1>1. IsTabs(state.open) /\ Alone(state.open) /\ SearchesApart(state.open, shared) /\ ListsOnce(state.order, Ids(state.open))
  BY DEF IsStrip
<1>2. IsSequence(state.open) /\ IsSequence(state.order) /\ DOMAIN state.order = 1 .. n /\ n \in Nat
  BY <1>1 DEF IsTabs, ListsOnce, IsSequence
<1>3. CloseTab(state, id) = [open |-> open, order |-> order, active |-> active]
  BY DEF CloseTab
<1>4. at \in DOMAIN state.order /\ state.order[at] = id
  BY <1>1 DEF ListsOnce
<1>5. P \in SUBSET DOMAIN state.order /\ Q \in SUBSET DOMAIN state.open
  OBVIOUS
<1>6. /\ \A i \in Q : IsTab(state.open[i])
      /\ \A i, j \in Q : state.open[i].id = state.open[j].id => i = j
  BY <1>1 DEF IsTabs, Alone
<1>7. {state.open[i].id : i \in Q} = Ids(state.open) \ {id}
  BY DEF Ids
<1>8. /\ \A i, j \in P : state.order[i] = state.order[j] => i = j
      /\ \A i \in P : state.order[i] \in Ids(state.open) \ {id}
      /\ \A x \in Ids(state.open) \ {id} : \E i \in P : state.order[i] = x
  BY <1>1 DEF ListsOnce
<1>9. \A i \in DOMAIN state.order : i # at => i \in P
  BY <1>1, <1>4 DEF ListsOnce
<1> HIDE DEF P, Q, at
<1>10. IsTabs(open) /\ Alone(open) /\ SearchesApart(open, shared) /\ Ids(open) = Ids(state.open) \ {id}
  <2>1. /\ IsTabs(open) /\ Alone(open) /\ Ids(open) = {state.open[i].id : i \in Q}
        /\ SearchesApart(state.open, shared) => SearchesApart(open, shared)
    BY <1>2, <1>5, <1>6, ThinnedTabs
  <2> QED BY <1>1, <1>7, <2>1
<1>11. /\ IsSequence(order)
       /\ \A k \in DOMAIN order : \E i \in P : order[k] = state.order[i]
       /\ \A i \in P : \E k \in DOMAIN order : order[k] = state.order[i]
       /\ \A k, m \in DOMAIN order : order[k] = order[m] => k = m
  <2>1. /\ IsSequence(order)
        /\ \A k \in DOMAIN order : \E i \in P : order[k] = state.order[i]
        /\ \A i \in P : \E k \in DOMAIN order : order[k] = state.order[i]
    BY <1>2, <1>5, Thinned, Zenon
  <2>2. (\A i, j \in P : state.order[i] = state.order[j] => i = j)
          => \A k, m \in DOMAIN order : order[k] = order[m] => k = m
    BY <1>2, <1>5, Thinned, Zenon
  <2> QED BY <1>8, <2>1, <2>2
<1>12. Len(order) = Cardinality(P) /\ Cardinality(P) = n - 1
  <2>1. P = (1 .. n) \ {at}
    BY <1>2, <1>4, <1>9 DEF P
  <2>2. IsFiniteSet(1 .. n) /\ Cardinality(1 .. n) = n
    <3>1. n \in Nat
      BY <1>2
    <3> HIDE DEF n
    <3> QED BY <3>1, FS_Interval
  <2>3. IsFiniteSet(P) /\ Cardinality(P) = n - 1
    <3>1. at \in 1 .. n
      BY <1>2, <1>4
    <3> DEFINE S == 1 .. n
    <3>2. IsFiniteSet(S) /\ at \in S /\ Cardinality(S) = n /\ P = S \ {at}
      BY <2>1, <2>2, <3>1
    <3> HIDE DEF S
    <3> QED BY <3>2, FS_RemoveElement
  <2>4. Cardinality(P) \in Nat
    BY <2>3, FS_CardinalityType
  <2>5. order = [k \in 1 .. Cardinality(P) |-> order[k]]
    BY DEF AtPositions
  <2> HIDE DEF order
  <2> QED BY <2>3, <2>4, <2>5
<1> HIDE DEF open, order
<1>13. ListsOnce(order, Ids(open))
  <2>1. \A k \in DOMAIN order : order[k] \in Ids(open)
    BY <1>8, <1>10, <1>11
  <2>2. \A x \in Ids(open) : \E k \in DOMAIN order : order[k] = x
    BY <1>8, <1>10, <1>11
  <2> QED BY <1>11, <2>1, <2>2 DEF ListsOnce
<1>14. IF open = <<>> THEN active = Nothing ELSE active \in Ids(open)
  <2>1. open = <<>> <=> order = <<>>
    <3>1. open = <<>> <=> Ids(open) = {}
      <4>1. IsSequence(open) /\ Ids(open) = {open[i].id : i \in DOMAIN open}
        BY <1>10 DEF Ids, IsTabs
      <4>2. open = <<>> <=> DOMAIN open = {}
        BY <4>1 DEF IsSequence
      <4> QED BY <4>1, <4>2
    <3>2. order = <<>> <=> DOMAIN order = {}
      BY <1>11 DEF IsSequence
    <3>3. Ids(open) = {} <=> DOMAIN order = {}
      BY <1>13 DEF ListsOnce
    <3> QED BY <3>1, <3>2, <3>3
  <2>2. CASE state.active # id
    <3>1. state.open # <<>>
      BY DEF Ids
    <3>2. state.active \in Ids(open)
      BY <1>10, <2>2, <3>1 DEF IsStrip
    <3>3. open # <<>>
      BY <3>2 DEF Ids
    <3> QED BY <2>2, <3>2, <3>3
  <2>3. CASE state.active = id /\ order = <<>>
    BY <2>1, <2>3
  <2>4. CASE state.active = id /\ order # <<>>
    <3>1. DOMAIN order = 1 .. n - 1 /\ n - 1 # 0
      BY <1>2, <1>11, <1>12, <2>4 DEF IsSequence
    <3>2. (IF at > 1 THEN at - 1 ELSE 1) \in DOMAIN order
      <4>1. at \in 1 .. n
        BY <1>2, <1>4
      <4>2. CASE at > 1
        BY <1>2, <3>1, <4>1, <4>2
      <4>3. CASE ~(at > 1)
        <5>1. n \in Nat /\ n - 1 # 0 /\ n >= 1
          BY <1>2, <3>1, <4>1
        <5>2. 1 \in 1 .. n - 1
          <6> HIDE DEF n
          <6> QED BY <5>1
        <5> QED BY <3>1, <4>3, <5>2
      <4> QED BY <4>2, <4>3
    <3>3. active = order[IF at > 1 THEN at - 1 ELSE 1]
      BY <2>4
    <3> QED BY <1>13, <2>1, <2>4, <3>2, <3>3 DEF ListsOnce
  <2> QED BY <2>2, <2>3, <2>4
<1> HIDE DEF active
<1> QED BY <1>3, <1>10, <1>13, <1>14, StripOf

\* A tab that is moved.
LEMMA ReorderKeeps ==
  ASSUME NEW shared, NEW state, IsStrip(state, shared), NEW id \in Ids(state.open), NEW to \in Nat \ {0}
  PROVE  IsStrip(ReorderTab(state, id, to), shared) /\ ReorderTab(state, id, to).open = state.open
<1> DEFINE P == {i \in DOMAIN state.order : state.order[i] # id}
           others == AtPositions(state.order, P)
           k == IF to <= Len(others) THEN to ELSE Len(others) + 1
           order == InsertAt(others, k, id)
           n == Len(others)
<1>1. ListsOnce(state.order, Ids(state.open)) /\ IsSequence(state.order)
  BY DEF IsStrip, ListsOnce
<1>2. PICK open, first, active : state = [open |-> open, order |-> first, active |-> active]
  BY DEF IsStrip
<1>3. ReorderTab(state, id, to) = [open |-> state.open, order |-> order, active |-> state.active]
  BY <1>2 DEF ReorderTab
<1>4. P \in SUBSET DOMAIN state.order
  OBVIOUS
<1>5. /\ \A i, j \in P : state.order[i] = state.order[j] => i = j
      /\ \A i \in P : state.order[i] \in Ids(state.open) \ {id}
      /\ \A x \in Ids(state.open) \ {id} : \E i \in P : state.order[i] = x
  BY <1>1 DEF ListsOnce
<1> HIDE DEF P
<1>6. /\ IsSequence(others)
      /\ \A m \in DOMAIN others : \E i \in P : others[m] = state.order[i]
      /\ \A i \in P : \E m \in DOMAIN others : others[m] = state.order[i]
      /\ \A m, l \in DOMAIN others : others[m] = others[l] => m = l
  BY <1>1, <1>4, <1>5, Thinned
<1> HIDE DEF others
<1>7. n \in Nat /\ DOMAIN others = 1 .. n /\ k \in 1 .. n + 1
  BY <1>6 DEF IsSequence
<1> HIDE DEF k
<1>8. IsSequence(order) /\ order = [i \in 1 .. n + 1 |-> IF i < k THEN others[i] ELSE IF i = k THEN id ELSE others[i - 1]]
  BY <1>6, <1>7, InsertIs
<1> HIDE DEF order
<1>9. DOMAIN order = 1 .. n + 1 /\ order[k] = id
      /\ \A i \in 1 .. n + 1 : /\ i < k => i \in 1 .. n /\ order[i] = others[i]
                               /\ i > k => i - 1 \in 1 .. n /\ order[i] = others[i - 1]
  BY <1>7, <1>8
<1>10. \A m \in 1 .. n : others[m] \in Ids(state.open) \ {id}
  BY <1>5, <1>6, <1>7
<1>11. \A i \in DOMAIN order : order[i] \in Ids(state.open) /\ (order[i] = id => i = k)
  BY <1>7, <1>9, <1>10
<1>12. \A x \in Ids(state.open) : \E i \in DOMAIN order : order[i] = x
  <2> SUFFICES ASSUME NEW x \in Ids(state.open), x # id PROVE \E i \in DOMAIN order : order[i] = x
    BY <1>7, <1>9
  <2>1. PICK m \in 1 .. n : others[m] = x
    BY <1>5, <1>6, <1>7
  <2>2. CASE m < k
    BY <1>7, <1>9, <2>1, <2>2
  <2>3. CASE ~(m < k)
    <3>1. m + 1 \in 1 .. n + 1 /\ m + 1 > k /\ m + 1 - 1 = m
      BY <1>7, <2>3
    <3> QED BY <1>9, <2>1, <3>1
  <2> QED BY <2>2, <2>3
<1>13. \A i, j \in DOMAIN order : order[i] = order[j] => i = j
  <2> SUFFICES ASSUME NEW i \in 1 .. n + 1, NEW j \in 1 .. n + 1, order[i] = order[j], i # k, j # k PROVE i = j
    BY <1>9, <1>11
  <2> DEFINE p(x) == IF x < k THEN x ELSE x - 1
  <2>1. p(i) \in 1 .. n /\ p(j) \in 1 .. n /\ order[i] = others[p(i)] /\ order[j] = others[p(j)]
    BY <1>7, <1>9
  <2> HIDE DEF p
  <2>2. p(i) \in DOMAIN others /\ p(j) \in DOMAIN others /\ others[p(i)] = others[p(j)]
    BY <1>7, <2>1
  <2>3. p(i) = p(j)
    BY <1>6, <2>2
  <2> QED BY <1>7, <2>3 DEF p
<1>14. ListsOnce(order, Ids(state.open))
  BY <1>8, <1>11, <1>12, <1>13 DEF ListsOnce
<1>15. IsStrip([open |-> state.open, order |-> order, active |-> state.active], shared)
  BY <1>14, StripOf DEF IsStrip
<1> QED BY <1>3, <1>15

LEMMA SearchKeeps ==
  ASSUME NEW shared, NEW state, IsStrip(state, shared), NEW id \in Ids(state.open), NEW search
  PROVE  IsStrip(SetSearchParams(state, id, search), shared) /\ SetSearchParams(state, id, search).open # <<>>
<1>1. PICK old, order, active : state = [open |-> old, order |-> order, active |-> active]
  BY DEF IsStrip
<1> DEFINE at == At(state.open, id)
           open == [old EXCEPT ![at].search = search]
<1>2. at \in DOMAIN old /\ state.open = old /\ state.order = order /\ state.active = active
  BY <1>1 DEF At, Ids
<1>3. SetSearchParams(state, id, search) = [open |-> open, order |-> order, active |-> active]
  BY <1>1, <1>2 DEF SetSearchParams
<1>4. IsTabs(old) /\ Alone(old) /\ SearchesApart(old, shared) /\ ListsOnce(order, Ids(old)) /\ IsSequence(old)
  BY <1>2 DEF IsStrip, IsTabs
<1> HIDE DEF at
<1>5. DOMAIN open = DOMAIN old /\ \A i \in DOMAIN old : i # at => open[i] = old[i]
  BY <1>2
<1>6. open[at] = [id |-> old[at].id, target |-> old[at].target, search |-> search]
  <2>1. IsTab(old[at])
    BY <1>2, <1>4 DEF IsTabs
  <2>2. PICK a, b, c : old[at] = [id |-> a, target |-> b, search |-> c]
    BY <2>1 DEF IsTab
  <2> QED BY <1>2, <2>2
<1>7. IsSequence(open)
  <2>1. Len(old) \in Nat /\ DOMAIN old = 1 .. Len(old)
    BY <1>4 DEF IsSequence
  <2>2. open = [i \in 1 .. Len(old) |-> open[i]]
    BY <2>1
  <2> HIDE DEF open
  <2>3. DOMAIN open = 1 .. Len(old) /\ Len(open) = Len(old)
    BY <2>1, <2>2
  <2> QED BY <2>1, <2>2, <2>3 DEF IsSequence
<1> HIDE DEF open
<1>8. \A i \in DOMAIN old : open[i].id = old[i].id /\ open[i].target = old[i].target
  BY <1>5, <1>6
<1>9. \A i \in DOMAIN old : open[i] = [id |-> open[i].id, target |-> open[i].target, search |-> open[i].search]
  <2>1. ASSUME NEW i \in DOMAIN old, i # at
        PROVE  open[i] = [id |-> open[i].id, target |-> open[i].target, search |-> open[i].search]
    BY <1>4, <1>5, <2>1 DEF IsTabs, IsTab
  <2> QED BY <1>6, <2>1
<1>10. IsTabs(open)
  BY <1>4, <1>5, <1>7, <1>8, <1>9 DEF IsTabs, IsTab
<1>11. Ids(open) = Ids(old)
  BY <1>5, <1>8 DEF Ids
<1>12. Alone(open) /\ SearchesApart(open, shared)
  BY <1>4, <1>5, <1>8 DEF Alone, SearchesApart, IsSearch
<1>13. open # <<>> /\ old # <<>>
  BY <1>2, <1>5
<1>14. active \in Ids(old)
  BY <1>2, <1>13 DEF IsStrip
<1>15. IsStrip([open |-> open, order |-> order, active |-> active], shared)
  BY <1>4, <1>10, <1>11, <1>12, <1>13, <1>14, StripOf
<1> QED BY <1>3, <1>13, <1>15

----------------------------------------------------------------------------
(* Coercion                                                                 *)

LEMMA StripIsWritten ==
  ASSUME NEW shared, NEW s, IsStrip(s, shared)
  PROVE  WrittenTabs(s)
BY DEF IsStrip, WrittenTabs, IsTabs, IsTab, SearchesApart, ListsOnce, IsSequence, IsSearch

\* Of the positions that hold a value there is a first one.
LEMMA FirstIs ==
  ASSUME NEW P \in SUBSET Nat, NEW s, NEW i \in P
  PROVE  \E k \in P : s[k] = s[i] /\ \A j \in P : j < k => s[j] # s[i]
<1> DEFINE T == {k \in P : s[k] = s[i]}
<1>1. T \in SUBSET Nat /\ T # {}
  OBVIOUS
<1>2. PICK k \in T : \A y \in T : k <= y
  BY <1>1, Least
<1>3. \A j \in P : j < k => s[j] # s[i]
  BY <1>2
<1> QED BY <1>2, <1>3

\* Whatever was read, its coercion is a tab set.
LEMMA CoercedIs ==
  ASSUME NEW shared, NEW raw, WrittenTabs(raw), SearchesApart(CoerceTabState(raw).open, shared)
  PROVE  IsStrip(CoerceTabState(raw), shared)
<1> DEFINE good == {i \in DOMAIN raw.open : raw.open[i].target # Malformed}
           P == {i \in good : \A j \in good : j < i => raw.open[j].id # raw.open[i].id}
           open == AtPositions(raw.open, P)
           listed == {i \in DOMAIN raw.order :
                        raw.order[i] \in Ids(open) /\ \A j \in DOMAIN raw.order : j < i => raw.order[j] # raw.order[i]}
           Q == {i \in DOMAIN open : open[i].id \notin ToSet(raw.order)}
           missing == AtPositions(open, Q)
           first == AtPositions(raw.order, listed)
           last == [i \in DOMAIN missing |-> missing[i].id]
           order == first \o last
           active == IF raw.active \in Ids(open) THEN raw.active ELSE IF order = <<>> THEN Nothing ELSE Head(order)
<1>1. CoerceTabState(raw) = [open |-> open, order |-> order, active |-> active]
  BY DEF CoerceTabState
<1>2. /\ IsSequence(raw.open) /\ IsSequence(raw.order) /\ DOMAIN raw.open \subseteq Nat /\ DOMAIN raw.order \subseteq Nat
  BY DEF WrittenTabs, IsSequence
<1>3. IsTabs(open) /\ Alone(open) /\ SearchesApart(open, shared)
  <2>1. P \in SUBSET DOMAIN raw.open
    OBVIOUS
  <2>2. \A i \in P : IsTab(raw.open[i])
    BY DEF WrittenTabs, IsTab
  <2>3. \A i, j \in P : raw.open[i].id = raw.open[j].id => i = j
    <3> SUFFICES ASSUME NEW i \in P, NEW j \in P, raw.open[i].id = raw.open[j].id, i # j PROVE FALSE
      OBVIOUS
    <3>1. i < j \/ j < i
      BY <1>2
    <3> QED BY <3>1
  <2> HIDE DEF P
  <2>4. IsTabs(open) /\ Alone(open)
    BY <1>2, <2>1, <2>2, <2>3, ThinnedTabs
  <2> HIDE DEF open
  <2>5. SearchesApart(open, shared)
    BY <1>1
  <2> QED BY <2>4, <2>5
<1> HIDE DEF P, good, open
<1>4. IsSequence(open)
  BY <1>3 DEF IsTabs
<1>5. /\ IsSequence(first)
      /\ \A n \in DOMAIN first : \E i \in listed : first[n] = raw.order[i]
      /\ \A i \in listed : \E n \in DOMAIN first : first[n] = raw.order[i]
      /\ \A n, m \in DOMAIN first : first[n] = first[m] => n = m
  <2>1. listed \in SUBSET DOMAIN raw.order
    OBVIOUS
  <2>2. \A i, j \in listed : raw.order[i] = raw.order[j] => i = j
    <3> SUFFICES ASSUME NEW i \in listed, NEW j \in listed, raw.order[i] = raw.order[j], i # j PROVE FALSE
      OBVIOUS
    <3>1. i < j \/ j < i
      BY <1>2
    <3> QED BY <3>1
  <2> HIDE DEF listed
  <2> QED BY <1>2, <2>1, <2>2, Thinned
<1>6. IsTabs(missing) /\ Alone(missing) /\ Ids(missing) = {open[i].id : i \in Q}
  <2>1. Q \in SUBSET DOMAIN open
    OBVIOUS
  <2>2. \A i \in Q : IsTab(open[i])
    BY <1>3 DEF IsTabs
  <2>3. \A i, j \in Q : open[i].id = open[j].id => i = j
    BY <1>3 DEF Alone
  <2> HIDE DEF Q
  <2> QED BY <1>4, <2>1, <2>2, <2>3, ThinnedTabs
<1>7. Ids(missing) = Ids(open) \ ToSet(raw.order)
  BY <1>6 DEF Ids
<1> HIDE DEF missing, Q
<1>8. IsSequence(last) /\ DOMAIN last = DOMAIN missing /\ \A i \in DOMAIN missing : last[i] = missing[i].id
  <2>1. Len(missing) \in Nat /\ DOMAIN missing = 1 .. Len(missing)
    BY <1>6 DEF IsTabs, IsTab, IsSequence
  <2>2. Len(last) = Len(missing)
    BY <2>1
  <2> QED BY <2>1, <2>2 DEF IsSequence
<1>9. /\ {last[i] : i \in DOMAIN last} = Ids(open) \ ToSet(raw.order)
      /\ \A i, j \in DOMAIN last : last[i] = last[j] => i = j
  <2>1. {last[i] : i \in DOMAIN last} = Ids(missing)
    BY <1>8 DEF Ids
  <2>2. \A i, j \in DOMAIN last : last[i] = last[j] => i = j
    BY <1>6, <1>8 DEF Alone
  <2> QED BY <1>7, <2>1, <2>2
<1>10. {first[n] : n \in DOMAIN first} = Ids(open) \cap ToSet(raw.order)
  <2>1. ASSUME NEW n \in DOMAIN first PROVE first[n] \in Ids(open) \cap ToSet(raw.order)
    BY <1>5 DEF ToSet
  <2>2. ASSUME NEW x \in Ids(open) \cap ToSet(raw.order) PROVE \E n \in DOMAIN first : first[n] = x
    <3>1. PICK i \in DOMAIN raw.order : raw.order[i] = x
      BY <2>2 DEF ToSet
    <3>2. PICK k \in DOMAIN raw.order : raw.order[k] = raw.order[i] /\ \A j \in DOMAIN raw.order : j < k => raw.order[j] # raw.order[i]
      BY <1>2, FirstIs
    <3>3. k \in listed
      BY <2>2, <3>1, <3>2
    <3> HIDE DEF listed
    <3> QED BY <1>5, <3>1, <3>2, <3>3
  <2> HIDE DEF first
  <2> QED BY <2>1, <2>2
<1> HIDE DEF first, last, listed
<1>11. ListsOnce(order, Ids(open))
  <2>1. /\ IsSequence(order)
        /\ \A i \in DOMAIN first : i \in DOMAIN order /\ order[i] = first[i]
        /\ \A i \in DOMAIN last : Len(first) + i \in DOMAIN order /\ order[Len(first) + i] = last[i]
        /\ \A i \in DOMAIN order : i \notin DOMAIN first => i - Len(first) \in DOMAIN last /\ order[i] = last[i - Len(first)]
        /\ DOMAIN order \subseteq Nat /\ Len(first) \in Nat
    <3>1. /\ IsSequence(order) /\ DOMAIN order = 1 .. Len(first) + Len(last) /\ DOMAIN first = 1 .. Len(first)
          /\ Len(first) \in Nat /\ Len(last) \in Nat
          /\ \A i \in DOMAIN first : order[i] = first[i]
          /\ \A i \in DOMAIN last : Len(first) + i \in DOMAIN order /\ order[Len(first) + i] = last[i]
          /\ \A i \in DOMAIN order : i \notin DOMAIN first => i - Len(first) \in DOMAIN last /\ order[i] = last[i - Len(first)]
      <4>1. IsSequence(first) /\ IsSequence(last)
        BY <1>5, <1>8
      <4>2. Joins(order, first, last)
        BY <4>1, ConcatIs
      <4> HIDE DEF order
      <4> QED BY <4>2 DEF Joins
    <3> HIDE DEF order
    <3>2. DOMAIN first \subseteq DOMAIN order /\ DOMAIN order \subseteq Nat
      BY <3>1
    <3> QED BY <3>1, <3>2
  <2> HIDE DEF order
  <2>2. \A i \in DOMAIN order : order[i] \in Ids(open)
    BY <1>9, <1>10, <2>1
  <2>3. \A x \in Ids(open) : \E i \in DOMAIN order : order[i] = x
    <3> SUFFICES ASSUME NEW x \in Ids(open) PROVE \E i \in DOMAIN order : order[i] = x
      OBVIOUS
    <3>1. CASE x \in ToSet(raw.order)
      <4>1. PICK n \in DOMAIN first : first[n] = x
        BY <1>10, <3>1
      <4> QED BY <2>1, <4>1
    <3>2. CASE x \notin ToSet(raw.order)
      <4>1. PICK n \in DOMAIN last : last[n] = x
        BY <1>9, <3>2
      <4> QED BY <2>1, <4>1
    <3> QED BY <3>1, <3>2
  <2>4. \A i, j \in DOMAIN order : order[i] = order[j] => i = j
    <3> SUFFICES ASSUME NEW i \in DOMAIN order, NEW j \in DOMAIN order, order[i] = order[j] PROVE i = j
      OBVIOUS
    <3>1. \A l \in DOMAIN order : l \in DOMAIN first => order[l] \in ToSet(raw.order)
      BY <1>10, <2>1
    <3>2. \A l \in DOMAIN order : l \notin DOMAIN first => order[l] \notin ToSet(raw.order)
      BY <1>9, <2>1
    <3>3. CASE i \in DOMAIN first
      <4>1. j \in DOMAIN first
        BY <3>1, <3>2, <3>3
      <4> QED BY <1>5, <2>1, <3>3, <4>1
    <3>4. CASE i \notin DOMAIN first
      <4>1. j \notin DOMAIN first
        BY <3>1, <3>2, <3>4
      <4>2. i - Len(first) = j - Len(first)
        BY <1>9, <2>1, <3>4, <4>1
      <4> QED BY <2>1, <4>2
    <3> QED BY <3>3, <3>4
  <2> QED BY <2>1, <2>2, <2>3, <2>4 DEF ListsOnce
<1>12. IF open = <<>> THEN active = Nothing ELSE active \in Ids(open)
  <2>1. open = <<>> <=> Ids(open) = {}
    <3>1. open = <<>> <=> DOMAIN open = {}
      BY <1>4 DEF IsSequence
    <3> QED BY <3>1 DEF Ids
  <2>2. order = <<>> <=> DOMAIN order = {}
    <3> HIDE DEF order
    <3> QED BY <1>11 DEF ListsOnce, IsSequence
  <2>3. order # <<>> => Head(order) = order[1] /\ 1 \in DOMAIN order
    <3> HIDE DEF order
    <3> QED BY <1>11, TailIs DEF ListsOnce
  <2> HIDE DEF order
  <2>4. DOMAIN order = {} <=> Ids(open) = {}
    BY <1>11 DEF ListsOnce
  <2>5. order # <<>> => Head(order) \in Ids(open)
    BY <1>11, <2>3 DEF ListsOnce
  <2> QED BY <2>1, <2>2, <2>4, <2>5
<1> HIDE DEF order, active
<1> QED BY <1>1, <1>3, <1>11, <1>12, StripOf

\* Coercion leaves a tab set as it is.
LEMMA CoercedStrip ==
  ASSUME NEW shared, NEW s, IsStrip(s, shared)
  PROVE  CoerceTabState(s) = s
<1> DEFINE good == {i \in DOMAIN s.open : s.open[i].target # Malformed}
           P == {i \in good : \A j \in good : j < i => s.open[j].id # s.open[i].id}
           open == AtPositions(s.open, P)
           listed == {i \in DOMAIN s.order :
                        s.order[i] \in Ids(open) /\ \A j \in DOMAIN s.order : j < i => s.order[j] # s.order[i]}
           Q == {i \in DOMAIN open : open[i].id \notin ToSet(s.order)}
           missing == AtPositions(open, Q)
           order == AtPositions(s.order, listed) \o [i \in DOMAIN missing |-> missing[i].id]
           active == IF s.active \in Ids(open) THEN s.active ELSE IF order = <<>> THEN Nothing ELSE Head(order)
<1>1. CoerceTabState(s) = [open |-> open, order |-> order, active |-> active]
  BY DEF CoerceTabState
<1>2. /\ IsTabs(s.open) /\ Alone(s.open) /\ ListsOnce(s.order, Ids(s.open))
      /\ IsSequence(s.open) /\ IsSequence(s.order) /\ DOMAIN s.open \subseteq Nat /\ DOMAIN s.order \subseteq Nat
  BY DEF IsStrip, IsTabs, ListsOnce, IsSequence
<1>3. open = s.open
  <2>1. \A i \in DOMAIN s.open : s.open[i].target # Malformed
    BY <1>2 DEF IsTabs, IsTab
  <2>2. \A i, j \in DOMAIN s.open : j < i => s.open[j].id # s.open[i].id
    BY <1>2 DEF Alone
  <2>3. P = DOMAIN s.open
    BY <2>1, <2>2
  <2> QED BY <1>2, <2>3, ThinnedAll
<1> HIDE DEF good, P, open
<1>4. AtPositions(s.order, listed) = s.order
  <2>1. \A i \in DOMAIN s.order : s.order[i] \in Ids(open)
    BY <1>2, <1>3 DEF ListsOnce
  <2>2. \A i, j \in DOMAIN s.order : j < i => s.order[j] # s.order[i]
    BY <1>2 DEF ListsOnce
  <2>3. listed = DOMAIN s.order
    BY <2>1, <2>2
  <2> QED BY <1>2, <2>3, ThinnedAll
<1>5. missing = <<>>
  <2>1. \A i \in DOMAIN open : open[i].id \in ToSet(s.order)
    <3> SUFFICES ASSUME NEW i \in DOMAIN open PROVE open[i].id \in ToSet(s.order)
      OBVIOUS
    <3>1. open[i].id \in Ids(s.open)
      BY <1>3 DEF Ids
    <3>2. PICK k \in DOMAIN s.order : s.order[k] = open[i].id
      BY <1>2, <3>1 DEF ListsOnce
    <3> QED BY <3>2 DEF ToSet
  <2>2. Q = {}
    BY <2>1
  <2> QED BY <1>2, <1>3, <2>2, ThinnedAll
<1> HIDE DEF missing, listed
<1>6. order = s.order
  <2>1. [i \in DOMAIN missing |-> missing[i].id] = <<>>
    BY <1>5
  <2>2. s.order \o <<>> = s.order
    <3> DEFINE S == {s.order[i] : i \in DOMAIN s.order}
    <3>1. s.order \in Seq(S)
      <4>1. s.order \in [1 .. Len(s.order) -> S] /\ Len(s.order) \in Nat
        BY <1>2 DEF IsSequence
      <4> HIDE DEF S
      <4> QED BY <4>1
    <3> HIDE DEF S
    <3> QED BY <3>1, ConcatEmptySeq
  <2> QED BY <1>4, <2>1, <2>2
<1> HIDE DEF order
<1>7. active = s.active
  <2>1. CASE s.open = <<>>
    <3>1. s.active = Nothing /\ Ids(s.open) = {}
      BY <2>1 DEF IsStrip, Ids
    <3>2. DOMAIN s.order = {}
      BY <1>2, <3>1 DEF ListsOnce
    <3>3. s.order = <<>>
      BY <1>2, <3>2 DEF IsSequence
    <3> QED BY <1>3, <1>6, <3>1, <3>3
  <2>2. CASE s.open # <<>>
    BY <1>3, <2>2 DEF IsStrip
  <2> QED BY <2>1, <2>2
<1>8. s = [open |-> s.open, order |-> s.order, active |-> s.active]
  BY DEF IsStrip
<1> QED BY <1>1, <1>3, <1>6, <1>7, <1>8

----------------------------------------------------------------------------
(* The strip, the settings and their file                                   *)

TabIInv ==
  /\ IsStrip(strip, doubled)
  /\ IsSequence(sent) /\ \A i \in DOMAIN sent : IsStrip(sent[i], doubled)
  /\ settings = [tabs |-> settings.tabs, default |-> settings.default] /\ IsStrip(settings.tabs, doubled)
  /\ WrittenTabs(saved.tabs) /\ SearchesApart(CoerceTabState(saved.tabs).open, doubled)
  /\ ~stale => CoerceTabState(saved.tabs) = settings.tabs
  /\ strip.open # <<>> => IF sent = <<>> THEN settings.tabs = strip ELSE sent[Len(sent)] = strip

\* What may be shared grows.
LEMMA InvWidened ==
  ASSUME TabIInv, NEW wider, doubled \subseteq wider
  PROVE  /\ IsStrip(strip, wider) /\ \A i \in DOMAIN sent : IsStrip(sent[i], wider)
         /\ IsStrip(settings.tabs, wider) /\ SearchesApart(CoerceTabState(saved.tabs).open, wider)
BY Widened DEF TabIInv, SearchesApart

LEMMA CommitKeeps ==
  ASSUME TabIInv, doubled \subseteq doubled', NEW next, IsStrip(next, doubled'), Commit(next), UNCHANGED <<settings, saved, stale>>
  PROVE  TabIInv'
<1> DEFINE wider == doubled'
<1>0. /\ IsStrip(strip, wider) /\ \A i \in DOMAIN sent : IsStrip(sent[i], wider)
      /\ IsStrip(settings.tabs, wider) /\ SearchesApart(CoerceTabState(saved.tabs).open, wider)
  BY InvWidened
<1>1. strip' = next /\ sent' = Append(sent, next)
  BY DEF Commit
<1>2. /\ IsSequence(sent') /\ DOMAIN sent' = DOMAIN sent \cup {Len(sent) + 1} /\ Len(sent') = Len(sent) + 1
      /\ \A i \in DOMAIN sent : sent'[i] = sent[i]
      /\ sent'[Len(sent) + 1] = next
  BY <1>1, AppendIs DEF TabIInv
<1>3. sent' # <<>>
  BY <1>2
<1>4. \A i \in DOMAIN sent' : IsStrip(sent'[i], wider)
  BY <1>0, <1>2
<1> QED BY <1>0, <1>1, <1>2, <1>3, <1>4 DEF TabIInv

\* A file that is written, or not, after the settings have changed.
LEMMA PersistKeeps ==
  ASSUME TabIInv, IsStrip(settings'.tabs, doubled), Persist(settings'), stale' \in BOOLEAN
  PROVE  /\ WrittenTabs(saved'.tabs) /\ SearchesApart(CoerceTabState(saved'.tabs).open, doubled)
         /\ ~stale' => CoerceTabState(saved'.tabs) = settings'.tabs
<1>1. CASE saved' = settings'
  <2>1. WrittenTabs(settings'.tabs) /\ CoerceTabState(settings'.tabs) = settings'.tabs
    BY StripIsWritten, CoercedStrip
  <2>2. SearchesApart(settings'.tabs.open, doubled)
    BY DEF IsStrip
  <2> QED BY <1>1, <2>1, <2>2
<1>2. CASE saved' = saved /\ stale' = TRUE
  BY <1>2 DEF TabIInv
<1> QED BY <1>1, <1>2 DEF Persist

LEMMA SetTabsKeeps ==
  ASSUME TabIInv, SetTabs
  PROVE  TabIInv'
<1>1. /\ sent # <<>> /\ sent' = Tail(sent) /\ strip' = strip /\ doubled' = doubled /\ Persist(settings')
      /\ settings' = [tabs |-> CoerceTabState(Head(sent)), default |-> settings.default]
  BY DEF SetTabs, TabIInv
<1>2. /\ IsSequence(sent') /\ Head(sent) = sent[1] /\ 1 \in DOMAIN sent /\ Len(sent') = Len(sent) - 1
      /\ \A i \in DOMAIN sent' : i + 1 \in DOMAIN sent /\ sent'[i] = sent[i + 1]
  BY <1>1, TailIs DEF TabIInv
<1>3. IsStrip(sent[1], doubled)
  BY <1>2 DEF TabIInv
<1>4. settings'.tabs = sent[1] /\ settings' = [tabs |-> settings'.tabs, default |-> settings'.default]
  BY <1>1, <1>2, <1>3, CoercedStrip
<1>5. \A i \in DOMAIN sent' : IsStrip(sent'[i], doubled)
  BY <1>2 DEF TabIInv
<1>6. /\ WrittenTabs(saved'.tabs) /\ SearchesApart(CoerceTabState(saved'.tabs).open, doubled)
      /\ ~stale' => CoerceTabState(saved'.tabs) = settings'.tabs
  <2>1. stale' \in BOOLEAN
    BY <1>1 DEF Persist
  <2> QED BY <1>1, <1>3, <1>4, <2>1, PersistKeeps
<1>7. strip.open # <<>> => IF sent' = <<>> THEN settings'.tabs = strip ELSE sent'[Len(sent')] = strip
  <2> SUFFICES ASSUME strip.open # <<>> PROVE IF sent' = <<>> THEN settings'.tabs = strip ELSE sent'[Len(sent')] = strip
    OBVIOUS
  <2>1. sent[Len(sent)] = strip
    BY <1>1 DEF TabIInv
  <2>2. Len(sent) \in Nat /\ DOMAIN sent' = 1 .. Len(sent') /\ Len(sent') \in Nat
    BY <1>2 DEF TabIInv, IsSequence
  <2>3. CASE sent' = <<>>
    <3>1. Len(sent) = 1
      BY <1>2, <2>2, <2>3
    <3> QED BY <1>4, <2>1, <2>3, <3>1
  <2>4. CASE sent' # <<>>
    <3>1. Len(sent') # 0
      BY <1>2, <2>4 DEF IsSequence
    <3>2. Len(sent') \in DOMAIN sent' /\ Len(sent') + 1 = Len(sent)
      BY <1>2, <2>2, <3>1
    <3> QED BY <1>2, <2>1, <2>4, <3>2
  <2> QED BY <2>3, <2>4
<1>8. IsStrip(strip', doubled) /\ IsStrip(settings'.tabs, doubled)
  BY <1>1, <1>3, <1>4 DEF TabIInv
<1> QED BY <1>1, <1>2, <1>4, <1>5, <1>6, <1>7, <1>8 DEF TabIInv

LEMMA SetDefaultKeeps ==
  ASSUME TabIInv, NEW d, SetDefault(d)
  PROVE  TabIInv'
<1>1. UNCHANGED <<strip, sent, doubled>> /\ Persist(settings') /\ settings' = [tabs |-> settings.tabs, default |-> d]
  BY DEF SetDefault, TabIInv
<1>2. settings'.tabs = settings.tabs /\ settings' = [tabs |-> settings'.tabs, default |-> settings'.default]
  BY <1>1
<1>3. IsStrip(settings'.tabs, doubled) /\ stale' \in BOOLEAN
  BY <1>1, <1>2 DEF TabIInv, Persist
<1>4. /\ WrittenTabs(saved'.tabs) /\ SearchesApart(CoerceTabState(saved'.tabs).open, doubled)
      /\ ~stale' => CoerceTabState(saved'.tabs) = settings'.tabs
  BY <1>1, <1>3, PersistKeeps
<1> QED BY <1>1, <1>2, <1>3, <1>4 DEF TabIInv

\* What a renderer finds when it starts.
LEMMA StartedIs ==
  ASSUME NEW raw, WrittenTabs(raw), SearchesApart(CoerceTabState(raw).open, doubled), doubled' = doubled, NEW d,
         settings' = [tabs |-> CoerceTabState(raw), default |-> d], strip' = EmptyState, sent' = <<>>, saved'.tabs = raw
  PROVE  TabIInv'
<1>1. /\ settings'.tabs = CoerceTabState(raw)
      /\ settings' = [tabs |-> settings'.tabs, default |-> settings'.default]
  OBVIOUS
<1>2. IsStrip(settings'.tabs, doubled)
  BY <1>1, CoercedIs
<1>3. IsSequence(sent') /\ DOMAIN sent' = {}
  BY DEF IsSequence
<1>4. strip'.open = <<>> /\ IsStrip(strip', doubled)
  BY EmptyIsStrip DEF EmptyState
<1> QED BY <1>1, <1>2, <1>3, <1>4 DEF TabIInv

LEMMA RestartKeeps ==
  ASSUME TabIInv, RestartTabs
  PROVE  TabIInv'
<1>1. saved' \in {saved, DefaultSettings} /\ Start(saved') /\ doubled' = doubled
  BY DEF RestartTabs
<1>2. WrittenTabs(saved'.tabs) /\ SearchesApart(CoerceTabState(saved'.tabs).open, doubled)
  <2> DEFINE empty == DefaultSettings.tabs
  <2>1. IsStrip(empty, doubled)
    BY EmptyIsStrip DEF DefaultSettings
  <2> HIDE DEF empty
  <2>2. WrittenTabs(empty) /\ CoerceTabState(empty) = empty /\ SearchesApart(empty.open, doubled)
    BY <2>1, StripIsWritten, CoercedStrip DEF IsStrip
  <2> QED BY <1>1, <2>2 DEF TabIInv, empty
<1> QED BY <1>1, <1>2, StartedIs DEF Start

LEMMA TabInitInv == TabInit => TabIInv
<1> SUFFICES ASSUME TabInit PROVE TabIInv
  OBVIOUS
<1>1. PICK raw \in Written, d \in {Nothing} \cup TabDocs :
        /\ saved = [tabs |-> raw, default |-> d] /\ settings = [tabs |-> CoerceTabState(raw), default |-> d]
        /\ strip = EmptyState /\ sent = <<>>
        /\ doubled = {settings.tabs.open[i].target.id : i \in {j \in Searches(settings.tabs.open) :
                        \E k \in Searches(settings.tabs.open) \ {j} :
                          settings.tabs.open[k].target.id = settings.tabs.open[j].target.id}}
  BY DEF TabInit
<1>2. WrittenTabs(raw)
  BY WrittenAssumption
<1>3. /\ settings.tabs = CoerceTabState(raw) /\ saved.tabs = raw
      /\ settings = [tabs |-> settings.tabs, default |-> settings.default]
  BY <1>1
<1>4. SearchesApart(settings.tabs.open, doubled)
  BY <1>1 DEF SearchesApart, IsSearch, Searches
<1>5. IsStrip(settings.tabs, doubled)
  BY <1>2, <1>3, <1>4, CoercedIs
<1>6. IsSequence(sent) /\ DOMAIN sent = {}
  BY <1>1 DEF IsSequence
<1>7. strip.open = <<>> /\ IsStrip(strip, doubled)
  BY <1>1, EmptyIsStrip DEF EmptyState
<1> QED BY <1>2, <1>3, <1>4, <1>5, <1>6, <1>7 DEF TabIInv

LEMMA OperateKeeps ==
  ASSUME TabIInv, NEW next, IsStrip(next, doubled), Operate(next)
  PROVE  TabIInv'
<1>1. Commit(next) /\ UNCHANGED <<settings, saved, stale, doubled>>
  BY DEF Operate, Acts
<1>2. doubled \subseteq doubled' /\ IsStrip(next, doubled')
  BY <1>1
<1> QED BY <1>1, <1>2, CommitKeeps

LEMMA TabStep ==
  ASSUME TabIInv, [TabNext]_tabVars
  PROVE  TabIInv'
<1>1. IsStrip(strip, doubled)
  BY DEF TabIInv
<1>2. CASE UNCHANGED tabVars
  BY <1>2 DEF tabVars, TabIInv
<1>3. CASE BootTabs
  <2> DEFINE next == EnsureFirstTab(CoerceTabState(settings.tabs), settings.default)
  <2>1. Commit(next) /\ UNCHANGED <<settings, saved, stale, doubled>>
    BY <1>3 DEF BootTabs
  <2>2. IsStrip(CoerceTabState(settings.tabs), doubled)
    BY CoercedStrip DEF TabIInv
  <2>3. IsStrip(next, doubled)
    BY <2>2, EnsureKeeps
  <2> HIDE DEF next
  <2>4. doubled \subseteq doubled' /\ IsStrip(next, doubled')
    BY <2>1, <2>3
  <2> QED BY <2>1, <2>4, CommitKeeps
<1>4. CASE ReloadTabs
  <2>1. strip' = EmptyState /\ UNCHANGED <<sent, settings, saved, stale, doubled>>
    BY <1>4 DEF ReloadTabs
  <2>2. strip'.open = <<>> /\ IsStrip(strip', doubled)
    BY <2>1, EmptyIsStrip DEF EmptyState
  <2> QED BY <2>1, <2>2 DEF TabIInv
<1>5. CASE NewTab
  <2> DEFINE next == Append1(strip, Landing, Nothing)
  <2>1. Operate(next)
    BY <1>5 DEF NewTab
  <2>2. Landing # Malformed /\ Landing.kind # "search" /\ Landing = [kind |-> Landing.kind, id |-> Landing.id]
    BY DEF Landing, Malformed
  <2>3. IsStrip(next, doubled)
    BY <1>1, <2>2, AppendKeeps
  <2> HIDE DEF next
  <2> QED BY <2>1, <2>3, OperateKeeps
<1>6. CASE ExpandSearchTab
  <2> DEFINE q == NextFree(NamesOf(strip.open), Len(strip.open))
             next == Append1(strip, SearchFor(q), Nothing)
  <2>1. Operate(next)
    BY <1>6 DEF ExpandSearchTab
  <2>2. q \notin NamesOf(strip.open)
    <3> DEFINE P == Searches(strip.open)
               g == [i \in DOMAIN strip.open |-> strip.open[i].target.id]
    <3>1. NamesOf(strip.open) = {g[i] : i \in P}
      BY DEF NamesOf, Searches
    <3>2. P \in SUBSET DOMAIN strip.open /\ IsSequence(strip.open)
      BY <1>1 DEF IsStrip, IsTabs, Searches
    <3> HIDE DEF P, g
    <3>3. NextFree({g[i] : i \in P}, Len(strip.open)) \notin {g[i] : i \in P}
      BY <3>2, NextFreeIs
    <3> QED BY <3>1, <3>3
  <2> HIDE DEF q
  <2>3. SearchFor(q) # Malformed /\ SearchFor(q).id = q /\ SearchFor(q) = [kind |-> SearchFor(q).kind, id |-> SearchFor(q).id]
    BY DEF SearchFor, Malformed
  <2>4. \A i \in DOMAIN strip.open : IsSearch(strip.open[i]) => strip.open[i].target.id # q
    BY <2>2 DEF NamesOf, Searches, IsSearch
  <2>5. IsStrip(next, doubled)
    BY <1>1, <2>3, <2>4, AppendKeeps
  <2> HIDE DEF next
  <2> QED BY <2>1, <2>5, OperateKeeps
<1>7. CASE StoreChanges
  BY <1>7 DEF StoreChanges, TabIInv
<1>8. ASSUME NEW target \in Targets, NEW newTab \in BOOLEAN, Focus(target, newTab) PROVE TabIInv'
  <2> DEFINE next == FocusTarget(strip, target, newTab)
  <2>1. /\ Commit(next) /\ UNCHANGED <<settings, saved, stale>> /\ doubled \subseteq doubled'
        /\ \A q \in NamesOf(strip.open) : newTab /\ target = SearchFor(q) => q \in doubled'
    BY <1>8 DEF Focus, Acts
  <2>2. ASSUME newTab, target.kind = "search", target.id \in NamesOf(strip.open) PROVE target.id \in doubled'
    <3>1. target = SearchFor(target.id)
      BY <2>2 DEF Targets, Document, SearchFor, Landing
    <3> QED BY <2>1, <2>2, <3>1
  <2>3. IsStrip(next, doubled')
    BY <1>1, <2>1, <2>2, FocusKeeps
  <2> HIDE DEF next
  <2> QED BY <2>1, <2>3, CommitKeeps
<1>9. ASSUME NEW id \in Ids(strip.open), Activate(id) PROVE TabIInv'
  <2> DEFINE next == [strip EXCEPT !.active = id]
  <2>1. Operate(next)
    BY <1>9 DEF Activate
  <2>2. IsStrip(next, doubled)
    BY <1>1, ActiveKeeps
  <2> HIDE DEF next
  <2> QED BY <2>1, <2>2, OperateKeeps
<1>10. ASSUME NEW id \in Ids(strip.open), Close(id) PROVE TabIInv'
  <2> DEFINE next == EnsureFirstTab(CloseTab(strip, id), settings.default)
  <2>1. Operate(next)
    BY <1>10 DEF Close
  <2>2. IsStrip(CloseTab(strip, id), doubled)
    BY <1>1, CloseKeeps
  <2>3. IsStrip(next, doubled)
    BY <2>2, EnsureKeeps
  <2> HIDE DEF next
  <2> QED BY <2>1, <2>3, OperateKeeps
<1>11. ASSUME NEW id \in Ids(strip.open), EditSearchQuery(id) PROVE TabIInv'
  <2> DEFINE next == SetSearchParams(strip, id, Query)
  <2>1. Operate(next)
    BY <1>11 DEF EditSearchQuery
  <2>2. IsStrip(next, doubled)
    BY <1>1, SearchKeeps
  <2> HIDE DEF next
  <2> QED BY <2>1, <2>2, OperateKeeps
<1>12. ASSUME NEW id \in Ids(strip.open), NEW to \in 1 .. MaxTabs, Reorder(id, to) PROVE TabIInv'
  <2> DEFINE next == ReorderTab(strip, id, to)
  <2>1. Operate(next)
    BY <1>12 DEF Reorder
  <2>2. to \in Nat \ {0}
    BY MaxTabsAssumption
  <2>3. IsStrip(next, doubled)
    BY <1>1, <2>2, ReorderKeeps
  <2> HIDE DEF next
  <2> QED BY <2>1, <2>3, OperateKeeps
<1>13. CASE FocusDefault
  <2>1. Operate(EnsureFirstTab(strip, settings.default))
    BY <1>13 DEF FocusDefault
  <2>2. IsStrip(EnsureFirstTab(strip, settings.default), doubled)
    BY <1>1, EnsureKeeps
  <2> QED BY <2>1, <2>2, OperateKeeps
<1> QED BY <1>2, <1>3, <1>4, <1>5, <1>6, <1>7, <1>8, <1>9, <1>10, <1>11, <1>12, <1>13, SetTabsKeeps, SetDefaultKeeps, RestartKeeps
    DEF TabNext

\* As many values as positions, if no two positions have the same.
LEMMA AsMany ==
  ASSUME NEW n \in Nat, NEW g, \A i, j \in 1 .. n : g[i] = g[j] => i = j
  PROVE  Cardinality({g[i] : i \in 1 .. n}) = n
<1> DEFINE P == 1 .. n
           S == {g[i] : i \in P}
           h == [i \in P |-> g[i]]
<1>1. IsFiniteSet(P) /\ Cardinality(P) = n
  BY FS_Interval
<1>2. h \in [P -> S] /\ (\A x \in S : \E i \in P : h[i] = x) /\ \A i, j \in P : h[i] = h[j] => i = j
  OBVIOUS
<1> HIDE DEF h, S, P
<1>3. h \in Surjection(P, S) /\ h \in Injection(P, S)
  BY <1>2 DEF Surjection, Injection, IsInjective
<1>4. Cardinality(S) = Cardinality(P)
  BY <1>1, <1>3, FS_Surjection
<1> QED BY <1>1, <1>4 DEF S, P

\* From any file, after any operations, failed writes, reloads and restarts, the
\* strip lists each open tab once, one of them is active, and two searches share
\* a name only where a focus was asked to open that search again, or the first
\* file had it twice.
THEOREM StripAlwaysConsistent ==
  TabSpec => []StripConsistent
<1>1. ASSUME TabIInv PROVE StripConsistent
  <2> DEFINE open == strip.open
             order == strip.order
             n == Len(open)
  <2>1. /\ IsTabs(open) /\ Alone(open) /\ SearchesApart(open, doubled) /\ ListsOnce(order, Ids(open))
        /\ IF open = <<>> THEN strip.active = Nothing ELSE strip.active \in Ids(open)
    BY <1>1 DEF TabIInv, IsStrip
  <2> HIDE DEF open, order
  <2>2. n \in Nat /\ DOMAIN open = 1 .. n /\ Len(order) \in Nat /\ DOMAIN order = 1 .. Len(order)
    BY <2>1 DEF IsTabs, ListsOnce, IsSequence
  <2>3. Cardinality(Ids(open)) = n
    <3> DEFINE g == [i \in DOMAIN open |-> open[i].id]
    <3>1. Ids(open) = {g[i] : i \in 1 .. n} /\ \A i, j \in 1 .. n : g[i] = g[j] => i = j
      BY <2>1, <2>2 DEF Ids, Alone
    <3> HIDE DEF g, n
    <3>2. \A i, j \in 1 .. n : g[i] = g[j] => i = j
      BY <3>1
    <3>3. n \in Nat
      BY <2>2
    <3>4. Cardinality({g[i] : i \in 1 .. n}) = n
      BY <3>2, <3>3, AsMany
    <3> QED BY <3>1, <3>4
  <2>4. ToSet(order) = Ids(open)
    BY <2>1 DEF ToSet, ListsOnce
  <2>5. Cardinality(Ids(open)) = Len(order)
    <3>1. ToSet(order) = {order[i] : i \in 1 .. Len(order)}
      BY <2>2 DEF ToSet
    <3>2. \A i, j \in 1 .. Len(order) : order[i] = order[j] => i = j
      BY <2>1, <2>2 DEF ListsOnce
    <3> DEFINE m == Len(order)
    <3>3. m \in Nat /\ \A i, j \in 1 .. m : order[i] = order[j] => i = j
      BY <2>2, <3>2
    <3> HIDE DEF m
    <3>4. Cardinality({order[i] : i \in 1 .. m}) = m
      BY <3>3, AsMany
    <3> QED BY <2>4, <3>1, <3>4 DEF m
  <2>6. strip.active \in Ids(open) \cup {Nothing} /\ (strip.active = Nothing => open = <<>>)
    <3>1. Ids(open) \subseteq Nat
      BY <2>1 DEF Ids, IsTabs, IsTab
    <3> QED BY <2>1, <3>1, NothingAssumption
  <2>7. \A i, j \in Searches(open) : i # j /\ open[i].target.id = open[j].target.id => open[i].target.id \in doubled
    BY <2>1 DEF SearchesApart, IsSearch, Searches
  <2> QED BY <2>3, <2>4, <2>5, <2>6, <2>7 DEF StripConsistent, open, order
<1>2. TabIInv /\ [TabNext]_tabVars => TabIInv'
  BY TabStep
<1> QED BY <1>1, <1>2, TabInitInv, PTL DEF TabSpec

\* Once the patches are in, a reload mounts the very same strip, and so does a
\* restart unless the file could not be written.
THEOREM StripAlwaysSurvives ==
  TabSpec => []StripSurvives
<1>1. ASSUME TabIInv PROVE StripSurvives
  BY <1>1 DEF TabIInv, StripSurvives
<1>2. TabIInv /\ [TabNext]_tabVars => TabIInv'
  BY TabStep
<1> QED BY <1>1, <1>2, TabInitInv, PTL DEF TabSpec

=============================================================================
