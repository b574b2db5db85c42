\* The stage: two documents, three acts of the user, three messages on their way.  The graph: three acts.
\* The strip: one document, two open tabs, one patch on its way.  The layout: two panes and two zones,
\* three changes of it.
SPECIFICATION RendererSpec
CONSTANTS
  d1 = d1
  d2 = d2
  s1 = s1
  s2 = s2
  Docs = {d1, d2}
  Nodes = {d2, s1, s2}
  Shown <- ShownNodes
  Bodies = {search, landing}
  Search = search
  Stores = {first, second}
  None = none
  MaxActs = 3
  MaxWire = 3
  k1 = k1
  Pages = {d1, d2}
  Sections <- TwoSections
  Under <- ChildOfFirst
  FirstPages <- SharedFirst
  Unscoped = unscoped
  OwnersBox = box
  MaxGraphActs = 3
  TabDocs = {d1}
  Asked = {2}
  Query = query
  Nothing = nothing
  Written <- ByHand
  MaxTabs = 2
  MaxSent = 1
  p1 = p1
  p2 = p2
  Registered <- RegisteredPanes
  Zones = {L, R}
  Left = L
  Sizes = {0, 1}
  Default = 0
  FirstRun = {p1}
  NoGesture = nogesture
  MaxChanges = 3
  MaxPatches = 2
SYMMETRY Symmetry
CHECK_DEADLOCK FALSE
INVARIANTS
  SettledPageIsStore
  SurfaceNeverStale
  StripConsistent
  StripSurvives
  LayoutConverges
PROPERTIES
  GuardHolds
