\* A node of the page is put once.
SPECIFICATION RendererSpec
CONSTANTS
  d1 = d1
  d2 = d2
  s1 = s1
  s2 = s2
  Docs = {d1, d2}
  Nodes = {d2, s1, s2}
  Shown <- ShownNodes
  Bodies = {search, landing}
  Search = search
  Stores = {first, second}
  None = none
  MaxActs = 4
  MaxWire = 3
  k1 = k1
  Pages = {d1, d2}
  Sections <- TwoSections
  Under <- ChildOfFirst
  FirstPages <- SharedFirst
  Unscoped = unscoped
  OwnersBox = box
  MaxGraphActs = 3
  TabDocs = {d1}
  Asked = {2}
  Query = query
  Nothing = nothing
  Written <- ByHand
  MaxTabs = 2
  MaxSent = 1
  p1 = p1
  p2 = p2
  Registered <- RegisteredPanes
  Zones = {L, R}
  Left = L
  Sizes = {0, 1}
  Default = 0
  FirstRun = {p1}
  NoGesture = nogesture
  MaxChanges = 3
  MaxPatches = 2
CHECK_DEADLOCK FALSE
INVARIANT RendersOnce
