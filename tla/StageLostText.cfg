\* Typing into the page and leaving it, with the store under it.
SPECIFICATION Spec
CONSTANTS
  d1 = d1
  d2 = d2
  s1 = s1
  s2 = s2
  Docs = {d1, d2}
  Nodes = {d2, s1, s2}
  Shown <- ShownNodes
  Bodies = {search, landing}
  Search = search
  Stores = {first, second}
  None = none
  MaxActs = 2
  MaxWire = 2
INVARIANTS
  FailedCommitKeepsDirty
CHECK_DEADLOCK FALSE
