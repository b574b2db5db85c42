SPECIFICATION HistorySpec
CONSTANTS
  n1 = n1
  n2 = n2
  e1 = e1
  e2 = e2
  NodeIds = {n1}
  EdgeIds = {e1}
  Types = {"p"}
  PropKeys = {}
  Roles = {"flow", "ref"}
  States = {"resolved", "broken"}
  MaxJournal = 1
  MaxBatch = 1
  PersistMayFail = TRUE
  None = None
SYMMETRY Symmetry
INVARIANTS
  ActiveEdgesAnchored
  FileIsOnePoint
  AdjacencyFresh
PROPERTIES
  ImplementsUndoHistory
