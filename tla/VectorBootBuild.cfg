\* The build and the maintenance after it, against edits, undos and a provider that fails.
SPECIFICATION Spec
CONSTANTS
  Callers = {}
  Texts = {t1, t2}
  MaxJobs = 2
  WriteMayFail = FALSE
  Nodes = {n1, n2}
  Empty = empty
  None = none
  Hooks = {h1, h2}
  ChunkSize = 1
  MaxTime = 1
  MaxEdits = 2
  MayUndo = TRUE
  MayRelease = TRUE
  ProviderMayFail = TRUE
INVARIANTS
  BuildIndexConsistent
  IndexExactUnlessRaced
  FlushReflectsSets
PROPERTIES
  ReconcileCovers
  CacheCoversUnchanged
  TeardownIsFinal
SYMMETRY Symmetry
CHECK_DEADLOCK FALSE
