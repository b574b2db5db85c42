\* Three names, one explicit path, two edits, the registry edited by hand once.
SPECIFICATION Spec
CONSTANTS
  Names = {a, b, c}
  Paths = {p}
  Generations = {0, 1, 2, 3, 4}
  None = None
  MaxEdits = 1
  MayTouch = TRUE
SYMMETRY Symmetry
INVARIANTS
  LiveIsRegistry
  PersistedIsLiveUnlessMoved
  AtMostOneBoot
CHECK_DEADLOCK FALSE
