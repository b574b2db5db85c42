\* Two operations in progress at once, two calls in all.
SPECIFICATION Spec
CONSTANTS
  NodeIds = {1, 2, 3, 4, 5}
  EdgeIds = {1, 2, 3, 4, 5, 6}
  FirstNodes = {1, 2, 3}
  FirstEdges <- EditEdges
  Texts <- EditTexts
  Marks = {m}
  Docs = {}
  Callers = {c1, c2}
  MaxCalls = 2
  Kinds = {"setContent", "setDocMeta", "deleteNode", "splitNode", "mergeNode", "createNode", "setEdge", "setRichText", "setProps", "setSubtree", "setType"}
  EdgeCalls <- EditEdgeCalls
  None = None
INVARIANTS
  UnracedWritesHold
PROPERTIES
  SoloIsWhole
SYMMETRY Symmetry
CHECK_DEADLOCK FALSE
