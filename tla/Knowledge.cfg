\* Each part within the bounds that make its interesting cases happen; some of them stop at their bounds.
SPECIFICATION KnowledgeSpec
CONSTANTS
  StoreNodes = {m1, m2}
  StoreEdges = {e1, e2}
  BatchEdges = {e1}
  None = None
  LexNodes = {1, 2}
  LexTerms = {3, 4}
  LexTexts <- SomeTexts
  Gone = gone
  MaxNotice = 2
  Roots = {"r1", "r2"}
  Sections = {"a", "b", "c"}
  FirstFlows <- SomeFlows
  MaxFlowEdits = 2
  NodeCount = 4
  QueryGraphs <- SomeGraphs
  QueryRankings <- SomeRankings
  Missing = missing
  MaxDepth = 1
  MaxNodes = 3
  MaxHops = 1
  StoreNames = {"m", "n", "o"}
  StoreFiles = {"f1", "f2", "f3"}
  HitsOf <- SomeHits
  FirstStores <- TwoStores
  MaxRegistryEdits = 2
  MaxQueries = 2
  AuditSize = 1
SYMMETRY Symmetry
CHECK_DEADLOCK FALSE
INVARIANTS
  IndexIsRebuild
  FlowIsChain
  PagesAreDocuments
  ContextIsBall
  WalkFindsTargets
  AnswerIsOfNow
  QuietFanOutIsWhole
PROPERTIES
  StoresAreHistories
