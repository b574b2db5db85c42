\* Each part within the bounds that make its interesting cases happen; some of them stop at their bounds.
SPECIFICATION ServicesSpec
CONSTANTS
  Empty = empty
  NoRecord = norecord
  Texts = {t1, t2}
  MaxJobs = 3
  WriteMayFail = TRUE
  Callers = {c1, c2, c3}
  Clients = {c1, c2}
  MaxRequests = 3
  MaxPages = 3
  Modules = {ma}
  Unroutable = {}
  Posts = {r1, r2}
  MayFail = {"stdio"}
  Slots = {s1, s2}
  CallerIds = {ca, cb}
  RequestIds = {r}
  MaxRetries = 1
  MaxEntries = 1
  MaxCreated = 3
  MaxFrames = 4
  Paths <- SomePaths
  Kind <- SomeKinds
  Listing <- SomeListing
  Segments <- SomeSegments
  Sanitized <- SomeSanitized
  Reserved <- OtherStores
  MaxFiles = 2
  FirstTexts <- ShortTexts
  LaterTexts <- LongTexts
  MaxImports = 2
  MaxChanges = 1
CHECK_DEADLOCK FALSE
INVARIANTS
  NeverStoppedMidQuery
  NothingAcceptedIsLost
  OwnAnswer
  ToolsFollowGate
  RestartKeepsSettings
  OneDocumentPerRequest
  StreamIsWhole
  ReadsAsWritten
PROPERTIES
  ChangesReachTheFile
  FileStrands
  ReleasesComplete
