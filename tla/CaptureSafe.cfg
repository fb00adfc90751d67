SPECIFICATION PathSpec
CONSTANTS
  m1 = m1  m2 = m2  c1 = c1  l1 = l1  k1 = k1
  Lines = {li1}
  Routed = {li1}
  NeedsRoute = TRUE
  Certified = TRUE
  RuleKinds = {"provider_automation", "structured_catalog"}
  LegacyEdits = FALSE
  Changers = {r1, r2}
  NoLine = NoLine
  Msgs = {m1, m2}
  MsgContact <- ContactOfMsg
  MsgAuthor <- AuthorOfMsg
  MsgLabels <- LabelsOfMsg
  Paid = {m1}
  WithAd = {m1}
  Named = {m1, m2}
  LabelUpdates = {m2}
  LegacyMatches = {m1}
  LegacyNeedsValue = FALSE
  Chats = {c1}
  SaleLabel = l1
  StoredKeys = FALSE
  Hooks = {r1, r2}
  NoMsg = NoMsg
  MaxMishaps = 1
  Attributes = 2
  MessageLines <- SomeLines
  MaxLines = 4
  Variants <- SomeVariants
  Readings <- SomeReadings
  DecisionRules <- SomeRules
  Situations <- SomeSituations
  NoQuantity = NoQuantity  Blank = Blank
  Callbacks = {k1}
  OneChannel = FALSE
  CallbackCalls = {r1, r2}
  RequestKeys = {q1, q2}
  NoCallback = NoCallback
  MaxActivations = 1
  MaxDisturbances = 1
  MaxVersions = 3
  MaxCalls = 3
  Events = {e1}
  Refused = {}
  Batches = {b1}
  NoBatch = NoBatch  NoEvent = NoEvent
  MaxTroubles = 2
  MaxRetries = 2
  MaxAttempts = 2
  MaxStalled = 1
  WrittenMessages <- SomeWritten
  Bodies <- AllBodies
  DirectBodies <- SomeDirect
  NoId = NoId  NoReading = NoReading
  MaxBodies = 2
INVARIANTS SwitchesSafe CaptureSafe  CallbacksSafe ReplaySafe 
SYMMETRY Permuted
CHECK_DEADLOCK FALSE
