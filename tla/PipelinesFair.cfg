SPECIFICATION PipelineSpec
CONSTANTS
  c1 = c1  q1 = q1
  Events = {e1}
  Refused = {}
  Batches = {b1}
  NoBatch = NoBatch  NoEvent = NoEvent
  MaxTroubles = 1
  MaxRetries = 1
  Contacts = {c1}
  Native = {}
  Rows = {q1, s1, s2}
  RowContact <- RowContacts
  RowType <- RowTypes
  Numbered = {s2}
  Organic = {s1}
  Legacy = {q1}
  TakenOver = {"conversation_started"}
  PageSize = 1
  Syncs = {"both"}
  MaxChanges = 1
  MaxLedgerFaults = 1
  MaxTurns = 1
  Pulls = {p1}
  Edits = {o1}
  SetDestination = "none"
  Creative = "creative_whatsapp"
  CampaignBudget = FALSE
  MaxUpsets = 1
  Destinations = {x}
  WholeBm = WholeBm
  NoDestination = NoDestination
  Arrivals = {a1}
  Sweepers = {w1, w2}
  MaxRouteEdits = 1
  MaxPreviewFaults = 1
  MaxAttempts = 2
  MaxStalled = 1
  MailInvites = {v1}
  MailTokens = {t1}
  MaxVersions = 2
  MaxMailFaults = 2
PROPERTIES BatchSettles    MailSettles
INVARIANT MailSafe
CHECK_DEADLOCK FALSE
