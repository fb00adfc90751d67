SPECIFICATION PlatformSpec
CONSTANTS
  k1 = k1  k2 = k2  g1 = g1  g2 = g2   d1 = d1  h1 = h1  h2 = h2  o = o
  c1 = c1  q1 = q1   x = x  y = y
  Users = {r1, r2}
  Tokens = {1, 2}
  Sessions = {s1}
  Requests = {r1, r2}
  MaxRequested = 4
  NoUser = NoUser  NoToken = NoToken  NoRequest = NoRequest
  Limit = 1
  People = {o, p}
  Owner = o
  Invites = {i1}
  Calls = {r1, r2}
  MaxCalled = 5
  NoPerson = NoPerson  NoInvite = NoInvite
  MaxLinks = 2
  Bms = {b1}
  AdAccounts = {a1}
  HomeAccount = a1
  Targets = {x, y}
  ShowsPage = TRUE
  PageHits = {x}
  PixelHits = {x, y}
  SharedPage = {}
  NoBm = NoBm  NoTarget = NoTarget
  Asks = {r1, r2}
  MaxAsked = 5
  Contacts = {c1}
  Native = {}
  Rows = {q1, q2}
  RowContact <- RowContacts
  RowType <- RowTypes
  Numbered = {}
  Organic = {}
  Legacy = {}
  TakenOver = {}
  PageSize = 1
  Syncs = {"both", "leads"}
  MaxChanges = 2
  MaxLedgerFaults = 0
  MaxTurns = 1
  MaxAttempts = 2
  MaxStalled = 1
  ReportAccounts = {h1, h2}
  Campaigns = {k1, k2}
  AdSets = {g1, g2}
  Ads = {d1}
  AccountOf <- OfAccount
  CampaignOf <- OfCampaign
  AdSetOf <- OfAdSet
  Facts = {1, 2, 3, 4, 5}
  Fact <- StoredFacts
  StatusMoves = {"skipped"}
  Period = {1, 2}
  Snapshot <- FiveEach
  PerDay <- TwoADay
  ReportAsks <- SomeAsks
  FunnelVisible = {"LeadSubmitted", "Purchase"}
  MaxPages = 2
  MaxTouches = 1
  NoOne = NoOne  NoEntity = NoEntity  Unset = Unset
  Validity = 1
  GraceWindow = 1
  GuardTtl = 1
  MinInterval = 1
  Envs <- TwoEnvs
  Activations = {"activation"}
  Writers = {r1, r2}
  MaxTime = 2
  MaxLicenseMoves = 1
  MaxBoots = 2
  MaxTries = 2
  MaxWrites = 2
  Lines = {l1}
  Phones = {"f1"}
  Settings <- TwoSettings
  WaProviders <- TwoProviders
  Replies = {"unset", "working", "qr", "stopped", "unreachable"}
  Streak = 2
  Sweeps = {w1, w2}
  MaxHour = 4
  MaxSweeps = 3
  MaxSaves = 1
  MaxLineMoves = 1
INVARIANTS AccountsSafe ReportsAgree 
 
PROPERTY MetaRoutesSafe
 
PROPERTY AlertsSafe
SYMMETRY Permuted
CHECK_DEADLOCK FALSE
