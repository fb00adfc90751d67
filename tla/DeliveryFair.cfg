SPECIFICATION FairSpec
CONSTANTS
  Logs = {i, m}
  ExternalLogs = {}
  ManualLogs = {m}
  TrackedLogs = {}
  NoLog = NoLog
  Workers = {w1, w2}
  Handlers = {h}
  Operators = {}
  Owners = {}
  InitialStatuses = {"ready_to_send", "pending_value", "pending_meta_context", "not_eligible", "shadow_observed", "skipped"}
  MaxFaults = 1
  MaxRetries = 0
  MaxRuns = 3
  MaxSwitches = 0
  MaxAttempts = 3
  MaxStalled = 1
CHECK_DEADLOCK FALSE
INVARIANT ReadyIsQueued
PROPERTY ReadyIsSettled
