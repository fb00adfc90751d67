SPECIFICATION Spec
CONSTANTS
  Logs = {t, x}
  ExternalLogs = {x}
  ManualLogs = {}
  TrackedLogs = {t}
  NoLog = NoLog
  Workers = {w1, w2}
  Handlers = {}
  Operators = {o1, o2}
  Owners = {o1, o2}
  InitialStatuses = {"ready_to_send", "shadow_observed"}
  MaxFaults = 1
  MaxRetries = 3
  MaxRuns = 2
  MaxSwitches = 3
  MaxAttempts = 2
  MaxStalled = 1
CHECK_DEADLOCK FALSE
INVARIANTS TypeOK  AckedOnce DeliveryMirrored
  
SYMMETRY Permuted
CONSTRAINT OneLog
