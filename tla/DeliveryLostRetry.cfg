SPECIFICATION Spec
CONSTANTS
  Logs = {i}
  ExternalLogs = {}
  ManualLogs = {}
  TrackedLogs = {}
  NoLog = NoLog
  Workers = {w1}
  Handlers = {}
  Operators = {o1}
  Owners = {o1}
  InitialStatuses = {"ready_to_send"}
  MaxFaults = 0
  MaxRetries = 1
  MaxRuns = 1
  MaxSwitches = 0
  MaxAttempts = 3
  MaxStalled = 1
CHECK_DEADLOCK FALSE
INVARIANT ReadyIsQueued
