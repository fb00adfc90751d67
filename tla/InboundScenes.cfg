SPECIFICATION SceneSpec
CONSTANTS
  d1 = d1  w1 = w1  w2 = w2  r1 = r1  r2 = r2  m1 = m1  none = none
  Deliveries = {d1}
  NoDelivery = none
  Invalid = {}
  Eligible = {d1}
  Expiring = {d1}
  Workers = {w1, w2}
  Receivers = {r1, r2}
  Maintainers = {m1}
  MaxAttempts = 3
  MaxStalled = 1
  MaxFaults = 1
  MaxDeferred = 1
  MaxReceipts = 2
  MaxSwitches = 1
INVARIANT TypeOK
INVARIANT TakenUndisturbed
INVARIANT ObservedIsComplete
PROPERTY TerminalIsFinal
PROPERTY AcceptedSettles
PROPERTY ConversionsObserved
CHECK_DEADLOCK FALSE
