SPECIFICATION Spec
CONSTANTS
  d1 = d1  w1 = w1  w2 = w2  r1 = r1  r2 = r2  m1 = m1  m2 = m2  none = none
  Deliveries = {d1}
  NoDelivery = none
  Invalid = {}
  Eligible = {d1}
  Expiring = {d1}
  Workers = {w1, w2}
  Receivers = {r1}
  Maintainers = {m1}
  MaxAttempts = 3
  MaxStalled = 1
  MaxFaults = 0
  MaxDeferred = 1
  MaxReceipts = 1
  MaxSwitches = 0
INVARIANT EligibleTaken
CHECK_DEADLOCK FALSE
