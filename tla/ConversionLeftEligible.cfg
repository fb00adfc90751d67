SPECIFICATION Spec
CONSTANTS
  e1 = e1  e2 = e2  w1 = w1  w2 = w2  o1 = o1  o2 = o2  m1 = m1  a1 = a1  a2 = a2  none = none
  Execs = {e1}
  NoExec = none
  Near = {}
  Legacy = {}
  Repeated = {}
  Workers = {w1}
  Observers = {o1}
  Maintainers = {m1}
  Operators = {a1, a2}
  FirstOutcomes = {"review"}
  Dispositions = {"eligible"}
  MaxAttempts = 2
  MaxStalled = 1
  MaxFaults = 0
  MaxRequests = 3
INVARIANT RejectedIsBlocked
CHECK_DEADLOCK FALSE
