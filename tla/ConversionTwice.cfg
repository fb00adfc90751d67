SPECIFICATION Spec
CONSTANTS
  e1 = e1  e2 = e2  w1 = w1  w2 = w2  o1 = o1  o2 = o2  m1 = m1  a1 = a1  a2 = a2  none = none
  Execs = {e1, e2}
  NoExec = none
  Near <- Pair
  Legacy = {}
  Repeated = {e1, e2}
  Workers = {w1, w2}
  Observers = {o1, o2}
  Maintainers = {}
  Operators = {}
  FirstOutcomes = {"eligible"}
  Dispositions = {"eligible"}
  MaxAttempts = 2
  MaxStalled = 1
  MaxFaults = 0
  MaxRequests = 4
INVARIANT OneEventPerScope
SYMMETRY Permuted
CHECK_DEADLOCK FALSE
