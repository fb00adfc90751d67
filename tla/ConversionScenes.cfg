SPECIFICATION Spec
CONSTANTS
  e1 = e1  e2 = e2  w1 = w1  w2 = w2  o1 = o1  o2 = o2  m1 = m1  a1 = a1  a2 = a2  none = none
  e3 = e3
  Execs = {e1, e2, e3}
  NoExec = none
  Near <- Pair
  Legacy = {e3}
  Repeated = {e3}
  Workers = {w1, w2}
  Observers = {o1}
  Maintainers = {}
  Operators = {a1, a2}
  FirstOutcomes = {"eligible", "review", "ignored"}
  Dispositions = {"eligible", "observed", "blocked"}
  MaxAttempts = 2
  MaxStalled = 1
  MaxFaults = 1
  MaxRequests = 4
INVARIANT TypeOK
INVARIANT OneEventPerScope
INVARIANT DuplicateHasOriginal
PROPERTY EditedBeforeEvent
SYMMETRY Permuted
CHECK_DEADLOCK FALSE
ACTION_CONSTRAINT OneScene
