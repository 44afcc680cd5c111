SPECIFICATION DSpec
CONSTANTS
  q1 = q1
  k1 = k1
  w1 = w1
  d1 = d1
  d2 = d2
  None = None
  Queues = {q1}
  Works = {w1}
  DelayedWorks = {w1}
  Clients = {c1, c2, d1, d2}
  OneShots = {d1, d2}
  SystemWq = q1
  Workers = {k1}
  FirstWorker <- WarmStart
  MaxCalls = 3
SYMMETRY Symmetry
INVARIANT DelayedTokenOwned
PROPERTIES CanceledArmNeverFires CancelLeavesNothing
CHECK_DEADLOCK FALSE
