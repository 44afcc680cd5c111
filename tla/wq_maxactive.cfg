SPECIFICATION Spec
CONSTANTS
  q1 = q1
  q2 = q2
  w1 = w1
  w2 = w2
  k1 = k1
  k2 = k2
  None = None
  Queues = {q1}
  Works = {w1, w2}
  DelayedWorks = {}
  Clients = {c1, c2}
  Workers = {k1, k2}
  FirstWorker <- ColdStart
  MaxCalls = 3
INVARIANT MaxActiveOne
CHECK_DEADLOCK FALSE
