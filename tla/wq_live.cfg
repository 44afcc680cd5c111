SPECIFICATION FairSpec
CONSTANTS
  q1 = q1
  q2 = q2
  w1 = w1
  w2 = w2
  k1 = k1
  k2 = k2
  None = None
  Queues = {q1}
  Works = {w1, w2}
  DelayedWorks = {w2}
  Clients = {c1, c2}
  Workers = {k1}
  FirstWorker <- WarmStart
  MaxCalls = 3
INVARIANT RunningBitCovers
PROPERTIES CallsReturn ImplementsContract
CHECK_DEADLOCK FALSE
