SPECIFICATION FairSpec
CONSTANTS
  t1 = t1
  t2 = t2
  c1 = c1
  c2 = c2
  None = None
  Threads = {t1, t2}
  Callers = {c1, c2}
  MaxCalls = 4
INVARIANTS FreedIsDone KthreadInv
PROPERTY ThreadsProgress
CHECK_DEADLOCK FALSE
