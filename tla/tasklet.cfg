SPECIFICATION KindSpec
CONSTANTS
  k1 = k1
  k2 = k2
  k3 = k3
  c1 = c1
  c2 = c2
  None = None
  Workers = {k1, k2, k3}
  Callers = {c1, c2}
  MaxCalls = 4
  Tasks = {k1, k2}
  Armers = {c1, c2}
  MaxArms = 3
  MaxDels = 1
INVARIANTS TaskletInv MutualExclusion KillQuiet DeletedQuiet
PROPERTIES ScheduledRuns ArmedFires
CHECK_DEADLOCK FALSE
