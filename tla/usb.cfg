SPECIFICATION FairSpec
CONSTANTS
  e1 = e1
  u1 = u1
  u2 = u2
  None = None
  Urbs = {u1, u2}
  Endpoints = {e1}
  PipeMaps <- OneOrTwo
  ZlpUrbs = {u1}
  Callers = {t1}
  Completers = {c1, c2}
  MaxSubmits = 3
INVARIANTS PipeServed RefsExact SubmittedHasOnePlace ZlpBeforeSuccess
PROPERTIES KilledStaysQuiet SubmissionEnds
CHECK_DEADLOCK FALSE
