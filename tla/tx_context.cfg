SPECIFICATION Spec
CONSTANTS
  s1 = s1
  s2 = s2
  s3 = s3
  c1 = c1
  c2 = c2
  None = None
  Frames = {s1, s2, s3}
  Contexts = {c1, c2}
INVARIANT NotInCaller
CHECK_DEADLOCK FALSE
