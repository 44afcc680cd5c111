SPECIFICATION FairSpec
CONSTANTS
  a1 = a1
  a2 = a2
  f1 = f1
  f2 = f2
  r1 = r1
  r2 = r2
  r3 = r3
  None = None
  APs = {a1, a2}
  Freqs = {f1, f2}
  FreqOf <- OwnChannels
  Requests = {r1, r2, r3}
  MaxScans = 2
INVARIANTS ConnInv ScanAgrees OnChannel
PROPERTY RequestResolved
CHECK_DEADLOCK FALSE
