SPECIFICATION MCSpec
CONSTANTS
  me = me
  group = group
  ap1 = ap1
  ap2 = ap2
  peer = peer
  dst1 = dst1
  dst2 = dst2
  s1 = s1
  s2 = s2
  c1 = c1
  c2 = c2
  h1 = h1
  h2 = h2
  b1 = b1
  b2 = b2
  b3 = b3
  b4 = b4
  NoBss = NoBss
  None = None
  Nil = Nil
  VifAddr = me
  Group = {group}
  BSSIDs = {ap1}
  RxFrames <- SomeRxFrames
  Later <- LaterFrames
  MaxRx = 2
  RxBuffers = {20, 1500}
  FCS = TRUE
  Frames = {s1, s2}
  Contexts = {c1, c2}
  MaxStations = 2
  BandRates <- SomeBands
  Networks <- SomeNetworks
  SsidLens = {0, 32}
  Headrooms <- SomeHeadrooms
  Payloads = {0, 13, 14, 15, 1514}
  Tailrooms = {0, 64}
  Heads = {h1, h2}
  Buffers = {b1, b2, b3, b4}
INVARIANTS RxInOrder FrameHasOneHolder FramesBuilt
PROPERTIES SentIsReleased IsAList
CHECK_DEADLOCK FALSE
