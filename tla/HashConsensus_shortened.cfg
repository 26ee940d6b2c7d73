SPECIFICATION Spec
CONSTANTS
  a1 = a1
  a2 = a2
  a3 = a3
  h1 = h1
  h2 = h2
  p1 = p1
  p2 = p2
  Addresses = {a1, a2}
  Hashes = {h1}
  NoHash = NoHash
  Processors = {p1}
  SLOTS_PER_EPOCH = 1
  SECONDS_PER_SLOT = 1
  GENESIS_TIME = 0
  UNREACHABLE_QUORUM = 9
  FarFutureEpoch = 50
  Quorums = {1}
  FrameConfigs <- ManyFrameSizes
  InitialEpochs = {1, 2}
  InitialRefSlots = {0, 1}
  MaxTime = 4
  MaxSupport = 3
SYMMETRY Symmetry
PROPERTIES
  ProcessedWithinFrame
CHECK_DEADLOCK FALSE
