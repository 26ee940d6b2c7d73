SPECIFICATION Spec
CONSTANTS
  a1 = a1
  a2 = a2
  a3 = a3
  h1 = h1
  h2 = h2
  p1 = p1
  p2 = p2
  Addresses = {a1, a2, a3}
  Hashes = {h1, h2}
  NoHash = NoHash
  Processors = {p1}
  SLOTS_PER_EPOCH = 1
  SECONDS_PER_SLOT = 1
  GENESIS_TIME = 0
  UNREACHABLE_QUORUM = 9
  FarFutureEpoch = 50
  Quorums = {1, 2, 3}
  FrameConfigs <- OneFrameSize
  InitialEpochs = {2}
  InitialRefSlots = {0}
  MaxTime = 5
  MaxSupport = 3
SYMMETRY Symmetry
INVARIANTS
  SupportCoversVotes
  OpenSupportIsExact
  ProcessableHasQuorum
  ProcessorInSync
  FastLaneHasQuorum
PROPERTIES
  ImplementsCommittee
CHECK_DEADLOCK FALSE
