SPECIFICATION Spec
CONSTANTS
  op1 = op1
  op2 = op2
  c1 = c1
  c2 = c2
  NoHash = NoHash
  Operators = {op1, op2}
  MaxCount = 1
  ConsensusVersions = {1, 2}
  ConsensusContracts = {c1, c2}
  Deployed <- OneOrTwo
  FrameConfigOf <- TwoContracts
  LastSlots = {0, 1}
  SLOTS_PER_EPOCH = 1
  SECONDS_PER_SLOT = 1
  GENESIS_TIME = 0
  MaxTime = 9
SYMMETRY Symmetry
INVARIANTS
  NeverStalled
  ExtraDataOfReport
PROPERTIES
  CountsAreComplete
  SlotsAdvance
CHECK_DEADLOCK FALSE
