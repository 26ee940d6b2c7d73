SPECIFICATION BoundedSpec
CONSTANTS
  o1 = o1
  o2 = o2
  o3 = o3
  None = None
  Owners = {o1, o2, o3}
  Amounts = {13, 60}
  Rates <- TwoRates
  Budgets = {75, 200}
  BunkerModes = {TRUE, FALSE}
  PauseArguments = {1, 99}
  PAUSE_INFINITELY = 99
  BUNKER_MODE_DISABLED_TIMESTAMP = 99
  E27_PRECISION_BASE = 100
  MAX_BATCHES_LENGTH = 2
  MaxRequests = 3
  MaxTime = 4
SYMMETRY Symmetry
INVARIANTS
  Solvent
  HintsAreFound
  OwnersConsistent
  NoStaleApproval
PROPERTIES
  ImplementsLedger
CHECK_DEADLOCK FALSE
