SPECIFICATION Spec
CONSTANTS
  E27_PRECISION_BASE = 100
  MAX_BATCHES_LENGTH = 2
  Amounts = {13, 60}
  Rates <- SmallRates
  MaxRequests = 4
  MaxReport = 2
  Budgets = {186}
  MaxPerCall = 2
INVARIANTS
  LockedWithinBudget
CHECK_DEADLOCK FALSE
