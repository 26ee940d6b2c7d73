SPECIFICATION Spec
CONSTANTS
  u1 = u1
  m1 = m1
  Users = {u1}
  Modules = {m1}
  INITIAL_TOKEN_HOLDER = dead
  Treasury = treasury
  Burner = burner
  WithdrawalQueueAddress = withdrawalQueue
  NoReport = NoReport
  DEPOSIT_SIZE = 175
  InitialBalance = 200
  ModuleFees <- OneModuleFees
  TotalFee = 10
  FEE_PRECISION_POINTS = 100
  StakeAmounts = {120}
  RequestAmounts = {70}
  ShareAmounts = {30}
  StakeLimits <- NoStakeLimits
  RewardAmounts = {90}
  SweepAmounts = {50}
  CLChanges <- Changes
  MaxBlock = 4
  MaxRequests = 2
  MaxPooledAce = 380
  MaxSwitches = 1
  MaxBurnerShares = 40
  MaxVaultBalance = 90
  LIMITER_PRECISION_BASE = 100
  UNLIMITED_REBASE = 1000
  MAX_BASIS_POINTS = 10000
  SHARE_RATE_PRECISION_E27 = 10000
  YEAR = 10
  SECONDS_PER_DAY = 1
  DEFAULT_TIME_ELAPSED = 1
  DEFAULT_CL_BALANCE = 1
  MaxPositiveTokenRebase = 8
  OneOffCLBalanceDecreaseBPLimit = 2000
  AnnualBalanceIncreaseBPLimit = 10000
  ChurnValidatorsPerDayLimit = 2
  SimulatedShareRateDeviationBPLimit = 100
  RequestTimestampMargin = 1
  E27_PRECISION_BASE = 10000
  MAX_BATCHES_LENGTH = 2
INVARIANTS
  SharesAddUp
  BufferIsBacked
  HoldingsCovered
  ReportStaysValid
PROPERTIES
  NoDilution
  RebaseIsLimited
  RateKeptWithoutLoss
CHECK_DEADLOCK FALSE
