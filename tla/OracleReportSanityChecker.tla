----------------------- MODULE OracleReportSanityChecker -----------------------
(***************************************************************************)
(* The checks an accounting report must pass and the smoothing of what it  *)
(* adds to the pool (OracleReportSanityChecker.sol).  The limits are       *)
(* constants: changing them is an act of governance that is left out.      *)
(***************************************************************************)
EXTENDS RebaseLimiter

CONSTANTS
  MAX_BASIS_POINTS, SHARE_RATE_PRECISION_E27,
  YEAR, SECONDS_PER_DAY,             \* 365 days and 1 day, in units of time
  DEFAULT_TIME_ELAPSED, DEFAULT_CL_BALANCE,
  MaxPositiveTokenRebase, OneOffCLBalanceDecreaseBPLimit,
  AnnualBalanceIncreaseBPLimit, ChurnValidatorsPerDayLimit,
  SimulatedShareRateDeviationBPLimit, RequestTimestampMargin

ASSUME LimitsAssumption ==
  /\ {MAX_BASIS_POINTS, SHARE_RATE_PRECISION_E27, YEAR, SECONDS_PER_DAY,
      DEFAULT_TIME_ELAPSED, DEFAULT_CL_BALANCE} \subseteq Nat \ {0}
  /\ MaxPositiveTokenRebase \in 1 .. UNLIMITED_REBASE
  /\ {OneOffCLBalanceDecreaseBPLimit, AnnualBalanceIncreaseBPLimit,
      SimulatedShareRateDeviationBPLimit} \subseteq 0 .. MAX_BASIS_POINTS
  /\ ChurnValidatorsPerDayLimit \in Nat /\ RequestTimestampMargin \in Nat

CheckOneOffCLBalanceDecrease(preCLBalance, unifiedPostCLBalance) ==
  preCLBalance > unifiedPostCLBalance =>
    (MAX_BASIS_POINTS * (preCLBalance - unifiedPostCLBalance)) \div preCLBalance
      <= OneOffCLBalanceDecreaseBPLimit

CheckAnnualBalancesIncrease(preCLBalance, postCLBalance, timeElapsed) ==
  LET pre  == IF preCLBalance = 0 THEN DEFAULT_CL_BALANCE ELSE preCLBalance
      time == IF timeElapsed = 0 THEN DEFAULT_TIME_ELAPSED ELSE timeElapsed
  IN  pre < postCLBalance =>
        ((YEAR * MAX_BASIS_POINTS * (postCLBalance - pre)) \div pre) \div time
          <= AnnualBalanceIncreaseBPLimit

CheckAppearedValidatorsChurnLimit(appeared, timeElapsed) ==
  LET time == IF timeElapsed = 0 THEN DEFAULT_TIME_ELAPSED ELSE timeElapsed
  IN  appeared <= (ChurnValidatorsPerDayLimit * time) \div SECONDS_PER_DAY

(* `reported` is the report, `actual` the balances of the two vaults and   *)
(* the shares requested to burn when the report is processed.              *)
CheckAccountingOracleReport(timeElapsed, preCLBalance, preCLValidators, reported, actual) ==
  /\ reported.withdrawalVaultBalance <= actual.withdrawalVaultBalance
  /\ reported.elRewardsVaultBalance <= actual.elRewardsVaultBalance
  /\ reported.sharesRequestedToBurn <= actual.sharesRequestedToBurn
  /\ CheckOneOffCLBalanceDecrease(preCLBalance,
       reported.clBalance + reported.withdrawalVaultBalance)
  /\ CheckAnnualBalancesIncrease(preCLBalance, reported.clBalance, timeElapsed)
  /\ reported.clValidators > preCLValidators =>
       CheckAppearedValidatorsChurnLimit(reported.clValidators - preCLValidators, timeElapsed)

CheckWithdrawalQueueOracleReport(requestTimestamp, reportTimestamp) ==
  reportTimestamp >= requestTimestamp + RequestTimestampMargin

(* The rate as if no withdrawal had been finalized. *)
CheckSimulatedShareRate(postAce, postShares, aceLocked, sharesBurnt, simulatedShareRate) ==
  LET actual == ((postAce + aceLocked) * SHARE_RATE_PRECISION_E27)
                  \div (postShares + sharesBurnt)
      diff   == IF actual >= simulatedShareRate THEN actual - simulatedShareRate
                                                ELSE simulatedShareRate - actual
  IN  /\ actual # 0
      /\ (MAX_BASIS_POINTS * diff) \div actual <= SimulatedShareRateDeviationBPLimit

-----------------------------------------------------------------------------
(* smoothenTokenRebase: the limiter after the balance of the consensus     *)
(* layer, the withdrawals and the rewards, and the locked ace.             *)

LimiterAfterCL(preTotalPooledAce, preTotalShares, preCLBalance, postCLBalance) ==
  LET start == InitLimiterState(MaxPositiveTokenRebase, preTotalPooledAce, preTotalShares)
  IN  IF postCLBalance < preCLBalance
        THEN DecreaseAce(start, preCLBalance - postCLBalance)
        ELSE IncreaseAce(start, postCLBalance - preCLBalance)

SmoothenTokenRebase(preAce, preShares, preCLBalance, reported, aceToLock, newSharesToBurn) ==
  LET cl      == LimiterAfterCL(preAce, preShares, preCLBalance, reported.clBalance)
      vault   == IncreaseAce(cl, reported.withdrawalVaultBalance)
      rewards == IncreaseAce(vault, reported.elRewardsVaultBalance)
      locked  == DecreaseAce(rewards, aceToLock)
  IN  [withdrawals |-> Consumed(cl, reported.withdrawalVaultBalance),
       elRewards   |-> Consumed(vault, reported.elRewardsVaultBalance),
       simulatedSharesToBurn |->
         Smaller(GetSharesToBurnLimit(rewards), reported.sharesRequestedToBurn),
       sharesToBurn |->
         Smaller(GetSharesToBurnLimit(locked),
                 newSharesToBurn + reported.sharesRequestedToBurn),
       accepted |->                                 \* NegativeTotalPooledAce
         /\ reported.clBalance < preCLBalance =>
              CanDecreaseAce(InitLimiterState(MaxPositiveTokenRebase, preAce, preShares),
                             preCLBalance - reported.clBalance)
         /\ CanDecreaseAce(rewards, aceToLock)]
=============================================================================
