------------------------------- MODULE Catalist -------------------------------
(***************************************************************************)
(* The pool and its token: users stake ace for shares, ace is buffered and *)
(* deposited for validators, and the accounting report brings the balances *)
(* of the consensus layer, collects the vaults, pays withdrawals, burns    *)
(* and mints shares (Catalist, BACE, Burner and the two vaults).           *)
(*                                                                         *)
(* Abstractions:                                                           *)
(*  - Roles and allowances are left out: any user may do what some role    *)
(*    may.  The seed is Init's ace of the initial token holder.            *)
(*  - The staking router is external: it deposits for any number of        *)
(*    validators that the depositable ace pays for, and has fixed fees.    *)
(*  - Of the withdrawal queue there are the requests and what finalize and *)
(*    onOracleReport do to them; its module is WithdrawalQueue.            *)
(*  - The oracle daemon is external: on a reference slot it takes a        *)
(*    snapshot, simulates the report without withdrawals and chooses the   *)
(*    batches.  The report is processed later, in the state of that time,  *)
(*    or not at all: the next snapshot replaces it.                        *)
(*  - The consensus layer is external: validators appear, their balance    *)
(*    changes, and part of it is swept to the withdrawal vault.  The       *)
(*    daemon reports bunker mode with every loss.                          *)
(*  - unsafeChangeDepositedValidators, the upgrade and the notice to the   *)
(*    receiver of rebases are left out.                                    *)
(***************************************************************************)
EXTENDS RequestBatches, OracleReportSanityChecker, StakeLimit

CONSTANTS
  Users, Modules,              \* accounts; modules that are paid fees
  INITIAL_TOKEN_HOLDER, Treasury, Burner, WithdrawalQueueAddress,
  NoReport,
  DEPOSIT_SIZE, InitialBalance,
  ModuleFees, TotalFee, FEE_PRECISION_POINTS,    \* of the staking router
  StakeAmounts, RequestAmounts, ShareAmounts,    \* what the users' calls name
  StakeLimits,                 \* pairs of a maximum and an increase per block
  RewardAmounts, SweepAmounts, \* ace that reaches the two vaults
  CLChanges,                   \* rewards and losses on the consensus layer
  MaxBlock,                    \* bound: the clock stops here
  MaxRequests,                 \* bound: requests in the queue
  MaxPooledAce,                \* bound: stakes and rewards stop here
  MaxBurnerShares,             \* bound: shares sent to the burner at a time
  MaxVaultBalance,             \* bound: ace that waits in a vault
  MaxSwitches                  \* bound: administrative calls

Accounts == Users \cup Modules
              \cup {INITIAL_TOKEN_HOLDER, Treasury, Burner, WithdrawalQueueAddress}

ASSUME CatalistAssumption ==
  /\ {DEPOSIT_SIZE, InitialBalance, FEE_PRECISION_POINTS} \subseteq Nat \ {0}
  /\ ModuleFees \in [Modules -> Nat] /\ TotalFee \in Nat
  /\ MapThenSumSet(LAMBDA m : ModuleFees[m], Modules) <= TotalFee
  /\ TotalFee < FEE_PRECISION_POINTS
  /\ StakeAmounts \cup ShareAmounts \cup RequestAmounts
       \cup RewardAmounts \cup SweepAmounts \subseteq Nat \ {0}
  /\ StakeLimits \subseteq Nat \X Nat /\ CLChanges \subseteq Int
  /\ IsFiniteSet(Users) /\ IsFiniteSet(Modules)
  /\ {INITIAL_TOKEN_HOLDER, Burner, WithdrawalQueueAddress} \cap Users = {}
  /\ INITIAL_TOKEN_HOLDER \notin {Burner, WithdrawalQueueAddress}
  /\ Burner # WithdrawalQueueAddress
  /\ {MaxBlock, MaxRequests, MaxPooledAce, MaxBurnerShares, MaxVaultBalance,
      MaxSwitches} \subseteq Nat

VARIABLES
  shares, totalShares,                       \* BACE
  bufferedAce, depositedValidators, clValidators, clBalance,
  isStopped, stakeLimit,                     \* Catalist
  balance,                                   \* of the contract
  burnRequested,                             \* Burner: [cover, nonCover]
  queue, lastFinalizedRequestId, lastReportTimestamp,
  bunkerMode, queuePaused,                   \* WithdrawalQueue
  withdrawalVault, elRewardsVault,           \* balances of the vaults
  block,                                     \* number and time of the block
  swept,          \* left the consensus layer after the last report's snapshot
  report,         \* the daemon's report, NoReport after it was processed
  staked,         \* history: stakes since the limit was last set
  switches        \* administrative calls so far

tokenVars  == <<shares, totalShares>>
poolVars   == <<bufferedAce, balance, depositedValidators, clValidators, clBalance>>
limitVars  == <<stakeLimit, staked>>
queueVars  == <<queue, lastFinalizedRequestId, lastReportTimestamp, bunkerMode, queuePaused>>
vaultVars  == <<withdrawalVault, elRewardsVault, swept>>
vars == <<tokenVars, poolVars, isStopped, limitVars, burnRequested, queueVars,
          vaultVars, block, report, switches>>

-----------------------------------------------------------------------------
(* BACE: shares and the ace they stand for. *)

TransientBalance == (depositedValidators - clValidators) * DEPOSIT_SIZE

TotalPooledAce == bufferedAce + clBalance + TransientBalance

(* Mutant: the shares of a stake are rounded up. *)
SharesRoundedUp(aceAmount) ==
  (aceAmount * totalShares + TotalPooledAce - 1) \div TotalPooledAce

GetSharesByPooledAce(aceAmount) == (aceAmount * totalShares) \div TotalPooledAce

(* Or SafeMath reverts the conversion of ace to shares. *)
PoolHasAce == TotalPooledAce > 0

GetPooledAceByShares(sharesAmount) == (sharesAmount * TotalPooledAce) \div totalShares

(* The shares after a transfer; to oneself it changes nothing. *)
TransferShares(from, to, sharesAmount) ==
  IF from = to THEN shares
  ELSE [shares EXCEPT ![from] = @ - sharesAmount, ![to] = @ + sharesAmount]

CanTransferShares(from, sharesAmount) == ~isStopped /\ sharesAmount <= shares[from]

Transfer(from, to, sharesAmount) ==
  /\ to = Burner => shares[Burner] + sharesAmount <= MaxBurnerShares
  /\ CanTransferShares(from, sharesAmount)
  /\ shares' = TransferShares(from, to, sharesAmount)
  /\ UNCHANGED <<totalShares, poolVars, isStopped, limitVars, burnRequested,
                 queueVars, vaultVars, block, report, switches>>

-----------------------------------------------------------------------------
(* Staking *)

NoWindow == [from |-> 0, budget |-> 0, spent |-> 0]

(* Stakes counted from a newly set limit on. *)
StartWindow(data) ==
  IF IsStakingLimitSet(data)
    THEN [from |-> block, budget |-> data.prevStakeLimit, spent |-> 0]
    ELSE NoWindow

UseStakeLimit(amount) ==
  LET current == CalculateCurrentStakeLimit(stakeLimit, block)
  IN  IF IsStakingLimitSet(stakeLimit)
        THEN /\ amount <= current                                \* STAKE_LIMIT
             /\ stakeLimit' = UpdatePrevStakeLimit(stakeLimit, current - amount, block)
             /\ staked' = [staked EXCEPT !.spent = @ + amount]
        ELSE UNCHANGED limitVars

(* submit; it does not ask whether the pool is stopped. *)
Submit(user, amount) ==
  /\ TotalPooledAce + amount <= MaxPooledAce
  /\ ~IsStakingPaused(stakeLimit)                                \* STAKING_PAUSED
  /\ PoolHasAce
  /\ UseStakeLimit(amount)
  /\ LET minted == GetSharesByPooledAce(amount)
     IN  /\ totalShares' = totalShares + minted
         /\ shares' = [shares EXCEPT ![user] = @ + minted]
  /\ bufferedAce' = bufferedAce + amount
  /\ balance' = balance + amount
  /\ UNCHANGED <<depositedValidators, clValidators, clBalance, isStopped,
                 burnRequested, queueVars, vaultVars, block, report, switches>>

UnfinalizedBACE ==
  At(queue, Len(queue)).cumulativeBACE
    - At(queue, lastFinalizedRequestId).cumulativeBACE

(* Mutant: what the queue is owed is not kept back. *)
AllBufferedAce == bufferedAce

GetDepositableAce ==
  IF bufferedAce > UnfinalizedBACE THEN bufferedAce - UnfinalizedBACE ELSE 0

CanDeposit == ~bunkerMode /\ ~isStopped

Deposit(depositsCount) ==
  /\ CanDeposit
  /\ depositsCount <= GetDepositableAce \div DEPOSIT_SIZE      \* StakingRouter
  /\ bufferedAce' = bufferedAce - depositsCount * DEPOSIT_SIZE
  /\ balance' = balance - depositsCount * DEPOSIT_SIZE
  /\ depositedValidators' = depositedValidators + depositsCount
  /\ UNCHANGED <<tokenVars, clValidators, clBalance, isStopped, limitVars,
                 burnRequested, queueVars, vaultVars, block, report, switches>>

-----------------------------------------------------------------------------
(* Withdrawal requests: WithdrawalQueue.requestWithdrawals. *)

RequestWithdrawal(user, amount) ==
  LET amountOfShares == GetSharesByPooledAce(amount)
      last           == At(queue, Len(queue))
  IN  /\ Len(queue) < MaxRequests
      /\ ~queuePaused
      /\ PoolHasAce
      /\ CanTransferShares(user, amountOfShares)
      /\ amountOfShares > 0              \* any amount above the minimum has some
      /\ shares' = TransferShares(user, WithdrawalQueueAddress, amountOfShares)
      /\ queue' = Append(queue,
           [cumulativeBACE   |-> last.cumulativeBACE + amount,
            cumulativeShares |-> last.cumulativeShares + amountOfShares,
            timestamp        |-> block,
            reportTimestamp  |-> lastReportTimestamp])
      /\ UNCHANGED <<totalShares, poolVars, isStopped, limitVars, burnRequested,
                     lastFinalizedRequestId, lastReportTimestamp, bunkerMode,
                     queuePaused, vaultVars, block, report, switches>>

-----------------------------------------------------------------------------
(* Burner *)

SharesRequestedToBurn == burnRequested.cover + burnRequested.nonCover

AddBurnRequest(requested, sharesAmount, isCover) ==
  IF isCover THEN [requested EXCEPT !.cover = @ + sharesAmount]
             ELSE [requested EXCEPT !.nonCover = @ + sharesAmount]

(* requestBurnShares, requestBurnMyBACE and those for cover *)
RequestBurn(user, sharesAmount, isCover) ==
  /\ shares[Burner] + sharesAmount <= MaxBurnerShares
  /\ CanTransferShares(user, sharesAmount)
  /\ shares' = TransferShares(user, Burner, sharesAmount)
  /\ burnRequested' = AddBurnRequest(burnRequested, sharesAmount, isCover)
  /\ UNCHANGED <<totalShares, poolVars, isStopped, limitVars, queueVars,
                 vaultVars, block, report, switches>>

(* Mutant: the requests of one kind only are subtracted. *)
ExcessOverCover ==
  IF shares[Burner] <= burnRequested.cover THEN 0
                                           ELSE shares[Burner] - burnRequested.cover

GetExcessBACEShares ==
  IF shares[Burner] <= SharesRequestedToBurn THEN 0
                                             ELSE shares[Burner] - SharesRequestedToBurn

(* transfer moves the shares of the excess as an amount of bACE. *)
RecoverExcessBACE ==
  LET excessBACE == GetPooledAceByShares(GetExcessBACEShares)
      moved      == GetSharesByPooledAce(excessBACE)
  IN  /\ excessBACE > 0
      /\ CanTransferShares(Burner, moved)
      /\ shares' = TransferShares(Burner, Treasury, moved)
      /\ UNCHANGED <<totalShares, poolVars, isStopped, limitVars, burnRequested,
                     queueVars, vaultVars, block, report, switches>>

(* Cover requests are burnt first. *)
CommitSharesToBurn(requested, sharesToBurn) ==
  LET forCover == Smaller(sharesToBurn, requested.cover)
  IN  [cover    |-> requested.cover - forCover,
       nonCover |-> requested.nonCover - (sharesToBurn - forCover)]

-----------------------------------------------------------------------------
(* The accounting report *)

SharesMintedAsFees(preTotalPooledAce, preTotalShares, totalRewards) ==
  (totalRewards * TotalFee * preTotalShares)
    \div ((preTotalPooledAce + totalRewards) * FEE_PRECISION_POINTS
            - totalRewards * TotalFee)

ModuleReward(module, minted) ==
  IF TotalFee = 0 THEN 0 ELSE (minted * ModuleFees[module]) \div TotalFee

(* Mutant: the treasury is paid its own part, rounded like the others. *)
TreasuryRewardRounded(minted) ==
  LET moduleFees == MapThenSumSet(LAMBDA m : ModuleFees[m], Modules)
  IN  IF TotalFee = 0 THEN 0 ELSE (minted * (TotalFee - moduleFees)) \div TotalFee

TreasuryReward(minted) ==
  minted - MapThenSumSet(LAMBDA m : ModuleReward(m, minted), Modules)

(* `held` after the fees were minted and paid out. *)
DistributeFee(held, minted) ==
  [account \in Accounts |->
     held[account] + (IF account \in Modules THEN ModuleReward(account, minted) ELSE 0)
                   + (IF account = Treasury THEN TreasuryReward(minted) ELSE 0)]

(* `held` after the finalized requests' shares went to the burner and it   *)
(* burnt some.                                                             *)
SharesAfterBurn(held, fromQueue, sharesToBurn) ==
  [held EXCEPT ![WithdrawalQueueAddress] = @ - fromQueue,
               ![Burner] = @ + fromQueue - sharesToBurn]

Finalizes(r) == r.batches # <<>> /\ ~queuePaused

AceToLock(r) ==
  IF Finalizes(r) THEN Prefinalize(queue, lastFinalizedRequestId, r.batches, r.simulatedShareRate)
                  ELSE 0

SharesToBurnFromQueue(r) ==
  IF Finalizes(r) THEN CalcBatch(queue, lastFinalizedRequestId, Last(r.batches)).shares
                  ELSE 0

PreCLBalance(r) == clBalance + (r.clValidators - clValidators) * DEPOSIT_SIZE

(* Mutant: what comes from the withdrawal vault is not counted. *)
BufferWithoutWithdrawals(elRewards, withdrawals, lock) ==
  bufferedAce + elRewards - lock

PostBufferedAce(elRewards, withdrawals, lock) ==
  bufferedAce + elRewards + withdrawals - lock

(* What the report comes to in the present state. *)
Outcome(r) ==
  LET lock      == AceToLock(r)
      fromQueue == SharesToBurnFromQueue(r)
      smooth    == SmoothenTokenRebase(TotalPooledAce, totalShares, PreCLBalance(r),
                                       r, lock, fromQueue)
      clRewards == r.clBalance + smooth.withdrawals - PreCLBalance(r)
      fees      == IF clRewards > 0
                     THEN SharesMintedAsFees(TotalPooledAce, totalShares,
                                             clRewards + smooth.elRewards)
                     ELSE 0
      buffered  == PostBufferedAce(smooth.elRewards, smooth.withdrawals, lock)
  IN  [lock |-> lock, fromQueue |-> fromQueue, smooth |-> smooth, fees |-> fees,
       bufferedAce        |-> buffered,
       postTotalPooledAce |-> buffered + r.clBalance
                                + (depositedValidators - r.clValidators) * DEPOSIT_SIZE,
       postTotalShares    |-> totalShares - smooth.sharesToBurn + fees]

(* Every require on the way but the last, the one of the share rate. *)
PassesChecks(r, o) ==
  /\ r.timestamp <= block                            \* INVALID_REPORT_TIMESTAMP
  /\ r.clValidators <= depositedValidators           \* REPORTED_MORE_DEPOSITED
  /\ r.clValidators >= clValidators                  \* REPORTED_LESS_VALIDATORS
  /\ CheckAccountingOracleReport(r.timestamp - lastReportTimestamp, PreCLBalance(r),
       clValidators, r,
       [withdrawalVaultBalance |-> withdrawalVault, elRewardsVaultBalance |-> elRewardsVault,
        sharesRequestedToBurn |-> SharesRequestedToBurn])
  /\ Finalizes(r) =>
       /\ CheckWithdrawalQueueOracleReport(queue[Last(r.batches)].timestamp, r.timestamp)
       /\ CanPrefinalize(queue, lastFinalizedRequestId, r.batches, r.simulatedShareRate)
       /\ o.lock <= CalcBatch(queue, lastFinalizedRequestId, Last(r.batches)).bACE
  /\ o.lock > 0 => ~queuePaused                       \* finalize: ResumedExpected
  /\ o.fromQueue <= shares[WithdrawalQueueAddress]   \* BALANCE_EXCEEDED
  /\ o.smooth.accepted
  /\ o.bufferedAce >= 0                              \* SafeMath
  /\ o.smooth.sharesToBurn <= SharesRequestedToBurn + o.fromQueue
                                                     \* BurnAmountExceedsActual
  /\ o.smooth.sharesToBurn <= shares[Burner] + o.fromQueue
                                                     \* BALANCE_EXCEEDED

PassesShareRateCheck(r, o) ==
  r.batches # <<>> =>
    CheckSimulatedShareRate(o.postTotalPooledAce, o.postTotalShares, o.lock,
      o.smooth.sharesToBurn - o.smooth.simulatedSharesToBurn, r.simulatedShareRate)

(* AccountingOracle calls onOracleReport and then handleOracleReport. *)
HandleOracleReport ==
  /\ report # NoReport /\ ~isStopped
  /\ report.timestamp < block                         \* InvalidReportTimestamp
  /\ LET o == Outcome(report)
     IN  /\ PassesChecks(report, o) /\ PassesShareRateCheck(report, o)
         /\ clValidators' = report.clValidators
         /\ clBalance' = report.clBalance
         /\ bufferedAce' = o.bufferedAce
         /\ balance' = balance + Smaller(o.smooth.elRewards, elRewardsVault)
                               + o.smooth.withdrawals - o.lock
         /\ elRewardsVault' = elRewardsVault - Smaller(o.smooth.elRewards, elRewardsVault)
         /\ withdrawalVault' = withdrawalVault - o.smooth.withdrawals
         /\ swept' = swept - report.swept
         /\ lastFinalizedRequestId' =
              IF o.lock > 0 THEN Last(report.batches) ELSE lastFinalizedRequestId
         /\ burnRequested' =
              CommitSharesToBurn(AddBurnRequest(burnRequested, o.fromQueue, FALSE),
                                 o.smooth.sharesToBurn)
         /\ shares' = DistributeFee(SharesAfterBurn(shares, o.fromQueue,
                                                    o.smooth.sharesToBurn), o.fees)
         /\ totalShares' = o.postTotalShares
  /\ lastReportTimestamp' = report.timestamp
  /\ bunkerMode' = report.bunkerMode
  /\ report' = NoReport
  /\ UNCHANGED <<depositedValidators, isStopped, limitVars, queue, queuePaused,
                 block, switches>>

-----------------------------------------------------------------------------
(* The oracle daemon and the consensus layer *)

SimulatedShareRate(r) ==
  (Outcome(r).postTotalPooledAce * SHARE_RATE_PRECISION_E27)
    \div Outcome(r).postTotalShares

(* The batches the ace of the pool pays for after the simulated report. *)
FinalizationBatchesOf(r, rate) ==
  CalculateFinalizationBatches(queue, lastFinalizedRequestId, rate,
    block - RequestTimestampMargin, MaxRequests,
    [remainingAceBudget |-> Outcome(r).bufferedAce, batches |-> <<>>]).batches

TakeSnapshot ==
  /\ ~isStopped                        \* or the simulation is refused
  /\ block > lastReportTimestamp
  /\ report # NoReport => report.timestamp < block
  /\ \E validators \in clValidators .. depositedValidators,
        change \in CLChanges :
       LET postCLBalance == clBalance + (validators - clValidators) * DEPOSIT_SIZE
                              - swept + change
           simulated == [timestamp |-> block, clValidators |-> validators,
                         clBalance |-> postCLBalance, swept |-> swept,
                         withdrawalVaultBalance |-> withdrawalVault,
                         elRewardsVaultBalance  |-> elRewardsVault,
                         sharesRequestedToBurn  |-> SharesRequestedToBurn,
                         batches |-> <<>>, simulatedShareRate |-> 0,
                         bunkerMode |-> change < 0]
           rate == SimulatedShareRate(simulated)
       IN  /\ postCLBalance >= 0
           /\ PassesChecks(simulated, Outcome(simulated))
           /\ report' = [simulated EXCEPT
                           !.batches = FinalizationBatchesOf(simulated, rate),
                           !.simulatedShareRate = rate]
  /\ UNCHANGED <<tokenVars, poolVars, isStopped, limitVars, burnRequested,
                 queueVars, vaultVars, block, switches>>

ReceiveELRewards(amount) ==
  /\ elRewardsVault + amount <= MaxVaultBalance
  /\ elRewardsVault' = elRewardsVault + amount
  /\ UNCHANGED <<tokenVars, poolVars, isStopped, limitVars, burnRequested, queueVars,
                 withdrawalVault, swept, block, report, switches>>

Sweep(amount) ==
  /\ withdrawalVault + amount <= MaxVaultBalance
  /\ swept + amount <= clBalance
  /\ withdrawalVault' = withdrawalVault + amount
  /\ swept' = swept + amount
  /\ UNCHANGED <<tokenVars, poolVars, isStopped, limitVars, burnRequested, queueVars,
                 elRewardsVault, block, report, switches>>

NextBlock ==
  /\ block < MaxBlock
  /\ block' = block + 1
  /\ UNCHANGED <<tokenVars, poolVars, isStopped, limitVars, burnRequested, queueVars,
                 vaultVars, report, switches>>

-----------------------------------------------------------------------------
(* Administration *)

PauseStaking ==
  /\ stakeLimit' = SetStakeLimitPauseState(stakeLimit, TRUE, block)
  /\ UNCHANGED <<isStopped, staked, queuePaused>>

(* It does not ask whether the pool is stopped. *)
ResumeStaking ==
  /\ stakeLimit' = SetStakeLimitPauseState(stakeLimit, FALSE, block)
  /\ UNCHANGED <<isStopped, staked, queuePaused>>

Stop ==
  /\ ~isStopped
  /\ isStopped' = TRUE
  /\ stakeLimit' = SetStakeLimitPauseState(stakeLimit, TRUE, block)
  /\ UNCHANGED <<staked, queuePaused>>

Resume ==
  /\ isStopped
  /\ isStopped' = FALSE
  /\ stakeLimit' = SetStakeLimitPauseState(stakeLimit, FALSE, block)
  /\ UNCHANGED <<staked, queuePaused>>

SetStakingLimit(maxStakeLimit, increasePerBlock) ==
  /\ CanSetStakingLimit(maxStakeLimit, increasePerBlock)
  /\ stakeLimit' = SetStakingLimitOf(stakeLimit, maxStakeLimit, increasePerBlock, block)
  /\ staked' = StartWindow(stakeLimit')
  /\ UNCHANGED <<isStopped, queuePaused>>

RemoveStakingLimit ==
  /\ stakeLimit' = RemoveStakingLimitOf(stakeLimit)
  /\ staked' = NoWindow
  /\ UNCHANGED <<isStopped, queuePaused>>

(* PausableUntil of the withdrawal queue (pauseFor, resume, the end of a pause), whose
   module has its details. *)
SwitchQueue ==
  /\ queuePaused' = ~queuePaused
  /\ UNCHANGED <<isStopped, limitVars>>

Administer ==
  /\ switches < MaxSwitches
  /\ switches' = switches + 1
  /\ \/ PauseStaking \/ ResumeStaking \/ Stop \/ Resume \/ RemoveStakingLimit
     \/ SwitchQueue
     \/ \E l \in StakeLimits : SetStakingLimit(l[1], l[2])
  /\ UNCHANGED <<tokenVars, poolVars, burnRequested, queue, lastFinalizedRequestId,
                 lastReportTimestamp, bunkerMode, vaultVars, block, report>>

-----------------------------------------------------------------------------
(* initialize: the pool is stopped and staking is paused. *)
Init ==
  /\ shares = [account \in Accounts |->
                 IF account = INITIAL_TOKEN_HOLDER THEN InitialBalance ELSE 0]
  /\ totalShares = InitialBalance
  /\ bufferedAce = InitialBalance /\ balance = InitialBalance
  /\ depositedValidators = 0 /\ clValidators = 0 /\ clBalance = 0
  /\ isStopped = TRUE
  /\ stakeLimit = InitStakeLimit /\ staked = NoWindow
  /\ burnRequested = [cover |-> 0, nonCover |-> 0]
  /\ queue = <<>> /\ lastFinalizedRequestId = 0 /\ lastReportTimestamp = 0
  /\ bunkerMode = FALSE /\ queuePaused = FALSE
  /\ withdrawalVault = 0 /\ elRewardsVault = 0 /\ swept = 0
  /\ block = 1
  /\ report = NoReport
  /\ switches = 0

Next ==
  \/ \E user \in Users :
       \/ \E amount \in StakeAmounts : Submit(user, amount)
       \/ \E amount \in RequestAmounts : RequestWithdrawal(user, amount)
       \/ \E amount \in ShareAmounts :
            \/ \E to \in Users \cup {Burner} : Transfer(user, to, amount)
            \/ \E isCover \in BOOLEAN : RequestBurn(user, amount, isCover)
  \/ RecoverExcessBACE
  \/ \E depositsCount \in 1 .. (bufferedAce \div DEPOSIT_SIZE) : Deposit(depositsCount)
  \/ \E amount \in RewardAmounts : ReceiveELRewards(amount)
  \/ \E amount \in SweepAmounts : Sweep(amount)
  \/ TakeSnapshot
  \/ HandleOracleReport
  \/ NextBlock
  \/ Administer

Spec == Init /\ [][Next]_vars

-----------------------------------------------------------------------------
(* Properties *)

(* Mint, burn and transfer keep the stored total of the shares equal to    *)
(* the sum over the accounts, fees and burnt shares included.              *)
SharesAddUp ==
  totalShares = MapThenSumSet(LAMBDA account : shares[account], Accounts)

(* The contract has exactly the ace the counter of the buffer says, after  *)
(* collecting from the vaults, depositing and paying the queue; and every  *)
(* validator on the consensus layer was deposited from it, as the assert   *)
(* of _getTransientBalance requires of every conversion.                   *)
BufferIsBacked ==
  /\ balance = bufferedAce
  /\ clValidators <= depositedValidators

(* The burner holds the shares that were asked to be burnt, whose counters *)
(* a partial commit never takes below zero, and the queue those of the     *)
(* requests not finalized: neither recovering an excess nor burning part   *)
(* of the requests takes from them.                                        *)
HoldingsCovered ==
  /\ burnRequested \in [cover : Nat, nonCover : Nat]
  /\ shares[Burner] >= SharesRequestedToBurn
  /\ shares[WithdrawalQueueAddress] >=
       At(queue, Len(queue)).cumulativeShares
         - At(queue, lastFinalizedRequestId).cumulativeShares

(* Whatever users, depositors and administrators did after the daemon took *)
(* its snapshot, the report of a pool that is not stopped passes all       *)
(* checks but that of the share rate: nothing has been deposited, burnt or *)
(* finalized that it counts on.  The ace to lock may exceed the daemon's   *)
(* budget by what the locks, which are valued batch by batch, exceed the   *)
(* worth of the requests, which the budget was charged for one by one; the *)
(* two checks that what is locked is there are made without this excess.   *)
(* See BatchesAreAccepted of FinalizationBatches for that difference.      *)
ReportStaysValid ==
  report # NoReport /\ ~isStopped =>
    LET o       == Outcome(report)
        charged == MapThenSumSet(LAMBDA id : Worth(RequestOf(queue, id), report.simulatedShareRate),
                                 lastFinalizedRequestId + 1 .. Last(report.batches))
        excess  == IF Finalizes(report) THEN o.lock - charged ELSE 0
        smooth  == SmoothenTokenRebase(TotalPooledAce, totalShares, PreCLBalance(report),
                                       report, o.lock - excess, o.fromQueue)
    IN  PassesChecks(report, [o EXCEPT !.bufferedAce = @ + excess,
                                       !.smooth.accepted = smooth.accepted])

(* No call but the report lowers the ace behind a share.                   *)
NoDilution ==
  [][report' # NoReport \/ report = NoReport =>
       TotalPooledAce' * totalShares >= TotalPooledAce * totalShares']_vars

(* A report raises the rate of ace to shares by at most the limit and one  *)
(* unit of its precision, whatever the vaults hold and however much is to  *)
(* be burnt; rewards of the consensus layer above the limit are not        *)
(* smoothed and do not count.  A pool without ace has no limit, nor has    *)
(* one whose limit is set to the greatest number.                          *)
RebaseIsLimited ==
  [][/\ report # NoReport /\ report' = NoReport
     /\ PoolHasAce /\ MaxPositiveTokenRebase # UNLIMITED_REBASE
     => LET limit  == (MaxPositiveTokenRebase * TotalPooledAce) \div LIMITER_PRECISION_BASE
            reward == report.clBalance - PreCLBalance(report)
            above  == IF reward > limit THEN reward - limit ELSE 0
        IN  (TotalPooledAce' - above) * totalShares * LIMITER_PRECISION_BASE
              <= totalShares' * TotalPooledAce
                   * (LIMITER_PRECISION_BASE + MaxPositiveTokenRebase)
                + totalShares * TotalPooledAce]_vars

(* A report by which the consensus layer lost nothing does not lower the   *)
(* rate of ace to shares, though it pays withdrawals at a rate simulated   *)
(* before later stakes took their part of the rewards, mints fees and may  *)
(* put off burning.                                                        *)
RateKeptWithoutLoss ==
  [][/\ report # NoReport /\ report' = NoReport
     /\ report.clBalance + Outcome(report).smooth.withdrawals >= PreCLBalance(report)
     => TotalPooledAce' * totalShares >= TotalPooledAce * totalShares']_vars

(* Since the limit was set no more was staked than it allowed at first and *)
(* grew by in the blocks since, over any pauses.                           *)
StakingIsLimited ==
  IsStakingLimitSet(stakeLimit) =>
    staked.spent <= staked.budget
                      + (block - staked.from) * StakeLimitIncPerBlock(stakeLimit)
=============================================================================
