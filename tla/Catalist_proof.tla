---------------------------- MODULE Catalist_proof ----------------------------
(***************************************************************************)
(* Machine-checked proofs about the pool, for every value of its           *)
(* constants.                                                              *)
(*                                                                         *)
(* First the limit on stakes, over pauses, stops and changes of the limit. *)
(* The invariant is about what the limit still admits: stakes so far and   *)
(* the limit left at the last update do not exceed the first limit and its *)
(* growth up to that update, and up to the present block while staking is  *)
(* paused, as the block of the update is lost then.                        *)
(*                                                                         *)
(* Then shares and ace: PoolInv holds what an accounting report needs to   *)
(* stay sound whatever was called since its snapshot.  From it follow that *)
(* the accounts add up, that the buffer covers the ace of requests, that   *)
(* the queue and the burner hold the shares they account for, that no call *)
(* of a user dilutes the others, and that a report raises the rate at most *)
(* by the limit.                                                           *)
(*                                                                         *)
(* Last what happens between a report's snapshot and its processing:       *)
(* SnapshotOK holds what the snapshot counts on, and the report still      *)
(* passes the checks as long as that holds.                                *)
(***************************************************************************)
EXTENDS Catalist, Sums_proof, SequenceTheorems

LimitTypeOK ==
  /\ block \in Nat
  /\ stakeLimit \in StakeLimitData
  /\ staked \in [from : Nat, budget : Nat, spent : Nat]

(* The block up to which the limit has grown. *)
Updated == IF IsStakingPaused(stakeLimit) THEN block ELSE stakeLimit.prevStakeBlockNumber

LimitAccounted ==
  /\ staked.from <= Updated /\ Updated <= block
  /\ staked.spent + stakeLimit.prevStakeLimit
       <= staked.budget + (Updated - staked.from) * StakeLimitIncPerBlock(stakeLimit)

LimitInv ==
  LimitTypeOK /\ Updated <= block /\ (IsStakingLimitSet(stakeLimit) => LimitAccounted)

-----------------------------------------------------------------------------
(* Arithmetic *)

(* Growth is additive and monotone in the blocks. *)
LEMMA Growth ==
  ASSUME NEW from \in Nat, NEW to \in Nat, NEW now \in Nat, NEW inc \in Nat,
         from <= to, to <= now
  PROVE  /\ (to - from) * inc + (now - to) * inc = (now - from) * inc
         /\ (now - to) * inc \in Nat /\ (to - from) * inc \in Nat
<1>1. PICK a \in Nat, b \in Nat : to = from + a /\ now = to + b
  <2>1. to - from \in Nat /\ now - to \in Nat
    OBVIOUS
  <2> QED BY <2>1
<1>2. to - from = a /\ now - to = b /\ now - from = a + b
  BY <1>1
<1>3. a * inc + b * inc = (a + b) * inc /\ a * inc \in Nat /\ b * inc \in Nat
  OBVIOUS
<1> QED BY <1>2, <1>3

(* The increase per block of a limit is a natural number. *)
LEMMA IncIsNat ==
  ASSUME NEW data \in StakeLimitData
  PROVE  StakeLimitIncPerBlock(data) \in Nat
BY DEF StakeLimitIncPerBlock, StakeLimitData

(* The structures that the functions of StakeLimitUtils return. *)
LEMMA LimitTypes ==
  ASSUME NEW data \in StakeLimitData, NEW now \in Nat, NEW paused \in BOOLEAN
  PROVE  /\ SetStakeLimitPauseState(data, paused, now) \in StakeLimitData
         /\ RemoveStakingLimitOf(data) \in StakeLimitData
         /\ \A new \in Nat : UpdatePrevStakeLimit(data, new, now) \in StakeLimitData
<1>1. SetStakeLimitPauseState(data, paused, now) \in StakeLimitData
  BY DEF StakeLimitData, SetStakeLimitPauseState
<1>2. RemoveStakingLimitOf(data) \in StakeLimitData
  BY DEF StakeLimitData, RemoveStakingLimitOf
<1>3. \A new \in Nat : UpdatePrevStakeLimit(data, new, now) \in StakeLimitData
  BY DEF StakeLimitData, UpdatePrevStakeLimit
<1> QED BY <1>1, <1>2, <1>3

(* What a newly set limit admits is what it is recorded with. *)
LEMMA LimitSet ==
  ASSUME NEW data \in StakeLimitData, NEW now \in Nat, NEW max \in Nat, NEW inc \in Nat
  PROVE  /\ SetStakingLimitOf(data, max, inc, now) \in StakeLimitData
         /\ SetStakingLimitOf(data, max, inc, now).prevStakeBlockNumber \in {0, now}
<1> DEFINE growth == IF inc = 0 THEN 0 ELSE max \div inc
<1>1. growth \in Nat
  OBVIOUS
<1> QED BY <1>1 DEF StakeLimitData, SetStakingLimitOf, IsStakingPaused

(* The limit of a block is at most the last one and the growth since.      *)
LEMMA CurrentLimit ==
  ASSUME NEW data \in StakeLimitData, NEW now \in Nat, data.prevStakeBlockNumber <= now
  PROVE  /\ CalculateCurrentStakeLimit(data, now) \in Nat
         /\ CalculateCurrentStakeLimit(data, now)
              <= data.prevStakeLimit
                   + (now - data.prevStakeBlockNumber) * StakeLimitIncPerBlock(data)
<1> DEFINE last == data.prevStakeBlockNumber
           inc  == StakeLimitIncPerBlock(data)
<1>1. last \in Nat /\ inc \in Nat /\ data.prevStakeLimit \in Nat /\ data.maxStakeLimit \in Nat
  BY IncIsNat DEF StakeLimitData
<1>2. (now - last) * inc \in Nat
  BY <1>1, Growth
<1> HIDE DEF inc
<1> QED BY <1>1, <1>2 DEF CalculateCurrentStakeLimit, inc

-----------------------------------------------------------------------------
(* The actions *)

LEMMA SubmitLimit ==
  ASSUME LimitInv, NEW user, NEW amount \in Nat, Submit(user, amount)
  PROVE  LimitInv'
<1> DEFINE current == CalculateCurrentStakeLimit(stakeLimit, block)
           last    == stakeLimit.prevStakeBlockNumber
           inc     == StakeLimitIncPerBlock(stakeLimit)
<1>1. block' = block /\ ~IsStakingPaused(stakeLimit) /\ UseStakeLimit(amount)
  BY DEF Submit
<1>2. CASE ~IsStakingLimitSet(stakeLimit)
  BY <1>1, <1>2 DEF UseStakeLimit, limitVars, LimitInv, LimitTypeOK, Updated
<1>3. CASE IsStakingLimitSet(stakeLimit)
  <2>1. /\ amount <= current
        /\ stakeLimit' = UpdatePrevStakeLimit(stakeLimit, current - amount, block)
        /\ staked' = [staked EXCEPT !.spent = @ + amount]
    BY <1>1, <1>3 DEF UseStakeLimit
  <2>2. /\ stakeLimit \in StakeLimitData /\ block \in Nat
        /\ staked \in [from : Nat, budget : Nat, spent : Nat]
        /\ Updated = last /\ last <= block /\ LimitAccounted
        /\ last \in Nat /\ stakeLimit.prevStakeLimit \in Nat
        /\ inc \in Nat
    BY <1>1, <1>3, IncIsNat DEF LimitInv, LimitTypeOK, Updated, StakeLimitData
  <2>3. current \in Nat /\ current <= stakeLimit.prevStakeLimit + (block - last) * inc
    BY <2>2, CurrentLimit
  <2>4. current - amount \in Nat
    BY <2>1, <2>3
  <2>5. stakeLimit' \in StakeLimitData
    BY <2>1, <2>2, <2>4, LimitTypes
  <2>6. /\ stakeLimit'.prevStakeLimit = current - amount
        /\ stakeLimit'.prevStakeBlockNumber = block
        /\ StakeLimitIncPerBlock(stakeLimit') = inc
    BY <2>1, <2>2 DEF UpdatePrevStakeLimit, StakeLimitData, StakeLimitIncPerBlock
  <2>7. staked'.spent = staked.spent + amount /\ staked'.from = staked.from
        /\ staked'.budget = staked.budget
        /\ staked' \in [from : Nat, budget : Nat, spent : Nat]
    BY <2>1, <2>2
  <2>8. Updated' = block
    BY <1>1, <2>6 DEF Updated, IsStakingPaused
  <2>9. staked.from <= last
        /\ staked.spent + stakeLimit.prevStakeLimit <= staked.budget + (last - staked.from) * inc
    BY <2>2 DEF LimitAccounted
  <2>10. /\ (last - staked.from) * inc + (block - last) * inc = (block - staked.from) * inc
         /\ (block - last) * inc \in Nat /\ (last - staked.from) * inc \in Nat
    <3>1. staked.from \in Nat
      BY <2>2
    <3> QED BY <2>2, <2>9, <3>1, Growth
  <2>11. staked.spent + amount + (current - amount)
           <= staked.budget + (block - staked.from) * inc
    <3> HIDE DEF inc, current, last
    <3> QED BY <2>2, <2>3, <2>9, <2>10
  <2> QED
    BY <1>1, <2>2, <2>5, <2>6, <2>7, <2>8, <2>9, <2>11
       DEF LimitInv, LimitTypeOK, LimitAccounted
<1> QED BY <1>2, <1>3

(* Time passes for a limit that was updated, and for one that is paused.   *)
LEMMA NextBlockLimit ==
  ASSUME LimitInv, NextBlock
  PROVE  LimitInv'
<1> DEFINE inc == StakeLimitIncPerBlock(stakeLimit)
<1>1. block' = block + 1 /\ stakeLimit' = stakeLimit /\ staked' = staked
  BY DEF NextBlock, limitVars
<1>2. /\ LimitTypeOK' /\ block \in Nat /\ stakeLimit \in StakeLimitData /\ Updated <= block
      /\ staked \in [from : Nat, budget : Nat, spent : Nat]
  BY <1>1 DEF LimitInv, LimitTypeOK
<1>3. Updated \in Nat /\ Updated' \in Nat /\ Updated <= Updated' /\ Updated' <= block'
  BY <1>1, <1>2 DEF Updated, IsStakingPaused, StakeLimitData
<1>4. CASE IsStakingLimitSet(stakeLimit)
  <2>1. inc \in Nat /\ staked.from \in Nat /\ staked.from <= Updated
    BY <1>2, <1>4, IncIsNat DEF LimitInv, LimitAccounted
  <2>2. /\ (Updated - staked.from) * inc <= (Updated' - staked.from) * inc
        /\ (Updated - staked.from) * inc \in Nat /\ (Updated' - staked.from) * inc \in Nat
    <3> HIDE DEF inc
    <3>1. /\ (Updated - staked.from) * inc + (Updated' - Updated) * inc
               = (Updated' - staked.from) * inc
          /\ (Updated' - Updated) * inc \in Nat /\ (Updated - staked.from) * inc \in Nat
      BY <2>1, <1>3, Growth
    <3> QED BY <3>1
  <2>3. staked.spent + stakeLimit.prevStakeLimit <= staked.budget + (Updated - staked.from) * inc
    BY <1>4 DEF LimitInv, LimitAccounted
  <2>4. staked.spent \in Nat /\ staked.budget \in Nat /\ stakeLimit.prevStakeLimit \in Nat
    BY <1>2 DEF StakeLimitData
  <2>5. staked.spent + stakeLimit.prevStakeLimit <= staked.budget + (Updated' - staked.from) * inc
    <3> HIDE DEF inc
    <3> QED BY <2>2, <2>3, <2>4
  <2>6. staked.from <= Updated'
    BY <2>1, <1>3
  <2>7. LimitAccounted'
    BY <1>1, <1>3, <2>5, <2>6 DEF LimitAccounted
  <2> QED BY <1>2, <1>3, <2>7 DEF LimitInv
<1>5. CASE ~IsStakingLimitSet(stakeLimit)
  BY <1>1, <1>2, <1>3, <1>5 DEF LimitInv
<1> QED BY <1>4, <1>5

(* A pause forgets the block of the last update, and its end sets the      *)
(* block anew without growth: neither admits more.                         *)
LEMMA PauseLimit ==
  ASSUME LimitInv, NEW paused \in BOOLEAN,
         stakeLimit' = SetStakeLimitPauseState(stakeLimit, paused, block),
         UNCHANGED <<staked, block>>
  PROVE  LimitInv'
<1> DEFINE inc == StakeLimitIncPerBlock(stakeLimit)
<1>1. /\ block \in Nat /\ stakeLimit \in StakeLimitData /\ Updated <= block
      /\ staked \in [from : Nat, budget : Nat, spent : Nat]
  BY DEF LimitInv, LimitTypeOK
<1>2. LimitTypeOK'
  BY <1>1, LimitTypes DEF LimitTypeOK
<1>3. /\ stakeLimit'.prevStakeBlockNumber = IF paused THEN 0 ELSE block
      /\ stakeLimit'.prevStakeLimit = stakeLimit.prevStakeLimit
      /\ stakeLimit'.maxStakeLimit = stakeLimit.maxStakeLimit
      /\ StakeLimitIncPerBlock(stakeLimit') = inc
  BY <1>1 DEF SetStakeLimitPauseState, StakeLimitData, StakeLimitIncPerBlock
<1>4. Updated \in Nat /\ Updated' = block
  BY <1>1, <1>3 DEF Updated, IsStakingPaused, StakeLimitData
<1>5. CASE IsStakingLimitSet(stakeLimit)
  <2>1. inc \in Nat /\ staked.from \in Nat /\ staked.from <= Updated
    BY <1>1, <1>5, IncIsNat DEF LimitInv, LimitAccounted
  <2>2. /\ (Updated - staked.from) * inc <= (block - staked.from) * inc
        /\ (Updated - staked.from) * inc \in Nat /\ (block - staked.from) * inc \in Nat
    <3> HIDE DEF inc
    <3>1. /\ (Updated - staked.from) * inc + (block - Updated) * inc
               = (block - staked.from) * inc
          /\ (block - Updated) * inc \in Nat /\ (Updated - staked.from) * inc \in Nat
      BY <2>1, <1>1, <1>4, Growth
    <3> QED BY <3>1
  <2>3. staked.spent + stakeLimit.prevStakeLimit <= staked.budget + (Updated - staked.from) * inc
    BY <1>5 DEF LimitInv, LimitAccounted
  <2>4. staked.spent \in Nat /\ staked.budget \in Nat /\ stakeLimit.prevStakeLimit \in Nat
    BY <1>1 DEF StakeLimitData
  <2>5. staked.spent + stakeLimit.prevStakeLimit <= staked.budget + (block - staked.from) * inc
    <3> HIDE DEF inc
    <3> QED BY <2>2, <2>3, <2>4
  <2>6. staked.from <= block
    BY <2>1, <1>1, <1>4
  <2>7. LimitAccounted'
    BY <1>1, <1>3, <1>4, <2>5, <2>6 DEF LimitAccounted
  <2> QED BY <1>1, <1>2, <1>4, <2>7 DEF LimitInv
<1>6. CASE ~IsStakingLimitSet(stakeLimit)
  BY <1>1, <1>2, <1>3, <1>4, <1>6 DEF LimitInv, IsStakingLimitSet
<1> QED BY <1>5, <1>6

LEMMA SetStakingLimitLimit ==
  ASSUME LimitInv, block' = block, NEW max \in Nat, NEW inc \in Nat, SetStakingLimit(max, inc)
  PROVE  LimitInv'
<1>1. block \in Nat /\ stakeLimit \in StakeLimitData
  BY DEF LimitInv, LimitTypeOK
<1>2. /\ stakeLimit' = SetStakingLimitOf(stakeLimit, max, inc, block)
      /\ staked' = StartWindow(stakeLimit')
      /\ max # 0
  BY DEF SetStakingLimit, CanSetStakingLimit
<1>3. stakeLimit' \in StakeLimitData /\ stakeLimit'.prevStakeBlockNumber \in {0, block}
  BY <1>1, <1>2, LimitSet
<1>4. stakeLimit'.maxStakeLimit = max
  BY <1>2 DEF SetStakingLimitOf
<1>5. staked' = [from |-> block, budget |-> stakeLimit'.prevStakeLimit, spent |-> 0]
  BY <1>2, <1>4 DEF StartWindow, IsStakingLimitSet
<1>6. Updated' = block
  BY <1>3 DEF Updated, IsStakingPaused
<1>7. stakeLimit'.prevStakeLimit \in Nat /\ StakeLimitIncPerBlock(stakeLimit') \in Nat
  BY <1>3, IncIsNat DEF StakeLimitData
<1>8. (block - block) * StakeLimitIncPerBlock(stakeLimit') = 0
  BY <1>1, <1>7
<1>9. LimitTypeOK'
  BY <1>1, <1>3, <1>5, <1>7 DEF LimitTypeOK
<1>10. LimitAccounted'
  <2>1. staked'.from = block /\ staked'.spent = 0 /\ staked'.budget = stakeLimit'.prevStakeLimit
    BY <1>5
  <2> QED BY <1>1, <1>6, <1>7, <1>8, <2>1 DEF LimitAccounted
<1> QED BY <1>1, <1>6, <1>9, <1>10 DEF LimitInv

LEMMA RemoveStakingLimitLimit ==
  ASSUME LimitInv, block' = block, RemoveStakingLimit
  PROVE  LimitInv'
<1>1. block \in Nat /\ stakeLimit \in StakeLimitData /\ Updated <= block
  BY DEF LimitInv, LimitTypeOK
<1>2. stakeLimit' = RemoveStakingLimitOf(stakeLimit) /\ staked' = NoWindow
  BY DEF RemoveStakingLimit
<1>3. /\ stakeLimit' \in StakeLimitData /\ stakeLimit'.maxStakeLimit = 0
      /\ stakeLimit'.prevStakeBlockNumber = stakeLimit.prevStakeBlockNumber
  BY <1>1, <1>2, LimitTypes DEF RemoveStakingLimitOf, StakeLimitData
<1>4. LimitTypeOK' /\ (Updated <= block)'
  BY <1>1, <1>2, <1>3 DEF LimitTypeOK, NoWindow, Updated, IsStakingPaused
<1> QED BY <1>3, <1>4 DEF LimitInv, IsStakingLimitSet

LEMMA AdministerLimit ==
  ASSUME LimitInv, Administer
  PROVE  LimitInv'
<1>1. block' = block
  BY DEF Administer
<1>2. CASE PauseStaking
  BY <1>1, <1>2, PauseLimit DEF PauseStaking
<1>3. CASE ResumeStaking
  BY <1>1, <1>3, PauseLimit DEF ResumeStaking
<1>4. CASE Stop
  BY <1>1, <1>4, PauseLimit DEF Stop
<1>5. CASE Resume
  BY <1>1, <1>5, PauseLimit DEF Resume
<1>6. CASE RemoveStakingLimit
  BY <1>1, <1>6, RemoveStakingLimitLimit
<1>7. CASE SwitchQueue
  BY <1>1, <1>7 DEF SwitchQueue, limitVars, LimitInv, LimitTypeOK, LimitAccounted, Updated
<1>8. ASSUME NEW l \in StakeLimits, SetStakingLimit(l[1], l[2])
      PROVE  LimitInv'
  <2>1. l[1] \in Nat /\ l[2] \in Nat
    BY CatalistAssumption
  <2> QED BY <1>1, <1>8, <2>1, SetStakingLimitLimit
<1> QED BY <1>2, <1>3, <1>4, <1>5, <1>6, <1>7, <1>8 DEF Administer

-----------------------------------------------------------------------------
(* The theorem *)

LEMMA LimitInvImpliesLimited == LimitInv => StakingIsLimited
<1> SUFFICES ASSUME LimitInv, IsStakingLimitSet(stakeLimit)
             PROVE  staked.spent <= staked.budget
                      + (block - staked.from) * StakeLimitIncPerBlock(stakeLimit)
  BY DEF StakingIsLimited
<1> DEFINE inc == StakeLimitIncPerBlock(stakeLimit)
<1>1. /\ block \in Nat /\ stakeLimit \in StakeLimitData /\ inc \in Nat
      /\ staked.from \in Nat /\ staked.spent \in Nat /\ staked.budget \in Nat
      /\ stakeLimit.prevStakeLimit \in Nat /\ Updated \in Nat
  BY IncIsNat DEF LimitInv, LimitTypeOK, StakeLimitData, Updated
<1>2. /\ staked.from <= Updated /\ Updated <= block
      /\ staked.spent + stakeLimit.prevStakeLimit
           <= staked.budget + (Updated - staked.from) * inc
  BY DEF LimitInv, LimitAccounted
<1> HIDE DEF inc
<1>3. /\ (Updated - staked.from) * inc + (block - Updated) * inc
           = (block - staked.from) * inc
      /\ (block - Updated) * inc \in Nat /\ (Updated - staked.from) * inc \in Nat
  BY <1>1, <1>2, Growth
<1> DEFINE before == (Updated - staked.from) * inc
           after  == (block - Updated) * inc
           all    == (block - staked.from) * inc
<1>4. /\ before + after = all /\ before \in Nat /\ after \in Nat
      /\ staked.spent + stakeLimit.prevStakeLimit <= staked.budget + before
  BY <1>2, <1>3
<1>5. staked.spent <= staked.budget + all
  <2> HIDE DEF before, after, all
  <2> QED BY <1>1, <1>4
<1> QED BY <1>5 DEF inc

(* Since a staking limit was set, no more was staked than it allowed at    *)
(* first and grew by in the blocks since, whatever pauses, stops and       *)
(* stakes came in between (_submit and StakeLimitUtils).                   *)
THEOREM StakesLimited == Spec => []StakingIsLimited
<1>1. Init => LimitInv
  BY DEF Init, LimitInv, LimitTypeOK, Updated, InitStakeLimit, StakeLimitData, NoWindow,
         IsStakingPaused, IsStakingLimitSet
<1>2. LimitInv /\ [Next]_vars => LimitInv'
  <2> SUFFICES ASSUME LimitInv, [Next]_vars
               PROVE  LimitInv'
    OBVIOUS
  <2>1. UNCHANGED <<limitVars, block>> => LimitInv'
    BY DEF limitVars, LimitInv, LimitTypeOK, LimitAccounted, Updated
  <2>2. ASSUME NEW user \in Users, NEW amount \in StakeAmounts, Submit(user, amount)
        PROVE  LimitInv'
    BY <2>2, SubmitLimit, CatalistAssumption
  <2>3. ASSUME NEW user \in Users, NEW amount \in RequestAmounts, RequestWithdrawal(user, amount)
        PROVE  LimitInv'
    BY <2>1, <2>3 DEF RequestWithdrawal
  <2>4. ASSUME NEW user \in Users, NEW to \in Users \cup {Burner}, NEW amount \in ShareAmounts,
               Transfer(user, to, amount)
        PROVE  LimitInv'
    BY <2>1, <2>4 DEF Transfer
  <2>5. ASSUME NEW user \in Users, NEW amount \in ShareAmounts, NEW isCover \in BOOLEAN,
               RequestBurn(user, amount, isCover)
        PROVE  LimitInv'
    BY <2>1, <2>5 DEF RequestBurn
  <2>6. CASE RecoverExcessBACE
    BY <2>1, <2>6 DEF RecoverExcessBACE
  <2>7. ASSUME NEW depositsCount \in 1 .. (bufferedAce \div DEPOSIT_SIZE), Deposit(depositsCount)
        PROVE  LimitInv'
    BY <2>1, <2>7 DEF Deposit
  <2>8. ASSUME NEW amount \in RewardAmounts, ReceiveELRewards(amount)
        PROVE  LimitInv'
    BY <2>1, <2>8 DEF ReceiveELRewards
  <2>9. ASSUME NEW amount \in SweepAmounts, Sweep(amount)
        PROVE  LimitInv'
    BY <2>1, <2>9 DEF Sweep
  <2>10. CASE TakeSnapshot
    BY <2>1, <2>10 DEF TakeSnapshot
  <2>11. CASE HandleOracleReport
    BY <2>1, <2>11 DEF HandleOracleReport
  <2>12. CASE NextBlock
    BY <2>12, NextBlockLimit
  <2>13. CASE Administer
    BY <2>13, AdministerLimit
  <2>14. CASE UNCHANGED vars
    BY <2>1, <2>14 DEF vars
  <2> QED
    BY <2>2, <2>3, <2>4, <2>5, <2>6, <2>7, <2>8, <2>9, <2>10, <2>11, <2>12, <2>13, <2>14
       DEF Next
<1> QED BY <1>1, <1>2, LimitInvImpliesLimited, PTL DEF Spec

-----------------------------------------------------------------------------
(* The pool *)

Requests ==
  [cumulativeBACE : Nat, cumulativeShares : Nat, timestamp : Nat, reportTimestamp : Nat]

Reports(ids) ==
  [timestamp : Nat, clValidators : Nat, clBalance : Nat, swept : Int,
   withdrawalVaultBalance : Nat, elRewardsVaultBalance : Nat, sharesRequestedToBurn : Nat,
   batches : Seq(ids), simulatedShareRate : Nat, bunkerMode : BOOLEAN]

(* The shares are natural numbers that add up to the total, and those of   *)
(* the initial token holder stay.                                          *)
TokenOK ==
  /\ shares \in [Accounts -> Nat] /\ totalShares \in Nat
  /\ SharesAddUp
  /\ shares[INITIAL_TOKEN_HOLDER] >= InitialBalance

PoolOK ==
  /\ bufferedAce \in Nat /\ clBalance \in Nat
  /\ depositedValidators \in Nat /\ clValidators \in Nat
  /\ BufferIsBacked

BurnerOK == burnRequested \in [cover : Nat, nonCover : Nat]

(* The sums over the requests of a queue grow from one to the next.        *)
Accumulates(q) ==
  /\ q \in Seq(Requests)
  /\ \A i, j \in 1 .. Len(q) :
       i <= j => /\ q[i].cumulativeBACE <= q[j].cumulativeBACE
                 /\ q[i].cumulativeShares <= q[j].cumulativeShares

QueueOK ==
  /\ Accumulates(queue)
  /\ lastFinalizedRequestId \in 0 .. Len(queue)
  /\ lastReportTimestamp \in Nat

VaultsOK == withdrawalVault \in Nat /\ elRewardsVault \in Nat /\ swept \in Int

ReportOK == block \in Nat /\ report \in Reports(1 .. Len(queue)) \cup {NoReport}

PoolInv ==
  TokenOK /\ PoolOK /\ BurnerOK /\ QueueOK /\ VaultsOK /\ ReportOK

-----------------------------------------------------------------------------
(* Arithmetic of the pool *)

LEMMA Division ==
  ASSUME NEW a \in Int, NEW b \in Nat, b > 0
  PROVE  /\ a \div b \in Int
         /\ b * (a \div b) <= a /\ a < b * (a \div b) + b
         /\ a >= 0 => a \div b \in Nat
<1>1. a \div b \in Int
  OBVIOUS
<1>2. b * (a \div b) <= a
  OBVIOUS
<1>3. a < b * (a \div b) + b
  OBVIOUS
<1>4. a >= 0 => a \div b \in Nat
  OBVIOUS
<1> QED BY <1>1, <1>2, <1>3, <1>4

(* Products are monotone in a factor that is not negative.                 *)
LEMMA Factor ==
  ASSUME NEW a \in Int, NEW b \in Int, NEW c \in Nat, a <= b
  PROVE  a * c <= b * c /\ c * a <= c * b /\ a * c \in Int /\ b * c \in Int
<1>1. PICK d \in Nat : b = a + d
  <2>1. b - a \in Nat /\ b = a + (b - a)
    OBVIOUS
  <2> QED BY <2>1
<1>2. (a + d) * c = a * c + d * c /\ c * (a + d) = c * a + c * d /\ d * c \in Nat /\ c * d \in Nat
  OBVIOUS
<1>3. a * c \in Int /\ c * a \in Int /\ b * c \in Int
  OBVIOUS
<1> QED BY <1>1, <1>2, <1>3

-----------------------------------------------------------------------------
(* The limiter of the rebase *)

LimiterStates ==
  [preTotalPooledAce : Nat, currentTotalPooledAce : Int, preTotalShares : Nat,
   positiveRebaseLimit : Nat]

(* Every state of the limiter is below its maximum.                        *)
LimiterOK(st) ==
  /\ st \in LimiterStates
  /\ ~IsUnlimited(st) => /\ st.preTotalPooledAce > 0
                         /\ st.currentTotalPooledAce <= MaxTotalPooledAce(st)

(* Two states of the limiter of one report.                                *)
SameReport(st, new) ==
  /\ new.preTotalPooledAce = st.preTotalPooledAce
  /\ new.preTotalShares = st.preTotalShares
  /\ new.positiveRebaseLimit = st.positiveRebaseLimit

(* The maximum of a limiter is an integer that a rebase by the limit does  *)
(* not exceed.                                                             *)
LEMMA MaxOfLimiter ==
  ASSUME NEW st \in LimiterStates
  PROVE  /\ MaxTotalPooledAce(st) \in Nat
         /\ st.preTotalPooledAce <= MaxTotalPooledAce(st)
         /\ MaxTotalPooledAce(st) * LIMITER_PRECISION_BASE
              <= st.preTotalPooledAce * (st.positiveRebaseLimit + LIMITER_PRECISION_BASE)
<1> DEFINE B == LIMITER_PRECISION_BASE
           M == st.positiveRebaseLimit
           A == st.preTotalPooledAce
           q == (M * A) \div B
<1>1. B \in Nat /\ B > 0 /\ M \in Nat /\ A \in Nat
  BY LimiterAssumption DEF LimiterStates
<1>2. MaxTotalPooledAce(st) = A + q
  BY DEF MaxTotalPooledAce
<1> HIDE DEF B, M, A
<1>3. M * A \in Nat
  BY <1>1
<1>4. q \in Nat /\ B * q <= M * A
  BY <1>1, <1>3, Division
<1> HIDE DEF q
<1>5. (A + q) * B = A * B + B * q /\ A * (M + B) = M * A + A * B
  BY <1>1, <1>4
<1>6. A * B \in Nat /\ B * q \in Nat
  BY <1>1, <1>4
<1> QED BY <1>1, <1>2, <1>3, <1>4, <1>5, <1>6 DEF B, M, A

LEMMA LimiterInit ==
  ASSUME NEW ace \in Nat, NEW sh \in Nat
  PROVE  /\ LimiterOK(InitLimiterState(MaxPositiveTokenRebase, ace, sh))
         /\ InitLimiterState(MaxPositiveTokenRebase, ace, sh).preTotalPooledAce = ace
         /\ InitLimiterState(MaxPositiveTokenRebase, ace, sh).currentTotalPooledAce = ace
         /\ InitLimiterState(MaxPositiveTokenRebase, ace, sh).preTotalShares = sh
         /\ InitLimiterState(MaxPositiveTokenRebase, ace, sh).positiveRebaseLimit
              = IF ace = 0 THEN UNLIMITED_REBASE ELSE MaxPositiveTokenRebase
<1> DEFINE st == InitLimiterState(MaxPositiveTokenRebase, ace, sh)
<1>1. st \in LimiterStates
  BY LimiterAssumption, LimitsAssumption DEF InitLimiterState, LimiterStates
<1>2. /\ st.preTotalPooledAce = ace /\ st.currentTotalPooledAce = ace /\ st.preTotalShares = sh
      /\ st.positiveRebaseLimit = IF ace = 0 THEN UNLIMITED_REBASE ELSE MaxPositiveTokenRebase
  BY DEF InitLimiterState
<1> HIDE DEF st
<1>3. ~IsUnlimited(st) => ace > 0
  BY <1>2 DEF IsUnlimited
<1>4. ace <= MaxTotalPooledAce(st)
  BY <1>1, <1>2, MaxOfLimiter
<1>5. LimiterOK(st)
  BY <1>1, <1>2, <1>3, <1>4 DEF LimiterOK
<1> QED BY <1>2, <1>5 DEF st

(* Ace is added as far as the maximum allows.                              *)
LEMMA LimiterIncrease ==
  ASSUME NEW st, LimiterOK(st), NEW amount \in Nat
  PROVE  /\ LimiterOK(IncreaseAce(st, amount)) /\ SameReport(st, IncreaseAce(st, amount))
         /\ Consumed(st, amount) \in 0 .. amount
         /\ ~IsUnlimited(st) => /\ IncreaseAce(st, amount).currentTotalPooledAce
                                     = st.currentTotalPooledAce + Consumed(st, amount)
                                /\ IncreaseAce(st, amount).currentTotalPooledAce
                                     = Smaller(st.currentTotalPooledAce + amount,
                                               MaxTotalPooledAce(st))
<1> DEFINE new == IncreaseAce(st, amount)
           max == MaxTotalPooledAce(st)
           cur == st.currentTotalPooledAce
<1>1. CASE IsUnlimited(st)
  <2>1. new = st /\ Consumed(st, amount) = amount
    BY <1>1 DEF IncreaseAce, Consumed
  <2> QED BY <1>1, <2>1 DEF SameReport
<1>2. CASE ~IsUnlimited(st)
  <2>1. st \in LimiterStates /\ max \in Nat /\ cur <= max /\ cur \in Int
    BY <1>2, MaxOfLimiter DEF LimiterOK, LimiterStates
  <2>2. Smaller(cur + amount, max) \in Int /\ Smaller(cur + amount, max) <= max
        /\ Smaller(cur + amount, max) - cur \in 0 .. amount
    <3> HIDE DEF max, cur
    <3> QED BY <2>1 DEF Smaller
  <2>3. new = [st EXCEPT !.currentTotalPooledAce = Smaller(cur + amount, max)]
    BY <1>2 DEF IncreaseAce
  <2>4. new \in LimiterStates /\ SameReport(st, new)
        /\ new.currentTotalPooledAce = Smaller(cur + amount, max)
    <3> HIDE DEF max, new
    <3> QED BY <2>1, <2>2, <2>3 DEF LimiterStates, SameReport
  <2>5. Consumed(st, amount) = new.currentTotalPooledAce - cur
    BY <1>2 DEF Consumed
  <2>6. MaxTotalPooledAce(new) = max /\ (IsUnlimited(new) <=> IsUnlimited(st))
    BY <2>4 DEF SameReport, MaxTotalPooledAce, IsUnlimited
  <2>7. LimiterOK(new)
    <3> HIDE DEF max, new
    <3> QED BY <1>2, <2>2, <2>4, <2>6 DEF LimiterOK, SameReport
  <2>8. Consumed(st, amount) = Smaller(cur + amount, max) - cur
    BY <2>4, <2>5
  <2>9. new.currentTotalPooledAce = cur + Consumed(st, amount)
    <3> HIDE DEF max, new, cur
    <3> QED BY <2>1, <2>2, <2>4, <2>8
  <2> QED BY <2>2, <2>4, <2>7, <2>8, <2>9
<1> QED BY <1>1, <1>2

LEMMA LimiterDecrease ==
  ASSUME NEW st, LimiterOK(st), NEW amount \in Nat
  PROVE  /\ LimiterOK(DecreaseAce(st, amount)) /\ SameReport(st, DecreaseAce(st, amount))
         /\ ~IsUnlimited(st) => DecreaseAce(st, amount).currentTotalPooledAce
                                  = st.currentTotalPooledAce - amount
<1> DEFINE new == DecreaseAce(st, amount)
           cur == st.currentTotalPooledAce
<1>1. CASE IsUnlimited(st)
  BY <1>1 DEF DecreaseAce, SameReport
<1>2. CASE ~IsUnlimited(st)
  <2>1. st \in LimiterStates /\ MaxTotalPooledAce(st) \in Nat /\ cur <= MaxTotalPooledAce(st)
        /\ cur \in Int
    BY <1>2, MaxOfLimiter DEF LimiterOK, LimiterStates
  <2>2. new = [st EXCEPT !.currentTotalPooledAce = cur - amount]
    BY <1>2 DEF DecreaseAce
  <2>3. new \in LimiterStates /\ SameReport(st, new) /\ new.currentTotalPooledAce = cur - amount
    <3> HIDE DEF new
    <3> QED BY <2>1, <2>2 DEF LimiterStates, SameReport
  <2>4. MaxTotalPooledAce(new) = MaxTotalPooledAce(st) /\ (IsUnlimited(new) <=> IsUnlimited(st))
    BY <2>3 DEF SameReport, MaxTotalPooledAce, IsUnlimited
  <2>5. LimiterOK(new)
    <3> HIDE DEF new
    <3> QED BY <1>2, <2>1, <2>3, <2>4 DEF LimiterOK, SameReport
  <2> QED BY <2>3, <2>5
<1> QED BY <1>1, <1>2

(* What may be burnt is so much that the ace behind the shares left rises  *)
(* by at most the limit and one unit of the precision.                     *)
LEMMA LimiterBurn ==
  ASSUME NEW st, LimiterOK(st)
  PROVE  /\ GetSharesToBurnLimit(st) \in Nat
         /\ ~IsUnlimited(st) =>
              st.preTotalShares * (st.currentTotalPooledAce * LIMITER_PRECISION_BASE)
                <= (st.preTotalShares - GetSharesToBurnLimit(st))
                     * (st.preTotalPooledAce
                          * (st.positiveRebaseLimit + LIMITER_PRECISION_BASE))
                   + st.preTotalShares * st.preTotalPooledAce
<1> DEFINE B == LIMITER_PRECISION_BASE
           M == st.positiveRebaseLimit
           A == st.preTotalPooledAce
           S == st.preTotalShares
           cur == st.currentTotalPooledAce
           max == MaxTotalPooledAce(st)
           burn == GetSharesToBurnLimit(st)
           L == M + B
           rate == (cur * B) \div A
           room == L - rate
<1>1. B \in Nat /\ B > 0 /\ M \in Nat /\ A \in Nat /\ S \in Nat /\ cur \in Int /\ max \in Nat
      /\ max * B <= A * L
  BY LimiterAssumption, MaxOfLimiter DEF LimiterOK, LimiterStates
<1>2. CASE IsUnlimited(st)
  <2>1. burn = S
    BY <1>2 DEF GetSharesToBurnLimit
  <2> QED BY <1>1, <1>2, <2>1
<1>3. CASE ~IsUnlimited(st)
  <2>1. A > 0 /\ cur <= max
    BY <1>3 DEF LimiterOK
  <2>2. L \in Nat /\ L > 0 /\ A * L \in Nat /\ S * A \in Nat /\ cur * B \in Int
    <3> HIDE DEF B, M, A, S, cur
    <3> QED BY <1>1
  <2>3. cur * B <= A * L
    <3> HIDE DEF B, M, A, S, cur, max, L
    <3>1. cur * B <= max * B /\ max * B \in Int
      BY <1>1, <2>1, Factor
    <3> QED BY <1>1, <2>2, <3>1
  <2>4. CASE cur >= max
    <3>1. burn = 0
      BY <1>3, <2>4 DEF GetSharesToBurnLimit, IsLimitReached
    <3>2. S * (cur * B) <= S * (A * L) /\ S * (A * L) \in Int /\ S * (cur * B) \in Int
      <4> HIDE DEF B, M, A, S, cur, L
      <4> DEFINE x == cur * B
                 y == A * L
      <4>1. x \in Int /\ y \in Int /\ x <= y /\ S \in Nat
        BY <1>1, <2>2, <2>3
      <4> HIDE DEF x, y
      <4>2. S * x <= S * y /\ S * y \in Int /\ S * x \in Int
        BY <4>1, Factor
      <4> QED BY <4>2 DEF x, y
    <3>3. S - burn = S
      <4> HIDE DEF S, burn
      <4> QED BY <1>1, <3>1
    <3>4. S * (cur * B) <= S * (A * L) + S * A
      <4> HIDE DEF B, M, A, S, cur, L
      <4> DEFINE x == S * (cur * B)
                 y == S * (A * L)
                 z == S * A
      <4>1. x \in Int /\ y \in Int /\ x <= y /\ z \in Nat
        BY <2>2, <3>2
      <4> HIDE DEF x, y, z
      <4>2. x <= y + z
        BY <4>1
      <4> QED BY <4>2 DEF x, y, z
    <3>5. burn \in Nat
      BY <3>1
    <3> QED BY <3>3, <3>4, <3>5
  <2>5. CASE ~(cur >= max)
    <3>1. burn = (S * room) \div L
      <4>1. ~IsLimitReached(st)
        BY <2>5 DEF IsLimitReached
      <4> QED BY <1>3, <4>1 DEF GetSharesToBurnLimit
    <3> HIDE DEF B, M, A, S, cur, max, burn, L
    <3>2. rate \in Int /\ A * rate <= cur * B /\ cur * B < A * rate + A
      BY <1>1, <2>1, <2>2, Division
    <3> HIDE DEF rate
    <3>3. rate <= L
      <4>1. CASE rate >= L + 1
        <5>1. A * (L + 1) <= A * rate /\ A * rate \in Int
          <6>1. L + 1 \in Int /\ A \in Nat /\ L + 1 <= rate
            BY <1>1, <2>2, <3>2, <4>1
          <6> QED BY <3>2, <6>1, Factor
        <5>2. A * (L + 1) = A * L + A
          BY <1>1, <2>2
        <5> QED BY <1>1, <2>1, <2>2, <2>3, <3>2, <5>1, <5>2
      <4>2. CASE ~(rate >= L + 1)
        BY <2>2, <3>2, <4>2
      <4> QED BY <4>1, <4>2
    <3>4. room \in Nat /\ S * room \in Nat
      <4>1. room \in Nat
        BY <2>2, <3>2, <3>3
      <4> HIDE DEF room
      <4> QED BY <1>1, <4>1
    <3>5. burn \in Nat /\ L * burn <= S * room
      <4> DEFINE n == S * room
      <4>1. n \in Int /\ n >= 0 /\ burn = n \div L
        BY <3>1, <3>4
      <4> HIDE DEF n
      <4>2. burn \in Nat /\ L * burn <= n
        BY <2>2, <4>1, Division
      <4> QED BY <4>2 DEF n
    <3>6. S * rate <= (S - burn) * L
      <4>1. S * room = S * L - S * rate
        BY <1>1, <2>2, <3>2
      <4>2. (S - burn) * L = S * L - L * burn
        BY <1>1, <2>2, <3>5
      <4>3. S * L \in Int /\ S * rate \in Int /\ L * burn \in Int
        BY <1>1, <2>2, <3>2, <3>5
      <4> QED BY <3>5, <4>1, <4>2, <4>3
    <3>7. S * (cur * B) <= S * (A * rate + A)
      <4> DEFINE x == cur * B
                 y == A * rate + A
      <4>1. x \in Int /\ y \in Int /\ x <= y
        BY <1>1, <2>2, <3>2
      <4> HIDE DEF x, y
      <4>2. S * x <= S * y
        BY <1>1, <4>1, Factor
      <4> QED BY <4>2 DEF x, y
    <3>8. S * (A * rate + A) = (S * rate) * A + S * A
      BY <1>1, <3>2
    <3>9. (S * rate) * A <= ((S - burn) * L) * A
      <4> DEFINE x == S * rate
                 y == (S - burn) * L
      <4>1. x \in Int /\ y \in Int /\ x <= y
        BY <1>1, <2>2, <3>2, <3>5, <3>6
      <4> HIDE DEF x, y
      <4>2. x * A <= y * A
        BY <1>1, <4>1, Factor
      <4> QED BY <4>2 DEF x, y
    <3>10. ((S - burn) * L) * A = (S - burn) * (A * L)
      <4> DEFINE d == S - burn
      <4>1. d \in Int
        BY <1>1, <3>5
      <4> HIDE DEF d
      <4>2. (d * L) * A = d * (A * L)
        BY <1>1, <2>2, <4>1
      <4> QED BY <4>2 DEF d
    <3>11. S * (cur * B) <= (S - burn) * (A * L) + S * A
      <4> DEFINE x == S * (cur * B)
                 y == (S * rate) * A
                 z == (S - burn) * (A * L)
                 w == S * A
      <4>1. x \in Int /\ y \in Int /\ z \in Int /\ w \in Int
        BY <1>1, <2>2, <3>2, <3>5
      <4>2. x <= y + w /\ y <= z
        BY <3>7, <3>8, <3>9, <3>10
      <4> HIDE DEF x, y, z, w
      <4>3. x <= z + w
        BY <4>1, <4>2
      <4> QED BY <4>3 DEF x, z, w
    <3> QED BY <3>5, <3>11 DEF B, M, A, S, cur, burn, L
  <2> QED BY <2>4, <2>5, <1>1
<1> QED BY <1>2, <1>3

(* What a rise of the balance on the consensus layer counts for.           *)
Counted(change, limit) == IF change < 0 THEN change ELSE Smaller(change, limit)

(* By how much a report may raise a pool of so much ace.                   *)
LimitOf(ace) == (MaxPositiveTokenRebase * ace) \div LIMITER_PRECISION_BASE

(* What the smoothing takes of an amount that is in the vaults, in a pool  *)
(* of so much ace whose balance on the consensus layer has changed.        *)
Income(ace, change, amount) ==
  IF ace = 0 \/ MaxPositiveTokenRebase = UNLIMITED_REBASE THEN amount
  ELSE Smaller(amount, LimitOf(ace) - Counted(change, LimitOf(ace)))

LEMMA LimitOK ==
  ASSUME NEW ace \in Nat
  PROVE  LimitOf(ace) \in Nat
<1>1. /\ MaxPositiveTokenRebase \in Nat /\ LIMITER_PRECISION_BASE \in Nat
      /\ LIMITER_PRECISION_BASE > 0
  BY LimitsAssumption, LimiterAssumption
<1> DEFINE n == MaxPositiveTokenRebase * ace
<1>2. n \in Int /\ n >= 0
  BY <1>1
<1>3. LimitOf(ace) = n \div LIMITER_PRECISION_BASE
  BY DEF LimitOf
<1> HIDE DEF n
<1> QED BY <1>1, <1>2, <1>3, Division

LEMMA IncomeIsNat ==
  ASSUME NEW ace \in Nat, NEW change \in Int, NEW amount \in Nat
  PROVE  Income(ace, change, amount) \in 0 .. amount
<1>1. LimitOf(ace) \in Nat
  BY LimitOK
<1> QED BY <1>1 DEF Income, Counted, Smaller

(* A pool of more ace takes at least as much.                              *)
LEMMA IncomeGrows ==
  ASSUME NEW a \in Nat, NEW b \in Nat, 0 < a, a <= b, NEW change \in Int, NEW amount \in Nat
  PROVE  Income(a, change, amount) <= Income(b, change, amount)
<1>1. LimitOf(a) \in Nat /\ LimitOf(b) \in Nat
  BY LimitOK
<1>2. LimitOf(a) <= LimitOf(b)
  <2>1. /\ MaxPositiveTokenRebase \in Nat /\ LIMITER_PRECISION_BASE \in Nat
        /\ LIMITER_PRECISION_BASE > 0
    BY LimitsAssumption, LimiterAssumption
  <2> DEFINE B == LIMITER_PRECISION_BASE
             x == MaxPositiveTokenRebase * a
             y == MaxPositiveTokenRebase * b
             u == LimitOf(a)
             v == LimitOf(b)
  <2>2. x <= y /\ x \in Int /\ y \in Int
    BY <2>1, Factor
  <2>3. u = x \div B /\ v = y \div B
    BY DEF LimitOf
  <2> HIDE DEF x, y, B
  <2>4. B * u <= x /\ y < B * v + B
    BY <2>1, <2>2, <2>3, Division DEF B
  <2> HIDE DEF u, v
  <2>5. u \in Nat /\ v \in Nat /\ B \in Nat
    BY <1>1, <2>1 DEF u, v, B
  <2>6. u <= v
    <3> SUFFICES ASSUME ~(u <= v) PROVE FALSE
      OBVIOUS
    <3>1. v + 1 <= u /\ v + 1 \in Int
      BY <2>5
    <3>2. B * (v + 1) <= B * u /\ B * u \in Int
      BY <2>5, <3>1, Factor
    <3>3. B * (v + 1) = B * v + B /\ B * v \in Int
      BY <2>5
    <3> QED BY <2>2, <2>4, <2>5, <3>2, <3>3
  <2> QED BY <2>6 DEF u, v
<1> DEFINE u == LimitOf(a)
           v == LimitOf(b)
<1> HIDE DEF u, v
<1>3. u \in Nat /\ v \in Nat /\ u <= v
  BY <1>1, <1>2 DEF u, v
<1>4. u - Counted(change, u) <= v - Counted(change, v)
      /\ u - Counted(change, u) \in Int /\ v - Counted(change, v) \in Int
  BY <1>3 DEF Counted, Smaller
<1>5. CASE MaxPositiveTokenRebase = UNLIMITED_REBASE
  BY <1>5 DEF Income
<1>6. CASE MaxPositiveTokenRebase # UNLIMITED_REBASE
  <2>1. /\ Income(a, change, amount) = Smaller(amount, u - Counted(change, u))
        /\ Income(b, change, amount) = Smaller(amount, v - Counted(change, v))
    BY <1>6 DEF Income, u, v
  <2> QED BY <1>4, <2>1 DEF Smaller
<1> QED BY <1>5, <1>6

(* The limiter after the balance of the consensus layer has changed.       *)
LEMMA LimiterChange ==
  ASSUME NEW ace \in Nat, NEW sh \in Nat, NEW pre \in Nat, NEW post \in Nat
  PROVE  LET start == InitLimiterState(MaxPositiveTokenRebase, ace, sh)
             cl    == LimiterAfterCL(ace, sh, pre, post)
         IN  /\ LimiterOK(cl) /\ SameReport(start, cl)
             /\ IsUnlimited(cl) <=> ace = 0 \/ MaxPositiveTokenRebase = UNLIMITED_REBASE
             /\ ~IsUnlimited(cl) =>
                  /\ cl.currentTotalPooledAce = ace + Counted(post - pre, LimitOf(ace))
                  /\ MaxTotalPooledAce(cl) = ace + LimitOf(ace)
<1> DEFINE start   == InitLimiterState(MaxPositiveTokenRebase, ace, sh)
           cl      == LimiterAfterCL(ace, sh, pre, post)
           change  == post - pre
           limit   == LimitOf(ace)
           counted == Counted(change, limit)
<1>1. /\ LimiterOK(start) /\ start.preTotalPooledAce = ace /\ start.currentTotalPooledAce = ace
      /\ start.preTotalShares = sh
      /\ start.positiveRebaseLimit = IF ace = 0 THEN UNLIMITED_REBASE ELSE MaxPositiveTokenRebase
  BY LimiterInit
<1>2. IsUnlimited(start) <=> ace = 0 \/ MaxPositiveTokenRebase = UNLIMITED_REBASE
  <2> HIDE DEF start
  <2> QED BY <1>1 DEF IsUnlimited
<1>3. limit \in Nat /\ ~IsUnlimited(start) => MaxTotalPooledAce(start) = ace + limit
  <2>1. ASSUME ~IsUnlimited(start) PROVE start.positiveRebaseLimit = MaxPositiveTokenRebase
    <3> HIDE DEF start
    <3> QED BY <1>1, <2>1 DEF IsUnlimited
  <2> HIDE DEF start
  <2> QED BY <1>1, <2>1 DEF MaxTotalPooledAce, LimitOf
<1>4. limit \in Nat
  BY LimitOK
<1>5. /\ LimiterOK(cl) /\ SameReport(start, cl)
      /\ ~IsUnlimited(start) => cl.currentTotalPooledAce = ace + counted
  <2>1. CASE post < pre
    <3> DEFINE loss == pre - post
    <3>1. cl = DecreaseAce(start, loss) /\ loss \in Nat /\ change = 0 - loss
      BY <2>1 DEF LimiterAfterCL
    <3>2. counted = change
      BY <2>1 DEF Counted
    <3> HIDE DEF start, cl, loss, change, counted
    <3>3. /\ LimiterOK(cl) /\ SameReport(start, cl)
          /\ ~IsUnlimited(start) => cl.currentTotalPooledAce = start.currentTotalPooledAce - loss
      BY <1>1, <3>1, LimiterDecrease
    <3> QED BY <1>1, <3>1, <3>2, <3>3
  <2>2. CASE ~(post < pre)
    <3>1. cl = IncreaseAce(start, change) /\ change \in Nat /\ counted = Smaller(change, limit)
      BY <2>2 DEF LimiterAfterCL, Counted
    <3>2. /\ LimiterOK(cl) /\ SameReport(start, cl)
          /\ ~IsUnlimited(start) => cl.currentTotalPooledAce
               = Smaller(start.currentTotalPooledAce + change, MaxTotalPooledAce(start))
      <4> HIDE DEF start, cl, change, counted
      <4> QED BY <1>1, <3>1, LimiterIncrease
    <3> HIDE DEF start, cl, change, counted, limit
    <3>3. Smaller(ace + change, ace + limit) = ace + Smaller(change, limit)
      BY <1>4, <3>1 DEF Smaller
    <3> QED BY <1>1, <1>3, <1>4, <3>1, <3>2, <3>3
  <2> QED BY <2>1, <2>2
<1>6. IsUnlimited(cl) <=> IsUnlimited(start)
  <2> HIDE DEF start, cl
  <2> QED BY <1>5 DEF SameReport, IsUnlimited
<1>7. MaxTotalPooledAce(cl) = MaxTotalPooledAce(start)
  <2> HIDE DEF start, cl
  <2> QED BY <1>5 DEF SameReport, MaxTotalPooledAce
<1> HIDE DEF start, cl, counted, limit, change
<1> QED BY <1>2, <1>3, <1>5, <1>6, <1>7, <1>4 DEF start, cl, counted, limit, change

(* The smoothing takes no more from the vaults than was reported, and      *)
(* burns so little that what counts of the ace that was added, as far as   *)
(* it raises the rate, stays within the limit.                             *)
LEMMA Smoothing ==
  ASSUME NEW ace \in Nat, NEW sh \in Nat, NEW pre \in Nat, NEW ids, NEW r \in Reports(ids),
         NEW lock \in Nat, NEW new \in Nat
  PROVE  LET s == SmoothenTokenRebase(ace, sh, pre, r, lock, new)
         IN  /\ s.withdrawals \in 0 .. r.withdrawalVaultBalance
             /\ s.elRewards \in 0 .. r.elRewardsVaultBalance
             /\ s.sharesToBurn \in Nat
             /\ ace > 0 /\ MaxPositiveTokenRebase # UNLIMITED_REBASE =>
                  sh * ((ace + Counted(r.clBalance - pre,
                                       (MaxPositiveTokenRebase * ace) \div LIMITER_PRECISION_BASE)
                           + s.withdrawals + s.elRewards - lock) * LIMITER_PRECISION_BASE)
                    <= (sh - s.sharesToBurn)
                         * (ace * (MaxPositiveTokenRebase + LIMITER_PRECISION_BASE))
                       + sh * ace
<1> DEFINE start   == InitLimiterState(MaxPositiveTokenRebase, ace, sh)
           cl      == LimiterAfterCL(ace, sh, pre, r.clBalance)
           vault   == IncreaseAce(cl, r.withdrawalVaultBalance)
           rewards == IncreaseAce(vault, r.elRewardsVaultBalance)
           locked  == DecreaseAce(rewards, lock)
           s       == SmoothenTokenRebase(ace, sh, pre, r, lock, new)
           wd      == Consumed(cl, r.withdrawalVaultBalance)
           el      == Consumed(vault, r.elRewardsVaultBalance)
           change  == r.clBalance - pre
           limit   == (MaxPositiveTokenRebase * ace) \div LIMITER_PRECISION_BASE
           counted == Counted(change, limit)
<1>1. /\ r.clBalance \in Nat /\ r.withdrawalVaultBalance \in Nat
      /\ r.elRewardsVaultBalance \in Nat /\ r.sharesRequestedToBurn \in Nat
  BY DEF Reports
<1>2. /\ s.withdrawals = wd /\ s.elRewards = el
      /\ s.sharesToBurn = Smaller(GetSharesToBurnLimit(locked), new + r.sharesRequestedToBurn)
  BY DEF SmoothenTokenRebase
<1>3. /\ LimiterOK(start) /\ start.preTotalPooledAce = ace /\ start.currentTotalPooledAce = ace
      /\ start.preTotalShares = sh
      /\ start.positiveRebaseLimit = IF ace = 0 THEN UNLIMITED_REBASE ELSE MaxPositiveTokenRebase
  BY LimiterInit
<1>4. /\ LimiterOK(cl) /\ SameReport(start, cl)
      /\ ~IsUnlimited(start) => cl.currentTotalPooledAce = ace + counted
  <2>1. IsUnlimited(start) <=> ace = 0 \/ MaxPositiveTokenRebase = UNLIMITED_REBASE
    <3> HIDE DEF start
    <3> QED BY <1>3 DEF IsUnlimited
  <2>2. counted = Counted(r.clBalance - pre, LimitOf(ace))
    <3>1. limit = LimitOf(ace)
      BY DEF LimitOf
    <3> HIDE DEF limit
    <3> QED BY <3>1
  <2>3. /\ LimiterOK(cl) /\ SameReport(start, cl)
        /\ IsUnlimited(cl) <=> ace = 0 \/ MaxPositiveTokenRebase = UNLIMITED_REBASE
        /\ ~IsUnlimited(cl) =>
             cl.currentTotalPooledAce = ace + Counted(r.clBalance - pre, LimitOf(ace))
    <3>1. r.clBalance \in Nat
      BY <1>1
    <3> QED BY <3>1, LimiterChange
  <2> HIDE DEF start, cl, counted
  <2> QED BY <2>1, <2>2, <2>3
<1>5. /\ LimiterOK(vault) /\ SameReport(cl, vault) /\ wd \in 0 .. r.withdrawalVaultBalance
      /\ ~IsUnlimited(cl) => vault.currentTotalPooledAce = cl.currentTotalPooledAce + wd
  <2> HIDE DEF cl
  <2> QED BY <1>1, <1>4, LimiterIncrease
<1>6. /\ LimiterOK(rewards) /\ SameReport(vault, rewards) /\ el \in 0 .. r.elRewardsVaultBalance
      /\ ~IsUnlimited(vault) => rewards.currentTotalPooledAce = vault.currentTotalPooledAce + el
  <2> HIDE DEF vault
  <2> QED BY <1>1, <1>5, LimiterIncrease
<1>7. /\ LimiterOK(locked) /\ SameReport(rewards, locked)
      /\ ~IsUnlimited(rewards) => locked.currentTotalPooledAce = rewards.currentTotalPooledAce - lock
  <2> HIDE DEF rewards
  <2> QED BY <1>6, LimiterDecrease
<1> DEFINE burn == GetSharesToBurnLimit(locked)
<1>8. /\ burn \in Nat
      /\ ~IsUnlimited(locked) =>
           locked.preTotalShares * (locked.currentTotalPooledAce * LIMITER_PRECISION_BASE)
             <= (locked.preTotalShares - burn)
                  * (locked.preTotalPooledAce
                       * (locked.positiveRebaseLimit + LIMITER_PRECISION_BASE))
                + locked.preTotalShares * locked.preTotalPooledAce
  <2> HIDE DEF locked
  <2> QED BY <1>7, LimiterBurn
<1>9. s.sharesToBurn \in Nat /\ s.sharesToBurn <= burn
  <2>1. s.sharesToBurn = Smaller(burn, new + r.sharesRequestedToBurn)
    BY <1>2
  <2> HIDE DEF burn, s
  <2> QED BY <1>1, <1>8, <2>1 DEF Smaller
<1>10. ASSUME ace > 0, MaxPositiveTokenRebase # UNLIMITED_REBASE
       PROVE  sh * ((ace + counted + s.withdrawals + s.elRewards - lock) * LIMITER_PRECISION_BASE)
                <= (sh - s.sharesToBurn)
                     * (ace * (MaxPositiveTokenRebase + LIMITER_PRECISION_BASE))
                   + sh * ace
  <2>1. start.positiveRebaseLimit = MaxPositiveTokenRebase /\ ~IsUnlimited(start)
    <3> HIDE DEF start
    <3> QED BY <1>3, <1>10 DEF IsUnlimited
  <2>2. /\ locked.preTotalPooledAce = ace /\ locked.preTotalShares = sh
        /\ locked.positiveRebaseLimit = MaxPositiveTokenRebase
        /\ ~IsUnlimited(cl) /\ ~IsUnlimited(vault) /\ ~IsUnlimited(rewards) /\ ~IsUnlimited(locked)
    <3> HIDE DEF start, cl, vault, rewards, locked
    <3> QED BY <1>3, <1>4, <1>5, <1>6, <1>7, <2>1 DEF SameReport, IsUnlimited
  <2>3. counted \in Int /\ wd \in Int /\ el \in Int
    <3>1. limit \in Int
      <4>1. /\ MaxPositiveTokenRebase * ace \in Nat
            /\ LIMITER_PRECISION_BASE \in Nat /\ LIMITER_PRECISION_BASE > 0
        BY LimitsAssumption, LimiterAssumption
      <4> QED BY <4>1, Division
    <3>2. change \in Int
      BY <1>1
    <3> HIDE DEF limit, change, wd, el
    <3> QED BY <1>1, <1>5, <1>6, <3>1, <3>2 DEF Counted, Smaller
  <2>4. locked.currentTotalPooledAce = ace + counted + wd + el - lock
    <3> HIDE DEF start, cl, vault, rewards, locked, counted, wd, el
    <3>1. cl.currentTotalPooledAce = ace + counted
      BY <1>4, <2>1
    <3>2. vault.currentTotalPooledAce = ace + counted + wd
      BY <1>5, <2>2, <3>1
    <3>3. rewards.currentTotalPooledAce = ace + counted + wd + el
      BY <1>6, <2>2, <3>2
    <3>4. locked.currentTotalPooledAce = rewards.currentTotalPooledAce - lock
      BY <1>7, <2>2
    <3> QED BY <2>3, <3>3, <3>4
  <2> DEFINE B == LIMITER_PRECISION_BASE
             P == ace * (MaxPositiveTokenRebase + B)
             x == sh * ((ace + counted + wd + el - lock) * B)
             z == sh * ace
  <2>5. x <= (sh - burn) * P + z
    <3> HIDE DEF locked, counted, wd, el, burn
    <3> QED BY <1>8, <2>2, <2>4
  <2>6. B \in Nat /\ MaxPositiveTokenRebase \in Nat
    BY LimitsAssumption, LimiterAssumption
  <2>7. P \in Nat /\ z \in Nat
    <3>1. MaxPositiveTokenRebase + B \in Nat
      BY <2>6
    <3> HIDE DEF B
    <3> QED BY <3>1
  <2>8. x \in Int
    <3> DEFINE v == ace + counted + wd + el - lock
    <3>3. v \in Int
      <4> HIDE DEF wd, el, counted
      <4> QED BY <2>3
    <3> HIDE DEF v, B
    <3>4. sh * (v * B) \in Int
      BY <2>6, <3>3
    <3> QED BY <3>4 DEF v
  <2>9. (sh - burn) * P <= (sh - s.sharesToBurn) * P /\ (sh - burn) * P \in Int
        /\ (sh - s.sharesToBurn) * P \in Int
    <3> DEFINE low == sh - burn
               high == sh - s.sharesToBurn
    <3>1. low \in Int /\ high \in Int /\ low <= high
      <4> HIDE DEF burn, s
      <4> QED BY <1>8, <1>9
    <3> HIDE DEF low, high, P
    <3>2. low * P <= high * P /\ low * P \in Int /\ high * P \in Int
      BY <2>7, <3>1, Factor
    <3> QED BY <3>2 DEF low, high
  <2>10. x <= (sh - s.sharesToBurn) * P + z
    <3> DEFINE a == (sh - burn) * P
               b == (sh - s.sharesToBurn) * P
    <3>1. a \in Int /\ b \in Int /\ x <= a + z /\ a <= b
      BY <2>5, <2>9
    <3> HIDE DEF a, b, x, z
    <3>2. x <= b + z
      BY <2>7, <2>8, <3>1
    <3> QED BY <3>2 DEF b
  <2> QED BY <1>2, <2>10
<1> HIDE DEF s, wd, el, counted, limit, change
<1>11. /\ s.withdrawals \in 0 .. r.withdrawalVaultBalance
       /\ s.elRewards \in 0 .. r.elRewardsVaultBalance
  BY <1>2, <1>5, <1>6
<1> QED BY <1>9, <1>10, <1>11 DEF s, counted, limit, change

(* The smoothing takes the income from the vaults.  It accepts a loss and  *)
(* a lock that the pool's ace covers, and burns no more than was asked.    *)
LEMMA SmoothingTakes ==
  ASSUME NEW ace \in Nat, NEW sh \in Nat, NEW pre \in Nat, NEW ids, NEW r \in Reports(ids),
         NEW lock \in Int, NEW new \in Nat
  PROVE  LET s      == SmoothenTokenRebase(ace, sh, pre, r, lock, new)
             change == r.clBalance - pre
             income == Income(ace, change, r.withdrawalVaultBalance + r.elRewardsVaultBalance)
         IN  /\ s.withdrawals + s.elRewards = income
             /\ s.withdrawals \in Nat /\ s.elRewards \in Nat
             /\ ace + change >= 0 /\ lock <= ace + Counted(change, LimitOf(ace)) + income
                  => s.accepted
<1> DEFINE cl      == LimiterAfterCL(ace, sh, pre, r.clBalance)
           start   == InitLimiterState(MaxPositiveTokenRebase, ace, sh)
           w       == r.withdrawalVaultBalance
           e       == r.elRewardsVaultBalance
           vault   == IncreaseAce(cl, w)
           rewards == IncreaseAce(vault, e)
           s       == SmoothenTokenRebase(ace, sh, pre, r, lock, new)
           wd      == Consumed(cl, w)
           el      == Consumed(vault, e)
           change  == r.clBalance - pre
           limit   == LimitOf(ace)
           counted == Counted(change, limit)
           income  == Income(ace, change, w + e)
           free    == ace = 0 \/ MaxPositiveTokenRebase = UNLIMITED_REBASE
<1>1. r.clBalance \in Nat /\ w \in Nat /\ e \in Nat
  BY DEF Reports
<1>2. /\ s.withdrawals = wd /\ s.elRewards = el
      /\ (r.clBalance < pre => CanDecreaseAce(start, pre - r.clBalance))
           /\ CanDecreaseAce(rewards, lock) => s.accepted
  BY DEF SmoothenTokenRebase
<1>3. /\ LimiterOK(cl) /\ SameReport(start, cl)
      /\ IsUnlimited(cl) <=> free
      /\ ~IsUnlimited(cl) => /\ cl.currentTotalPooledAce = ace + counted
                             /\ MaxTotalPooledAce(cl) = ace + limit
  <2>1. r.clBalance \in Nat
    BY <1>1
  <2> QED BY <2>1, LimiterChange
<1>4. limit \in Nat /\ change \in Int /\ counted \in Int
  <2>1. limit \in Nat
    BY LimitOK
  <2>2. change \in Int
    BY <1>1
  <2> HIDE DEF limit, change
  <2> QED BY <2>1, <2>2 DEF Counted, Smaller
<1>5. /\ LimiterOK(vault) /\ SameReport(cl, vault) /\ wd \in 0 .. w
      /\ ~IsUnlimited(cl) => /\ vault.currentTotalPooledAce = cl.currentTotalPooledAce + wd
                             /\ vault.currentTotalPooledAce
                                  = Smaller(cl.currentTotalPooledAce + w, MaxTotalPooledAce(cl))
  <2> HIDE DEF cl, w
  <2> QED BY <1>1, <1>3, LimiterIncrease
<1>6. /\ LimiterOK(rewards) /\ SameReport(vault, rewards) /\ el \in 0 .. e
      /\ ~IsUnlimited(vault) => /\ rewards.currentTotalPooledAce = vault.currentTotalPooledAce + el
                                /\ rewards.currentTotalPooledAce
                                     = Smaller(vault.currentTotalPooledAce + e, MaxTotalPooledAce(vault))
  <2> HIDE DEF vault, e
  <2> QED BY <1>1, <1>5, LimiterIncrease
<1>7. /\ IsUnlimited(start) <=> IsUnlimited(cl)
      /\ IsUnlimited(vault) <=> IsUnlimited(cl)
      /\ IsUnlimited(rewards) <=> IsUnlimited(cl)
      /\ MaxTotalPooledAce(vault) = MaxTotalPooledAce(cl)
  <2> HIDE DEF start, cl, vault, rewards
  <2> QED BY <1>3, <1>5, <1>6 DEF SameReport, IsUnlimited, MaxTotalPooledAce
<1>8. start.currentTotalPooledAce = ace
  BY LimiterInit
<1>9. wd \in Nat /\ el \in Nat /\ wd <= w /\ el <= e
  <2> HIDE DEF wd, el, w, e
  <2> QED BY <1>1, <1>5, <1>6
<1>10. CASE free
  <2>1. IsUnlimited(cl) /\ IsUnlimited(vault) /\ IsUnlimited(rewards) /\ IsUnlimited(start)
    <3> HIDE DEF cl, vault, rewards, start
    <3> QED BY <1>3, <1>7, <1>10
  <2>2. wd = w /\ el = e /\ income = w + e
    BY <1>10, <2>1 DEF Consumed, Income
  <2>3. s.accepted
    <3> HIDE DEF s, start, rewards
    <3> QED BY <1>2, <2>1 DEF CanDecreaseAce
  <2> HIDE DEF s, wd, el, income, w, e
  <2>4. s.withdrawals + s.elRewards = income /\ s.withdrawals \in Nat /\ s.elRewards \in Nat
    BY <1>1, <1>2, <2>2
  <2> QED BY <2>3, <2>4 DEF s, income, w, e
<1>11. CASE ~free
  <2>1. ~IsUnlimited(cl) /\ ~IsUnlimited(vault) /\ ~IsUnlimited(rewards)
    <3> HIDE DEF cl, vault, rewards, start
    <3> QED BY <1>3, <1>7, <1>11
  <2>2. income = Smaller(w + e, limit - counted)
    BY <1>11 DEF Income
  <2> DEFINE x == cl.currentTotalPooledAce
             y == vault.currentTotalPooledAce
             z == rewards.currentTotalPooledAce
             top == MaxTotalPooledAce(cl)
  <2>3. /\ x = ace + counted /\ top = ace + limit
        /\ y = x + wd /\ y = Smaller(x + w, top)
        /\ z = y + el /\ z = Smaller(y + e, top)
    <3> HIDE DEF cl, vault, rewards, w, e, wd, el, counted, limit
    <3> QED BY <1>3, <1>5, <1>6, <1>7, <2>1
  <2> HIDE DEF x, y, z, top, wd, el, w, e, income, counted, limit, change, s
  <2>4. wd + el = income
    <3>1. counted <= limit
      BY <1>4 DEF counted, Counted, Smaller
    <3> QED BY <1>1, <1>4, <1>9, <2>2, <2>3, <3>1 DEF Smaller
  <2>5. income \in Nat
    BY <1>9, <2>4
  <2>6. ASSUME ace + change >= 0, lock <= ace + counted + income PROVE s.accepted
    <3>1. CanDecreaseAce(rewards, lock)
      <4>1. lock <= z
        BY <1>4, <1>9, <2>3, <2>4, <2>5, <2>6
      <4> HIDE DEF rewards
      <4> QED BY <4>1 DEF CanDecreaseAce, z
    <3>2. CanDecreaseAce(start, pre - r.clBalance)
      <4>1. pre - r.clBalance <= start.currentTotalPooledAce
        <5> HIDE DEF start
        <5> QED BY <1>1, <1>8, <2>6 DEF change
      <4> HIDE DEF start
      <4> QED BY <4>1 DEF CanDecreaseAce
    <3> HIDE DEF start, rewards
    <3> QED BY <1>2, <3>1, <3>2
  <2>7. s.withdrawals + s.elRewards = income /\ s.withdrawals \in Nat /\ s.elRewards \in Nat
    BY <1>2, <1>9, <2>4
  <2> QED BY <2>6, <2>7 DEF s, income, w, e, change, counted, limit
<1> QED BY <1>10, <1>11

-----------------------------------------------------------------------------
(* The queue of requests *)

LEMMA AtOK ==
  ASSUME NEW q, Accumulates(q), NEW i \in 0 .. Len(q)
  PROVE  At(q, i).cumulativeBACE \in Nat /\ At(q, i).cumulativeShares \in Nat
<1>1. CASE i = 0
  BY <1>1 DEF At
<1>2. CASE i # 0
  <2>1. i \in 1 .. Len(q) /\ q[i] \in Requests
    BY <1>2 DEF Accumulates
  <2> QED BY <1>2, <2>1 DEF At, Requests
<1> QED BY <1>1, <1>2

LEMMA AtGrows ==
  ASSUME NEW q, Accumulates(q), NEW i \in 0 .. Len(q), NEW j \in 0 .. Len(q), i <= j
  PROVE  /\ At(q, i).cumulativeBACE <= At(q, j).cumulativeBACE
         /\ At(q, i).cumulativeShares <= At(q, j).cumulativeShares
<1>1. At(q, j).cumulativeBACE \in Nat /\ At(q, j).cumulativeShares \in Nat
  BY AtOK
<1>2. CASE i = 0
  BY <1>1, <1>2 DEF At
<1>3. CASE i # 0
  <2>1. Len(q) \in Nat
    BY LenProperties DEF Accumulates
  <2>2. i \in 1 .. Len(q) /\ j \in 1 .. Len(q) /\ j # 0
    BY <1>3, <2>1
  <2> QED BY <1>3, <2>2 DEF At, Accumulates
<1> QED BY <1>2, <1>3

(* What a batch is worth is a natural number.                              *)
LEMMA WorthOK ==
  ASSUME NEW q, Accumulates(q), NEW i \in 0 .. Len(q), NEW j \in 0 .. Len(q), i <= j,
         NEW rate \in Nat
  PROVE  /\ Worth(CalcBatch(q, i, j), rate) \in Nat
         /\ CalcBatch(q, i, j).shares \in Nat
<1> DEFINE batch == CalcBatch(q, i, j)
<1>1. batch.bACE \in Nat /\ batch.shares \in Nat
  BY AtOK, AtGrows DEF CalcBatch
<1> HIDE DEF batch
<1>2. batch.shares * rate \in Nat /\ E27_PRECISION_BASE \in Nat /\ E27_PRECISION_BASE > 0
  BY <1>1, PrecisionAssumption
<1> DEFINE n == batch.shares * rate
<1>3. n \div E27_PRECISION_BASE \in Nat
  <2>1. n \in Int /\ n >= 0
    BY <1>2
  <2> HIDE DEF n
  <2> QED BY <1>2, <2>1, Division
<1>4. Worth(batch, rate) \in Nat
  BY <1>1, <1>3 DEF Worth
<1> QED BY <1>1, <1>4 DEF batch

(* Batches in ascending order are later than the first.                    *)
LEMMA LastBatch ==
  ASSUME NEW n \in Nat, NEW batches \in Seq(1 .. n), batches # <<>>,
         \A i \in 1 .. Len(batches) - 1 : batches[i] < batches[i + 1]
  PROVE  Last(batches) \in 1 .. n /\ batches[1] <= Last(batches)
<1>1. Len(batches) \in Nat /\ Len(batches) >= 1
  BY LenProperties, EmptySeq
<1>2. \A i \in 1 .. Len(batches) : batches[i] \in 1 .. n
  BY ElementOfSeq
<1> DEFINE C == {i \in 1 .. Len(batches) : ~(batches[1] <= batches[i])}
<1>3. ASSUME C # {} PROVE FALSE
  <2>1. C \in SUBSET Nat
    BY <1>1
  <2>2. PICK i \in C : \A j \in C : i <= j
    <3> HIDE DEF C
    <3> QED BY <1>3, <2>1, SmallestNumber
  <2>3. i \in 1 .. Len(batches) /\ ~(batches[1] <= batches[i])
    BY <2>2
  <2>4. i # 1
    BY <1>1, <1>2, <2>3
  <2>5. i - 1 \in 1 .. Len(batches) - 1 /\ i - 1 \in 1 .. Len(batches) /\ (i - 1) + 1 = i
    BY <1>1, <2>3, <2>4
  <2>6. batches[1] <= batches[i - 1]
    BY <2>2, <2>5
  <2>7. batches[i - 1] < batches[i]
    BY <2>5
  <2>8. batches[1] \in Nat /\ batches[i - 1] \in Nat /\ batches[i] \in Nat
    BY <1>1, <1>2, <2>3, <2>5
  <2> QED BY <2>3, <2>6, <2>7, <2>8
<1>4. Len(batches) \in 1 .. Len(batches)
  BY <1>1
<1>5. batches[1] <= batches[Len(batches)]
  BY <1>3, <1>4
<1> QED BY <1>2, <1>4, <1>5 DEF Last

(* The ends of the batches that the queue accepts. *)
LEMMA BatchBounds ==
  ASSUME NEW q, Accumulates(q), NEW last \in 0 .. Len(q), NEW batches \in Seq(1 .. Len(q)),
         NEW rate \in Nat, CanPrefinalize(q, last, batches, rate), NEW i \in DOMAIN batches
  PROVE  LET from == IF i = 1 THEN last ELSE batches[i - 1]
         IN  from \in 0 .. Len(q) /\ batches[i] \in 0 .. Len(q) /\ from < batches[i]
<1> DEFINE from == IF i = 1 THEN last ELSE batches[i - 1]
<1>1. Len(q) \in Nat
  BY LenProperties DEF Accumulates
<1>2. /\ batches # <<>> /\ batches[1] > last
      /\ \A k \in 1 .. Len(batches) - 1 : batches[k] < batches[k + 1]
  BY DEF CanPrefinalize
<1>3. /\ Len(batches) \in Nat /\ i \in 1 .. Len(batches)
      /\ \A k \in 1 .. Len(batches) : batches[k] \in 1 .. Len(q)
  BY LenProperties, ElementOfSeq
<1>4. batches[i] \in 0 .. Len(q)
  BY <1>1, <1>3
<1>5. CASE i = 1
  BY <1>1, <1>2, <1>3, <1>4, <1>5
<1>6. CASE i # 1
  <2>1. i - 1 \in 1 .. Len(batches) - 1 /\ i - 1 \in 1 .. Len(batches) /\ (i - 1) + 1 = i
    BY <1>3, <1>6
  <2>2. batches[i - 1] < batches[i] /\ batches[i - 1] \in 1 .. Len(q)
    BY <1>2, <1>3, <2>1
  <2> QED BY <1>1, <1>4, <1>6, <2>2
<1> QED BY <1>5, <1>6

(* The ace to lock is the sum over the batches.                            *)
LocksOf(q, last, batches, rate) ==
  [i \in DOMAIN batches |-> Worth(BatchOf(q, last, batches, i), rate)]

LEMMA PrefinalizeSum ==
  ASSUME NEW q, NEW last, NEW n, NEW batches \in Seq(n), NEW rate
  PROVE  /\ DOMAIN batches = 1 .. Len(batches) /\ Len(batches) \in Nat
         /\ IsFiniteSet(DOMAIN batches)
         /\ Prefinalize(q, last, batches, rate)
              = SumOf(LocksOf(q, last, batches, rate), DOMAIN batches)
<1> DEFINE S == DOMAIN batches
           E(i) == Worth(BatchOf(q, last, batches, i), rate)
           f == [i \in S |-> E(i)]
           c(s) == CHOOSE x \in s : TRUE
           k == CHOOSE g : g = [s \in SUBSET S |->
                  IF s = {} THEN 0 ELSE E(c(s)) + g[s \ {c(s)}]]
<1>1. S = 1 .. Len(batches) /\ Len(batches) \in Nat
  BY LenProperties
<1>2. IsFiniteSet(S)
  BY <1>1, FS_Interval
<1>3. Prefinalize(q, last, batches, rate) = k[S]
  BY DEF Prefinalize, MapThenSumSet, MapThenFoldSet
<1>4. PICK h : Iterates(h, f, S)
  BY <1>2, IterationExists
<1>5. \A s \in SUBSET S : s # {} => f[c(s)] = E(c(s))
  <2>1. \A s \in SUBSET S : s # {} => c(s) \in S
    OBVIOUS
  <2> HIDE DEF c, E, S
  <2> QED BY <2>1
<1>6. h = [s \in SUBSET S |-> IF s = {} THEN 0 ELSE E(c(s)) + h[s \ {c(s)}]]
  <2>1. h = [s \in SUBSET S |-> IF s = {} THEN 0 ELSE f[c(s)] + h[s \ {c(s)}]]
    BY <1>4 DEF Iterates
  <2> HIDE DEF c, E, S, f
  <2> QED BY <1>5, <2>1
<1>7. k = [s \in SUBSET S |-> IF s = {} THEN 0 ELSE E(c(s)) + k[s \ {c(s)}]]
  <2> HIDE DEF c, E, S
  <2> QED BY <1>6
<1>8. k = [s \in SUBSET S |-> IF s = {} THEN 0 ELSE f[c(s)] + k[s \ {c(s)}]]
  <2> HIDE DEF c, E, S, f, k
  <2> QED BY <1>5, <1>7
<1>9. Iterates(k, f, S)
  <2> HIDE DEF k, f, S
  <2> QED BY <1>8 DEF Iterates
<1> HIDE DEF k
<1>10. SumOf(f, S) = k[S]
  <2> HIDE DEF f, S
  <2> QED BY <1>2, <1>9, SumIsIterated
<1> QED BY <1>1, <1>2, <1>3, <1>10 DEF LocksOf

(* The ace to lock and the shares to burn for batches that the queue       *)
(* accepts.                                                                *)
LEMMA PrefinalizeOK ==
  ASSUME NEW q, Accumulates(q), NEW last \in 0 .. Len(q), NEW batches \in Seq(1 .. Len(q)),
         NEW rate \in Nat, CanPrefinalize(q, last, batches, rate)
  PROVE  /\ Prefinalize(q, last, batches, rate) \in Nat
         /\ Last(batches) \in 1 .. Len(q) /\ last < Last(batches)
         /\ CalcBatch(q, last, Last(batches)).shares \in Nat
<1>1. Len(q) \in Nat
  BY LenProperties DEF Accumulates
<1>2. /\ batches # <<>> /\ batches[1] > last
      /\ \A i \in 1 .. Len(batches) - 1 : batches[i] < batches[i + 1]
  BY DEF CanPrefinalize
<1>3. Last(batches) \in 1 .. Len(q) /\ batches[1] <= Last(batches)
  <2> DEFINE n == Len(q)
  <2>1. n \in Nat /\ batches \in Seq(1 .. n)
    BY <1>1
  <2> HIDE DEF n
  <2>2. Last(batches) \in 1 .. n /\ batches[1] <= Last(batches)
    BY <1>2, <2>1, LastBatch
  <2> QED BY <2>2 DEF n
<1>4. Len(batches) \in Nat /\ Len(batches) >= 1 /\ DOMAIN batches = 1 .. Len(batches)
      /\ \A i \in 1 .. Len(batches) : batches[i] \in 1 .. Len(q)
  BY <1>2, LenProperties, EmptySeq, ElementOfSeq
<1>5. last < Last(batches)
  BY <1>1, <1>2, <1>3, <1>4
<1>6. CalcBatch(q, last, Last(batches)).shares \in Nat
  <2>1. Last(batches) \in 0 .. Len(q) /\ last <= Last(batches)
    BY <1>1, <1>3, <1>5
  <2> QED BY <2>1, WorthOK
<1> DEFINE f == LocksOf(q, last, batches, rate)
<1>7. \A i \in DOMAIN batches : f[i] \in Nat
  <2> SUFFICES ASSUME NEW i \in DOMAIN batches PROVE f[i] \in Nat
    OBVIOUS
  <2> DEFINE from == IF i = 1 THEN last ELSE batches[i - 1]
  <2>1. from \in 0 .. Len(q) /\ batches[i] \in 0 .. Len(q) /\ from <= batches[i]
    <3>1. from \in 0 .. Len(q) /\ batches[i] \in 0 .. Len(q) /\ from < batches[i]
      BY BatchBounds
    <3> HIDE DEF from
    <3> QED BY <1>1, <3>1
  <2>2. f[i] = Worth(CalcBatch(q, from, batches[i]), rate)
    BY DEF LocksOf, BatchOf
  <2> HIDE DEF from, f
  <2> QED BY <2>1, <2>2, WorthOK
<1>8. Prefinalize(q, last, batches, rate) \in Nat
  <2> HIDE DEF f
  <2> QED BY <1>7, PrefinalizeSum, SumOfNaturals DEF f
<1> QED BY <1>3, <1>5, <1>6, <1>8

(* Every request takes some shares along. *)
SharesGrow(q) ==
  \A id \in 1 .. Len(q) : At(q, id - 1).cumulativeShares < At(q, id).cumulativeShares

(* A batch has shares, and is worth at most what was asked for.            *)
LEMMA WorthAtMost ==
  ASSUME NEW q, Accumulates(q), SharesGrow(q), NEW i \in 0 .. Len(q), NEW j \in 0 .. Len(q),
         i < j, NEW rate \in Nat
  PROVE  /\ Worth(CalcBatch(q, i, j), rate) \in Nat
         /\ Worth(CalcBatch(q, i, j), rate)
              <= At(q, j).cumulativeBACE - At(q, i).cumulativeBACE
<1> DEFINE batch == CalcBatch(q, i, j)
           b == At(q, j).cumulativeBACE - At(q, i).cumulativeBACE
           s == At(q, j).cumulativeShares - At(q, i).cumulativeShares
           E == E27_PRECISION_BASE
           w == (s * rate) \div E
           sr == (b * E) \div s
<1>1. Len(q) \in Nat /\ i \in Nat /\ j \in Nat /\ i <= j
  BY LenProperties DEF Accumulates
<1>2. b \in Nat /\ Worth(batch, rate) \in Nat
  <2>1. Worth(batch, rate) \in Nat
    BY <1>1, WorthOK
  <2>2. b \in Nat
    BY <1>1, AtOK, AtGrows
  <2> QED BY <2>1, <2>2
<1>3. s \in Nat /\ s > 0
  <2>1. j - 1 \in 0 .. Len(q) /\ i <= j - 1 /\ j \in 1 .. Len(q)
    BY <1>1
  <2>2. At(q, i).cumulativeShares <= At(q, j - 1).cumulativeShares
    BY <2>1, AtGrows
  <2>3. At(q, j - 1).cumulativeShares < At(q, j).cumulativeShares
    BY <2>1 DEF SharesGrow
  <2>4. At(q, i).cumulativeShares \in Nat /\ At(q, j).cumulativeShares \in Nat
        /\ At(q, j - 1).cumulativeShares \in Nat
    BY <2>1, AtOK
  <2> QED BY <2>2, <2>3, <2>4
<1>4. batch.bACE = b /\ batch.shares = s /\ batch.shareRate = sr
  BY DEF CalcBatch
<1>5. E \in Nat /\ E > 0
  BY PrecisionAssumption
<1> HIDE DEF batch, b, s, E
<1>6. CASE batch.shareRate > rate
  <2>1. Worth(batch, rate) = w
    BY <1>4, <1>6 DEF Worth, E
  <2>2. b * E \in Nat /\ s * rate \in Nat
    BY <1>2, <1>3, <1>5
  <2>3. s * sr <= b * E /\ sr \in Int
    <3> DEFINE n == b * E
    <3>1. n \in Int
      BY <2>2
    <3> HIDE DEF n
    <3>2. s * (n \div s) <= n /\ n \div s \in Int
      BY <1>3, <3>1, Division
    <3> QED BY <3>2 DEF n
  <2>4. E * w <= s * rate /\ w \in Int
    <3> DEFINE n == s * rate
    <3>1. n \in Int
      BY <2>2
    <3> HIDE DEF n
    <3>2. E * (n \div E) <= n /\ n \div E \in Int
      BY <1>5, <3>1, Division
    <3> QED BY <3>2 DEF n
  <2> HIDE DEF w, sr
  <2>5. s * rate <= s * sr /\ s * sr \in Int
    <3>1. rate <= sr /\ rate \in Int
      BY <1>4, <1>6, <2>3
    <3>2. s * rate <= s * sr /\ sr * s \in Int /\ s * sr = sr * s
      BY <1>3, <2>3, <3>1, Factor
    <3> QED BY <3>2
  <2>6. E * w <= b * E /\ E * w \in Int
    <3>1. E * w \in Int
      BY <1>5, <2>4
    <3> QED BY <2>2, <2>3, <2>4, <2>5, <3>1
  <2>7. w <= b
    <3> SUFFICES ASSUME ~(w <= b) PROVE FALSE
      OBVIOUS
    <3>1. b + 1 <= w /\ b + 1 \in Int
      BY <1>2, <2>4
    <3>2. E * (b + 1) <= E * w
      BY <1>5, <2>4, <3>1, Factor
    <3>3. E * (b + 1) = b * E + E
      BY <1>2, <1>5
    <3> QED BY <1>5, <2>2, <2>6, <3>2, <3>3
  <2> QED BY <1>2, <2>1, <2>7 DEF batch, b
<1>7. CASE ~(batch.shareRate > rate)
  <2>1. Worth(batch, rate) = b
    BY <1>4, <1>7 DEF Worth
  <2> QED BY <1>2, <2>1 DEF batch, b
<1> QED BY <1>6, <1>7

(* What each request is worth at a rate. *)
WorthOf(q, rate) == [id \in 1 .. Len(q) |-> Worth(RequestOf(q, id), rate)]

(* They are numbers.                                                       *)
LEMMA WorthOfOK ==
  ASSUME NEW q, Accumulates(q), NEW rate \in Nat
  PROVE  \A id \in 1 .. Len(q) : /\ WorthOf(q, rate)[id] = Worth(RequestOf(q, id), rate)
                                 /\ WorthOf(q, rate)[id] \in Nat
<1> SUFFICES ASSUME NEW id \in 1 .. Len(q) PROVE Worth(RequestOf(q, id), rate) \in Nat
  BY DEF WorthOf
<1>1. Len(q) \in Nat
  BY LenProperties DEF Accumulates
<1>2. id - 1 \in 0 .. Len(q) /\ id \in 0 .. Len(q) /\ id - 1 <= id
  BY <1>1
<1> QED BY <1>2, WorthOK DEF RequestOf

(* The sum over a set of requests as the property states it.               *)
LEMMA WorthSum ==
  ASSUME NEW q, NEW rate, NEW S, IsFiniteSet(S), S \subseteq 1 .. Len(q)
  PROVE  MapThenSumSet(LAMBDA id : Worth(RequestOf(q, id), rate), S) = SumOf(WorthOf(q, rate), S)
<1> DEFINE f == WorthOf(q, rate)
           E(i) == Worth(RequestOf(q, i), rate)
           c(s) == CHOOSE x \in s : TRUE
           k == CHOOSE g : g = [s \in SUBSET S |->
                  IF s = {} THEN 0 ELSE E(c(s)) + g[s \ {c(s)}]]
<1>1. MapThenSumSet(LAMBDA id : Worth(RequestOf(q, id), rate), S) = k[S]
  BY DEF MapThenSumSet, MapThenFoldSet
<1>2. PICK h : Iterates(h, f, S)
  BY IterationExists
<1>3. \A s \in SUBSET S : s # {} => f[c(s)] = E(c(s))
  <2>1. \A s \in SUBSET S : s # {} => c(s) \in 1 .. Len(q)
    OBVIOUS
  <2> HIDE DEF c
  <2> QED BY <2>1 DEF WorthOf
<1>4. h = [s \in SUBSET S |-> IF s = {} THEN 0 ELSE E(c(s)) + h[s \ {c(s)}]]
  <2>1. h = [s \in SUBSET S |-> IF s = {} THEN 0 ELSE f[c(s)] + h[s \ {c(s)}]]
    BY <1>2 DEF Iterates
  <2> HIDE DEF c, E, f
  <2> QED BY <1>3, <2>1
<1>5. k = [s \in SUBSET S |-> IF s = {} THEN 0 ELSE E(c(s)) + k[s \ {c(s)}]]
  <2> HIDE DEF c, E
  <2> QED BY <1>4
<1>6. k = [s \in SUBSET S |-> IF s = {} THEN 0 ELSE f[c(s)] + k[s \ {c(s)}]]
  <2> HIDE DEF c, E, f, k
  <2> QED BY <1>3, <1>5
<1>7. Iterates(k, f, S)
  <2> HIDE DEF k, f
  <2> QED BY <1>6 DEF Iterates
<1> HIDE DEF k, f
<1>8. SumOf(f, S) = k[S]
  BY <1>7, SumIsIterated
<1> QED BY <1>1, <1>8 DEF f

(* Requests in a row are worth at most what was asked for them.            *)
LEMMA ChargedAtMost ==
  ASSUME NEW q, Accumulates(q), SharesGrow(q), NEW rate \in Nat,
         NEW p \in 0 .. Len(q), NEW r \in 0 .. Len(q), p <= r
  PROVE  /\ SumOf(WorthOf(q, rate), p + 1 .. r) \in Nat
         /\ SumOf(WorthOf(q, rate), p + 1 .. r)
              <= At(q, r).cumulativeBACE - At(q, p).cumulativeBACE
<1> DEFINE f == WorthOf(q, rate)
           a == [i \in 0 .. Len(q) |-> At(q, i).cumulativeBACE]
<1>1. Len(q) \in Nat /\ p \in Nat /\ r \in Nat
  BY LenProperties DEF Accumulates
<1>2. \A i \in p .. r : a[i] \in Int
  BY <1>1, AtOK
<1>3. \A i \in p + 1 .. r : f[i] \in Nat /\ f[i] \in Int /\ f[i] <= a[i] - a[i - 1]
  <2> SUFFICES ASSUME NEW i \in p + 1 .. r
               PROVE  f[i] \in Nat /\ f[i] \in Int /\ f[i] <= a[i] - a[i - 1]
    OBVIOUS
  <2>1. i \in 1 .. Len(q) /\ i \in 0 .. Len(q) /\ i - 1 \in 0 .. Len(q) /\ i - 1 < i
    BY <1>1
  <2>2. f[i] = Worth(CalcBatch(q, i - 1, i), rate)
    BY <2>1 DEF WorthOf, RequestOf
  <2>3. a[i] = At(q, i).cumulativeBACE /\ a[i - 1] = At(q, i - 1).cumulativeBACE
    BY <2>1
  <2>4. /\ Worth(CalcBatch(q, i - 1, i), rate) \in Nat
        /\ Worth(CalcBatch(q, i - 1, i), rate)
             <= At(q, i).cumulativeBACE - At(q, i - 1).cumulativeBACE
    BY <2>1, WorthAtMost
  <2> HIDE DEF f, a
  <2> QED BY <2>2, <2>3, <2>4
<1>4. a[r] = At(q, r).cumulativeBACE /\ a[p] = At(q, p).cumulativeBACE
  OBVIOUS
<1> HIDE DEF f, a
<1>5. SumOf(f, p + 1 .. r) <= a[r] - a[p]
  BY <1>1, <1>2, <1>3, SumTelescopes
<1>6. SumOf(f, p + 1 .. r) \in Nat
  <2>1. IsFiniteSet(p + 1 .. r)
    <3>1. p + 1 \in Int /\ r \in Int
      BY <1>1
    <3> QED BY <3>1, FS_Interval
  <2> QED BY <1>3, <2>1, SumOfNaturals
<1> QED BY <1>4, <1>5, <1>6 DEF f

(* What is locked for batches was asked for.                               *)
LEMMA LockAtMost ==
  ASSUME NEW q, Accumulates(q), SharesGrow(q), NEW last \in 0 .. Len(q),
         NEW batches \in Seq(1 .. Len(q)), NEW rate \in Nat,
         CanPrefinalize(q, last, batches, rate)
  PROVE  Prefinalize(q, last, batches, rate) <= CalcBatch(q, last, Last(batches)).bACE
<1> DEFINE n == Len(batches)
           id(i) == IF i = 0 THEN last ELSE batches[i]
           f == LocksOf(q, last, batches, rate)
           a == [i \in 0 .. n |-> At(q, id(i)).cumulativeBACE]
<1>1. n \in Nat /\ DOMAIN batches = 1 .. n /\ n > 0
      /\ Prefinalize(q, last, batches, rate) = SumOf(f, 1 .. n)
  <2>1. batches # <<>>
    BY DEF CanPrefinalize
  <2>2. n # 0
    BY <2>1, EmptySeq
  <2> QED BY <2>2, PrefinalizeSum
<1>2. \A i \in 0 .. n : a[i] = At(q, id(i)).cumulativeBACE
  OBVIOUS
<1>3. \A i \in 1 .. n : f[i] \in Int /\ f[i] <= a[i] - a[i - 1] /\ a[i] \in Int /\ a[i - 1] \in Int
  <2> SUFFICES ASSUME NEW i \in 1 .. n
               PROVE  f[i] \in Int /\ f[i] <= a[i] - a[i - 1] /\ a[i] \in Int /\ a[i - 1] \in Int
    OBVIOUS
  <2> DEFINE from == IF i = 1 THEN last ELSE batches[i - 1]
  <2>1. from \in 0 .. Len(q) /\ batches[i] \in 0 .. Len(q) /\ from < batches[i]
    BY <1>1, BatchBounds
  <2>2. i \in 0 .. n /\ i - 1 \in 0 .. n /\ i # 0 /\ (i - 1 = 0 <=> i = 1)
    BY <1>1
  <2>3. id(i) = batches[i] /\ id(i - 1) = from
    BY <2>2
  <2>4. a[i] = At(q, batches[i]).cumulativeBACE /\ a[i - 1] = At(q, from).cumulativeBACE
    <3> HIDE DEF id, from, a
    <3> QED BY <1>2, <2>2, <2>3
  <2>5. f[i] = Worth(CalcBatch(q, from, batches[i]), rate)
    BY <1>1 DEF LocksOf, BatchOf
  <2> HIDE DEF id, from, a, f
  <2>6. /\ Worth(CalcBatch(q, from, batches[i]), rate) \in Nat
        /\ Worth(CalcBatch(q, from, batches[i]), rate)
             <= At(q, batches[i]).cumulativeBACE - At(q, from).cumulativeBACE
    BY <2>1, WorthAtMost
  <2>7. At(q, batches[i]).cumulativeBACE \in Nat /\ At(q, from).cumulativeBACE \in Nat
    BY <2>1, AtOK
  <2> QED BY <2>4, <2>5, <2>6, <2>7
<1>4. a[0] = At(q, last).cumulativeBACE /\ a[n] = At(q, Last(batches)).cumulativeBACE
  BY <1>1, <1>2 DEF Last
<1>5. \A i \in 0 .. n : a[i] \in Int
  <2> SUFFICES ASSUME NEW i \in 0 .. n PROVE a[i] \in Int
    OBVIOUS
  <2>1. i = 0 => a[i] = a[1 - 1] /\ 1 \in 1 .. n
    BY <1>1
  <2>2. i # 0 => i \in 1 .. n
    BY <1>1
  <2> HIDE DEF a, n, f
  <2> QED BY <1>3, <2>1, <2>2
<1> HIDE DEF a, n, f, id
<1>6. SumOf(f, 0 + 1 .. n) <= a[n] - a[0]
  <2>1. 0 \in Nat /\ 0 <= n /\ 0 + 1 = 1
    BY <1>1
  <2> QED BY <1>1, <1>3, <1>5, <2>1, SumTelescopes
<1>7. SumOf(f, 1 .. n) <= a[n] - a[0]
  BY <1>6
<1> QED BY <1>1, <1>4, <1>7 DEF CalcBatch

(* A round of the loop over the requests keeps the batches within the      *)
(* queue.                                                                  *)
BatchStates(q) == [remainingAceBudget : Int, batches : Seq(1 .. Len(q)), stopped : BOOLEAN]

LEMMA RoundOK ==
  ASSUME NEW q, Accumulates(q), NEW rate \in Nat, NEW time, NEW st \in BatchStates(q),
         NEW id \in 1 .. Len(q)
  PROVE  HandleRequest(q, rate, time, st, id) \in BatchStates(q)
<1> DEFINE ace == Worth(RequestOf(q, id), rate)
           spent == [st EXCEPT !.remainingAceBudget = @ - ace]
<1>1. ace \in Nat
  <2>1. Len(q) \in Nat
    BY LenProperties DEF Accumulates
  <2>2. id - 1 \in 0 .. Len(q) /\ id \in 0 .. Len(q) /\ id - 1 <= id
    BY <2>1
  <2> QED BY <2>2, WorthOK DEF RequestOf
<1> HIDE DEF ace
<1>2. spent \in BatchStates(q) /\ spent.batches = st.batches
  BY <1>1 DEF BatchStates
<1>3. [st EXCEPT !.stopped = TRUE] \in BatchStates(q)
  BY DEF BatchStates
<1>4. [spent EXCEPT !.stopped = TRUE] \in BatchStates(q)
  <2> HIDE DEF spent
  <2> QED BY <1>2 DEF BatchStates
<1>5. [spent EXCEPT !.batches = Append(st.batches, id)] \in BatchStates(q)
  <2>1. Append(st.batches, id) \in Seq(1 .. Len(q))
    BY AppendProperties DEF BatchStates
  <2> HIDE DEF spent
  <2> QED BY <1>2, <2>1 DEF BatchStates
<1>6. ASSUME st.batches # <<>>
      PROVE  [spent EXCEPT !.batches[Len(st.batches)] = id] \in BatchStates(q)
  <2> DEFINE new == [st.batches EXCEPT ![Len(st.batches)] = id]
  <2>1. st.batches \in Seq(1 .. Len(q))
    BY DEF BatchStates
  <2>2. new \in Seq(1 .. Len(q))
    <3>1. Len(st.batches) \in 1 .. Len(st.batches)
      BY <1>6, <2>1, LenProperties, EmptySeq
    <3> QED BY <2>1, <3>1, ExceptSeq
  <2>3. [spent EXCEPT !.batches[Len(st.batches)] = id] = [spent EXCEPT !.batches = new]
    <3> HIDE DEF spent
    <3> QED BY <1>2
  <2> HIDE DEF spent, new
  <2> QED BY <1>2, <2>2, <2>3 DEF BatchStates
<1> QED BY <1>3, <1>4, <1>5, <1>6 DEF HandleRequest, ace

(* Batches that the queue accepts from the daemon: in ascending order,     *)
(* after what is finalized, and old enough.                                *)
Acceptable(q, last, time, batches) ==
  batches # <<>> =>
    /\ batches[1] > last
    /\ \A i \in 1 .. Len(batches) - 1 : batches[i] < batches[i + 1]
    /\ q[Last(batches)].timestamp <= time

(* The state of the loop after the request `id`: the requests batched so   *)
(* far are worth what was taken from the budget.                           *)
Chosen(q, rate, time, last, budget, id, st) ==
  /\ st \in BatchStates(q)
  /\ st.remainingAceBudget >= 0
  /\ Acceptable(q, last, time, st.batches)
  /\ st.batches # <<>> => Last(st.batches) \in last + 1 .. id
  /\ ~st.stopped => NextId(last, st.batches) = id + 1
  /\ SumOf(WorthOf(q, rate), last + 1 .. NextId(last, st.batches) - 1)
       + st.remainingAceBudget <= budget

(* A round of the loop keeps that: a request is batched when the budget    *)
(* still has its worth, and otherwise the loop stops.                      *)
LEMMA RoundChosen ==
  ASSUME NEW q, Accumulates(q), NEW rate \in Nat, NEW time \in Int, NEW last \in 0 .. Len(q),
         NEW budget \in Int, NEW st, NEW id \in last + 1 .. Len(q),
         Chosen(q, rate, time, last, budget, id - 1, st)
  PROVE  Chosen(q, rate, time, last, budget, id, HandleRequest(q, rate, time, st, id))
<1> DEFINE ace == Worth(RequestOf(q, id), rate)
           b == st.batches
           f == WorthOf(q, rate)
           new == HandleRequest(q, rate, time, st, id)
           spent == [st EXCEPT !.remainingAceBudget = @ - ace]
           extends == b # <<>> /\ ExtendsBatch(q, id, rate)
           refused == st.stopped \/ q[id].timestamp > time \/ ace > st.remainingAceBudget
           left == st.remainingAceBudget
           sum(B) == SumOf(f, last + 1 .. NextId(last, B) - 1)
<1>1. /\ Len(q) \in Nat /\ last \in Nat /\ id \in 1 .. Len(q) /\ id \in Nat /\ id > last
      /\ id <= Len(q)
  <2>1. Len(q) \in Nat
    BY LenProperties DEF Accumulates
  <2> QED BY <2>1
<1>2. ace \in Nat /\ f[id] = ace
  BY <1>1, WorthOfOK
<1>3. /\ st \in BatchStates(q) /\ b \in Seq(1 .. Len(q)) /\ left \in Int /\ left >= 0
      /\ Acceptable(q, last, time, b)
      /\ b # <<>> => Last(b) \in last + 1 .. id - 1
      /\ ~st.stopped => NextId(last, b) = id - 1 + 1
      /\ sum(b) + left <= budget
  BY DEF Chosen, BatchStates
<1>4. new \in BatchStates(q)
  BY <1>1, <1>3, RoundOK
<1>5. /\ Len(b) \in Nat /\ \A k \in 1 .. Len(b) : b[k] \in 1 .. Len(q)
      /\ b # <<>> => Len(b) # 0
  BY <1>3, LenProperties, ElementOfSeq, EmptySeq
<1>6. \A p \in Nat : p >= last /\ p <= Len(q) => SumOf(f, last + 1 .. p) \in Int
  <2> SUFFICES ASSUME NEW p \in Nat, p >= last, p <= Len(q) PROVE SumOf(f, last + 1 .. p) \in Int
    OBVIOUS
  <2>1. IsFiniteSet(last + 1 .. p)
    <3>1. last + 1 \in Int /\ p \in Int
      BY <1>1
    <3> QED BY <3>1, FS_Interval
  <2>2. \A x \in last + 1 .. p : x \in 1 .. Len(q)
    BY <1>1
  <2> HIDE DEF f
  <2>3. \A x \in last + 1 .. p : f[x] \in Int
    BY <2>2, WorthOfOK DEF f
  <2> QED BY <2>1, <2>3, SumType
<1>7. /\ b # <<>> => Last(b) = b[Len(b)] /\ Last(b) \in Nat /\ Last(b) >= last /\ Last(b) <= Len(q)
      /\ NextId(last, b) - 1 \in Nat /\ NextId(last, b) - 1 >= last /\ NextId(last, b) - 1 <= Len(q)
  <2>1. b # <<>> => Last(b) = b[Len(b)] /\ Last(b) \in Nat /\ Last(b) >= last /\ Last(b) <= Len(q)
    BY <1>1, <1>3, <1>5 DEF Last
  <2> QED BY <1>1, <2>1 DEF NextId
<1>8. sum(b) \in Int
  BY <1>6, <1>7
<1> HIDE DEF sum
(* The loop ends, and at most the budget is charged once more. *)
<1>9. ASSUME new.batches = b, new.stopped, new.remainingAceBudget \in {left, left - ace},
             new.remainingAceBudget >= 0
      PROVE  Chosen(q, rate, time, last, budget, id, new)
  <2>1. b # <<>> => Last(b) \in last + 1 .. id
    BY <1>1, <1>3
  <2>2. sum(b) + new.remainingAceBudget <= budget
    <3> HIDE DEF ace, left
    <3>1. CASE new.remainingAceBudget = left
      BY <1>3, <3>1
    <3>2. CASE new.remainingAceBudget = left - ace
      BY <1>2, <1>3, <1>8, <3>2
    <3> QED BY <1>9, <3>1, <3>2
  <2> HIDE DEF b, new, left
  <2> QED BY <1>3, <1>4, <1>9, <2>1, <2>2 DEF Chosen, sum, f
<1>10. CASE refused
  <2>1. new = [st EXCEPT !.stopped = TRUE]
    BY <1>10 DEF HandleRequest
  <2>2. new.batches = b /\ new.stopped /\ new.remainingAceBudget = left
    <3> HIDE DEF new
    <3> QED BY <1>3, <2>1 DEF BatchStates
  <2> QED BY <1>3, <1>9, <2>2
<1>11. CASE ~refused
  <2>1. /\ ~st.stopped /\ q[id].timestamp <= time /\ left - ace >= 0
        /\ NextId(last, b) = id /\ left - ace \in Int
    <3>1. q[id].timestamp \in Nat
      <4>1. q \in Seq(Requests)
        BY DEF Accumulates
      <4>2. q[id] \in Requests
        BY <1>1, <4>1, ElementOfSeq
      <4> QED BY <4>2 DEF Requests
    <3> HIDE DEF ace, b
    <3> QED BY <1>1, <1>2, <1>3, <1>11, <3>1
  <2>2. spent \in BatchStates(q) /\ spent.batches = b /\ spent.remainingAceBudget = left - ace
        /\ spent.stopped = st.stopped
    <3> HIDE DEF ace
    <3> QED BY <1>2, <1>3, <2>1 DEF BatchStates
  <2>3. ASSUME NEW c \in Seq(1 .. Len(q)), c # <<>>, Last(c) = id, new = [spent EXCEPT !.batches = c],
               c[1] > last, \A i \in 1 .. Len(c) - 1 : c[i] < c[i + 1]
        PROVE  Chosen(q, rate, time, last, budget, id, new)
    <3>1. new.batches = c /\ new.remainingAceBudget = left - ace /\ new.stopped = st.stopped
      <4> HIDE DEF spent, new, ace
      <4> QED BY <2>2, <2>3 DEF BatchStates
    <3>2. Acceptable(q, last, time, c)
      BY <2>1, <2>3 DEF Acceptable
    <3>3. NextId(last, c) = id + 1 /\ NextId(last, c) - 1 = id
      BY <1>1, <2>3 DEF NextId
    <3>4. sum(c) = ace + sum(b)
      <4> DEFINE S == last + 1 .. id
      <4>1. sum(c) = SumOf(f, S)
        BY <3>3 DEF sum
      <4>2. sum(b) = SumOf(f, S \ {id})
        <5>1. S \ {id} = last + 1 .. id - 1
          BY <1>1
        <5> QED BY <2>1, <5>1 DEF sum
      <4>3. IsFiniteSet(S) /\ id \in S /\ \A x \in S : x \in 1 .. Len(q)
        <5>1. last + 1 \in Int /\ id \in Int
          BY <1>1
        <5>2. IsFiniteSet(S)
          BY <5>1, FS_Interval
        <5> QED BY <1>1, <5>2
      <4>4. \A x \in S : f[x] \in Int
        BY <4>3, WorthOfOK
      <4> HIDE DEF S, f
      <4>5. SumOf(f, S) = f[id] + SumOf(f, S \ {id})
        BY <4>3, <4>4, SumStep
      <4> QED BY <1>2, <4>1, <4>2, <4>5
    <3>5. sum(c) + (left - ace) <= budget
      <4> HIDE DEF ace, left
      <4> QED BY <1>2, <1>3, <1>8, <3>4
    <3>6. id \in last + 1 .. id
      BY <1>1
    <3> HIDE DEF new, ace, left
    <3> QED BY <1>4, <2>1, <2>3, <3>1, <3>2, <3>3, <3>5, <3>6 DEF Chosen, sum, f
  <2>4. CASE extends
    <3> DEFINE c == [b EXCEPT ![Len(b)] = id]
               n == Len(b)
    <3>1. n \in 1 .. n /\ b[n] = id - 1 /\ b # <<>>
      BY <1>1, <1>5, <1>7, <2>1, <2>4 DEF NextId
    <3>2. c \in Seq(1 .. Len(q)) /\ Len(c) = n
      BY <1>1, <1>3, <3>1, ExceptSeq
    <3>3. /\ c # <<>> /\ Last(c) = id
          /\ \A k \in 1 .. n : c[k] = IF k = n THEN id ELSE b[k]
      <4>1. \A k \in 1 .. n : c[k] = IF k = n THEN id ELSE b[k]
        BY <1>3, LenProperties
      <4>2. c # <<>>
        BY <3>1, <3>2, EmptySeq
      <4> HIDE DEF c
      <4> QED BY <3>1, <3>2, <4>1, <4>2 DEF Last
    <3>4. new = [spent EXCEPT !.batches[Len(st.batches)] = id]
      BY <1>11, <2>4 DEF HandleRequest
    <3>5. [spent EXCEPT !.batches[Len(st.batches)] = id] = [spent EXCEPT !.batches = c]
      <4> HIDE DEF spent
      <4> QED BY <2>2
    <3> HIDE DEF c
    <3>6. c[1] > last
      <4>1. CASE n = 1
        BY <1>1, <3>3, <4>1
      <4>2. CASE n # 1
        <5>1. b[1] > last
          BY <1>3, <3>1 DEF Acceptable
        <5>2. 1 \in 1 .. n
          BY <1>5, <3>1
        <5>3. c[1] = b[1]
          BY <3>3, <4>2, <5>2
        <5> QED BY <5>1, <5>3
      <4> QED BY <4>1, <4>2
    <3>7. ASSUME NEW i \in 1 .. Len(c) - 1 PROVE c[i] < c[i + 1]
      <4>1. i \in 1 .. n - 1 /\ i \in 1 .. n /\ i + 1 \in 1 .. n /\ i # n
        BY <1>5, <3>2
      <4>2. b[i] < b[i + 1] /\ b[i] \in 1 .. Len(q) /\ b[i + 1] \in 1 .. Len(q)
        BY <1>3, <1>5, <3>1, <4>1 DEF Acceptable
      <4>3. CASE i + 1 = n
        <5>1. c[i] = b[i] /\ c[i + 1] = id /\ b[i + 1] = id - 1
          BY <3>1, <3>3, <4>1, <4>3
        <5> QED BY <1>1, <4>2, <5>1
      <4>4. CASE i + 1 # n
        BY <3>3, <4>1, <4>2, <4>4
      <4> QED BY <4>3, <4>4
    <3> HIDE DEF new, spent
    <3> QED BY <2>3, <3>2, <3>3, <3>4, <3>5, <3>6, <3>7 DEF new
  <2>5. CASE ~extends /\ Len(b) = MAX_BATCHES_LENGTH
    <3>1. new = [spent EXCEPT !.stopped = TRUE]
      BY <1>11, <2>5 DEF HandleRequest
    <3>2. new.batches = b /\ new.stopped /\ new.remainingAceBudget = left - ace
      <4> HIDE DEF new, spent, ace
      <4> QED BY <2>2, <3>1 DEF BatchStates
    <3> QED BY <1>9, <2>1, <3>2
  <2>6. CASE ~extends /\ Len(b) # MAX_BATCHES_LENGTH
    <3> DEFINE c == Append(b, id)
               n == Len(b)
    <3>1. new = [spent EXCEPT !.batches = c]
      BY <1>11, <2>6 DEF HandleRequest
    <3>2. /\ c \in Seq(1 .. Len(q)) /\ Len(c) = n + 1 /\ c[n + 1] = id
          /\ \A k \in 1 .. n : c[k] = b[k]
      BY <1>1, <1>3, AppendProperties
    <3> HIDE DEF c
    <3>3. c # <<>> /\ Last(c) = id
      BY <1>5, <3>2, EmptySeq DEF Last
    <3>4. b # <<>> => b[n] = id - 1 /\ n \in 1 .. n
      BY <1>1, <1>5, <1>7, <2>1 DEF NextId
    <3>5. c[1] > last
      <4>1. CASE b = <<>>
        BY <1>1, <3>2, <4>1, EmptySeq
      <4>2. CASE b # <<>>
        <5>1. b[1] > last
          BY <1>3, <4>2 DEF Acceptable
        <5>2. 1 \in 1 .. n
          BY <1>5, <4>2
        <5>3. c[1] = b[1]
          BY <3>2, <5>2
        <5> QED BY <5>1, <5>3
      <4> QED BY <4>1, <4>2
    <3>6. ASSUME NEW i \in 1 .. Len(c) - 1 PROVE c[i] < c[i + 1]
      <4>1. i \in 1 .. n /\ b # <<>>
        BY <1>5, <3>2, EmptySeq
      <4>2. CASE i = n
        <5>1. c[i] = id - 1 /\ c[i + 1] = id
          BY <3>2, <3>4, <4>1, <4>2
        <5> QED BY <1>1, <5>1
      <4>3. CASE i # n
        <5>1. i \in 1 .. n - 1 /\ i + 1 \in 1 .. n
          BY <1>5, <4>1, <4>3
        <5> QED BY <1>3, <3>2, <4>1, <5>1 DEF Acceptable
      <4> QED BY <4>2, <4>3
    <3> HIDE DEF new, spent
    <3> QED BY <2>3, <3>1, <3>2, <3>3, <3>5, <3>6 DEF new
  <2> QED BY <2>4, <2>5, <2>6
<1> QED BY <1>10, <1>11

(* The batches that the daemon chooses are identifiers of requests that    *)
(* the queue accepts, and the budget pays for them one by one.             *)
LEMMA DaemonBatches ==
  ASSUME NEW q, Accumulates(q), NEW last \in 0 .. Len(q), NEW rate \in Nat, NEW time \in Int,
         NEW max \in Nat, NEW budget \in Nat
  PROVE  LET b == CalculateFinalizationBatches(q, last, rate, time, max,
                    [remainingAceBudget |-> budget, batches |-> <<>>]).batches
         IN  /\ b \in Seq(1 .. Len(q))
             /\ Acceptable(q, last, time, b)
             /\ b # <<>> => /\ Last(b) \in last + 1 .. Len(q)
                            /\ SumOf(WorthOf(q, rate), last + 1 .. Last(b)) <= budget
<1> DEFINE first == last + 1
           upTo == IF first + max > Len(q) + 1 THEN Len(q) ELSE first + max - 1
           ids == [i \in 1 .. upTo + 1 - first |-> first + i - 1]
           base == [remainingAceBudget |-> budget, batches |-> <<>>, stopped |-> FALSE]
           S == DOMAIN ids
           T == BatchStates(q)
           Step(y, x) == HandleRequest(q, rate, time, y, ids[x])
           k == CHOOSE g : g = [s \in SUBSET S |->
                  IF s = {} THEN base ELSE Step(g[s \ {Max(s)}], Max(s))]
           c == [s \in SUBSET S |-> Max(s)]
           g == [p \in S \X T |-> Step(p[2], p[1])]
<1>1. Len(q) \in Nat
  BY LenProperties DEF Accumulates
<1> DEFINE n == upTo + 1 - first
<1>2. n \in Nat /\ last + n <= Len(q)
  <2>1. last \in Nat /\ last <= Len(q) /\ first = last + 1
    BY <1>1
  <2>2. CASE first + max > Len(q) + 1
    <3>1. upTo = Len(q)
      BY <2>2
    <3> HIDE DEF first, upTo
    <3>2. n = Len(q) - last
      BY <1>1, <2>1, <3>1
    <3> HIDE DEF n
    <3> QED BY <1>1, <2>1, <3>2
  <2>3. CASE ~(first + max > Len(q) + 1)
    <3>1. upTo = first + max - 1
      BY <2>3
    <3> HIDE DEF first, upTo
    <3>2. n = max
      BY <2>1, <3>1
    <3> HIDE DEF n
    <3> QED BY <1>1, <2>1, <2>3, <3>2
  <2> QED BY <2>2, <2>3
<1>3. S = 1 .. n /\ IsFiniteSet(S) /\ S \subseteq Nat
      /\ \A i \in S : ids[i] = last + i /\ ids[i] \in last + 1 .. Len(q) /\ ids[i] \in 1 .. Len(q)
  <2>1. S = 1 .. n /\ \A i \in 1 .. n : ids[i] = last + 1 + i - 1
    OBVIOUS
  <2> HIDE DEF n, ids, S
  <2>2. IsFiniteSet(S)
    BY <1>2, <2>1, FS_Interval
  <2>3. \A i \in 1 .. n : last + 1 + i - 1 = last + i /\ last + i \in last + 1 .. Len(q)
                          /\ last + i \in 1 .. Len(q)
    BY <1>1, <1>2
  <2>4. 1 .. n \subseteq Nat
    BY <1>2
  <2> QED BY <2>1, <2>2, <2>3, <2>4
<1>4. base \in T
  <2>1. <<>> \in Seq(1 .. Len(q))
    BY EmptySeq
  <2> QED BY <2>1 DEF BatchStates
<1>5. \A x \in S, y \in T : Step(y, x) \in T
  <2> HIDE DEF ids, S
  <2> QED BY <1>3, RoundOK
<1>6. \A s \in SUBSET S : s # {} => Max(s) \in s /\ \A y \in s : y <= Max(s)
  <2>1. n \in Int
    BY <1>2
  <2> HIDE DEF S, n
  <2> QED BY <1>3, <2>1, MaxOfSome
<1>7. Chooses(c, S)
  <2> HIDE DEF S
  <2> QED BY <1>6 DEF Chooses
<1>8. \A x \in S, y \in T : g[<<x, y>>] = Step(y, x)
  <2> HIDE DEF S, T, Step
  <2> QED OBVIOUS
<1>9. PICK h : Solves(h, g, c, base, S)
  <2> HIDE DEF g, c, base, S
  <2> QED BY <1>3, <1>7, FoldExists
<1>10. \A s \in SUBSET S : h[s] \in T
  <2>1. \A x \in S, y \in T : g[<<x, y>>] \in T
    <3> HIDE DEF S, T, g, Step
    <3> QED BY <1>5, <1>8
  <2> HIDE DEF g, c, base, S, T
  <2> QED BY <1>3, <1>4, <1>7, <1>9, <2>1, FoldType
<1>11. h = [s \in SUBSET S |-> IF s = {} THEN base ELSE Step(h[s \ {Max(s)}], Max(s))]
  <2>1. \A s \in SUBSET S : c[s] = Max(s)
    <3> HIDE DEF S
    <3> QED OBVIOUS
  <2>2. \A s \in SUBSET S : s # {} =>
           g[<<c[s], h[s \ {c[s]}]>>] = Step(h[s \ {Max(s)}], Max(s))
    <3> SUFFICES ASSUME NEW s \in SUBSET S, s # {}
                 PROVE  g[<<Max(s), h[s \ {Max(s)}]>>] = Step(h[s \ {Max(s)}], Max(s))
      BY <2>1
    <3>1. Max(s) \in S /\ h[s \ {Max(s)}] \in T
      <4> HIDE DEF S, T
      <4> QED BY <1>6, <1>10
    <3> HIDE DEF S, T, g, Step
    <3> QED BY <1>8, <3>1
  <2>3. h = [s \in SUBSET S |-> IF s = {} THEN base ELSE g[<<c[s], h[s \ {c[s]}]>>]]
    <3> HIDE DEF S, g, c, base
    <3> QED BY <1>9 DEF Solves
  <2> HIDE DEF S, g, c, base, Step
  <2> QED BY <2>2, <2>3
<1>12. k = [s \in SUBSET S |-> IF s = {} THEN base ELSE Step(k[s \ {Max(s)}], Max(s))]
  <2> HIDE DEF S, base, Step
  <2> QED BY <1>11
<1> DEFINE Holds(id, st) == Chosen(q, rate, time, last, budget, id, st)
<1>13. Holds(last + n, k[S])
  <2> DEFINE P == {j \in 0 .. n : Holds(last + j, k[1 .. j])}
  <2>1. 0 \in P
    <3> HIDE DEF S, Step, k, c, g, ids, n
    <3>1. 1 .. 0 = {} /\ {} \in SUBSET S /\ 0 \in 0 .. n /\ last + 0 = last
      BY <1>1, <1>2
    <3>2. k[{}] = base
      <4> HIDE DEF base
      <4> QED BY <1>12, <3>1
    <3>3. NextId(last, <<>>) = last + 1 /\ last + 1 .. NextId(last, <<>>) - 1 = {}
      BY <1>1 DEF NextId
    <3>4. SumOf(WorthOf(q, rate), last + 1 .. NextId(last, <<>>) - 1) = 0
      BY <3>3, SumEmpty
    <3>5. Holds(last, base)
      <4>1. /\ base.batches = <<>> /\ base.remainingAceBudget = budget
            /\ base.stopped = FALSE /\ base \in T
        BY <1>4
      <4> HIDE DEF base, T
      <4> QED BY <3>3, <3>4, <4>1 DEF Chosen, Acceptable, T
    <3> HIDE DEF base
    <3>6. Holds(last + 0, k[1 .. 0])
      BY <3>1, <3>2, <3>5
    <3> HIDE DEF Holds
    <3> QED BY <3>1, <3>6
  <2>2. ASSUME NEW j \in 1 .. n, j - 1 \in P PROVE j \in P
    <3> DEFINE s == 1 .. j
    <3> HIDE DEF S, base, k, c, g, ids, n, Holds
    <3>1. /\ j \in s /\ s \ {j} = 1 .. j - 1 /\ s \subseteq 1 .. n /\ s # {} /\ j \in 0 .. n
          /\ last + (j - 1) = (last + j) - 1 /\ last + j \in last + 1 .. Len(q)
          /\ \A y \in s : y \in Nat /\ y <= j
      <4>1. j \in Nat /\ j > 0 /\ j <= n /\ last \in Nat /\ n \in Nat
        BY <1>1, <1>2
      <4>2. 1 .. j \ {j} = 1 .. j - 1
        BY <4>1
      <4>3. j \in 1 .. j /\ j \in 0 .. n /\ 1 .. j # {}
        <5>1. j \in 1 .. j
          BY ONLY <4>1
        <5>2. j \in 0 .. n
          BY ONLY <4>1
        <5> QED BY ONLY <5>1, <5>2
      <4>5. \A y \in 1 .. j : y \in Nat /\ y <= j /\ y \in 1 .. n
        <5> HIDE DEF n
        <5> QED BY <4>1
      <4>4. last + (j - 1) = (last + j) - 1 /\ last + j \in last + 1 .. Len(q)
        BY <4>1, <1>1, <1>2
      <4> QED BY <4>2, <4>3, <4>4, <4>5
    <3>2. s \in SUBSET S /\ j \in S /\ ids[j] = last + j
      BY <1>3, <3>1
    <3>3. Max(s) = j
      <4>1. Max(s) \in s /\ j <= Max(s)
        <5> HIDE DEF s
        <5> QED BY <1>6, <3>1, <3>2
      <4> HIDE DEF s
      <4> QED BY <3>1, <4>1
    <3>4. k[s] = Step(k[1 .. j - 1], j)
      <4> HIDE DEF s, Step
      <4> QED BY <1>12, <3>1, <3>2, <3>3
    <3>5. Holds((last + j) - 1, k[1 .. j - 1])
      BY <2>2, <3>1
    <3>6. k[s] = HandleRequest(q, rate, time, k[1 .. j - 1], last + j)
      BY <3>2, <3>4
    <3>7. Holds(last + j, HandleRequest(q, rate, time, k[1 .. j - 1], last + j))
      <4>1. budget \in Int
        OBVIOUS
      <4> QED BY <3>1, <3>5, <4>1, RoundChosen DEF Holds
    <3> QED BY <3>1, <3>6, <3>7
  <2> HIDE DEF S, base, Step, k, c, g, ids, n, Holds, P
  <2>3. \A j \in 0 .. n : j \in P
    BY <1>2, <2>1, <2>2, UpTo
  <2>4. n \in P
    BY <1>2, <2>3
  <2> QED BY <1>3, <2>4 DEF P
<1>14. CalculateFinalizationBatches(q, last, rate, time, max,
         [remainingAceBudget |-> budget, batches |-> <<>>]).batches = k[S].batches
  BY DEF CalculateFinalizationBatches, NextId, FoldLeft, MapThenFoldSet
<1> DEFINE b == k[S].batches
           sum == SumOf(WorthOf(q, rate), last + 1 .. NextId(last, b) - 1)
<1> HIDE DEF k, S, n
<1>15. /\ b \in Seq(1 .. Len(q)) /\ Acceptable(q, last, time, b)
       /\ b # <<>> => Last(b) \in last + 1 .. last + n
       /\ k[S].remainingAceBudget >= 0 /\ k[S].remainingAceBudget \in Int
       /\ sum + k[S].remainingAceBudget <= budget
  BY <1>13 DEF Chosen, BatchStates
<1>16. ASSUME b # <<>> PROVE Last(b) \in last + 1 .. Len(q) /\ NextId(last, b) - 1 = Last(b)
                             /\ SumOf(WorthOf(q, rate), last + 1 .. Last(b)) <= budget
  <2>1. last \in Nat /\ last \in Int
    BY <1>1
  <2> HIDE DEF b
  <2>2. Last(b) \in last + 1 .. Len(q) /\ Last(b) \in Nat
    BY <1>1, <1>2, <1>15, <1>16, <2>1
  <2>3. NextId(last, b) - 1 = Last(b)
    BY <1>16, <2>2 DEF NextId
  <2>4. sum \in Nat
    <3>1. Last(b) \in 0 .. Len(q) /\ last <= Last(b)
      BY <1>1, <2>1, <2>2
    <3>2. \A i \in last + 1 .. Last(b) : WorthOf(q, rate)[i] \in Nat
      <4>1. \A i \in last + 1 .. Last(b) : i \in 1 .. Len(q)
        BY <1>1, <2>1, <2>2
      <4> QED BY <4>1, WorthOfOK
    <3>3. IsFiniteSet(last + 1 .. Last(b))
      <4>1. last + 1 \in Int /\ Last(b) \in Int
        BY <2>1, <2>2
      <4> QED BY <4>1, FS_Interval
    <3> QED BY <2>3, <3>2, <3>3, SumOfNaturals
  <2>5. sum <= budget
    <3> HIDE DEF sum
    <3> QED BY <1>15, <2>4
  <2> QED BY <2>2, <2>3, <2>5
<1> HIDE DEF b
<1> QED BY <1>14, <1>15, <1>16 DEF b

-----------------------------------------------------------------------------
(* Shares *)

LEMMA AccountsFinite ==
  /\ IsFiniteSet(Accounts) /\ IsFiniteSet(Modules) /\ Modules \subseteq Accounts
  /\ {INITIAL_TOKEN_HOLDER, Treasury, Burner, WithdrawalQueueAddress} \subseteq Accounts
  /\ Users \subseteq Accounts
<1>1. IsFiniteSet({INITIAL_TOKEN_HOLDER, Treasury, Burner, WithdrawalQueueAddress})
  <2>1. /\ IsFiniteSet({INITIAL_TOKEN_HOLDER}) /\ IsFiniteSet({Treasury})
        /\ IsFiniteSet({Burner}) /\ IsFiniteSet({WithdrawalQueueAddress})
    BY FS_Singleton
  <2>2. IsFiniteSet({INITIAL_TOKEN_HOLDER} \cup {Treasury})
        /\ IsFiniteSet({Burner} \cup {WithdrawalQueueAddress})
    BY <2>1, FS_Union
  <2>3. IsFiniteSet(({INITIAL_TOKEN_HOLDER} \cup {Treasury})
                      \cup ({Burner} \cup {WithdrawalQueueAddress}))
    BY <2>2, FS_Union
  <2>4. {INITIAL_TOKEN_HOLDER, Treasury, Burner, WithdrawalQueueAddress}
          = ({INITIAL_TOKEN_HOLDER} \cup {Treasury}) \cup ({Burner} \cup {WithdrawalQueueAddress})
    OBVIOUS
  <2> QED BY <2>3, <2>4
<1>2. IsFiniteSet(Users) /\ IsFiniteSet(Modules)
  BY CatalistAssumption
<1>3. IsFiniteSet(Users \cup Modules)
  BY <1>2, FS_Union
<1>4. IsFiniteSet(Accounts)
  BY <1>1, <1>3, FS_Union DEF Accounts
<1> QED BY <1>2, <1>4 DEF Accounts

(* A transfer keeps the sum of the shares.                                 *)
LEMMA TransferKeepsSum ==
  ASSUME shares \in [Accounts -> Nat], NEW from \in Accounts, NEW to \in Accounts,
         NEW n \in Nat, n <= shares[from]
  PROVE  /\ TransferShares(from, to, n) \in [Accounts -> Nat]
         /\ SumOf(TransferShares(from, to, n), Accounts) = SumOf(shares, Accounts)
         /\ \A a \in Accounts :
              TransferShares(from, to, n)[a] =
                IF from = to THEN shares[a]
                ELSE IF a = from THEN shares[a] - n
                ELSE IF a = to THEN shares[a] + n ELSE shares[a]
<1>1. CASE from = to
  BY <1>1 DEF TransferShares
<1>2. CASE from # to
  <2> DEFINE mid == [shares EXCEPT ![from] = @ - n]
             new == [mid EXCEPT ![to] = @ + n]
  <2>1. TransferShares(from, to, n) = new
    BY <1>2 DEF TransferShares
  <2>2. mid \in [Accounts -> Nat] /\ mid[from] = shares[from] - n
        /\ \A a \in Accounts \ {from} : mid[a] = shares[a]
    <3>1. shares[from] - n \in Nat
      OBVIOUS
    <3> QED BY <3>1
  <2>3. new \in [Accounts -> Nat] /\ new[to] = mid[to] + n
        /\ \A a \in Accounts \ {to} : new[a] = mid[a]
    <3> HIDE DEF mid
    <3> QED BY <2>2
  <2> HIDE DEF mid, new
  <2>4. SumOf(mid, Accounts) = SumOf(shares, Accounts) + (mid[from] - shares[from])
    BY <2>2, AccountsFinite, SumUpdate
  <2>5. SumOf(new, Accounts) = SumOf(mid, Accounts) + (new[to] - mid[to])
    BY <2>2, <2>3, AccountsFinite, SumUpdate
  <2>6. SumOf(shares, Accounts) \in Int /\ mid[to] \in Nat /\ shares[from] \in Nat
    BY <2>2, AccountsFinite, SumType
  <2>7. SumOf(new, Accounts) = SumOf(shares, Accounts)
    BY <2>2, <2>3, <2>4, <2>5, <2>6
  <2>8. \A a \in Accounts : new[a] = IF a = from THEN shares[a] - n
                                     ELSE IF a = to THEN shares[a] + n ELSE shares[a]
    BY <1>2, <2>2, <2>3
  <2> QED BY <1>2, <2>1, <2>3, <2>7, <2>8
<1> QED BY <1>1, <1>2

(* Shares that are minted or burnt change the sum.                         *)
LEMMA ChangeOfSum ==
  ASSUME NEW held \in [Accounts -> Nat], NEW a \in Accounts, NEW d \in Int, held[a] + d \in Nat
  PROVE  /\ [held EXCEPT ![a] = @ + d] \in [Accounts -> Nat]
         /\ SumOf([held EXCEPT ![a] = @ + d], Accounts) = SumOf(held, Accounts) + d
<1> DEFINE new == [held EXCEPT ![a] = @ + d]
<1>1. new \in [Accounts -> Nat] /\ new[a] = held[a] + d
      /\ \A b \in Accounts \ {a} : new[b] = held[b]
  OBVIOUS
<1> HIDE DEF new
<1>2. SumOf(new, Accounts) = SumOf(held, Accounts) + (new[a] - held[a])
  BY <1>1, AccountsFinite, SumUpdate
<1>3. SumOf(held, Accounts) \in Int /\ held[a] \in Nat
  BY AccountsFinite, SumType
<1>4. SumOf(new, Accounts) = SumOf(held, Accounts) + d
  BY <1>1, <1>2, <1>3
<1> QED BY <1>1, <1>4 DEF new

(* A holding is at most the sum.                                           *)
LEMMA HoldingsBelowSum ==
  ASSUME NEW held \in [Accounts -> Nat], NEW a \in Accounts, NEW b \in Accounts, a # b
  PROVE  held[a] + held[b] <= SumOf(held, Accounts) /\ SumOf(held, Accounts) \in Nat
<1> DEFINE R == Accounts \ {a}
<1>1. IsFiniteSet(R) /\ b \in R /\ \A y \in R : held[y] \in Nat
  BY AccountsFinite, FS_Subset
<1>2. held[b] <= SumOf(held, R) /\ SumOf(held, R) \in Nat
  <2> HIDE DEF R
  <2> QED BY <1>1, SumOfNaturals
<1>3. SumOf(held, Accounts) = held[a] + SumOf(held, R)
  BY AccountsFinite, SumStep
<1> HIDE DEF R
<1> QED BY <1>1, <1>2, <1>3

-----------------------------------------------------------------------------
(* Fees *)

(* A gain of the consensus layer is a gain.                                *)
LEMMA PositiveGain ==
  ASSUME NEW a \in Nat, NEW b \in Nat, NEW c \in Nat, NEW d \in Nat
  PROVE  a + b - c > 0 => a + b - c + d > 0 /\ a + b - c + d \in Nat
OBVIOUS

LEMMA FeesOK ==
  ASSUME NEW ace \in Nat, NEW sh \in Nat, NEW gain \in Nat, gain > 0
  PROVE  SharesMintedAsFees(ace, sh, gain) \in Nat
<1> DEFINE F == FEE_PRECISION_POINTS
           n == gain * TotalFee * sh
           d == (ace + gain) * F - gain * TotalFee
<1>1. F \in Nat /\ TotalFee \in Nat /\ TotalFee < F
  BY CatalistAssumption
<1>2. n \in Nat
  <2>1. gain * TotalFee \in Nat
    BY <1>1
  <2> QED BY <2>1
<1>3. d \in Nat /\ d > 0
  <2> HIDE DEF F
  <2>1. gain * (TotalFee + 1) <= gain * F /\ gain * F \in Int
    <3>1. TotalFee + 1 \in Int /\ F \in Int /\ TotalFee + 1 <= F
      BY <1>1
    <3> QED BY <3>1, Factor
  <2>2. gain * (TotalFee + 1) = gain * TotalFee + gain /\ gain * TotalFee \in Nat
    BY <1>1
  <2>3. (ace + gain) * F = ace * F + gain * F /\ ace * F \in Nat
    BY <1>1
  <2> QED BY <2>1, <2>2, <2>3
<1>4. SharesMintedAsFees(ace, sh, gain) = n \div d
  BY DEF SharesMintedAsFees
<1>5. n \in Int /\ n >= 0
  BY <1>2
<1> HIDE DEF n, d
<1> QED BY <1>3, <1>4, <1>5, Division

Rewards(minted) == [m \in Modules |-> ModuleReward(m, minted)]

(* The rewards of the modules as a sum.                                    *)
LEMMA RewardsSum ==
  ASSUME NEW minted
  PROVE  MapThenSumSet(LAMBDA m : ModuleReward(m, minted), Modules)
           = SumOf(Rewards(minted), Modules)
<1> DEFINE c(s) == CHOOSE x \in s : TRUE
           E(m) == ModuleReward(m, minted)
           f == Rewards(minted)
           k == CHOOSE g : g = [s \in SUBSET Modules |->
                  IF s = {} THEN 0 ELSE E(c(s)) + g[s \ {c(s)}]]
<1>1. MapThenSumSet(LAMBDA m : ModuleReward(m, minted), Modules) = k[Modules]
  BY DEF MapThenSumSet, MapThenFoldSet
<1>2. PICK h : Iterates(h, f, Modules)
  BY AccountsFinite, IterationExists
<1>3. \A s \in SUBSET Modules : s # {} => f[c(s)] = E(c(s))
  <2>1. \A s \in SUBSET Modules : s # {} => c(s) \in Modules
    OBVIOUS
  <2> HIDE DEF c
  <2> QED BY <2>1 DEF Rewards
<1>4. h = [s \in SUBSET Modules |-> IF s = {} THEN 0 ELSE E(c(s)) + h[s \ {c(s)}]]
  <2>1. h = [s \in SUBSET Modules |-> IF s = {} THEN 0 ELSE f[c(s)] + h[s \ {c(s)}]]
    BY <1>2 DEF Iterates
  <2> HIDE DEF c, E, f
  <2> QED BY <1>3, <2>1
<1>5. k = [s \in SUBSET Modules |-> IF s = {} THEN 0 ELSE E(c(s)) + k[s \ {c(s)}]]
  <2> HIDE DEF c, E
  <2> QED BY <1>4
<1>6. k = [s \in SUBSET Modules |-> IF s = {} THEN 0 ELSE f[c(s)] + k[s \ {c(s)}]]
  <2> HIDE DEF c, E, f, k
  <2> QED BY <1>3, <1>5
<1>7. Iterates(k, f, Modules)
  <2> HIDE DEF k, f
  <2> QED BY <1>6 DEF Iterates
<1>8. k[Modules] = SumOf(f, Modules)
  <2> HIDE DEF k, f
  <2> QED BY <1>7, AccountsFinite, SumIsIterated
<1> QED BY <1>1, <1>8

(* The modules' rewards, rounded down, leave the treasury its part.        *)
LEMMA RewardsOK ==
  ASSUME NEW minted \in Nat
  PROVE  /\ \A m \in Modules : Rewards(minted)[m] \in Nat
         /\ TreasuryReward(minted) \in Nat
         /\ SumOf(Rewards(minted), Modules) + TreasuryReward(minted) = minted
<1> DEFINE f == Rewards(minted)
           sum == SumOf(f, Modules)
<1>1. /\ TotalFee \in Nat /\ ModuleFees \in [Modules -> Nat]
      /\ SumOf(ModuleFees, Modules) <= TotalFee
  BY CatalistAssumption DEF SumOf
<1>2. ASSUME NEW m \in Modules
      PROVE  f[m] \in Nat /\ TotalFee * f[m] <= minted * ModuleFees[m]
  <2> DEFINE n == minted * ModuleFees[m]
  <2>1. f[m] = IF TotalFee = 0 THEN 0 ELSE n \div TotalFee
    BY <1>2 DEF Rewards, ModuleReward
  <2>2. n \in Int /\ n >= 0
    BY <1>1, <1>2
  <2> HIDE DEF n, f
  <2>3. TotalFee # 0 => n \div TotalFee \in Nat /\ TotalFee * (n \div TotalFee) <= n
    BY <1>1, <2>2, Division
  <2>4. f[m] \in Nat /\ TotalFee * f[m] <= n
    BY <1>1, <2>1, <2>2, <2>3
  <2> QED BY <2>4 DEF n
<1>3. sum \in Nat
  <2> HIDE DEF f
  <2> QED BY <1>2, AccountsFinite, SumOfNaturals
<1>4. sum <= minted
  <2>1. CASE TotalFee = 0
    <3> DEFINE zero == [m \in Modules |-> 0]
    <3>1. \A m \in Modules : f[m] = 0
      BY <2>1 DEF Rewards, ModuleReward
    <3>2. \A m \in Modules : f[m] \in Int /\ f[m] \in Int /\ 1 * f[m] <= 0 * f[m]
      <4> HIDE DEF f
      <4> QED BY <3>1
    <3>3. 1 * SumOf(f, Modules) <= 0 * SumOf(f, Modules)
      <4> HIDE DEF f
      <4> QED BY <3>2, AccountsFinite, SumScaled
    <3> HIDE DEF f
    <3> QED BY <1>3, <3>3
  <2>2. CASE TotalFee # 0
    <3>1. TotalFee * sum <= minted * SumOf(ModuleFees, Modules)
      <4>1. \A m \in Modules : f[m] \in Int /\ ModuleFees[m] \in Int
                                 /\ TotalFee * f[m] <= minted * ModuleFees[m]
        BY <1>1, <1>2
      <4> HIDE DEF f
      <4> QED BY <1>1, <4>1, AccountsFinite, SumScaled
    <3>2. SumOf(ModuleFees, Modules) \in Nat
      BY <1>1, AccountsFinite, SumOfNaturals
    <3> HIDE DEF sum
    <3>3. minted * SumOf(ModuleFees, Modules) <= minted * TotalFee
      BY <1>1, <3>2, Factor
    <3>4. TotalFee * sum <= minted * TotalFee
      BY <1>1, <1>3, <3>1, <3>2, <3>3
    <3>5. CASE sum >= minted + 1
      <4>1. (minted + 1) * TotalFee <= sum * TotalFee
        BY <1>1, <1>3, <3>5, Factor
      <4>2. (minted + 1) * TotalFee = minted * TotalFee + TotalFee
            /\ sum * TotalFee = TotalFee * sum
            /\ minted * TotalFee \in Nat /\ TotalFee * sum \in Nat
        BY <1>1, <1>3
      <4> QED BY <1>1, <2>2, <3>4, <4>1, <4>2
    <3>6. CASE ~(sum >= minted + 1)
      BY <1>3, <3>6
    <3> QED BY <3>5, <3>6
  <2> QED BY <2>1, <2>2
<1>5. TreasuryReward(minted) = minted - sum
  BY RewardsSum DEF TreasuryReward
<1> HIDE DEF f, sum
<1>6. \A m \in Modules : f[m] \in Nat
  BY <1>2
<1>7. minted - sum \in Nat /\ sum + (minted - sum) = minted
  BY <1>3, <1>4
<1> QED BY <1>5, <1>6, <1>7 DEF f, sum

(* Distributing the fees adds what was minted, and takes from nobody.      *)
LEMMA DistributeOK ==
  ASSUME NEW held \in [Accounts -> Nat], NEW minted \in Nat
  PROVE  /\ DistributeFee(held, minted) \in [Accounts -> Nat]
         /\ SumOf(DistributeFee(held, minted), Accounts) = SumOf(held, Accounts) + minted
         /\ \A a \in Accounts : held[a] <= DistributeFee(held, minted)[a]
<1> DEFINE f == Rewards(minted)
           tr == TreasuryReward(minted)
           mid == [a \in Accounts |-> held[a] + (IF a \in Modules THEN ModuleReward(a, minted) ELSE 0)]
           new == DistributeFee(held, minted)
<1>1. /\ \A m \in Modules : f[m] \in Nat /\ f[m] = ModuleReward(m, minted)
      /\ tr \in Nat /\ SumOf(f, Modules) + tr = minted
  BY RewardsOK DEF Rewards
<1>2. mid \in [Accounts -> Nat] /\ \A a \in Accounts :
        mid[a] = held[a] + (IF a \in Modules THEN f[a] ELSE 0)
  <2> HIDE DEF f
  <2> QED BY <1>1
<1>3. \A a \in Accounts : new[a] = mid[a] + (IF a = Treasury THEN tr ELSE 0)
  BY DEF DistributeFee
<1>4. new \in [Accounts -> Nat]
  <2>1. new = [a \in Accounts |-> new[a]]
    BY DEF DistributeFee
  <2> HIDE DEF new, mid, tr
  <2> QED BY <1>1, <1>2, <1>3, <2>1
<1> HIDE DEF new, mid, tr, f
<1>5. SumOf(mid, Accounts) = SumOf(held, Accounts) + SumOf(f, Modules)
  <2> DEFINE d == [y \in Modules |-> mid[y] - held[y]]
  <2>1. SumOf(mid, Accounts) = SumOf(held, Accounts) + SumOf(d, Modules)
    <3>1. \A y \in Accounts : held[y] \in Int /\ mid[y] \in Int
      BY <1>2
    <3>2. \A y \in Accounts \ Modules : mid[y] = held[y]
      BY <1>2
    <3> QED BY <3>1, <3>2, AccountsFinite, SumShift
  <2>2. \A y \in Modules : d[y] = f[y]
    <3> SUFFICES ASSUME NEW y \in Modules PROVE mid[y] - held[y] = f[y]
      OBVIOUS
    <3>1. y \in Accounts /\ f[y] \in Nat /\ held[y] \in Nat /\ mid[y] = held[y] + f[y]
      BY <1>1, <1>2, AccountsFinite
    <3> QED BY <3>1
  <2> HIDE DEF d
  <2>3. SumOf(d, Modules) = SumOf(f, Modules)
    BY <2>2, AccountsFinite, SumCongruent
  <2> QED BY <2>1, <2>3
<1>6. SumOf(new, Accounts) = SumOf(mid, Accounts) + tr
  <2>1. Treasury \in Accounts /\ IsFiniteSet(Accounts)
    BY AccountsFinite
  <2>2. (\A y \in Accounts : mid[y] \in Int) /\ new[Treasury] \in Int
    BY <1>2, <1>4, <2>1
  <2>3. \A y \in Accounts \ {Treasury} : new[y] = mid[y]
    BY <1>2, <1>3
  <2>4. SumOf(new, Accounts) = SumOf(mid, Accounts) + (new[Treasury] - mid[Treasury])
    BY <2>1, <2>2, <2>3, SumUpdate
  <2>5. new[Treasury] = mid[Treasury] + tr /\ mid[Treasury] \in Nat
    BY <1>2, <1>3, <2>1
  <2> QED BY <1>1, <2>4, <2>5
<1>7. SumOf(new, Accounts) = SumOf(held, Accounts) + minted
  <2>1. SumOf(held, Accounts) \in Int
    BY AccountsFinite, SumType
  <2>2. SumOf(f, Modules) \in Int
    BY <1>1, AccountsFinite, SumType
  <2> QED BY <1>1, <1>5, <1>6, <2>1, <2>2
<1>8. \A a \in Accounts : held[a] <= new[a]
  <2> SUFFICES ASSUME NEW a \in Accounts PROVE held[a] <= new[a]
    OBVIOUS
  <2>1. held[a] \in Nat /\ held[a] <= mid[a] /\ mid[a] \in Nat
    BY <1>1, <1>2
  <2> QED BY <1>1, <1>3, <2>1
<1> QED BY <1>4, <1>7, <1>8 DEF new

-----------------------------------------------------------------------------
(* The parts of the invariant *)

LEMMA AddUpIsSum ==
  /\ SharesAddUp <=> totalShares = SumOf(shares, Accounts)
  /\ SharesAddUp' <=> totalShares' = SumOf(shares', Accounts)
<1>1. SharesAddUp <=> totalShares = SumOf(shares, Accounts)
  BY DEF SharesAddUp, SumOf
<1>2. SharesAddUp' <=> totalShares' = SumOf(shares', Accounts)
  BY DEF SharesAddUp, SumOf, MapThenSumSet, MapThenFoldSet
<1> QED BY <1>1, <1>2

LEMMA Frames ==
  /\ TokenOK /\ UNCHANGED tokenVars => TokenOK'
  /\ PoolOK /\ UNCHANGED poolVars => PoolOK'
  /\ BurnerOK /\ UNCHANGED burnRequested => BurnerOK'
  /\ QueueOK /\ UNCHANGED queueVars => QueueOK'
  /\ VaultsOK /\ UNCHANGED vaultVars => VaultsOK'
  /\ ReportOK /\ UNCHANGED <<block, report, queue>> => ReportOK'
<1>1. TokenOK /\ UNCHANGED tokenVars => TokenOK'
  BY AddUpIsSum DEF TokenOK, tokenVars
<1>2. PoolOK /\ UNCHANGED poolVars => PoolOK'
  BY DEF PoolOK, poolVars, BufferIsBacked
<1>3. BurnerOK /\ UNCHANGED burnRequested => BurnerOK'
  BY DEF BurnerOK
<1>4. QueueOK /\ UNCHANGED queueVars => QueueOK'
  BY DEF QueueOK, queueVars
<1>5. VaultsOK /\ UNCHANGED vaultVars => VaultsOK'
  BY DEF VaultsOK, vaultVars
<1>6. ReportOK /\ UNCHANGED <<block, report, queue>> => ReportOK'
  BY DEF ReportOK
<1> QED BY <1>1, <1>2, <1>3, <1>4, <1>5, <1>6

(* The constants that the proofs use.                                      *)
LEMMA Naturals ==
  /\ DEPOSIT_SIZE \in Nat /\ DEPOSIT_SIZE > 0 /\ InitialBalance \in Nat /\ InitialBalance > 0
  /\ SHARE_RATE_PRECISION_E27 \in Nat /\ MaxRequests \in Nat /\ RequestTimestampMargin \in Nat
<1>1. DEPOSIT_SIZE \in Nat \ {0} /\ InitialBalance \in Nat \ {0}
  BY CatalistAssumption
<1>2. MaxRequests \in Nat
  BY CatalistAssumption
<1>3. SHARE_RATE_PRECISION_E27 \in Nat /\ RequestTimestampMargin \in Nat
  BY LimitsAssumption
<1> QED BY <1>1, <1>2, <1>3

(* The pool's ace and its shares; there are always shares.                 *)
LEMMA Pooled ==
  ASSUME PoolInv
  PROVE  /\ TransientBalance \in Nat /\ TotalPooledAce \in Nat
         /\ totalShares \in Nat /\ totalShares > 0
<1>1. TransientBalance \in Nat
  <2> DEFINE d == depositedValidators - clValidators
  <2>1. d \in Nat
    BY DEF PoolInv, PoolOK, BufferIsBacked
  <2> HIDE DEF d
  <2>2. d * DEPOSIT_SIZE \in Nat
    BY <2>1, Naturals
  <2> QED BY <2>2 DEF TransientBalance, d
<1>2. TotalPooledAce \in Nat
  BY <1>1 DEF TotalPooledAce, PoolInv, PoolOK
<1>3. shares \in [Accounts -> Nat] /\ totalShares \in Nat /\ totalShares = SumOf(shares, Accounts)
      /\ shares[INITIAL_TOKEN_HOLDER] >= InitialBalance
  BY AddUpIsSum DEF PoolInv, TokenOK
<1>4. shares[INITIAL_TOKEN_HOLDER] <= SumOf(shares, Accounts)
  <2>1. \A a \in Accounts : shares[a] \in Nat
    BY <1>3
  <2> QED BY <2>1, AccountsFinite, SumOfNaturals
<1>5. shares[INITIAL_TOKEN_HOLDER] \in Nat
  BY <1>3, AccountsFinite
<1> QED BY <1>1, <1>2, <1>3, <1>4, <1>5, Naturals

(* The shares of an amount of ace are worth at most that amount.           *)
LEMMA SharesOfAmount ==
  ASSUME PoolInv, PoolHasAce, NEW amount \in Nat
  PROVE  /\ GetSharesByPooledAce(amount) \in Nat
         /\ TotalPooledAce * GetSharesByPooledAce(amount) <= amount * totalShares
<1> DEFINE n == amount * totalShares
<1>1. n \in Int /\ n >= 0 /\ TotalPooledAce \in Nat /\ TotalPooledAce > 0
  BY Pooled DEF PoolHasAce
<1>2. GetSharesByPooledAce(amount) = n \div TotalPooledAce
  BY DEF GetSharesByPooledAce
<1> HIDE DEF n
<1>3. n \div TotalPooledAce \in Nat /\ TotalPooledAce * (n \div TotalPooledAce) <= n
  BY <1>1, Division
<1> QED BY <1>2, <1>3 DEF n

(* The sum and the holdings after a transfer, whose sender is not the      *)
(* initial token holder.                                                   *)
LEMMA TransferToken ==
  ASSUME PoolInv, NEW from \in Accounts, NEW to \in Accounts, from # INITIAL_TOKEN_HOLDER,
         NEW n \in Nat, n <= shares[from],
         shares' = TransferShares(from, to, n), totalShares' = totalShares
  PROVE  TokenOK'
<1>1. shares \in [Accounts -> Nat] /\ totalShares \in Nat /\ totalShares = SumOf(shares, Accounts)
      /\ shares[INITIAL_TOKEN_HOLDER] >= InitialBalance
  BY AddUpIsSum DEF PoolInv, TokenOK
<1>2. /\ shares' \in [Accounts -> Nat] /\ SumOf(shares', Accounts) = SumOf(shares, Accounts)
      /\ shares'[INITIAL_TOKEN_HOLDER]
           = IF from = to THEN shares[INITIAL_TOKEN_HOLDER]
             ELSE IF INITIAL_TOKEN_HOLDER = to THEN shares[INITIAL_TOKEN_HOLDER] + n
             ELSE shares[INITIAL_TOKEN_HOLDER]
  BY <1>1, TransferKeepsSum, AccountsFinite
<1>3. shares'[INITIAL_TOKEN_HOLDER] >= InitialBalance
  <2>1. shares[INITIAL_TOKEN_HOLDER] \in Nat
    BY <1>1, AccountsFinite
  <2> QED BY <1>1, <1>2, <2>1, Naturals
<1>4. SharesAddUp'
  BY <1>1, <1>2, AddUpIsSum
<1> QED BY <1>1, <1>2, <1>3, <1>4 DEF TokenOK

(* The shares after the burner burnt: neither it nor the queue holds less  *)
(* than nothing, and the others keep theirs.                               *)
LEMMA BurnOK ==
  ASSUME NEW held \in [Accounts -> Nat], NEW fromQueue \in Nat, NEW burn \in Nat,
         fromQueue <= held[WithdrawalQueueAddress], burn <= held[Burner] + fromQueue
  PROVE  /\ SharesAfterBurn(held, fromQueue, burn) \in [Accounts -> Nat]
         /\ SumOf(SharesAfterBurn(held, fromQueue, burn), Accounts)
              = SumOf(held, Accounts) - burn
         /\ \A a \in Accounts : SharesAfterBurn(held, fromQueue, burn)[a] =
              IF a = WithdrawalQueueAddress THEN held[a] - fromQueue
              ELSE IF a = Burner THEN held[a] + fromQueue - burn ELSE held[a]
<1> DEFINE W == WithdrawalQueueAddress
           out == 0 - fromQueue
           in == fromQueue - burn
           mid == [held EXCEPT ![W] = @ + out]
           new == [mid EXCEPT ![Burner] = @ + in]
<1>0. W \in Accounts /\ Burner \in Accounts /\ Burner # W
  BY AccountsFinite, CatalistAssumption
<1>1. held[W] \in Nat /\ held[Burner] \in Nat /\ out \in Int /\ in \in Int
      /\ held[W] + out = held[W] - fromQueue /\ held[Burner] + in = held[Burner] + fromQueue - burn
      /\ held[W] + out \in Nat /\ held[Burner] + in \in Nat
  <2>1. held[W] \in Nat /\ held[Burner] \in Nat
    BY <1>0
  <2> QED BY <2>1
<1>2. SharesAfterBurn(held, fromQueue, burn) = new
  <2> DEFINE after == SharesAfterBurn(held, fromQueue, burn)
  <2>1. after = [a \in Accounts |-> after[a]] /\ new = [a \in Accounts |-> new[a]]
    BY DEF SharesAfterBurn
  <2>2. after[W] = held[W] - fromQueue /\ new[W] = held[W] + out
    BY <1>0 DEF SharesAfterBurn
  <2>3. after[Burner] = held[Burner] + fromQueue - burn /\ new[Burner] = held[Burner] + in
    BY <1>0 DEF SharesAfterBurn
  <2>4. \A a \in Accounts : a # W /\ a # Burner => after[a] = held[a] /\ new[a] = held[a]
    BY <1>0 DEF SharesAfterBurn
  <2> HIDE DEF after, new
  <2>5. \A a \in Accounts : after[a] = new[a]
    BY <1>1, <2>2, <2>3, <2>4
  <2> QED BY <2>1, <2>5 DEF after
<1> HIDE DEF out, in
<1>3. mid \in [Accounts -> Nat] /\ SumOf(mid, Accounts) = SumOf(held, Accounts) + out
  <2>1. held \in [Accounts -> Nat] /\ W \in Accounts /\ out \in Int /\ held[W] + out \in Nat
    BY <1>0, <1>1
  <2> HIDE DEF W
  <2> QED BY ONLY <2>1, ChangeOfSum
<1>4. mid[Burner] = held[Burner] /\ mid[W] = held[W] + out
      /\ \A a \in Accounts : a # W => mid[a] = held[a]
  BY <1>0
<1> HIDE DEF mid
<1>5. new \in [Accounts -> Nat] /\ SumOf(new, Accounts) = SumOf(mid, Accounts) + in
  <2>1. mid \in [Accounts -> Nat] /\ in \in Int /\ mid[Burner] + in \in Nat
    BY <1>1, <1>3, <1>4
  <2> QED BY <1>0, <2>1, ChangeOfSum
<1>6. new[Burner] = mid[Burner] + in /\ \A a \in Accounts : a # Burner => new[a] = mid[a]
  BY <1>0, <1>3
<1> HIDE DEF new
<1>7. SumOf(held, Accounts) \in Int
  BY AccountsFinite, SumType
<1>8. SumOf(new, Accounts) = SumOf(held, Accounts) - burn
  BY <1>3, <1>5, <1>7 DEF out, in
<1>9. \A a \in Accounts : new[a] = IF a = W THEN held[a] - fromQueue
                         ELSE IF a = Burner THEN held[a] + fromQueue - burn ELSE held[a]
  BY <1>0, <1>1, <1>4, <1>6
<1> QED BY <1>2, <1>5, <1>8, <1>9

-----------------------------------------------------------------------------
(* What a report comes to *)

LEMMA OutcomeOK ==
  ASSUME PoolInv, NEW r \in Reports(1 .. Len(queue)), PassesChecks(r, Outcome(r))
  PROVE  LET o == Outcome(r)
         IN  /\ o.lock \in Nat /\ o.fromQueue \in Nat /\ PreCLBalance(r) \in Nat
             /\ o.smooth.withdrawals \in 0 .. r.withdrawalVaultBalance
             /\ o.smooth.elRewards \in 0 .. r.elRewardsVaultBalance
             /\ o.smooth.sharesToBurn \in Nat /\ o.fees \in Nat
             /\ o.bufferedAce \in Nat
             /\ o.bufferedAce = bufferedAce + o.smooth.elRewards + o.smooth.withdrawals - o.lock
             /\ o.postTotalPooledAce \in Nat
             /\ o.postTotalShares = totalShares - o.smooth.sharesToBurn + o.fees
             /\ o.postTotalShares \in Nat /\ o.postTotalShares > 0
             /\ o.lock > 0 => Finalizes(r)
             /\ Finalizes(r) => /\ Last(r.batches) \in 1 .. Len(queue)
                                /\ lastFinalizedRequestId < Last(r.batches)
                                /\ o.fromQueue = CalcBatch(queue, lastFinalizedRequestId,
                                                           Last(r.batches)).shares
             /\ ~Finalizes(r) => o.fromQueue = 0
<1> DEFINE o == Outcome(r)
           lock == AceToLock(r)
           fromQueue == SharesToBurnFromQueue(r)
           pre == PreCLBalance(r)
           smooth == SmoothenTokenRebase(TotalPooledAce, totalShares, pre, r, lock, fromQueue)
           clRewards == r.clBalance + smooth.withdrawals - pre
           gain == clRewards + smooth.elRewards
           left == depositedValidators - r.clValidators
<1>1. /\ r.clBalance \in Nat /\ r.clValidators \in Nat /\ r.batches \in Seq(1 .. Len(queue))
      /\ r.simulatedShareRate \in Nat
      /\ r.withdrawalVaultBalance \in Nat /\ r.elRewardsVaultBalance \in Nat
  BY DEF Reports
<1>2. /\ o.lock = lock /\ o.fromQueue = fromQueue /\ o.smooth = smooth
      /\ o.fees = IF clRewards > 0 THEN SharesMintedAsFees(TotalPooledAce, totalShares, gain) ELSE 0
      /\ o.bufferedAce = bufferedAce + smooth.elRewards + smooth.withdrawals - lock
      /\ o.postTotalPooledAce = o.bufferedAce + r.clBalance + left * DEPOSIT_SIZE
      /\ o.postTotalShares = totalShares - smooth.sharesToBurn + o.fees
  BY DEF Outcome, PostBufferedAce
<1>3. /\ r.clValidators <= depositedValidators /\ r.clValidators >= clValidators
      /\ Finalizes(r) => CanPrefinalize(queue, lastFinalizedRequestId, r.batches,
                                        r.simulatedShareRate)
      /\ fromQueue <= shares[WithdrawalQueueAddress]
      /\ o.bufferedAce >= 0
      /\ smooth.sharesToBurn <= shares[Burner] + fromQueue
  BY <1>2 DEF PassesChecks
<1>4. /\ Accumulates(queue) /\ lastFinalizedRequestId \in 0 .. Len(queue)
      /\ bufferedAce \in Nat /\ clBalance \in Nat /\ depositedValidators \in Nat
      /\ clValidators \in Nat
      /\ shares \in [Accounts -> Nat] /\ totalShares = SumOf(shares, Accounts)
      /\ shares[INITIAL_TOKEN_HOLDER] >= InitialBalance
  BY AddUpIsSum DEF PoolInv, QueueOK, PoolOK, TokenOK
<1>5. /\ lock \in Nat /\ fromQueue \in Nat
      /\ lock > 0 => Finalizes(r)
      /\ ~Finalizes(r) => fromQueue = 0
      /\ Finalizes(r) => /\ Last(r.batches) \in 1 .. Len(queue)
                         /\ lastFinalizedRequestId < Last(r.batches)
                         /\ fromQueue = CalcBatch(queue, lastFinalizedRequestId,
                                                  Last(r.batches)).shares
  BY <1>1, <1>3, <1>4, PrefinalizeOK DEF AceToLock, SharesToBurnFromQueue
<1>6. pre \in Nat
  <2> DEFINE d == r.clValidators - clValidators
  <2>1. d \in Nat
    BY <1>1, <1>3, <1>4
  <2> HIDE DEF d
  <2>2. clBalance + d * DEPOSIT_SIZE \in Nat
    BY <1>4, <2>1, Naturals
  <2> QED BY <2>2 DEF PreCLBalance, d
<1>7. /\ smooth.withdrawals \in 0 .. r.withdrawalVaultBalance
      /\ smooth.elRewards \in 0 .. r.elRewardsVaultBalance
      /\ smooth.sharesToBurn \in Nat
  <2> DEFINE ids == 1 .. Len(queue)
  <2>1. r \in Reports(ids)
    OBVIOUS
  <2> HIDE DEF lock, fromQueue, pre, ids
  <2> QED BY <1>5, <1>6, <2>1, Pooled, Smoothing
<1> HIDE DEF lock, fromQueue, pre, smooth, o
<1>8. o.fees \in Nat
  <2>1. clRewards > 0 => gain \in Nat /\ gain > 0
    <3>1. /\ r.clBalance \in Nat /\ pre \in Nat
          /\ smooth.withdrawals \in Nat /\ smooth.elRewards \in Nat
      BY <1>1, <1>6, <1>7
    <3>2. clRewards > 0 => gain > 0 /\ gain \in Nat
      BY ONLY <3>1, PositiveGain
    <3> QED BY ONLY <3>2
  <2> HIDE DEF clRewards, gain
  <2>2. clRewards > 0 => SharesMintedAsFees(TotalPooledAce, totalShares, gain) \in Nat
    BY <2>1, Pooled, FeesOK
  <2> QED BY <1>2, <2>2
<1>9. o.bufferedAce \in Nat
  BY <1>1, <1>2, <1>3, <1>4, <1>5, <1>7
<1>10. o.postTotalPooledAce \in Nat
  <2>1. left \in Nat
    BY <1>1, <1>3, <1>4
  <2> HIDE DEF left
  <2>2. left * DEPOSIT_SIZE \in Nat
    BY <2>1, Naturals
  <2> QED BY <1>1, <1>2, <1>9, <2>2
<1>11. totalShares - smooth.sharesToBurn \in Nat /\ totalShares - smooth.sharesToBurn > 0
  <2> DEFINE held == SharesAfterBurn(shares, fromQueue, smooth.sharesToBurn)
  <2>1. /\ held \in [Accounts -> Nat]
        /\ SumOf(held, Accounts) = totalShares - smooth.sharesToBurn
        /\ held[INITIAL_TOKEN_HOLDER] = shares[INITIAL_TOKEN_HOLDER]
    <3>1. INITIAL_TOKEN_HOLDER \in Accounts /\ INITIAL_TOKEN_HOLDER # Burner
          /\ INITIAL_TOKEN_HOLDER # WithdrawalQueueAddress
      BY AccountsFinite, CatalistAssumption
    <3> QED BY <1>3, <1>4, <1>5, <1>7, <3>1, BurnOK
  <2> HIDE DEF held
  <2>2. SumOf(held, Accounts) \in Nat /\ held[INITIAL_TOKEN_HOLDER] <= SumOf(held, Accounts)
    <3>1. \A a \in Accounts : held[a] \in Nat
      BY <2>1
    <3> QED BY <3>1, AccountsFinite, SumOfNaturals
  <2>3. held[INITIAL_TOKEN_HOLDER] \in Nat /\ held[INITIAL_TOKEN_HOLDER] > 0
    BY <1>4, <2>1, AccountsFinite, Naturals
  <2> QED BY <2>1, <2>2, <2>3
<1>12. o.postTotalShares \in Nat /\ o.postTotalShares > 0
  BY <1>2, <1>8, <1>11
<1> QED BY <1>2, <1>5, <1>6, <1>7, <1>8, <1>9, <1>10, <1>12 DEF o, pre

-----------------------------------------------------------------------------
(* The actions and the pool *)

LEMMA SubmitPool ==
  ASSUME PoolInv, NEW user \in Users, NEW amount \in StakeAmounts, Submit(user, amount)
  PROVE  PoolInv'
<1> DEFINE minted == GetSharesByPooledAce(amount)
<1>0. amount \in Nat /\ user \in Accounts /\ user # INITIAL_TOKEN_HOLDER
  BY AccountsFinite, CatalistAssumption
<1>1. /\ PoolHasAce /\ totalShares' = totalShares + minted
      /\ shares' = [shares EXCEPT ![user] = @ + minted]
      /\ bufferedAce' = bufferedAce + amount /\ balance' = balance + amount
      /\ UNCHANGED <<depositedValidators, clValidators, clBalance, burnRequested, queueVars,
                     vaultVars, block, report>>
  BY DEF Submit
<1>2. minted \in Nat
  BY <1>0, <1>1, SharesOfAmount
<1>3. shares \in [Accounts -> Nat] /\ totalShares \in Nat /\ totalShares = SumOf(shares, Accounts)
      /\ shares[INITIAL_TOKEN_HOLDER] >= InitialBalance
  BY AddUpIsSum DEF PoolInv, TokenOK
<1> HIDE DEF minted
<1>4. TokenOK'
  <2>1. shares' \in [Accounts -> Nat] /\ SumOf(shares', Accounts) = SumOf(shares, Accounts) + minted
    <3>1. minted \in Int /\ shares[user] + minted \in Nat
      BY <1>0, <1>2, <1>3
    <3> QED BY <1>0, <1>1, <1>3, <3>1, ChangeOfSum
  <2>2. shares'[INITIAL_TOKEN_HOLDER] = shares[INITIAL_TOKEN_HOLDER]
    BY <1>0, <1>1, <1>3, AccountsFinite
  <2>3. SharesAddUp' /\ totalShares' \in Nat
    BY <1>1, <1>2, <1>3, <2>1, AddUpIsSum
  <2> QED BY <1>3, <2>1, <2>2, <2>3 DEF TokenOK
<1>5. PoolOK'
  BY <1>0, <1>1 DEF PoolInv, PoolOK, BufferIsBacked
<1>6. BurnerOK' /\ QueueOK' /\ VaultsOK' /\ ReportOK'
  BY <1>1, Frames DEF PoolInv, queueVars
<1> QED BY <1>4, <1>5, <1>6 DEF PoolInv

LEMMA TransferPool ==
  ASSUME PoolInv, NEW user \in Users, NEW to \in Accounts, NEW amount \in ShareAmounts,
         Transfer(user, to, amount)
  PROVE  PoolInv'
<1>1. /\ amount <= shares[user] /\ shares' = TransferShares(user, to, amount)
      /\ UNCHANGED <<totalShares, poolVars, burnRequested, queueVars, vaultVars, block, report>>
  BY DEF Transfer, CanTransferShares
<1>2. amount \in Nat /\ user \in Accounts /\ user # INITIAL_TOKEN_HOLDER
  BY AccountsFinite, CatalistAssumption
<1>3. TokenOK'
  BY <1>1, <1>2, TransferToken
<1> QED BY <1>1, <1>3, Frames DEF PoolInv, queueVars

LEMMA RequestBurnPool ==
  ASSUME PoolInv, NEW user \in Users, NEW amount \in ShareAmounts, NEW isCover \in BOOLEAN,
         RequestBurn(user, amount, isCover)
  PROVE  PoolInv'
<1>1. /\ amount <= shares[user] /\ shares' = TransferShares(user, Burner, amount)
      /\ burnRequested' = AddBurnRequest(burnRequested, amount, isCover)
      /\ UNCHANGED <<totalShares, poolVars, queueVars, vaultVars, block, report>>
  BY DEF RequestBurn, CanTransferShares
<1>2. amount \in Nat /\ user \in Accounts /\ user # INITIAL_TOKEN_HOLDER /\ Burner \in Accounts
  BY AccountsFinite, CatalistAssumption
<1>3. TokenOK'
  BY <1>1, <1>2, TransferToken
<1>4. BurnerOK'
  BY <1>1, <1>2 DEF PoolInv, BurnerOK, AddBurnRequest
<1> QED BY <1>1, <1>3, <1>4, Frames DEF PoolInv, queueVars

LEMMA RequestWithdrawalPool ==
  ASSUME PoolInv, NEW user \in Users, NEW amount \in RequestAmounts,
         RequestWithdrawal(user, amount)
  PROVE  PoolInv'
<1> DEFINE sh == GetSharesByPooledAce(amount)
           last == At(queue, Len(queue))
           new == [cumulativeBACE |-> last.cumulativeBACE + amount,
                   cumulativeShares |-> last.cumulativeShares + sh,
                   timestamp |-> block, reportTimestamp |-> lastReportTimestamp]
<1>1. /\ PoolHasAce /\ sh <= shares[user]
      /\ shares' = TransferShares(user, WithdrawalQueueAddress, sh)
      /\ queue' = Append(queue, new)
      /\ UNCHANGED <<totalShares, poolVars, burnRequested, lastFinalizedRequestId,
                     lastReportTimestamp, vaultVars, block, report>>
  BY DEF RequestWithdrawal, CanTransferShares
<1>2. /\ amount \in Nat /\ user \in Accounts /\ user # INITIAL_TOKEN_HOLDER
      /\ WithdrawalQueueAddress \in Accounts
  BY AccountsFinite, CatalistAssumption
<1>3. sh \in Nat
  BY <1>1, <1>2, SharesOfAmount
<1> HIDE DEF sh
<1>4. TokenOK'
  BY <1>1, <1>2, <1>3, TransferToken
<1>5. Accumulates(queue) /\ lastFinalizedRequestId \in 0 .. Len(queue) /\ Len(queue) \in Nat
      /\ lastReportTimestamp \in Nat /\ block \in Nat /\ queue \in Seq(Requests)
  BY LenProperties DEF PoolInv, QueueOK, ReportOK, Accumulates
<1>6. last.cumulativeBACE \in Nat /\ last.cumulativeShares \in Nat
  BY <1>5, AtOK
<1>7. new \in Requests
  BY <1>2, <1>3, <1>5, <1>6 DEF Requests
<1>8. /\ queue' \in Seq(Requests) /\ Len(queue') = Len(queue) + 1
      /\ \A i \in 1 .. Len(queue) : queue'[i] = queue[i]
      /\ queue'[Len(queue) + 1] = new
  <2> HIDE DEF new
  <2> QED BY <1>1, <1>5, <1>7, AppendProperties
<1>9. QueueOK'
  <2>1. ASSUME NEW i \in 1 .. Len(queue'), NEW j \in 1 .. Len(queue'), i <= j
        PROVE  /\ queue'[i].cumulativeBACE <= queue'[j].cumulativeBACE
               /\ queue'[i].cumulativeShares <= queue'[j].cumulativeShares
    <3>1. CASE j <= Len(queue)
      <4>1. i \in 1 .. Len(queue) /\ j \in 1 .. Len(queue)
        BY <1>5, <1>8, <2>1, <3>1
      <4> QED BY <1>5, <1>8, <2>1, <4>1 DEF Accumulates
    <3>2. CASE i = Len(queue) + 1
      <4>1. j = i
        BY <1>5, <1>8, <2>1, <3>2
      <4>2. queue'[i] \in Requests
        BY <1>7, <1>8, <3>2
      <4> QED BY <4>1, <4>2 DEF Requests
    <3>3. CASE j = Len(queue) + 1 /\ i <= Len(queue)
      <4>1. i \in 1 .. Len(queue) /\ i \in 0 .. Len(queue) /\ Len(queue) \in 0 .. Len(queue)
            /\ i # 0
        BY <1>5, <1>8, <2>1, <3>3
      <4>2. /\ At(queue, i).cumulativeBACE <= last.cumulativeBACE
            /\ At(queue, i).cumulativeShares <= last.cumulativeShares
            /\ At(queue, i).cumulativeBACE \in Nat /\ At(queue, i).cumulativeShares \in Nat
        BY <1>5, <3>3, <4>1, AtGrows, AtOK
      <4>3. /\ At(queue, i).cumulativeBACE = queue'[i].cumulativeBACE
            /\ At(queue, i).cumulativeShares = queue'[i].cumulativeShares
        BY <1>8, <4>1 DEF At
      <4>4. /\ queue'[j].cumulativeBACE = last.cumulativeBACE + amount
            /\ queue'[j].cumulativeShares = last.cumulativeShares + sh
        BY <1>8, <3>3
      <4> HIDE DEF last
      <4> QED BY <1>2, <1>3, <1>6, <4>2, <4>3, <4>4
    <3>4. i \in Nat /\ j \in Nat /\ j <= Len(queue) + 1 /\ i <= j
      BY <1>5, <1>8, <2>1
    <3> QED BY <1>5, <3>1, <3>2, <3>3, <3>4
  <2>2. Accumulates(queue')
    BY <1>8, <2>1 DEF Accumulates
  <2>3. lastFinalizedRequestId' \in 0 .. Len(queue') /\ lastReportTimestamp' \in Nat
    BY <1>1, <1>5, <1>8
  <2> QED BY <2>2, <2>3 DEF QueueOK
<1>10. ReportOK'
  <2>1. report \in Reports(1 .. Len(queue)) \cup {NoReport}
    BY DEF PoolInv, ReportOK
  <2>2. Seq(1 .. Len(queue)) \subseteq Seq(1 .. Len(queue'))
    <3>1. 1 .. Len(queue) \subseteq 1 .. Len(queue')
      BY <1>5, <1>8
    <3> DEFINE A == 1 .. Len(queue)
               B == 1 .. Len(queue')
    <3>2. A \subseteq B
      BY <3>1
    <3> HIDE DEF A, B
    <3>3. Seq(A) \subseteq Seq(B)
      BY <3>2
    <3> QED BY <3>3 DEF A, B
  <2>3. Reports(1 .. Len(queue)) \subseteq Reports(1 .. Len(queue'))
    <3> DEFINE A == 1 .. Len(queue)
               B == 1 .. Len(queue')
    <3>1. Seq(A) \subseteq Seq(B)
      BY <2>2
    <3> HIDE DEF A, B
    <3>2. Reports(A) \subseteq Reports(B)
      BY <3>1 DEF Reports
    <3> QED BY <3>2 DEF A, B
  <2> QED BY <1>1, <1>5, <2>1, <2>3 DEF ReportOK
<1>11. PoolOK' /\ BurnerOK' /\ VaultsOK'
  BY <1>1, Frames DEF PoolInv
<1> QED BY <1>4, <1>9, <1>10, <1>11 DEF PoolInv

(* The excess is what is not asked to be burnt.                            *)
LEMMA ExcessOK ==
  ASSUME PoolInv, RecoverExcessBACE
  PROVE  /\ PoolHasAce /\ GetExcessBACEShares \in Nat
         /\ GetSharesByPooledAce(GetPooledAceByShares(GetExcessBACEShares)) \in Nat
         /\ GetSharesByPooledAce(GetPooledAceByShares(GetExcessBACEShares))
              <= GetExcessBACEShares
<1> DEFINE e == GetExcessBACEShares
           P == TotalPooledAce
           S == totalShares
           n == e * P
           b == GetPooledAceByShares(e)
           moved == GetSharesByPooledAce(b)
<1>1. P \in Nat /\ S \in Nat /\ S > 0
  BY Pooled
<1>2. e \in Nat
  <2>1. shares[Burner] \in Nat /\ SharesRequestedToBurn \in Nat
    BY AccountsFinite DEF PoolInv, TokenOK, BurnerOK, SharesRequestedToBurn
  <2> QED BY <2>1 DEF GetExcessBACEShares
<1>3. b > 0 /\ b = n \div S
  BY DEF RecoverExcessBACE, GetPooledAceByShares
<1> HIDE DEF e, P, S
<1>4. n \in Int /\ n >= 0
  BY <1>1, <1>2
<1> HIDE DEF b
<1>5. b \in Nat /\ S * b <= n
  <2> HIDE DEF n
  <2> QED BY <1>1, <1>3, <1>4, Division
<1>6. P > 0
  <2>1. CASE P = 0
    <3>1. n = 0
      BY <1>1, <1>2, <2>1
    <3>2. S * 1 <= S * b /\ S * b \in Int
      <4>1. 1 <= b
        BY <1>3, <1>5
      <4> QED BY <1>1, <1>5, <4>1, Factor
    <3> QED BY <1>1, <1>5, <3>1, <3>2
  <2> QED BY <1>1, <2>1
<1>7. PoolHasAce
  BY <1>6 DEF PoolHasAce, P
<1>8. moved \in Nat /\ P * moved <= b * S
  BY <1>5, <1>7, SharesOfAmount DEF P, S
<1> HIDE DEF moved
<1>9. moved <= e
  <2>1. CASE moved >= e + 1
    <3>1. P * (e + 1) <= P * moved /\ P * moved \in Int
      <4>1. e + 1 \in Int /\ e + 1 <= moved
        BY <1>2, <2>1
      <4> QED BY <1>1, <1>8, <4>1, Factor
    <3>2. P * (e + 1) = n + P /\ b * S = S * b /\ S * b \in Int
      BY <1>1, <1>2, <1>5
    <3> HIDE DEF n
    <3> QED BY <1>1, <1>4, <1>5, <1>6, <1>8, <3>1, <3>2
  <2> QED BY <1>2, <1>8, <2>1
<1> QED BY <1>2, <1>7, <1>8, <1>9 DEF moved, b, e

LEMMA RecoverPool ==
  ASSUME PoolInv, RecoverExcessBACE
  PROVE  PoolInv'
<1> DEFINE moved == GetSharesByPooledAce(GetPooledAceByShares(GetExcessBACEShares))
<1>1. /\ moved <= shares[Burner] /\ shares' = TransferShares(Burner, Treasury, moved)
      /\ UNCHANGED <<totalShares, poolVars, burnRequested, queueVars, vaultVars, block, report>>
  BY DEF RecoverExcessBACE, CanTransferShares
<1>2. moved \in Nat
  BY ExcessOK
<1>3. Burner \in Accounts /\ Treasury \in Accounts /\ Burner # INITIAL_TOKEN_HOLDER
  BY AccountsFinite, CatalistAssumption
<1> HIDE DEF moved
<1>4. TokenOK'
  BY <1>1, <1>2, <1>3, TransferToken
<1> QED BY <1>1, <1>4, Frames DEF PoolInv, queueVars

LEMMA DepositPool ==
  ASSUME PoolInv, NEW n \in 1 .. (bufferedAce \div DEPOSIT_SIZE), Deposit(n)
  PROVE  PoolInv'
<1>1. /\ bufferedAce' = bufferedAce - n * DEPOSIT_SIZE
      /\ balance' = balance - n * DEPOSIT_SIZE
      /\ depositedValidators' = depositedValidators + n
      /\ UNCHANGED <<tokenVars, clValidators, clBalance, burnRequested, queueVars, vaultVars,
                     block, report>>
  BY DEF Deposit
<1>2. /\ bufferedAce \in Nat /\ balance = bufferedAce /\ depositedValidators \in Nat
      /\ clBalance \in Nat /\ clValidators \in Nat /\ clValidators <= depositedValidators
  BY DEF PoolInv, PoolOK, BufferIsBacked
<1>3. n \in Nat /\ n * DEPOSIT_SIZE \in Nat /\ n * DEPOSIT_SIZE <= bufferedAce
  <2> DEFINE d == bufferedAce \div DEPOSIT_SIZE
  <2>1. d \in Nat /\ DEPOSIT_SIZE * d <= bufferedAce
    BY <1>2, Naturals, Division
  <2>2. n \in 1 .. d
    OBVIOUS
  <2> HIDE DEF d
  <2>3. n \in Nat /\ n <= d
    BY <2>1, <2>2
  <2>4. n * DEPOSIT_SIZE <= d * DEPOSIT_SIZE /\ n * DEPOSIT_SIZE \in Nat
        /\ d * DEPOSIT_SIZE = DEPOSIT_SIZE * d /\ d * DEPOSIT_SIZE \in Nat
    BY <2>1, <2>3, Naturals, Factor
  <2> QED BY <1>2, <2>1, <2>3, <2>4
<1>4. PoolOK'
  <2> DEFINE paid == n * DEPOSIT_SIZE
  <2>1. paid \in Nat /\ paid <= bufferedAce /\ bufferedAce' = bufferedAce - paid
        /\ balance' = balance - paid
    BY <1>1, <1>3
  <2> HIDE DEF paid
  <2>2. bufferedAce' \in Nat /\ balance' = bufferedAce'
    BY <1>2, <2>1
  <2>3. depositedValidators' \in Nat /\ clValidators' <= depositedValidators'
    BY <1>1, <1>2, <1>3
  <2> QED BY <1>1, <1>2, <2>2, <2>3 DEF PoolOK, BufferIsBacked
<1> QED BY <1>1, <1>4, Frames DEF PoolInv, queueVars

(* The report is simulated without withdrawals, passes the checks as they  *)
(* are made, and then gets its rate and its batches.                       *)
LEMMA SnapshotTaken ==
  ASSUME PoolInv, TakeSnapshot
  PROVE  \E r \in Reports(1 .. Len(queue)) :
           /\ r.timestamp = block /\ r.batches = <<>>
           /\ PassesChecks(r, Outcome(r))
           /\ SimulatedShareRate(r) \in Nat /\ Outcome(r).bufferedAce \in Nat
           /\ report' = [r EXCEPT !.batches = FinalizationBatchesOf(r, SimulatedShareRate(r)),
                                  !.simulatedShareRate = SimulatedShareRate(r)]
<1>1. UNCHANGED <<tokenVars, poolVars, burnRequested, queueVars, vaultVars, block>>
  BY DEF TakeSnapshot
<1>2. /\ block \in Nat /\ Accumulates(queue) /\ lastFinalizedRequestId \in 0 .. Len(queue)
      /\ clBalance \in Nat /\ clValidators \in Nat /\ depositedValidators \in Nat
      /\ swept \in Int /\ withdrawalVault \in Nat /\ elRewardsVault \in Nat
      /\ burnRequested.cover \in Nat /\ burnRequested.nonCover \in Nat
  BY DEF PoolInv, ReportOK, QueueOK, PoolOK, VaultsOK, BurnerOK
<1> DEFINE CL(v, change) == clBalance + (v - clValidators) * DEPOSIT_SIZE - swept + change
           Sim(v, change) ==
             [timestamp |-> block, clValidators |-> v,
              clBalance |-> CL(v, change), swept |-> swept,
              withdrawalVaultBalance |-> withdrawalVault,
              elRewardsVaultBalance  |-> elRewardsVault,
              sharesRequestedToBurn  |-> SharesRequestedToBurn,
              batches |-> <<>>, simulatedShareRate |-> 0,
              bunkerMode |-> change < 0]
<1>3. PICK v \in clValidators .. depositedValidators, change \in CLChanges :
        /\ CL(v, change) >= 0
        /\ PassesChecks(Sim(v, change), Outcome(Sim(v, change)))
        /\ report' = [Sim(v, change) EXCEPT
                        !.batches = FinalizationBatchesOf(Sim(v, change),
                                                          SimulatedShareRate(Sim(v, change))),
                        !.simulatedShareRate = SimulatedShareRate(Sim(v, change))]
  BY DEF TakeSnapshot
<1> DEFINE r == Sim(v, change)
           rate == SimulatedShareRate(r)
           o == Outcome(r)
           ids == 1 .. Len(queue)
<1>4. CL(v, change) \in Nat /\ v \in Nat
  <2>1. change \in Int /\ v \in Nat
    <3>1. CLChanges \subseteq Int
      BY CatalistAssumption
    <3> HIDE DEF CL, Sim
    <3> QED BY <1>2, <3>1
  <2> DEFINE d == v - clValidators
  <2>2. d \in Int
    BY <1>2, <2>1
  <2> HIDE DEF d
  <2>3. d * DEPOSIT_SIZE \in Int
    BY <2>2, Naturals
  <2>4. clBalance + d * DEPOSIT_SIZE - swept + change \in Int
    BY <1>2, <2>1, <2>3
  <2> QED BY <1>3, <2>1, <2>4 DEF d
<1>5. r \in Reports(ids)
  <2>1. <<>> \in Seq(ids)
    BY EmptySeq
  <2>2. SharesRequestedToBurn \in Nat
    BY <1>2 DEF SharesRequestedToBurn
  <2> HIDE DEF CL, ids
  <2> QED BY <1>2, <1>4, <2>1, <2>2 DEF Reports
<1>6. r.timestamp = block /\ r.batches = <<>>
  <2> HIDE DEF CL
  <2> QED OBVIOUS
<1> HIDE DEF Sim
<1>7. o.postTotalPooledAce \in Nat /\ o.postTotalShares \in Nat /\ o.postTotalShares > 0
      /\ o.bufferedAce \in Nat
  BY <1>3, <1>5, OutcomeOK
<1>8. rate \in Nat
  <2> DEFINE n == o.postTotalPooledAce * SHARE_RATE_PRECISION_E27
             s == o.postTotalShares
  <2>1. n \in Int /\ n >= 0 /\ s \in Nat /\ s > 0
    <3> HIDE DEF o
    <3> QED BY <1>7, Naturals
  <2>2. rate = n \div s
    BY DEF SimulatedShareRate
  <2> HIDE DEF n, s, rate
  <2> QED BY <2>1, <2>2, Division
<1> HIDE DEF r, o, rate
<1> QED BY <1>3, <1>5, <1>7, <1>8, <1>6 DEF r, o, rate

(* The report that the daemon makes names requests of the queue.           *)
LEMMA TakeSnapshotPool ==
  ASSUME PoolInv, TakeSnapshot
  PROVE  PoolInv'
<1>1. UNCHANGED <<tokenVars, poolVars, burnRequested, queueVars, vaultVars, block>>
  BY DEF TakeSnapshot
<1>2. block \in Nat /\ Accumulates(queue) /\ lastFinalizedRequestId \in 0 .. Len(queue)
  BY DEF PoolInv, ReportOK, QueueOK
<1> DEFINE ids == 1 .. Len(queue)
<1>3. PICK r \in Reports(ids) :
        /\ SimulatedShareRate(r) \in Nat /\ Outcome(r).bufferedAce \in Nat
        /\ report' = [r EXCEPT !.batches = FinalizationBatchesOf(r, SimulatedShareRate(r)),
                               !.simulatedShareRate = SimulatedShareRate(r)]
  BY SnapshotTaken
<1> DEFINE rate == SimulatedShareRate(r)
<1>4. FinalizationBatchesOf(r, rate) \in Seq(ids)
  <2> DEFINE time == block - RequestTimestampMargin
             budget == Outcome(r).bufferedAce
  <2>1. budget \in Nat /\ time \in Int /\ rate \in Nat
    BY <1>2, <1>3, Naturals
  <2>2. FinalizationBatchesOf(r, rate)
          = CalculateFinalizationBatches(queue, lastFinalizedRequestId, rate, time, MaxRequests,
              [remainingAceBudget |-> budget, batches |-> <<>>]).batches
    BY DEF FinalizationBatchesOf
  <2> HIDE DEF time, budget, rate
  <2> QED BY <1>2, <2>1, <2>2, Naturals, DaemonBatches
<1>5. report' \in Reports(ids)
  <2>1. report' = [r EXCEPT !.batches = FinalizationBatchesOf(r, rate),
                            !.simulatedShareRate = rate] /\ rate \in Nat
    BY <1>3
  <2> HIDE DEF rate, ids
  <2> QED BY <1>4, <2>1 DEF Reports
<1>6. ReportOK'
  BY <1>1, <1>2, <1>5 DEF ReportOK, queueVars
<1> QED BY <1>1, <1>6, Frames DEF PoolInv

(* A commit takes as much from the requests to burn as is burnt, and none  *)
(* of the two counters below zero.                                         *)
LEMMA CommitOK ==
  ASSUME NEW c \in Nat, NEW n \in Nat, NEW burn \in Nat, burn <= c + n
  PROVE  LET left == CommitSharesToBurn([cover |-> c, nonCover |-> n], burn)
         IN  left \in [cover : Nat, nonCover : Nat] /\ left.cover + left.nonCover = c + n - burn
<1> DEFINE fc == Smaller(burn, c)
           left == CommitSharesToBurn([cover |-> c, nonCover |-> n], burn)
<1>1. left = [cover |-> c - fc, nonCover |-> n - (burn - fc)]
  BY DEF CommitSharesToBurn
<1>2. fc \in Nat /\ fc <= c /\ fc <= burn /\ burn - fc <= n
  BY DEF Smaller
<1> HIDE DEF fc, left
<1> QED BY <1>1, <1>2 DEF left

(* Processing the report.                                                  *)
LEMMA HandleReportPool ==
  ASSUME PoolInv, HandleOracleReport
  PROVE  PoolInv'
<1> DEFINE o == Outcome(report)
           fromQueue == o.fromQueue
           burn == o.smooth.sharesToBurn
           held == SharesAfterBurn(shares, fromQueue, burn)
           el == o.smooth.elRewards
           wd == o.smooth.withdrawals
<1>1. report \in Reports(1 .. Len(queue)) /\ report # NoReport /\ report' = NoReport
  BY DEF PoolInv, ReportOK, HandleOracleReport
<1>2. /\ report.timestamp \in Nat /\ report.clValidators \in Nat /\ report.clBalance \in Nat
      /\ report.swept \in Int /\ report.elRewardsVaultBalance \in Nat
      /\ report.withdrawalVaultBalance \in Nat
  BY <1>1 DEF Reports
<1>3. /\ PassesChecks(report, o)
      /\ clValidators' = report.clValidators /\ clBalance' = report.clBalance
      /\ bufferedAce' = o.bufferedAce
      /\ balance' = balance + Smaller(el, elRewardsVault) + wd - o.lock
      /\ elRewardsVault' = elRewardsVault - Smaller(el, elRewardsVault)
      /\ withdrawalVault' = withdrawalVault - wd
      /\ swept' = swept - report.swept
      /\ lastFinalizedRequestId' =
           IF o.lock > 0 THEN Last(report.batches) ELSE lastFinalizedRequestId
      /\ burnRequested' = CommitSharesToBurn(AddBurnRequest(burnRequested, fromQueue, FALSE), burn)
      /\ shares' = DistributeFee(held, o.fees)
      /\ totalShares' = o.postTotalShares
      /\ lastReportTimestamp' = report.timestamp
      /\ depositedValidators' = depositedValidators /\ queue' = queue /\ block' = block
  BY DEF HandleOracleReport
<1>4. /\ o.lock \in Nat /\ fromQueue \in Nat /\ wd \in 0 .. report.withdrawalVaultBalance
      /\ el \in 0 .. report.elRewardsVaultBalance /\ burn \in Nat /\ o.fees \in Nat
      /\ o.bufferedAce \in Nat /\ o.bufferedAce = bufferedAce + el + wd - o.lock
      /\ o.postTotalShares = totalShares - burn + o.fees /\ o.postTotalShares \in Nat
      /\ o.lock > 0 => Last(report.batches) \in 1 .. Len(queue)
  BY <1>1, <1>3, OutcomeOK
<1>5. /\ report.clValidators <= depositedValidators
      /\ fromQueue <= shares[WithdrawalQueueAddress]
      /\ burn <= SharesRequestedToBurn + fromQueue
      /\ burn <= shares[Burner] + fromQueue
      /\ report.withdrawalVaultBalance <= withdrawalVault
      /\ report.elRewardsVaultBalance <= elRewardsVault
  BY <1>3 DEF PassesChecks, CheckAccountingOracleReport
<1> HIDE DEF o, fromQueue, burn, el, wd
<1>6. TokenOK'
  <2>1. shares \in [Accounts -> Nat] /\ totalShares \in Nat
        /\ totalShares = SumOf(shares, Accounts)
        /\ shares[INITIAL_TOKEN_HOLDER] >= InitialBalance
    BY AddUpIsSum DEF PoolInv, TokenOK
  <2>2. INITIAL_TOKEN_HOLDER \in Accounts /\ INITIAL_TOKEN_HOLDER # Burner
        /\ INITIAL_TOKEN_HOLDER # WithdrawalQueueAddress
    BY AccountsFinite, CatalistAssumption
  <2>3. /\ held \in [Accounts -> Nat] /\ SumOf(held, Accounts) = totalShares - burn
        /\ held[INITIAL_TOKEN_HOLDER] = shares[INITIAL_TOKEN_HOLDER]
    <3>1. /\ held \in [Accounts -> Nat] /\ SumOf(held, Accounts) = SumOf(shares, Accounts) - burn
          /\ \A a \in Accounts : held[a] =
               IF a = WithdrawalQueueAddress THEN shares[a] - fromQueue
               ELSE IF a = Burner THEN shares[a] + fromQueue - burn ELSE shares[a]
      <4>1. fromQueue \in Nat /\ burn \in Nat
        BY <1>4
      <4> QED BY ONLY <1>5, <2>1, <4>1, BurnOK DEF held
    <3> HIDE DEF held
    <3> QED BY <2>1, <2>2, <3>1
  <2> HIDE DEF held
  <2>4. /\ shares' \in [Accounts -> Nat] /\ SumOf(shares', Accounts) = SumOf(held, Accounts) + o.fees
        /\ held[INITIAL_TOKEN_HOLDER] <= shares'[INITIAL_TOKEN_HOLDER]
    BY <1>3, <1>4, <2>2, <2>3, DistributeOK
  <2>5. SharesAddUp' /\ totalShares' \in Nat
    BY <1>3, <1>4, <2>3, <2>4, AddUpIsSum
  <2>6. shares'[INITIAL_TOKEN_HOLDER] >= InitialBalance
    BY <2>1, <2>2, <2>3, <2>4, Naturals
  <2> QED BY <2>4, <2>5, <2>6 DEF TokenOK
<1>7. elRewardsVault \in Nat /\ withdrawalVault \in Nat /\ swept \in Int
      /\ Smaller(el, elRewardsVault) = el
  BY <1>2, <1>4, <1>5 DEF PoolInv, VaultsOK, Smaller
<1>8. PoolOK'
  <2>1. balance = bufferedAce /\ depositedValidators \in Nat
    BY DEF PoolInv, PoolOK, BufferIsBacked
  <2>2. balance' = bufferedAce'
    BY <1>3, <1>4, <1>7, <2>1
  <2> QED BY <1>2, <1>3, <1>4, <1>5, <2>1, <2>2 DEF PoolOK, BufferIsBacked
<1>9. BurnerOK'
  <2> DEFINE c == burnRequested.cover
             n == burnRequested.nonCover
  <2>1. c \in Nat /\ n \in Nat /\ burnRequested = [cover |-> c, nonCover |-> n]
        /\ burn <= c + n + fromQueue
    BY <1>5 DEF PoolInv, BurnerOK, SharesRequestedToBurn
  <2>2. burnRequested' = CommitSharesToBurn([cover |-> c, nonCover |-> n + fromQueue], burn)
    <3>1. AddBurnRequest(burnRequested, fromQueue, FALSE)
            = [cover |-> c, nonCover |-> n + fromQueue]
      BY <2>1 DEF AddBurnRequest
    <3> QED BY <1>3, <3>1
  <2> HIDE DEF c, n
  <2>3. n + fromQueue \in Nat /\ burn \in Nat /\ burn <= c + (n + fromQueue)
    BY <1>4, <2>1
  <2> QED BY ONLY <2>1, <2>2, <2>3, CommitOK DEF BurnerOK
<1>10. QueueOK'
  <2>1. Accumulates(queue) /\ lastFinalizedRequestId \in 0 .. Len(queue) /\ Len(queue) \in Nat
    BY LenProperties DEF PoolInv, QueueOK, Accumulates
  <2>2. lastFinalizedRequestId' \in 0 .. Len(queue)
    BY <1>3, <1>4, <2>1
  <2> QED BY <1>2, <1>3, <2>1, <2>2 DEF QueueOK
<1>11. VaultsOK'
  <2>1. elRewardsVault' = elRewardsVault - el
    BY <1>3, <1>7
  <2>2. el \in Nat /\ el <= elRewardsVault
    BY <1>2, <1>4, <1>5, <1>7
  <2>3. elRewardsVault' \in Nat
    BY <1>7, <2>1, <2>2
  <2>4. wd \in Nat /\ wd <= withdrawalVault
    BY <1>2, <1>4, <1>5, <1>7
  <2>5. withdrawalVault' \in Nat
    BY <1>3, <1>7, <2>4
  <2>6. swept' \in Int
    BY <1>2, <1>3, <1>7
  <2> QED BY <2>3, <2>5, <2>6 DEF VaultsOK
<1>12. ReportOK'
  BY <1>1, <1>3 DEF PoolInv, ReportOK
<1> QED BY <1>6, <1>8, <1>9, <1>10, <1>11, <1>12 DEF PoolInv

(* The strengthened invariant is inductive.                                *)
LEMMA PoolStep ==
  ASSUME PoolInv, [Next]_vars
  PROVE  PoolInv'
<1>1. ASSUME NEW user \in Users, NEW amount \in StakeAmounts, Submit(user, amount)
      PROVE  PoolInv'
  BY <1>1, SubmitPool
<1>2. ASSUME NEW user \in Users, NEW amount \in RequestAmounts, RequestWithdrawal(user, amount)
      PROVE  PoolInv'
  BY <1>2, RequestWithdrawalPool
<1>3. ASSUME NEW user \in Users, NEW to \in Users \cup {Burner}, NEW amount \in ShareAmounts,
             Transfer(user, to, amount)
      PROVE  PoolInv'
  <2>1. to \in Accounts
    BY AccountsFinite
  <2> QED BY <1>3, <2>1, TransferPool
<1>4. ASSUME NEW user \in Users, NEW amount \in ShareAmounts, NEW isCover \in BOOLEAN,
             RequestBurn(user, amount, isCover)
      PROVE  PoolInv'
  BY <1>4, RequestBurnPool
<1>5. CASE RecoverExcessBACE
  BY <1>5, RecoverPool
<1>6. ASSUME NEW depositsCount \in 1 .. (bufferedAce \div DEPOSIT_SIZE), Deposit(depositsCount)
      PROVE  PoolInv'
  BY <1>6, DepositPool
<1>7. ASSUME NEW amount \in RewardAmounts, ReceiveELRewards(amount)
      PROVE  PoolInv'
  <2>1. amount \in Nat
    BY CatalistAssumption
  <2>2. VaultsOK'
    BY <1>7, <2>1 DEF ReceiveELRewards, PoolInv, VaultsOK
  <2> QED BY <1>7, <2>2, Frames DEF ReceiveELRewards, PoolInv, queueVars
<1>8. ASSUME NEW amount \in SweepAmounts, Sweep(amount)
      PROVE  PoolInv'
  <2>1. amount \in Nat
    BY CatalistAssumption
  <2>2. VaultsOK'
    BY <1>8, <2>1 DEF Sweep, PoolInv, VaultsOK
  <2> QED BY <1>8, <2>2, Frames DEF Sweep, PoolInv, queueVars
<1>9. CASE TakeSnapshot
  BY <1>9, TakeSnapshotPool
<1>10. CASE HandleOracleReport
  BY <1>10, HandleReportPool
<1>11. CASE NextBlock
  <2>1. ReportOK'
    BY <1>11 DEF NextBlock, PoolInv, ReportOK, queueVars
  <2> QED BY <1>11, <2>1, Frames DEF NextBlock, PoolInv
<1>12. CASE Administer
  <2>1. QueueOK'
    BY <1>12 DEF Administer, PoolInv, QueueOK
  <2> QED BY <1>12, <2>1, Frames DEF Administer, PoolInv
<1>13. CASE UNCHANGED vars
  BY <1>13, Frames DEF vars, PoolInv, queueVars
<1> QED
  BY <1>1, <1>2, <1>3, <1>4, <1>5, <1>6, <1>7, <1>8, <1>9, <1>10, <1>11, <1>12, <1>13 DEF Next

LEMMA PoolInit ==
  ASSUME Init
  PROVE  PoolInv
<1>1. /\ shares = [account \in Accounts |->
                     IF account = INITIAL_TOKEN_HOLDER THEN InitialBalance ELSE 0]
      /\ totalShares = InitialBalance
  BY DEF Init
<1>2. shares \in [Accounts -> Nat] /\ shares[INITIAL_TOKEN_HOLDER] = InitialBalance
  BY <1>1, AccountsFinite, Naturals
<1>3. SumOf(shares, Accounts) = InitialBalance
  <2> DEFINE R == Accounts \ {INITIAL_TOKEN_HOLDER}
             zero == [a \in R |-> 0]
  <2>1. SumOf(shares, Accounts) = shares[INITIAL_TOKEN_HOLDER] + SumOf(shares, R)
    BY <1>2, AccountsFinite, SumStep
  <2>2. IsFiniteSet(R) /\ \A a \in R : shares[a] = 0
    BY <1>1, AccountsFinite, FS_Subset
  <2> HIDE DEF R
  <2>3. SumOf(shares, R) \in Int /\ 1 * SumOf(shares, R) <= 0 * SumOf(shares, R)
        /\ (0 - 1) * SumOf(shares, R) <= 0 * SumOf(shares, R)
    <3>1. \A a \in R : shares[a] \in Int /\ 1 * shares[a] <= 0 * shares[a]
                                         /\ (0 - 1) * shares[a] <= 0 * shares[a]
      BY <2>2
    <3>2. SumOf(shares, R) \in Int
      BY <2>2, <3>1, SumType
    <3>3. 1 * SumOf(shares, R) <= 0 * SumOf(shares, R)
      BY <2>2, <3>1, SumScaled
    <3>4. (0 - 1) * SumOf(shares, R) <= 0 * SumOf(shares, R)
      <4>1. 0 - 1 \in Int /\ 0 \in Int
        OBVIOUS
      <4> QED BY <2>2, <3>1, <4>1, SumScaled
    <3> QED BY <3>2, <3>3, <3>4
  <2>4. SumOf(shares, R) = 0
    BY <2>3
  <2> QED BY <1>2, <2>1, <2>4, Naturals
<1>4. TokenOK
  BY <1>1, <1>2, <1>3, AddUpIsSum, Naturals DEF TokenOK
<1>5. PoolOK /\ BurnerOK /\ VaultsOK /\ ReportOK
  BY Naturals DEF Init, PoolOK, BurnerOK, VaultsOK, ReportOK, BufferIsBacked
<1>6. QueueOK
  <2>1. queue = <<>> /\ Len(queue) = 0 /\ queue \in Seq(Requests)
    BY EmptySeq DEF Init
  <2> QED BY <2>1 DEF Init, QueueOK, Accumulates
<1> QED BY <1>4, <1>5, <1>6 DEF PoolInv

-----------------------------------------------------------------------------
(* The theorems of the pool *)

(* The shares add up to their total, every number of the pool stays a      *)
(* natural number, the buffer is backed, and the stored report names       *)
(* requests of the queue: the invariant of all operations together.        *)
THEOREM PoolInvariance == Spec => []PoolInv
<1>1. Init => PoolInv
  BY PoolInit
<1>2. PoolInv /\ [Next]_vars => PoolInv'
  BY PoolStep
<1> QED BY <1>1, <1>2, PTL DEF Spec

(* Minting, burning, transfers and the fees keep the stored total of the   *)
(* shares equal to the sum over the accounts (BACE, Burner, Catalist).     *)
THEOREM SharesSum == Spec => []SharesAddUp
<1>1. PoolInv => SharesAddUp
  BY DEF PoolInv, TokenOK
<1> QED BY <1>1, PoolInvariance, PTL

(* The contract holds the ace that its counter of the buffer says, and no  *)
(* validator appears that was not deposited (Catalist).                    *)
THEOREM BufferBacked == Spec => []BufferIsBacked
<1>1. PoolInv => BufferIsBacked
  BY DEF PoolInv, PoolOK
<1> QED BY <1>1, PoolInvariance, PTL

(* A stake never takes from the ace behind the shares there are: its       *)
(* shares are rounded down.                                                *)
LEMMA SubmitKeepsRate ==
  ASSUME PoolInv, NEW user \in Users, NEW amount \in StakeAmounts, Submit(user, amount)
  PROVE  TotalPooledAce' * totalShares >= TotalPooledAce * totalShares'
<1> DEFINE P == TotalPooledAce
           S == totalShares
           minted == GetSharesByPooledAce(amount)
<1>1. amount \in Nat
  BY CatalistAssumption
<1>2. PoolHasAce /\ totalShares' = S + minted
      /\ bufferedAce' = bufferedAce + amount
      /\ UNCHANGED <<depositedValidators, clValidators, clBalance>>
  BY DEF Submit
<1>3. P \in Nat /\ S \in Nat /\ TransientBalance \in Nat
  BY Pooled
<1>4. minted \in Nat /\ P * minted <= amount * S
  BY <1>1, <1>2, SharesOfAmount
<1>5. TotalPooledAce' = P + amount
  <2>1. TransientBalance' = TransientBalance
    BY <1>2 DEF TransientBalance
  <2>2. bufferedAce \in Nat /\ clBalance \in Nat
    BY DEF PoolInv, PoolOK
  <2> QED BY <1>1, <1>2, <1>3, <2>1, <2>2 DEF TotalPooledAce
<1> HIDE DEF P, S, minted
<1>6. (P + amount) * S = P * S + amount * S /\ P * (S + minted) = P * S + P * minted
      /\ P * S \in Nat /\ amount * S \in Nat /\ P * minted \in Nat
  BY <1>1, <1>3, <1>4
<1>7. (P + amount) * S >= P * (S + minted)
  BY <1>4, <1>6
<1> QED BY <1>2, <1>5, <1>7 DEF P, S, minted

(* A deposit turns ace of the buffer into as much transient balance.       *)
LEMMA DepositKeepsAce ==
  ASSUME PoolInv, NEW n \in 1 .. (bufferedAce \div DEPOSIT_SIZE), Deposit(n)
  PROVE  TotalPooledAce' = TotalPooledAce
<1> DEFINE paid == n * DEPOSIT_SIZE
           d == depositedValidators - clValidators
           t == d * DEPOSIT_SIZE
<1>1. /\ bufferedAce' = bufferedAce - paid /\ depositedValidators' = depositedValidators + n
      /\ clValidators' = clValidators /\ clBalance' = clBalance
  BY DEF Deposit
<1>2. bufferedAce \in Nat /\ clBalance \in Nat /\ depositedValidators \in Nat /\ clValidators \in Nat
  BY DEF PoolInv, PoolOK
<1>3. n \in Int
  OBVIOUS
<1>4. d \in Int /\ depositedValidators' - clValidators' = d + n
  BY <1>1, <1>2, <1>3
<1>5. TransientBalance' = (d + n) * DEPOSIT_SIZE
  BY <1>4 DEF TransientBalance
<1>6. TransientBalance = t
  BY DEF TransientBalance
<1> HIDE DEF d
<1>7. (d + n) * DEPOSIT_SIZE = t + paid /\ t \in Int /\ paid \in Int
  BY <1>3, <1>4, Naturals
<1> HIDE DEF paid, t
<1> QED BY <1>1, <1>2, <1>5, <1>6, <1>7 DEF TotalPooledAce

(* No operation but the report changes the ace behind a share to its       *)
(* holder's loss: stakes, requests, transfers, deposits and recoveries     *)
(* round against the caller (BACE._getSharesByPooledAce).                  *)
THEOREM RateNotDiluted == Spec => NoDilution
<1> DEFINE Keeps == report' # NoReport \/ report = NoReport =>
                      TotalPooledAce' * totalShares >= TotalPooledAce * totalShares'
<1>1. ASSUME PoolInv, [Next]_vars PROVE Keeps
  <2>1. TotalPooledAce \in Nat /\ totalShares \in Nat
    BY <1>1, Pooled
  <2>2. TotalPooledAce * totalShares \in Nat
    BY <2>1
  <2>3. ASSUME totalShares' = totalShares, TotalPooledAce' = TotalPooledAce PROVE Keeps
    BY <2>2, <2>3
  <2>4. ASSUME UNCHANGED <<totalShares, poolVars>> PROVE Keeps
    <3>1. TotalPooledAce' = TotalPooledAce
      BY <2>4 DEF poolVars, TotalPooledAce, TransientBalance
    <3> QED BY <2>3, <2>4, <3>1
  <2>5. ASSUME NEW user \in Users, NEW amount \in StakeAmounts, Submit(user, amount) PROVE Keeps
    BY <1>1, <2>5, SubmitKeepsRate
  <2>6. ASSUME NEW user \in Users, NEW amount \in RequestAmounts, RequestWithdrawal(user, amount)
        PROVE  Keeps
    BY <2>4, <2>6 DEF RequestWithdrawal
  <2>7. ASSUME NEW user \in Users, NEW to \in Users \cup {Burner}, NEW amount \in ShareAmounts,
               Transfer(user, to, amount)
        PROVE  Keeps
    BY <2>4, <2>7 DEF Transfer
  <2>8. ASSUME NEW user \in Users, NEW amount \in ShareAmounts, NEW isCover \in BOOLEAN,
               RequestBurn(user, amount, isCover)
        PROVE  Keeps
    BY <2>4, <2>8 DEF RequestBurn
  <2>9. CASE RecoverExcessBACE
    BY <2>4, <2>9 DEF RecoverExcessBACE
  <2>10. ASSUME NEW n \in 1 .. (bufferedAce \div DEPOSIT_SIZE), Deposit(n) PROVE Keeps
    <3>1. totalShares' = totalShares
      BY <2>10 DEF Deposit, tokenVars
    <3> QED BY <1>1, <2>3, <2>10, <3>1, DepositKeepsAce
  <2>11. ASSUME NEW amount \in RewardAmounts, ReceiveELRewards(amount) PROVE Keeps
    BY <2>4, <2>11 DEF ReceiveELRewards, tokenVars
  <2>12. ASSUME NEW amount \in SweepAmounts, Sweep(amount) PROVE Keeps
    BY <2>4, <2>12 DEF Sweep, tokenVars
  <2>13. CASE TakeSnapshot
    BY <2>4, <2>13 DEF TakeSnapshot, tokenVars
  <2>14. CASE HandleOracleReport
    BY <2>14 DEF HandleOracleReport
  <2>15. CASE NextBlock
    BY <2>4, <2>15 DEF NextBlock, tokenVars
  <2>16. CASE Administer
    BY <2>4, <2>16 DEF Administer, tokenVars
  <2>17. CASE UNCHANGED vars
    BY <2>4, <2>17 DEF vars, tokenVars
  <2> HIDE DEF Keeps
  <2> QED
    BY <1>1, <2>5, <2>6, <2>7, <2>8, <2>9, <2>10, <2>11, <2>12, <2>13, <2>14, <2>15, <2>16, <2>17
       DEF Next
<1> QED BY <1>1, PoolInvariance, PTL DEF Spec, NoDilution

-----------------------------------------------------------------------------
(* What the burner and the queue hold *)

(* The shares of the requests that are not finalized. *)
UnfinalizedShares ==
  At(queue, Len(queue)).cumulativeShares - At(queue, lastFinalizedRequestId).cumulativeShares

Covered ==
  /\ shares[Burner] >= SharesRequestedToBurn
  /\ shares[WithdrawalQueueAddress] >= UnfinalizedShares

LEMMA CoveredIsHoldings ==
  ASSUME PoolInv
  PROVE  HoldingsCovered <=> Covered
BY DEF PoolInv, BurnerOK, HoldingsCovered, Covered, UnfinalizedShares

(* The numbers the two conjuncts compare.                                  *)
LEMMA CoveredTypes ==
  ASSUME PoolInv
  PROVE  /\ Burner \in Accounts /\ WithdrawalQueueAddress \in Accounts
         /\ Burner # WithdrawalQueueAddress
         /\ shares \in [Accounts -> Nat]
         /\ shares[Burner] \in Nat /\ shares[WithdrawalQueueAddress] \in Nat
         /\ SharesRequestedToBurn \in Nat /\ UnfinalizedShares \in Nat
         /\ Len(queue) \in Nat
<1>1. Burner \in Accounts /\ WithdrawalQueueAddress \in Accounts /\ Burner # WithdrawalQueueAddress
  BY AccountsFinite, CatalistAssumption
<1>2. shares \in [Accounts -> Nat]
  BY DEF PoolInv, TokenOK
<1>3. SharesRequestedToBurn \in Nat
  BY DEF PoolInv, BurnerOK, SharesRequestedToBurn
<1>4. Accumulates(queue) /\ lastFinalizedRequestId \in 0 .. Len(queue) /\ Len(queue) \in Nat
  BY LenProperties DEF PoolInv, QueueOK, Accumulates
<1>5. Len(queue) \in 0 .. Len(queue) /\ lastFinalizedRequestId <= Len(queue)
  BY <1>4
<1>6. UnfinalizedShares \in Nat
  BY <1>4, <1>5, AtOK, AtGrows DEF UnfinalizedShares
<1> QED BY <1>1, <1>2, <1>3, <1>4, <1>6

(* A step that keeps the requests and takes from neither holder.           *)
LEMMA CoveredFrame ==
  ASSUME PoolInv, Covered, shares' \in [Accounts -> Nat],
         UNCHANGED <<burnRequested, queue, lastFinalizedRequestId>>,
         shares'[Burner] >= shares[Burner],
         shares'[WithdrawalQueueAddress] >= shares[WithdrawalQueueAddress]
  PROVE  Covered'
<1>1. /\ shares[Burner] \in Nat /\ shares[WithdrawalQueueAddress] \in Nat
      /\ shares'[Burner] \in Nat /\ shares'[WithdrawalQueueAddress] \in Nat
      /\ SharesRequestedToBurn \in Nat /\ UnfinalizedShares \in Nat
  BY CoveredTypes
<1>2. SharesRequestedToBurn' = SharesRequestedToBurn /\ UnfinalizedShares' = UnfinalizedShares
  BY DEF SharesRequestedToBurn, UnfinalizedShares
<1> QED BY <1>1, <1>2 DEF Covered

LEMMA SubmitCovered ==
  ASSUME PoolInv, Covered, NEW user \in Users, NEW amount \in StakeAmounts, Submit(user, amount)
  PROVE  Covered'
<1> DEFINE minted == GetSharesByPooledAce(amount)
<1>1. shares' = [shares EXCEPT ![user] = @ + minted]
      /\ UNCHANGED <<burnRequested, queue, lastFinalizedRequestId>>
  BY DEF Submit, queueVars
<1>2. user # Burner /\ user # WithdrawalQueueAddress
  BY CatalistAssumption
<1>3. PoolInv'
  BY SubmitPool
<1> HIDE DEF minted
<1>4. shares' \in [Accounts -> Nat]
  BY <1>3 DEF PoolInv, TokenOK
<1>5. shares'[Burner] = shares[Burner]
      /\ shares'[WithdrawalQueueAddress] = shares[WithdrawalQueueAddress]
  BY <1>1, <1>2, CoveredTypes
<1>6. shares[Burner] \in Nat /\ shares[WithdrawalQueueAddress] \in Nat
  BY CoveredTypes
<1>7. shares'[Burner] >= shares[Burner]
      /\ shares'[WithdrawalQueueAddress] >= shares[WithdrawalQueueAddress]
  BY <1>5, <1>6
<1> QED BY <1>1, <1>4, <1>7, CoveredFrame

LEMMA TransferCovered ==
  ASSUME PoolInv, Covered, NEW user \in Users, NEW to \in Users \cup {Burner},
         NEW amount \in ShareAmounts, Transfer(user, to, amount)
  PROVE  Covered'
<1>1. /\ amount <= shares[user] /\ shares' = TransferShares(user, to, amount)
      /\ UNCHANGED <<burnRequested, queue, lastFinalizedRequestId>>
  BY DEF Transfer, CanTransferShares, queueVars
<1>2. amount \in Nat /\ user \in Accounts /\ to \in Accounts /\ user # Burner
      /\ user # WithdrawalQueueAddress
  BY AccountsFinite, CatalistAssumption
<1>3. /\ shares \in [Accounts -> Nat] /\ shares[Burner] \in Nat
      /\ shares[WithdrawalQueueAddress] \in Nat
      /\ Burner \in Accounts /\ WithdrawalQueueAddress \in Accounts
  BY CoveredTypes
<1>4. /\ shares' \in [Accounts -> Nat]
      /\ \A a \in Accounts :
           shares'[a] = IF user = to THEN shares[a]
                        ELSE IF a = user THEN shares[a] - amount
                        ELSE IF a = to THEN shares[a] + amount ELSE shares[a]
  BY <1>1, <1>2, <1>3, TransferKeepsSum
<1>5. shares'[Burner] >= shares[Burner]
      /\ shares'[WithdrawalQueueAddress] >= shares[WithdrawalQueueAddress]
  BY <1>2, <1>3, <1>4
<1> QED BY <1>1, <1>4, <1>5, CoveredFrame

LEMMA RequestBurnCovered ==
  ASSUME PoolInv, Covered, NEW user \in Users, NEW amount \in ShareAmounts,
         NEW isCover \in BOOLEAN, RequestBurn(user, amount, isCover)
  PROVE  Covered'
<1>1. /\ amount <= shares[user] /\ shares' = TransferShares(user, Burner, amount)
      /\ burnRequested' = AddBurnRequest(burnRequested, amount, isCover)
      /\ UNCHANGED <<queue, lastFinalizedRequestId>>
  BY DEF RequestBurn, CanTransferShares, queueVars
<1>2. amount \in Nat /\ user \in Accounts /\ user # Burner /\ user # WithdrawalQueueAddress
  BY AccountsFinite, CatalistAssumption
<1>3. /\ shares \in [Accounts -> Nat] /\ shares[Burner] \in Nat
      /\ shares[WithdrawalQueueAddress] \in Nat
      /\ Burner \in Accounts /\ WithdrawalQueueAddress \in Accounts
      /\ Burner # WithdrawalQueueAddress
      /\ SharesRequestedToBurn \in Nat /\ UnfinalizedShares \in Nat
  BY CoveredTypes
<1>4. \A a \in Accounts :
        shares'[a] = IF user = Burner THEN shares[a]
                     ELSE IF a = user THEN shares[a] - amount
                     ELSE IF a = Burner THEN shares[a] + amount ELSE shares[a]
  BY <1>1, <1>2, <1>3, TransferKeepsSum
<1>5. shares'[Burner] = shares[Burner] + amount
      /\ shares'[WithdrawalQueueAddress] = shares[WithdrawalQueueAddress]
  BY <1>2, <1>3, <1>4
<1>6. SharesRequestedToBurn' = SharesRequestedToBurn + amount
  BY <1>1, <1>2 DEF PoolInv, BurnerOK, AddBurnRequest, SharesRequestedToBurn
<1>7. UnfinalizedShares' = UnfinalizedShares
  BY <1>1 DEF UnfinalizedShares
<1> QED BY <1>2, <1>3, <1>5, <1>6, <1>7 DEF Covered

LEMMA RequestWithdrawalCovered ==
  ASSUME PoolInv, Covered, NEW user \in Users, NEW amount \in RequestAmounts,
         RequestWithdrawal(user, amount)
  PROVE  Covered'
<1> DEFINE sh == GetSharesByPooledAce(amount)
           last == At(queue, Len(queue))
           new == [cumulativeBACE |-> last.cumulativeBACE + amount,
                   cumulativeShares |-> last.cumulativeShares + sh,
                   timestamp |-> block, reportTimestamp |-> lastReportTimestamp]
<1>1. /\ PoolHasAce /\ sh <= shares[user]
      /\ shares' = TransferShares(user, WithdrawalQueueAddress, sh)
      /\ queue' = Append(queue, new)
      /\ UNCHANGED <<burnRequested, lastFinalizedRequestId>>
  BY DEF RequestWithdrawal, CanTransferShares
<1>2. amount \in Nat /\ user \in Accounts /\ user # Burner /\ user # WithdrawalQueueAddress
  BY AccountsFinite, CatalistAssumption
<1>3. sh \in Nat
  BY <1>1, <1>2, SharesOfAmount
<1>4. /\ shares \in [Accounts -> Nat] /\ shares[Burner] \in Nat
      /\ shares[WithdrawalQueueAddress] \in Nat
      /\ Burner \in Accounts /\ WithdrawalQueueAddress \in Accounts
      /\ Burner # WithdrawalQueueAddress /\ Len(queue) \in Nat
      /\ SharesRequestedToBurn \in Nat /\ UnfinalizedShares \in Nat
  BY CoveredTypes
<1> HIDE DEF sh
<1>5. \A a \in Accounts :
        shares'[a] = IF user = WithdrawalQueueAddress THEN shares[a]
                     ELSE IF a = user THEN shares[a] - sh
                     ELSE IF a = WithdrawalQueueAddress THEN shares[a] + sh ELSE shares[a]
  BY <1>1, <1>2, <1>3, <1>4, TransferKeepsSum
<1>6. shares'[Burner] = shares[Burner]
      /\ shares'[WithdrawalQueueAddress] = shares[WithdrawalQueueAddress] + sh
  BY <1>2, <1>4, <1>5
<1>7. SharesRequestedToBurn' = SharesRequestedToBurn
  BY <1>1 DEF SharesRequestedToBurn
<1>8. UnfinalizedShares' = UnfinalizedShares + sh
  <2>1. Accumulates(queue) /\ lastFinalizedRequestId \in 0 .. Len(queue)
        /\ Len(queue) \in 0 .. Len(queue) /\ queue \in Seq(Requests)
    BY <1>4 DEF PoolInv, QueueOK, Accumulates
  <2>2. /\ Len(queue') = Len(queue) + 1
        /\ \A i \in 1 .. Len(queue) : queue'[i] = queue[i]
        /\ queue'[Len(queue) + 1] = new
    <3> HIDE DEF new
    <3> QED BY <1>1, <2>1, AppendProperties
  <2>3. At(queue', Len(queue')).cumulativeShares = last.cumulativeShares + sh
    <3>1. Len(queue') # 0 /\ queue'[Len(queue')] = new
      BY <1>4, <2>2
    <3>2. At(queue', Len(queue')).cumulativeShares = new.cumulativeShares
      <4> HIDE DEF new
      <4> QED BY <3>1 DEF At
    <3> HIDE DEF last
    <3> QED BY <3>2
  <2>4. At(queue', lastFinalizedRequestId') = At(queue, lastFinalizedRequestId)
    <3>1. CASE lastFinalizedRequestId = 0
      BY <1>1, <3>1 DEF At
    <3>2. CASE lastFinalizedRequestId # 0
      <4>1. lastFinalizedRequestId \in 1 .. Len(queue)
        BY <1>4, <2>1, <3>2
      <4> HIDE DEF new, last
      <4> QED BY <1>1, <2>2, <3>2, <4>1 DEF At
    <3> QED BY <3>1, <3>2
  <2> DEFINE f == At(queue, lastFinalizedRequestId)
  <2>5. last.cumulativeShares \in Nat /\ f.cumulativeShares \in Nat
    BY <2>1, AtOK
  <2>6. UnfinalizedShares = last.cumulativeShares - f.cumulativeShares
    BY DEF UnfinalizedShares
  <2>7. UnfinalizedShares' = (last.cumulativeShares + sh) - f.cumulativeShares
    BY <2>3, <2>4 DEF UnfinalizedShares
  <2> HIDE DEF last, f
  <2> QED BY <1>3, <2>5, <2>6, <2>7
<1> QED BY <1>3, <1>4, <1>6, <1>7, <1>8 DEF Covered

LEMMA RecoverCovered ==
  ASSUME PoolInv, Covered, RecoverExcessBACE
  PROVE  Covered'
<1> DEFINE moved == GetSharesByPooledAce(GetPooledAceByShares(GetExcessBACEShares))
           W == WithdrawalQueueAddress
<1>1. /\ moved <= shares[Burner] /\ shares' = TransferShares(Burner, Treasury, moved)
      /\ UNCHANGED <<burnRequested, queue, lastFinalizedRequestId>>
  BY DEF RecoverExcessBACE, CanTransferShares, queueVars
<1>2. moved \in Nat /\ moved <= GetExcessBACEShares
  BY ExcessOK
<1>3. /\ shares \in [Accounts -> Nat] /\ shares[Burner] \in Nat /\ shares[W] \in Nat
      /\ Burner \in Accounts /\ W \in Accounts /\ Burner # W /\ Treasury \in Accounts
      /\ SharesRequestedToBurn \in Nat /\ UnfinalizedShares \in Nat
  BY CoveredTypes, AccountsFinite
<1> HIDE DEF moved, W
<1>4. \A a \in Accounts :
        shares'[a] = IF Burner = Treasury THEN shares[a]
                     ELSE IF a = Burner THEN shares[a] - moved
                     ELSE IF a = Treasury THEN shares[a] + moved ELSE shares[a]
  BY <1>1, <1>2, <1>3, TransferKeepsSum
<1>5. shares'[Burner] >= shares[Burner] - moved /\ shares'[W] >= shares[W]
      /\ shares'[Burner] \in Int /\ shares'[W] \in Int
  BY <1>2, <1>3, <1>4
<1>6. shares[Burner] - moved >= SharesRequestedToBurn
  <2>1. shares[Burner] >= SharesRequestedToBurn
    BY DEF Covered
  <2>2. GetExcessBACEShares = shares[Burner] - SharesRequestedToBurn
    BY <1>3, <2>1 DEF GetExcessBACEShares
  <2> QED BY <1>2, <1>3, <2>2
<1>7. SharesRequestedToBurn' = SharesRequestedToBurn /\ UnfinalizedShares' = UnfinalizedShares
  BY <1>1 DEF SharesRequestedToBurn, UnfinalizedShares
<1>8. shares[W] >= UnfinalizedShares
  BY DEF Covered, W
<1>9. shares'[Burner] >= SharesRequestedToBurn /\ shares'[W] >= UnfinalizedShares
  BY <1>2, <1>3, <1>5, <1>6, <1>8
<1> QED BY <1>7, <1>9 DEF Covered, W

(* Burning for the finalized requests: what the queue gives to the burner  *)
(* is what these requests hold, and what is burnt was asked to be burnt.   *)
LEMMA HandleReportCovered ==
  ASSUME PoolInv, Covered, HandleOracleReport,
         Outcome(report).fromQueue > 0 => Outcome(report).lock > 0
  PROVE  Covered'
<1> DEFINE o == Outcome(report)
           fromQueue == o.fromQueue
           burn == o.smooth.sharesToBurn
           held == SharesAfterBurn(shares, fromQueue, burn)
           W == WithdrawalQueueAddress
           R == SharesRequestedToBurn
<1>1. report \in Reports(1 .. Len(queue)) /\ PassesChecks(report, o)
  BY DEF PoolInv, ReportOK, HandleOracleReport
<1>2. /\ lastFinalizedRequestId' =
           IF o.lock > 0 THEN Last(report.batches) ELSE lastFinalizedRequestId
      /\ burnRequested' = CommitSharesToBurn(AddBurnRequest(burnRequested, fromQueue, FALSE), burn)
      /\ shares' = DistributeFee(held, o.fees)
      /\ queue' = queue
  BY DEF HandleOracleReport
<1>3. /\ o.lock \in Nat /\ fromQueue \in Nat /\ burn \in Nat /\ o.fees \in Nat
      /\ o.lock > 0 => Finalizes(report)
      /\ Finalizes(report) => /\ Last(report.batches) \in 1 .. Len(queue)
                              /\ lastFinalizedRequestId < Last(report.batches)
                              /\ fromQueue = CalcBatch(queue, lastFinalizedRequestId,
                                                       Last(report.batches)).shares
      /\ fromQueue > 0 => o.lock > 0
  BY <1>1, OutcomeOK
<1>4. /\ fromQueue <= shares[W] /\ burn <= R + fromQueue /\ burn <= shares[Burner] + fromQueue
  BY <1>1 DEF PassesChecks
<1> HIDE DEF o, fromQueue, burn, W
<1>5. /\ shares \in [Accounts -> Nat] /\ shares[Burner] \in Nat /\ shares[W] \in Nat
      /\ Burner \in Accounts /\ W \in Accounts /\ Burner # W
      /\ R \in Nat /\ UnfinalizedShares \in Nat /\ Len(queue) \in Nat
  BY CoveredTypes DEF W
<1>6. shares'[Burner] >= shares[Burner] + fromQueue - burn /\ shares'[W] >= shares[W] - fromQueue
      /\ shares'[Burner] \in Nat /\ shares'[W] \in Nat
  <2>1. held \in [Accounts -> Nat] /\ \A a \in Accounts : held[a] =
           IF a = W THEN shares[a] - fromQueue
           ELSE IF a = Burner THEN shares[a] + fromQueue - burn ELSE shares[a]
    <3>1. fromQueue \in Nat /\ burn \in Nat
      BY <1>3
    <3> HIDE DEF R
    <3> QED BY ONLY <1>4, <1>5, <3>1, BurnOK DEF held, W
  <2> HIDE DEF held
  <2>2. /\ shares' \in [Accounts -> Nat]
        /\ \A a \in Accounts : held[a] <= shares'[a]
    BY <1>2, <1>3, <2>1, DistributeOK
  <2>3. held[Burner] = shares[Burner] + fromQueue - burn /\ held[W] = shares[W] - fromQueue
    BY <1>5, <2>1
  <2>4. held[Burner] <= shares'[Burner] /\ held[W] <= shares'[W]
        /\ shares'[Burner] \in Nat /\ shares'[W] \in Nat
    BY <1>5, <2>2
  <2> QED BY <1>3, <1>5, <2>3, <2>4
<1>7. SharesRequestedToBurn' = R + fromQueue - burn
  <2> DEFINE c == burnRequested.cover
             n == burnRequested.nonCover
  <2>1. c \in Nat /\ n \in Nat /\ R = c + n
    BY DEF PoolInv, BurnerOK, SharesRequestedToBurn
  <2>2. burnRequested' = CommitSharesToBurn([cover |-> c, nonCover |-> n + fromQueue], burn)
    <3>1. burnRequested = [cover |-> c, nonCover |-> n]
      BY DEF PoolInv, BurnerOK
    <3>2. AddBurnRequest(burnRequested, fromQueue, FALSE)
            = [cover |-> c, nonCover |-> n + fromQueue]
      BY <3>1 DEF AddBurnRequest
    <3> QED BY <1>2, <3>2
  <2> HIDE DEF c, n, R
  <2>3. n + fromQueue \in Nat /\ burn \in Nat /\ burn <= c + (n + fromQueue)
    BY <1>3, <1>4, <2>1
  <2>4. burnRequested'.cover + burnRequested'.nonCover = c + (n + fromQueue) - burn
    BY ONLY <2>1, <2>2, <2>3, CommitOK
  <2> QED BY <1>3, <2>1, <2>4 DEF SharesRequestedToBurn
<1>8. shares[Burner] >= R /\ shares[W] >= UnfinalizedShares
  BY DEF Covered, W
<1> HIDE DEF R
<1>9. UnfinalizedShares' = UnfinalizedShares - fromQueue
  <2> DEFINE last == At(queue, Len(queue)).cumulativeShares
             first == At(queue, lastFinalizedRequestId).cumulativeShares
  <2>1. Accumulates(queue) /\ lastFinalizedRequestId \in 0 .. Len(queue)
    BY DEF PoolInv, QueueOK
  <2>2. last \in Nat /\ first \in Nat /\ UnfinalizedShares = last - first
    BY <1>5, <2>1, AtOK DEF UnfinalizedShares
  <2>3. CASE o.lock > 0
    <3> DEFINE mid == At(queue, Last(report.batches)).cumulativeShares
    <3>1. Last(report.batches) \in 0 .. Len(queue) /\ fromQueue = mid - first
      BY <1>3, <1>5, <2>3 DEF CalcBatch
    <3>2. mid \in Nat
      BY <2>1, <3>1, AtOK
    <3>3. UnfinalizedShares' = last - mid
      BY <1>2, <2>3 DEF UnfinalizedShares
    <3> HIDE DEF last, first, mid
    <3> QED BY <2>2, <3>1, <3>2, <3>3
  <2>4. CASE ~(o.lock > 0)
    <3>1. fromQueue = 0
      BY <1>3, <2>4
    <3>2. UnfinalizedShares' = last - first
      BY <1>2, <2>4 DEF UnfinalizedShares
    <3> HIDE DEF last, first
    <3> QED BY <2>2, <3>1, <3>2
  <2> QED BY <2>3, <2>4
<1>10. shares'[Burner] >= R + fromQueue - burn /\ shares'[W] >= UnfinalizedShares - fromQueue
  BY <1>3, <1>5, <1>6, <1>8
<1> QED BY <1>7, <1>9, <1>10 DEF Covered, W

(* The report finalizes every request whose shares it has burnt: the ace   *)
(* that a batch is worth, which is what finalize is called with, is not    *)
(* rounded down to nothing (Catalist.sol, the two uses of                  *)
(* aceToLockOnWithdrawalQueue).                                            *)
FinalizesWithAce ==
  [][HandleOracleReport /\ Outcome(report).fromQueue > 0 => Outcome(report).lock > 0]_vars

(* The burner and the withdrawal queue hold the shares they owe, whatever  *)
(* is recovered from the burner, burnt in part or requested meanwhile, as  *)
(* long as batches are worth any ace.                                      *)
THEOREM HoldingsAreCovered == Spec /\ FinalizesWithAce => []HoldingsCovered
<1> DEFINE Worthy == HandleOracleReport /\ Outcome(report).fromQueue > 0 => Outcome(report).lock > 0
<1>1. Init => PoolInv /\ Covered
  <2> SUFFICES ASSUME Init PROVE PoolInv /\ Covered
    OBVIOUS
  <2>1. PoolInv
    BY PoolInit
  <2>2. shares[Burner] \in Nat /\ shares[WithdrawalQueueAddress] \in Nat
    BY <2>1, CoveredTypes
  <2>3. SharesRequestedToBurn = 0
    BY DEF Init, SharesRequestedToBurn
  <2>4. UnfinalizedShares = 0
    <3>1. queue = <<>> /\ Len(queue) = 0 /\ lastFinalizedRequestId = 0
      BY EmptySeq DEF Init
    <3> QED BY <3>1 DEF UnfinalizedShares, At
  <2> QED BY <2>1, <2>2, <2>3, <2>4 DEF Covered
<1>2. ASSUME PoolInv, Covered, [Next]_vars, [Worthy]_vars PROVE PoolInv' /\ Covered'
  <2>0. PoolInv' /\ shares' \in [Accounts -> Nat]
    BY <1>2, PoolStep DEF PoolInv, TokenOK
  <2>1. shares[Burner] \in Nat /\ shares[WithdrawalQueueAddress] \in Nat
    BY <1>2, CoveredTypes
  <2>2. ASSUME UNCHANGED <<shares, burnRequested, queue, lastFinalizedRequestId>> PROVE Covered'
    <3>1. shares'[Burner] >= shares[Burner]
          /\ shares'[WithdrawalQueueAddress] >= shares[WithdrawalQueueAddress]
      BY <2>1, <2>2
    <3> QED BY <1>2, <2>0, <2>2, <3>1, CoveredFrame
  <2>3. ASSUME NEW user \in Users, NEW amount \in StakeAmounts, Submit(user, amount)
        PROVE  Covered'
    BY <1>2, <2>3, SubmitCovered
  <2>4. ASSUME NEW user \in Users, NEW amount \in RequestAmounts, RequestWithdrawal(user, amount)
        PROVE  Covered'
    BY <1>2, <2>4, RequestWithdrawalCovered
  <2>5. ASSUME NEW user \in Users, NEW to \in Users \cup {Burner}, NEW amount \in ShareAmounts,
               Transfer(user, to, amount)
        PROVE  Covered'
    BY <1>2, <2>5, TransferCovered
  <2>6. ASSUME NEW user \in Users, NEW amount \in ShareAmounts, NEW isCover \in BOOLEAN,
               RequestBurn(user, amount, isCover)
        PROVE  Covered'
    BY <1>2, <2>6, RequestBurnCovered
  <2>7. ASSUME RecoverExcessBACE PROVE Covered'
    BY <1>2, <2>7, RecoverCovered
  <2>8. ASSUME NEW n \in 1 .. (bufferedAce \div DEPOSIT_SIZE), Deposit(n) PROVE Covered'
    BY <2>2, <2>8 DEF Deposit, tokenVars, queueVars
  <2>9. ASSUME NEW amount \in RewardAmounts, ReceiveELRewards(amount) PROVE Covered'
    BY <2>2, <2>9 DEF ReceiveELRewards, tokenVars, queueVars
  <2>10. ASSUME NEW amount \in SweepAmounts, Sweep(amount) PROVE Covered'
    BY <2>2, <2>10 DEF Sweep, tokenVars, queueVars
  <2>11. ASSUME TakeSnapshot PROVE Covered'
    BY <2>2, <2>11 DEF TakeSnapshot, tokenVars, queueVars
  <2>12. ASSUME HandleOracleReport PROVE Covered'
    <3>1. ASSUME vars' = vars PROVE Covered'
      BY <2>2, <3>1 DEF vars, tokenVars, queueVars
    <3>2. ASSUME Worthy PROVE Covered'
      BY <1>2, <2>12, <3>2, HandleReportCovered
    <3> HIDE DEF Worthy
    <3> QED BY <1>2, <3>1, <3>2
  <2>13. ASSUME NextBlock PROVE Covered'
    BY <2>2, <2>13 DEF NextBlock, tokenVars, queueVars
  <2>14. ASSUME Administer PROVE Covered'
    BY <2>2, <2>14 DEF Administer, tokenVars
  <2>15. ASSUME UNCHANGED vars PROVE Covered'
    BY <2>2, <2>15 DEF vars, tokenVars, queueVars
  <2> HIDE DEF Worthy
  <2> QED
    BY <1>2, <2>0, <2>3, <2>4, <2>5, <2>6, <2>7, <2>8, <2>9, <2>10, <2>11, <2>12, <2>13, <2>14, <2>15
       DEF Next
<1>3. PoolInv /\ Covered => HoldingsCovered
  BY CoveredIsHoldings
<1> QED BY <1>1, <1>2, <1>3, PTL DEF Spec, FinalizesWithAce

-----------------------------------------------------------------------------
(* The limit of a report *)

(* The ace of the pool after a report: what the validators earned or lost  *)
(* is added to it, and what came from the vaults less what was locked.     *)
LEMMA AceAfterReport ==
  ASSUME PoolInv, HandleOracleReport
  PROVE  LET o == Outcome(report)
         IN  TotalPooledAce' = TotalPooledAce + (report.clBalance - PreCLBalance(report))
                                 + o.smooth.withdrawals + o.smooth.elRewards - o.lock
<1> DEFINE o == Outcome(report)
           wd == o.smooth.withdrawals
           el == o.smooth.elRewards
           d == depositedValidators - clValidators
           e == report.clValidators - clValidators
<1>1. report \in Reports(1 .. Len(queue)) /\ PassesChecks(report, o)
  BY DEF PoolInv, ReportOK, HandleOracleReport
<1>2. /\ bufferedAce' = o.bufferedAce /\ clValidators' = report.clValidators
      /\ clBalance' = report.clBalance /\ depositedValidators' = depositedValidators
  BY DEF HandleOracleReport
<1>3. /\ o.lock \in Nat /\ wd \in 0 .. report.withdrawalVaultBalance
      /\ el \in 0 .. report.elRewardsVaultBalance
      /\ o.bufferedAce = bufferedAce + el + wd - o.lock
  BY <1>1, OutcomeOK
<1>4. /\ report.clValidators \in Nat /\ report.clBalance \in Nat
      /\ report.withdrawalVaultBalance \in Nat /\ report.elRewardsVaultBalance \in Nat
  BY <1>1 DEF Reports
<1> HIDE DEF o, wd, el
<1>5. /\ bufferedAce \in Nat /\ clBalance \in Nat /\ depositedValidators \in Nat
      /\ clValidators \in Nat
  BY DEF PoolInv, PoolOK
<1>6. wd \in Int /\ el \in Int
  BY <1>3, <1>4
<1>7. d \in Int /\ e \in Int /\ depositedValidators - report.clValidators = d - e
  BY <1>4, <1>5
<1>8. /\ TransientBalance = d * DEPOSIT_SIZE
      /\ PreCLBalance(report) = clBalance + e * DEPOSIT_SIZE
  BY DEF TransientBalance, PreCLBalance
<1>9. TransientBalance' = (d - e) * DEPOSIT_SIZE
  BY <1>2, <1>7 DEF TransientBalance
<1> HIDE DEF d, e
<1> DEFINE t == d * DEPOSIT_SIZE
           u == e * DEPOSIT_SIZE
<1>10. (d - e) * DEPOSIT_SIZE = t - u /\ t \in Int /\ u \in Int
  BY <1>7, Naturals
<1> HIDE DEF t, u
<1>11. TotalPooledAce = bufferedAce + clBalance + t
  BY <1>8 DEF TotalPooledAce, t
<1>12. TotalPooledAce' = o.bufferedAce + report.clBalance + (t - u)
  BY <1>2, <1>9, <1>10 DEF TotalPooledAce
<1>13. PreCLBalance(report) = clBalance + u
  BY <1>8 DEF u
<1>14. o.lock \in Int /\ o.bufferedAce = bufferedAce + el + wd - o.lock
  BY <1>3
<1>15. TotalPooledAce' = TotalPooledAce + (report.clBalance - PreCLBalance(report)) + wd + el - o.lock
  BY <1>4, <1>5, <1>6, <1>10, <1>11, <1>12, <1>13, <1>14
<1> QED BY <1>15 DEF o, wd, el

LimitOfReport == (MaxPositiveTokenRebase * TotalPooledAce) \div LIMITER_PRECISION_BASE

RewardOfReport == report.clBalance - PreCLBalance(report)

AboveLimit ==
  IF RewardOfReport > LimitOfReport THEN RewardOfReport - LimitOfReport ELSE 0

LEMMA AboveOK ==
  ASSUME PoolInv, report # NoReport
  PROVE  /\ RewardOfReport \in Int /\ LimitOfReport \in Nat /\ AboveLimit \in Nat
         /\ RewardOfReport - AboveLimit = Counted(RewardOfReport, LimitOfReport)
<1>1. report.clBalance \in Nat /\ report.clValidators \in Nat
  BY DEF PoolInv, ReportOK, Reports
<1>2. RewardOfReport \in Int
  <2> DEFINE e == report.clValidators - clValidators
  <2>1. e \in Int /\ clBalance \in Nat
    BY <1>1 DEF PoolInv, PoolOK
  <2> HIDE DEF e
  <2>2. clBalance + e * DEPOSIT_SIZE \in Int
    BY <2>1, Naturals
  <2>3. PreCLBalance(report) \in Int
    BY <2>2 DEF PreCLBalance, e
  <2> QED BY <1>1, <2>3 DEF RewardOfReport
<1>3. LimitOfReport \in Nat
  <2> DEFINE n == MaxPositiveTokenRebase * TotalPooledAce
  <2>1. MaxPositiveTokenRebase \in Nat /\ LIMITER_PRECISION_BASE \in Nat
        /\ LIMITER_PRECISION_BASE > 0
    BY LimitsAssumption, LimiterAssumption
  <2>2. n \in Int /\ n >= 0
    BY <2>1, Pooled
  <2> HIDE DEF n
  <2>3. n \div LIMITER_PRECISION_BASE \in Nat
    BY <2>1, <2>2, Division
  <2> QED BY <2>3 DEF LimitOfReport, n
<1> QED BY <1>2, <1>3 DEF AboveLimit, Counted, Smaller

LEMMA ReportIsLimited ==
  ASSUME PoolInv, HandleOracleReport, PoolHasAce, MaxPositiveTokenRebase # UNLIMITED_REBASE
  PROVE  (TotalPooledAce' - AboveLimit) * totalShares * LIMITER_PRECISION_BASE
           <= totalShares' * TotalPooledAce * (LIMITER_PRECISION_BASE + MaxPositiveTokenRebase)
              + totalShares * TotalPooledAce
<1> DEFINE o == Outcome(report)
           P == TotalPooledAce
           S == totalShares
           L == LIMITER_PRECISION_BASE
           M == MaxPositiveTokenRebase
           wd == o.smooth.withdrawals
           el == o.smooth.elRewards
           burn == o.smooth.sharesToBurn
           c == Counted(RewardOfReport, LimitOfReport)
           X == P + c + wd + el - o.lock
           pre == PreCLBalance(report)
           ids == 1 .. Len(queue)
<1>1. report # NoReport /\ report \in Reports(ids) /\ PassesChecks(report, o)
      /\ totalShares' = o.postTotalShares
  BY DEF PoolInv, ReportOK, HandleOracleReport
<1>2. /\ o.lock \in Nat /\ o.fromQueue \in Nat /\ pre \in Nat
      /\ wd \in 0 .. report.withdrawalVaultBalance
      /\ el \in 0 .. report.elRewardsVaultBalance
      /\ burn \in Nat /\ o.fees \in Nat /\ o.postTotalShares = S - burn + o.fees
  BY <1>1, OutcomeOK
<1>3. P \in Nat /\ P > 0 /\ S \in Nat /\ S > 0
  BY Pooled DEF PoolHasAce
<1>4. L \in Nat /\ M \in Nat
  BY LimitsAssumption, LimiterAssumption
<1>5. /\ RewardOfReport \in Int /\ AboveLimit \in Nat /\ RewardOfReport - AboveLimit = c
  BY <1>1, AboveOK
<1>6. wd \in Nat /\ el \in Nat
  BY <1>1, <1>2 DEF Reports
<1>7. o.smooth = SmoothenTokenRebase(P, S, pre, report, o.lock, o.fromQueue)
  BY DEF Outcome
<1>8. S * (X * L) <= (S - burn) * (P * (M + L)) + S * P
  <2>1. S * ((P + Counted(report.clBalance - pre, (M * P) \div L) + wd + el - o.lock) * L)
          <= (S - burn) * (P * (M + L)) + S * P
    <3> HIDE DEF o, P, S, pre, ids, c, X
    <3>1. MaxPositiveTokenRebase # UNLIMITED_REBASE
      OBVIOUS
    <3> QED BY <1>1, <1>2, <1>3, <1>7, <3>1, Smoothing
  <2>2. c = Counted(report.clBalance - pre, (M * P) \div L)
    BY DEF RewardOfReport, LimitOfReport
  <2> HIDE DEF o, P, S, pre, ids, c, L, M
  <2> QED BY <2>1, <2>2
<1>9. TotalPooledAce' = P + RewardOfReport + wd + el - o.lock
  BY AceAfterReport DEF RewardOfReport
<1> HIDE DEF o, P, S, L, M, wd, el, burn, c, pre, ids
<1>10. X \in Int /\ TotalPooledAce' - AboveLimit = X
  BY <1>2, <1>3, <1>5, <1>6, <1>9
<1> HIDE DEF X
<1> DEFINE K == P * (M + L)
           low == S - burn
           high == totalShares'
<1>11. K \in Nat /\ low \in Int /\ high \in Int /\ low <= high
  <2>1. M + L \in Nat
    BY <1>4
  <2>2. K \in Nat
    BY <1>3, <2>1
  <2> QED BY <1>1, <1>2, <1>3, <2>2
<1>12. high * P * (L + M) = high * K
  <2> HIDE DEF high
  <2>1. L + M \in Int /\ L + M = M + L
    BY <1>4
  <2> DEFINE n == M + L
  <2>2. n \in Int
    BY <2>1
  <2> HIDE DEF n
  <2>3. high * P * n = high * (P * n)
    BY <1>3, <1>11, <2>2
  <2> QED BY <2>1, <2>3 DEF n
<1> HIDE DEF K, low, high
<1>13. low * K <= high * K /\ low * K \in Int /\ high * K \in Int
  BY <1>11, Factor
<1>14. X * S * L = S * (X * L) /\ S * (X * L) \in Int /\ S * P \in Int
  BY <1>3, <1>4, <1>10
<1>15. X * S * L <= high * K + S * P
  <2> DEFINE x == X * S * L
             y == low * K
             z == high * K
             w == S * P
  <2>1. x \in Int /\ y \in Int /\ z \in Int /\ w \in Int /\ y <= z
    BY <1>13, <1>14
  <2>2. x <= y + w
    BY <1>8, <1>14 DEF K, low
  <2> HIDE DEF x, y, z, w
  <2>3. x <= z + w
    BY <2>1, <2>2
  <2> QED BY <2>3 DEF x, z, w
<1>16. (TotalPooledAce' - AboveLimit) * S * L <= high * P * (L + M) + S * P
  BY <1>10, <1>12, <1>15
<1> QED BY <1>16 DEF high, P, S, L, M

(* A report raises the ace behind a share by at most the limit, whatever   *)
(* the vaults hold and however much was asked to be burnt                  *)
(* (OracleReportSanityChecker.smoothenTokenRebase and the limiter).        *)
THEOREM RebaseLimited == Spec => RebaseIsLimited
<1> DEFINE Limited == (TotalPooledAce' - AboveLimit) * totalShares * LIMITER_PRECISION_BASE
                        <= totalShares' * TotalPooledAce
                             * (LIMITER_PRECISION_BASE + MaxPositiveTokenRebase)
                           + totalShares * TotalPooledAce
           Bound == /\ report # NoReport /\ report' = NoReport
                    /\ PoolHasAce /\ MaxPositiveTokenRebase # UNLIMITED_REBASE
                    => Limited
<1>1. ASSUME PoolInv, [Next]_vars PROVE Bound
  <2> SUFFICES ASSUME report # NoReport, report' = NoReport, PoolHasAce,
                      MaxPositiveTokenRebase # UNLIMITED_REBASE
               PROVE  Limited
    OBVIOUS
  <2>1. ASSUME HandleOracleReport PROVE Limited
    BY <1>1, <2>1, ReportIsLimited
  <2>2. ASSUME UNCHANGED <<tokenVars, poolVars>> PROVE Limited
    <3> DEFINE P == TotalPooledAce
               S == totalShares
               L == LIMITER_PRECISION_BASE
               M == MaxPositiveTokenRebase
               a == AboveLimit
    <3>1. TotalPooledAce' = P /\ totalShares' = S
      BY <2>2 DEF tokenVars, poolVars, TotalPooledAce, TransientBalance
    <3>2. P \in Nat /\ S \in Nat /\ L \in Nat /\ M \in Nat /\ a \in Nat
      BY <1>1, Pooled, AboveOK, LimitsAssumption, LimiterAssumption
    <3> HIDE DEF P, S, L, M, a
    <3> DEFINE x == P - a
               u == S * L
               v == S * P
    <3>3. u \in Nat /\ v \in Nat /\ x \in Int /\ x <= P
      BY <3>2
    <3>4. (P - a) * S * L = x * u
      <4> HIDE DEF x
      <4>1. x * S * L = x * (S * L)
        BY <3>2, <3>3
      <4> QED BY <4>1 DEF x
    <3>5. S * P * (L + M) = P * u + v * M
      BY <3>2
    <3> HIDE DEF x, u, v
    <3>6. x * u <= P * u /\ x * u \in Int /\ P * u \in Int
      BY <3>2, <3>3, Factor
    <3>7. v * M \in Nat
      BY <3>2, <3>3
    <3>8. x * u <= (P * u + v * M) + v
      <4> DEFINE y == x * u
                 z == P * u
                 w == v * M
      <4>1. y \in Int /\ z \in Int /\ w \in Nat /\ y <= z
        BY <3>6, <3>7
      <4> HIDE DEF y, z, w
      <4>2. y <= (z + w) + v
        BY <3>3, <4>1
      <4> QED BY <4>2 DEF y, z, w
    <3>9. (P - a) * S * L <= S * P * (L + M) + S * P
      BY <3>4, <3>5, <3>8 DEF v
    <3> QED BY <3>1, <3>9 DEF P, S, L, M, a
  <2>3. ASSUME report' = report PROVE Limited
    BY <2>3
  <2> HIDE DEF Limited
  <2>4. CASE TakeSnapshot
    BY <2>2, <2>4 DEF TakeSnapshot
  <2>5. ASSUME NEW user \in Users, NEW amount \in StakeAmounts, Submit(user, amount)
        PROVE  Limited
    BY <2>3, <2>5 DEF Submit
  <2>6. ASSUME NEW user \in Users, NEW amount \in RequestAmounts, RequestWithdrawal(user, amount)
        PROVE  Limited
    BY <2>3, <2>6 DEF RequestWithdrawal
  <2>7. ASSUME NEW user \in Users, NEW to \in Users \cup {Burner}, NEW amount \in ShareAmounts,
               Transfer(user, to, amount)
        PROVE  Limited
    BY <2>3, <2>7 DEF Transfer
  <2>8. ASSUME NEW user \in Users, NEW amount \in ShareAmounts, NEW isCover \in BOOLEAN,
               RequestBurn(user, amount, isCover)
        PROVE  Limited
    BY <2>3, <2>8 DEF RequestBurn
  <2>9. CASE RecoverExcessBACE
    BY <2>3, <2>9 DEF RecoverExcessBACE
  <2>10. ASSUME NEW n \in 1 .. (bufferedAce \div DEPOSIT_SIZE), Deposit(n) PROVE Limited
    BY <2>3, <2>10 DEF Deposit
  <2>11. ASSUME NEW amount \in RewardAmounts, ReceiveELRewards(amount) PROVE Limited
    BY <2>3, <2>11 DEF ReceiveELRewards
  <2>12. ASSUME NEW amount \in SweepAmounts, Sweep(amount) PROVE Limited
    BY <2>3, <2>12 DEF Sweep
  <2>13. CASE NextBlock \/ Administer
    BY <2>3, <2>13 DEF NextBlock, Administer
  <2>14. CASE UNCHANGED vars
    BY <2>3, <2>14 DEF vars
  <2> QED
    BY <1>1, <2>1, <2>4, <2>5, <2>6, <2>7, <2>8, <2>9, <2>10, <2>11, <2>12, <2>13, <2>14 DEF Next
<1>2. RebaseIsLimited <=> [][Bound]_vars
  BY DEF RebaseIsLimited, AboveLimit, RewardOfReport, LimitOfReport
<1> HIDE DEF Bound
<1> QED BY <1>1, <1>2, PoolInvariance, PTL DEF Spec

-----------------------------------------------------------------------------
(* A report between its snapshot and its processing *)

(* What the smoothing takes from the vaults for a report.                  *)
IncomeOf(r) ==
  Income(TotalPooledAce, r.clBalance - PreCLBalance(r),
         r.withdrawalVaultBalance + r.elRewardsVaultBalance)

(* The requests of a report's batches, one by one at its rate.             *)
ChargedFor(r) ==
  SumOf(WorthOf(queue, r.simulatedShareRate), lastFinalizedRequestId + 1 .. Last(r.batches))

(* The checks of the balances, which rely on what only grows.              *)
BalancesHold(r) ==
  /\ r.timestamp <= block
  /\ clValidators <= r.clValidators /\ r.clValidators <= depositedValidators
  /\ CheckAccountingOracleReport(r.timestamp - lastReportTimestamp, PreCLBalance(r),
       clValidators, r,
       [withdrawalVaultBalance |-> withdrawalVault, elRewardsVaultBalance |-> elRewardsVault,
        sharesRequestedToBurn |-> SharesRequestedToBurn])

(* The queue accepts the batches, and the buffer will pay for them.        *)
BatchesHold(r) ==
  /\ Acceptable(queue, lastFinalizedRequestId, r.timestamp - RequestTimestampMargin, r.batches)
  /\ r.batches # <<>> => ChargedFor(r) <= bufferedAce + IncomeOf(r)

(* What a snapshot counts on, as long as its report is not processed.      *)
SnapshotOK ==
  /\ SharesGrow(queue)
  /\ report # NoReport => BalancesHold(report) /\ BatchesHold(report)

(* The numbers these compare.                                              *)
LEMMA SnapshotTypes ==
  ASSUME PoolInv, NEW r \in Reports(1 .. Len(queue)), BalancesHold(r)
  PROVE  /\ PreCLBalance(r) \in Nat
         /\ r.clBalance - PreCLBalance(r) \in Int
         /\ r.withdrawalVaultBalance + r.elRewardsVaultBalance \in Nat
         /\ IncomeOf(r) \in Nat
         /\ PreCLBalance(r) <= TotalPooledAce - bufferedAce
<1>1. /\ r.clBalance \in Nat /\ r.clValidators \in Nat /\ r.withdrawalVaultBalance \in Nat
      /\ r.elRewardsVaultBalance \in Nat
  BY DEF Reports
<1>2. /\ bufferedAce \in Nat /\ clBalance \in Nat /\ depositedValidators \in Nat
      /\ clValidators \in Nat
  BY DEF PoolInv, PoolOK
<1>3. clValidators <= r.clValidators /\ r.clValidators <= depositedValidators
  BY DEF BalancesHold
<1> DEFINE d == r.clValidators - clValidators
           t == depositedValidators - clValidators
<1>4. d \in Nat /\ t \in Nat /\ d <= t
  BY <1>1, <1>2, <1>3
<1>5. PreCLBalance(r) = clBalance + d * DEPOSIT_SIZE
      /\ TotalPooledAce = bufferedAce + clBalance + t * DEPOSIT_SIZE
  BY DEF PreCLBalance, TotalPooledAce, TransientBalance
<1> HIDE DEF d, t
<1>6. d * DEPOSIT_SIZE \in Nat /\ t * DEPOSIT_SIZE \in Nat
      /\ d * DEPOSIT_SIZE <= t * DEPOSIT_SIZE
  BY <1>4, Naturals, Factor
<1>7. PreCLBalance(r) \in Nat /\ PreCLBalance(r) <= TotalPooledAce - bufferedAce
      /\ TotalPooledAce \in Nat
  BY <1>2, <1>5, <1>6
<1>8. r.clBalance - PreCLBalance(r) \in Int
      /\ r.withdrawalVaultBalance + r.elRewardsVaultBalance \in Nat
  BY <1>1, <1>7
<1> DEFINE c == r.clBalance - PreCLBalance(r)
           a == r.withdrawalVaultBalance + r.elRewardsVaultBalance
<1>9. Income(TotalPooledAce, c, a) \in 0 .. a
  <2>1. c \in Int /\ a \in Nat
    BY <1>8
  <2> HIDE DEF c, a
  <2> QED BY <1>7, <2>1, IncomeIsNat
<1>10. IncomeOf(r) \in Nat
  <2>1. IncomeOf(r) = Income(TotalPooledAce, c, a)
    BY DEF IncomeOf
  <2>2. a \in Nat
    BY <1>8
  <2> HIDE DEF c, a
  <2> QED BY <1>9, <2>1, <2>2
<1> QED BY <1>7, <1>8, <1>10

(* A step that only adds to what a snapshot found.                         *)
LEMMA BalancesKept ==
  ASSUME PoolInv, PoolInv', report # NoReport, report' = report, BalancesHold(report),
         UNCHANGED <<clValidators, clBalance, lastReportTimestamp>>,
         block <= block', depositedValidators <= depositedValidators',
         withdrawalVault <= withdrawalVault', elRewardsVault <= elRewardsVault',
         SharesRequestedToBurn <= SharesRequestedToBurn'
  PROVE  BalancesHold(report)'
<1> DEFINE r == report
<1>1. /\ r.timestamp \in Nat /\ r.clValidators \in Nat /\ r.withdrawalVaultBalance \in Nat
      /\ r.elRewardsVaultBalance \in Nat /\ r.sharesRequestedToBurn \in Nat
  <2>1. r \in Reports(1 .. Len(queue))
    BY DEF PoolInv, ReportOK
  <2> QED BY <2>1 DEF Reports
<1>2. /\ block \in Nat /\ block' \in Nat
      /\ depositedValidators \in Nat /\ depositedValidators' \in Nat
      /\ withdrawalVault \in Nat /\ withdrawalVault' \in Nat
      /\ elRewardsVault \in Nat /\ elRewardsVault' \in Nat
  BY DEF PoolInv, PoolOK, VaultsOK, ReportOK
<1>3. SharesRequestedToBurn \in Nat /\ SharesRequestedToBurn' \in Nat
  BY DEF PoolInv, BurnerOK, SharesRequestedToBurn
<1> DEFINE x == r.timestamp - lastReportTimestamp
           p == PreCLBalance(r)
           A == CheckOneOffCLBalanceDecrease(p, r.clBalance + r.withdrawalVaultBalance)
           B == CheckAnnualBalancesIncrease(p, r.clBalance, x)
           C == r.clValidators > clValidators =>
                  CheckAppearedValidatorsChurnLimit(r.clValidators - clValidators, x)
<1>4. /\ r.timestamp <= block /\ clValidators <= r.clValidators
      /\ r.clValidators <= depositedValidators
      /\ r.withdrawalVaultBalance <= withdrawalVault /\ r.elRewardsVaultBalance <= elRewardsVault
      /\ r.sharesRequestedToBurn <= SharesRequestedToBurn
      /\ A /\ B /\ C
  BY DEF BalancesHold, CheckAccountingOracleReport
<1>5. p' = p
  BY DEF PreCLBalance
<1>6. A' /\ B' /\ C'
  <2>1. x' = x /\ r' = r /\ clValidators' = clValidators
    OBVIOUS
  <2> HIDE DEF x, p, r
  <2>2. A'
    BY <1>4, <1>5, <2>1 DEF CheckOneOffCLBalanceDecrease
  <2>3. B'
    BY <1>4, <1>5, <2>1 DEF CheckAnnualBalancesIncrease
  <2>4. C'
    BY <1>4, <1>5, <2>1 DEF CheckAppearedValidatorsChurnLimit
  <2> QED BY <2>2, <2>3, <2>4
<1>7. /\ r.timestamp <= block' /\ clValidators' <= r.clValidators
      /\ r.clValidators <= depositedValidators'
      /\ r.withdrawalVaultBalance <= withdrawalVault' /\ r.elRewardsVaultBalance <= elRewardsVault'
      /\ r.sharesRequestedToBurn <= SharesRequestedToBurn'
  <2> HIDE DEF A, B, C
  <2> QED BY <1>1, <1>2, <1>3, <1>4
<1> QED BY <1>6, <1>7 DEF BalancesHold, CheckAccountingOracleReport

(* The requests that a report finalizes are not worth more than what the   *)
(* buffer keeps back for the queue.                                        *)
LEMMA ChargedOK ==
  ASSUME PoolInv, SharesGrow(queue), NEW r \in Reports(1 .. Len(queue)), BatchesHold(r),
         r.batches # <<>>
  PROVE  /\ Last(r.batches) \in lastFinalizedRequestId + 1 .. Len(queue)
         /\ Last(r.batches) \in 1 .. Len(queue)
         /\ ChargedFor(r) \in Nat /\ UnfinalizedBACE \in Nat
         /\ ChargedFor(r) <= UnfinalizedBACE
<1> DEFINE lf == lastFinalizedRequestId
           last == Last(r.batches)
           n == Len(queue)
<1>1. /\ Accumulates(queue) /\ lf \in 0 .. n /\ n \in Nat
      /\ r.batches \in Seq(1 .. n) /\ r.simulatedShareRate \in Nat
  BY LenProperties DEF PoolInv, QueueOK, Accumulates, Reports
<1>2. /\ r.batches[1] > lf
      /\ \A i \in 1 .. Len(r.batches) - 1 : r.batches[i] < r.batches[i + 1]
  BY DEF BatchesHold, Acceptable
<1>3. last \in 1 .. n /\ r.batches[1] <= last
  <2> HIDE DEF n
  <2> QED BY <1>1, <1>2, LastBatch
<1>4. r.batches[1] \in 1 .. n
  BY <1>1, EmptySeq, LenProperties, ElementOfSeq
<1>5. last \in lf + 1 .. n /\ last \in 0 .. n /\ n \in 0 .. n /\ lf <= last /\ last <= n
  <2> HIDE DEF last, lf, n
  <2> QED BY <1>1, <1>2, <1>3, <1>4
<1>6. /\ ChargedFor(r) \in Nat
      /\ ChargedFor(r) <= At(queue, last).cumulativeBACE - At(queue, lf).cumulativeBACE
  <2> DEFINE rate == r.simulatedShareRate
  <2>1. ChargedFor(r) = SumOf(WorthOf(queue, rate), lf + 1 .. last)
    BY DEF ChargedFor
  <2> HIDE DEF last, rate, lf
  <2> QED BY <1>1, <1>5, <2>1, ChargedAtMost DEF rate, lf
<1>7. /\ At(queue, last).cumulativeBACE <= At(queue, n).cumulativeBACE
      /\ At(queue, lf).cumulativeBACE <= At(queue, n).cumulativeBACE
      /\ At(queue, lf).cumulativeBACE \in Nat /\ At(queue, n).cumulativeBACE \in Nat
      /\ At(queue, last).cumulativeBACE \in Nat
  <2>1. lf <= n
    BY <1>1
  <2> HIDE DEF last
  <2> QED BY <1>1, <1>5, <2>1, AtOK, AtGrows
<1> HIDE DEF last
<1> QED BY <1>3, <1>5, <1>6, <1>7 DEF last, UnfinalizedBACE

(* A step that leaves the queue alone and the pool no poorer.              *)
LEMMA BatchesKept ==
  ASSUME PoolInv, PoolInv', report # NoReport, report' = report,
         SharesGrow(queue), BalancesHold(report), BatchesHold(report),
         UNCHANGED <<queue, lastFinalizedRequestId, clValidators, clBalance>>,
         bufferedAce <= bufferedAce',
         \/ TotalPooledAce' = TotalPooledAce
         \/ 0 < TotalPooledAce /\ TotalPooledAce <= TotalPooledAce' /\ TotalPooledAce' \in Nat
  PROVE  BatchesHold(report)'
<1> DEFINE r == report
           c == r.clBalance - PreCLBalance(r)
           a == r.withdrawalVaultBalance + r.elRewardsVaultBalance
<1>1. r \in Reports(1 .. Len(queue))
  BY DEF PoolInv, ReportOK
<1>2. c \in Int /\ a \in Nat /\ IncomeOf(r) \in Nat
  BY <1>1, SnapshotTypes
<1>3. TotalPooledAce \in Nat /\ TotalPooledAce' \in Nat
  BY Pooled
<1>4. IncomeOf(r) = Income(TotalPooledAce, c, a)
      /\ IncomeOf(r)' = Income(TotalPooledAce', c, a)
  BY DEF IncomeOf, PreCLBalance
<1>5. IncomeOf(r) <= IncomeOf(r)' /\ IncomeOf(r)' \in Nat
  <2>1. Income(TotalPooledAce', c, a) \in Nat
    <3> HIDE DEF c, a
    <3> QED BY <1>2, <1>3, IncomeIsNat
  <2>2. Income(TotalPooledAce, c, a) <= Income(TotalPooledAce', c, a)
    <3> HIDE DEF c, a
    <3> QED BY <1>2, <1>3, <2>1, IncomeGrows
  <2> HIDE DEF c, a
  <2> QED BY <1>4, <2>1, <2>2
<1>6. bufferedAce \in Nat /\ bufferedAce' \in Nat
  BY DEF PoolInv, PoolOK
<1>7. ASSUME r.batches # <<>> PROVE ChargedFor(r) \in Int
  BY <1>1, <1>7, ChargedOK
<1>8. ChargedFor(r)' = ChargedFor(r)
  BY DEF ChargedFor
<1>9. ASSUME r.batches # <<>> PROVE ChargedFor(r)' <= bufferedAce' + IncomeOf(r)'
  <2>1. ChargedFor(r) <= bufferedAce + IncomeOf(r)
    BY <1>9 DEF BatchesHold
  <2> HIDE DEF r
  <2> QED BY <1>2, <1>5, <1>6, <1>7, <1>8, <1>9, <2>1
<1> QED BY <1>9 DEF BatchesHold

(* A step that keeps the queue and the report.                             *)
LEMMA SnapshotFrame ==
  ASSUME PoolInv, PoolInv', SnapshotOK, report' = report,
         UNCHANGED <<queue, lastFinalizedRequestId, lastReportTimestamp, clValidators, clBalance>>,
         block <= block', depositedValidators <= depositedValidators',
         withdrawalVault <= withdrawalVault', elRewardsVault <= elRewardsVault',
         SharesRequestedToBurn <= SharesRequestedToBurn',
         bufferedAce <= bufferedAce',
         \/ TotalPooledAce' = TotalPooledAce
         \/ 0 < TotalPooledAce /\ TotalPooledAce <= TotalPooledAce' /\ TotalPooledAce' \in Nat
  PROVE  SnapshotOK'
<1>1. SharesGrow(queue)'
  BY DEF SnapshotOK, SharesGrow
<1>2. ASSUME report # NoReport PROVE BalancesHold(report)' /\ BatchesHold(report)'
  <2>1. SharesGrow(queue) /\ BalancesHold(report) /\ BatchesHold(report)
    BY <1>2 DEF SnapshotOK
  <2>2. BalancesHold(report)'
    BY <1>2, <2>1, BalancesKept
  <2>3. BatchesHold(report)'
    BY <1>2, <2>1, BatchesKept
  <2> QED BY <2>2, <2>3
<1> QED BY <1>1, <1>2 DEF SnapshotOK

(* The numbers that only grow, as they are.                                *)
LEMMA SnapshotNumbers ==
  ASSUME PoolInv
  PROVE  /\ block \in Nat /\ depositedValidators \in Nat /\ withdrawalVault \in Nat
         /\ elRewardsVault \in Nat /\ SharesRequestedToBurn \in Nat /\ bufferedAce \in Nat
         /\ clBalance \in Nat /\ clValidators \in Nat /\ TotalPooledAce \in Nat
BY Pooled DEF PoolInv, PoolOK, VaultsOK, ReportOK, BurnerOK, SharesRequestedToBurn

(* A step that changes none of what a snapshot counts on.                  *)
LEMMA SnapshotStays ==
  ASSUME PoolInv, PoolInv', SnapshotOK,
         UNCHANGED <<report, queue, lastFinalizedRequestId, lastReportTimestamp, poolVars, block,
                     withdrawalVault, elRewardsVault, burnRequested>>
  PROVE  SnapshotOK'
<1>1. /\ SharesRequestedToBurn' = SharesRequestedToBurn
      /\ TotalPooledAce' = TotalPooledAce
      /\ UNCHANGED <<bufferedAce, depositedValidators, clValidators, clBalance>>
  BY DEF SharesRequestedToBurn, TotalPooledAce, TransientBalance, poolVars
<1>2. /\ block <= block' /\ depositedValidators <= depositedValidators'
      /\ withdrawalVault <= withdrawalVault' /\ elRewardsVault <= elRewardsVault'
      /\ SharesRequestedToBurn <= SharesRequestedToBurn'
      /\ bufferedAce <= bufferedAce'
  BY <1>1, SnapshotNumbers
<1> QED BY <1>1, <1>2, SnapshotFrame

(* A stake adds to the buffer, and a pool of more ace takes no less income.*)
LEMMA SubmitSnapshot ==
  ASSUME PoolInv, PoolInv', SnapshotOK, NEW user \in Users, NEW amount \in StakeAmounts,
         Submit(user, amount)
  PROVE  SnapshotOK'
<1>1. amount \in Nat
  BY CatalistAssumption
<1>2. /\ PoolHasAce /\ bufferedAce' = bufferedAce + amount
      /\ UNCHANGED <<depositedValidators, clValidators, clBalance, burnRequested, queue,
                     lastFinalizedRequestId, lastReportTimestamp, withdrawalVault,
                     elRewardsVault, block, report>>
  BY DEF Submit, queueVars, vaultVars
<1>3. TransientBalance' = TransientBalance /\ TransientBalance \in Nat
  BY <1>2, Pooled DEF TransientBalance
<1>4. SharesRequestedToBurn' = SharesRequestedToBurn
  BY <1>2 DEF SharesRequestedToBurn
<1>5. /\ 0 < TotalPooledAce /\ TotalPooledAce <= TotalPooledAce' /\ TotalPooledAce' \in Nat
      /\ bufferedAce <= bufferedAce'
  BY <1>1, <1>2, <1>3, SnapshotNumbers DEF TotalPooledAce, PoolHasAce
<1>6. /\ block <= block' /\ depositedValidators <= depositedValidators'
      /\ withdrawalVault <= withdrawalVault' /\ elRewardsVault <= elRewardsVault'
      /\ SharesRequestedToBurn <= SharesRequestedToBurn'
  BY <1>2, <1>4, SnapshotNumbers
<1> QED BY <1>2, <1>5, <1>6, SnapshotFrame

(* A request to burn adds to what the report may burn.                     *)
LEMMA RequestBurnSnapshot ==
  ASSUME PoolInv, PoolInv', SnapshotOK, NEW user \in Users, NEW amount \in ShareAmounts,
         NEW isCover \in BOOLEAN, RequestBurn(user, amount, isCover)
  PROVE  SnapshotOK'
<1>1. amount \in Nat
  BY CatalistAssumption
<1>2. /\ burnRequested' = AddBurnRequest(burnRequested, amount, isCover)
      /\ UNCHANGED <<poolVars, queue, lastFinalizedRequestId, lastReportTimestamp,
                     withdrawalVault, elRewardsVault, block, report>>
  BY DEF RequestBurn, queueVars, vaultVars
<1>3. SharesRequestedToBurn <= SharesRequestedToBurn'
  BY <1>1, <1>2 DEF PoolInv, BurnerOK, AddBurnRequest, SharesRequestedToBurn
<1>4. /\ TotalPooledAce' = TotalPooledAce
      /\ UNCHANGED <<bufferedAce, depositedValidators, clValidators, clBalance>>
  BY <1>2 DEF TotalPooledAce, TransientBalance, poolVars
<1>5. /\ block <= block' /\ depositedValidators <= depositedValidators'
      /\ withdrawalVault <= withdrawalVault' /\ elRewardsVault <= elRewardsVault'
      /\ bufferedAce <= bufferedAce'
  BY <1>2, <1>4, SnapshotNumbers
<1> QED BY <1>2, <1>3, <1>4, <1>5, SnapshotFrame

(* A vault gains.                                                          *)
LEMMA VaultsSnapshot ==
  ASSUME PoolInv, PoolInv', SnapshotOK,
         UNCHANGED <<report, queueVars, poolVars, block, burnRequested>>,
         withdrawalVault <= withdrawalVault', elRewardsVault <= elRewardsVault'
  PROVE  SnapshotOK'
<1>1. /\ SharesRequestedToBurn' = SharesRequestedToBurn
      /\ TotalPooledAce' = TotalPooledAce
      /\ UNCHANGED <<bufferedAce, depositedValidators, clValidators, clBalance,
                     queue, lastFinalizedRequestId, lastReportTimestamp>>
  BY DEF SharesRequestedToBurn, TotalPooledAce, TransientBalance, poolVars, queueVars
<1>2. /\ block <= block' /\ depositedValidators <= depositedValidators'
      /\ SharesRequestedToBurn <= SharesRequestedToBurn'
      /\ bufferedAce <= bufferedAce'
  BY <1>1, SnapshotNumbers
<1> QED BY <1>1, <1>2, SnapshotFrame

(* The block only rises; the snapshot keeps its own.                       *)
LEMMA NextBlockSnapshot ==
  ASSUME PoolInv, PoolInv', SnapshotOK, NextBlock
  PROVE  SnapshotOK'
<1>1. /\ block' = block + 1
      /\ UNCHANGED <<poolVars, burnRequested, queue, lastFinalizedRequestId, lastReportTimestamp,
                     withdrawalVault, elRewardsVault, report>>
  BY DEF NextBlock, queueVars, vaultVars
<1>2. /\ SharesRequestedToBurn' = SharesRequestedToBurn
      /\ TotalPooledAce' = TotalPooledAce
      /\ UNCHANGED <<bufferedAce, depositedValidators, clValidators, clBalance>>
  BY <1>1 DEF SharesRequestedToBurn, TotalPooledAce, TransientBalance, poolVars
<1>3. /\ block <= block' /\ depositedValidators <= depositedValidators'
      /\ withdrawalVault <= withdrawalVault' /\ elRewardsVault <= elRewardsVault'
      /\ SharesRequestedToBurn <= SharesRequestedToBurn'
      /\ bufferedAce <= bufferedAce'
  BY <1>1, <1>2, SnapshotNumbers
<1> QED BY <1>1, <1>2, <1>3, SnapshotFrame

(* A deposit leaves in the buffer what the queue is owed, which is at      *)
(* least what the report finalizes.                                        *)
LEMMA DepositSnapshot ==
  ASSUME PoolInv, PoolInv', SnapshotOK, NEW n \in 1 .. (bufferedAce \div DEPOSIT_SIZE), Deposit(n)
  PROVE  SnapshotOK'
<1>1. /\ n <= GetDepositableAce \div DEPOSIT_SIZE
      /\ bufferedAce' = bufferedAce - n * DEPOSIT_SIZE
      /\ depositedValidators' = depositedValidators + n
      /\ UNCHANGED <<clValidators, clBalance, burnRequested, queue, lastFinalizedRequestId,
                     lastReportTimestamp, withdrawalVault, elRewardsVault, block, report>>
  BY DEF Deposit, queueVars, vaultVars
<1>2. n \in Nat /\ n > 0
  OBVIOUS
<1>3. SharesGrow(queue)'
  BY <1>1 DEF SnapshotOK, SharesGrow
<1>4. ASSUME report # NoReport PROVE BalancesHold(report)' /\ BatchesHold(report)'
  <2>0. /\ SharesGrow(queue) /\ BalancesHold(report) /\ BatchesHold(report)
        /\ report \in Reports(1 .. Len(queue))
    BY <1>4 DEF SnapshotOK, PoolInv, ReportOK
  <2>1. BalancesHold(report)'
    <3>1. SharesRequestedToBurn' = SharesRequestedToBurn
      BY <1>1 DEF SharesRequestedToBurn
    <3>2. /\ block <= block' /\ depositedValidators <= depositedValidators'
          /\ withdrawalVault <= withdrawalVault' /\ elRewardsVault <= elRewardsVault'
          /\ SharesRequestedToBurn <= SharesRequestedToBurn'
      BY <1>1, <1>2, <3>1, SnapshotNumbers
    <3> QED BY <1>1, <1>4, <2>0, <3>2, BalancesKept
  <2>2. IncomeOf(report)' = IncomeOf(report) /\ IncomeOf(report) \in Nat
    <3>1. TotalPooledAce' = TotalPooledAce
      BY DepositKeepsAce
    <3>2. PreCLBalance(report)' = PreCLBalance(report)
      BY <1>1 DEF PreCLBalance
    <3>3. IncomeOf(report)' = IncomeOf(report)
      BY <1>1, <3>1, <3>2 DEF IncomeOf
    <3> QED BY <2>0, <3>3, SnapshotTypes
  <2>3. ASSUME report.batches # <<>> PROVE ChargedFor(report)' <= bufferedAce' + IncomeOf(report)'
    <3>1. ChargedFor(report) \in Nat /\ UnfinalizedBACE \in Nat
          /\ ChargedFor(report) <= UnfinalizedBACE
      BY <2>0, <2>3, ChargedOK
    <3>2. ChargedFor(report)' = ChargedFor(report)
      BY <1>1 DEF ChargedFor
    <3>3. UnfinalizedBACE <= bufferedAce' /\ bufferedAce' \in Int
      <4> DEFINE d == GetDepositableAce
      <4>1. d \in Nat /\ bufferedAce \in Nat /\ (d > 0 => d = bufferedAce - UnfinalizedBACE)
        BY <3>1, SnapshotNumbers DEF GetDepositableAce
      <4>2. n <= d \div DEPOSIT_SIZE
        BY <1>1
      <4> HIDE DEF d
      <4>3. d \div DEPOSIT_SIZE \in Nat /\ DEPOSIT_SIZE * (d \div DEPOSIT_SIZE) <= d
        BY <4>1, Naturals, Division
      <4>4. DEPOSIT_SIZE * n <= DEPOSIT_SIZE * (d \div DEPOSIT_SIZE)
            /\ DEPOSIT_SIZE * n \in Nat /\ DEPOSIT_SIZE * n = n * DEPOSIT_SIZE
            /\ DEPOSIT_SIZE * (d \div DEPOSIT_SIZE) \in Int
        BY <1>2, <4>2, <4>3, Naturals, Factor
      <4>5. n * DEPOSIT_SIZE <= d /\ n * DEPOSIT_SIZE \in Nat
        BY <4>1, <4>3, <4>4
      <4>6. d > 0
        <5>1. d \div DEPOSIT_SIZE >= 1
          BY <1>2, <4>2, <4>3
        <5>2. DEPOSIT_SIZE * 1 <= DEPOSIT_SIZE * (d \div DEPOSIT_SIZE)
          BY <4>3, <5>1, Naturals, Factor
        <5> DEFINE k == DEPOSIT_SIZE * (d \div DEPOSIT_SIZE)
        <5>3. k \in Int /\ k <= d /\ DEPOSIT_SIZE <= k
          BY <4>3, <4>4, <5>2, Naturals
        <5> HIDE DEF k
        <5> QED BY <4>1, <5>3, Naturals
      <4> DEFINE paid == n * DEPOSIT_SIZE
      <4> HIDE DEF paid
      <4>7. paid <= bufferedAce - UnfinalizedBACE /\ bufferedAce' = bufferedAce - paid
            /\ paid \in Nat
        BY <1>1, <4>1, <4>5, <4>6 DEF paid
      <4> QED BY <3>1, <4>1, <4>7
    <3> QED BY <2>2, <3>1, <3>2, <3>3
  <2>4. BatchesHold(report)'
    <3>1. Acceptable(queue, lastFinalizedRequestId, report.timestamp - RequestTimestampMargin,
                     report.batches)
      BY <2>0 DEF BatchesHold
    <3>2. report' = report /\ queue' = queue /\ lastFinalizedRequestId' = lastFinalizedRequestId
      BY <1>1
    <3> QED BY <2>3, <3>1, <3>2 DEF BatchesHold
  <2> QED BY <2>1, <2>4
<1> QED BY <1>1, <1>3, <1>4 DEF SnapshotOK

(* A new snapshot replaces the last one: its simulation passed the checks, *)
(* without withdrawals, and the budget of its batches is what the buffer is*)
(* left with.                                                              *)
LEMMA TakeSnapshotSnapshot ==
  ASSUME PoolInv, PoolInv', SnapshotOK, TakeSnapshot
  PROVE  SnapshotOK'
<1>1. UNCHANGED <<tokenVars, poolVars, burnRequested, queueVars, vaultVars, block>>
  BY DEF TakeSnapshot
<1>2. PICK r \in Reports(1 .. Len(queue)) :
        /\ r.timestamp = block /\ r.batches = <<>>
        /\ PassesChecks(r, Outcome(r))
        /\ SimulatedShareRate(r) \in Nat /\ Outcome(r).bufferedAce \in Nat
        /\ report' = [r EXCEPT !.batches = FinalizationBatchesOf(r, SimulatedShareRate(r)),
                               !.simulatedShareRate = SimulatedShareRate(r)]
  BY SnapshotTaken
<1> DEFINE rate == SimulatedShareRate(r)
           b == FinalizationBatchesOf(r, rate)
           o == Outcome(r)
           new == [r EXCEPT !.batches = b, !.simulatedShareRate = rate]
           time == block - RequestTimestampMargin
           lf == lastFinalizedRequestId
<1> HIDE DEF rate, b
<1>3. /\ new.batches = b /\ new.simulatedShareRate = rate
      /\ new.timestamp = block /\ new.clValidators = r.clValidators
      /\ new.clBalance = r.clBalance
      /\ new.withdrawalVaultBalance = r.withdrawalVaultBalance
      /\ new.elRewardsVaultBalance = r.elRewardsVaultBalance
      /\ new.sharesRequestedToBurn = r.sharesRequestedToBurn
  BY <1>2 DEF Reports
<1>4. report' = new
  BY <1>2 DEF rate, b
<1> HIDE DEF new
<1>5. BalancesHold(r)
  BY <1>2 DEF PassesChecks, BalancesHold
<1>6. PreCLBalance(new) = PreCLBalance(r)
  BY <1>3 DEF PreCLBalance
<1>7. BalancesHold(new)
  BY <1>2, <1>3, <1>5, <1>6 DEF BalancesHold, CheckAccountingOracleReport
<1>8. o.bufferedAce = bufferedAce + IncomeOf(r)
  <2> DEFINE lock == AceToLock(r)
             fromQueue == SharesToBurnFromQueue(r)
             pre == PreCLBalance(r)
             s == SmoothenTokenRebase(TotalPooledAce, totalShares, pre, r, lock, fromQueue)
  <2>1. o.bufferedAce = bufferedAce + s.elRewards + s.withdrawals - lock
    BY DEF Outcome, PostBufferedAce
  <2>2. lock = 0 /\ fromQueue = 0
    BY <1>2 DEF AceToLock, SharesToBurnFromQueue, Finalizes
  <2>3. pre \in Nat
    BY <1>5, SnapshotTypes
  <2>4. /\ s.withdrawals + s.elRewards
             = Income(TotalPooledAce, r.clBalance - pre,
                      r.withdrawalVaultBalance + r.elRewardsVaultBalance)
        /\ s.withdrawals \in Nat /\ s.elRewards \in Nat
    <3> DEFINE ids == 1 .. Len(queue)
    <3>1. r \in Reports(ids) /\ lock \in Int /\ fromQueue \in Nat
          /\ TotalPooledAce \in Nat /\ totalShares \in Nat
      BY <2>2, Pooled
    <3> HIDE DEF ids, lock, fromQueue, pre
    <3> QED BY <2>3, <3>1, SmoothingTakes
  <2>5. IncomeOf(r) = s.withdrawals + s.elRewards
    BY <2>4 DEF IncomeOf
  <2> HIDE DEF s, lock, o
  <2> QED BY <2>1, <2>2, <2>4, <2>5, SnapshotNumbers
<1>9. IncomeOf(new) = IncomeOf(r)
  BY <1>3, <1>6 DEF IncomeOf
<1>10. /\ Acceptable(queue, lf, time, b)
       /\ b # <<>> => SumOf(WorthOf(queue, rate), lf + 1 .. Last(b)) <= o.bufferedAce
  <2> DEFINE budget == o.bufferedAce
  <2>1. budget \in Nat /\ rate \in Nat
    BY <1>2 DEF rate
  <2>2. b = CalculateFinalizationBatches(queue, lf, rate, time, MaxRequests,
              [remainingAceBudget |-> budget, batches |-> <<>>]).batches
    BY DEF FinalizationBatchesOf, b
  <2>3. /\ Accumulates(queue) /\ lf \in 0 .. Len(queue) /\ time \in Int /\ MaxRequests \in Nat
    <3>1. block \in Nat
      BY DEF PoolInv, ReportOK
    <3> QED BY <3>1, Naturals DEF PoolInv, QueueOK
  <2> HIDE DEF time, budget, lf
  <2> QED BY <2>1, <2>2, <2>3, DaemonBatches DEF budget
<1>11. BatchesHold(new)
  <2>1. ChargedFor(new) = SumOf(WorthOf(queue, rate), lf + 1 .. Last(b))
    BY <1>3 DEF ChargedFor
  <2> HIDE DEF o
  <2> QED BY <1>3, <1>8, <1>9, <1>10, <2>1 DEF BatchesHold
<1>12. SharesGrow(queue)'
  BY <1>1 DEF SnapshotOK, SharesGrow, queueVars
<1>13. BalancesHold(report)'
  <2>1. /\ TotalPooledAce' = TotalPooledAce /\ SharesRequestedToBurn' = SharesRequestedToBurn
        /\ PreCLBalance(report)' = PreCLBalance(new)
    BY <1>1, <1>4 DEF TotalPooledAce, TransientBalance, SharesRequestedToBurn, PreCLBalance, poolVars
  <2> QED BY <1>1, <1>4, <1>7, <2>1
          DEF BalancesHold, CheckAccountingOracleReport, CheckOneOffCLBalanceDecrease,
              CheckAnnualBalancesIncrease, CheckAppearedValidatorsChurnLimit,
              poolVars, queueVars, vaultVars
<1>14. BatchesHold(report)'
  <2>1. /\ PreCLBalance(report)' = PreCLBalance(new)
        /\ TotalPooledAce' = TotalPooledAce
    BY <1>1, <1>4 DEF TotalPooledAce, TransientBalance, PreCLBalance, poolVars
  <2>2. IncomeOf(report)' = IncomeOf(new)
    BY <1>4, <2>1 DEF IncomeOf
  <2>3. ChargedFor(report)' = ChargedFor(new)
    BY <1>1, <1>4 DEF ChargedFor, queueVars
  <2>4. queue' = queue /\ lf' = lf /\ bufferedAce' = bufferedAce
    BY <1>1 DEF queueVars, poolVars
  <2> QED BY <1>4, <1>11, <2>2, <2>3, <2>4 DEF BatchesHold
<1> QED BY <1>12, <1>13, <1>14 DEF SnapshotOK

(* A request leaves the ones before it as they are.                        *)
LEMMA RequestWithdrawalSnapshot ==
  ASSUME PoolInv, PoolInv', SnapshotOK, NEW user \in Users, NEW amount \in RequestAmounts,
         RequestWithdrawal(user, amount)
  PROVE  SnapshotOK'
<1> DEFINE sh == GetSharesByPooledAce(amount)
           last == At(queue, Len(queue))
           new == [cumulativeBACE |-> last.cumulativeBACE + amount,
                   cumulativeShares |-> last.cumulativeShares + sh,
                   timestamp |-> block, reportTimestamp |-> lastReportTimestamp]
<1>1. /\ PoolHasAce /\ sh > 0
      /\ queue' = Append(queue, new)
      /\ UNCHANGED <<poolVars, burnRequested, lastFinalizedRequestId,
                     lastReportTimestamp, vaultVars, block, report>>
  BY DEF RequestWithdrawal
<1>2. amount \in Nat
  BY CatalistAssumption
<1>3. sh \in Nat
  BY <1>1, <1>2, SharesOfAmount
<1> HIDE DEF sh
<1>5. Accumulates(queue) /\ lastFinalizedRequestId \in 0 .. Len(queue) /\ Len(queue) \in Nat
      /\ lastReportTimestamp \in Nat /\ block \in Nat /\ queue \in Seq(Requests)
      /\ Accumulates(queue)'
  BY LenProperties DEF PoolInv, QueueOK, ReportOK, Accumulates
<1>6. last.cumulativeBACE \in Nat /\ last.cumulativeShares \in Nat
  BY <1>5, AtOK
<1>7. new \in Requests
  BY <1>2, <1>3, <1>5, <1>6 DEF Requests
<1>8. /\ queue' \in Seq(Requests) /\ Len(queue') = Len(queue) + 1
      /\ \A i \in 1 .. Len(queue) : queue'[i] = queue[i]
      /\ queue'[Len(queue) + 1] = new
  <2> HIDE DEF new
  <2> QED BY <1>1, <1>5, <1>7, AppendProperties
<1>9. \A i \in 0 .. Len(queue) : At(queue', i) = At(queue, i)
  <2> SUFFICES ASSUME NEW i \in 0 .. Len(queue) PROVE At(queue', i) = At(queue, i)
    OBVIOUS
  <2>1. i = 0 \/ i \in 1 .. Len(queue)
    BY <1>5
  <2> QED BY <1>8, <2>1 DEF At
<1>10. SharesGrow(queue)'
  <2>1. ASSUME NEW id \in 1 .. Len(queue')
        PROVE  At(queue', id - 1).cumulativeShares < At(queue', id).cumulativeShares
    <3>1. CASE id <= Len(queue)
      <4>1. id \in 1 .. Len(queue) /\ id \in 0 .. Len(queue) /\ id - 1 \in 0 .. Len(queue)
        BY <1>5, <1>8, <3>1
      <4> QED BY <1>9, <4>1 DEF SnapshotOK, SharesGrow
    <3>2. CASE id = Len(queue) + 1
      <4>1. id - 1 = Len(queue) /\ Len(queue) \in 0 .. Len(queue) /\ id # 0
        BY <1>5, <3>2
      <4>2. At(queue', id - 1) = last
        BY <1>9, <4>1
      <4>3. At(queue', id).cumulativeShares = last.cumulativeShares + sh
        BY <1>8, <3>2, <4>1 DEF At
      <4> HIDE DEF last
      <4> QED BY <1>1, <1>3, <1>6, <4>2, <4>3
    <3>3. id \in Nat /\ id <= Len(queue) + 1
      BY <1>5, <1>8, <2>1
    <3> QED BY <1>5, <3>1, <3>2, <3>3
  <2> QED BY <2>1 DEF SharesGrow
<1> HIDE DEF new, last
<1>11. ASSUME report # NoReport PROVE BalancesHold(report)' /\ BatchesHold(report)'
  <2>0. /\ SharesGrow(queue) /\ BalancesHold(report) /\ BatchesHold(report)
        /\ report \in Reports(1 .. Len(queue))
    BY <1>11 DEF SnapshotOK, PoolInv, ReportOK
  <2>1. BalancesHold(report)'
    <3>1. SharesRequestedToBurn' = SharesRequestedToBurn
          /\ UNCHANGED <<clValidators, clBalance, depositedValidators, withdrawalVault, elRewardsVault>>
      BY <1>1 DEF SharesRequestedToBurn, poolVars, vaultVars
    <3>2. /\ block <= block' /\ depositedValidators <= depositedValidators'
          /\ withdrawalVault <= withdrawalVault' /\ elRewardsVault <= elRewardsVault'
          /\ SharesRequestedToBurn <= SharesRequestedToBurn'
      BY <1>1, <3>1, SnapshotNumbers
    <3> QED BY <1>1, <1>11, <2>0, <3>1, <3>2, BalancesKept
  <2>2. IncomeOf(report)' = IncomeOf(report) /\ bufferedAce' = bufferedAce
    BY <1>1 DEF IncomeOf, PreCLBalance, TotalPooledAce, TransientBalance, poolVars
  <2>3. ASSUME report.batches # <<>>
        PROVE  /\ ChargedFor(report)' = ChargedFor(report)
               /\ queue'[Last(report.batches)] = queue[Last(report.batches)]
    <3> DEFINE lf == lastFinalizedRequestId
               b == Last(report.batches)
               rate == report.simulatedShareRate
               S == lf + 1 .. b
    <3>1. b \in lf + 1 .. Len(queue) /\ b \in 1 .. Len(queue)
      BY <2>0, <2>3, ChargedOK
    <3>2. rate \in Nat
      BY <2>0 DEF Reports
    <3>3. /\ ChargedFor(report) = SumOf(WorthOf(queue, rate), S)
          /\ ChargedFor(report)' = SumOf(WorthOf(queue', rate), S)
      BY <1>1 DEF ChargedFor
    <3> HIDE DEF b, rate
    <3>4. IsFiniteSet(S)
      <4>1. lf + 1 \in Int /\ b \in Int
        BY <1>5, <3>1
      <4> HIDE DEF lf
      <4> QED BY <4>1, FS_Interval
    <3>5. \A id \in S : WorthOf(queue, rate)[id] = WorthOf(queue', rate)[id]
      <4> SUFFICES ASSUME NEW id \in S
                   PROVE  WorthOf(queue, rate)[id] = WorthOf(queue', rate)[id]
        OBVIOUS
      <4>1. id \in 1 .. Len(queue) /\ id \in 1 .. Len(queue') /\ id \in 0 .. Len(queue)
            /\ id - 1 \in 0 .. Len(queue)
        BY <1>5, <1>8, <3>1
      <4>2. RequestOf(queue, id) = RequestOf(queue', id)
        BY <1>9, <4>1 DEF RequestOf, CalcBatch
      <4> QED BY <4>1, <4>2 DEF WorthOf
    <3> HIDE DEF S
    <3>6. SumOf(WorthOf(queue, rate), S) = SumOf(WorthOf(queue', rate), S)
      BY <3>4, <3>5, SumCongruent
    <3> QED BY <1>8, <3>1, <3>3, <3>6 DEF b
  <2>4. BatchesHold(report)'
    <3>1. report' = report /\ lastFinalizedRequestId' = lastFinalizedRequestId
      BY <1>1
    <3>2. Acceptable(queue, lastFinalizedRequestId, report.timestamp - RequestTimestampMargin,
                     report.batches)
      BY <2>0 DEF BatchesHold
    <3>3. Acceptable(queue', lastFinalizedRequestId, report.timestamp - RequestTimestampMargin,
                     report.batches)
      BY <2>3, <3>2 DEF Acceptable
    <3>4. report.batches # <<>> => ChargedFor(report)' <= bufferedAce' + IncomeOf(report)'
      BY <2>0, <2>2, <2>3 DEF BatchesHold
    <3> QED BY <3>1, <3>3, <3>4 DEF BatchesHold
  <2> QED BY <2>1, <2>4
<1> QED BY <1>1, <1>10, <1>11 DEF SnapshotOK

(* Every step keeps what a snapshot counts on.  Processing its report, and *)
(* a later snapshot, end it.                                               *)
LEMMA SnapshotStep ==
  ASSUME PoolInv, SnapshotOK, [Next]_vars
  PROVE  SnapshotOK'
<1>0. PoolInv'
  BY PoolStep
<1>1. ASSUME UNCHANGED <<report, queueVars, poolVars, block, vaultVars, burnRequested>>
      PROVE  SnapshotOK'
  BY <1>0, <1>1, SnapshotStays DEF queueVars, vaultVars
<1>2. ASSUME NEW user \in Users, NEW amount \in StakeAmounts, Submit(user, amount)
      PROVE  SnapshotOK'
  BY <1>0, <1>2, SubmitSnapshot
<1>3. ASSUME NEW user \in Users, NEW amount \in RequestAmounts, RequestWithdrawal(user, amount)
      PROVE  SnapshotOK'
  BY <1>0, <1>3, RequestWithdrawalSnapshot
<1>4. ASSUME NEW user \in Users, NEW to \in Users \cup {Burner}, NEW amount \in ShareAmounts,
             Transfer(user, to, amount)
      PROVE  SnapshotOK'
  BY <1>1, <1>4 DEF Transfer
<1>5. ASSUME NEW user \in Users, NEW amount \in ShareAmounts, NEW isCover \in BOOLEAN,
             RequestBurn(user, amount, isCover)
      PROVE  SnapshotOK'
  BY <1>0, <1>5, RequestBurnSnapshot
<1>6. ASSUME RecoverExcessBACE PROVE SnapshotOK'
  BY <1>1, <1>6 DEF RecoverExcessBACE
<1>7. ASSUME NEW n \in 1 .. (bufferedAce \div DEPOSIT_SIZE), Deposit(n) PROVE SnapshotOK'
  BY <1>0, <1>7, DepositSnapshot
<1>8. ASSUME NEW amount \in RewardAmounts, ReceiveELRewards(amount) PROVE SnapshotOK'
  <2>1. amount \in Nat
    BY CatalistAssumption
  <2>2. /\ elRewardsVault' = elRewardsVault + amount /\ withdrawalVault' = withdrawalVault
        /\ UNCHANGED <<report, queueVars, poolVars, block, burnRequested>>
    BY <1>8 DEF ReceiveELRewards
  <2>3. withdrawalVault <= withdrawalVault' /\ elRewardsVault <= elRewardsVault'
    BY <2>1, <2>2, SnapshotNumbers
  <2> QED BY <1>0, <2>2, <2>3, VaultsSnapshot
<1>9. ASSUME NEW amount \in SweepAmounts, Sweep(amount) PROVE SnapshotOK'
  <2>1. amount \in Nat
    BY CatalistAssumption
  <2>2. /\ withdrawalVault' = withdrawalVault + amount /\ elRewardsVault' = elRewardsVault
        /\ UNCHANGED <<report, queueVars, poolVars, block, burnRequested>>
    BY <1>9 DEF Sweep
  <2>3. withdrawalVault <= withdrawalVault' /\ elRewardsVault <= elRewardsVault'
    BY <2>1, <2>2, SnapshotNumbers
  <2> QED BY <1>0, <2>2, <2>3, VaultsSnapshot
<1>10. ASSUME TakeSnapshot PROVE SnapshotOK'
  BY <1>0, <1>10, TakeSnapshotSnapshot
<1>11. ASSUME HandleOracleReport PROVE SnapshotOK'
  <2>1. report' = NoReport /\ queue' = queue
    BY <1>11 DEF HandleOracleReport
  <2> QED BY <2>1 DEF SnapshotOK, SharesGrow
<1>12. ASSUME NextBlock PROVE SnapshotOK'
  BY <1>0, <1>12, NextBlockSnapshot
<1>13. ASSUME Administer PROVE SnapshotOK'
  BY <1>0, <1>13, SnapshotStays DEF Administer, vaultVars
<1>14. ASSUME UNCHANGED vars PROVE SnapshotOK'
  BY <1>1, <1>14 DEF vars
<1> QED
  BY <1>2, <1>3, <1>4, <1>5, <1>6, <1>7, <1>8, <1>9, <1>10, <1>11, <1>12, <1>13, <1>14 DEF Next

(* A report whose snapshot still holds passes the checks: the queue has    *)
(* what it finalizes, and the buffer will have what that is worth.         *)
LEMMA SnapshotPasses ==
  ASSUME PoolInv, Covered, SnapshotOK,
         report # NoReport /\ report.batches # <<>> => report.simulatedShareRate > 0
  PROVE  ReportStaysValid
<1> SUFFICES ASSUME report # NoReport, ~isStopped PROVE ReportStaysValid
  BY DEF ReportStaysValid
<1> DEFINE r         == report
           o         == Outcome(r)
           lf        == lastFinalizedRequestId
           lock      == AceToLock(r)
           fromQueue == SharesToBurnFromQueue(r)
           pre       == PreCLBalance(r)
           change    == r.clBalance - pre
           charged   == MapThenSumSet(LAMBDA id : Worth(RequestOf(queue, id), r.simulatedShareRate),
                                      lf + 1 .. Last(r.batches))
           excess    == IF Finalizes(r) THEN o.lock - charged ELSE 0
           paid      == o.lock - excess
           Smooth(l) == SmoothenTokenRebase(TotalPooledAce, totalShares, pre, r, l, o.fromQueue)
           checked   == [o EXCEPT !.bufferedAce = @ + excess,
                                  !.smooth.accepted = Smooth(paid).accepted]
<1>1. /\ r \in Reports(1 .. Len(queue))
      /\ SharesGrow(queue) /\ BalancesHold(r) /\ BatchesHold(r)
  BY DEF PoolInv, ReportOK, SnapshotOK
<1>2. /\ r.clBalance \in Nat /\ r.batches \in Seq(1 .. Len(queue)) /\ r.simulatedShareRate \in Nat
      /\ r.sharesRequestedToBurn \in Nat
  BY <1>1 DEF Reports
<1>3. /\ pre \in Nat /\ change \in Int /\ IncomeOf(r) \in Nat
      /\ pre <= TotalPooledAce - bufferedAce
  BY <1>1, SnapshotTypes
<1>4. /\ o.lock = lock /\ o.fromQueue = fromQueue /\ o.smooth = Smooth(lock)
      /\ o.bufferedAce = bufferedAce + o.smooth.elRewards + o.smooth.withdrawals - lock
  BY DEF Outcome, PostBufferedAce
<1> DEFINE Finalized ==
             /\ CheckWithdrawalQueueOracleReport(queue[Last(r.batches)].timestamp, r.timestamp)
             /\ CanPrefinalize(queue, lf, r.batches, r.simulatedShareRate)
             /\ lock <= CalcBatch(queue, lf, Last(r.batches)).bACE
           Numbers ==
             /\ lock \in Nat /\ fromQueue \in Nat /\ fromQueue <= shares[WithdrawalQueueAddress]
             /\ paid \in Nat /\ paid <= bufferedAce + IncomeOf(r) /\ excess = lock - paid
             /\ lock > 0 => ~queuePaused
<1>5. ASSUME Finalizes(r) PROVE Numbers /\ Finalized
  <2>1. r.batches # <<>> /\ ~queuePaused
    BY <1>5 DEF Finalizes
  <2> DEFINE last == Last(r.batches)
             n    == Len(queue)
             rate == r.simulatedShareRate
  <2>2. /\ last \in lf + 1 .. n /\ last \in 1 .. n
        /\ ChargedFor(r) \in Nat
    BY <1>1, <2>1, ChargedOK
  <2>3. /\ Accumulates(queue) /\ lf \in 0 .. n /\ n \in Nat /\ n \in 0 .. n
        /\ rate \in Nat /\ rate > 0 /\ r.batches \in Seq(1 .. n)
    <3>1. rate > 0
      BY <2>1
    <3>2. Accumulates(queue) /\ lf \in 0 .. n /\ n \in Nat
      BY LenProperties DEF PoolInv, QueueOK, Accumulates
    <3> QED BY <1>2, <3>1, <3>2
  <2>4. /\ r.batches[1] > lf
        /\ \A i \in 1 .. Len(r.batches) - 1 : r.batches[i] < r.batches[i + 1]
        /\ queue[last].timestamp <= r.timestamp - RequestTimestampMargin
        /\ ChargedFor(r) <= bufferedAce + IncomeOf(r)
    BY <1>1, <2>1 DEF BatchesHold, Acceptable
  <2>5. CanPrefinalize(queue, lf, r.batches, rate)
    <3>1. rate # 0 /\ last <= n
      <4> HIDE DEF last, rate, n, lf
      <4> QED BY <2>2, <2>3
    <3> QED BY <2>1, <2>4, <3>1 DEF CanPrefinalize
  <2>6. lock = Prefinalize(queue, lf, r.batches, rate)
        /\ fromQueue = CalcBatch(queue, lf, last).shares
    BY <1>5 DEF AceToLock, SharesToBurnFromQueue
  <2> HIDE DEF lock, fromQueue
  <2>7. /\ lock \in Nat /\ fromQueue \in Nat
        /\ lock <= CalcBatch(queue, lf, last).bACE
    <3> HIDE DEF rate, last, lf
    <3> QED BY <1>1, <2>3, <2>5, <2>6, PrefinalizeOK, LockAtMost DEF last
  <2>8. fromQueue <= shares[WithdrawalQueueAddress]
    <3>1. fromQueue = At(queue, last).cumulativeShares - At(queue, lf).cumulativeShares
      BY <2>6 DEF CalcBatch
    <3>2. UnfinalizedShares = At(queue, n).cumulativeShares - At(queue, lf).cumulativeShares
      BY DEF UnfinalizedShares
    <3> HIDE DEF last, n, lf
    <3>3. last \in 0 .. n /\ last <= n
      BY <2>2, <2>3
    <3>4. /\ At(queue, last).cumulativeShares <= At(queue, n).cumulativeShares
          /\ At(queue, last).cumulativeShares \in Nat /\ At(queue, n).cumulativeShares \in Nat
          /\ At(queue, lf).cumulativeShares \in Nat
      BY <2>3, <3>3, AtOK, AtGrows DEF n
    <3>5. UnfinalizedShares <= shares[WithdrawalQueueAddress]
          /\ shares[WithdrawalQueueAddress] \in Nat
      BY CoveredTypes DEF Covered
    <3> QED BY <3>1, <3>2, <3>4, <3>5
  <2>9. charged = ChargedFor(r)
    <3> DEFINE S == lf + 1 .. last
    <3>1. IsFiniteSet(S) /\ S \subseteq 1 .. n
      <4>1. lf + 1 \in Int /\ last \in Int /\ last <= n /\ lf + 1 >= 1
        <5> HIDE DEF last, n, lf
        <5> QED BY <2>2, <2>3
      <4>2. IsFiniteSet(S)
        <5> HIDE DEF last, lf
        <5> QED BY <4>1, FS_Interval
      <4>3. S \subseteq 1 .. n
        <5> HIDE DEF last, n, lf
        <5> QED BY <2>3, <4>1
      <4> QED BY <4>2, <4>3
    <3>2. charged = SumOf(WorthOf(queue, rate), S)
      <4> HIDE DEF S
      <4>1. MapThenSumSet(LAMBDA id : Worth(RequestOf(queue, id), rate), S)
              = SumOf(WorthOf(queue, rate), S)
        BY <3>1, WorthSum
      <4> QED BY <4>1 DEF S
    <3> QED BY <3>2 DEF ChargedFor
  <2>10. excess = lock - ChargedFor(r) /\ paid = ChargedFor(r)
    <3> HIDE DEF o, charged
    <3>1. excess = lock - charged
      BY <1>4, <1>5
    <3>2. paid = lock - excess
      BY <1>4
    <3> HIDE DEF excess, paid
    <3> QED BY <2>2, <2>7, <2>9, <3>1, <3>2
  <2>11. CheckWithdrawalQueueOracleReport(queue[last].timestamp, r.timestamp)
    <3>1. queue[last].timestamp \in Nat
      <4>1. queue[last] \in Requests
        BY <2>2, ElementOfSeq DEF PoolInv, QueueOK, Accumulates
      <4> QED BY <4>1 DEF Requests
    <3>2. r.timestamp \in Nat
      BY <1>1 DEF Reports
    <3> QED BY <2>4, <3>1, <3>2, Naturals DEF CheckWithdrawalQueueOracleReport
  <2> HIDE DEF excess, paid, charged, last, rate
  <2> QED BY <2>1, <2>2, <2>4, <2>5, <2>7, <2>8, <2>10, <2>11 DEF last, rate
<1>6. ASSUME ~Finalizes(r) PROVE Numbers
  <2>1. lock = 0 /\ fromQueue = 0
    BY <1>6 DEF AceToLock, SharesToBurnFromQueue
  <2>2. excess = 0
    BY <1>6
  <2>3. paid = 0
    <3> HIDE DEF o, excess, lock
    <3> QED BY <1>4, <2>1, <2>2
  <2> HIDE DEF lock, fromQueue, excess, paid
  <2> QED BY <1>3, <2>1, <2>2, <2>3, CoveredTypes, SnapshotNumbers
<1>7. Numbers /\ (Finalizes(r) => Finalized)
  <2> HIDE DEF Numbers, Finalized
  <2> QED BY <1>5, <1>6
<1> DEFINE s == Smooth(lock)
<1>8. /\ s.withdrawals + s.elRewards = IncomeOf(r)
      /\ s.withdrawals \in Nat /\ s.elRewards \in Nat
  <2> DEFINE ids == 1 .. Len(queue)
             new == o.fromQueue
  <2>1. /\ r \in Reports(ids) /\ lock \in Int /\ new \in Nat
        /\ TotalPooledAce \in Nat /\ totalShares \in Nat
    <3> HIDE DEF lock, fromQueue, o, paid, excess
    <3> QED BY <1>1, <1>4, <1>7, Pooled
  <2>2. s = SmoothenTokenRebase(TotalPooledAce, totalShares, pre, r, lock, new)
    OBVIOUS
  <2> HIDE DEF s, ids, new, lock, pre
  <2> QED BY <1>3, <2>1, <2>2, SmoothingTakes DEF IncomeOf, pre
<1>9. s.sharesToBurn \in Nat /\ s.sharesToBurn <= fromQueue + r.sharesRequestedToBurn
      /\ fromQueue + r.sharesRequestedToBurn \in Nat
  <2> DEFINE ids == 1 .. Len(queue)
             new == o.fromQueue
             limit == GetSharesToBurnLimit(DecreaseAce(IncreaseAce(IncreaseAce(
                        LimiterAfterCL(TotalPooledAce, totalShares, pre, r.clBalance),
                        r.withdrawalVaultBalance), r.elRewardsVaultBalance), lock))
  <2>1. /\ r \in Reports(ids) /\ lock \in Nat /\ new \in Nat /\ new = fromQueue
        /\ TotalPooledAce \in Nat /\ totalShares \in Nat
    <3> HIDE DEF lock, fromQueue, o, paid, excess
    <3> QED BY <1>1, <1>4, <1>7, Pooled
  <2>2. s = SmoothenTokenRebase(TotalPooledAce, totalShares, pre, r, lock, new)
    OBVIOUS
  <2>3. s.sharesToBurn = Smaller(limit, new + r.sharesRequestedToBurn)
    BY DEF SmoothenTokenRebase
  <2> HIDE DEF limit, ids, new, lock, pre, s
  <2>4. s.sharesToBurn \in Nat
    BY <1>3, <2>1, <2>2, Smoothing
  <2>5. s.sharesToBurn <= new + r.sharesRequestedToBurn
    <3>1. new + r.sharesRequestedToBurn \in Nat
      BY <1>2, <2>1
    <3> QED BY <2>3, <3>1 DEF Smaller
  <2> HIDE DEF fromQueue
  <2> QED BY <1>2, <2>1, <2>4, <2>5
<1>10. Smooth(paid).accepted
  <2> DEFINE ids == 1 .. Len(queue)
             new == o.fromQueue
             counted == Counted(change, LimitOf(TotalPooledAce))
  <2>1. /\ r \in Reports(ids) /\ paid \in Nat /\ new \in Nat
        /\ TotalPooledAce \in Nat /\ totalShares \in Nat
        /\ paid <= bufferedAce + IncomeOf(r)
    <3> HIDE DEF lock, fromQueue, o, paid, excess
    <3> QED BY <1>1, <1>4, <1>7, Pooled
  <2>2. bufferedAce \in Nat
    BY SnapshotNumbers
  <2>3. TotalPooledAce + change >= 0 /\ bufferedAce <= TotalPooledAce + change
    <3> DEFINE cl  == r.clBalance
               all == TotalPooledAce
    <3>1. change = cl - pre
      OBVIOUS
    <3>2. cl \in Nat /\ pre \in Nat /\ all \in Nat /\ pre <= all - bufferedAce
      BY <1>2, <1>3, <2>1
    <3> HIDE DEF pre, change, cl, all
    <3>3. all + change >= 0 /\ bufferedAce <= all + change
      BY ONLY <2>2, <3>1, <3>2
    <3> QED BY <3>3 DEF all
  <2>4. counted \in Int /\ bufferedAce <= TotalPooledAce + counted
    <3>1. LimitOf(TotalPooledAce) \in Nat
      BY <2>1, LimitOK
    <3>2. bufferedAce <= TotalPooledAce
      BY <1>3, <2>1, <2>2
    <3> HIDE DEF change
    <3> QED BY <1>3, <2>1, <2>2, <2>3, <3>1, <3>2 DEF Counted, Smaller
  <2> HIDE DEF counted, paid
  <2>5. paid <= TotalPooledAce + counted + IncomeOf(r)
    BY <1>3, <2>1, <2>2, <2>4
  <2>6. paid \in Int
    BY <2>1
  <2>7. paid <= TotalPooledAce + Counted(r.clBalance - pre, LimitOf(TotalPooledAce))
                  + Income(TotalPooledAce, r.clBalance - pre,
                           r.withdrawalVaultBalance + r.elRewardsVaultBalance)
        /\ TotalPooledAce + (r.clBalance - pre) >= 0
    BY <2>3, <2>5 DEF counted, IncomeOf
  <2> HIDE DEF ids, new, pre
  <2> QED BY <1>3, <2>1, <2>6, <2>7, SmoothingTakes DEF new
<1>11. /\ checked.lock = lock /\ checked.fromQueue = fromQueue
       /\ checked.bufferedAce = o.bufferedAce + excess
       /\ checked.smooth.sharesToBurn = s.sharesToBurn
       /\ checked.smooth.accepted = Smooth(paid).accepted
  <2> DEFINE a == Smooth(paid).accepted
             b == o.bufferedAce + excess
  <2>1. /\ DOMAIN o = {"lock", "fromQueue", "smooth", "fees", "bufferedAce", "postTotalPooledAce",
                       "postTotalShares"}
        /\ "accepted" \in DOMAIN o.smooth /\ "sharesToBurn" \in DOMAIN o.smooth
    BY DEF Outcome, SmoothenTokenRebase
  <2>2. checked = [o EXCEPT !.bufferedAce = b, !.smooth.accepted = a]
    OBVIOUS
  <2> HIDE DEF o, a, b, checked, s
  <2>3. /\ checked.lock = o.lock /\ checked.fromQueue = o.fromQueue /\ checked.bufferedAce = b
        /\ checked.smooth.sharesToBurn = o.smooth.sharesToBurn /\ checked.smooth.accepted = a
    BY ONLY <2>1, <2>2
  <2>4. o.lock = lock /\ o.fromQueue = fromQueue /\ o.smooth = s
    BY <1>4 DEF s
  <2> HIDE DEF lock, fromQueue
  <2> QED BY <2>3, <2>4 DEF a, b
<1>12. checked.bufferedAce >= 0
  <2> DEFINE left == o.bufferedAce
             w    == s.withdrawals
             e    == s.elRewards
             i    == IncomeOf(r)
  <2>1. left = bufferedAce + e + w - lock
    BY <1>4 DEF s
  <2>2. /\ w + e = i /\ w \in Nat /\ e \in Nat /\ i \in Nat
        /\ bufferedAce \in Nat
    BY <1>3, <1>8, SnapshotNumbers
  <2>3. lock \in Nat /\ paid \in Nat /\ paid <= bufferedAce + i /\ excess = lock - paid
    <3> HIDE DEF lock, fromQueue, paid, excess, o, r
    <3> QED BY <1>7
  <2>4. checked.bufferedAce = left + excess
    BY <1>11
  <2> HIDE DEF checked, left, w, e, i, lock, paid, excess
  <2> QED BY ONLY <2>1, <2>2, <2>3, <2>4
<1>13. /\ checked.smooth.sharesToBurn <= SharesRequestedToBurn + checked.fromQueue
       /\ checked.smooth.sharesToBurn <= shares[Burner] + checked.fromQueue
  <2>1. r.sharesRequestedToBurn <= SharesRequestedToBurn
    BY <1>1 DEF BalancesHold, CheckAccountingOracleReport
  <2>2. SharesRequestedToBurn <= shares[Burner]
    BY CoveredTypes DEF Covered
  <2> DEFINE burnt    == checked.smooth.sharesToBurn
             taken    == checked.fromQueue
             reported == r.sharesRequestedToBurn
             asked    == SharesRequestedToBurn
             held     == shares[Burner]
  <2>3. burnt \in Nat /\ burnt <= taken + reported /\ taken \in Nat /\ reported \in Nat
    <3> HIDE DEF checked, s, lock, fromQueue, paid, excess, o, r
    <3>1. fromQueue \in Nat
      BY <1>7
    <3> QED BY <1>2, <1>9, <1>11, <3>1
  <2>4. asked \in Nat /\ held \in Nat
    BY CoveredTypes
  <2> HIDE DEF burnt, taken, reported, asked, held
  <2>5. reported <= asked /\ asked <= held
    BY <2>1, <2>2 DEF reported, asked, held
  <2>6. burnt <= asked + taken /\ burnt <= held + taken
    BY ONLY <2>3, <2>4, <2>5
  <2> HIDE DEF checked
  <2> QED BY <2>6 DEF burnt, taken, asked, held
<1>14. PassesChecks(r, checked)
  <2> HIDE DEF checked, s, o, excess, lock, fromQueue, paid
  <2> QED BY <1>1, <1>7, <1>10, <1>11, <1>12, <1>13 DEF PassesChecks, BalancesHold
<1> QED BY <1>14 DEF ReportStaysValid

(* The daemon simulates a share rate of zero only for a pool with no ace   *)
(* to speak of, and prefinalize refuses it (ZeroShareRate).                *)
RatesPositive ==
  [](report # NoReport /\ report.batches # <<>> => report.simulatedShareRate > 0)

(* What a report's snapshot was taken from may change before the report is *)
(* processed: ace is staked, withdrawn, deposited, swept and burned, and   *)
(* blocks pass.  The report still passes the checks of handleOracleReport. *)
THEOREM ReportsStayValid == Spec /\ FinalizesWithAce /\ RatesPositive => []ReportStaysValid
<1> DEFINE Positive == report # NoReport /\ report.batches # <<>> => report.simulatedShareRate > 0
<1>1. Init => SnapshotOK
  <2> SUFFICES ASSUME Init PROVE SnapshotOK
    OBVIOUS
  <2>1. report = NoReport /\ queue = <<>>
    BY DEF Init
  <2>2. Len(queue) = 0
    BY <2>1, EmptySeq
  <2> QED BY <2>1, <2>2 DEF SnapshotOK, SharesGrow
<1>2. PoolInv /\ SnapshotOK /\ [Next]_vars => SnapshotOK'
  BY SnapshotStep
<1>3. PoolInv /\ HoldingsCovered /\ SnapshotOK /\ Positive => ReportStaysValid
  BY CoveredIsHoldings, SnapshotPasses
<1>4. Spec => []PoolInv
  BY PoolInvariance
<1>5. Spec /\ FinalizesWithAce => []HoldingsCovered
  BY HoldingsAreCovered
<1>6. RatesPositive => []Positive
  BY DEF RatesPositive
<1> HIDE DEF Positive
<1> QED BY <1>1, <1>2, <1>3, <1>4, <1>5, <1>6, PTL DEF Spec
=============================================================================
