------------------------------ MODULE StakeLimit ------------------------------
(***************************************************************************)
(* How much may be staked in a block: a limit that stakes use up and that  *)
(* grows back with every block (StakeLimitUtils.sol).  A paused staking is *)
(* one whose last block is 0, an unlimited one has a maximum of 0.  The    *)
(* widths of the fields, uint32 and uint96, are guards of setStakingLimit  *)
(* and out of reach of the bounds.                                         *)
(***************************************************************************)
EXTENDS Naturals

StakeLimitData ==
  [prevStakeBlockNumber : Nat, prevStakeLimit : Nat,
   maxStakeLimitGrowthBlocks : Nat, maxStakeLimit : Nat]

InitStakeLimit ==
  [prevStakeBlockNumber |-> 0, prevStakeLimit |-> 0,
   maxStakeLimitGrowthBlocks |-> 0, maxStakeLimit |-> 0]

IsStakingPaused(data) == data.prevStakeBlockNumber = 0

IsStakingLimitSet(data) == data.maxStakeLimit # 0

StakeLimitIncPerBlock(data) ==
  IF data.maxStakeLimitGrowthBlocks = 0
    THEN 0 ELSE data.maxStakeLimit \div data.maxStakeLimitGrowthBlocks

CalculateCurrentStakeLimit(data, block) ==
  LET projectedLimit == data.prevStakeLimit
        + (block - data.prevStakeBlockNumber) * StakeLimitIncPerBlock(data)
  IN  IF projectedLimit <= data.maxStakeLimit THEN projectedLimit
                                              ELSE data.maxStakeLimit

(* The requires of setStakingLimit. *)
CanSetStakingLimit(maxStakeLimit, increasePerBlock) ==
  maxStakeLimit # 0 /\ maxStakeLimit >= increasePerBlock

SetStakingLimitOf(data, maxStakeLimit, increasePerBlock, block) ==
  LET resets == \/ IsStakingPaused(data)
                \/ ~IsStakingLimitSet(data)
                \/ maxStakeLimit < data.prevStakeLimit
  IN  [prevStakeLimit       |-> IF resets THEN maxStakeLimit ELSE data.prevStakeLimit,
       maxStakeLimitGrowthBlocks |->
         IF increasePerBlock = 0 THEN 0 ELSE maxStakeLimit \div increasePerBlock,
       maxStakeLimit        |-> maxStakeLimit,
       prevStakeBlockNumber |-> IF IsStakingPaused(data) THEN 0 ELSE block]

RemoveStakingLimitOf(data) == [data EXCEPT !.maxStakeLimit = 0]

(* Mutant: the block of the stake is not remembered. *)
KeepStakeBlock(data, newPrevStakeLimit, block) ==
  [data EXCEPT !.prevStakeLimit = newPrevStakeLimit]

UpdatePrevStakeLimit(data, newPrevStakeLimit, block) ==
  [data EXCEPT !.prevStakeLimit = newPrevStakeLimit,
               !.prevStakeBlockNumber = block]

SetStakeLimitPauseState(data, isPaused, block) ==
  [data EXCEPT !.prevStakeBlockNumber = IF isPaused THEN 0 ELSE block]
=============================================================================
