---------------------------- MODULE RebaseLimiter ----------------------------
(***************************************************************************)
(* The limit on how much one accounting report may raise the share rate    *)
(* (PositiveTokenRebaseLimiter.sol).  The functions of the library change  *)
(* a structure in memory; here they return the changed one.  What          *)
(* increaseAce returns is the difference of the two, or all that it was    *)
(* given when there is no limit (Consumed).                                *)
(***************************************************************************)
EXTENDS Integers

CONSTANTS
  LIMITER_PRECISION_BASE,
  UNLIMITED_REBASE        \* type(uint64).max

ASSUME LimiterAssumption ==
  /\ LIMITER_PRECISION_BASE \in Nat \ {0}
  /\ UNLIMITED_REBASE \in Nat /\ UNLIMITED_REBASE > LIMITER_PRECISION_BASE

Smaller(a, b) == IF a <= b THEN a ELSE b

InitLimiterState(rebaseLimit, preTotalPooledAce, preTotalShares) ==
  [preTotalPooledAce     |-> preTotalPooledAce,
   currentTotalPooledAce |-> preTotalPooledAce,
   preTotalShares        |-> preTotalShares,
   positiveRebaseLimit   |-> IF preTotalPooledAce = 0 THEN UNLIMITED_REBASE
                                                      ELSE rebaseLimit]

IsUnlimited(st) == st.positiveRebaseLimit = UNLIMITED_REBASE

(* Only for a limited rebase. *)
MaxTotalPooledAce(st) ==
  st.preTotalPooledAce
    + (st.positiveRebaseLimit * st.preTotalPooledAce) \div LIMITER_PRECISION_BASE

IsLimitReached(st) == st.currentTotalPooledAce >= MaxTotalPooledAce(st)

(* The guard of decreaseAce: NegativeTotalPooledAce. *)
CanDecreaseAce(st, aceAmount) ==
  IsUnlimited(st) \/ aceAmount <= st.currentTotalPooledAce

(* Mutant: what leaves the pool does not count. *)
KeepAce(st, aceAmount) == st

DecreaseAce(st, aceAmount) ==
  IF IsUnlimited(st) THEN st
                     ELSE [st EXCEPT !.currentTotalPooledAce = @ - aceAmount]

(* Mutant: the maximum is not applied. *)
IncreaseAceFreely(st, aceAmount) ==
  [st EXCEPT !.currentTotalPooledAce = @ + aceAmount]

IncreaseAce(st, aceAmount) ==
  IF IsUnlimited(st) THEN st
  ELSE [st EXCEPT !.currentTotalPooledAce = Smaller(@ + aceAmount, MaxTotalPooledAce(st))]

Consumed(st, aceAmount) ==
  IF IsUnlimited(st)
    THEN aceAmount
    ELSE IncreaseAce(st, aceAmount).currentTotalPooledAce - st.currentTotalPooledAce

GetSharesToBurnLimit(st) ==
  LET rebaseLimitPlus1 == st.positiveRebaseLimit + LIMITER_PRECISION_BASE
      pooledAceRate    == (st.currentTotalPooledAce * LIMITER_PRECISION_BASE)
                            \div st.preTotalPooledAce
  IN  IF IsUnlimited(st) THEN st.preTotalShares
      ELSE IF IsLimitReached(st) THEN 0
      ELSE (st.preTotalShares * (rebaseLimitPlus1 - pooledAceRate))
             \div rebaseLimitPlus1
=============================================================================
