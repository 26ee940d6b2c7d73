----------------------------- MODULE Operations -----------------------------
(***************************************************************************)
(* The curated module and what runs around it: the programs of the         *)
(* operators of the protocol composed with the contracts they talk to and  *)
(* with everybody else who calls those.  Each scene runs one program among *)
(* the calls of the others; the scene "calls" has the calls alone.         *)
(***************************************************************************)
EXTENDS Depositer, AragonApps, OperatorTasks, SharesImage

CONSTANTS Scenes,               \* what is explored
          CallsOf,              \* by scene, the calls others make
          MaxCalls,             \* by scene, how many of them
          NewKeys,              \* sequences of keys an operator adds
          Counts,               \* limits and counts in calls and reports
          Buffers               \* validators the pool has tokens for

ASSUME OperationsAssumption ==
    Counts \cup Buffers \subseteq Nat /\ NewKeys \subseteq Seq(SigningKeys)

VARIABLES scene,                \* never changes
          calls                 \* how many calls the others made

programVars == <<guardians, quorum, moduleStatus, lastDepositBlock, depositRoot, buffer, poolOpen, depositer, sent,
                 app, pool, program, pending, settings, outcome, imageVars, scene>>
vars == <<registryVars, programVars, calls>>

Init ==
    /\ scene \in Scenes
    /\ calls = 0
    /\ IF scene = "calls" THEN RegistryInit ELSE inOperation /\ now = 1
    /\ listening = (scene \in {"registryApp", "poolApp"})
    /\ log = IF scene \in {"registryApp", "poolApp"} THEN Session(<<>>) ELSE <<>>
    /\ SecurityInit /\ buffer \in IF scene = "deposits" THEN Buffers ELSE {0}
    /\ DepositerInit
    /\ AppStart(IF scene = "poolApp" THEN "pool" ELSE "registry")
    /\ TasksInit(IF scene = "tasks" THEN Programs ELSE {<<>>})
    /\ ImageInit

-----------------------------------------------------------------------------
(* The calls of the others *)

Reports == UNION {[ids -> Counts] : ids \in SUBSET Ids \ {{}}}

\* The owners of the registry.
OwnersCall(name) ==
    \E caller \in owners, id \in Ids, count \in Counts :
        \/ name = "addNodeOperator" /\ count = 0 /\ \E n \in Names : addNodeOperator(caller, n, n)
        \/ name = "setNodeOperatorStakingLimit" /\ setNodeOperatorStakingLimit(caller, id, count)
        \/ name = "addSigningKeys" /\ count = 0 /\ \E keys \in NewKeys : addSigningKeys(caller, id, keys)
        \/ name = "removeSigningKeys" /\ \E from \in 0..MaxKeys : removeSigningKeys(caller, id, from, count)
        \/ name = "setOwner" /\ count = 0 /\ \E a \in Accounts, status \in BOOLEAN : setOwner(caller, a, status)

\* The manager of the operators.
ManagerCalls(name) ==
    \E id \in Ids :
        \/ name = "activateNodeOperator" /\ activateNodeOperator(id)
        \/ name = "deactivateNodeOperator" /\ deactivateNodeOperator(id)
        \/ name = "setNodeOperatorName" /\ \E n \in Names : setNodeOperatorName(id, n)
        \/ name = "setNodeOperatorRewardAddress" /\ \E n \in Names : setNodeOperatorRewardAddress(id, n)
        \/ name = "invalidateReadyToDepositKeysRange" /\ \E last \in id..Len(nodeOperators) : invalidateReadyToDepositKeysRange(id..last)
        \/ name = "clearNodeOperatorPenalty" /\ clearNodeOperatorPenalty(id)

\* The router, for the oracle, the pool and its managers.
RouterCalls(name) ==
    \/ name = "updateStuckValidatorsCount" /\ \E report \in Reports : updateStuckValidatorsCount(report)
    \/ name = "updateExitedValidatorsCount" /\ \E report \in Reports : updateExitedValidatorsCount(report)
    \/ name = "onWithdrawalCredentialsChanged" /\ onWithdrawalCredentialsChanged
    \/ name = "obtainDepositData" /\ \E count \in Counts \ {0} : obtainDepositData(count)
    \/ \E id \in Ids, count \in Counts :
           \/ name = "updateRefundedValidatorsCount" /\ updateRefundedValidatorsCount(id, count)
           \/ name = "unsafeUpdateValidatorsCount" /\ \E stuck \in Counts : unsafeUpdateValidatorsCount(id, count, stuck)
           \/ name = "updateTargetValidatorsLimits" /\ \E on \in BOOLEAN : updateTargetValidatorsLimits(id, on, count)

RegistryCalls(name) == OwnersCall(name) \/ ManagerCalls(name) \/ RouterCalls(name)

\* The owner and the guardians of the security module, other depositors.
SecurityCalls(name) ==
    \/ name = "addGuardians" /\ \E g \in Guardians : addGuardians(<<g>>, 1)
    \/ name = "removeGuardian" /\ \E g \in Guardians, q \in {0, 1} : removeGuardian(g, q)
    \/ name = "setGuardianQuorum" /\ \E q \in 0..2 : q # quorum /\ setGuardianQuorum(q)
    \/ name = "pauseDeposits" /\ \E g \in Guardians : moduleStatus = "Active" /\ pauseDeposits(g, now)
    \/ name = "unpauseDeposits" /\ moduleStatus = "DepositsPaused" /\ unpauseDeposits
    \/ name = "setStakingModuleStatus" /\ \E status \in {"Active", "Stopped"} : setStakingModuleStatus(status)
    \/ name = "ForeignDeposit" /\ ForeignDeposit
    \/ name = "PoolChanges" /\ PoolChanges

PoolCalls(name) ==
    \/ name = "resume" /\ resume
    \/ name = "stop" /\ stop
    \/ name = "submit" /\ submit
    \/ name = "receiveELRewards" /\ receiveELRewards
    \/ name = "depositOfPool" /\ depositOfPool
    \/ name = "handleOracleReport" /\ \E appeared \in BOOLEAN : handleOracleReport(appeared)

LedgerCalls(name) ==
    \/ name = "mintShares" /\ \E a \in Holders : mintShares(a, 1)
    \/ name = "transferShares" /\ \E a \in Holders, b \in Holders \cup {WithdrawalQueue} : transferShares(a, b, 1)
    \/ name = "requestBurn" /\ transferShares(WithdrawalQueue, Burner, 1)
    \/ name = "reportRebase" /\ \E burnt \in 0..1 : reportRebase(burnt, 1)

-----------------------------------------------------------------------------
(* The steps *)

others == <<depositer, sent, app, pool, program, pending, settings, outcome, imageVars, scene>>

Call ==
    /\ calls < MaxCalls[scene]
    /\ calls' = calls + 1
    /\ \E name \in CallsOf[scene] :
           \/ RegistryCalls(name) /\ UNCHANGED programVars
           \/ SecurityCalls(name) /\ UNCHANGED <<registryVars, others>>
           \/ /\ PoolCalls(name)
              /\ UNCHANGED <<nodeOperators, signingKeys, summary, nonce, activeOperatorsCount, owners, now, listening, approved>>
              /\ UNCHANGED <<securityVars, depositerVars, tasksVars, imageVars, scene>>
           \/ LedgerCalls(name) /\ UNCHANGED <<registryVars, securityVars, depositerVars, appVars, tasksVars, scene>>

\* Blocks follow one another where something depends on them.
Tick == scene \in {"calls", "deposits"} /\ NextBlock /\ UNCHANGED <<programVars, calls>>

DepositerStep ==
    /\ scene = "deposits"
    /\ \/ (ReadNonce \/ ReadLatestBlock \/ ReadRootAndSend \/ RunDepositerAgain) /\ UNCHANGED <<registryVars, securityVars>>
       \/ \E tx \in sent : MineDeposit(tx)
    /\ UNCHANGED <<appVars, tasksVars, imageVars, scene, calls>>

AppStep ==
    /\ scene \in {"registryApp", "poolApp"}
    /\ \/ (\E read \in app.asked : CallAnswered(read) \/ CallFails(read)) /\ UNCHANGED <<pool, log>>
       \/ RegistryVariablesSettled \/ RegistryInitialized \/ PoolInitialized
       \/ RegistryReducer \/ PoolReducer \/ Restart
    /\ UNCHANGED <<nodeOperators, signingKeys, summary, nonce, activeOperatorsCount, owners, now, listening, approved>>
    /\ UNCHANGED <<securityVars, depositerVars, tasksVars, imageVars, scene, calls>>

TaskStep ==
    /\ scene = "tasks"
    /\ Send \/ RunProgram \/ Mine \/ MineReverted
    /\ UNCHANGED <<securityVars, depositerVars, appVars, imageVars, scene, calls>>

ImageStep ==
    /\ scene = "images"
    /\ LookForReport \/ ReadLogs \/ ReadTotalPooledAce \/ SaveImage \/ sharesImage \/ JobRestarts
    /\ UNCHANGED <<registryVars, securityVars, depositerVars, appVars, tasksVars, scene, calls>>

Next == Call \/ Tick \/ DepositerStep \/ AppStep \/ TaskStep \/ ImageStep

Spec == Init /\ [][Next]_vars
=============================================================================
