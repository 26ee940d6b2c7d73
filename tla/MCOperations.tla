---------------------------- MODULE MCOperations ----------------------------
EXTENDS Operations

CONSTANTS deployer, guardian, k1, k2, k3, n1, n2

MCAccounts == {deployer}
MCGuardians == {deployer, guardian}
MCNames == {n1, n2}
MCSigningKeys == {k1, k2, k3}
MCNewKeys == {<<k2>>, <<k3, k1>>}
MCFile == <<k1, k2, k3>>

Operator0(total, vetted, deposited, exited) ==
    [NewOperator(n1, n1) EXCEPT !.total = total, !.vetted = vetted, !.deposited = deposited, !.exited = exited]

\* an operator with an approved key beyond its keys and one with deposits
MCV1Storages ==
    {[operators |-> <<Operator0(3, 3, 1, 0), Operator0(2, 5, 2, 1)>>, keys |-> <<<<k1, k2, k3>>, <<k1, k2>>>>, nonce |-> 0]}
MCStorages ==
    {[operators |-> <<Operator0(2, 2, 0, 0)>>, keys |-> <<<<k1, k2>>>>, nonce |-> 2]}

MCCallsScene == {"calls"}
MCScenes == {"calls", "deposits", "registryApp", "poolApp", "tasks", "images"}

RegistryNames ==
    {"addNodeOperator", "setNodeOperatorStakingLimit", "addSigningKeys", "removeSigningKeys", "setOwner",
     "activateNodeOperator", "deactivateNodeOperator", "setNodeOperatorName", "setNodeOperatorRewardAddress",
     "invalidateReadyToDepositKeysRange", "clearNodeOperatorPenalty", "updateStuckValidatorsCount",
     "updateExitedValidatorsCount", "onWithdrawalCredentialsChanged", "obtainDepositData",
     "updateRefundedValidatorsCount", "unsafeUpdateValidatorsCount", "updateTargetValidatorsLimits"}

MCCallsOf ==
    [calls       |-> RegistryNames \ {"setNodeOperatorName", "setNodeOperatorRewardAddress"},
     deposits    |-> {"setNodeOperatorStakingLimit", "addSigningKeys", "removeSigningKeys", "addGuardians", "removeGuardian",
                      "setGuardianQuorum", "pauseDeposits", "unpauseDeposits", "setStakingModuleStatus", "ForeignDeposit",
                      "PoolChanges", "deactivateNodeOperator"},
     registryApp |-> {"addNodeOperator", "setNodeOperatorName", "deactivateNodeOperator",
                      "obtainDepositData", "invalidateReadyToDepositKeysRange"},
     poolApp     |-> {"resume", "stop", "submit", "receiveELRewards", "depositOfPool", "handleOracleReport"},
     tasks       |-> {"addSigningKeys", "deactivateNodeOperator", "activateNodeOperator", "setOwner",
                      "setNodeOperatorRewardAddress"},
     images      |-> {"mintShares", "transferShares", "requestBurn", "reportRebase"}]

MCMaxCalls == [calls |-> 4, deposits |-> 3, registryApp |-> 2, poolApp |-> 2, tasks |-> 2, images |-> 4]

MCPrograms ==
    {setFrameConfig(2), setRewardAddress(1, n2), setStakingLimit(1, 0), addOperator(n2, n2), removeKeys(1, 0, 1, 2),
     addKeys(1, 0, 1, 2), addKeys(1, 0, 2, 2), upgradeNos("v2"), upgradeCatalist}
=============================================================================
