-------------------------- MODULE MCScratchDeploy --------------------------
EXTENDS ScratchDeploy

Environment(deposit, seal, uri, network, strict) ==
    [depositContract |-> deposit, gateSealFactory |-> seal, baseUri |-> uri, network |-> network, strict |-> strict]

\* the networks the repository has scripts for; a hardhat node reports reverts
MCEnvironments ==
    {Environment("nowhere", TRUE, TRUE, "local", TRUE), Environment("environment", FALSE, FALSE, "devnet", FALSE),
     Environment("defaults", TRUE, FALSE, "mainnet", FALSE), Environment("nowhere", FALSE, TRUE, "fork", TRUE)}
=============================================================================
