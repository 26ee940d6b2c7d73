--------------------------- MODULE DeployScripts ---------------------------
(***************************************************************************)
(* The deployment scripts of scripts/scratch and scripts/interact as data: *)
(* a script is the sequence of the operations it performs, and             *)
(* ScratchDeploy.tla is the machine that performs them.  An operation says *)
(* what it reads from the state file or from a local variable of the       *)
(* script (a reference), never a value.                                    *)
(*                                                                         *)
(* A field of the state file is a pair <<entry, part>>; a local variable   *)
(* is <<"local", kind of the contract it holds>>.                          *)
(***************************************************************************)
EXTENDS Sequences, TLC

A(key) == <<key, "address">>
P(key) == <<key, "proxy">>
I(key) == <<key, "implementation">>
V(key) == <<key, "value">>
L(kind) == <<"local", kind>>

DepositContractField == <<"chainSpec", "depositContract">>
Catalist == P("app:catalist")
Oracle == P("app:oracle")
Operators == P("app:node-operators-registry")
AppBases == {I("app:catalist"), I("app:oracle"), I("app:node-operators-registry")}
Template == A("catalistTemplate")
DeployerRef == V("deployer")

(***************************************************************************)
(* The operations.                                                         *)
(***************************************************************************)

\* readNetworkState, assertRequiredNetworkState of the entries, and the fields
\* the script dereferences before it does anything else
Begin(required, used) == <<[op |-> "begin", required |-> required, used |-> used]>>
Reread == <<[op |-> "reread"]>>
\* persistNetworkState of the script's own copy, with these fields assigned
Save(updates, dropped) == <<[op |-> "save", updates |-> updates, dropped |-> dropped]>>
\* a helper's readNetworkState ... persistNetworkState around its own entry
Record(updates) == <<[op |-> "record", updates |-> updates]>>
Deploy(kind, args) == <<[op |-> "deploy", kind |-> kind, args |-> args]>>
Tx(on, fn, args) == <<[op |-> "tx", on |-> on, fn |-> fn, role |-> "none", args |-> args]>>
RoleTx(on, fn, role, who) == <<[op |-> "tx", on |-> on, fn |-> fn, role |-> role, args |-> {who}]>>
Expect(event) == <<[op |-> "expect", on |-> Template, event |-> event]>>
\* the contract was made with these addresses; the domain belongs to this
\* contract; the role is held by this contract and nobody else
Check(on, has) == <<[op |-> "check", on |-> on, has |-> has]>>
CheckDomain(ens, owner) == <<[op |-> "checkDomain", on |-> ens, owner |-> owner]>>
CheckRole(on, role, who) == <<[op |-> "checkRole", on |-> on, role |-> role, who |-> who]>>
\* a local variable from what a contract or the receipt of a transaction names
Fetch(kind, from) == <<[op |-> "fetch", kind |-> kind, from |-> from]>>
\* the operations are skipped when the script's copy has, or has not, the field
Unless(field, ops) == [i \in DOMAIN ops |-> ops[i] @@ [unless |-> field]]
When(field, ops) == [i \in DOMAIN ops |-> ops[i] @@ [when |-> field]]

(***************************************************************************)
(* scripts/helpers/deploy.js                                               *)
(***************************************************************************)
\* the gas used is added to the file: it is read and written, no other entry changes
incrementTotalGasUsedInStateFile == Record(<< >>)
useOrDeploy(kind, args) == Deploy(kind, args)
deployWithoutProxy(key, kind, args) == Deploy(kind, args) \o Record(A(key) :> L(kind))
deployImplementation(key, kind, args) == Deploy(kind, args) \o Record(I(key) :> L(kind))
deployProxy(key, kind, impl) == Deploy(kind, {impl}) \o Record(P(key) :> L(kind) @@ I(key) :> impl)
deployBehindOssifiableProxy(key, kind, implKind, args) == Deploy(implKind, args) \o deployProxy(key, kind, L(implKind))
updateProxyImplementation(key, kind, proxy, args) ==
    Deploy(kind, args) \o Tx(proxy, "upgradeTo", {L(kind)}) \o Record(I(key) :> L(kind))

(***************************************************************************)
(* scripts/components: assignENSName moves a name of the deployer's ENS,   *)
(* deployAPM gives it to the factory and has an APM registry made.         *)
(***************************************************************************)
assignENSName(ens, assignee) == Tx(ens, "setSubnodeOwner", {assignee})
deployAPM(ens, factory) == assignENSName(ens, factory) \o Deploy("AragonAPM", {factory, ens})

(***************************************************************************)
(* 00 and 01: parameters from the environment, the deposit contract.       *)
(***************************************************************************)
saveDeployParameters(env) ==
    Begin({}, {})
    \o Save(DeployerRef :> <<"env", "deployer">>
            @@ (IF env.gateSealFactory THEN << >> ELSE A("gateSeal") :> <<"env", "zero">>)
            @@ (IF env.depositContract = "environment" THEN DepositContractField :> <<"env", "depositContract">> ELSE << >>),
            (IF env.gateSealFactory THEN {A("gateSeal")} ELSE {})
            \cup (IF env.depositContract = "environment" THEN {} ELSE {DepositContractField}))

useOrDeployDepositContract == Unless(DepositContractField, deployWithoutProxy("depositContract", "DepositContract", {}))
deployBeaconDepositContract ==
    Begin({"chainSpec"}, {}) \o When(DepositContractField, Save(<< >>, {})) \o useOrDeployDepositContract
    \o Unless(DepositContractField, Save(DepositContractField :> L("DepositContract"), {}))
    \o incrementTotalGasUsedInStateFile

(***************************************************************************)
(* 02: the Aragon environment.  Every stage re-reads the file before it    *)
(* writes, because the helpers of the stage have written to it.            *)
(***************************************************************************)
deployENS == Deploy("ENSFactory", {}) \o Deploy("ENS", {L("ENSFactory")})
deployDAOFactory ==
    deployImplementation("aragon-kernel", "KernelBase", {}) \o deployImplementation("aragon-acl", "ACLBase", {})
    \o Deploy("EVMScriptRegistryFactory", {})
    \o Deploy("DAOFactory", {L("KernelBase"), L("ACLBase"), L("EVMScriptRegistryFactory")})
useOrDeployAPMRegistryFactory ==
    useOrDeploy("APMRegistryBase", {}) \o useOrDeploy("RepoBase", {}) \o useOrDeploy("ENSSubdomainRegistrarBase", {})
    \o useOrDeploy("APMRegistryFactory",
                   {L("DAOFactory"), L("APMRegistryBase"), L("RepoBase"), L("ENSSubdomainRegistrarBase"), L("ENS")})
deployAragonID ==
    Deploy("AragonID", {L("ENS")}) \o assignENSName(L("ENS"), L("AragonID"))
    \o Tx(L("AragonID"), "register", {DeployerRef})

(* Mutant: what deployDAOFactory has recorded is not read back. *)
deployAragonEnvFromMemory ==
    Begin({}, {}) \o Save(V("aragonEnsLabelName") :> <<"env", "param">>, {})
    \o deployENS \o Reread
    \o Save(A("ens") :> L("ENS") @@ A("ensFactory") :> L("ENSFactory"), {})
    \o deployDAOFactory
    \o Save(A("daoFactory") :> L("DAOFactory") @@ A("evmScriptRegistryFactory") :> L("EVMScriptRegistryFactory"), {})
    \o useOrDeployAPMRegistryFactory \o Reread
    \o Save(I("apmRegistry") :> L("APMRegistryBase") @@ I("apmRepo") :> L("RepoBase")
            @@ I("ensSubdomainRegistrar") :> L("ENSSubdomainRegistrarBase")
            @@ A("apmRegistryFactory") :> L("APMRegistryFactory"), {P("apmRegistry")})
    \o deployAPM(L("ENS"), L("APMRegistryFactory")) \o Reread
    \o Save(V("ensNode") :> <<"env", "param">> @@ P("apmRegistry") :> L("AragonAPM"), {I("apmRegistry")})
    \o deployAragonID \o Reread
    \o Save(A("aragonID") :> L("AragonID"), {}) \o incrementTotalGasUsedInStateFile
deployAragonEnv ==
    Begin({}, {}) \o Save(V("aragonEnsLabelName") :> <<"env", "param">>, {})
    \o deployENS \o Reread
    \o Save(A("ens") :> L("ENS") @@ A("ensFactory") :> L("ENSFactory"), {})
    \o deployDAOFactory \o Reread
    \o Save(A("daoFactory") :> L("DAOFactory") @@ A("evmScriptRegistryFactory") :> L("EVMScriptRegistryFactory"), {})
    \o useOrDeployAPMRegistryFactory \o Reread
    \o Save(I("apmRegistry") :> L("APMRegistryBase") @@ I("apmRepo") :> L("RepoBase")
            @@ I("ensSubdomainRegistrar") :> L("ENSSubdomainRegistrarBase")
            @@ A("apmRegistryFactory") :> L("APMRegistryFactory"), {P("apmRegistry")})
    \o deployAPM(L("ENS"), L("APMRegistryFactory")) \o Reread
    \o Save(V("ensNode") :> <<"env", "param">> @@ P("apmRegistry") :> L("AragonAPM"), {I("apmRegistry")})
    \o deployAragonID \o Reread
    \o Save(A("aragonID") :> L("AragonID"), {}) \o incrementTotalGasUsedInStateFile

deployAragonStdApps == Begin({"deployer"}, {}) \o incrementTotalGasUsedInStateFile

(***************************************************************************)
(* 04 to 12: the template, the APM registry, the repos, the DAO.           *)
(***************************************************************************)
deployTemplate ==
    Begin({"ens", "daoFactory", "aragonID", "apmRegistryFactory", "deployer"}, {})
    \o deployWithoutProxy("catalistTemplate", "CatalistTemplate",
                          {A("daoFactory"), A("ens"), A("aragonID"), A("apmRegistryFactory")})
    \o deployImplementation("app:catalist", "CatalistBase", {})
    \o deployImplementation("app:oracle", "LegacyOracleBase", {})
    \o deployImplementation("app:node-operators-registry", "NodeOperatorsRegistryBase", {})
    \o Record(<<"catalistTemplate", "deployBlock">> :> <<"env", "param">>) \o incrementTotalGasUsedInStateFile

obtainDeployedInstances ==
    Begin({"ens", "daoFactory", "aragonID", "apmRegistryFactory", "deployer", "catalistTemplate",
           "app:catalist", "app:oracle", "app:node-operators-registry"}, {Template} \cup AppBases)
    \o Check(Template, {A("daoFactory"), A("ens"), A("aragonID"), A("apmRegistryFactory")})

(* Mutant: the domain must not have been handed over. *)
registerFreeENSDomain ==
    Begin({"ens", "catalistApmEnsName", "catalistApmEnsRegDurationSec", "deployer", "catalistTemplate"}, {Template})
    \o CheckDomain(A("ens"), DeployerRef) \o Tx(A("ens"), "setDomainOwner", {Template})
    \o incrementTotalGasUsedInStateFile

\* the ENS is the one script 02 made: its TLD is the deployer's
registerENSDomain ==
    Begin({"ens", "catalistApmEnsName", "catalistApmEnsRegDurationSec", "deployer", "catalistTemplate"}, {Template})
    \o Tx(A("ens"), "setDomainOwner", {Template}) \o incrementTotalGasUsedInStateFile

deployCatalistAPM ==
    Begin({"deployer", "catalistTemplate", "ens", "catalistApmEnsName"}, {Template})
    \o Expect("none") \o CheckDomain(A("ens"), Template)
    \o Tx(Template, "deployCatalistAPM", {})
    \o Save(V("catalistApm") :> <<"env", "param">>, {}) \o incrementTotalGasUsedInStateFile

assertAPMRegistryPermissions == CheckRole(L("CatalistAPM"), "CREATE_REPO_ROLE", Template)

obtainDeployedAPM ==
    Begin({"ens", "catalistApmEnsName", "catalistTemplate"}, {Template, V("catalistApm")})
    \o Expect("TmplAPMDeployed") \o Fetch("CatalistAPM", Template)
    \o Check(L("CatalistAPM"), {A("ens")}) \o CheckDomain(A("ens"), L("CatalistAPM"))
    \o assertAPMRegistryPermissions
    \o Save(A("catalistApm") :> L("CatalistAPM"), {})

createAppRepos ==
    Begin({"deployer", "catalistTemplate", "app:catalist", "app:oracle", "app:node-operators-registry"},
          {Template} \cup AppBases)
    \o Expect("TmplAPMDeployed") \o Tx(Template, "createRepos", AppBases) \o Save(<< >>, {})
    \o incrementTotalGasUsedInStateFile

checkAppRepos == Fetch("AppRepos", V("createAppReposTx")) \o Check(L("AppRepos"), AppBases)

\* a transaction is named by the contract it makes
deployDAO ==
    Begin({"ens", "deployer", "catalistTemplate", "app:catalist", "app:oracle", "app:node-operators-registry"}, {Template})
    \o Expect("TmplReposCreated") \o Save(V("createAppReposTx") :> Template, {})
    \o checkAppRepos
    \o Tx(Template, "newDAO", {}) \o Fetch("DAO", Template)
    \o Save(V("catalistTemplateNewDaoTx") :> L("DAO"), {}) \o incrementTotalGasUsedInStateFile

assertInstalledApps == Fetch("CatalistApp", L("DAO")) \o Fetch("OracleApp", L("DAO")) \o Fetch("OperatorsApp", L("DAO"))

obtainDeployedDAO ==
    Begin({"catalistApmEnsName", "catalistTemplate", "app:catalist", "app:oracle", "app:node-operators-registry"},
          {Template, I("aragon-kernel"), A("evmScriptRegistryFactory")})
    \o Expect("TmplDAOAndTokenDeployed") \o Fetch("DAO", Template)
    \o Save(V("newDaoTx") :> L("DAO"), {})
    \o assertInstalledApps
    \o Save(P("aragon-kernel") :> L("DAO") @@ A("callsScript") :> <<"env", "param">> @@ Catalist :> L("CatalistApp")
            @@ Oracle :> L("OracleApp") @@ Operators :> L("OperatorsApp"), {})

\* the proxies the template does not announce, from the receipt of newDAO
missingProxies ==
    Fetch("ACL", V("catalistTemplateNewDaoTx")) \o Fetch("EVMScriptRegistry", V("catalistTemplateNewDaoTx"))
    \o Save(P("aragon-acl") :> L("ACL") @@ P("aragon-evm-script-registry") :> L("EVMScriptRegistry"), {})

\* (the holders fit in one transaction)
issueTokens ==
    Begin({"catalistTemplate", "vestingParams"}, {Template})
    \o Expect("TmplDAOAndTokenDeployed") \o Tx(Template, "issueTokens", {}) \o incrementTotalGasUsedInStateFile

(***************************************************************************)
(* 13 to 15: the other contracts, the gate seal, the end of the template.  *)
(***************************************************************************)
deployQueueAndVaults ==
    Begin({"app:catalist", "app:oracle", "oracleReportSanityChecker", "burner", "hashConsensusForAccountingOracle",
           "hashConsensusForValidatorsExitBusOracle", "withdrawalQueueERC721"},
          {Catalist, Oracle, DepositContractField})
    \o deployWithoutProxy("oracleDaemonConfig", "OracleDaemonConfig", {})
    \o deployWithoutProxy("dummyEmptyContract", "DummyEmptyContract", {})
    \o deployProxy("catalistLocator", "CatalistLocator", L("DummyEmptyContract"))
    \o deployWithoutProxy("oracleReportSanityChecker", "OracleReportSanityChecker", {L("CatalistLocator")})
    \o deployWithoutProxy("eip712BACE", "EIP712BACE", {Catalist})
    \o deployWithoutProxy("wbACE", "WbACE", {Catalist})
    \o deployBehindOssifiableProxy("withdrawalQueueERC721", "WithdrawalQueueERC721", "WithdrawalQueueBase", {L("WbACE")})
    \o deployImplementation("withdrawalVault", "WithdrawalVaultBase", {Catalist}) \o Reread
    \o Deploy("WithdrawalVault", {L("WithdrawalVaultBase")})
    \o Save(P("withdrawalVault") :> L("WithdrawalVault"), {})

(* Mutant: the security module is given the router of the script's copy of the file. *)
deploySecurityModuleForOldRouter ==
    deployWithoutProxy("depositSecurityModule", "DepositSecurityModule", {Catalist, DepositContractField, P("stakingRouter")})
deploySecurityModule ==
    deployWithoutProxy("depositSecurityModule", "DepositSecurityModule", {Catalist, DepositContractField, L("StakingRouter")})

deployOraclesAndLocator ==
    deployWithoutProxy("executionLayerRewardsVault", "ELRewardsVault", {Catalist})
    \o deployBehindOssifiableProxy("stakingRouter", "StakingRouter", "StakingRouterBase", {DepositContractField})
    \o deploySecurityModule
    \o deployBehindOssifiableProxy("accountingOracle", "AccountingOracle", "AccountingOracleBase",
                                   {L("CatalistLocator"), Catalist, Oracle})
    \o deployWithoutProxy("hashConsensusForAccountingOracle", "HashConsensusAO", {L("AccountingOracle")})
    \o deployBehindOssifiableProxy("validatorsExitBusOracle", "ValidatorsExitBusOracle", "ExitBusBase",
                                   {L("CatalistLocator")})
    \o deployWithoutProxy("hashConsensusForValidatorsExitBusOracle", "HashConsensusEB", {L("ValidatorsExitBusOracle")})
    \o deployWithoutProxy("burner", "Burner", {Catalist})
    \o updateProxyImplementation("catalistLocator", "CatalistLocatorBase", L("CatalistLocator"),
           {L(kind) : kind \in {"AccountingOracle", "DepositSecurityModule", "ELRewardsVault", "OracleReportSanityChecker",
                                "Burner", "StakingRouter", "ValidatorsExitBusOracle", "WithdrawalQueueERC721",
                                "WithdrawalVault", "OracleDaemonConfig"}} \cup {Catalist, Oracle})
    \o incrementTotalGasUsedInStateFile

createGateSeal ==
    Begin({"deployer", "gateSeal", "validatorsExitBusOracle", "withdrawalQueueERC721"}, {})
    \o Unless(A("gateSeal"), Deploy("GateSeal", {P("withdrawalQueueERC721"), P("validatorsExitBusOracle")})
                             \o Save(A("gateSeal") :> L("GateSeal"), {}))
    \o When(L("GateSeal"), incrementTotalGasUsedInStateFile)

finalizeDAO ==
    Begin({"catalistTemplate", "daoAragonId", "vestingParams", "stakingRouter", "deployer"}, {Template})
    \o Expect("TmplTokensIssued") \o Tx(Template, "finalizeDAO", {P("stakingRouter")})
    \o incrementTotalGasUsedInStateFile

(***************************************************************************)
(* 16 to 18: initialization, roles, the staking module.                    *)
(***************************************************************************)
initializeContracts ==
    Begin({"app:catalist", "app:oracle", "app:node-operators-registry", "catalistLocator", "stakingRouter",
           "daoInitialSettings", "eip712BACE", "accountingOracle", "hashConsensusForAccountingOracle",
           "validatorsExitBusOracle", "hashConsensusForValidatorsExitBusOracle", "withdrawalQueueERC721",
           "withdrawalVault", "nodeOperatorsRegistry"},
          {Catalist, Oracle, Operators, A("oracleDaemonConfig")}
          \cup {P(key) : key \in {"stakingRouter", "withdrawalQueueERC721", "catalistLocator", "accountingOracle",
                                  "validatorsExitBusOracle", "withdrawalVault"}})
    \o Tx(Operators, "initialize", {P("catalistLocator")})
    \o Tx(Catalist, "initialize", {P("catalistLocator"), A("eip712BACE")})
    \o Tx(Oracle, "initialize", {P("catalistLocator"), A("hashConsensusForAccountingOracle")})
    \o Tx(P("accountingOracle"), "initialize", {A("hashConsensusForAccountingOracle")})
    \o Tx(P("validatorsExitBusOracle"), "initialize", {A("hashConsensusForValidatorsExitBusOracle")})
    \o Tx(P("withdrawalQueueERC721"), "initialize", {})

setParameters(env) ==
    (IF env.baseUri
     THEN RoleTx(P("withdrawalQueueERC721"), "grantRole", "MANAGE_TOKEN_URI_ROLE", DeployerRef)
          \o Tx(P("withdrawalQueueERC721"), "setBaseURI", {})
          \o RoleTx(P("withdrawalQueueERC721"), "renounceRole", "MANAGE_TOKEN_URI_ROLE", DeployerRef)
     ELSE << >>)
    \o Tx(P("stakingRouter"), "initialize", {Catalist, P("withdrawalVault")})
    \o RoleTx(A("oracleDaemonConfig"), "grantRole", "CONFIG_MANAGER_ROLE", DeployerRef)
    \o Tx(A("oracleDaemonConfig"), "setFirst", {}) \o Tx(A("oracleDaemonConfig"), "setSecond", {})
    \o RoleTx(A("oracleDaemonConfig"), "renounceRole", "CONFIG_MANAGER_ROLE", DeployerRef)
    \o incrementTotalGasUsedInStateFile

grantRoles ==
    Begin({"app:catalist", "app:oracle", "app:node-operators-registry", "accountingOracle", "burner", "eip712BACE",
           "hashConsensusForAccountingOracle", "hashConsensusForValidatorsExitBusOracle", "catalistLocator",
           "stakingRouter", "validatorsExitBusOracle", "withdrawalQueueERC721", "withdrawalVault", "gateSeal"},
          {Catalist, Operators, P("stakingRouter"), P("withdrawalQueueERC721"), P("accountingOracle"),
           P("validatorsExitBusOracle")})
    \o RoleTx(P("stakingRouter"), "grantRole", "STAKING_MODULE_PAUSE_ROLE", A("depositSecurityModule"))
    \o RoleTx(P("stakingRouter"), "grantRole", "STAKING_MODULE_RESUME_ROLE", A("depositSecurityModule"))
    \o RoleTx(P("stakingRouter"), "grantRole", "REPORT_EXITED_VALIDATORS_ROLE", P("accountingOracle"))
    \o RoleTx(P("stakingRouter"), "grantRole", "REPORT_REWARDS_MINTED_ROLE", Catalist)
    \o RoleTx(P("validatorsExitBusOracle"), "grantRole", "PAUSE_ROLE", A("gateSeal"))
    \o RoleTx(P("withdrawalQueueERC721"), "grantRole", "PAUSE_ROLE", A("gateSeal"))
    \o RoleTx(P("withdrawalQueueERC721"), "grantRole", "FINALIZE_ROLE", Catalist)
    \o RoleTx(P("withdrawalQueueERC721"), "grantRole", "ORACLE_ROLE", P("accountingOracle"))
    \o RoleTx(A("burner"), "grantRole", "REQUEST_BURN_SHARES_ROLE", Operators) \o incrementTotalGasUsedInStateFile

(* Mutant: the deployer keeps the role. *)
plugStakingModuleAsAdmin ==
    Begin({"stakingRouter", "app:node-operators-registry", "deployer", "app:catalist", "app:oracle", "accountingOracle",
           "burner", "eip712BACE", "hashConsensusForAccountingOracle", "hashConsensusForValidatorsExitBusOracle",
           "catalistLocator", "validatorsExitBusOracle", "withdrawalQueueERC721", "withdrawalVault"},
          {P("stakingRouter"), Operators})
    \o RoleTx(P("stakingRouter"), "grantRole", "STAKING_MODULE_MANAGE_ROLE", DeployerRef)
    \o Tx(P("stakingRouter"), "addStakingModule", {Operators}) \o incrementTotalGasUsedInStateFile

plugStakingModule ==
    Begin({"stakingRouter", "app:node-operators-registry", "deployer", "app:catalist", "app:oracle", "accountingOracle",
           "burner", "eip712BACE", "hashConsensusForAccountingOracle", "hashConsensusForValidatorsExitBusOracle",
           "catalistLocator", "validatorsExitBusOracle", "withdrawalQueueERC721", "withdrawalVault"},
          {P("stakingRouter"), Operators})
    \o RoleTx(P("stakingRouter"), "grantRole", "STAKING_MODULE_MANAGE_ROLE", DeployerRef)
    \o Tx(P("stakingRouter"), "addStakingModule", {Operators})
    \o RoleTx(P("stakingRouter"), "renounceRole", "STAKING_MODULE_MANAGE_ROLE", DeployerRef)
    \o incrementTotalGasUsedInStateFile

(***************************************************************************)
(* scripts/interact/interact-init-*.js: the protocol is put to work.       *)
(***************************************************************************)
\* the programs of local and mainnet look up more than they use
InitBegin(network) ==
    Begin({}, {Catalist, Operators, P("stakingRouter"), P("accountingOracle"), P("withdrawalQueueERC721"),
               P("validatorsExitBusOracle"), A("depositSecurityModule"), A("hashConsensusForAccountingOracle"),
               A("hashConsensusForValidatorsExitBusOracle"), V("chainSpec")}
              \cup (IF network = "devnet" THEN {}
                    ELSE {DepositContractField, P("catalistLocator"), P("aragon-kernel"), P("aragon-acl"),
                          A("oracleReportSanityChecker")}))
(* Mutant: the contract is resumed before the role is granted. *)
ResumeAndGrant(on) == Tx(on, "resume", {}) \o RoleTx(on, "grantRole", "RESUME_ROLE", DeployerRef)
GrantAndResume(on) == RoleTx(on, "grantRole", "RESUME_ROLE", DeployerRef) \o Tx(on, "resume", {})
StartConsensus ==
    RoleTx(A("hashConsensusForAccountingOracle"), "grantRole", "MANAGE_MEMBERS_AND_QUORUM_ROLE", DeployerRef)
    \o RoleTx(A("hashConsensusForValidatorsExitBusOracle"), "grantRole", "MANAGE_MEMBERS_AND_QUORUM_ROLE", DeployerRef)
    \o Tx(A("hashConsensusForAccountingOracle"), "addMember", {})
    \o Tx(A("hashConsensusForValidatorsExitBusOracle"), "addMember", {})
    \o Tx(A("hashConsensusForAccountingOracle"), "updateInitialEpoch", {})
    \o Tx(A("hashConsensusForValidatorsExitBusOracle"), "updateInitialEpoch", {})
StartDeposits == Tx(A("depositSecurityModule"), "addGuardian", {})
    \o RoleTx(P("stakingRouter"), "grantRole", "STAKING_MODULE_RESUME_ROLE", DeployerRef)
GrantPermission(on, role) == RoleTx(on, "grantPermission", role, DeployerRef)

initDevnet ==
    InitBegin("devnet") \o Tx(Catalist, "resume", {}) \o GrantAndResume(P("withdrawalQueueERC721")) \o StartConsensus
    \o GrantAndResume(P("validatorsExitBusOracle")) \o StartDeposits \o Tx(P("stakingRouter"), "resumeStakingModule", {})

AddLocalOperator == GrantPermission(Operators, "MANAGE_NODE_OPERATOR_ROLE") \o Tx(Operators, "addNodeOperator", {})

initLocal ==
    InitBegin("local") \o GrantPermission(Catalist, "RESUME_ROLE") \o GrantPermission(Catalist, "STAKING_CONTROL_ROLE")
    \o Tx(Catalist, "resume", {}) \o GrantAndResume(P("withdrawalQueueERC721")) \o StartConsensus
    \o GrantAndResume(P("validatorsExitBusOracle")) \o StartDeposits \o AddLocalOperator

initMainnet ==
    InitBegin("mainnet") \o GrantPermission(Catalist, "RESUME_ROLE") \o GrantPermission(Catalist, "STAKING_CONTROL_ROLE")
    \o Tx(Catalist, "resume", {}) \o GrantAndResume(P("withdrawalQueueERC721")) \o StartConsensus
    \o GrantAndResume(P("validatorsExitBusOracle")) \o StartDeposits \o Tx(P("stakingRouter"), "resumeStakingModule", {})
    \o GrantPermission(Operators, "MANAGE_NODE_OPERATOR_ROLE")

(***************************************************************************)
(* scripts/scratch/checks/scratch-acceptance-test.js, which                *)
(* dao-local-deploy.sh runs on a fork of the chain deployed to: the        *)
(* deployer sets the protocol up, stakes, asks for a withdrawal, has two   *)
(* members report, and claims.                                             *)
(***************************************************************************)
Queue == P("withdrawalQueueERC721")
Consensus == A("hashConsensusForAccountingOracle")

\* with checkMainProtocolFlows, which asserts the entries before
loadDeployedProtocol ==
    Begin({"vestingParams", "daoInitialSettings"},
          {P("stakingRouter"), Catalist, Operators, A("depositSecurityModule"), P("accountingOracle"), Consensus,
           A("executionLayerRewardsVault"), Queue})

prepareProtocolForSubmitDepositReportWithdrawalFlow ==
    Tx(Catalist, "resume", {}) \o GrantAndResume(Queue)
    \o Tx(Operators, "addNodeOperator", {}) \o Tx(Operators, "addNodeOperator", {})
    \o Tx(Operators, "setNodeOperatorStakingLimit", {}) \o Tx(Operators, "setNodeOperatorStakingLimit", {})
    \o RoleTx(Consensus, "grantRole", "MANAGE_MEMBERS_AND_QUORUM_ROLE", DeployerRef)
    \o Tx(Consensus, "addMember", {}) \o Tx(Consensus, "addSecondMember", {})

\* (no deposit: the lines are commented out; the amounts are not modelled)
checkSubmitDepositReportWithdrawal ==
    Tx(Catalist, "submit", {}) \o Tx(A("executionLayerRewardsVault"), "receive", {})
    \o Tx(Consensus, "updateInitialEpoch", {})
    \o Tx(Catalist, "approve", {Queue}) \o Tx(Queue, "requestWithdrawals", {Catalist})
    \o Tx(Consensus, "submitReport", {}) \o Tx(P("accountingOracle"), "submitReportData", {Catalist})
    \o Tx(P("accountingOracle"), "submitReportExtraDataEmpty", {})
    \o Tx(Queue, "claimWithdrawalsTo", {P("accountingOracle")})

acceptanceTest ==
    loadDeployedProtocol \o prepareProtocolForSubmitDepositReportWithdrawalFlow \o checkSubmitDepositReportWithdrawal

(***************************************************************************)
(* The scripts in the order dao-deploy.sh and the shell script of the      *)
(* network run them.  Script i of the repository is element i + 1.         *)
(***************************************************************************)
Scripts(env) ==
    << saveDeployParameters(env), deployBeaconDepositContract, deployAragonEnv, deployAragonStdApps, deployTemplate,
       obtainDeployedInstances, registerENSDomain, deployCatalistAPM, obtainDeployedAPM, createAppRepos, deployDAO,
       obtainDeployedDAO \o missingProxies, issueTokens, deployQueueAndVaults \o deployOraclesAndLocator,
       createGateSeal, finalizeDAO, initializeContracts \o setParameters(env), grantRoles, plugStakingModule,
       CASE env.network = "devnet" -> initDevnet
         [] env.network = "local" -> initLocal
         [] env.network = "mainnet" -> initMainnet
         [] env.network = "fork" -> acceptanceTest >>

InitScript == 20
(***************************************************************************)
(* The operators' tools read the addresses of the contracts they use from  *)
(* the state file, loader.js the fields below and mainnet-depositer.js and *)
(* mainnet-upgradable-aragon.js some of them; a missing one is a TypeError.*)
(***************************************************************************)
getContracts ==
    {DepositContractField}
    \cup {P(key) : key \in {"app:catalist", "app:node-operators-registry", "stakingRouter", "accountingOracle",
                            "withdrawalQueueERC721", "catalistLocator", "validatorsExitBusOracle", "aragon-kernel",
                            "aragon-acl"}}
    \cup {A(key) : key \in {"hashConsensusForAccountingOracle", "hashConsensusForValidatorsExitBusOracle",
                            "depositSecurityModule"}}
=============================================================================
