--------------------------- MODULE ScratchDeploy ---------------------------
(***************************************************************************)
(* The deployment of the protocol (scripts/scratch/dao-deploy.sh): one     *)
(* process per script, run in order, that share the state file and the     *)
(* chain and nothing else.  A process may die between any two of its       *)
(* operations and in the middle of writing the state file: what it kept in *)
(* memory is lost, the transactions it has sent stay, and so does what it  *)
(* has written, be it the whole file or a part that nobody can parse.  The *)
(* operator then runs the script again, goes on with the next one when     *)
(* only bookkeeping was left, or starts dao-deploy.sh from the top, which  *)
(* replaces the state file by the defaults; the contracts of the abandoned *)
(* attempt stay on the chain.                                              *)
(***************************************************************************)
EXTENDS Naturals, FiniteSets, DeployScripts

CONSTANTS
    Environments,   \* the environments deployed into
    MaxCrashes,     \* bound: how often a process dies
    MaxManual,      \* bound: how often the operator goes on by hand before he starts over
    MaxRestarts     \* bound: how often he starts over

VARIABLES
    env,        \* the environment of this deployment
    chain,      \* contract -> what it was made with, its calls, its roles, its last event, its domain
    file,       \* the state file: field -> contract or parameter, or Malformed
    script,     \* the script that runs
    step,       \* its next operation
    vars,       \* its memory: its copy of the file and its local variables
    status,     \* "running", "crashed", "failed" or "done"
    repeated,   \* whether the operator runs this script another time
    crashes, manual, restarts

operator == <<crashes, manual, restarts>>
allVars == <<env, chain, file, script, step, vars, status, repeated, operator>>

(***************************************************************************)
(* Contracts and the other things fields name.                             *)
(***************************************************************************)
Thing(kind, n) == [kind |-> kind, n |-> n]
Param == Thing("Param", 0)
Deployer == Thing("Deployer", 0)
Zero == Thing("Zero", 0)
GivenDepositContract == Thing("DepositContract", 0)

OfKind(kind) == {c \in DOMAIN chain : c.kind = kind}
Next_(kind) == Thing(kind, Cardinality({c \in OfKind(kind) : c.n > 0}) + 1)

\* the constructor makes the deployer the admin
AdminByConstructor == {"OracleDaemonConfig", "HashConsensusAO", "HashConsensusEB", "Burner"}
AdminByInitialize == {"AccountingOracle", "ValidatorsExitBusOracle", "WithdrawalQueueERC721", "StakingRouter"}
Admin == <<"DEFAULT_ADMIN_ROLE", Deployer>>

New(kind, refs) ==
    [refs |-> refs, calls |-> {}, roles |-> IF kind \in AdminByConstructor THEN {Admin} ELSE {},
     event |-> "none", domain |-> Deployer]

(***************************************************************************)
(* Transactions: when one reverts and what it does.                        *)
(***************************************************************************)
Once == {"initialize", "createRepos", "newDAO", "addStakingModule", "register", "setFirst", "setSecond",
         "addMember", "addSecondMember", "updateInitialEpoch", "addGuardian", "resume"}

RoleNeeded(c, fn) ==
    CASE fn = "setBaseURI" -> {<<"MANAGE_TOKEN_URI_ROLE", Deployer>>}
      [] fn \in {"setFirst", "setSecond"} -> {<<"CONFIG_MANAGER_ROLE", Deployer>>}
      [] fn = "addStakingModule" -> {<<"STAKING_MODULE_MANAGE_ROLE", Deployer>>}
      [] fn = "resumeStakingModule" -> {<<"STAKING_MODULE_RESUME_ROLE", Deployer>>}
      [] fn \in {"addMember", "addSecondMember"} -> {<<"MANAGE_MEMBERS_AND_QUORUM_ROLE", Deployer>>}
      [] fn = "resume" -> {<<"RESUME_ROLE", Deployer>>}
      [] fn = "addNodeOperator" -> {<<"MANAGE_NODE_OPERATOR_ROLE", Deployer>>}
      [] fn \in {"grantRole", "updateInitialEpoch"} -> {Admin}
      [] OTHER -> {}

TheENS(tmpl) == CHOOSE c \in chain[tmpl].refs : c.kind = "ENS"

\* The report of the acceptance test goes to the queue that the locator names.
Knows(c, kind) == CHOOSE d \in chain[c].refs : d.kind = kind
QueueOf(oracle) ==
    Knows(Knows(Knows(Knows(oracle, "AccountingOracleBase"), "CatalistLocator"), "CatalistLocatorBase"),
          "WithdrawalQueueERC721")

AcceptanceReverts(c, fn, args) ==
    \/ fn \in {"submit", "requestWithdrawals"} /\ "resume" \notin chain[c].calls
    \/ fn = "requestWithdrawals" /\ \E pool \in args : ~ ({"submit", "approve"} \subseteq chain[pool].calls)
    \/ fn \in {"addNodeOperator", "setNodeOperatorStakingLimit"} /\ "initialize" \notin chain[c].calls
    \/ fn = "submitReport" /\ ~ ({"addMember", "addSecondMember", "updateInitialEpoch"} \subseteq chain[c].calls)
    \/ /\ fn = "submitReportData"
       /\ \/ "submitReport" \notin chain[Knows(c, "HashConsensusAO")].calls
          \/ ~ ({<<"ORACLE_ROLE", c>>} \cup {<<"FINALIZE_ROLE", pool>> : pool \in args} \subseteq chain[QueueOf(c)].roles)
    \/ fn = "claimWithdrawalsTo" /\ \E oracle \in args : "submitReportData" \notin chain[oracle].calls

\* newDAO asks for the registry only; the apps it installs are looked up in the ENS,
\* where createRepos has put them
UnresolvedApps(c) == "createRepos" \notin chain[c].calls

\* resumeStakingModule is for a module whose deposits were paused: no script pauses one
Reverts(c, fn, role, args) ==
    \/ fn \in Once /\ fn \in chain[c].calls
    \/ ~(RoleNeeded(c, fn) \subseteq chain[c].roles)
    \/ fn = "resumeStakingModule"
    \/ AcceptanceReverts(c, fn, args)
    \/ fn = "deployCatalistAPM" /\ (fn \in chain[c].calls \/ chain[TheENS(c)].domain # c)
    \/ fn = "createRepos" /\ "deployCatalistAPM" \notin chain[c].calls
    \/ fn = "newDAO" /\ ("deployCatalistAPM" \notin chain[c].calls \/ UnresolvedApps(c))
    \/ fn = "finalizeDAO" /\ ("newDAO" \notin chain[c].calls \/ "finalizeDAO" \in chain[c].calls)
    \/ fn = "grantPermission" /\ \A who \in args : <<role, who>> \notin chain[c].roles
    \/ fn = "resume" /\ c.kind # "CatalistApp" /\ "initialize" \notin chain[c].calls
    \/ fn = "initialize" /\ c.kind \in {"CatalistApp", "OperatorsApp", "OracleApp"}
         /\ \E l \in args : l.kind = "CatalistLocator" /\ "upgradeTo" \notin chain[l].calls

Events == [deployCatalistAPM |-> "TmplAPMDeployed", createRepos |-> "TmplReposCreated",
           newDAO |-> "TmplDAOAndTokenDeployed", issueTokens |-> "TmplTokensIssued", finalizeDAO |-> "TmplDaoFinalized"]

AppBase == [CatalistApp |-> "CatalistBase", OracleApp |-> "LegacyOracleBase", OperatorsApp |-> "NodeOperatorsRegistryBase"]

\* what a transaction does to the contract it is sent to
CallEffect(c, fn, role, args) ==
    LET kind == c.kind IN
    [chain[c] EXCEPT
        !.calls = @ \cup {fn},
        !.refs = IF fn \in {"initialize", "upgradeTo", "addStakingModule"} THEN @ \cup args ELSE @,
        !.roles = (CASE fn \in {"grantRole", "grantPermission"} -> @ \cup {<<role, who>> : who \in args}
                     [] fn = "renounceRole" -> @ \ {<<role, who>> : who \in args}
                     [] fn = "initialize" /\ kind \in AdminByInitialize -> @ \cup {Admin}
                     [] OTHER -> @),
        !.event = IF fn \in DOMAIN Events THEN Events[fn] ELSE @,
        !.domain = IF fn = "setDomainOwner" THEN CHOOSE who \in args : TRUE ELSE @]

\* the contracts it makes
MadeBy(c, fn, args) ==
    CASE fn = "deployCatalistAPM" ->
            LET apm == Next_("CatalistAPM") IN
            apm :> [New("CatalistAPM", {c, TheENS(c)}) EXCEPT !.roles = {<<"CREATE_REPO_ROLE", c>>}]
            @@ TheENS(c) :> [chain[TheENS(c)] EXCEPT !.domain = apm]
      [] fn = "createRepos" -> Next_("AppRepos") :> New("AppRepos", {c} \cup args)
      [] fn = "newDAO" ->
            LET dao == Next_("DAO")
                repos == CHOOSE r \in OfKind("AppRepos") : c \in chain[r].refs
            IN  dao :> New("DAO", {c}) @@ Next_("ACL") :> New("ACL", {dao})
                @@ Next_("EVMScriptRegistry") :> New("EVMScriptRegistry", {dao})
                @@ [app \in {Next_(kind) : kind \in DOMAIN AppBase} |->
                        New(app.kind, {dao} \cup {b \in chain[repos].refs : b.kind = AppBase[app.kind]})]
      [] fn = "finalizeDAO" ->
            LET dao == CHOOSE d \in OfKind("DAO") : c \in chain[d].refs
                app(kind) == CHOOSE a \in OfKind(kind) : dao \in chain[a].refs
                Grant(a, roles) == a :> [chain[a] EXCEPT !.roles = @ \cup roles]
            IN  Grant(app("CatalistApp"), {<<role, Deployer>> : role \in {"RESUME_ROLE", "STAKING_CONTROL_ROLE"}})
                @@ Grant(app("OperatorsApp"), {<<"MANAGE_NODE_OPERATOR_ROLE", Deployer>>}
                                              \cup {<<"STAKING_ROUTER_ROLE", who>> : who \in args})
      [] OTHER -> << >>

(***************************************************************************)
(* The process.                                                            *)
(***************************************************************************)
EnvValue == [deployer |-> Deployer, zero |-> Zero, depositContract |-> GivenDepositContract, param |-> Param]
Known(ref) == ref[1] = "env" \/ ref \in DOMAIN vars
Value(ref) == IF ref[1] = "env" THEN EnvValue[ref[2]] ELSE vars[ref]
Values(refs) == {Value(ref) : ref \in refs}

IsLocal(field) == field[1] = "local"
FileOf(memory) == [f \in {f \in DOMAIN memory : ~IsLocal(f)} |-> memory[f]]
LocalsOf(memory) == [f \in {f \in DOMAIN memory : IsLocal(f)} |-> memory[f]]
Entries(memory) == {f[1] : f \in DOMAIN memory}
Assigned(updates) == [f \in DOMAIN updates |-> Value(updates[f])]
Without(memory, fields) == [f \in DOMAIN memory \ fields |-> memory[f]]

\* a part of the text of a state file: JSON.parse throws
Malformed == V("malformed") :> Zero

Ops == Scripts(env)[script]
Op == Ops[step]
InScript == status = "running" /\ step <= Len(Ops)
\* the operation is performed unless the script found its result in the file
Performs(kind) ==
    /\ InScript /\ Op.op = kind
    /\ "unless" \in DOMAIN Op => Op.unless \notin DOMAIN vars
    /\ "when" \in DOMAIN Op => Op.when \in DOMAIN vars
Advance == step' = step + 1 /\ UNCHANGED <<env, script, status, repeated, operator>>

\* readStateFile: these operations read the file, and a malformed one is an error
Readable == Op.op \in {"begin", "reread", "record"} => file # Malformed

\* what the operation needs: a missing field is a TypeError or a failed assertion
Satisfied ==
    Readable /\
    CASE Op.op = "begin" -> Op.used \subseteq DOMAIN file /\ Op.required \subseteq Entries(file)
      [] Op.op = "deploy" -> \A ref \in Op.args : Known(ref)
      [] Op.op \in {"save", "record"} -> \A f \in DOMAIN Op.updates : Known(Op.updates[f])
      [] Op.op = "tx" -> Known(Op.on) /\ \A ref \in Op.args : Known(ref)
      [] Op.op = "expect" -> chain[Value(Op.on)].event = Op.event
      [] Op.op = "check" -> Values(Op.has) \subseteq chain[Value(Op.on)].refs
      [] Op.op = "checkDomain" -> chain[Value(Op.on)].domain = Value(Op.owner)
      [] Op.op = "checkRole" ->
            {who \in DOMAIN chain : <<Op.role, who>> \in chain[Value(Op.on)].roles} = {Value(Op.who)}
      [] Op.op = "fetch" -> Known(Op.from) /\ {c \in OfKind(Op.kind) : Value(Op.from) \in chain[c].refs} # {}
      [] OTHER -> TRUE
TxReverts == Op.op = "tx" /\ Satisfied /\ Reverts(Value(Op.on), Op.fn, Op.role, Values(Op.args))

\* readNetworkState, assertRequiredNetworkState; later again readNetworkState
ReadState ==
    /\ Performs("begin") \/ Performs("reread")
    /\ Satisfied
    /\ vars' = file @@ LocalsOf(vars)
    /\ UNCHANGED <<chain, file>>
    /\ Advance

\* persistNetworkState: the file becomes the script's copy
PersistState ==
    /\ Performs("save")
    /\ Satisfied
    /\ vars' = Assigned(Op.updates) @@ Without(vars, Op.dropped)
    /\ file' = FileOf(vars')
    /\ UNCHANGED chain
    /\ Advance

\* a helper re-reads the file, sets its entry and persists; the script's copy is not touched
RecordContract ==
    /\ Performs("record")
    /\ Satisfied
    /\ file' = Assigned(Op.updates) @@ file
    /\ UNCHANGED <<chain, vars>>
    /\ Advance

DeployContract ==
    /\ Performs("deploy")
    /\ Satisfied
    /\ LET c == Next_(Op.kind) IN
        /\ chain' = c :> New(Op.kind, Values(Op.args)) @@ chain
        /\ vars' = L(Op.kind) :> c @@ vars
    /\ UNCHANGED file
    /\ Advance

\* makeTx; ens.setOwner and the others
Transact ==
    /\ Performs("tx")
    /\ Satisfied /\ ~TxReverts
    /\ LET c == Value(Op.on)
           args == Values(Op.args)
       IN  chain' = c :> CallEffect(c, Op.fn, Op.role, args) @@ MadeBy(c, Op.fn, args) @@ chain
    /\ UNCHANGED <<file, vars>>
    /\ Advance

CheckChain ==
    /\ \E kind \in {"expect", "check", "checkDomain", "checkRole"} : Performs(kind)
    /\ Satisfied
    /\ UNCHANGED <<chain, file, vars>>
    /\ Advance

FetchContract ==
    /\ Performs("fetch")
    /\ Satisfied
    /\ vars' = L(Op.kind) :> (CHOOSE c \in OfKind(Op.kind) : Value(Op.from) \in chain[c].refs) @@ vars
    /\ UNCHANGED <<chain, file>>
    /\ Advance

SkipOperation ==
    /\ InScript /\ ~Performs(Op.op)
    /\ UNCHANGED <<chain, file, vars>>
    /\ Advance

\* the scripts of scripts/interact send with a fixed gas limit and do not wait for
\* the receipt: on most nodes they do not learn of a revert
Unnoticed == script = InitScript /\ ~env.strict

MissRevert ==
    /\ Performs("tx")
    /\ TxReverts /\ Unnoticed
    /\ UNCHANGED <<chain, file, vars>>
    /\ Advance

\* an error: runOrWrapScript exits with a code, and dao-deploy.sh (set -e) stops
Fail ==
    /\ InScript /\ Performs(Op.op)
    /\ ~Satisfied \/ (TxReverts /\ ~Unnoticed)
    /\ status' = "failed"
    /\ vars' = << >>
    /\ UNCHANGED <<env, chain, file, script, step, repeated, operator>>

EndScript ==
    /\ status = "running" /\ step > Len(Ops)
    /\ step' = 1 /\ vars' = << >> /\ repeated' = FALSE
    /\ IF script < InitScript THEN script' = script + 1 /\ UNCHANGED status
                                     ELSE status' = "done" /\ UNCHANGED script
    /\ UNCHANGED <<env, chain, file, operator>>

Crash ==
    /\ status = "running" /\ crashes < MaxCrashes
    /\ crashes' = crashes + 1
    /\ status' = "crashed" /\ vars' = << >>
    /\ UNCHANGED <<env, chain, file, script, step, repeated, manual, restarts>>

\* writeFileSync empties the file before it writes: of a process that dies in between
\* a part of the text is left (a complete one, but for the end of the line, is a Crash
\* after the operation)
CrashWhileWriting ==
    /\ \E kind \in {"save", "record"} : Performs(kind)
    /\ Satisfied
    /\ crashes < MaxCrashes
    /\ crashes' = crashes + 1
    /\ file' = Malformed
    /\ status' = "crashed" /\ vars' = << >>
    /\ UNCHANGED <<env, chain, script, step, repeated, manual, restarts>>

(***************************************************************************)
(* The operator.                                                           *)
(***************************************************************************)
Stopped == status \in {"crashed", "failed"}
ByHand == Stopped /\ manual < MaxManual /\ manual' = manual + 1 /\ status' = "running" /\ step' = 1

RunAgain ==
    /\ ByHand
    /\ repeated' = TRUE
    /\ UNCHANGED <<env, chain, file, script, vars, crashes, restarts>>

\* only if the process died with all transactions of the script sent and all entries
\* written, at checks or at the count of the gas, of which it may have left a part
GoOn ==
    /\ ByHand /\ status = "crashed" /\ script < InitScript
    /\ \A i \in step..Len(Ops) :
            \/ Ops[i].op \notin {"deploy", "tx", "save", "record"}
            \/ Ops[i].op = "record" /\ DOMAIN Ops[i].updates = {}
    /\ script' = script + 1 /\ repeated' = FALSE
    /\ UNCHANGED <<env, chain, file, vars, crashes, restarts>>

\* deployed-*-defaults.json
DefaultsOf(e) ==
    [f \in {<<key, "deployParameters">> : key \in
                {"burner", "legacyOracle", "hashConsensusForAccountingOracle", "accountingOracle",
                 "hashConsensusForValidatorsExitBusOracle", "validatorsExitBusOracle", "depositSecurityModule",
                 "oracleReportSanityChecker", "oracleDaemonConfig", "nodeOperatorsRegistry", "withdrawalQueueERC721"}}
           \cup {V(key) : key \in {"gateSeal", "catalistApmEnsName", "catalistApmEnsRegDurationSec", "daoAragonId",
                                   "chainSpec", "daoInitialSettings", "vestingParams"}} |-> Param]
    @@ (IF e.depositContract = "defaults" THEN DepositContractField :> GivenDepositContract ELSE << >>)

StartOver ==
    /\ Stopped /\ restarts < MaxRestarts
    /\ restarts' = restarts + 1
    /\ file' = DefaultsOf(env)
    /\ script' = 1 /\ step' = 1 /\ status' = "running" /\ repeated' = FALSE /\ manual' = 0
    /\ UNCHANGED <<env, chain, vars, crashes>>

Init ==
    /\ env \in Environments
    /\ chain = (IF env.depositContract = "nowhere" THEN << >>
                                                   ELSE GivenDepositContract :> New("DepositContract", {}))
    /\ file = DefaultsOf(env)
    /\ script = 1 /\ step = 1 /\ vars = << >> /\ status = "running" /\ repeated = FALSE
    /\ crashes = 0 /\ manual = 0 /\ restarts = 0

Process ==
    \/ ReadState \/ PersistState \/ RecordContract \/ DeployContract \/ Transact \/ CheckChain
    \/ FetchContract \/ SkipOperation \/ MissRevert \/ Fail \/ EndScript

Next == Process \/ Crash \/ CrashWhileWriting \/ RunAgain \/ GoOn \/ StartOver

Spec == Init /\ [][Next]_allVars

\* the operating system runs a process on; the operator does not leave a stopped deployment alone
FairSpec == Spec /\ WF_allVars(Process) /\ WF_allVars(RunAgain \/ GoOn \/ StartOver)

(***************************************************************************)
(* Properties.                                                             *)
(***************************************************************************)
\* the scripts of dao-deploy.sh are behind the operator, with a state file that can be read
Deployed == script = InitScript /\ file # Malformed
\* (nothing reads the entry depositContract; script 01 overwrites what its helper has recorded there)
Recorded == {file[f] : f \in DOMAIN file \ {A("depositContract")}} \cap DOMAIN chain
BetweenScripts == status = "running" /\ step = 1 /\ ~repeated

\* Whenever a script begins, the file describes one deployment: a recorded contract
\* that was made with, or that gives a role to, a contract of some kind knows the
\* recorded contract of this kind and not the one of an abandoned attempt (the gate
\* seal pauses the recorded queue and exit bus, the guardians' module deposits
\* through the recorded router, the locator names the recorded contracts).
OneDeployment ==
    BetweenScripts =>
        \A c, d \in Recorded :
            \A r \in chain[c].refs \cup {held[2] : held \in chain[c].roles} : r.kind = d.kind => r = d

\* When the deployment is finished, every transaction of scripts 16 to 18 has gone
\* through, on the recorded contracts, the deployer is left with none of the roles
\* he gave himself for their sake, and the file names all the tools look up.
DeploymentIsComplete ==
    Deployed =>
        LET Calls(ref) == chain[file[ref]].calls
            Roles(ref) == chain[file[ref]].roles
        IN  /\ \A ref \in {Catalist, Oracle, Operators, P("accountingOracle"), P("validatorsExitBusOracle"),
                           P("withdrawalQueueERC721"), P("stakingRouter")} : "initialize" \in Calls(ref)
            /\ {"setFirst", "setSecond"} \subseteq Calls(A("oracleDaemonConfig"))
            /\ "addStakingModule" \in Calls(P("stakingRouter"))
            /\ \A ref \in {A("gateSeal"), P("accountingOracle"), Catalist, A("depositSecurityModule")} :
                    \E on \in {P("stakingRouter"), P("withdrawalQueueERC721")} : \E held \in Roles(on) : held[2] = file[ref]
            /\ \A c \in Recorded : \A role \in {"MANAGE_TOKEN_URI_ROLE", "CONFIG_MANAGER_ROLE", "STAKING_MODULE_MANAGE_ROLE"} :
                    <<role, Deployer>> \notin chain[c].roles
            /\ getContracts \subseteq DOMAIN file

\* A script fails when it is run again only if it is one of those that send a
\* transaction that cannot be repeated: 07 and 09 to 10, 12, 15, 16, 18 (and the
\* last one, on a node that reports reverts), or if the process that died left a
\* malformed state file.  On such a file no script gets beyond its first operation,
\* so none of them sends a transaction or writes the file: only a start from the
\* top repairs it.
Unrepeatable == {8, 10, 11, 13, 16, 17, 19, InitScript}
RerunsRepair ==
    /\ status = "failed" /\ repeated => script \in Unrepeatable \/ file = Malformed
    /\ status = "running" /\ file = Malformed => step = 1

\* A protocol that was put to work works: pool, queue and exit bus run, both
\* committees have a quorum and a first frame, deposits have a guardian.  A revert in
\* between is not noticed, so nothing else makes sure of it.  On a fork of any
\* deployment the acceptance test goes through to the claim, and no program that puts
\* the protocol to work fails the first time, if the state file can be read.
Operational ==
    /\ status = "failed" /\ script = InitScript => repeated \/ file = Malformed
    /\ status = "done" /\ env.network = "fork" => "claimWithdrawalsTo" \in chain[file[Queue]].calls
    /\ status = "done" /\ env.network # "fork" =>
        /\ \A ref \in {Catalist, Queue, P("validatorsExitBusOracle")} : "resume" \in chain[file[ref]].calls
        /\ \A ref \in {Consensus, A("hashConsensusForValidatorsExitBusOracle")} :
                {"addMember", "updateInitialEpoch"} \subseteq chain[file[ref]].calls
        /\ "addGuardian" \in chain[file[A("depositSecurityModule")]].calls

\* With finitely many deaths of processes, wherever they leave the state file, the
\* deployment is finished some time.
EventuallyDeployed == <>Deployed
=============================================================================
