--------------------------- MODULE OperatorTasks ---------------------------
(***************************************************************************)
(* The hardhat tasks of task/task.js that send transactions, and the       *)
(* script mainnet-upgradable-aragon.js: programs of the deployer that send *)
(* one transaction after the other with a fixed amount of gas and wait for *)
(* none of them.  The transactions are mined in the order sent, at any     *)
(* later time; one that reverts is not noticed.  A program may die between *)
(* two of them, and is run again with its parameters.                      *)
(***************************************************************************)
EXTENDS NodeOperatorsRegistry

CONSTANTS Programs,             \* what the operator runs: sequences of transactions
          File,                 \* the keys of the file of deposit data, in order
          MaxProgramRuns

VARIABLES program,              \* the transactions of the run and how many are sent
          pending,              \* transactions not mined yet
          settings,             \* the contracts beside the registry the tasks change
          outcome               \* history: reverts, and the keys of the file mined

tasksVars == <<program, pending, settings, outcome>>

Transactions == UNION {Range(plan) : plan \in Programs}

Transaction(to, function, args) == [to |-> to, function |-> function, args |-> args]
Registry(function, args) == Transaction("NodeOperatorsRegistry", function, args)

\* The parameters a task passes on are of the kind it declares.
HasArguments(tx) ==
    /\ tx.function = "setNodeOperatorRewardAddress" => tx.args[2] \in Names
    /\ tx.function = "setNodeOperatorStakingLimit"  => tx.args[2] \in Nat
    /\ tx.function = "addNodeOperator"              => tx.args[1] \in Names /\ tx.args[2] \in Names
    /\ tx.function = "removeSigningKeys"            => tx.args[2] \in Nat /\ tx.args[3] \in Nat
    /\ tx.function = "addSigningKeys"               => tx.args[2] \in Seq(SigningKeys)

ASSUME TasksAssumption ==
    Programs \subseteq Seq(Transactions) /\ \A tx \in Transactions : HasArguments(tx)

-----------------------------------------------------------------------------
(* The programs *)

setFrameConfig(epochs) ==
    << Transaction("HashConsensusForAccountingOracle", "setFrameConfig", <<epochs>>),
       Transaction("HashConsensusForValidatorsExitBusOracle", "setFrameConfig", <<epochs>>) >>

setRewardAddress(operator, address) == << Registry("setNodeOperatorRewardAddress", <<operator, address>>) >>

\* Without a limit everything the operator has is approved, and what is added
\* before the transaction is mined.
setStakingLimit(operator, limit) ==
    << Registry("setNodeOperatorStakingLimit", <<operator, IF limit = 0 THEN 1000000000 ELSE limit>>) >>

addOperator(name, address) ==
    << Registry("addNodeOperator", <<name, address>>), Registry("setOwner", <<address, TRUE>>) >>

\* Every iteration removes at the same index; the log line names the next one.
removeKeys(operator, index, count, iter) ==
    [i \in 1..iter |-> Registry("removeSigningKeys", <<operator, index, count>>)]

\* Array.prototype.splice on a copy: the items from `start`, `count` at most.
Spliced(start, count) == SubSeq(File, start + 1, Math256_min(start + count, Len(File)))

\* A bug: the parts overlap.
SpliceOfOverlapping(start, count, i) == Spliced(start + i, count)

\* The part of the file an iteration takes.
SpliceOf(start, count, i) == Spliced(start + count * i, count)

\* The file in parts; the first empty part ends the program.  A count that is
\* not given is the length of the file.
addKeys(operator, start, count, iter) ==
    LET size  == IF count = 0 THEN Len(File) ELSE count
        part  == [i \in 1..iter |-> SpliceOf(start, size, i - 1)]
        first == {i \in 1..iter : part[i] = <<>>}
        last  == IF first = {} THEN iter ELSE Min(first) - 1
    IN  [i \in 1..last |-> Registry("addSigningKeys", <<operator, part[i]>>)]

AddsKeys(plan) == \E k \in DOMAIN plan : plan[k].function = "addSigningKeys"

\* Keys are added by the task alone.  Iterations whose part is empty send
\* nothing, and a count past the end of the file is as good as its length.
ASSUME FileAssumption ==
    /\ File \in Seq(SigningKeys)
    /\ \A plan \in Programs : AddsKeys(plan) =>
           \E start, count \in 0..Len(File) : plan = addKeys(plan[1].args[1], start, count, Len(plan))

grantAppManager == Transaction("AragonAcl", "grantPermission", <<>>)

upgradeNos(address) == << grantAppManager, Transaction("AragonKernel", "setApp", <<"NodeOperatorsRegistry", address>>) >>

\* The address is a constant of the script, not the one it has just deployed.
upgradeCatalist ==
    << grantAppManager, Transaction("Catalist", "deploy", <<>>),
       Transaction("AragonKernel", "setApp", <<"Catalist", "NEW_CATALIST_ADDRESS">>) >>

-----------------------------------------------------------------------------
(* The programs run *)

TasksInit(plans) ==
    /\ \E plan \in plans : program = [plan |-> plan, sent |-> 0, runs |-> 1]
    /\ pending = <<>>
    /\ settings = [accounting |-> 0, exitBus |-> 0, appManager |-> FALSE, bases |-> <<"v1", "v1">>, deployed |-> 0]
    /\ outcome = [reverts |-> 0, added |-> <<>>]

Send ==
    /\ program.sent < Len(program.plan)
    /\ pending' = Append(pending, program.plan[program.sent + 1])
    /\ program' = [program EXCEPT !.sent = @ + 1]
    /\ UNCHANGED <<registryVars, settings, outcome>>

\* The program has ended, or has died, and is run again, or another one is.
RunProgram ==
    /\ program.runs < MaxProgramRuns
    /\ \E plan \in Programs : program' = [plan |-> plan, sent |-> 0, runs |-> program.runs + 1]
    /\ UNCHANGED <<registryVars, pending, settings, outcome>>

-----------------------------------------------------------------------------
(* The transactions mined, and what each does where it goes *)

Mined(tx) == outcome' = IF tx.function = "addSigningKeys" THEN [outcome EXCEPT !.added = @ \o tx.args[2]] ELSE outcome

CallRegistry(tx) ==
    /\ tx.to = "NodeOperatorsRegistry"
    /\ \/ tx.function = "setNodeOperatorRewardAddress" /\ setNodeOperatorRewardAddress(tx.args[1], tx.args[2])
       \/ tx.function = "setNodeOperatorStakingLimit" /\ setNodeOperatorStakingLimit(Deployer, tx.args[1], tx.args[2])
       \/ tx.function = "addNodeOperator" /\ addNodeOperator(Deployer, tx.args[1], tx.args[2])
       \/ tx.function = "setOwner" /\ setOwner(Deployer, tx.args[1], tx.args[2])
       \/ tx.function = "removeSigningKeys" /\ removeSigningKeys(Deployer, tx.args[1], tx.args[2], tx.args[3])
       \/ tx.function = "addSigningKeys" /\ addSigningKeys(Deployer, tx.args[1], tx.args[2])
    /\ UNCHANGED settings

SetFrameConfig(tx) ==
    /\ tx.function = "setFrameConfig"
    /\ settings' = IF tx.to = "HashConsensusForAccountingOracle"
                   THEN [settings EXCEPT !.accounting = tx.args[1]]
                   ELSE [settings EXCEPT !.exitBus = tx.args[1]]
    /\ UNCHANGED registryVars

\* The permission is asked for; the base of an app is changed with it.
GrantPermission(tx) ==
    /\ tx.function = "grantPermission"
    /\ settings' = [settings EXCEPT !.appManager = TRUE]
    /\ UNCHANGED registryVars

DeployCatalist(tx) ==
    /\ tx.function = "deploy"
    /\ settings' = [settings EXCEPT !.deployed = @ + 1]
    /\ UNCHANGED registryVars

SetApp(tx) ==
    /\ tx.function = "setApp" /\ settings.appManager
    /\ settings' = [settings EXCEPT !.bases = IF tx.args[1] = "Catalist" THEN <<tx.args[2], @[2]>> ELSE <<@[1], tx.args[2]>>]
    /\ UNCHANGED registryVars

Execute(tx) == CallRegistry(tx) \/ SetFrameConfig(tx) \/ GrantPermission(tx) \/ DeployCatalist(tx) \/ SetApp(tx)

Mine ==
    /\ pending # <<>>
    /\ pending' = Tail(pending)
    /\ Execute(Head(pending)) /\ Mined(Head(pending))
    /\ UNCHANGED program

\* The conditions of the registry's calls, under which a transaction goes through.
Accepted(tx) ==
    LET id == tx.args[1]
        op == nodeOperators[id]
    IN  CASE tx.function = "setNodeOperatorRewardAddress" -> id \in Ids /\ op.rewardAddress # tx.args[2]
          [] tx.function = "setNodeOperatorStakingLimit"  -> Deployer \in owners /\ id \in Ids /\ op.active
          [] tx.function = "addNodeOperator"              -> Deployer \in owners
          [] tx.function = "setOwner"                     -> Deployer \in owners
          [] tx.function = "removeSigningKeys"            ->
                 /\ Deployer \in owners /\ id \in Ids /\ op.active
                 /\ tx.args[2] >= op.deposited /\ tx.args[2] + tx.args[3] <= op.total
          [] tx.function = "addSigningKeys"               -> Deployer \in owners /\ id \in Ids /\ op.active
          [] tx.function = "setApp"                       -> settings.appManager
          [] OTHER                                        -> TRUE

\* It reverts, and nobody looks.
MineReverted ==
    /\ pending # <<>> /\ ~ Accepted(Head(pending))
    /\ pending' = Tail(pending)
    /\ outcome' = [outcome EXCEPT !.reverts = @ + 1]
    /\ UNCHANGED <<registryVars, program, settings>>

-----------------------------------------------------------------------------

(***************************************************************************)
(* One run of add-keys none of whose transactions reverts puts the keys of *)
(* the file on chain from the first one asked for on, each once and in     *)
(* order, whoever else changes the operator meanwhile and wherever the     *)
(* program dies: nothing is skipped and nothing comes twice.               *)
(***************************************************************************)
FileKeysAddedOnce ==
    program.runs = 1 /\ outcome.reverts = 0 =>
        LET plan  == program.plan
            keys  == [k \in DOMAIN plan |-> IF plan[k].function = "addSigningKeys" THEN plan[k].args[2] ELSE <<>>]
            start == {i \in DOMAIN File : keys # <<>> /\ keys[1] # <<>> /\ File[i] = keys[1][1]}
        IN  \/ outcome.added = <<>>
            \/ \E i \in start : IsPrefix(outcome.added, SubSeq(File, i, Len(File)))
=============================================================================
