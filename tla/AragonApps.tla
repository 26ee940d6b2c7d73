----------------------------- MODULE AragonApps -----------------------------
(***************************************************************************)
(* The background scripts of two of the Aragon apps: the one of the node   *)
(* operators registry and the one of the pool (apps/lido).  Each keeps a   *)
(* cache of what its contract's views return: it reads every view when a   *)
(* session starts and one of them again when an event arrives that a table *)
(* names for it.  A call is asked, answered from the chain as it is at     *)
(* some later moment, and may fail; events keep arriving meanwhile and     *)
(* wait in order.  A session may end at any time; the next one starts from *)
(* the cached state and is sent what was not handled yet.                  *)
(*                                                                         *)
(* A read is <<view, 0>>, or <<"nodeOperator", i>> for one operator; views *)
(* whose values never change and are never refreshed are one read.         *)
(***************************************************************************)
EXTENDS NodeOperatorsRegistry

CONSTANTS Undefined,            \* what a rejected call leaves behind
          MaxFailures,          \* calls that fail
          MaxSessions,
          MaxPoolChanges

VARIABLES app,                  \* the script
          pool                  \* what the pool's views return

appVars == <<app, pool>>

NoAnswers == <<>>
View(name) == <<name, 0>>
Operator(i) == <<"nodeOperator", i>>

\* The function f with a value for one more argument, or another one.
Put(f, x, y) == [z \in DOMAIN f \cup {x} |-> IF z = x THEN y ELSE f[z]]

\* The marks around what a session catches up with, and the events without them.
Marks == {"SYNC_STATUS_SYNCING", "SYNC_STATUS_SYNCED"}

WithoutMarks(events) ==
    LET left[k \in 0..Len(events)] ==
            IF k = 0 THEN <<>> ELSE IF events[k] \in Marks THEN left[k - 1] ELSE Append(left[k - 1], events[k])
    IN  left[Len(events)]

-----------------------------------------------------------------------------
(* The tables *)

Variable(key, events) == [key |-> key, updateEvents |-> events]

\* A bug: the operators are not read again when one is switched on or off.
registryVariablesWithoutActive ==
    << Variable("stakingModuleSummary", {"VettedSigningKeysCountChanged", "DepositedSigningKeysCountChanged",
                                         "ExitedSigningKeysCountChanged", "TotalSigningKeysCountChanged",
                                         "StuckValidatorsCountChanged", "RefundedValidatorsCountChanged"}),
       Variable("nonce", {"KeysOpIndexSet", "NonceChanged"}),
       Variable("nodeOperators", {"NodeOperatorAdded", "NodeOperatorNameSet", "NodeOperatorRewardAddressSet",
                                  "NodeOperatorTotalKeysTrimmed"}) >>

\* The variables of the registry's script some event refreshes.
registryVariables ==
    << Variable("stakingModuleSummary", {"VettedSigningKeysCountChanged", "DepositedSigningKeysCountChanged",
                                         "ExitedSigningKeysCountChanged", "TotalSigningKeysCountChanged",
                                         "StuckValidatorsCountChanged", "RefundedValidatorsCountChanged"}),
       Variable("nonce", {"KeysOpIndexSet", "NonceChanged"}),
       Variable("nodeOperators", {"NodeOperatorAdded", "NodeOperatorActiveSet", "NodeOperatorNameSet",
                                  "NodeOperatorRewardAddressSet", "NodeOperatorTotalKeysTrimmed"}) >>

\* Read in the beginning only, and shown then: the counts of operators, delay,
\* type, initialization, version.  The locator stands for all of them.
registryConstants == {"locator"}

poolVariables ==
    << Variable("isStopped", {"Resumed", "Stopped"}),
       Variable("bufferedEther", {"Unbuffered"}),
       Variable("totalELRewardsCollected", {"ELRewardsReceived"}),
       Variable("beaconStat", {"CLValidatorsUpdated", "DepositedValidatorsChanged"}),
       Variable("stakeLimitFullInfo", {"StakingPaused", "StakingResumed", "StakingLimitSet", "StakingLimitRemoved"}) >>

\* Read in the beginning only, or set in the beginning only: the other getters
\* and the version.  The locator, which the script uses, stands for all of them.
poolConstants == {"lidoLocator"}

\* What the registry's script reads from the router in the beginning: the
\* digests of the modules; one read stands for the settings and shares.
stakingRouterViews == {"stakingModuleDigests", "stakingRouterSettings"}

\* What the pool's script reads from the locator in the beginning.
locatorVariables ==
    {"accountingOracle", "burner", "depositSecurityModule", "elRewardsVault", "lido", "oracleDaemonConfig",
     "oracleReportSanityChecker", "postTokenRebaseReceiver", "stakingRouter", "validatorsExitBusOracle",
     "withdrawalQueue", "withdrawalVault"}

\* The getters the scripts call and the contract does not have any more.
missingViews == {"bufferedEther", "lidoLocator"}

Variables == IF app.of = "registry" THEN registryVariables ELSE poolVariables

\* The variable an event refreshes: the first that names it; "" for none.
Refreshed(event) ==
    LET k == SelectInSeq(Variables, LAMBDA v : event \in v.updateEvents)
    IN  IF k = 0 THEN "" ELSE Variables[k].key

-----------------------------------------------------------------------------
(* Calls *)

Answer(read) ==
    IF app.of = "pool"
    THEN CASE read[1] \in missingViews -> Undefined
           [] OTHER                    -> pool[read[1]]
    ELSE CASE read[1] = "stakingModuleSummary"     -> getStakingModuleSummary
           [] read[1] = "nonce"                    -> nonce
           [] read[1] = "nodeOperators"            -> Len(nodeOperators)
           [] read[1] = "nodeOperator"             -> getNodeOperator(read[2])
           [] read[1] \in {"locator", "stakingRouterSettings"} -> TRUE
           [] read[1] = "stakingModuleDigests"     -> getStakingModuleSummary

\* The operators are read one by one once their number is known.
Follow(read, answer) ==
    IF app.of = "registry" /\ read[1] = "nodeOperators" /\ answer # Undefined THEN {Operator(i) : i \in 1..answer} ELSE {}

Answered(read, answer) ==
    app' = [app EXCEPT !.asked = (@ \ {read}) \cup Follow(read, answer), !.answers = Put(@, read, answer)]

\* The node answers with the chain as it is.
CallAnswered(read) == read \in app.asked /\ Answered(read, Answer(read))

\* The node does not answer, or not in time.
CallFails(read) ==
    /\ read \in app.asked /\ app.failures < MaxFailures
    /\ app' = [app EXCEPT !.asked = @ \ {read}, !.answers = Put(@, read, Undefined), !.failures = @ + 1]

\* The value of a variable once its calls are settled.
Fetched(key) ==
    LET answer == app.answers[View(key)]
    IN  IF app.of = "registry" /\ key = "nodeOperators" /\ answer # Undefined
        THEN [i \in 1..answer |-> app.answers[Operator(i)]]
        ELSE answer

-----------------------------------------------------------------------------
(* A session *)

Keys(table) == {table[k].key : k \in DOMAIN table}
registryViews == Keys(registryVariables) \cup registryConstants
poolViews == Keys(poolVariables) \cup poolConstants

\* What a session is sent: what was not handled, between the two marks.
Session(unhandled) == <<"SYNC_STATUS_SYNCING">> \o unhandled \o <<"SYNC_STATUS_SYNCED">>

\* The script starts: every view is asked at once.
AppStart(of) ==
    /\ app = [of |-> of, at |-> "init", key |-> "", event |-> "", failures |-> 0, sessions |-> 1,
              asked |-> {View(v) : v \in IF of = "registry" THEN registryViews ELSE poolViews},
              answers |-> NoAnswers, state |-> <<>>]
    /\ pool = [isStopped |-> TRUE, totalELRewardsCollected |-> 0, beaconStat |-> 0, stakeLimitFullInfo |-> 0]

RunsOf(of) == app.of = of /\ app.asked = {}

\* The registry's script has its views: the router's address comes from the
\* locator, and without one the promise is rejected and the app has no state.
RegistryVariablesSettled ==
    /\ RunsOf("registry") /\ app.at = "init"
    /\ app' = IF app.answers[View("locator")] = Undefined
              THEN [app EXCEPT !.at = "rejected"]
              ELSE [app EXCEPT !.at = "router", !.asked = {View(v) : v \in stakingRouterViews}]
    /\ UNCHANGED <<pool, log>>

\* Then the router's; the global digest needs the digests of its modules.
\* What was read is kept apart, under `curated` and `stakingRouter`, where no
\* event refreshes it, and is left out here.
RegistryInitialized ==
    /\ RunsOf("registry") /\ app.at = "router"
    /\ app' = IF app.answers[View("stakingModuleDigests")] = Undefined
              THEN [app EXCEPT !.at = "rejected"]
              ELSE [app EXCEPT !.at = "ready", !.answers = NoAnswers]
    /\ UNCHANGED <<pool, log>>

\* The pool's script keeps what was read where the events refresh it.  The
\* addresses it then asks the locator for are undefined: so is the locator.
PoolInitialized ==
    /\ RunsOf("pool") /\ app.at = "init"
    /\ app' = [app EXCEPT !.at = "ready", !.answers = NoAnswers,
                          !.state = [key \in locatorVariables \cup poolViews \cup DOMAIN @ |->
                                        IF key \in locatorVariables THEN Undefined
                                        ELSE IF key \in poolViews THEN Fetched(key) ELSE @[key]]]
    /\ UNCHANGED <<pool, log>>

\* The next event: a mark, one that refreshes a variable, or any other.
TakeEvent(of) ==
    /\ RunsOf(of) /\ app.at = "ready" /\ log # <<>>
    /\ log' = Tail(log)
    /\ LET event == Head(log)
           key   == Refreshed(event)
       IN  app' = IF event \in Marks
                  THEN [app EXCEPT !.state = Put(@, "isSyncing", event = "SYNC_STATUS_SYNCING")]
                  ELSE IF key = "" THEN app
                  ELSE [app EXCEPT !.at = "fetching", !.key = key, !.event = event, !.asked = {View(key)}]
    /\ UNCHANGED pool

\* The variable was fetched.  When its call failed the reducer returns nothing,
\* and the whole state with it.
StoreFetched(of) ==
    /\ RunsOf(of) /\ app.at = "fetching"
    /\ app' = [app EXCEPT !.at = "ready", !.key = "", !.event = "", !.answers = NoAnswers,
                          !.state = IF Fetched(app.key) = Undefined THEN <<>> ELSE Put(@, app.key, Fetched(app.key))]
    /\ UNCHANGED <<pool, log>>

RegistryReducer == TakeEvent("registry") \/ StoreFetched("registry")
PoolReducer == TakeEvent("pool") \/ StoreFetched("pool")

\* The tab is closed and opened again, with the state of the last handled event.
Restart ==
    /\ app.sessions < MaxSessions
    /\ app' = [app EXCEPT !.at = "init", !.key = "", !.event = "", !.sessions = @ + 1,
                          !.asked = {View(v) : v \in IF app.of = "registry" THEN registryViews ELSE poolViews},
                          !.answers = NoAnswers]
    /\ log' = Session((IF app.event = "" THEN <<>> ELSE <<app.event>>) \o WithoutMarks(log))
    /\ UNCHANGED pool

-----------------------------------------------------------------------------
(* The pool's operations, as far as its views and events go *)

PoolCall(changed, events) ==
    /\ MaxPoolChanges > pool.totalELRewardsCollected + pool.beaconStat + pool.stakeLimitFullInfo
    /\ pool' = [view \in DOMAIN pool |->
                  IF view \notin changed THEN pool[view]
                  ELSE IF view = "isStopped" THEN ~ pool[view] ELSE pool[view] + 1]
    /\ Emit(events)
    /\ UNCHANGED app

resume == pool.isStopped /\ PoolCall({"isStopped", "stakeLimitFullInfo"}, <<"Resumed", "StakingResumed">>)
stop == ~ pool.isStopped /\ PoolCall({"isStopped", "stakeLimitFullInfo"}, <<"Stopped", "StakingPaused">>)
submit == ~ pool.isStopped /\ PoolCall({"stakeLimitFullInfo"}, <<"Submitted">>)
receiveELRewards == ~ pool.isStopped /\ PoolCall({"totalELRewardsCollected"}, <<"ELRewardsReceived">>)
depositOfPool == ~ pool.isStopped /\ PoolCall({"beaconStat"}, <<"Unbuffered", "DepositedValidatorsChanged">>)
handleOracleReport(appeared) ==
    ~ pool.isStopped /\ PoolCall({"beaconStat"}, EventIf(appeared, "CLValidatorsUpdated"))

-----------------------------------------------------------------------------

\* The part of a variable every change of which has an event that refreshes it.
Announced(key, value) ==
    CASE key = "nonce"                -> value = nonce
      [] key = "stakingModuleSummary" -> value.exited = summary.exited /\ value.deposited = summary.deposited
      [] key = "nodeOperators"        ->
             /\ Len(value) = Len(nodeOperators)
             /\ \A i \in Ids : value[i] # Undefined =>
                    /\ value[i].active = nodeOperators[i].active
                    /\ value[i].name = nodeOperators[i].name
                    /\ value[i].rewardAddress = nodeOperators[i].rewardAddress
      [] key \in {"isStopped", "totalELRewardsCollected"} -> value = pool[key]
      [] OTHER                        -> TRUE

(***************************************************************************)
(* What a script shows for a variable is what the contract has, or news of *)
(* the change is on its way: through calls answered late and out of order, *)
(* events that arrive while others are handled, failed calls and sessions  *)
(* that end in the middle, no announced change is lost for good.           *)
(***************************************************************************)
CacheIsFreshOrPending ==
    app.at \in {"ready", "fetching"} =>
        \A key \in DOMAIN app.state :
            \/ app.state[key] = Undefined \/ Announced(key, app.state[key])
            \/ app.key = key
            \/ \E k \in DOMAIN log : Refreshed(log[k]) = key
=============================================================================
