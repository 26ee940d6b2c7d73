----------------------- MODULE NodeOperatorsRegistry -----------------------
(***************************************************************************)
(* The curated staking module, the contract NodeOperatorsRegistry: the     *)
(* operators, their signing keys and the counters over them, the penalty   *)
(* for stuck validators, the allocation of keys to deposits and the nonce  *)
(* that guardians attest to.  Packed storage words are records; a key and  *)
(* its signature are one value.  Operators are numbered from 1 here and    *)
(* from 0 in the code; the first key of an operator has index 0 in both.   *)
(*                                                                         *)
(* The operators' roles (MANAGE_NODE_OPERATOR_ROLE, STAKING_ROUTER_ROLE)   *)
(* are held by fixed accounts and appear only as who calls; the owners of  *)
(* the contract change and are a variable.                                 *)
(***************************************************************************)
EXTENDS MinFirstAllocation, Sequences, SequencesExt

CONSTANTS Accounts,             \* accounts that may own the contract
          Deployer,             \* the account that initialized it
          Names,                \* names of operators, and their reward addresses
          SigningKeys,          \* keys with their signatures
          StuckPenaltyDelay,    \* seconds a penalty outlasts its cause
          V1Storages,           \* storages an upgrade from version 1 starts from
          Storages,             \* registries some time after their deployment
          MaxOperators, MaxKeys, MaxNonce, MaxTime   \* bounds of the counters

NodeOperator ==
    [active : BOOLEAN, name : Names, rewardAddress : Names,
     exited : Nat, deposited : Nat, vetted : Nat, total : Nat, max : Nat,
     stuck : Nat, refunded : Nat, penaltyEnd : Nat, targetActive : BOOLEAN, target : Nat]

\* A storage with operators, keys and a nonce, and no penalty or target yet.
IsStorage(s) ==
    /\ s.operators \in Seq(NodeOperator) /\ s.keys \in Seq(Seq(SigningKeys)) /\ s.nonce \in Nat
    /\ Len(s.keys) = Len(s.operators)
    /\ \A i \in DOMAIN s.operators :
           LET op == s.operators[i]
           IN  /\ op.exited <= op.deposited /\ op.deposited <= op.total /\ op.total = Len(s.keys[i])
               /\ op.stuck = 0 /\ op.refunded = 0 /\ op.penaltyEnd = 0 /\ ~ op.targetActive

ASSUME RegistryAssumption ==
    /\ Deployer \in Accounts
    /\ StuckPenaltyDelay \in Nat
    /\ {MaxOperators, MaxKeys, MaxNonce, MaxTime} \subseteq Nat
    /\ \A s \in V1Storages \cup Storages : IsStorage(s)
    /\ \A s \in Storages : \A i \in DOMAIN s.operators :
           LET op == s.operators[i]
           IN  op.deposited <= op.vetted /\ op.vetted <= op.total /\ (~ op.active => op.vetted = op.deposited)

VARIABLES nodeOperators,        \* the operators and their counters
          signingKeys,          \* the keys of each operator, the deposited ones first
          summary,              \* sums of four counters over the operators
          nonce,                \* KEYS_OP_INDEX
          activeOperatorsCount,
          owners,
          now,                  \* block.timestamp
          log,                  \* names of the events emitted and not yet delivered
          listening,            \* whether anything subscribes to the events
          approved              \* history: an operator's keys when its limit was last set

registryVars == <<nodeOperators, signingKeys, summary, nonce, activeOperatorsCount, owners, now, log, listening, approved>>

Ids == 1..Len(nodeOperators)

NewOperator(name, rewardAddress) ==
    [active |-> TRUE, name |-> name, rewardAddress |-> rewardAddress,
     exited |-> 0, deposited |-> 0, vetted |-> 0, total |-> 0, max |-> 0,
     stuck |-> 0, refunded |-> 0, penaltyEnd |-> 0, targetActive |-> FALSE, target |-> 0]

-----------------------------------------------------------------------------
(* Penalties and limits *)

isOperatorPenalized(op) == op.refunded < op.stuck \/ now <= op.penaltyEnd

isOperatorPenaltyCleared(op) == ~ isOperatorPenalized(op) /\ op.penaltyEnd = 0

\* The validators an operator may have, deposited ones included.
applyNodeOperatorLimits(op) ==
    IF ~ isOperatorPenaltyCleared(op) THEN op.deposited
    ELSE IF op.targetActive
    THEN Math256_max(op.deposited, Math256_min(op.vetted, op.exited + op.target))
    ELSE op.vetted

Limited(op) == [op EXCEPT !.max = applyNodeOperatorLimits(op)]

-----------------------------------------------------------------------------
(* What every handler does in the end: store the operators it changed, move *)
(* the sums by the differences, raise the nonce, emit.                      *)

\* A sum over the operators of their entries in `values`.
Total(values) == MapThenSumSet(LAMBDA i : values[i], DOMAIN values)

Counter(f) == [i \in Ids |-> nodeOperators[i][f]]

\* One changed operator.
Only(id, op) == [i \in {id} |-> op]

\* `new` holds the changed operators by id; `fields` are the sums the handler moves.
Store(new, fields) ==
    /\ nodeOperators' = [i \in Ids |-> IF i \in DOMAIN new THEN new[i] ELSE nodeOperators[i]]
    /\ summary' = [f \in DOMAIN summary |->
                     IF f \in fields THEN summary[f] + Total([i \in DOMAIN new |-> new[i][f] - nodeOperators[i][f]])
                     ELSE summary[f]]

increaseValidatorsKeysNonce ==
    /\ nonce < MaxNonce
    /\ nonce' = nonce + 1

NonceEvents == <<"KeysOpIndexSet", "NonceChanged">>

Emit(events) == log' = IF listening THEN log \o events ELSE log

\* The event of a change of one counter, none when it did not change.
EventIf(changed, event) == IF changed THEN <<event>> ELSE <<>>

-----------------------------------------------------------------------------
(* Initial states *)

EmptySummary == [max |-> 0, deposited |-> 0, exited |-> 0, total |-> 0]

\* A fresh contract.
initialize ==
    /\ nodeOperators = <<>> /\ signingKeys = <<>>
    /\ summary = EmptySummary
    /\ nonce = 0 /\ activeOperatorsCount = 0
    /\ owners = {Deployer}
    /\ approved = <<>>

\* The staking limit a version 1 operator keeps.
VettedAfterUpgrade(op) ==
    IF ~ op.active THEN op.deposited
    ELSE Math256_min(op.total, Math256_max(op.deposited, op.vetted))

\* A storage of version 1 upgraded: the limits are cut to the keys there are,
\* the sums computed.  Nobody is an owner, and nobody can become one.
finalizeUpgrade_v2 ==
    \E v1 \in V1Storages :
        /\ nodeOperators = [i \in DOMAIN v1.operators |->
                              LET vetted == VettedAfterUpgrade(v1.operators[i])
                              IN  [v1.operators[i] EXCEPT !.vetted = vetted, !.max = vetted]]
        /\ signingKeys = v1.keys
        /\ summary = [f \in DOMAIN EmptySummary |-> Total(Counter(f))]
        /\ nonce = v1.nonce + 1
        /\ activeOperatorsCount = Cardinality({i \in Ids : nodeOperators[i].active})
        /\ owners = {}
        /\ approved = [i \in Ids |-> SubSeq(signingKeys[i], 1, nodeOperators[i].vetted)]

\* A registry in operation: the deployer has added operators and keys and set
\* limits.  It saves the runs the first steps.
inOperation ==
    \E s \in Storages :
        /\ nodeOperators = [i \in DOMAIN s.operators |-> [s.operators[i] EXCEPT !.max = s.operators[i].vetted]]
        /\ signingKeys = s.keys
        /\ summary = [f \in DOMAIN EmptySummary |-> Total(Counter(f))]
        /\ nonce = s.nonce
        /\ activeOperatorsCount = Cardinality({i \in Ids : nodeOperators[i].active})
        /\ owners = {Deployer}
        /\ approved = [i \in Ids |-> SubSeq(signingKeys[i], 1, nodeOperators[i].vetted)]

RegistryInit ==
    /\ initialize \/ finalizeUpgrade_v2 \/ inOperation
    /\ now = 1

-----------------------------------------------------------------------------
(* Operators *)

addNodeOperator(caller, name, rewardAddress) ==
    /\ caller \in owners
    /\ Len(nodeOperators) < MaxOperators
    /\ nodeOperators' = Append(nodeOperators, NewOperator(name, rewardAddress))
    /\ signingKeys' = Append(signingKeys, <<>>)
    /\ approved' = Append(approved, <<>>)
    /\ activeOperatorsCount' = activeOperatorsCount + 1
    /\ Emit(<<"NodeOperatorAdded">>)
    /\ UNCHANGED <<summary, nonce, owners, now, listening>>

activateNodeOperator(id) ==
    /\ id \in Ids /\ ~ nodeOperators[id].active
    /\ nodeOperators' = [nodeOperators EXCEPT ![id].active = TRUE]
    /\ activeOperatorsCount' = activeOperatorsCount + 1
    /\ increaseValidatorsKeysNonce
    /\ Emit(<<"NodeOperatorActiveSet">> \o NonceEvents)
    /\ UNCHANGED <<signingKeys, summary, owners, now, listening, approved>>

\* The keys not yet deposited lose their approval.
deactivateNodeOperator(id) ==
    /\ id \in Ids /\ nodeOperators[id].active
    /\ LET op  == nodeOperators[id]
           cut == op.vetted > op.deposited
           off == [op EXCEPT !.active = FALSE]
       IN  /\ Store(Only(id, IF cut THEN Limited([off EXCEPT !.vetted = op.deposited]) ELSE off), {"max"})
           /\ Emit(<<"NodeOperatorActiveSet">> \o EventIf(cut, "VettedSigningKeysCountChanged") \o NonceEvents)
    /\ activeOperatorsCount' = activeOperatorsCount - 1
    /\ increaseValidatorsKeysNonce
    /\ UNCHANGED <<signingKeys, owners, now, listening, approved>>

setNodeOperatorName(id, name) ==
    /\ id \in Ids /\ nodeOperators[id].name # name
    /\ nodeOperators' = [nodeOperators EXCEPT ![id].name = name]
    /\ Emit(<<"NodeOperatorNameSet">>)
    /\ UNCHANGED <<signingKeys, summary, nonce, activeOperatorsCount, owners, now, listening, approved>>

setNodeOperatorRewardAddress(id, rewardAddress) ==
    /\ id \in Ids /\ nodeOperators[id].rewardAddress # rewardAddress
    /\ nodeOperators' = [nodeOperators EXCEPT ![id].rewardAddress = rewardAddress]
    /\ Emit(<<"NodeOperatorRewardAddressSet">>)
    /\ UNCHANGED <<signingKeys, summary, nonce, activeOperatorsCount, owners, now, listening, approved>>

\* The limit, brought between the deposited and the present keys; a call that
\* changes nothing returns early and leaves the nonce.
StakingLimit(op, limit) == Math256_min(op.total, Math256_max(limit, op.deposited))

\* A bug: the limit changes what may be deposited and the nonce stays.
setNodeOperatorStakingLimitSilently(caller, id, limit) ==
    /\ caller \in owners
    /\ id \in Ids /\ nodeOperators[id].active
    /\ LET op     == nodeOperators[id]
           vetted == StakingLimit(op, limit)
       IN  /\ Store(Only(id, Limited([op EXCEPT !.vetted = vetted])), {"max"})
           /\ approved' = [approved EXCEPT ![id] = SubSeq(signingKeys[id], 1, vetted)]
           /\ UNCHANGED <<signingKeys, nonce, activeOperatorsCount, owners, now, log, listening>>

setNodeOperatorStakingLimit(caller, id, limit) ==
    /\ caller \in owners
    /\ id \in Ids /\ nodeOperators[id].active
    /\ LET op     == nodeOperators[id]
           vetted == StakingLimit(op, limit)
       IN  IF vetted = op.vetted THEN UNCHANGED registryVars
           ELSE /\ Store(Only(id, Limited([op EXCEPT !.vetted = vetted])), {"max"})
                /\ approved' = [approved EXCEPT ![id] = SubSeq(signingKeys[id], 1, vetted)]
                /\ increaseValidatorsKeysNonce
                /\ Emit(<<"VettedSigningKeysCountChanged">> \o NonceEvents)
                /\ UNCHANGED <<signingKeys, activeOperatorsCount, owners, now, listening>>

setOwner(caller, account, status) ==
    /\ caller \in owners
    /\ owners' = IF status THEN owners \cup {account} ELSE owners \ {account}
    /\ UNCHANGED <<nodeOperators, signingKeys, summary, nonce, activeOperatorsCount, now, log, listening, approved>>

-----------------------------------------------------------------------------
(* Signing keys *)

addSigningKeys(caller, id, keys) ==
    /\ caller \in owners
    /\ id \in Ids /\ nodeOperators[id].active
    /\ keys # <<>> /\ nodeOperators[id].total + Len(keys) <= MaxKeys
    /\ Store(Only(id, [nodeOperators[id] EXCEPT !.total = @ + Len(keys)]), {"total"})
    /\ signingKeys' = [signingKeys EXCEPT ![id] = @ \o keys]
    /\ increaseValidatorsKeysNonce
    /\ Emit(<<"TotalSigningKeysCountChanged">> \o NonceEvents)
    /\ UNCHANGED <<activeOperatorsCount, owners, now, listening, approved>>

\* The keys from index `from` on, the highest removed first: the last key of
\* the operator takes the place of a removed one.
removeKeysSigs(keys, from, count) ==
    LET left[k \in 0..count] ==
            IF k = 0 THEN keys
            ELSE LET s == left[k - 1] IN Front([s EXCEPT ![from + count - k + 1] = Last(s)])
    IN  left[count]

\* A bug: the limit keeps its value while keys are there.
VettedAfterRemovalKept(op, from) == Math256_min(op.vetted, op.total - 1)

\* The limit falls to the first removed key.
VettedAfterRemoval(op, from) == IF from < op.vetted THEN from ELSE op.vetted

removeSigningKeys(caller, id, from, count) ==
    /\ caller \in owners
    /\ id \in Ids /\ nodeOperators[id].active
    /\ IF count = 0 THEN UNCHANGED registryVars
       ELSE LET op     == nodeOperators[id]
                vetted == VettedAfterRemoval(op, from)
            IN  /\ from >= op.deposited /\ from + count <= op.total
                /\ Store(Only(id, Limited([op EXCEPT !.total = @ - count, !.vetted = vetted])), {"total", "max"})
                /\ signingKeys' = [signingKeys EXCEPT ![id] = removeKeysSigs(@, from, count)]
                /\ increaseValidatorsKeysNonce
                /\ Emit([k \in 1..count |-> "SigningKeyRemoved"] \o <<"TotalSigningKeysCountChanged">>
                        \o EventIf(vetted < op.vetted, "VettedSigningKeysCountChanged") \o NonceEvents)
                /\ UNCHANGED <<activeOperatorsCount, owners, now, listening, approved>>

\* The keys of the operators `range` that are not deposited are dropped.
invalidateReadyToDepositKeysRange(range) ==
    /\ range # {} /\ range \subseteq Ids
    /\ LET trimmed == {i \in range : nodeOperators[i].total # nodeOperators[i].deposited}
       IN  IF trimmed = {} THEN UNCHANGED registryVars
           ELSE /\ Store([i \in trimmed |->
                             Limited([nodeOperators[i] EXCEPT !.total = nodeOperators[i].deposited,
                                                              !.vetted = nodeOperators[i].deposited])],
                         {"total", "max"})
                /\ signingKeys' = [i \in Ids |-> IF i \in trimmed THEN SubSeq(signingKeys[i], 1, nodeOperators[i].deposited)
                                                 ELSE signingKeys[i]]
                /\ increaseValidatorsKeysNonce
                /\ Emit(FlattenSeq([k \in 1..Cardinality(trimmed) |->
                             <<"TotalSigningKeysCountChanged", "VettedSigningKeysCountChanged", "NodeOperatorTotalKeysTrimmed">>])
                        \o NonceEvents)
                /\ UNCHANGED <<activeOperatorsCount, owners, now, listening, approved>>

\* The router's call when the withdrawal credentials change: every operator.
onWithdrawalCredentialsChanged ==
    IF Ids = {} THEN UNCHANGED registryVars ELSE invalidateReadyToDepositKeysRange(Ids)

-----------------------------------------------------------------------------
(* Exited, stuck and refunded validators *)

\* A penalty ends with a delay when refunds cover the stuck validators again.
PenaltyEnd(op, stuck, refunded) ==
    IF op.refunded < op.stuck /\ stuck <= refunded THEN now + StuckPenaltyDelay ELSE op.penaltyEnd

WithStuck(op, stuck) ==
    IF stuck = op.stuck THEN op
    ELSE Limited([op EXCEPT !.stuck = stuck, !.penaltyEnd = PenaltyEnd(op, stuck, op.refunded)])

WithExited(op, exited) == IF exited = op.exited THEN op ELSE Limited([op EXCEPT !.exited = exited])

WithRefunded(op, refunded) ==
    IF refunded = op.refunded THEN op
    ELSE Limited([op EXCEPT !.refunded = refunded, !.penaltyEnd = PenaltyEnd(op, op.stuck, refunded)])

StuckInRange(op, stuck) == stuck = op.stuck \/ op.exited + stuck <= op.deposited

\* A bug: the exited validators are compared with the deposited ones alone.
ExitedInRangeWithoutStuck(op, exited, allowDecrease) ==
    \/ exited = op.exited
    \/ (allowDecrease \/ exited > op.exited) /\ exited <= op.deposited

ExitedInRange(op, exited, allowDecrease) ==
    \/ exited = op.exited
    \/ (allowDecrease \/ exited > op.exited) /\ exited + op.stuck <= op.deposited

\* Events of one kind, one for each operator whose counter the report changes.
ReportEvents(report, field, event) ==
    [k \in 1..Cardinality({i \in DOMAIN report : report[i] # nodeOperators[i][field]}) |-> event]

\* A report, by operator; one bad entry reverts all of it.
updateStuckValidatorsCount(report) ==
    /\ DOMAIN report \subseteq Ids
    /\ \A i \in DOMAIN report : StuckInRange(nodeOperators[i], report[i])
    /\ Store([i \in DOMAIN report |-> WithStuck(nodeOperators[i], report[i])], {"max"})
    /\ increaseValidatorsKeysNonce
    /\ Emit(ReportEvents(report, "stuck", "StuckPenaltyStateChanged") \o NonceEvents)
    /\ UNCHANGED <<signingKeys, activeOperatorsCount, owners, now, listening, approved>>

updateExitedValidatorsCount(report) ==
    /\ DOMAIN report \subseteq Ids
    /\ \A i \in DOMAIN report : ExitedInRange(nodeOperators[i], report[i], FALSE)
    /\ Store([i \in DOMAIN report |-> WithExited(nodeOperators[i], report[i])], {"exited", "max"})
    /\ increaseValidatorsKeysNonce
    /\ Emit(ReportEvents(report, "exited", "ExitedSigningKeysCountChanged") \o NonceEvents)
    /\ UNCHANGED <<signingKeys, activeOperatorsCount, owners, now, listening, approved>>

\* A correction by hand, first of the stuck, then of the exited validators.
unsafeUpdateValidatorsCount(id, exited, stuck) ==
    /\ id \in Ids
    /\ LET op    == nodeOperators[id]
           first == WithStuck(op, stuck)
       IN  /\ StuckInRange(op, stuck)
           /\ ExitedInRange(first, exited, TRUE)
           /\ Store(Only(id, WithExited(first, exited)), {"exited", "max"})
           /\ Emit(EventIf(stuck # op.stuck, "StuckPenaltyStateChanged")
                   \o EventIf(exited # op.exited, "ExitedSigningKeysCountChanged") \o NonceEvents)
    /\ increaseValidatorsKeysNonce
    /\ UNCHANGED <<signingKeys, activeOperatorsCount, owners, now, listening, approved>>

\* The nonce stays, whatever happens to the operator's limit.
updateRefundedValidatorsCount(id, refunded) ==
    /\ id \in Ids
    /\ LET op == nodeOperators[id]
       IN  /\ refunded = op.refunded \/ refunded <= op.deposited
           /\ Store(Only(id, WithRefunded(op, refunded)), {"max"})
           /\ Emit(EventIf(refunded # op.refunded, "StuckPenaltyStateChanged"))
    /\ UNCHANGED <<signingKeys, nonce, activeOperatorsCount, owners, now, listening, approved>>

updateTargetValidatorsLimits(id, isActive, target) ==
    /\ id \in Ids
    /\ Store(Only(id, Limited([nodeOperators[id] EXCEPT !.targetActive = isActive,
                                                     !.target = IF isActive THEN target ELSE 0])), {"max"})
    /\ increaseValidatorsKeysNonce
    /\ Emit(<<"TargetValidatorsCountChanged">> \o NonceEvents)
    /\ UNCHANGED <<signingKeys, activeOperatorsCount, owners, now, listening, approved>>

\* Anybody may clear a penalty whose delay has passed.
clearNodeOperatorPenalty(id) ==
    /\ id \in Ids
    /\ ~ isOperatorPenalized(nodeOperators[id]) /\ nodeOperators[id].penaltyEnd # 0
    /\ Store(Only(id, Limited([nodeOperators[id] EXCEPT !.penaltyEnd = 0])), {"max"})
    /\ increaseValidatorsKeysNonce
    /\ Emit(NonceEvents)
    /\ UNCHANGED <<signingKeys, activeOperatorsCount, owners, now, listening, approved>>

-----------------------------------------------------------------------------
(* Deposits *)

\* The operators with keys to deposit.
Depositable == {i \in Ids : nodeOperators[i].deposited # nodeOperators[i].max}

\* The allocation of `count` deposits: how many, and the active validators
\* each operator has then.
getSigningKeysAllocationData(count) ==
    allocate([i \in Depositable |-> nodeOperators[i].deposited - nodeOperators[i].exited],
             [i \in Depositable |-> nodeOperators[i].max - nodeOperators[i].exited],
             count)

\* The deposited keys after an allocation.
DepositedAfter(allocation) == [i \in Depositable |-> nodeOperators[i].exited + allocation.buckets[i]]

(***************************************************************************)
(* The router takes the keys of `count` deposits.  The arrays of the       *)
(* allocation have room for the active operators only, and an allocation   *)
(* of fewer keys than asked reverts.                                       *)
(***************************************************************************)
CanObtain(count) ==
    /\ Cardinality(Depositable) <= activeOperatorsCount
    /\ getSigningKeysAllocationData(count).allocated = count

obtainDepositData(count) ==
    /\ CanObtain(count)
    /\ LET after == DepositedAfter(getSigningKeysAllocationData(count))
           used  == {i \in Depositable : after[i] # nodeOperators[i].deposited}
       IN  /\ Store([i \in used |-> Limited([nodeOperators[i] EXCEPT !.deposited = after[i]])], {"deposited", "max"})
           /\ Emit([k \in 1..Cardinality(used) |-> "DepositedSigningKeysCountChanged"] \o NonceEvents)
    /\ increaseValidatorsKeysNonce
    /\ UNCHANGED <<signingKeys, activeOperatorsCount, owners, now, listening, approved>>

-----------------------------------------------------------------------------
(* What is read from outside *)

getStakingModuleSummary ==
    [exited |-> summary.exited, deposited |-> summary.deposited, depositable |-> summary.max - summary.deposited]

getNodeOperator(id) ==
    LET op == nodeOperators[id]
    IN  [active |-> op.active, name |-> op.name, rewardAddress |-> op.rewardAddress,
         vetted |-> op.vetted, exited |-> op.exited, total |-> op.total, deposited |-> op.deposited]

\* Time passes between blocks.
NextBlock ==
    /\ now < MaxTime
    /\ now' = now + 1
    /\ UNCHANGED <<nodeOperators, signingKeys, summary, nonce, activeOperatorsCount, owners, log, listening, approved>>

-----------------------------------------------------------------------------
(* Properties *)

(***************************************************************************)
(* The counters of every operator keep their order through reports in      *)
(* either order, corrections by hand, deposits, removals and the end of    *)
(* penalties: exited and stuck validators were deposited, what is deposited*)
(* or approved is there, and an inactive operator has nothing to deposit.  *)
(* The maximum is stored, and yet never stale as time passes: a penalized  *)
(* operator gets nothing, one that is not and has no target everything     *)
(* approved, and a target is kept.  The summary is the sum over the        *)
(* operators.  The contract asserts parts of it where it skips SafeMath.   *)
(***************************************************************************)
CountersConsistent ==
    /\ \A i \in Ids :
           LET op == nodeOperators[i]
           IN  /\ op.exited + op.stuck <= op.deposited /\ op.refunded <= op.deposited
               /\ op.deposited <= op.max /\ op.max <= op.vetted /\ op.vetted <= op.total
               /\ isOperatorPenalized(op) => op.max = op.deposited
               /\ isOperatorPenaltyCleared(op) /\ ~ op.targetActive => op.max = op.vetted
               /\ op.targetActive /\ op.max > op.deposited => op.max - op.exited <= op.target
               /\ ~ op.active => op.vetted = op.deposited
    /\ \A f \in DOMAIN summary : summary[f] = Total(Counter(f))

(***************************************************************************)
(* The sum the router sizes a deposit by is what the allocation can serve: *)
(* any number of deposits up to it is allocated exactly, no operator past  *)
(* its maximum, and an operator that receives ends at most one validator   *)
(* above any that still has room.  A deposit sized by the summary never    *)
(* reverts for want of keys.                                               *)
(***************************************************************************)
DepositsAreServed ==
    \A count \in 1..(summary.max - summary.deposited) :
        LET after == getSigningKeysAllocationData(count).buckets
            grows == {i \in Depositable : nodeOperators[i].exited + after[i] > nodeOperators[i].deposited}
        IN  /\ CanObtain(count)
            /\ \A i \in Depositable : nodeOperators[i].exited + after[i] <= nodeOperators[i].max
            /\ \A i \in grows, j \in Depositable :
                   nodeOperators[j].exited + after[j] < nodeOperators[j].max => after[i] <= after[j] + 1

(***************************************************************************)
(* A key that may be deposited is one the owner saw at its place when the  *)
(* operator's limit was last set: keys added, removed or moved afterwards  *)
(* never slip under the old limit.                                         *)
(***************************************************************************)
VettedKeysWereSeen ==
    \A i \in Ids : \A k \in nodeOperators[i].deposited + 1..nodeOperators[i].vetted :
        k <= Len(approved[i]) /\ approved[i][k] = signingKeys[i][k]

(***************************************************************************)
(* The documentation of getNonce: the nonce changes whenever the size of   *)
(* an operator's data ready to be deposited changes.                       *)
(***************************************************************************)
NonceCoversDepositData ==
    [][(\E i \in Ids : nodeOperators'[i].max - nodeOperators'[i].deposited # nodeOperators[i].max - nodeOperators[i].deposited)
       => nonce' # nonce]_registryVars
=============================================================================
