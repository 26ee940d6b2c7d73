# Catalist on Ace in TLA+

TLA+ specifications of the Catalist liquid-staking protocol (the Solidity
contracts under `contracts/`, the programs its operators run under `task/` and
`scripts/`, and the background scripts of its Aragon apps under `apps/`), the TLC
instances that model-check them and the TLAPS proofs of their central
invariants. Paths below are relative to the repository's root.

## The system

Users give ace to the pool and hold bACE, a token whose balances follow the
pool. The pool's ace becomes validators run by node operators. A committee of
oracle daemons reports what the consensus layer did; the report rebases the
token, pays fees, burns shares and finalizes the requests of users who want
their ace back.

| component | state | operations | correct when |
|---|---|---|---|
| report consensus, `0.8.9/oracle/HashConsensus` | frames, members with their last reports, support counters, quorum, consensus of the slot, report processor | submitReport; add/remove member; quorum; processor; frames; fast lane | what is agreed on has a quorum of the present members; slots only advance; members, counters and processor stay in step |
| report register, `oracle/BaseOracle` | agreed report with deadline, last processed slot | submit/discard consensus report, start processing, replace consensus contract or version | a report under processing is final; each slot is processed at most once, in order and in time |
| accounting report, `oracle/AccountingOracle` | extra-data state | main data, extra data (list or empty) | extra data belongs to the report it came with; a complete report leaves complete counts |
| finalization batches, view and `prefinalize` of `WithdrawalQueueBase` | calculation state carried between calls | calculateFinalizationBatches, prefinalize | independent of how it is cut into calls, maximal, accepted by finalize |
| withdrawal queue, `WithdrawalQueueBase`, `WithdrawalQueue`, `WithdrawalQueueERC721` | requests as cumulative sums, finalized prefix, checkpoints, locked ace, owners, approvals, pause, bunker mode | request, finalize, onOracleReport, claim, approve, transfer, pause, resume | solvent; payouts fixed once finalized; each paid once, to its holder |
| pool and token, `0.4.24/Catalist`, `BACE` | shares, buffered ace, validator counts, stake limit, pause | submit, deposit, handleOracleReport, transfer, pause, limits | shares add up; buffered ace covers what is owed; limits hold |
| burner, `0.8.9/Burner` | shares requested to burn, burnt | request, commit, recover excess | requested shares are on the contract |
| sanity checks and rebase limiter | limits | smoothenTokenRebase, checks | a report raises the rate at most by the limit; nothing users do refuses an honest report |
| node operators, `0.4.24/nos/NodeOperatorsRegistry` | key counters per operator and their summary, limits, penalties, nonce | add/remove keys, limits, stuck/exited/refunded counts, obtainDepositData | exited + stuck <= deposited <= vetted <= total; the summary is the sum; the nonce moves with every key change |
| key allocation, `common/lib/MinFirstAllocationStrategy` | none | allocate | the least filled are filled first, capacity respected |
| staking router | modules, exited counts | module administration, reports, deposit | fees and allocations from consistent counts |
| deposit security | guardians, quorum | pause, depositBufferedAce | no deposit without a quorum for the present keys |
| exit bus, `oracle/ValidatorsExitBusOracle` | last requested index per operator | submitReportData, pause | requests rise per operator |
| vaults, WbACE, LegacyOracle, proxies, locator, configuration | balances, wrapped shares, last epoch, addresses | | |
| app scripts, `apps/node-operators-registry/app/src/script.js`, `apps/lido/app/src/script.js` | a cache of the contract's views | read all views at the start of a session, refresh one when an event arrives | what is shown is what the contract has, or news of the change is on its way |
| operators' tasks, `task/task.js`, `scripts/interact/mainnet-upgradable-aragon.js` | transactions sent and not mined | set-frame-config, set-reward-address, upgrade-nos, set-staking-limit, add-operator, remove-keys, add-keys | what the operator meant takes effect once, whoever else calls meanwhile |
| depositer, `scripts/interact/mainnet-depositer.js` | what it has read of the chain | read nonce, block and root, sign, send | deposits take the keys that were attested to |
| image of the shares, `task/shares-image.js` | last event seen | hourly job, one-off task | the image has everybody's shares |
| deployment, `scripts/scratch`, `scripts/interact/interact-init-*.js` | state file, memory of a process, contracts on the chain | scripts 00 to 18, a program that puts the network to work, the acceptance test | one deployment, complete, that works, whatever process died in between |

Calls between the parts: members call `HashConsensus.submitReport`; that calls
`submitConsensusReport` or `discardConsensusReport` of the report processor in
the same transaction, and asks it for the last processed slot. A daemon hands
the data to the processor, which checks it against the agreed hash, starts
processing and calls the pool; `AccountingOracle` also calls the withdrawal
queue (`onOracleReport`) and the staking router, then takes the extra data in a
second transaction. The pool calls prefinalize and finalize of the queue, the
burner and the router. Users call the pool and the queue.

Transactions are atomic and a call that reverts changes nothing, so an action of
the models is a whole transaction with every nested call. What is hard is not
the interleaving inside a call but the order of transactions: votes while
members, quorum, frames and processor change; a report that is agreed on, lost,
agreed on again and overtaken by its deadline or by the next slot; a report
processed in two transactions, of which the second may never come; requests
finalized at one rate and claimed many reports later; and truncating divisions
that are taken over different groupings of the same requests. The programs outside
the chain are the opposite case: each of their calls is a step of its own, between
any two of which blocks are mined, others call, calls fail or the process dies. `PROJECT.json`
lists these hazards line by line.

## The modules

### Report consensus

* `ReportingFrames`: slots, epochs, frames and the validity of a frame
  configuration, as operators on a configuration.
* `BaseOracle`: the register of an oracle contract as pairs of operators, `CanX`
  (when the call does not revert) and `X` (the register afterwards).
* `HashConsensus`: the contract and the registers of its processors. One action
  per external function; `_checkConsensus`, `_consensusReached` and so on keep
  their names as operators. `ProcessReport` is the processor's
  `_startProcessing`, `Tick` a new block. A report is a hash, a model value.
* `Committee`: the abstract specification. A committee votes on one slot at a
  time, and after each step the agreed report is what *recounting* the votes of
  the present members gives, until the slot is closed. `ImplementsCommittee`
  states that HashConsensus implements it: support counters, variant indices,
  the check for a lost consensus in `_submitReport` and the re-check after each
  change of members or quorum amount to recounting.
* `AccountingOracle`: the two-phase processing of a report over the same
  register, with honest daemons and a consensus layer whose counts move. A hash
  stands for the data it commits to.

### Withdrawals

* `RequestBatches`: cumulative sums, share rates and the values of requests and
  batches with truncating division, `prefinalize`, and
  `calculateFinalizationBatches` as a fold over the requests of one call.
* `FinalizationBatches`: the daemon's loop over that view, on the queues that
  `requestWithdrawals` can produce.
* `WithdrawalQueue`: the queue contract. `AccountingReport` is the report's
  whole effect on it: the timestamp and bunker mode, the batches the daemon
  chose, prefinalize and finalize. `FindCheckpointHint` is the code's binary
  search, a recursive function.
* `WithdrawalLedger`: the abstract specification, without sums, checkpoints or
  hints: a payout is fixed when a request is finalized, at no more than was
  asked for, and is paid once, to whoever holds the request.
  `ImplementsLedger` states that WithdrawalQueue implements it.

### Pool

* `StakeLimit` and `RebaseLimiter`: the two libraries, as operators on their
  structures. `OracleReportSanityChecker`: the checks of the accounting report
  and `smoothenTokenRebase`, which applies the limiter four times.
* `Catalist`: the pool with its token, the burner and the vaults, over
  `RequestBatches`. `HandleOracleReport` is the whole of `_handleOracleReport`
  with the nested calls: `Outcome` computes its quantities in the order of the
  code, `PassesChecks` and `PassesShareRateCheck` are every `require` on the
  way. `TakeSnapshot` is the daemon: it fixes the balances of a reference slot,
  the share rate and the batches, and is processed later or replaced by the next
  one; stakes, deposits, requests, burns, sweeps and administrative calls come
  in between. Of the withdrawal queue there is what the report needs; claims,
  checkpoints and owners are in `WithdrawalQueue`.

### Registry, deposits and the programs around them

* `MinFirstAllocation`: the allocation round by round, `allocate` a recursive
  function, as the registry calls it.
* `NodeOperatorsRegistry`: operators with their counters, keys, penalties and
  targets, the summary and the nonce. `Limited` is `_applyNodeOperatorLimits`;
  `Store` writes changed operators and moves the sums the handler moves, by
  differences as the code does. Three kinds of initial states: fresh, upgraded from a
  version 1 storage, and some time in operation. The upgrade (`finalizeUpgrade_v2`)
  leaves the contract without an owner, and only an owner makes owners: the owners'
  calls are lost there, which the model keeps.
* `DepositSecurityModule`: guardians and quorum, pauses, and `depositBufferedAce`
  down to the keys the registry gives out. The check `quorum > 0` of `canDeposit`
  is commented out in the code and absent here.
* `Depositer`, `OperatorTasks`: programs of the deployer over those contracts. A
  transaction is sent once and mined at any later time, in order for the tasks; it may
  revert unnoticed, since nothing waits for it and the gas is fixed. The program may
  die and be run again.
* `AragonApps`: the two background scripts as caches. A call is answered from the
  chain as it is at some moment between asking and answering, and may fail; events
  wait in order; a session ends at any time.
* `SharesImage`: a ledger of shares with its events, the job that replays them and
  the task that does so once. Events are asked for up to the block whose number is in the
  programs (10000000, `ToBlock`), totals at the latest block: once the chain is past
  `ToBlock`, the job sees no new event and every image repeats the shares of that block.
* `Operations`: the composition. `scene` says which program runs among the calls
  of the others (`CallsOf`), and never changes: `calls` has the registry under every
  call, `deposits` the depositer, `registryApp` and `poolApp` the scripts, `tasks`
  the operator's tasks, `images` the image. Programs of different scenes share
  nothing but the registry, whose owners and managers are among the callers in each.

### Deployment

* `DeployScripts`: the scripts as data, each the sequence of its operations (read
  the state file, deploy, record, transact, check, save) with what they read from the
  file or from a local variable.
* `ScratchDeploy`: the machine that performs them. A process may die between any
  two operations; what it wrote and sent stays, what it had read is lost. It may also
  die while it overwrites the state file (`CrashWhileWriting`), which is written in place
  and then holds nothing that parses (`Malformed`): every script that reads it fails, and only
  starting over puts a file there again. The
  operator then runs the script again, goes on with the next one where only the end of
  the script was left, or starts `dao-deploy.sh` over, which puts the default state
  file back while the contracts of the abandoned attempt stay. On a public network
  (`strict` is FALSE) a revert goes unnoticed (`MissRevert`).

Modules called `MC...` give TLC its symmetry sets and structured constants.
Operators marked "Mutant" are defects that the properties must detect; no
specification uses them.

## What TLC checks

Passing runs (`.cfg` of the same name):

| run | instance | properties |
|---|---|---|
| `HashConsensus_votes` | 3 accounts, 2 hashes, quorums 1-3, frames of 2 slots with and without a fast lane, 2 frames, 1 processor | `SupportCoversVotes`, `OpenSupportIsExact`, `ProcessableHasQuorum`, `ProcessorInSync`, `FastLaneHasQuorum`, `ImplementsCommittee` |
| `HashConsensus_frames` | 2 accounts, 1 hash, 2 processors swapped at any time, frames of 1-3 slots, any reconfiguration | `RefSlotAdvances`, `ProcessedReportIsFinal`, `OutlivesOnlyShortenedFrame` |
| `AccountingOracle_frames` | 2 operators, counts up to 1, 2 consensus contracts with different frames, 2 versions, 9 time steps | `NeverStalled`, `CountsAreComplete`, `ExtraDataOfReport`, `SlotsAdvance` |
| `FinalizationBatches_calls` | up to 4 requests of 2 amounts in 3 reports, 3 share rates, 6 budgets, calls of 1-2 requests, 2 batches at most | `BatchesAreMaximal`, `BatchesAreAccepted` |
| `WithdrawalQueue_requests` | 3 accounts, 3 requests of 2 amounts, 2 rates, 2 budgets, 4 time steps, all sub-ranges of the hint search; approvals, transfers, pauses and bunker mode with 2 requests (below) | `Solvent`, `HintsAreFound`, `ImplementsLedger`, `OwnersConsistent`, `NoStaleApproval` |
| `Catalist_reports` | 1 user beside the 5 contracts and recipients, 2 requests, 2 validators, 4 blocks (3 reports), a loss or a gain in each | `SharesAddUp`, `BufferIsBacked`, `HoldingsCovered`, `ReportStaysValid`, `NoDilution`, `RebaseIsLimited`, `RateKeptWithoutLoss` |
| `Catalist_stakes` | 2 stakes, 2 limits, 4 blocks, 3 administrative calls, no deposits | `StakingIsLimited` |
| `Operations_programs` | 6 scenes; 2 operators, 6 keys, times 1-3, counts 0-2; 4 calls of others in `calls` and `images`, 3 in `deposits`, 2 in the rest; 2 runs or sessions of a program, 1 failed call; a block of the ledger up to `ToBlock` and one after it | `CountersConsistent`, `DepositsAreServed`, `VettedKeysWereSeen`, `AttestedKeysDeposited`, `CacheIsFreshOrPending`, `FileKeysAddedOnce`, `ImageIsExact` |
| `ScratchDeploy_crashes` | 4 environments, 1 dying process, at or within any operation, 2 continuations by hand, 1 start from the top | `OneDeployment`, `DeploymentIsComplete`, `RerunsRepair`, `Operational`, `EventuallyDeployed` |

The bounds are in the `CONSTANTS` of each module (`MaxTime`, `MaxSupport`,
`MaxRequests`, `MaxPooledAce`, ...) and appear only in guards. Three members are the fewest with
a proper majority, a quorum that is neither one nor all, and a swap-and-pop that
moves somebody else; two hashes allow a lost and a changed consensus; two frames
allow stale votes. Three requests finalized one by one give a search range with
an inner midpoint. What is requested and finalized and what is done with requests
are independent but for the owners, and all of it together is too much for one run:
`BoundedSpec` of `MCWithdrawalQueue` takes the steps that keep within one of
three bounds, three requests of one holder without approvals, or two requests of one amount
with every approval and transfer, or with every pause and mode. Numbers are small because divisions truncate at any size: precision
100 stands for 1e27, and the amounts 13 and 60 were picked at the rate 1.18
because one's own share rate is then above it and the other's below. In the
pool a share costs about an ace, a deposit (175) is smaller than what the pool
starts with (200) and the limit of 8 % on a rebase is below the rewards (90), so
that in four blocks validators appear with and without earlier ones, vaults are
emptied in part, burning is put off, requests are finalized twice, more is
locked than was buffered, modules are paid, and reports are refused for their
share rate.

In the registry two operators are the fewest with an allocation that is not
all-or-nothing, and a key more than the limit, an exited validator and a penalty that
begins, is refunded and outlasts its cause fit into four calls and three times; the
initial states save the calls that lead there. Deposits need a change between
the depositer's reads and its transaction, and a second run; an app needs two events
whose answers come in the wrong order and a session that ends between. Of the four
environments of the deployment two are local and two are remote, and between them
the deposit contract is given in the defaults, by the environment or not at all,
the gate seal's factory and the base URI are there or not, reverts are
noticed or not, and the acceptance test is run. One process that dies does so before
every operation in turn and in the middle of every write of the state file; that the operator may go on by hand twice and start over
once includes a rerun that fails and the restart after it.

The models stop at their bounds, so the runs do not check for deadlock. The
deployment stops when it is done, or when the operator has no continuation left.

Properties worth an explanation:

* `ProcessableHasQuorum` relates the processor's register to the votes of the
  members at that moment. It holds with one processor. With two, a report handed
  over after a member left during processing may rest on that member's vote:
  the counter is not lowered then.
* `OutlivesOnlyShortenedFrame`: the deadline of a report is copied to its processor and
  not touched when frames are reconfigured. A report that waits and can be processed
  still belongs to the current frame and expires with it, over swapped processors and frames
  made longer; the one step after which it does not is one that shortens the frames while
  it waits. The run `HashConsensus_shortened` shows what follows from that step.
* `CountsAreComplete` holds through missed frames, lost consensus and
  half-processed reports because a report lists every outdated operator at its
  reference slot and not what changed since the last report.
* `Solvent` bounds the shortfall by the number of adjacent requests of one
  report that round to different sides of the rate: a queue without such pairs
  always has the ace it owes, in whatever order requests are claimed.
* `ReportStaysValid` is about the time between a reference slot and its report:
  whatever is called then, every check but the one of the share rate still
  passes. Two rules of the code make it true, that deposits leave the ace of
  unfinalized requests in the buffer and that shares to burn only grow between
  reports, and one detail spoils it: the daemon's budget is charged for
  each request and the ace is locked for each batch, which may come to more
  (`BatchesAreAccepted`). The property leaves that excess out of what is locked; a report whose
  budget is spent to within the excess would be refused by the `sub` at
  `0.4.24/Catalist.sol:963`.
* `BatchesAreAccepted` bounds that excess by a wei for each request only while no batch
  has requests on both sides of the maximal rate. In a batch that has, requests of a lower
  rate make up for those of a higher one: valued one by one the latter are cut to
  the maximal rate, valued together the batch is not cut, and what is locked
  is all that was asked for. No more is ever locked than that.
* `RateKeptWithoutLoss` needs the limiter as much as the rounding: requests are
  paid at a rate simulated before later stakes shared the rewards, and the
  shares that the report burns must outweigh it.
* `RebaseIsLimited` excepts a gain of the consensus layer above the limit, which
  the code does not smooth, and allows a unit of the limiter's precision.
* `StakingIsLimited` counts the growth in force, the maximum divided by the
  truncated number of growth blocks, which may be more than the increase that
  `setStakingLimit` was given: 65 a block for an increase of 50 and a maximum of
  130.
* `submit` asks only whether staking is paused, and the comment at
  `0.4.24/Catalist.sol:1032` calls it an invariant that a stopped protocol has
  its staking paused. `resumeStaking` does not keep it: it may be called while
  the protocol is stopped, and the model then takes stakes.
* `BatchesAreMaximal` says that the batches end where the budget, the time limit
  or the number of batches ends them and never where a call did.

* `CountersConsistent` says of a cached maximum that it is never stale although
  penalties end by the passage of time: an ended penalty keeps the maximum at the
  deposited count until somebody calls `clearNodeOperatorPenalty`, and
  `isOperatorPenaltyCleared` counts it as penalized until then.
* `VettedKeysWereSeen` compares with what the owner saw when the limit was
  *set*, not when he looked at the operator. The task `set-staking-limit` has a default
  limit of 1e9, so keys added between looking and mining are approved; that the
  owner has looked is not something the contract could know.
* `AttestedKeysDeposited` is what the nonce is for. It holds although refunds do not
  change the nonce (below), because they change how many keys may be deposited and never
  which.
* `CacheIsFreshOrPending` is stated for the values an event announces. For those
  that no event announces there is nothing to state, and there are many: the
  registry's reducer writes new values to places that only unmounted screens
  read; its summary is refreshed on two events the contract never emits and not on
  changes of targets; the pool's script calls getters the contract does not have
  (`getBufferedEther`, `getLidoLocator`).
* `FileKeysAddedOnce` is about one run. A second run of `add-keys` adds everything
  again, and nothing on the chain prevents duplicates.
* `ImageIsExact` says that an image has the shares of one moment, which is the end of
  block `ToBlock` once the chain is past it: it does not say that an image is recent. It
  excepts the burner, whose burnt shares stay in the image, and says nothing of
  balances: the totals they are computed with are read after the events, and of a later
  block.
* `RerunsRepair` says which scripts may be run again after a death: all but those
  that send a transaction which cannot be repeated (`Unrepeatable`), unless the death tore the state file, after which
  no script gets past reading it.
* `OneDeployment` is what starting over endangers, since the file then names new
  contracts and the chain has the old ones too, and helpers that find a contract in
  the file do not deploy another.
* `Operational` is what unnoticed reverts endanger: `resumeStakingModule`, which
  the programs that put a network to work call, reverts each time, harmlessly.
* `EventuallyDeployed` is checked under `FairSpec`, see below.

Some runs look for a disagreement between a comment and the code, and find it:

| run | comment | what happens |
|---|---|---|
| `FinalizationBatches_budget` | `calculateFinalizationBatches` finds how many requests "can be finalized within the given budget" (`0.8.9/WithdrawalQueueBase.sol:208`) | four requests charged 186 to the budget are locked with 193: a report across the rate joins them into one batch |
| `HashConsensus_shortened` | "all state changes a report processing could entail are guaranteed to be observed while gathering data for the next frame's report" (`0.8.9/oracle/HashConsensus.sol:85`) | frames are shortened while a report waits; its deadline stays, and it is processed in a later frame than its own (`ProcessedWithinFrame`) |
| `Operations_nonce` | the nonce of a module "MUST change" when "a node operator's ready-to-deposit data size is changed" (`0.4.24/nos/NodeOperatorsRegistry.sol:1946`) | `updateRefundedValidatorsCount` ends or begins a penalty, which changes that size, and leaves the nonce |

The excess in the first one is up to what the rates of one batch differ by, whatever the
precision; the other two are exact. The one wei of `Solvent` is no artefact of a small precision
either. At 1e27 let the pool hold
1100000000000000003 wei for 1000000000000000007 shares, so that the maximal
share rate is 1099999999999999995300000000. Requests of 880000000000000002400
and 110023404255319148467 wei made during the same report become one batch;
finalizing it locks 990023404255319150865 wei and the two claims pay
990023404255319150866. The wei comes out of what other requests left behind, or
the last claim waits for the next report, although the comment at
`0.8.9/WithdrawalQueueBase.sol:564` expects claims to leave dust behind.

Disagreements between documents and code that no run states, met in the deployment:
`docs/scratch-deploy.md` lets the ENS be left out, which script 02 answers with a
TypeError; a deposit contract the operator specifies is dropped by script 00 and
deployed anew by 01; the step that transfers all admin roles does not exist;
script 14 returns early and keeps the gate seal of the attempt before it unless
the operator starts over.

Fairness is stated where the code gives ground for it. `FairSpec` of `ScratchDeploy`
has weak fairness of a process (the operating system runs it on) and of the operator's
three ways to go on after a stop, together: he does not leave a stopped deployment
alone, but nothing says which way he chooses. Processes die a bounded number of
times. For the rest a user or daemon may always stop calling; what must hold without
fairness is that nobody is *refused*, and `NeverStalled`, `ReportStaysValid` and
`DepositsAreServed` state that.

## What is proved

TLAPS checks the theorems below for every value of the constants that the named
assumptions of the modules allow: `ChainSpecAssumption` (slots and epochs have a
length), `HashConsensusAssumption` (finitely many accounts, an unreachable quorum
above their number, ranges of natural numbers), `AccountingOracleAssumption` (frame
configurations as the constructor of HashConsensus accepts them, no hash stands for
the absence of one), `PrecisionAssumption` and `WithdrawalQueueAssumption` (positive amounts and rates, every amount is worth a
share, as the minimum of 100 wei is up to a rate of 100; the two `type(uint256).max`
values lie beyond the clock) and `CatalistAssumption` (positive amounts, limits of
natural numbers, fees below the whole, finitely many users and modules, and the
accounts of burner, queue and initial holder distinct and not users'),
`FinalizationBatchesAssumption` (as for the queue; no share rate is zero),
`RegistryAssumption` (the storages a registry starts from hold as many keys as they
count and counters in order, and one that upgrades has no penalties yet; the deployer
may own the contract), `DepositsAssumption` and `OperationsAssumption` (counts, limits
and buffers are natural numbers, an operator adds a sequence of keys),
`TasksAssumption` (a task passes on parameters of the kind it declares),
`FileAssumption` (a program that adds keys is `add-keys` with a stretch of the file) and
`HoldersAssumption` (holders are not the contracts of the pool).
TLC evaluates the assumptions in every run.

| theorem | module | says |
|---|---|---|
| `TypeCorrect` | `HashConsensus_proof` | `TypeOK` |
| `MembersConsistent` | `HashConsensus_proof` | `MemberIndicesConsistent`: swap-and-pop keeps arrays and indices in step |
| `ReportingOrdered` | `HashConsensus_proof` | `ReportingStateOrdered`: consensus slot <= report slot, and the recorded variant exists |
| `RefSlotMonotone` | `HashConsensus_proof` | `RefSlotAdvances`, over any reconfiguration of the frames |
| `ProcessedFinal` | `HashConsensus_proof` | `ProcessedReportIsFinal`, for any number of processors |
| `VotesCovered` | `HashConsensus_proof` | `SupportCoversVotes`: no counter is below the votes of the present members |
| `SupportExact` | `HashConsensus_proof` | `OpenSupportIsExact`, if a processed slot stays processed |
| `InSyncWithProcessor` | `HashConsensus_proof` | `ProcessorInSync`, for a processor that is kept |
| `ProcessableQuorum` | `HashConsensus_proof` | `ProcessableHasQuorum`, for a processor that is kept |
| `Refinement` | `HashConsensus_proof` | `ImplementsCommittee`, for a processor that is kept: every action recounts |
| `FastLaneQuorum` | `HashConsensus_proof` | `FastLaneHasQuorum` |
| `OutlivesWhenShortened` | `HashConsensus_proof` | `OutlivesOnlyShortenedFrame`, over any processors and reconfigurations |
| `ProcessedInFrame` | `HashConsensus_proof` | `ProcessedWithinFrame`, if frames are shortened only between reports, and lengthened at any time |
| `ExtraBelongs` | `AccountingOracle_proof` | `ExtraDataOfReport` |
| `SlotsNeverGoBack` | `AccountingOracle_proof` | `SlotsAdvance` |
| `Accepts` | `AccountingOracle_proof` | `NeverStalled`: the register accepts the consensus contract's report for its current slot; of the data and the extra data it says nothing |
| `CompleteCounts` | `AccountingOracle_proof` | `CountsAreComplete` |
| `TypeCorrect` | `WithdrawalQueue_proof` | `TypeOK`; the locked ace never goes below zero |
| `OwnersCorrect` | `WithdrawalQueue_proof` | `OwnersConsistent` |
| `ApprovalsFresh` | `WithdrawalQueue_proof` | `NoStaleApproval` |
| `QueueImplementsLedger` | `WithdrawalQueue_proof` | `ImplementsLedger`: the refinement, every action of it |
| `HintsFound` | `WithdrawalQueue_proof` | `HintsAreFound`, the binary search included |
| `StaysSolvent` | `WithdrawalQueue_proof` | `Solvent`, while no more than 10^9 whole shares wait in the queue |
| `Maximal` | `FinalizationBatches_proof` | `BatchesAreMaximal`, for any number and size of calls |
| `Accepted` | `FinalizationBatches_proof` | `BatchesAreAccepted`: sorted, no more locked than asked for, and the budget kept by batches on one side of the rate |
| `StakesLimited` | `Catalist_proof` | `StakingIsLimited`: no pause, stop or change of the limit admits more stakes than the limit and its growth |
| `SharesSum` | `Catalist_proof` | `SharesAddUp` |
| `BufferBacked` | `Catalist_proof` | `BufferIsBacked` |
| `RateNotDiluted` | `Catalist_proof` | `NoDilution` |
| `HoldingsAreCovered` | `Catalist_proof` | `HoldingsCovered`, if reports lock ace for the shares they take (below) |
| `RebaseLimited` | `Catalist_proof` | `RebaseIsLimited` |
| `ReportsStayValid` | `Catalist_proof` | `ReportStaysValid`, if reports lock ace for the shares they take and no daemon simulates a rate of zero (below) |
| `CountersStayConsistent` | `Operations_proof` | `CountersConsistent`: every operator's counters and maximum, and the four sums over them |
| `VettedKeysAreSeen` | `Operations_proof` | `VettedKeysWereSeen` |
| `DepositsAreAlwaysServed` | `Operations_proof` | `DepositsAreServed`: the allocation, its recursion included, and the room in its arrays |
| `DepositsAreAttested` | `Operations_proof` | `AttestedKeysDeposited`, over any calls between the reads and the block |
| `FileIsAddedOnce` | `Operations_proof` | `FileKeysAddedOnce`, for every file, length of the parts and stretch asked for |
| `ImagesAreExact` | `Operations_proof` | `ImageIsExact`, over any ledger, holders, calls and last block asked for |
| `CachesAreFresh` | `Operations_proof` | `CacheIsFreshOrPending`, over any calls, late or failed answers and sessions |

The arguments:

* *Consensus.* `TypeOK` is not inductive: the arrays of members are read through
  `memberIndices1b`, so `TInv` adds `MemberIndicesConsistent`. Nor is that enough
  for `setReportProcessor`, which reads a variant by the recorded index: `OInv`
  adds `ReportingStateOrdered` and that the frame is computable, on which the
  reference slot of the first frame depends. `RefSlotMonotone` rests on the
  arithmetic of frames: a new configuration starts at the first epoch of the
  present frame, and truncating division is monotone. For the votes `VInv` adds
  `SupportCoversVotes` itself, by the cardinality of the sets of voters that a
  report or a departing member changes by one, and that there are no variants
  before the first report.
* *Agreement.* `BInv` adds that registers are ordered, that a quorum is more than half
  of the members and that no two variants have one hash; so two variants never both
  have a quorum. For an open slot `EInv` adds exact counters. `SInv` adds that the
  recorded consensus is the variant with a quorum (`ConsensusIsRecorded`) and that
  the processor holds it; from it every action is shown to be a step of `Committee`
  or a stutter. The theorems about open slots have a hypothesis on behaviours:
  `ProcessedSlotStays` or `ProcessorKept`. A new processor that has not heard of a
  slot the old one closed opens it again, with counters that a departing member left
  too high while it was closed; TLC finds this with two processors, and the
  deployment sets the processor once. `FInv` adds that no register holds a report before the first frame, and
  `StepWithinFrame` is the step of `OutlivesOnlyShortenedFrame`: a report within its frame
  stays so through every action but a shortening. `ProcessedInFrame` follows from it with the
  hypothesis `ShortenedBetweenReports`, the condition the comment on the deadline needs:
  frames are shortened only while no processor holds a report it could still process. That the fast lane has `quorum`
  members is a bijection between an interval modulo the number of members and
  `1..quorum`.
* *Accounting report.* The invariant adds to `ExtraDataOfReport` that the extra data
  slot, the processed slot and the register's slot are ordered (`SlotsOrdered`),
  that a block comes at the start of its slot (`Aligned`), and that the slot of the
  register is processed or reached by a contract in use (`SlotIsReached`): so no
  register is ahead of the frame, and `NeverStalled` follows as a deadline lies a whole
  frame after its slot. With one contract a held report is the observation of the
  current frame or over its deadline (`HeldReport`), and until the extra data of the
  frame is in, operators that are not outdated have the counts observed
  (`RestIsCurrent`); `CountsAreComplete` follows, whatever reports were missed.
* *Batches.* `BatchesInv` says of the state between two calls what one loop over the whole
  queue would have reached: some request up to which all are in time, within the
  budget and few enough (`Within`), cut where a request does not extend the batch of the one
  before it (`Cut`), and either the rest of the budget or a next request that is too much
  (`Beyond`). A round keeps it (`RoundStep`), so a call does, a fold of any number of rounds
  (`CallKeeps`), and nothing in it tells where a call began. What is locked is compared with
  what was charged range by range (`RangeStep`): the truncations of the requests add up to
  less than a wei for each, and a whole range is cut or not as its requests are
  if they all are or none is (`BatchWorth`). Batches without `Mixed` requests are such
  ranges, request by request (`OneSide`); the sum over the batches goes from one to the next
  (`PrefixStep`).
* *Withdrawals.* `QueueInv` is `TypeOK`, that each request adds to both sums
  (`RequestsPositive`), and that checkpoints are ordered and every finalized
  request has a valid hint (`CheckpointsCover`). Ordered checkpoints give that a
  valid hint is the only one (`HintUnique`), so a payout does not depend on the
  caller's hint, and no action, finalization included, can change it
  (`PayoutStable`). A request is paid no more than it asked for because the
  product with a rate above the maximum is larger than the one with the maximum
  (`WorthBound`). `HoldersInv` adds that numbers not yet given to a request carry
  no approval, without which a new request could start with one to its owner.
* *Hints.* The search is a recursive function of a range of checkpoints, shown to
  exist by induction on the length of the range (`SearchExists`). It keeps the valid hint within the
  range, or stays beside it if the range does not hold it (`SearchFinds`).
* *Solvency.* `Backed` is `Solvent` with the payouts as a sum. A claim lowers both sides
  by the payout of the request. For a finalization, a batch is compared with its requests
  one by one in units of the precision (`RangeWorth`): together they ask for no less
  than they are paid, and are paid no more than their shares at the next higher rate; at the
  maximal rate itself if each of them is discounted. So a batch that is not discounted
  locks enough, and one whose requests all are, too; a batch that is discounted
  although all of its requests are below the rate is impossible (`BatchWorth`). In
  the rest one wei may lack, and then some request stands on the other side of the rate than the
  one before it (`OneSide`). That one wei is enough is where the hypothesis
  `WaitingWithinPrecision` enters: a share rate is truncated to 27 decimals, which makes
  no more than a wei for up to 10^27 shares, that is 10^9 whole ones, waiting at once. TLC's
  instance, of precision 100, also reaches queues of more shares than its precision.
  The batches are those of the daemon: the rounds of its fold leave in every batch only
  requests that join the one before (`RoundJoins`, `ChosenBatches`), which the
  mixed pairs count (`BatchesWorth`, `PairsGrow`).
* *Pool.* `StakingIsLimited` is not inductive: it must know what the structure
  still admits. `LimitInv` states that the stakes so far and the limit left at
  the last update do not exceed the first limit and its growth up to that
  update. A pause overwrites the block of the update with 0 and forgets the growth
  since, so while staking is paused the invariant allows growth up to the present
  block, where `resumeStaking` starts it again. The rest is in `PoolInv`: the
  shares are natural numbers that add up, and those of the initial holder stay
  (`TokenOK`); the buffer is the balance and no more validators are reported than
  deposited (`PoolOK`); the sums of the queue grow (`QueueOK`); and the batches of the
  report that waits are requests of the queue (`ReportOK`). The daemon's
  batches are a fold over the queue, whose rounds keep them within it (`RoundOK`).
  That checks of the report precede its effects is what makes the invariant
  inductive: nothing else bounds what a snapshot and the state it meets have to do with
  each other. `NoDilution` is arithmetic of
  truncating division in each conversion. `RebaseIsLimited` follows the four
  applications of the limiter, of which the last bounds the shares to burn by what the
  ace already added leaves of the limit. `HoldingsCovered` needs more than its own
  state: `_handleOracleReport` burns the queue's shares whenever the batches hold any
  (`0.4.24/Catalist.sol:1361`), but finalizes requests only for a positive
  amount of ace (`0.4.24/Catalist.sol:948`). A batch worth no ace at all would burn
  without finalizing. The theorem excludes it by `FinalizesWithAce`; the minimum of a
  withdrawal (100 wei) excludes it in the contract unless a share has lost nearly all its
  ace.
* *Snapshots.* `SnapshotOK` is what a report counts on while it waits: the checks of the
  balances hold, on numbers that only grow until it is processed (`BalancesHold`); the queue
  accepts its batches, and the buffer, with what the smoothing will take from the vaults, pays
  for their requests one by one (`BatchesHold`). The second holds when the snapshot is taken, since
  the daemon's loop never spends more than its budget (`Chosen`, `DaemonBatches`), and the
  budget is the buffer after a simulation that withdraws nothing. A stake raises
  the pool, so the limiter takes no less income (`IncomeGrows`); a deposit leaves in the buffer what
  unfinalized requests asked for, and those of the report are worth no more than that
  (`ChargedOK`): each request is cut to the rate, and the sum of what they ask for telescopes
  (`SumTelescopes`). Then `SnapshotPasses` goes through the checks: the lock is no more
  than was asked for (`LockAtMost`), the queue holds the shares (`HoldingsCovered`, which is why the
  theorem has the hypothesis `FinalizesWithAce`), and the limiter accepts what the pool can
  pay (`SmoothingTakes`). `RatesPositive` is there because `prefinalize` refuses a rate of zero
  (`ZeroShareRate`), which the daemon simulates only for a pool with less than 10^-27 wei
  of ace for a share.
* *Registry.* `Steps` sorts every step of `Next`, whatever program or caller takes it,
  into calls of the owners, the manager and the router, deposits, and steps that leave
  the registry alone. `RegInv` is the types, the counters and the maximum of each
  operator (`OperatorsOK`), the sums (`SummaryOK`) and `VettedKeysWereSeen`; the keys
  must be as many as an operator counts, or a removal by swap says nothing of what
  is left. A handler changes the operators it names and moves the sums by their
  differences, so `StoreOK` and `StoreKeeps` do the work once for all of them. A maximum
  is not stale though time passes, because a penalty ends only by a call that
  stores the maximum: `isOperatorPenaltyCleared` also asks that `penaltyEnd` is 0.
  `RemovedKeys` follows the loop of `removeKeysSigs` key by key. Recursive functions
  are shown to exist first (`RemovesExists`, `AllocatesExists`), by induction in the form
  of `UpTo`.
* *Allocation.* `LoopOK` is what holds between two rounds of `allocate`: no bucket is
  above its capacity, the buckets grew by what was allocated, and, for every bucket
  that received, what is left is enough to bring all others with room to within one of
  it (the sum of `Gap`, what they lack of a level). The last is the fairness in the
  form that is inductive: with nothing left it says that nobody lacks more than one. A
  round keeps it because the share is rounded up by less than one for each
  candidate (`CeilShare`, `OthersNeed`) and stops at the next fuller bucket with
  room (`RoundFacts`); lower levels are then covered by what is left (`LowLevelNeed`),
  higher ones lose exactly what was given (`HighLevelNeed`). As many rounds as keys are
  enough (`AllocateFacts`), since each gives at least one. The summary shows exactly
  the sum of the room (`RoomIsDepositable`), an inactive operator having none. The arrays
  of the code have `activeOperatorsCount` places: `ActiveOK` says that it counts
  the active operators.
* *Attestations.* `AttestationsOK` says of every nonce a depositer has read or sent that it is
  not ahead of the registry's and, if they are equal, that the keys on offer are
  those it saw with it. `NonceFollows` goes through the calls: each raises the nonce or
  leaves the keys on offer as they are. A refund changes how many are ready without
  raising it (`NonceCoversDepositData` is violated), and the theorem shows what that does
  not harm: it never changes which keys are taken, and in which order.
* *Files of keys.* Part `k` of a plan is the stretch of the file that follows part `k - 1`
  (`FileInParts`). The invariant says which part is sent, which waits in the pool of
  transactions and that what was added is the stretch up to there (`FileInv`); as a
  call of others changes none of it, only the program's own steps have to be followed;
  `NextPart` is the arithmetic of the next part.
* *Image.* `LedgerOK` says that the events up to block `ToBlock` account for the ledger at
  its end, or for the present one until then: for each address the transfers to it less those
  from it are its shares, the burner's at least. A call adds its events and moves the
  shares by the same amounts (`MintStep`, `TransferStep`, `RebaseStep`, `OneMoreLogged`); a
  call in a later block adds events that are not returned and moves shares that are not
  counted (`LateStep`). The image of the job is that sum over the events
  it is given (`ImageFacts`).
* *Caches.* `CacheIsFreshOrPending` speaks of what is shown; the invariant (`AppInv`) also of
  what is about to be. An answer already received is current, or an event that will make
  it be asked again still waits (`AnswersOK`); the list of operators, read one by one
  after their number, is so operator by operator (`DetailsOK`); an event being
  handled is one of those that refresh its variable, so a session that ends there and is
  sent it again loses nothing (`Control`, `RestartKeeps`). What the contracts owe
  the apps is one statement, proved call by call (`CallsTell`, `PoolTells`): a
  call leaves a tracked value as it is or emits one of its events. The marks
  around an old session are taken out by recursion (`UnmarkedFacts`), which must not take
  a waiting event with them: no mark refreshes anything (`RefreshedIsNews`).
* *Sums.* `Sums_proof` has the lemmas about sums over finite sets on which the
  shares, the summary of the registry and what the queue owes rest: the fold of the
  community modules is a function over subsets whose equation has exactly one solution. Induction is
  by a smallest counterexample (`SmallestSubset`, `UpTo`), since a theorem of induction with
  an operator parameter cannot be used.

Proving changed the models in eight places. The last clause of `BatchesAreAccepted`
was stated for all batches; the step of its proof that failed, for a batch with requests
on both sides of the rate, gave the run `FinalizationBatches_budget`, and
`ReportStaysValid` names the excess instead of its rounding; its own proof then took the
excess out of the lock that the limiter checks, too, which has the same cause. `submit` and `requestWithdrawals` convert by
`getSharesByPooledAce`, which gives no shares for a pool without ace: the guard
`PoolHasAce`. `RebaseIsLimited` says that such a pool and the limit
`type(uint64).max` have no limit, as `initLimiterState` decides. The report data
of `AccountingOracle` got a type of its own, of which `NoHash` is no member. Names, keys
and operators of the registry got types, and the storages it may start from the
assumption above. The binary search of `_findCheckpointHint` became a function of one
range instead of its two ends. The replay of the events became a sum over them instead of
a fold over addresses, and a new job sets all of its fields.

Only model-checked: `RateKeptWithoutLoss` and the deployment. The first is exact only on
instances: requests are paid at a truncated rate, fees and limiter round as well, and for arbitrary
numbers the rate may fall by parts of a wei that the property does not name. The
scripts of the deployment are concrete records built with `:>` and `@@`, which the provers
cannot expand. `EventuallyDeployed` is liveness and stays with TLC.

## What is not modelled

* Exit bus: its register is that of `BaseOracle`; the order of the exit requests, packed
  bytes of one report, is not modelled. Wrapped token: an ERC-20 that moves shares as any account of
  the pool does. Legacy oracle: a deprecated view.
* Staking router: one module with its status and deposits; there are no
  several modules with target shares, no exited counts per module and no module
  fees (the pool takes them as constants).
* Registry: distribution of rewards, `onRewardsMinted`, `setStuckPenaltyDelay`, packing
  of words and of keys. Deposit security: the setters of the limits, of the owner and of
  the validity of pauses.
* Accounting oracle: exited-validator items, their sort order and the data of
  the main report. Pool: allowances and permits,
  `unsafeChangeDepositedValidators`, the upgrade and the receiver of rebases; there
  the router is a source of fixed fees and deposits for as many validators as the
  depositable ace pays for, the consensus layer changes a balance by a loss or a gain
  in each report, and the daemon reports bunker mode with each loss.
* Apps: `apps/lidooracle` calls `getLido`, which the contract does not have, and never
  has a state; the panels are presentation.
* Programs: `scripts/staking-router.js`, `scripts/upgrade`,
  `interact-ace-devnet.js`, `interact-ace-mainnet.js`, `interact-local.js`, `deploy.js`,
  `mainnet-operator.js` and tasks that only read print or send one call and keep nothing; the profiling of gas and the
  hardhat configuration are tools.
* Left out for good: gas, storage packing, signatures, token metadata, vendored code
  (Aragon, OpenZeppelin, the deposit contract), roles outside the deployment (an administrative
  call may come at any time), and events but for those that a program reads. 64-bit fields of HashConsensus and
  the registry and the packed 128-bit fields of the queue are taken as unbounded:
  they hold slots, members, keys and wei that stay far below the width.

`PROJECT.json` lists four hazards that no property covers, each with the reason.

## Plan

1. Done: consensus, register, two-phase accounting report, batches, withdrawal
   queue, and their first proofs.
2. Done: pool, token, stake limit, burner, rebase limiter, vaults and the whole
   accounting report. Left: the composition with `WithdrawalQueue` instead of the
   part of it in `Catalist`, allowances and `WbACE`.
3. Done: registry with allocation, penalties and nonce; deposits with attestations;
   the programs of the operators and the app scripts; the deployment with crashes
   and its liveness.
4. Left: a router of several modules with exited counts that arrive in two phases; the
   exit bus; extra-data items of both types and their order; liveness of
   reporting under fairness of daemons and blocks.

Theorems still worth proving: that a run of the deployment scripts leaves one of each contract
(`OneDeployment`), once its scripts are given as functions over their steps, and
`RateKeptWithoutLoss` with its rounding named.
