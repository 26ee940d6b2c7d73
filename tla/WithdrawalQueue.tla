---------------------------- MODULE WithdrawalQueue ----------------------------
(***************************************************************************)
(* The withdrawal queue: users exchange bACE for a place in the queue, the *)
(* accounting report finalizes a prefix of it and locks the ace for it,    *)
(* and the holders claim (WithdrawalQueueBase, WithdrawalQueue and         *)
(* WithdrawalQueueERC721; they are one contract on chain).                 *)
(*                                                                         *)
(* Abstractions:                                                           *)
(*  - queue and checkpoints leave out the dummy entries at index 0.        *)
(*  - A call on a list of amounts or requests is that many actions with no *)
(*    other in between.  The wbACE calls differ in how the bACE arrives.   *)
(*  - The balance of the contract is lockedAceAmount: only finalize is     *)
(*    payable and only _claim pays.  A recipient that reverts undoes the   *)
(*    claim; one that calls back finds the state after it.                 *)
(*  - The callers' roles are left out, and finalize has the one caller it  *)
(*    is meant for: the accounting report, which first sets the timestamp  *)
(*    (onOracleReport) and then locks what prefinalize says for the        *)
(*    batches the daemon has chosen.  The daemon chooses on the block of   *)
(*    the reference slot; the requests that came later are too young, so   *)
(*    choosing when the report is processed is the same.                   *)
(*  - The token is external: one share rate <<pooled ace, shares>>, which  *)
(*    changes with the report.                                             *)
(***************************************************************************)
EXTENDS RequestBatches

CONSTANTS
  Owners,              \* accounts
  None,                \* address(0)
  Amounts,             \* amounts of bACE between the limits of a request
  Rates,               \* share rates of the token
  Budgets,             \* ace the daemon may spend on a report
  BunkerModes,         \* modes a report may set
  PauseArguments,      \* durations of a pause, and last seconds of one
  PAUSE_INFINITELY, BUNKER_MODE_DISABLED_TIMESTAMP,   \* type(uint256).max
  MaxRequests,         \* bound: requests in the queue
  MaxTime              \* bound: the clock stops here

ASSUME WithdrawalQueueAssumption ==
  /\ None \notin Owners
  /\ Amounts \subseteq Nat \ {0} /\ Budgets \subseteq Nat \ {0}
  /\ Rates \subseteq (Nat \ {0}) \X (Nat \ {0})
  /\ \A a \in Amounts, r \in Rates : a * r[2] >= r[1]   \* a share at least
  /\ PauseArguments \subseteq Nat \ {0} /\ BunkerModes \subseteq BOOLEAN
  /\ MaxRequests \in Nat /\ MaxTime \in Nat
  /\ PAUSE_INFINITELY \in Nat /\ PAUSE_INFINITELY > MaxTime
  /\ BUNKER_MODE_DISABLED_TIMESTAMP \in Nat
  /\ BUNKER_MODE_DISABLED_TIMESTAMP > MaxTime

VARIABLES
  now,                       \* block.timestamp
  queue, lastFinalizedRequestId, checkpoints, lockedAceAmount,
  requestsByOwner, tokenApprovals, operatorApprovals,
  lastReportTimestamp, bunkerModeSinceTimestamp,
  resumeSinceTimestamp,      \* PausableUntil
  rate                       \* of the token

requestVars  == <<queue, requestsByOwner>>
finalVars    == <<lastFinalizedRequestId, checkpoints>>
approvalVars == <<tokenApprovals, operatorApprovals>>
reportVars   == <<lastReportTimestamp, bunkerModeSinceTimestamp, rate>>
vars == <<now, requestVars, finalVars, lockedAceAmount, approvalVars,
          reportVars, resumeSinceTimestamp>>

WithdrawalRequest ==
  [cumulativeBACE : Nat, cumulativeShares : Nat, owner : Owners,
   timestamp : Nat, claimed : BOOLEAN, reportTimestamp : Nat]

Checkpoint == [fromRequestId : Nat \ {0}, maxShareRate : Nat]

RequestIds == 1 .. MaxRequests

TypeOK ==
  /\ now \in 0 .. MaxTime
  /\ queue \in Seq(WithdrawalRequest)
  /\ lastFinalizedRequestId \in 0 .. Len(queue)
  /\ checkpoints \in Seq(Checkpoint)
  /\ lockedAceAmount \in Nat
  /\ requestsByOwner \in [Owners -> SUBSET Nat]
  /\ tokenApprovals \in [RequestIds -> Owners \cup {None}]
  /\ operatorApprovals \in [Owners -> SUBSET Owners]
  /\ lastReportTimestamp \in Nat
  /\ bunkerModeSinceTimestamp \in Nat
  /\ resumeSinceTimestamp \in Nat
  /\ rate \in Rates

Init ==
  /\ now = 0
  /\ queue = <<>> /\ lastFinalizedRequestId = 0
  /\ checkpoints = <<>> /\ lockedAceAmount = 0
  /\ requestsByOwner = [o \in Owners |-> {}]
  /\ tokenApprovals = [id \in RequestIds |-> None]
  /\ operatorApprovals = [o \in Owners |-> {}]
  /\ lastReportTimestamp = 0
  /\ bunkerModeSinceTimestamp = BUNKER_MODE_DISABLED_TIMESTAMP
  /\ resumeSinceTimestamp = PAUSE_INFINITELY
  /\ rate \in Rates

-----------------------------------------------------------------------------
(* PausableUntil *)

IsPaused == now < resumeSinceTimestamp

SetPausedState(resumeSince) ==
  /\ resumeSinceTimestamp' = resumeSince
  /\ UNCHANGED <<now, requestVars, finalVars, lockedAceAmount, approvalVars,
                 reportVars>>

Resume == IsPaused /\ SetPausedState(now)

PauseFor(duration) ==
  /\ ~IsPaused                                            \* ResumedExpected
  /\ SetPausedState(IF duration = PAUSE_INFINITELY THEN PAUSE_INFINITELY
                                                   ELSE now + duration)

PauseUntil(pauseUntilInclusive) ==
  /\ ~IsPaused                                            \* ResumedExpected
  /\ pauseUntilInclusive >= now                           \* PauseUntilMustBeInFuture
  /\ SetPausedState(IF pauseUntilInclusive = PAUSE_INFINITELY
                      THEN PAUSE_INFINITELY ELSE pauseUntilInclusive + 1)

-----------------------------------------------------------------------------
(* Requests *)

SharesByPooledAce(amount) == (amount * rate[2]) \div rate[1]

RequestWithdrawal(owner, amount) ==
  LET id   == Len(queue) + 1
      last == At(queue, Len(queue))
  IN  /\ ~IsPaused                                        \* ResumedExpected
      /\ id <= MaxRequests
      /\ queue' = Append(queue,
           [cumulativeBACE   |-> last.cumulativeBACE + amount,
            cumulativeShares |-> last.cumulativeShares + SharesByPooledAce(amount),
            owner |-> owner, timestamp |-> now, claimed |-> FALSE,
            reportTimestamp |-> lastReportTimestamp])
      /\ requestsByOwner' = [requestsByOwner EXCEPT ![owner] = @ \cup {id}]
      /\ UNCHANGED <<now, finalVars, lockedAceAmount, approvalVars, reportVars,
                     resumeSinceTimestamp>>

-----------------------------------------------------------------------------
(* Finalization *)

(* Mutant: the checkpoint covers the last finalized request once more. *)
AddCheckpointTooEarly(maxShareRate) ==
  Append(checkpoints, [fromRequestId |-> lastFinalizedRequestId,
                       maxShareRate  |-> maxShareRate])

AddCheckpoint(maxShareRate) ==
  Append(checkpoints, [fromRequestId |-> lastFinalizedRequestId + 1,
                       maxShareRate  |-> maxShareRate])

Finalize(lastRequestId, amount, maxShareRate) ==
  /\ ~IsPaused                                            \* ResumedExpected
  /\ lastRequestId \in lastFinalizedRequestId + 1 .. Len(queue)
                                                          \* InvalidRequestId
  /\ amount \in 0 .. CalcBatch(queue, lastFinalizedRequestId, lastRequestId).bACE
                                                          \* TooMuchAceToFinalize
  /\ checkpoints' = AddCheckpoint(maxShareRate)
  /\ lockedAceAmount' = lockedAceAmount + amount
  /\ lastFinalizedRequestId' = lastRequestId

OnOracleReport(isBunkerModeNow, bunkerStart, reportTimestamp) ==
  /\ bunkerStart < now /\ reportTimestamp < now           \* InvalidReportTimestamp
  /\ lastReportTimestamp' = reportTimestamp
  /\ bunkerModeSinceTimestamp' =
       IF ~isBunkerModeNow THEN BUNKER_MODE_DISABLED_TIMESTAMP
       ELSE IF bunkerModeSinceTimestamp < BUNKER_MODE_DISABLED_TIMESTAMP
              THEN bunkerModeSinceTimestamp ELSE bunkerStart

ShareRateOf(r) == (r[1] * E27_PRECISION_BASE) \div r[2]

BatchesWithin(budget, maxShareRate, maxTimestamp) ==
  CalculateFinalizationBatches(queue, lastFinalizedRequestId, maxShareRate,
    maxTimestamp, Len(queue) + 1,
    [remainingAceBudget |-> budget, batches |-> <<>>, finished |-> FALSE]).batches

(* The report that brings the token to `newRate`.  A paused queue is left  *)
(* alone by it, and so is one without batches or with nothing to lock.     *)
AccountingReport(reportTimestamp, isBunkerModeNow, budget, newRate) ==
  LET maxShareRate == ShareRateOf(newRate)
      batches == BatchesWithin(budget, maxShareRate, reportTimestamp)
      ace == Prefinalize(queue, lastFinalizedRequestId, batches, maxShareRate)
  IN  /\ OnOracleReport(isBunkerModeNow, lastReportTimestamp, reportTimestamp)
      /\ rate' = newRate
      /\ IF batches # <<>> /\ ~IsPaused
           THEN /\ CanPrefinalize(queue, lastFinalizedRequestId, batches, maxShareRate)
                /\ IF ace > 0 THEN Finalize(Last(batches), ace, maxShareRate)
                              ELSE UNCHANGED <<finalVars, lockedAceAmount>>
           ELSE UNCHANGED <<finalVars, lockedAceAmount>>
      /\ UNCHANGED <<now, requestVars, approvalVars, resumeSinceTimestamp>>

-----------------------------------------------------------------------------
(* Checkpoints and claims *)

(* The checks of _calculateClaimableAce: the request lies between the      *)
(* checkpoint and the next one.                                            *)
IsValidHint(id, hint) ==
  /\ hint \in DOMAIN checkpoints
  /\ checkpoints[hint].fromRequestId <= id
  /\ hint < Len(checkpoints) => id < checkpoints[hint + 1].fromRequestId

(* Mutant: a checkpoint that starts at the request itself is passed over. *)
SearchHintBelow(id, start, end) ==
  LET search[range \in (0 .. Len(checkpoints)) \X (0 .. Len(checkpoints))] ==
        LET min == range[1]
            max == range[2]
            mid == (max + min + 1) \div 2
        IN  IF max <= min THEN min
            ELSE IF checkpoints[mid].fromRequestId < id
              THEN search[<<mid, max>>] ELSE search[<<min, mid - 1>>]
  IN  search[<<start, end>>]

(* The binary search of _findCheckpointHint. *)
SearchHint(id, start, end) ==
  LET search[range \in (0 .. Len(checkpoints)) \X (0 .. Len(checkpoints))] ==
        LET min == range[1]
            max == range[2]
            mid == (max + min + 1) \div 2
        IN  IF max <= min THEN min
            ELSE IF checkpoints[mid].fromRequestId <= id
              THEN search[<<mid, max>>] ELSE search[<<min, mid - 1>>]
  IN  search[<<start, end>>]

FindCheckpointHint(id, start, end) ==
  LET last == Len(checkpoints)
      from(i) == checkpoints[i].fromRequestId
  IN  IF last = 0 \/ id > lastFinalizedRequestId \/ start > end THEN 0
      ELSE IF id >= from(end)
        THEN IF end = last \/ id < from(end + 1) THEN end ELSE 0
      ELSE IF id < from(start) THEN 0
      ELSE SearchHint(id, start, end - 1)

CalculateClaimableAce(id, hint) ==
  Worth(RequestOf(queue, id), checkpoints[hint].maxShareRate)

Claim(sender, id, hint) ==
  /\ id \in 1 .. lastFinalizedRequestId   \* InvalidRequestId, RequestNotFoundOrNotFinalized
  /\ ~queue[id].claimed                   \* RequestAlreadyClaimed
  /\ queue[id].owner = sender             \* NotOwner
  /\ IsValidHint(id, hint)                \* InvalidHint
  /\ CalculateClaimableAce(id, hint) <= lockedAceAmount   \* underflow
  /\ queue' = [queue EXCEPT ![id].claimed = TRUE]
  /\ requestsByOwner' = [requestsByOwner EXCEPT ![sender] = @ \ {id}]
  /\ lockedAceAmount' = lockedAceAmount - CalculateClaimableAce(id, hint)
  /\ UNCHANGED <<now, finalVars, approvalVars, reportVars, resumeSinceTimestamp>>

(* claimWithdrawals and claimWithdrawalsTo, with the caller's hint. *)
ClaimWithdrawals(sender, id, hint) == Claim(sender, id, hint)

ClaimWithdrawal(sender, id) ==
  id <= Len(queue) /\ Claim(sender, id, FindCheckpointHint(id, 1, Len(checkpoints)))

-----------------------------------------------------------------------------
(* The requests as ERC-721 tokens *)

IsUnclaimed(id) == id \in 1 .. Len(queue) /\ ~queue[id].claimed

Approve(sender, to, id) ==
  /\ IsUnclaimed(id)               \* InvalidRequestId, RequestAlreadyClaimed
  /\ to # queue[id].owner                                 \* ApprovalToOwner
  /\ \/ sender = queue[id].owner
     \/ sender \in operatorApprovals[queue[id].owner]     \* NotOwnerOrApprovedForAll
  /\ tokenApprovals' = [tokenApprovals EXCEPT ![id] = to]
  /\ UNCHANGED <<now, requestVars, finalVars, lockedAceAmount, operatorApprovals,
                 reportVars, resumeSinceTimestamp>>

SetApprovalForAll(sender, operator, approved) ==
  /\ operator # sender                                    \* ApproveToCaller
  /\ operatorApprovals' = [operatorApprovals EXCEPT ![sender] =
                             IF approved THEN @ \cup {operator} ELSE @ \ {operator}]
  /\ UNCHANGED <<now, requestVars, finalVars, lockedAceAmount, tokenApprovals,
                 reportVars, resumeSinceTimestamp>>

(* Mutant: the approval of the last holder stays. *)
KeepApproval(id) == tokenApprovals

ClearApproval(id) == [tokenApprovals EXCEPT ![id] = None]

(* Mutant: the request is only added to the new owner's. *)
AddToOwner(from, to, id) == [requestsByOwner EXCEPT ![to] = @ \cup {id}]

MoveToOwner(from, to, id) ==
  [requestsByOwner EXCEPT ![from] = @ \ {id}, ![to] = @ \cup {id}]

TransferFrom(sender, to, id) ==
  LET from == queue[id].owner                             \* TransferFromIncorrectOwner
  IN  /\ IsUnclaimed(id)           \* InvalidRequestId, RequestAlreadyClaimed
      /\ to # from                                        \* TransferToThemselves
      /\ \/ sender = from
         \/ sender \in operatorApprovals[from]
         \/ sender = tokenApprovals[id]                   \* NotOwnerOrApproved
      /\ tokenApprovals' = ClearApproval(id)
      /\ queue' = [queue EXCEPT ![id].owner = to]
      /\ requestsByOwner' = MoveToOwner(from, to, id)
      /\ UNCHANGED <<now, finalVars, lockedAceAmount, operatorApprovals,
                     reportVars, resumeSinceTimestamp>>

-----------------------------------------------------------------------------

Tick ==
  /\ now < MaxTime
  /\ now' = now + 1
  /\ UNCHANGED <<requestVars, finalVars, lockedAceAmount, approvalVars,
                 reportVars, resumeSinceTimestamp>>

Next ==
  \/ Resume
  \/ \E d \in PauseArguments : PauseFor(d)
  \/ \E t \in PauseArguments : PauseUntil(t)
  \/ \E o \in Owners, a \in Amounts : RequestWithdrawal(o, a)
  \/ \E t \in lastReportTimestamp + 1 .. now, b \in BunkerModes, ace \in Budgets,
        r \in Rates : AccountingReport(t, b, ace, r)
  \/ \E o \in Owners, id \in RequestIds, hint \in 1 .. MaxRequests :
        ClaimWithdrawals(o, id, hint)
  \/ \E o \in Owners, id \in RequestIds : ClaimWithdrawal(o, id)
  \/ \E o \in Owners, to \in Owners \cup {None}, id \in RequestIds : Approve(o, to, id)
  \/ \E o, p \in Owners, yes \in BOOLEAN : SetApprovalForAll(o, p, yes)
  \/ \E o, to \in Owners, id \in RequestIds : TransferFrom(o, to, id)
  \/ Tick

Spec == Init /\ [][Next]_vars

-----------------------------------------------------------------------------
(* Properties *)

(* The set of requests of an account is what a walk over the queue finds:  *)
(* its unclaimed requests; so the asserts on the sets never fail.          *)
OwnersConsistent ==
  \A o \in Owners :
    requestsByOwner[o] = {id \in DOMAIN queue : queue[id].owner = o /\ ~queue[id].claimed}

(* Every finalized request has exactly one valid hint, and the search of   *)
(* _findCheckpointHint over any range returns it if the range holds it and *)
(* "not found" otherwise.                                                  *)
HintsAreFound ==
  \A id \in 1 .. lastFinalizedRequestId :
    /\ Cardinality({h \in DOMAIN checkpoints : IsValidHint(id, h)}) = 1
    /\ \A start, end \in DOMAIN checkpoints :
         LET hint == FindCheckpointHint(id, start, end)
         IN  IF \E h \in start .. end : IsValidHint(id, h)
               THEN hint \in start .. end /\ IsValidHint(id, hint)
               ELSE hint = 0

Payout(id) ==
  CalculateClaimableAce(id, CHOOSE h \in DOMAIN checkpoints : IsValidHint(id, h))

Claimable ==
  MapThenSumSet(Payout, {id \in 1 .. lastFinalizedRequestId : ~queue[id].claimed})

(* The finalized requests that follow one of the same report on the other  *)
(* side of the share rate they were finalized at: only those are batched   *)
(* together although one is discounted and the other is not.               *)
MixedPairs ==
  {id \in 2 .. lastFinalizedRequestId :
     /\ queue[id - 1].reportTimestamp = queue[id].reportTimestamp
     /\ \E h \in DOMAIN checkpoints :
          /\ IsValidHint(id, h) /\ IsValidHint(id - 1, h)
          /\ (RequestOf(queue, id).shareRate <= checkpoints[h].maxShareRate) #
               (RequestOf(queue, id - 1).shareRate <= checkpoints[h].maxShareRate)}

(* Solvency: the locked ace pays all finalized and unclaimed requests, in  *)
(* whatever order they are claimed, though it was computed batch by batch  *)
(* and they are paid one by one; a batch of one report with requests on    *)
(* both sides of the rate may lack one wei, though "some dust (1-2 wei per *)
(* request) will be accumulated upon claiming" (comment in _claim).        *)
Solvent == Claimable <= lockedAceAmount + Cardinality(MixedPairs)

(* The requests of one holder never carry an approval to himself: an       *)
(* approval does not outlive the ownership it was given under.             *)
NoStaleApproval ==
  \A id \in DOMAIN queue : ~queue[id].claimed => tokenApprovals[id] # queue[id].owner

(* The cumulative sums, checkpoints and hints amount to a ledger of fixed  *)
(* payouts.                                                                *)
Ledger == INSTANCE WithdrawalLedger
  WITH Holders <- Owners,
       amounts <- [id \in DOMAIN queue |-> RequestOf(queue, id).bACE],
       holders <- [id \in DOMAIN queue |-> queue[id].owner],
       payouts <- [id \in 1 .. lastFinalizedRequestId |-> Payout(id)],
       paid    <- {id \in DOMAIN queue : queue[id].claimed}

ImplementsLedger == Ledger!Spec
=============================================================================
