---------------------------- MODULE RequestBatches ----------------------------
(***************************************************************************)
(* The arithmetic of the withdrawal queue: what a range of requests is     *)
(* worth, what has to be locked to finalize batches of them, and how the   *)
(* oracle daemon chooses the batches (WithdrawalQueueBase.sol).            *)
(*                                                                         *)
(* A queue is a sequence of requests; each carries the sums of bACE and of *)
(* shares over itself and all requests before it.  The dummy request at    *)
(* index 0 of the mapping is the value of At(queue, 0).                    *)
(***************************************************************************)
EXTENDS Naturals, Sequences, SequencesExt, FiniteSetsExt

CONSTANTS
  E27_PRECISION_BASE,   \* precision of a share rate
  MAX_BATCHES_LENGTH    \* longest array of batches

ASSUME PrecisionAssumption ==
  /\ E27_PRECISION_BASE \in Nat \ {0}
  /\ MAX_BATCHES_LENGTH \in Nat \ {0}

At(queue, id) ==
  IF id = 0 THEN [cumulativeBACE |-> 0, cumulativeShares |-> 0]
            ELSE [cumulativeBACE   |-> queue[id].cumulativeBACE,
                  cumulativeShares |-> queue[id].cumulativeShares]

(* The requests after `from` up to `to`. *)
CalcBatch(queue, from, to) ==
  LET bACE   == At(queue, to).cumulativeBACE - At(queue, from).cumulativeBACE
      shares == At(queue, to).cumulativeShares - At(queue, from).cumulativeShares
  IN  [bACE |-> bACE, shares |-> shares,
       shareRate |-> (bACE * E27_PRECISION_BASE) \div shares]

(* Mutant: the smaller of the two share rates is not the one that counts. *)
DiscountTheOthers(batch, maxShareRate) ==
  IF batch.shareRate <= maxShareRate
    THEN (batch.shares * maxShareRate) \div E27_PRECISION_BASE
    ELSE batch.bACE

(* Above the rate a batch is worth its shares at that rate, otherwise what *)
(* was asked for.                                                          *)
Worth(batch, maxShareRate) ==
  IF batch.shareRate > maxShareRate
    THEN (batch.shares * maxShareRate) \div E27_PRECISION_BASE
    ELSE batch.bACE

-----------------------------------------------------------------------------
(* prefinalize *)

CanPrefinalize(queue, lastFinalized, batches, maxShareRate) ==
  /\ maxShareRate # 0                                       \* ZeroShareRate
  /\ batches # <<>>                                         \* EmptyBatches
  /\ batches[1] > lastFinalized /\ Last(batches) <= Len(queue)
                                                            \* InvalidRequestId
  /\ \A i \in 1 .. Len(batches) - 1 : batches[i] < batches[i + 1]
                                                            \* BatchesAreNotSorted

BatchOf(queue, lastFinalized, batches, i) ==
  CalcBatch(queue, IF i = 1 THEN lastFinalized ELSE batches[i - 1], batches[i])

(* Mutant: the range is valued as a whole, not batch by batch. *)
PrefinalizeAsOne(queue, lastFinalized, batches, maxShareRate) ==
  Worth(CalcBatch(queue, lastFinalized, Last(batches)), maxShareRate)

(* The ace to lock; the shares to burn are those of the whole range. *)
Prefinalize(queue, lastFinalized, batches, maxShareRate) ==
  MapThenSumSet(LAMBDA i : Worth(BatchOf(queue, lastFinalized, batches, i),
                                 maxShareRate),
                DOMAIN batches)

-----------------------------------------------------------------------------
(* calculateFinalizationBatches *)

RequestOf(queue, id) == CalcBatch(queue, id - 1, id)

(* A request joins the batch of the one before it when both were made      *)
(* during the same report or both are on the same side of the rate.        *)
ExtendsBatch(queue, id, maxShareRate) ==
  \/ queue[id - 1].reportTimestamp = queue[id].reportTimestamp
  \/ (RequestOf(queue, id - 1).shareRate <= maxShareRate) =
       (RequestOf(queue, id).shareRate <= maxShareRate)

(* One round of the loop; `stopped` stands for its three breaks. *)
HandleRequest(queue, maxShareRate, maxTimestamp, st, id) ==
  LET ace     == Worth(RequestOf(queue, id), maxShareRate)
      extends == st.batches # <<>> /\ ExtendsBatch(queue, id, maxShareRate)
      spent   == [st EXCEPT !.remainingAceBudget = @ - ace]
  IN  IF st.stopped \/ queue[id].timestamp > maxTimestamp \/ ace > st.remainingAceBudget
        THEN [st EXCEPT !.stopped = TRUE]
      ELSE IF extends
        THEN [spent EXCEPT !.batches[Len(st.batches)] = id]
      ELSE IF Len(st.batches) = MAX_BATCHES_LENGTH
        THEN [spent EXCEPT !.stopped = TRUE]
        ELSE [spent EXCEPT !.batches = Append(st.batches, id)]

NextId(lastFinalized, batches) ==
  (IF batches = <<>> THEN lastFinalized ELSE Last(batches)) + 1

(* Mutant: reaching the limit of the call is an end as well (<= for <). *)
IsFinishedEachCall(stopped, handledUpTo, queue) == TRUE

IsFinished(stopped, handledUpTo, queue) == stopped \/ handledUpTo = Len(queue)

(* One call, on at most `maxRequests` requests after those of `state`. *)
CalculateFinalizationBatches(queue, last, maxRate, maxTime, maxRequests, state) ==
  LET first == NextId(last, state.batches)
      upTo  == IF first + maxRequests > Len(queue) + 1
                 THEN Len(queue) ELSE first + maxRequests - 1
      run   == FoldLeft(LAMBDA st, id : HandleRequest(queue, maxRate, maxTime, st, id),
                 [remainingAceBudget |-> state.remainingAceBudget,
                  batches |-> state.batches, stopped |-> FALSE],
                 [i \in 1 .. upTo + 1 - first |-> first + i - 1])
  IN  [remainingAceBudget |-> run.remainingAceBudget, batches |-> run.batches,
       finished |-> IsFinished(run.stopped, upTo, queue)]
=============================================================================
