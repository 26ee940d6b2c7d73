------------------------- MODULE FinalizationBatches -------------------------
(***************************************************************************)
(* How the oracle daemon calls calculateFinalizationBatches: it passes the *)
(* state a call returned to the next one until it says `finished`, with    *)
(* any limit on the requests handled by a call.  The queue does not change *)
(* meanwhile, as the daemon calls on the block of one reference slot.      *)
(*                                                                         *)
(* The queues are those requestWithdrawals makes: requests placed during   *)
(* the same report have the shares of their amount at one share rate.      *)
(***************************************************************************)
EXTENDS RequestBatches

CONSTANTS
  Amounts,        \* amounts of bACE asked for
  Rates,          \* share rates <<total pooled ace, total shares>>
  MaxRequests,    \* bound: longest queue
  MaxReport,      \* bound: reports 0 .. MaxReport
  Budgets,        \* budgets of the daemon
  MaxPerCall      \* bound: largest limit of a call

ASSUME FinalizationBatchesAssumption ==
  /\ Amounts \subseteq Nat \ {0} /\ Budgets \subseteq Nat \ {0}
  /\ Rates \subseteq (Nat \ {0}) \X (Nat \ {0})
  /\ \A a \in Amounts, r \in Rates : a * r[2] >= r[1]   \* a share at least
  /\ \A r \in Rates : r[1] * E27_PRECISION_BASE >= r[2] \* ZeroShareRate
  /\ MaxRequests \in Nat \ {0} /\ MaxReport \in Nat /\ MaxPerCall \in Nat \ {0}

VARIABLES
  queue, lastFinalized, maxShareRate, maxTimestamp, budget,
  state           \* BatchesCalculationState

vars == <<queue, lastFinalized, maxShareRate, maxTimestamp, budget, state>>

SharesByPooledAce(amount, rate) == (amount * rate[2]) \div rate[1]

ShareRateOf(rate) == (rate[1] * E27_PRECISION_BASE) \div rate[2]

QueueOf(amounts, reports, rates) ==
  LET shares(i) == SharesByPooledAce(amounts[i], rates[reports[i]])
  IN  [i \in DOMAIN amounts |->
         [cumulativeBACE   |-> MapThenSumSet(LAMBDA j : amounts[j], 1 .. i),
          cumulativeShares |-> MapThenSumSet(shares, 1 .. i),
          timestamp |-> i, reportTimestamp |-> reports[i]]]

Init ==
  /\ \E n \in 1 .. MaxRequests :
       \E amounts \in [1 .. n -> Amounts], reports \in [1 .. n -> 0 .. MaxReport],
          rates \in [0 .. MaxReport -> Rates] :
         /\ \A i \in 1 .. n - 1 : reports[i] <= reports[i + 1]
         /\ queue = QueueOf(amounts, reports, rates)
  /\ lastFinalized \in 0 .. Len(queue) - 1
  /\ maxShareRate \in {ShareRateOf(r) : r \in Rates}
  /\ maxTimestamp \in Len(queue) - 1 .. Len(queue)
  /\ budget \in Budgets
  /\ state = [remainingAceBudget |-> budget, batches |-> <<>>, finished |-> FALSE]

Call(maxRequests) ==
  /\ ~state.finished /\ state.remainingAceBudget # 0        \* InvalidState
  /\ state' = CalculateFinalizationBatches(queue, lastFinalized, maxShareRate,
                                           maxTimestamp, maxRequests, state)
  /\ UNCHANGED <<queue, lastFinalized, maxShareRate, maxTimestamp, budget>>

Next == \E n \in 1 .. MaxPerCall : Call(n)

Spec == Init /\ [][Next]_vars

-----------------------------------------------------------------------------
(* Properties *)

WorthOf(ids) ==
  MapThenSumSet(LAMBDA id : Worth(RequestOf(queue, id), maxShareRate), ids)

(* The requests that start a batch when everything up to k is batched. *)
Starts(k) ==
  {id \in lastFinalized + 1 .. k :
     id = lastFinalized + 1 \/ ~ExtendsBatch(queue, id, maxShareRate)}

Finalizable(k) ==
  /\ k > lastFinalized => queue[k].timestamp <= maxTimestamp
  /\ WorthOf(lastFinalized + 1 .. k) <= budget
  /\ Cardinality(Starts(k)) <= MAX_BATCHES_LENGTH

Handled == NextId(lastFinalized, state.batches) - 1

(* However the calculation is cut into calls, it ends at the last request  *)
(* up to which the budget, the time limit and the number of batches admit  *)
(* all requests, and the batches end where the next one starts: those are  *)
(* not the requests of one call but of the queue.                          *)
BatchesAreMaximal ==
  /\ Finalizable(Handled)
  /\ state.finished => Handled = Len(queue) \/ ~Finalizable(Handled + 1)
  /\ {state.batches[i] : i \in DOMAIN state.batches} =
       {id - 1 : id \in Starts(Handled) \ {lastFinalized + 1}}
         \cup ({Handled} \ {lastFinalized})

(* What is locked for the batches. *)
Lock == Prefinalize(queue, lastFinalized, state.batches, maxShareRate)

(* The rate lies between a request and the one before it in its batch. *)
Mixed ==
  {id \in lastFinalized + 1 .. Handled \ Starts(Handled) :
     (RequestOf(queue, id - 1).shareRate <= maxShareRate) #
       (RequestOf(queue, id).shareRate <= maxShareRate)}

(* prefinalize and finalize accept what the calculation returns: the ids   *)
(* are new and sorted and the ace to lock does not exceed the bACE asked   *)
(* for (TooMuchAceToFinalize), although it is rounded once for each batch  *)
(* and not for each request.  It exceeds the budget, from which requests   *)
(* were taken one by one, by that rounding only, as long as the requests   *)
(* of a batch are on one side of the rate.                                 *)
BatchesAreAccepted ==
  state.batches # <<>> =>
    /\ CanPrefinalize(queue, lastFinalized, state.batches, maxShareRate)
    /\ Lock <= CalcBatch(queue, lastFinalized, Handled).bACE
    /\ Mixed = {} => Lock + Len(state.batches) <= budget + (Handled - lastFinalized)

(* "How many requests can be finalized within the given budget" (comment   *)
(* of calculateFinalizationBatches): what is locked for them is within it, *)
(* up to a wei of rounding for each.                                       *)
LockedWithinBudget ==
  state.batches # <<>> => Lock <= budget + (Handled - lastFinalized)
=============================================================================
