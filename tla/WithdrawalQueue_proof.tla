------------------------- MODULE WithdrawalQueue_proof -------------------------
(***************************************************************************)
(* Theorems about the withdrawal queue: its types, the sets of requests by *)
(* owner, the approvals, the hints, that it implements the ledger of fixed *)
(* payouts, and that it stays solvent.                                     *)
(*                                                                         *)
(* QueueInv, an inductive invariant about the sums and the checkpoints,    *)
(* serves them all; HoldersInv adds what concerns owners and approvals,    *)
(* Backed what is locked.                                                  *)
(***************************************************************************)
EXTENDS WithdrawalQueue, Sums_proof, SequenceTheorems, TLAPS

(* Every request asks for some bACE and is backed by some shares: the      *)
(* cumulative sums of the queue strictly grow.                             *)
RequestsPositive ==
  \A id \in 1 .. Len(queue) :
    RequestOf(queue, id).bACE \in Nat \ {0} /\ RequestOf(queue, id).shares \in Nat \ {0}

(* A number that no request has yet carries no approval.                   *)
UnusedUnapproved ==
  /\ Len(queue) <= MaxRequests
  /\ \A id \in RequestIds : id > Len(queue) => tokenApprovals[id] = None

(* The checkpoints start at finalized requests, each after the one before, *)
(* and every finalized request lies in the range of one of them.           *)
CheckpointsCover ==
  /\ \A i \in 1 .. Len(checkpoints) :
       checkpoints[i].fromRequestId \in 1 .. lastFinalizedRequestId
  /\ \A i, j \in 1 .. Len(checkpoints) :
       i < j => checkpoints[i].fromRequestId < checkpoints[j].fromRequestId
  /\ \A id \in 1 .. lastFinalizedRequestId :
       \E h \in 1 .. Len(checkpoints) : IsValidHint(id, h)

QueueInv == TypeOK /\ RequestsPositive /\ CheckpointsCover

-----------------------------------------------------------------------------
(* Arithmetic and sequences *)

LEMMA QuotientBound ==
  ASSUME NEW a \in Nat, NEW b \in Nat \ {0}
  PROVE  /\ a \div b \in Nat
         /\ (a \div b) * b <= a
         /\ a < (a \div b + 1) * b
OBVIOUS

LEMMA ProductMonotone ==
  ASSUME NEW a \in Nat, NEW b \in Nat, NEW c \in Nat, a <= b
  PROVE  a * c \in Nat /\ b * c \in Nat /\ a * c <= b * c
OBVIOUS

LEMMA FunctionIsSequence ==
  ASSUME NEW S, NEW n \in Nat, NEW f \in [1 .. n -> S]
  PROVE  f \in Seq(S) /\ Len(f) = n
<1>1. f \in Seq(S)
  BY SeqDef
<1>2. Len(f) \in Nat /\ 1 .. Len(f) = 1 .. n
  BY <1>1, LenProperties
<1> QED BY <1>1, <1>2

(* What a request is made of, with the dummy entry before the first.       *)
LEMMA RequestFields ==
  ASSUME NEW q \in Seq(WithdrawalRequest), NEW id \in 1 .. Len(q)
  PROVE  /\ At(q, id) = [cumulativeBACE   |-> q[id].cumulativeBACE,
                         cumulativeShares |-> q[id].cumulativeShares]
         /\ RequestOf(q, id) =
              [bACE   |-> At(q, id).cumulativeBACE - At(q, id - 1).cumulativeBACE,
               shares |-> At(q, id).cumulativeShares - At(q, id - 1).cumulativeShares,
               shareRate |-> ((At(q, id).cumulativeBACE - At(q, id - 1).cumulativeBACE)
                                * E27_PRECISION_BASE)
                              \div (At(q, id).cumulativeShares
                                      - At(q, id - 1).cumulativeShares)]
  BY DEF At, RequestOf, CalcBatch

LEMMA AtType ==
  ASSUME NEW q \in Seq(WithdrawalRequest), NEW id \in 0 .. Len(q)
  PROVE  At(q, id) \in [cumulativeBACE : Nat, cumulativeShares : Nat]
<1>1. CASE id = 0
  BY <1>1 DEF At
<1>2. CASE id # 0
  <2>1. q[id] \in WithdrawalRequest
    BY <1>2, ElementOfSeq
  <2> QED BY <1>2, <2>1 DEF At, WithdrawalRequest
<1> QED BY <1>1, <1>2

(* A request is worth its sums: it does not depend on those behind it.     *)
LEMMA SameRequest ==
  ASSUME NEW q, NEW r, NEW id \in Nat \ {0},
         \A i \in 1 .. id : /\ q[i].cumulativeBACE = r[i].cumulativeBACE
                            /\ q[i].cumulativeShares = r[i].cumulativeShares
  PROVE  RequestOf(q, id) = RequestOf(r, id)
<1>1. At(q, id) = At(r, id)
  BY DEF At
<1>2. At(q, id - 1) = At(r, id - 1)
  <2>1. CASE id = 1
    BY <2>1 DEF At
  <2>2. CASE id # 1
    <3>1. id - 1 \in 1 .. id /\ id - 1 # 0
      BY <2>2
    <3> QED BY <3>1 DEF At
  <2> QED BY <2>1, <2>2
<1> QED BY <1>1, <1>2 DEF RequestOf, CalcBatch

(* Above the rate a request is paid less than it asked for, never more.    *)
LEMMA WorthBound ==
  ASSUME NEW q \in Seq(WithdrawalRequest), NEW id \in 1 .. Len(q),
         RequestOf(q, id).bACE \in Nat \ {0}, RequestOf(q, id).shares \in Nat \ {0},
         NEW m \in Nat
  PROVE  /\ Worth(RequestOf(q, id), m) \in Nat
         /\ Worth(RequestOf(q, id), m) <= RequestOf(q, id).bACE
<1> DEFINE b == RequestOf(q, id).bACE
           s == RequestOf(q, id).shares
           rateOf == (b * E27_PRECISION_BASE) \div s
<1>1. RequestOf(q, id).shareRate = rateOf
  BY RequestFields
<1>2. b \in Nat /\ s \in Nat \ {0} /\ E27_PRECISION_BASE \in Nat \ {0}
  BY PrecisionAssumption
<1>3. Worth(RequestOf(q, id), m) =
        IF rateOf > m THEN (s * m) \div E27_PRECISION_BASE ELSE b
  BY <1>1 DEF Worth
<1> HIDE DEF b, s
<1>4. b * E27_PRECISION_BASE \in Nat /\ s * m \in Nat /\ s * m = m * s
  BY <1>2, ProductMonotone
<1>5. rateOf \in Nat /\ rateOf * s <= b * E27_PRECISION_BASE
  BY <1>2, <1>4, QuotientBound
<1> HIDE DEF rateOf
<1>6. (s * m) \div E27_PRECISION_BASE \in Nat
  BY <1>2, <1>4, QuotientBound
<1>7. ASSUME rateOf > m
      PROVE  (s * m) \div E27_PRECISION_BASE <= b
  <2> DEFINE p == (s * m) \div E27_PRECISION_BASE
  <2>1. m * s \in Nat /\ rateOf * s \in Nat /\ m * s <= rateOf * s
    BY <1>2, <1>5, <1>7, ProductMonotone
  <2>2. p * E27_PRECISION_BASE <= s * m
    BY <1>2, <1>4, QuotientBound
  <2> HIDE DEF p
  <2>3. p \in Nat
    BY <1>6 DEF p
  <2>4. p * E27_PRECISION_BASE \in Nat
        /\ p * E27_PRECISION_BASE <= b * E27_PRECISION_BASE
    BY <1>2, <1>4, <1>5, <2>1, <2>2, <2>3, ProductMonotone
  <2>5. ASSUME b + 1 <= p
        PROVE  FALSE
    <3>1. (b + 1) * E27_PRECISION_BASE <= p * E27_PRECISION_BASE
      BY <1>2, <2>3, <2>5, ProductMonotone
    <3>2. (b + 1) * E27_PRECISION_BASE = b * E27_PRECISION_BASE + E27_PRECISION_BASE
      BY <1>2
    <3> QED BY <1>2, <1>4, <2>4, <3>1, <3>2
  <2>6. p <= b
    BY <1>2, <2>3, <2>5
  <2> QED BY <2>6 DEF p
<1>8. Worth(RequestOf(q, id), m) \in Nat /\ Worth(RequestOf(q, id), m) <= b
  BY <1>2, <1>3, <1>6, <1>7
<1> QED BY <1>8 DEF b
-----------------------------------------------------------------------------
(* What the actions do *)

(* Actions that leave the requests, checkpoints and locked ace alone.      *)
Quiet ==
  /\ UNCHANGED <<requestVars, finalVars, lockedAceAmount, tokenApprovals>>
  /\ now' \in 0 .. MaxTime /\ resumeSinceTimestamp' \in Nat
  /\ operatorApprovals' \in [Owners -> SUBSET Owners]
  /\ lastReportTimestamp' \in Nat /\ bunkerModeSinceTimestamp' \in Nat
  /\ rate' \in Rates

LEMMA QuietActions ==
  ASSUME TypeOK
  PROVE  /\ Resume => Quiet
         /\ \A d \in PauseArguments : PauseFor(d) => Quiet
         /\ \A t \in PauseArguments : PauseUntil(t) => Quiet
         /\ \A o, p \in Owners, yes \in BOOLEAN : SetApprovalForAll(o, p, yes) => Quiet
         /\ Tick => Quiet
<1>1. now \in 0 .. MaxTime /\ now \in Nat /\ MaxTime \in Nat
      /\ PAUSE_INFINITELY \in Nat /\ PauseArguments \subseteq Nat
      /\ operatorApprovals \in [Owners -> SUBSET Owners]
      /\ lastReportTimestamp \in Nat /\ bunkerModeSinceTimestamp \in Nat
      /\ resumeSinceTimestamp \in Nat /\ rate \in Rates
  BY WithdrawalQueueAssumption DEF TypeOK
<1>2. ASSUME NEW s \in Nat, SetPausedState(s)
      PROVE  Quiet
  BY <1>1, <1>2 DEF SetPausedState, Quiet, requestVars, finalVars, approvalVars,
                    reportVars
<1>3. Resume => Quiet
  BY <1>1, <1>2 DEF Resume
<1>4. \A d \in PauseArguments : PauseFor(d) => Quiet
  <2> SUFFICES ASSUME NEW d \in PauseArguments, PauseFor(d) PROVE Quiet
    OBVIOUS
  <2>1. now + d \in Nat
    BY <1>1
  <2> QED BY <1>1, <1>2, <2>1 DEF PauseFor
<1>5. \A t \in PauseArguments : PauseUntil(t) => Quiet
  <2> SUFFICES ASSUME NEW t \in PauseArguments, PauseUntil(t) PROVE Quiet
    OBVIOUS
  <2>1. t + 1 \in Nat
    BY <1>1
  <2> QED BY <1>1, <1>2, <2>1 DEF PauseUntil
<1>6. \A o, p \in Owners, yes \in BOOLEAN : SetApprovalForAll(o, p, yes) => Quiet
  BY <1>1 DEF SetApprovalForAll, Quiet, requestVars, finalVars, reportVars
<1>7. Tick => Quiet
  BY <1>1 DEF Tick, Quiet, requestVars, finalVars, approvalVars, reportVars
<1> QED BY <1>3, <1>4, <1>5, <1>6, <1>7

(* A report changes the share rate and either nothing of the queue or what *)
(* finalize changes.                                                       *)
LEMMA ReportAction ==
  ASSUME TypeOK, NEW t \in Nat, NEW isBunker \in BOOLEAN, NEW budget \in Budgets,
         NEW r \in Rates, AccountingReport(t, isBunker, budget, r)
  PROVE  \/ Quiet
         \/ /\ UNCHANGED <<now, requestVars, approvalVars, resumeSinceTimestamp>>
            /\ lastReportTimestamp' \in Nat /\ bunkerModeSinceTimestamp' \in Nat
            /\ rate' \in Rates
            /\ \E last, amount : Finalize(last, amount, ShareRateOf(r))
<1> DEFINE batches == BatchesWithin(budget, ShareRateOf(r), t)
           ace == Prefinalize(queue, lastFinalizedRequestId, batches, ShareRateOf(r))
<1>1. /\ UNCHANGED <<now, requestVars, approvalVars, resumeSinceTimestamp>>
      /\ OnOracleReport(isBunker, lastReportTimestamp, t) /\ rate' = r
      /\ \/ UNCHANGED <<finalVars, lockedAceAmount>>
         \/ Finalize(Last(batches), ace, ShareRateOf(r))
  BY DEF AccountingReport
<1> HIDE DEF batches, ace
<1>2. lastReportTimestamp' \in Nat /\ bunkerModeSinceTimestamp' \in Nat
  BY <1>1, WithdrawalQueueAssumption DEF OnOracleReport, TypeOK
<1>3. CASE UNCHANGED <<finalVars, lockedAceAmount>>
  BY <1>1, <1>2, <1>3 DEF Quiet, TypeOK, approvalVars
<1>4. CASE Finalize(Last(batches), ace, ShareRateOf(r))
  BY <1>1, <1>2, <1>4
<1> QED BY <1>1, <1>3, <1>4

LEMMA ShareRateType ==
  ASSUME NEW r \in Rates PROVE ShareRateOf(r) \in Nat
<1>1. r[1] \in Nat /\ r[2] \in Nat \ {0}
  BY WithdrawalQueueAssumption
<1>2. r[1] * E27_PRECISION_BASE \in Nat
  BY <1>1, PrecisionAssumption
<1> QED BY <1>1, <1>2, QuotientBound DEF ShareRateOf

(* A new request has at least one share.                                   *)
LEMMA SharesPositive ==
  ASSUME TypeOK, NEW a \in Amounts
  PROVE  a \in Nat \ {0} /\ SharesByPooledAce(a) \in Nat \ {0}
<1>1. /\ a \in Nat \ {0}
      /\ rate[1] \in Nat \ {0} /\ rate[2] \in Nat \ {0}
      /\ a * rate[2] >= rate[1]
  BY WithdrawalQueueAssumption DEF TypeOK
<1> DEFINE p == a * rate[2]
           d == rate[1]
<1>2. p \in Nat /\ d \in Nat \ {0} /\ p >= d
  BY <1>1
<1> HIDE DEF p, d
<1>3. p \div d \in Nat \ {0}
  BY <1>2
<1> QED BY <1>1, <1>3 DEF SharesByPooledAce, p, d
(* What a new request does to the queue.                                   *)
LEMMA RequestEffect ==
  ASSUME TypeOK, NEW o \in Owners, NEW a \in Amounts, RequestWithdrawal(o, a)
  PROVE  /\ queue' \in Seq(WithdrawalRequest)
         /\ Len(queue) \in Nat /\ Len(queue') = Len(queue) + 1
         /\ Len(queue') <= MaxRequests
         /\ \A i \in 1 .. Len(queue) :
              queue'[i] = queue[i] /\ RequestOf(queue', i) = RequestOf(queue, i)
         /\ queue'[Len(queue) + 1].owner = o /\ ~queue'[Len(queue) + 1].claimed
         /\ RequestOf(queue', Len(queue) + 1).bACE \in Nat \ {0}
         /\ RequestOf(queue', Len(queue) + 1).shares \in Nat \ {0}
<1> DEFINE n == Len(queue)
           last == At(queue, n)
           e == [cumulativeBACE   |-> last.cumulativeBACE + a,
                 cumulativeShares |-> last.cumulativeShares + SharesByPooledAce(a),
                 owner |-> o, timestamp |-> now, claimed |-> FALSE,
                 reportTimestamp |-> lastReportTimestamp]
<1>1. queue \in Seq(WithdrawalRequest) /\ n \in Nat
      /\ now \in Nat /\ lastReportTimestamp \in Nat
  BY LenProperties, WithdrawalQueueAssumption DEF TypeOK
<1>2. queue' = Append(queue, e) /\ n + 1 <= MaxRequests
  BY DEF RequestWithdrawal
<1>3. last.cumulativeBACE \in Nat /\ last.cumulativeShares \in Nat
  BY <1>1, AtType
<1>4. a \in Nat \ {0} /\ SharesByPooledAce(a) \in Nat \ {0}
  BY SharesPositive
<1> HIDE DEF n, last
<1>5. e \in WithdrawalRequest
  BY <1>1, <1>3, <1>4 DEF WithdrawalRequest
<1> DEFINE q == Append(queue, e)
<1>6. /\ q \in Seq(WithdrawalRequest) /\ Len(q) = n + 1
      /\ \A i \in 1 .. n : q[i] = queue[i]
      /\ q[n + 1] = e
  BY <1>1, <1>5, AppendProperties DEF n
<1>7. /\ q[n + 1].cumulativeBACE = last.cumulativeBACE + a
      /\ q[n + 1].cumulativeShares = last.cumulativeShares + SharesByPooledAce(a)
      /\ q[n + 1].owner = o /\ ~q[n + 1].claimed
  BY <1>6
<1> HIDE DEF e, q
<1>8. \A i \in 1 .. n : RequestOf(q, i) = RequestOf(queue, i)
  <2> SUFFICES ASSUME NEW i \in 1 .. n PROVE RequestOf(q, i) = RequestOf(queue, i)
    OBVIOUS
  <2>1. \A j \in 1 .. i : q[j] = queue[j]
    BY <1>1, <1>6
  <2> QED BY <1>1, <2>1, SameRequest
<1>9. At(q, n) = last
  <2>1. CASE n = 0
    BY <2>1 DEF At, last
  <2>2. CASE n # 0
    <3>1. q[n] = queue[n]
      BY <1>1, <1>6, <2>2
    <3> QED BY <2>2, <3>1 DEF At, last
  <2> QED BY <2>1, <2>2
<1>10. /\ RequestOf(q, n + 1).bACE = a
       /\ RequestOf(q, n + 1).shares = SharesByPooledAce(a)
  <2>1. n + 1 \in 1 .. Len(q) /\ (n + 1) - 1 = n
    BY <1>1, <1>6
  <2>2. /\ At(q, n + 1).cumulativeBACE = last.cumulativeBACE + a
        /\ At(q, n + 1).cumulativeShares = last.cumulativeShares + SharesByPooledAce(a)
    BY <1>6, <1>7, <2>1, RequestFields
  <2>3. /\ RequestOf(q, n + 1).bACE = At(q, n + 1).cumulativeBACE - At(q, n).cumulativeBACE
        /\ RequestOf(q, n + 1).shares
             = At(q, n + 1).cumulativeShares - At(q, n).cumulativeShares
    BY <1>6, <2>1 DEF RequestOf, CalcBatch
  <2> QED BY <1>3, <1>4, <1>9, <2>2, <2>3
<1>11. queue' = q
  BY <1>2 DEF q, e
<1> QED BY <1>1, <1>2, <1>4, <1>6, <1>7, <1>8, <1>10, <1>11 DEF n

(* Claims and transfers touch one request and none of its sums.            *)
LEMMA UpdateEffect ==
  ASSUME TypeOK, NEW id \in 1 .. Len(queue), NEW e \in WithdrawalRequest,
         e.cumulativeBACE = queue[id].cumulativeBACE,
         e.cumulativeShares = queue[id].cumulativeShares,
         queue' = [queue EXCEPT ![id] = e]
  PROVE  /\ queue' \in Seq(WithdrawalRequest)
         /\ Len(queue) \in Nat /\ Len(queue') = Len(queue)
         /\ \A i \in 1 .. Len(queue) :
              /\ queue'[i] = IF i = id THEN e ELSE queue[i]
              /\ RequestOf(queue', i) = RequestOf(queue, i)
<1>1. queue \in Seq(WithdrawalRequest) /\ Len(queue) \in Nat
  BY LenProperties DEF TypeOK
<1> DEFINE q == [queue EXCEPT ![id] = e]
<1>2. /\ q \in Seq(WithdrawalRequest) /\ Len(q) = Len(queue)
      /\ \A i \in 1 .. Len(queue) : q[i] = IF i = id THEN e ELSE queue[i]
  BY <1>1, ExceptSeq
<1> HIDE DEF q
<1>3. \A i \in 1 .. Len(queue) : RequestOf(q, i) = RequestOf(queue, i)
  <2> SUFFICES ASSUME NEW i \in 1 .. Len(queue)
               PROVE  RequestOf(q, i) = RequestOf(queue, i)
    OBVIOUS
  <2>1. \A j \in 1 .. i : /\ q[j].cumulativeBACE = queue[j].cumulativeBACE
                          /\ q[j].cumulativeShares = queue[j].cumulativeShares
    BY <1>1, <1>2
  <2> QED BY <1>1, <2>1, SameRequest
<1>4. queue' = q
  BY DEF q
<1> QED BY <1>1, <1>2, <1>3, <1>4

LEMMA ClaimEffect ==
  ASSUME TypeOK, RequestsPositive, NEW o \in Owners, NEW id, NEW hint, Claim(o, id, hint)
  PROVE  /\ id \in 1 .. lastFinalizedRequestId /\ id \in 1 .. Len(queue)
         /\ ~queue[id].claimed /\ queue[id].owner = o
         /\ queue' \in Seq(WithdrawalRequest)
         /\ Len(queue) \in Nat /\ Len(queue') = Len(queue)
         /\ \A i \in 1 .. Len(queue) :
              /\ queue'[i].owner = queue[i].owner
              /\ queue'[i].claimed = (queue[i].claimed \/ i = id)
              /\ RequestOf(queue', i) = RequestOf(queue, i)
         /\ lockedAceAmount' \in Nat
         /\ UNCHANGED <<now, finalVars, approvalVars, reportVars, resumeSinceTimestamp>>
<1> DEFINE e == [queue[id] EXCEPT !.claimed = TRUE]
<1>1. /\ id \in 1 .. lastFinalizedRequestId /\ ~queue[id].claimed
      /\ queue[id].owner = o /\ IsValidHint(id, hint)
      /\ queue' = [queue EXCEPT ![id] = e]
      /\ CalculateClaimableAce(id, hint) <= lockedAceAmount
      /\ lockedAceAmount' = lockedAceAmount - CalculateClaimableAce(id, hint)
      /\ UNCHANGED <<now, finalVars, approvalVars, reportVars, resumeSinceTimestamp>>
  BY DEF Claim
<1>2. queue \in Seq(WithdrawalRequest) /\ Len(queue) \in Nat
      /\ lockedAceAmount \in Nat /\ checkpoints \in Seq(Checkpoint)
      /\ lastFinalizedRequestId \in 0 .. Len(queue)
  BY LenProperties DEF TypeOK
<1>3. id \in 1 .. Len(queue)
  BY <1>1, <1>2
<1>4. queue[id] \in WithdrawalRequest
  BY <1>2, <1>3, ElementOfSeq
<1>5. /\ e \in WithdrawalRequest /\ e.claimed = TRUE
      /\ e.owner = queue[id].owner
      /\ e.cumulativeBACE = queue[id].cumulativeBACE
      /\ e.cumulativeShares = queue[id].cumulativeShares
  BY <1>4 DEF WithdrawalRequest
<1> HIDE DEF e
<1>6. /\ queue' \in Seq(WithdrawalRequest) /\ Len(queue') = Len(queue)
      /\ \A i \in 1 .. Len(queue) :
           /\ queue'[i] = IF i = id THEN e ELSE queue[i]
           /\ RequestOf(queue', i) = RequestOf(queue, i)
  BY <1>1, <1>3, <1>5, UpdateEffect
<1>7. \A i \in 1 .. Len(queue) : /\ queue'[i].owner = queue[i].owner
                                 /\ queue'[i].claimed = (queue[i].claimed \/ i = id)
  <2> SUFFICES ASSUME NEW i \in 1 .. Len(queue)
               PROVE  /\ queue'[i].owner = queue[i].owner
                      /\ queue'[i].claimed = (queue[i].claimed \/ i = id)
    OBVIOUS
  <2>1. queue[i].claimed \in BOOLEAN
    <3>1. queue[i] \in WithdrawalRequest
      BY <1>2, ElementOfSeq
    <3> QED BY <3>1 DEF WithdrawalRequest
  <2>2. CASE i = id
    BY <1>5, <1>6, <2>2
  <2>3. CASE i # id
    BY <1>6, <2>1, <2>3
  <2> QED BY <2>2, <2>3
<1>8. CalculateClaimableAce(id, hint) \in Nat
  <2>1. hint \in 1 .. Len(checkpoints)
    BY <1>1, <1>2, LenProperties DEF IsValidHint
  <2>2. checkpoints[hint].maxShareRate \in Nat
    <3>1. checkpoints[hint] \in Checkpoint
      BY <1>2, <2>1, ElementOfSeq
    <3> QED BY <3>1 DEF Checkpoint
  <2> QED BY <1>2, <1>3, <2>2, WorthBound DEF RequestsPositive, CalculateClaimableAce
<1>9. lockedAceAmount' \in Nat
  BY <1>1, <1>2, <1>8
<1> QED BY <1>1, <1>2, <1>3, <1>6, <1>7, <1>9

LEMMA TransferEffect ==
  ASSUME TypeOK, NEW o \in Owners, NEW to \in Owners, NEW id \in RequestIds,
         TransferFrom(o, to, id)
  PROVE  /\ id \in 1 .. Len(queue) /\ ~queue[id].claimed
         /\ queue[id].owner \in Owners /\ to # queue[id].owner
         /\ queue' \in Seq(WithdrawalRequest)
         /\ Len(queue) \in Nat /\ Len(queue') = Len(queue)
         /\ \A i \in 1 .. Len(queue) :
              /\ queue'[i].owner = IF i = id THEN to ELSE queue[i].owner
              /\ queue'[i].claimed = queue[i].claimed
              /\ RequestOf(queue', i) = RequestOf(queue, i)
         /\ tokenApprovals' = ClearApproval(id)
         /\ requestsByOwner' = MoveToOwner(queue[id].owner, to, id)
         /\ UNCHANGED <<now, finalVars, lockedAceAmount, operatorApprovals,
                        reportVars, resumeSinceTimestamp>>
<1> DEFINE e == [queue[id] EXCEPT !.owner = to]
<1>1. /\ IsUnclaimed(id) /\ to # queue[id].owner
      /\ queue' = [queue EXCEPT ![id] = e]
      /\ tokenApprovals' = ClearApproval(id)
      /\ requestsByOwner' = MoveToOwner(queue[id].owner, to, id)
      /\ UNCHANGED <<now, finalVars, lockedAceAmount, operatorApprovals,
                     reportVars, resumeSinceTimestamp>>
  BY DEF TransferFrom
<1>2. queue \in Seq(WithdrawalRequest) /\ Len(queue) \in Nat
  BY LenProperties DEF TypeOK
<1>3. id \in 1 .. Len(queue) /\ ~queue[id].claimed
  BY <1>1 DEF IsUnclaimed
<1>4. queue[id] \in WithdrawalRequest
  BY <1>2, <1>3, ElementOfSeq
<1>5. /\ e \in WithdrawalRequest /\ queue[id].owner \in Owners
      /\ e.owner = to /\ e.claimed = queue[id].claimed
      /\ e.cumulativeBACE = queue[id].cumulativeBACE
      /\ e.cumulativeShares = queue[id].cumulativeShares
  BY <1>4 DEF WithdrawalRequest
<1> HIDE DEF e
<1>6. /\ queue' \in Seq(WithdrawalRequest) /\ Len(queue') = Len(queue)
      /\ \A i \in 1 .. Len(queue) :
           /\ queue'[i] = IF i = id THEN e ELSE queue[i]
           /\ RequestOf(queue', i) = RequestOf(queue, i)
  BY <1>1, <1>3, <1>5, UpdateEffect
<1>7. \A i \in 1 .. Len(queue) :
        /\ queue'[i].owner = IF i = id THEN to ELSE queue[i].owner
        /\ queue'[i].claimed = queue[i].claimed
  <2> SUFFICES ASSUME NEW i \in 1 .. Len(queue)
               PROVE  /\ queue'[i].owner = IF i = id THEN to ELSE queue[i].owner
                      /\ queue'[i].claimed = queue[i].claimed
    OBVIOUS
  <2>1. CASE i = id
    BY <1>5, <1>6, <2>1
  <2>2. CASE i # id
    BY <1>6, <2>2
  <2> QED BY <2>1, <2>2
<1> QED BY <1>1, <1>2, <1>3, <1>5, <1>6, <1>7

(* A checkpoint is added behind the others and covers the requests that    *)
(* are finalized with it; the hints of the older requests stay valid.      *)
LEMMA FinalizeEffect ==
  ASSUME TypeOK, RequestsPositive, CheckpointsCover,
         NEW last, NEW amount, NEW m \in Nat, Finalize(last, amount, m)
  PROVE  /\ last \in lastFinalizedRequestId + 1 .. Len(queue)
         /\ lastFinalizedRequestId' = last /\ lockedAceAmount' \in Nat
         /\ checkpoints' \in Seq(Checkpoint)
         /\ Len(checkpoints) \in Nat /\ Len(checkpoints') = Len(checkpoints) + 1
         /\ \A i \in 1 .. Len(checkpoints) : checkpoints'[i] = checkpoints[i]
         /\ checkpoints'[Len(checkpoints) + 1].fromRequestId = lastFinalizedRequestId + 1
         /\ checkpoints'[Len(checkpoints) + 1].maxShareRate = m
         /\ \A id \in 1 .. lastFinalizedRequestId, h \in 1 .. Len(checkpoints) :
              IsValidHint(id, h) => IsValidHint(id, h)'
         /\ \A id \in lastFinalizedRequestId + 1 .. last, h \in {Len(checkpoints) + 1} :
              IsValidHint(id, h)'
<1> DEFINE c == [fromRequestId |-> lastFinalizedRequestId + 1, maxShareRate |-> m]
           n == Len(checkpoints)
<1>1. /\ last \in lastFinalizedRequestId + 1 .. Len(queue)
      /\ amount \in 0 .. CalcBatch(queue, lastFinalizedRequestId, last).bACE
      /\ checkpoints' = Append(checkpoints, c)
      /\ lockedAceAmount' = lockedAceAmount + amount
      /\ lastFinalizedRequestId' = last
  BY DEF Finalize, AddCheckpoint
<1>2. /\ checkpoints \in Seq(Checkpoint) /\ n \in Nat
      /\ queue \in Seq(WithdrawalRequest) /\ Len(queue) \in Nat
      /\ lastFinalizedRequestId \in 0 .. Len(queue) /\ lockedAceAmount \in Nat
  BY LenProperties DEF TypeOK
<1>3. c \in Checkpoint
  BY <1>2 DEF Checkpoint
<1>4. lockedAceAmount' \in Nat
  BY <1>1, <1>2
<1>5. /\ checkpoints' \in Seq(Checkpoint) /\ Len(checkpoints') = n + 1
      /\ \A i \in 1 .. n : checkpoints'[i] = checkpoints[i]
      /\ checkpoints'[n + 1] = c
  BY <1>1, <1>2, <1>3, AppendProperties
<1>6. c.fromRequestId = lastFinalizedRequestId + 1 /\ c.maxShareRate = m
  OBVIOUS
<1> HIDE DEF c
<1>7. DOMAIN checkpoints = 1 .. n /\ DOMAIN checkpoints' = 1 .. n + 1
  BY <1>2, <1>5, LenProperties
<1>8. ASSUME NEW id \in 1 .. lastFinalizedRequestId, NEW h \in 1 .. n,
             IsValidHint(id, h)
      PROVE  IsValidHint(id, h)'
  <2>1. checkpoints'[h].fromRequestId <= id /\ h \in DOMAIN checkpoints'
    BY <1>2, <1>5, <1>7, <1>8 DEF IsValidHint
  <2>2. CASE h < n
    <3>1. h + 1 \in 1 .. n
      BY <1>2, <2>2
    <3> QED BY <1>5, <1>8, <2>1, <2>2, <3>1 DEF IsValidHint
  <2>3. CASE h = n
    <3>1. id < checkpoints'[h + 1].fromRequestId
      BY <1>2, <1>5, <1>6, <2>3
    <3> QED BY <2>1, <3>1 DEF IsValidHint
  <2> QED BY <1>2, <2>2, <2>3
<1>9. \A id \in lastFinalizedRequestId + 1 .. last, h \in {n + 1} : IsValidHint(id, h)'
  <2> SUFFICES ASSUME NEW id \in lastFinalizedRequestId + 1 .. last,
                      NEW h, h = n + 1
               PROVE  IsValidHint(id, h)'
    OBVIOUS
  <2>1. h \in DOMAIN checkpoints' /\ ~(h < Len(checkpoints'))
    BY <1>2, <1>5, <1>7
  <2>2. checkpoints'[h].fromRequestId <= id
    BY <1>2, <1>5, <1>6
  <2> QED BY <2>1, <2>2 DEF IsValidHint
<1> QED BY <1>1, <1>2, <1>4, <1>5, <1>6, <1>8, <1>9

-----------------------------------------------------------------------------
(* The inductive invariant *)

LEMMA QueueInit == ASSUME Init PROVE QueueInv
<1>1. queue = <<>> /\ queue \in Seq(WithdrawalRequest) /\ Len(queue) = 0
      /\ checkpoints = <<>> /\ checkpoints \in Seq(Checkpoint) /\ Len(checkpoints) = 0
  BY EmptySeq DEF Init
<1>2. TypeOK
  BY <1>1, WithdrawalQueueAssumption DEF Init, TypeOK
<1>3. RequestsPositive
  BY <1>1 DEF RequestsPositive
<1>4. CheckpointsCover
  BY <1>1 DEF Init, CheckpointsCover
<1> QED BY <1>2, <1>3, <1>4 DEF QueueInv

LEMMA QuietStep ==
  ASSUME QueueInv, Quiet PROVE QueueInv'
<1>1. TypeOK'
  BY DEF QueueInv, Quiet, TypeOK, requestVars, finalVars
<1>2. RequestsPositive'
  BY DEF QueueInv, Quiet, RequestsPositive, requestVars
<1>3. CheckpointsCover'
  BY DEF QueueInv, Quiet, CheckpointsCover, IsValidHint, finalVars
<1> QED BY <1>1, <1>2, <1>3 DEF QueueInv

LEMMA RequestStep ==
  ASSUME QueueInv, NEW o \in Owners, NEW a \in Amounts, RequestWithdrawal(o, a)
  PROVE  QueueInv'
<1> USE DEF QueueInv
<1>1. UNCHANGED <<now, finalVars, lockedAceAmount, approvalVars, reportVars,
                  resumeSinceTimestamp>>
      /\ requestsByOwner' = [requestsByOwner EXCEPT ![o] = @ \cup {Len(queue) + 1}]
  BY DEF RequestWithdrawal
<1>2. Len(queue) \in Nat /\ Len(queue') = Len(queue) + 1
      /\ queue' \in Seq(WithdrawalRequest)
  BY RequestEffect
<1>3. TypeOK'
  <2>1. lastFinalizedRequestId' \in 0 .. Len(queue')
    BY <1>1, <1>2 DEF TypeOK, finalVars
  <2>2. requestsByOwner' \in [Owners -> SUBSET Nat]
    BY <1>1, <1>2 DEF TypeOK
  <2> QED BY <1>1, <1>2, <2>1, <2>2 DEF TypeOK, finalVars, approvalVars, reportVars
<1>4. RequestsPositive'
  <2> SUFFICES ASSUME NEW i \in 1 .. Len(queue')
               PROVE  /\ RequestOf(queue', i).bACE \in Nat \ {0}
                      /\ RequestOf(queue', i).shares \in Nat \ {0}
    BY DEF RequestsPositive
  <2>1. i \in 1 .. Len(queue) \/ i = Len(queue) + 1
    BY <1>2
  <2> QED BY <2>1, RequestEffect DEF RequestsPositive
<1>5. CheckpointsCover'
  BY <1>1 DEF CheckpointsCover, IsValidHint, finalVars
<1> QED BY <1>3, <1>4, <1>5

LEMMA ClaimStep ==
  ASSUME QueueInv, NEW o \in Owners, NEW id, NEW hint, Claim(o, id, hint)
  PROVE  QueueInv'
<1> USE DEF QueueInv
<1>1. /\ UNCHANGED <<now, finalVars, approvalVars, reportVars, resumeSinceTimestamp>>
      /\ queue' \in Seq(WithdrawalRequest) /\ Len(queue') = Len(queue)
      /\ lockedAceAmount' \in Nat
      /\ \A i \in 1 .. Len(queue) : RequestOf(queue', i) = RequestOf(queue, i)
  BY ClaimEffect
<1>2. requestsByOwner' = [requestsByOwner EXCEPT ![o] = @ \ {id}]
  BY DEF Claim
<1>3. TypeOK'
  BY <1>1, <1>2 DEF TypeOK, finalVars, approvalVars, reportVars
<1>4. RequestsPositive'
  BY <1>1 DEF RequestsPositive
<1>5. CheckpointsCover'
  BY <1>1 DEF CheckpointsCover, IsValidHint, finalVars
<1> QED BY <1>3, <1>4, <1>5

LEMMA ApproveStep ==
  ASSUME QueueInv, NEW o \in Owners, NEW to \in Owners \cup {None},
         NEW id \in RequestIds, Approve(o, to, id)
  PROVE  QueueInv'
<1> USE DEF QueueInv
<1>1. /\ UNCHANGED <<now, requestVars, finalVars, lockedAceAmount, operatorApprovals,
                     reportVars, resumeSinceTimestamp>>
      /\ tokenApprovals' = [tokenApprovals EXCEPT ![id] = to]
  BY DEF Approve
<1>2. TypeOK'
  BY <1>1 DEF TypeOK, requestVars, finalVars, reportVars
<1>3. RequestsPositive'
  BY <1>1 DEF RequestsPositive, requestVars
<1>4. CheckpointsCover'
  BY <1>1 DEF CheckpointsCover, IsValidHint, finalVars
<1> QED BY <1>2, <1>3, <1>4

LEMMA TransferStep ==
  ASSUME QueueInv, NEW o \in Owners, NEW to \in Owners, NEW id \in RequestIds,
         TransferFrom(o, to, id)
  PROVE  QueueInv'
<1> USE DEF QueueInv
<1>1. /\ UNCHANGED <<now, finalVars, lockedAceAmount, operatorApprovals,
                     reportVars, resumeSinceTimestamp>>
      /\ queue' \in Seq(WithdrawalRequest) /\ Len(queue') = Len(queue)
      /\ \A i \in 1 .. Len(queue) : RequestOf(queue', i) = RequestOf(queue, i)
      /\ tokenApprovals' = ClearApproval(id)
      /\ requestsByOwner' = MoveToOwner(queue[id].owner, to, id)
  BY TransferEffect
<1>2. requestsByOwner' \in [Owners -> SUBSET Nat]
  <2>1. id \in Nat /\ requestsByOwner \in [Owners -> SUBSET Nat]
    BY DEF TypeOK, RequestIds
  <2> QED BY <1>1, <2>1 DEF MoveToOwner
<1>3. TypeOK'
  BY <1>1, <1>2 DEF TypeOK, ClearApproval, finalVars, reportVars
<1>4. RequestsPositive'
  BY <1>1 DEF RequestsPositive
<1>5. CheckpointsCover'
  BY <1>1 DEF CheckpointsCover, IsValidHint, finalVars
<1> QED BY <1>3, <1>4, <1>5

LEMMA FinalizeStep ==
  ASSUME QueueInv, UNCHANGED <<now, requestVars, approvalVars, resumeSinceTimestamp>>,
         lastReportTimestamp' \in Nat, bunkerModeSinceTimestamp' \in Nat, rate' \in Rates,
         NEW last, NEW amount, NEW m \in Nat, Finalize(last, amount, m)
  PROVE  QueueInv'
<1> USE DEF QueueInv
<1> DEFINE n == Len(checkpoints)
           final == lastFinalizedRequestId
<1>1. /\ last \in final + 1 .. Len(queue) /\ lastFinalizedRequestId' = last
      /\ lockedAceAmount' \in Nat
      /\ checkpoints' \in Seq(Checkpoint) /\ n \in Nat /\ Len(checkpoints') = n + 1
      /\ \A i \in 1 .. n : checkpoints'[i] = checkpoints[i]
      /\ checkpoints'[n + 1].fromRequestId = final + 1
      /\ \A id \in 1 .. final, h \in 1 .. n : IsValidHint(id, h) => IsValidHint(id, h)'
      /\ \A id \in final + 1 .. last, h \in {n + 1} : IsValidHint(id, h)'
  BY FinalizeEffect
<1>2. final \in Nat /\ Len(queue) \in Nat /\ final <= Len(queue)
  BY LenProperties DEF TypeOK
<1>3. TypeOK'
  BY <1>1, <1>2 DEF TypeOK, requestVars, approvalVars
<1>4. RequestsPositive'
  BY DEF RequestsPositive, requestVars
<1>5. CheckpointsCover'
  <2>1. \A i \in 1 .. n + 1 : i \in 1 .. n \/ i = n + 1
    BY <1>1
  <2>2. \A i \in 1 .. n : checkpoints[i].fromRequestId \in 1 .. final
    BY DEF CheckpointsCover
  <2>3. \A i \in 1 .. n + 1 : checkpoints'[i].fromRequestId \in 1 .. last
    <3> SUFFICES ASSUME NEW i \in 1 .. n + 1
                 PROVE  checkpoints'[i].fromRequestId \in 1 .. last
      OBVIOUS
    <3>1. CASE i \in 1 .. n
      BY <1>1, <1>2, <2>2, <3>1
    <3>2. CASE i = n + 1
      BY <1>1, <1>2, <3>2
    <3> QED BY <2>1, <3>1, <3>2
  <2>4. ASSUME NEW i \in 1 .. n + 1, NEW j \in 1 .. n + 1, i < j
        PROVE  checkpoints'[i].fromRequestId < checkpoints'[j].fromRequestId
    <3>1. i \in 1 .. n
      BY <1>1, <2>4
    <3>2. CASE j \in 1 .. n
      <4>1. checkpoints[i].fromRequestId < checkpoints[j].fromRequestId
        BY <2>4, <3>1, <3>2 DEF CheckpointsCover
      <4>2. checkpoints'[i] = checkpoints[i] /\ checkpoints'[j] = checkpoints[j]
        BY <1>1, <3>1, <3>2
      <4> QED BY <4>1, <4>2
    <3>3. CASE j = n + 1
      <4>1. checkpoints'[i] = checkpoints[i] /\ checkpoints'[j].fromRequestId = final + 1
        BY <1>1, <3>1, <3>3
      <4>2. checkpoints[i].fromRequestId \in 1 .. final
        BY <2>2, <3>1
      <4> QED BY <1>2, <4>1, <4>2
    <3> QED BY <2>1, <3>2, <3>3
  <2>5. ASSUME NEW id \in 1 .. last
        PROVE  \E h \in 1 .. n + 1 : IsValidHint(id, h)'
    <3>1. CASE id \in 1 .. final
      <4>1. PICK h \in 1 .. n : IsValidHint(id, h)
        BY <3>1 DEF CheckpointsCover
      <4>2. h \in 1 .. n + 1 /\ IsValidHint(id, h)'
        BY <1>1, <3>1, <4>1
      <4> QED BY <4>2
    <3>2. CASE id \notin 1 .. final
      <4>1. id \in final + 1 .. last /\ n + 1 \in 1 .. n + 1
        BY <1>1, <1>2, <3>2
      <4>2. \A h \in {n + 1} : IsValidHint(id, h)'
        BY <1>1, <4>1
      <4> QED BY <4>1, <4>2
    <3> QED BY <3>1, <3>2
  <2> HIDE DEF n
  <2>6. \A id \in 1 .. lastFinalizedRequestId' :
          \E h \in 1 .. Len(checkpoints') : IsValidHint(id, h)'
    BY <1>1, <2>5
  <2> QED BY <1>1, <2>3, <2>4, <2>6 DEF CheckpointsCover
<1> QED BY <1>3, <1>4, <1>5
LEMMA QueueNext ==
  ASSUME QueueInv, [Next]_vars PROVE QueueInv'
<1> USE DEF QueueInv
<1>1. CASE Resume
  BY <1>1, QuietActions, QuietStep
<1>2. ASSUME NEW d \in PauseArguments, PauseFor(d) PROVE QueueInv'
  BY <1>2, QuietActions, QuietStep
<1>3. ASSUME NEW t \in PauseArguments, PauseUntil(t) PROVE QueueInv'
  BY <1>3, QuietActions, QuietStep
<1>4. ASSUME NEW o \in Owners, NEW a \in Amounts, RequestWithdrawal(o, a)
      PROVE  QueueInv'
  BY <1>4, RequestStep
<1>5. ASSUME NEW t \in lastReportTimestamp + 1 .. now, NEW b \in BunkerModes,
             NEW ace \in Budgets, NEW r \in Rates, AccountingReport(t, b, ace, r)
      PROVE  QueueInv'
  <2>1. t \in Nat /\ b \in BOOLEAN
    BY WithdrawalQueueAssumption DEF TypeOK
  <2>2. CASE Quiet
    BY <2>2, QuietStep
  <2>3. CASE ~Quiet
    <3>1. /\ UNCHANGED <<now, requestVars, approvalVars, resumeSinceTimestamp>>
          /\ lastReportTimestamp' \in Nat /\ bunkerModeSinceTimestamp' \in Nat
          /\ rate' \in Rates
          /\ \E last, amount : Finalize(last, amount, ShareRateOf(r))
      BY <1>5, <2>1, <2>3, ReportAction
    <3>2. PICK last, amount : Finalize(last, amount, ShareRateOf(r))
      BY <3>1
    <3> QED BY <3>1, <3>2, ShareRateType, FinalizeStep
  <2> QED BY <2>2, <2>3
<1>6. ASSUME NEW o \in Owners, NEW id \in RequestIds, NEW hint \in 1 .. MaxRequests,
             ClaimWithdrawals(o, id, hint)
      PROVE  QueueInv'
  BY <1>6, ClaimStep DEF ClaimWithdrawals
<1>7. ASSUME NEW o \in Owners, NEW id \in RequestIds, ClaimWithdrawal(o, id)
      PROVE  QueueInv'
  BY <1>7, ClaimStep DEF ClaimWithdrawal
<1>8. ASSUME NEW o \in Owners, NEW to \in Owners \cup {None}, NEW id \in RequestIds,
             Approve(o, to, id)
      PROVE  QueueInv'
  BY <1>8, ApproveStep
<1>9. ASSUME NEW o \in Owners, NEW p \in Owners, NEW yes \in BOOLEAN,
             SetApprovalForAll(o, p, yes)
      PROVE  QueueInv'
  BY <1>9, QuietActions, QuietStep
<1>10. ASSUME NEW o \in Owners, NEW to \in Owners, NEW id \in RequestIds,
              TransferFrom(o, to, id)
       PROVE  QueueInv'
  BY <1>10, TransferStep
<1>11. CASE Tick
  BY <1>11, QuietActions, QuietStep
<1>12. CASE UNCHANGED vars
  <2>1. Quiet
    BY <1>12 DEF Quiet, TypeOK, vars, requestVars, finalVars, approvalVars, reportVars
  <2> QED BY <2>1, QuietStep
<1> QED BY <1>1, <1>2, <1>3, <1>4, <1>5, <1>6, <1>7, <1>8, <1>9, <1>10, <1>11, <1>12
        DEF Next

LEMMA QueueInvariant == Spec => []QueueInv
<1>1. Init => QueueInv
  BY QueueInit
<1>2. QueueInv /\ [Next]_vars => QueueInv'
  BY QueueNext
<1> QED BY <1>1, <1>2, PTL DEF Spec

(* Every reachable state is of its type; in particular the locked ace      *)
(* never goes below zero and the finalized requests are a prefix.          *)
THEOREM TypeCorrect == Spec => []TypeOK
<1>1. QueueInv => TypeOK
  BY DEF QueueInv
<1> QED BY <1>1, QueueInvariant, PTL

-----------------------------------------------------------------------------
(* Owners and approvals *)

(* Inductive together with QueueInv: a request gets a number that carries  *)
(* no approval, so its approval differs from its owner from the start.     *)
HoldersInv == OwnersConsistent /\ UnusedUnapproved /\ NoStaleApproval

LEMMA HoldersInit == ASSUME Init PROVE HoldersInv
<1>1. Len(queue) = 0 /\ DOMAIN queue = {} /\ MaxRequests \in Nat
  BY EmptySeq, WithdrawalQueueAssumption DEF Init
<1> QED BY <1>1 DEF Init, HoldersInv, OwnersConsistent, UnusedUnapproved,
                    NoStaleApproval, RequestIds

(* Nothing changes for the holders when requests and approvals do not.     *)
LEMMA HoldersUnchanged ==
  ASSUME HoldersInv, UNCHANGED requestVars, UNCHANGED tokenApprovals
  PROVE  HoldersInv'
  BY DEF HoldersInv, OwnersConsistent, UnusedUnapproved, NoStaleApproval, requestVars

LEMMA QueueDomain ==
  ASSUME TypeOK PROVE DOMAIN queue = 1 .. Len(queue) /\ Len(queue) \in Nat
  BY LenProperties DEF TypeOK

LEMMA HoldersRequest ==
  ASSUME TypeOK, HoldersInv, NEW o \in Owners, NEW a \in Amounts, RequestWithdrawal(o, a)
  PROVE  HoldersInv'
<1> DEFINE n == Len(queue)
<1>1. /\ queue' \in Seq(WithdrawalRequest) /\ n \in Nat
      /\ Len(queue') = n + 1 /\ Len(queue') <= MaxRequests
      /\ \A i \in 1 .. n : queue'[i] = queue[i]
      /\ queue'[n + 1].owner = o /\ ~queue'[n + 1].claimed
  BY RequestEffect
<1>2. requestsByOwner' = [requestsByOwner EXCEPT ![o] = @ \cup {n + 1}]
      /\ tokenApprovals' = tokenApprovals
  BY DEF RequestWithdrawal, approvalVars
<1>3. DOMAIN queue = 1 .. n /\ DOMAIN queue' = 1 .. n + 1
  BY <1>1, QueueDomain, LenProperties
<1>4. 1 .. n + 1 = 1 .. n \cup {n + 1} /\ n + 1 \notin 1 .. n
  BY <1>1
<1>5. requestsByOwner \in [Owners -> SUBSET Nat]
  BY DEF TypeOK
<1> HIDE DEF n
<1>6. OwnersConsistent'
  <2> SUFFICES ASSUME NEW p \in Owners
               PROVE  requestsByOwner'[p] =
                        {id \in 1 .. n + 1 : queue'[id].owner = p /\ ~queue'[id].claimed}
    BY <1>3 DEF OwnersConsistent
  <2>1. requestsByOwner[p] = {id \in 1 .. n : queue[id].owner = p /\ ~queue[id].claimed}
    BY <1>3 DEF HoldersInv, OwnersConsistent
  <2>2. requestsByOwner'[p] = IF p = o THEN requestsByOwner[p] \cup {n + 1}
                                       ELSE requestsByOwner[p]
    BY <1>2, <1>5
  <2> QED BY <1>1, <1>4, <2>1, <2>2
<1>7. UnusedUnapproved'
  BY <1>1, <1>2 DEF HoldersInv, UnusedUnapproved, RequestIds, n
<1>8. NoStaleApproval'
  <2>1. n + 1 \in RequestIds /\ n + 1 > Len(queue) /\ None # o
    BY <1>1, WithdrawalQueueAssumption DEF RequestIds, n
  <2>2. tokenApprovals'[n + 1] = None
    BY <1>2, <2>1 DEF HoldersInv, UnusedUnapproved
  <2> QED BY <1>1, <1>2, <1>3, <1>4, <2>1, <2>2 DEF HoldersInv, NoStaleApproval
<1> QED BY <1>6, <1>7, <1>8 DEF HoldersInv

LEMMA HoldersClaim ==
  ASSUME TypeOK, RequestsPositive, HoldersInv, NEW o \in Owners, NEW id, NEW hint,
         Claim(o, id, hint)
  PROVE  HoldersInv'
<1>1. /\ id \in 1 .. Len(queue) /\ queue[id].owner = o /\ ~queue[id].claimed
      /\ queue' \in Seq(WithdrawalRequest) /\ Len(queue') = Len(queue)
      /\ \A i \in 1 .. Len(queue) :
           /\ queue'[i].owner = queue[i].owner
           /\ queue'[i].claimed = (queue[i].claimed \/ i = id)
      /\ tokenApprovals' = tokenApprovals
  BY ClaimEffect DEF approvalVars
<1>2. requestsByOwner' = [requestsByOwner EXCEPT ![o] = @ \ {id}]
      /\ requestsByOwner \in [Owners -> SUBSET Nat]
  BY DEF Claim, TypeOK
<1>3. DOMAIN queue = 1 .. Len(queue) /\ DOMAIN queue' = 1 .. Len(queue)
  BY <1>1, QueueDomain, LenProperties
<1>4. OwnersConsistent'
  <2> SUFFICES ASSUME NEW p \in Owners
               PROVE  requestsByOwner'[p] =
                        {i \in 1 .. Len(queue) : queue'[i].owner = p /\ ~queue'[i].claimed}
    BY <1>3 DEF OwnersConsistent
  <2>1. requestsByOwner[p] =
          {i \in 1 .. Len(queue) : queue[i].owner = p /\ ~queue[i].claimed}
    BY <1>3 DEF HoldersInv, OwnersConsistent
  <2>2. requestsByOwner'[p] = IF p = o THEN requestsByOwner[p] \ {id}
                                       ELSE requestsByOwner[p]
    BY <1>2
  <2> QED BY <1>1, <2>1, <2>2
<1>5. UnusedUnapproved' /\ NoStaleApproval'
  BY <1>1, <1>3 DEF HoldersInv, UnusedUnapproved, NoStaleApproval
<1> QED BY <1>4, <1>5 DEF HoldersInv

LEMMA HoldersApprove ==
  ASSUME TypeOK, HoldersInv, NEW o \in Owners, NEW to \in Owners \cup {None},
         NEW id \in RequestIds, Approve(o, to, id)
  PROVE  HoldersInv'
<1>1. /\ id \in 1 .. Len(queue) /\ to # queue[id].owner
      /\ UNCHANGED requestVars
      /\ tokenApprovals' = [tokenApprovals EXCEPT ![id] = to]
      /\ tokenApprovals \in [RequestIds -> Owners \cup {None}]
  BY DEF Approve, IsUnclaimed, TypeOK
<1>2. DOMAIN queue = 1 .. Len(queue) /\ Len(queue) \in Nat
  BY QueueDomain
<1>3. Len(queue) <= MaxRequests /\ MaxRequests \in Nat
  BY WithdrawalQueueAssumption DEF HoldersInv, UnusedUnapproved
<1>4. OwnersConsistent'
  BY <1>1 DEF HoldersInv, OwnersConsistent, requestVars
<1>5. UnusedUnapproved'
  BY <1>1, <1>2 DEF HoldersInv, UnusedUnapproved, requestVars
<1>6. NoStaleApproval'
  <2> SUFFICES ASSUME NEW i \in 1 .. Len(queue), ~queue[i].claimed
               PROVE  tokenApprovals'[i] # queue[i].owner
    BY <1>1, <1>2 DEF NoStaleApproval, requestVars
  <2>1. i \in RequestIds
    BY <1>2, <1>3 DEF RequestIds
  <2>2. tokenApprovals'[i] = IF i = id THEN to ELSE tokenApprovals[i]
    BY <1>1, <2>1
  <2> QED BY <1>1, <1>2, <2>2 DEF HoldersInv, NoStaleApproval
<1> QED BY <1>4, <1>5, <1>6 DEF HoldersInv

LEMMA HoldersTransfer ==
  ASSUME TypeOK, HoldersInv, NEW o \in Owners, NEW to \in Owners,
         NEW id \in RequestIds, TransferFrom(o, to, id)
  PROVE  HoldersInv'
<1> DEFINE from == queue[id].owner
<1>1. /\ id \in 1 .. Len(queue) /\ ~queue[id].claimed
      /\ from \in Owners /\ to # from
      /\ queue' \in Seq(WithdrawalRequest) /\ Len(queue') = Len(queue)
      /\ \A i \in 1 .. Len(queue) :
           /\ queue'[i].owner = IF i = id THEN to ELSE queue[i].owner
           /\ queue'[i].claimed = queue[i].claimed
      /\ tokenApprovals' = [tokenApprovals EXCEPT ![id] = None]
      /\ tokenApprovals \in [RequestIds -> Owners \cup {None}]
      /\ requestsByOwner' = MoveToOwner(from, to, id)
  BY TransferEffect DEF ClearApproval, TypeOK
<1>2. requestsByOwner \in [Owners -> SUBSET Nat]
  BY DEF TypeOK
<1>3. /\ DOMAIN queue = 1 .. Len(queue) /\ DOMAIN queue' = 1 .. Len(queue)
      /\ Len(queue) \in Nat /\ MaxRequests \in Nat /\ Len(queue) <= MaxRequests
  BY <1>1, QueueDomain, LenProperties, WithdrawalQueueAssumption
     DEF HoldersInv, UnusedUnapproved
<1>4. OwnersConsistent'
  <2> SUFFICES ASSUME NEW p \in Owners
               PROVE  requestsByOwner'[p] =
                        {i \in 1 .. Len(queue) : queue'[i].owner = p /\ ~queue'[i].claimed}
    BY <1>3 DEF OwnersConsistent
  <2>1. requestsByOwner[p] =
          {i \in 1 .. Len(queue) : queue[i].owner = p /\ ~queue[i].claimed}
    BY <1>3 DEF HoldersInv, OwnersConsistent
  <2>2. requestsByOwner'[p] = IF p = to THEN requestsByOwner[p] \cup {id}
                              ELSE IF p = from THEN requestsByOwner[p] \ {id}
                              ELSE requestsByOwner[p]
    BY <1>1, <1>2 DEF MoveToOwner
  <2> QED BY <1>1, <2>1, <2>2
<1>5. UnusedUnapproved'
  BY <1>1, <1>3 DEF HoldersInv, UnusedUnapproved
<1>6. NoStaleApproval'
  <2> SUFFICES ASSUME NEW i \in 1 .. Len(queue), ~queue[i].claimed
               PROVE  tokenApprovals'[i] # queue'[i].owner
    BY <1>1, <1>3 DEF NoStaleApproval
  <2>1. i \in RequestIds
    BY <1>3 DEF RequestIds
  <2>2. tokenApprovals'[i] = IF i = id THEN None ELSE tokenApprovals[i]
    BY <1>1, <2>1
  <2> QED BY <1>1, <1>3, <2>2, WithdrawalQueueAssumption DEF HoldersInv, NoStaleApproval
<1> QED BY <1>4, <1>5, <1>6 DEF HoldersInv
LEMMA HoldersNext ==
  ASSUME QueueInv, HoldersInv, [Next]_vars PROVE HoldersInv'
<1> USE DEF QueueInv
<1>0. Quiet => HoldersInv'
  BY HoldersUnchanged DEF Quiet
<1>1. CASE Resume
  BY <1>0, <1>1, QuietActions
<1>2. ASSUME NEW d \in PauseArguments, PauseFor(d) PROVE HoldersInv'
  BY <1>0, <1>2, QuietActions
<1>3. ASSUME NEW t \in PauseArguments, PauseUntil(t) PROVE HoldersInv'
  BY <1>0, <1>3, QuietActions
<1>4. ASSUME NEW o \in Owners, NEW a \in Amounts, RequestWithdrawal(o, a)
      PROVE  HoldersInv'
  BY <1>4, HoldersRequest
<1>5. ASSUME NEW t \in lastReportTimestamp + 1 .. now, NEW b \in BunkerModes,
             NEW ace \in Budgets, NEW r \in Rates, AccountingReport(t, b, ace, r)
      PROVE  HoldersInv'
  <2>1. UNCHANGED requestVars /\ UNCHANGED tokenApprovals
    BY <1>5 DEF AccountingReport, approvalVars
  <2> QED BY <2>1, HoldersUnchanged
<1>6. ASSUME NEW o \in Owners, NEW id \in RequestIds, NEW hint \in 1 .. MaxRequests,
             ClaimWithdrawals(o, id, hint)
      PROVE  HoldersInv'
  BY <1>6, HoldersClaim DEF ClaimWithdrawals
<1>7. ASSUME NEW o \in Owners, NEW id \in RequestIds, ClaimWithdrawal(o, id)
      PROVE  HoldersInv'
  BY <1>7, HoldersClaim DEF ClaimWithdrawal
<1>8. ASSUME NEW o \in Owners, NEW to \in Owners \cup {None}, NEW id \in RequestIds,
             Approve(o, to, id)
      PROVE  HoldersInv'
  BY <1>8, HoldersApprove
<1>9. ASSUME NEW o \in Owners, NEW p \in Owners, NEW yes \in BOOLEAN,
             SetApprovalForAll(o, p, yes)
      PROVE  HoldersInv'
  BY <1>0, <1>9, QuietActions
<1>10. ASSUME NEW o \in Owners, NEW to \in Owners, NEW id \in RequestIds,
              TransferFrom(o, to, id)
       PROVE  HoldersInv'
  BY <1>10, HoldersTransfer
<1>11. CASE Tick
  BY <1>0, <1>11, QuietActions
<1>12. CASE UNCHANGED vars
  BY <1>12, HoldersUnchanged DEF vars, approvalVars
<1> QED BY <1>1, <1>2, <1>3, <1>4, <1>5, <1>6, <1>7, <1>8, <1>9, <1>10, <1>11, <1>12
        DEF Next

LEMMA HoldersInvariant == Spec => []HoldersInv
<1>1. Init => HoldersInv
  BY HoldersInit
<1>2. QueueInv /\ HoldersInv /\ [Next]_vars => HoldersInv'
  BY HoldersNext
<1> QED BY <1>1, <1>2, QueueInvariant, PTL DEF Spec

(* The sets of requests by owner follow every request, transfer and claim: *)
(* the asserts on them in the code cannot fail.                            *)
THEOREM OwnersCorrect == Spec => []OwnersConsistent
<1>1. HoldersInv => OwnersConsistent
  BY DEF HoldersInv
<1> QED BY <1>1, HoldersInvariant, PTL

(* No approval outlives the ownership it was given under.                  *)
THEOREM ApprovalsFresh == Spec => []NoStaleApproval
<1>1. HoldersInv => NoStaleApproval
  BY DEF HoldersInv
<1> QED BY <1>1, HoldersInvariant, PTL

-----------------------------------------------------------------------------
(* Hints and payouts *)

(* A finalized request has no two valid hints: between two checkpoints     *)
(* that both claim it, the second one of them or an earlier one would      *)
(* start behind the request.                                               *)
LEMMA HintUnique ==
  ASSUME TypeOK, CheckpointsCover, NEW id \in Nat, NEW h, NEW g,
         IsValidHint(id, h), IsValidHint(id, g)
  PROVE  h = g
<1>1. checkpoints \in Seq(Checkpoint) /\ Len(checkpoints) \in Nat
      /\ DOMAIN checkpoints = 1 .. Len(checkpoints)
  BY LenProperties DEF TypeOK
<1>2. \A i \in 1 .. Len(checkpoints) : checkpoints[i].fromRequestId \in Nat
  <2> SUFFICES ASSUME NEW i \in 1 .. Len(checkpoints)
               PROVE  checkpoints[i].fromRequestId \in Nat
    OBVIOUS
  <2>1. checkpoints[i] \in Checkpoint
    BY <1>1, ElementOfSeq
  <2> QED BY <2>1 DEF Checkpoint
<1>3. ASSUME NEW i \in 1 .. Len(checkpoints), NEW j \in 1 .. Len(checkpoints), i < j,
             IsValidHint(id, i), IsValidHint(id, j)
      PROVE  FALSE
  <2>1. i + 1 \in 1 .. Len(checkpoints) /\ i < Len(checkpoints)
    BY <1>1, <1>3
  <2>2. id < checkpoints[i + 1].fromRequestId /\ checkpoints[j].fromRequestId <= id
    BY <1>3, <2>1 DEF IsValidHint
  <2>3. checkpoints[i + 1].fromRequestId <= checkpoints[j].fromRequestId
    <3>1. CASE i + 1 = j
      BY <1>2, <3>1
    <3>2. CASE i + 1 # j
      <4>1. i + 1 < j
        BY <1>1, <1>3, <3>2
      <4>2. checkpoints[i + 1].fromRequestId < checkpoints[j].fromRequestId
        BY <1>3, <2>1, <4>1 DEF CheckpointsCover
      <4> QED BY <1>2, <1>3, <2>1, <4>2
    <3> QED BY <3>1, <3>2
  <2>4. checkpoints[i + 1].fromRequestId \in Nat /\ checkpoints[j].fromRequestId \in Nat
    BY <1>2, <1>3, <2>1
  <2> QED BY <2>2, <2>3, <2>4
<1>4. h \in 1 .. Len(checkpoints) /\ g \in 1 .. Len(checkpoints)
  BY <1>1 DEF IsValidHint
<1>5. ~(h < g) /\ ~(g < h)
  BY <1>3, <1>4
<1> QED BY <1>1, <1>4, <1>5

(* What the search does on a range of checkpoints, with the rest of the    *)
(* search in s.                                                            *)
Ranges == (0 .. Len(checkpoints)) \X (0 .. Len(checkpoints))

SearchRound(s, id, range) ==
  LET min == range[1]
      max == range[2]
      mid == (max + min + 1) \div 2
  IN  IF max <= min THEN min
      ELSE IF checkpoints[mid].fromRequestId <= id THEN s[<<mid, max>>] ELSE s[<<min, mid - 1>>]

Searches(s, id) == s = [range \in Ranges |-> SearchRound(s, id, range)]

LEMMA RangeFacts ==
  ASSUME Len(checkpoints) \in Nat, NEW range \in Ranges
  PROVE  /\ range[1] \in 0 .. Len(checkpoints)
         /\ range[2] \in 0 .. Len(checkpoints)
<1>1. range[1] \in 0 .. Len(checkpoints) /\ range[2] \in 0 .. Len(checkpoints)
  BY DEF Ranges
<1> QED BY <1>1

LEMMA Middle ==
  ASSUME NEW n \in Nat, NEW min \in 0 .. n, NEW max \in 0 .. n, min < max
  PROVE  /\ (max + min + 1) \div 2 \in min + 1 .. max
         /\ (max + min + 1) \div 2 \in 0 .. n /\ (max + min + 1) \div 2 - 1 \in 0 .. n
OBVIOUS

(* The recursion of the search ends, since each round halves the range.    *)
LEMMA SearchExists ==
  ASSUME Len(checkpoints) \in Nat, NEW id
  PROVE  \E s : Searches(s, id)
<1> DEFINE n == Len(checkpoints)
           Upto(s, d) == /\ s = [r \in Ranges |-> s[r]]
                         /\ \A r \in Ranges : r[2] - r[1] <= d => s[r] = SearchRound(s, id, r)
           P == {d \in 0 .. n : \E s : Upto(s, d)}
<1>1. 0 \in P
  <2> DEFINE f == [r \in Ranges |-> r[1]]
  <2>1. f = [r \in Ranges |-> f[r]]
    OBVIOUS
  <2>2. ASSUME NEW r \in Ranges, r[2] - r[1] <= 0 PROVE f[r] = SearchRound(f, id, r)
    <3>1. f[r] = r[1] /\ r[2] <= r[1]
      BY <2>2, RangeFacts
    <3> HIDE DEF f
    <3> QED BY <3>1 DEF SearchRound
  <2> HIDE DEF f
  <2>3. Upto(f, 0)
    BY <2>1, <2>2
  <2>4. 0 \in 0 .. n
    OBVIOUS
  <2> QED BY <2>3, <2>4
<1>2. ASSUME NEW d \in 1 .. n, d - 1 \in P
      PROVE  d \in P
  <2>1. PICK g : Upto(g, d - 1)
    BY <1>2
  <2> DEFINE f == [r \in Ranges |-> IF r[2] - r[1] = d THEN SearchRound(g, id, r) ELSE g[r]]
  <2>2. f = [r \in Ranges |-> f[r]]
    OBVIOUS
  <2>3. ASSUME NEW r \in Ranges, r[2] - r[1] <= d PROVE f[r] = SearchRound(f, id, r)
    <3> DEFINE min == r[1]
               max == r[2]
               mid == (max + min + 1) \div 2
    <3>1. f[r] = IF r[2] - r[1] = d THEN SearchRound(g, id, r) ELSE g[r]
      OBVIOUS
    <3>2. f[r] = SearchRound(g, id, r)
      <4> HIDE DEF f
      <4>1. CASE r[2] - r[1] = d
        BY <3>1, <4>1
      <4>2. CASE r[2] - r[1] # d
        <5>1. r[2] - r[1] <= d - 1
          BY <2>3, <4>2, RangeFacts
        <5>2. g[r] = SearchRound(g, id, r)
          BY ONLY <2>1, <2>3, <5>1
        <5> QED BY <3>1, <4>2, <5>2
      <4> QED BY <4>1, <4>2
    <3>3. min \in 0 .. n /\ max \in 0 .. n
      BY RangeFacts
    <3>4. CASE max <= min
      <4>1. SearchRound(g, id, r) = min /\ SearchRound(f, id, r) = min
        BY ONLY <3>4 DEF SearchRound
      <4> QED BY ONLY <3>2, <4>1
    <3>5. CASE min < max
      <4>1. mid \in min + 1 .. max /\ mid \in 0 .. n /\ mid - 1 \in 0 .. n
        BY <3>3, <3>5, Middle
      <4> DEFINE up == <<mid, max>>
                 down == <<min, mid - 1>>
      <4>2. up \in Ranges /\ down \in Ranges
        BY <3>3, <4>1 DEF Ranges
      <4>3. up[1] = mid /\ up[2] = max /\ down[1] = min /\ down[2] = mid - 1
        OBVIOUS
      <4>4. up[2] - up[1] # d /\ down[2] - down[1] # d
        <5>1. max - mid # d /\ mid - 1 - min # d
          <6> HIDE DEF min, max, mid, f, P
          <6>1. max - min <= d
            BY <2>3 DEF min, max
          <6> QED BY ONLY <3>3, <4>1, <6>1, d \in 1 .. n, n \in Nat
        <5> QED BY ONLY <4>3, <5>1
      <4>5. f[up] = g[up] /\ f[down] = g[down]
        <5> HIDE DEF up, down
        <5> QED BY <4>2, <4>4
      <4> HIDE DEF f
      <4>6. SearchRound(f, id, r) = SearchRound(g, id, r)
        BY ONLY <4>5 DEF SearchRound, up, down, mid, min, max
      <4> QED BY ONLY <3>2, <4>6
    <3> QED BY <3>3, <3>4, <3>5
  <2> HIDE DEF f
  <2>4. Upto(f, d)
    BY <2>2, <2>3
  <2>5. d \in 0 .. n
    OBVIOUS
  <2> QED BY <2>4, <2>5
<1>3. n \in P
  <2>1. n \in Nat
    OBVIOUS
  <2> HIDE DEF P, n
  <2>2. \A d \in 1 .. n : d - 1 \in P => d \in P
    BY <1>2
  <2>3. \A k \in 0 .. n : k \in P
    BY ONLY <1>1, <2>1, <2>2, UpTo
  <2> QED BY <2>1, <2>3
<1>4. PICK s : Upto(s, n)
  BY <1>3
<1>5. \A r \in Ranges : r[2] - r[1] <= n
  BY RangeFacts
<1>6. s = [r \in Ranges |-> SearchRound(s, id, r)]
  <2>1. s = [r \in Ranges |-> s[r]]
    BY <1>4
  <2>2. \A r \in Ranges : s[r] = SearchRound(s, id, r)
    BY <1>4, <1>5
  <2> QED BY ONLY <2>1, <2>2
<1> QED BY <1>6 DEF Searches

(* Between a checkpoint at or before the request and one after it, the     *)
(* search finds the checkpoint whose range has the request.                *)
LEMMA SearchFinds ==
  ASSUME Len(checkpoints) \in Nat, \A i \in 1 .. Len(checkpoints) : checkpoints[i].fromRequestId \in Nat,
         NEW id \in Nat, NEW start \in 1 .. Len(checkpoints), NEW end \in 1 .. Len(checkpoints),
         checkpoints[start].fromRequestId <= id, id < checkpoints[end].fromRequestId, start < end
  PROVE  LET hint == SearchHint(id, start, end - 1)
         IN  /\ hint \in start .. end - 1
             /\ checkpoints[hint].fromRequestId <= id /\ id < checkpoints[hint + 1].fromRequestId
<1> DEFINE n == Len(checkpoints)
           from(i) == checkpoints[i].fromRequestId
           s == CHOOSE s : Searches(s, id)
           Found(min, max) == LET hint == s[<<min, max>>]
                              IN  hint \in min .. max /\ from(hint) <= id /\ id < from(hint + 1)
           Between(min, max) == min <= max /\ from(min) <= id /\ id < from(max + 1)
           P == {d \in 0 .. n : \A min \in 1 .. n, max \in 1 .. n - 1 :
                                  Between(min, max) /\ max - min <= d => Found(min, max)}
<1>1. SearchHint(id, start, end - 1) = s[<<start, end - 1>>]
  BY DEF SearchHint, Searches, SearchRound, Ranges
<1>2. Searches(s, id)
  BY SearchExists
<1> HIDE DEF s
<1>3. ASSUME NEW min \in 0 .. n, NEW max \in 0 .. n
      PROVE  s[<<min, max>>] = IF max <= min THEN min
                               ELSE IF from((max + min + 1) \div 2) <= id
                                 THEN s[<<(max + min + 1) \div 2, max>>]
                                 ELSE s[<<min, (max + min + 1) \div 2 - 1>>]
  <2>1. <<min, max>> \in Ranges /\ <<min, max>>[1] = min /\ <<min, max>>[2] = max
    BY DEF Ranges
  <2>2. s[<<min, max>>] = SearchRound(s, id, <<min, max>>)
    BY ONLY <1>2, <2>1 DEF Searches
  <2> QED BY ONLY <2>1, <2>2 DEF SearchRound
<1>4. 0 \in P
  <2>1. SUFFICES ASSUME NEW min \in 1 .. n, NEW max \in 1 .. n - 1, Between(min, max), max - min <= 0
                 PROVE  Found(min, max)
    <3>1. 0 \in 0 .. n
      OBVIOUS
    <3> HIDE DEF Found, Between
    <3> QED BY <3>1
  <2>2. max = min
    BY <2>1
  <2>3. s[<<min, max>>] = min
    <3>1. min \in 0 .. n /\ max \in 0 .. n /\ max <= min
      BY <2>2
    <3> HIDE DEF n, from, P
    <3> QED BY <1>3, <3>1
  <2> QED BY ONLY <2>1, <2>2, <2>3
<1>5. ASSUME NEW d \in 1 .. n, d - 1 \in P
      PROVE  d \in P
  <2>1. SUFFICES ASSUME NEW min \in 1 .. n, NEW max \in 1 .. n - 1, Between(min, max), max - min <= d
                 PROVE  Found(min, max)
    OBVIOUS
  <2>2. min \in 0 .. n /\ max \in 0 .. n
    OBVIOUS
  <2>3. \A i \in 1 .. n, j \in 1 .. n - 1 : Between(i, j) /\ j - i <= d - 1 => Found(i, j)
    BY <1>5
  <2>4. CASE min = max
    <3>1. s[<<min, max>>] = min
      <4>1. max <= min
        BY <2>4
      <4> HIDE DEF n, from, P
      <4> QED BY <1>3, <2>2, <4>1
    <3> QED BY ONLY <2>1, <2>4, <3>1
  <2>5. CASE min # max
    <3> DEFINE mid == (max + min + 1) \div 2
    <3>1. min < max
      BY <2>1, <2>5
    <3>2. mid \in min + 1 .. max /\ mid \in 0 .. n /\ mid - 1 \in 0 .. n
      BY <2>2, <3>1, Middle
    <3>3. s[<<min, max>>] = IF from(mid) <= id THEN s[<<mid, max>>] ELSE s[<<min, mid - 1>>]
      BY <1>3, <2>2, <3>1
    <3> HIDE DEF mid, P
    <3>4. CASE from(mid) <= id
      <4>1. mid \in 1 .. n /\ max \in 1 .. n - 1 /\ mid <= max /\ max - mid <= d - 1
        BY <2>1, <3>2
      <4>2. Between(mid, max)
        BY ONLY <2>1, <3>4, <4>1
      <4>3. Found(mid, max)
        BY <2>3, <4>1, <4>2
      <4>4. s[<<min, max>>] = s[<<mid, max>>]
        BY <3>3, <3>4
      <4>5. mid .. max \subseteq min .. max
        BY <3>2
      <4> QED BY ONLY <4>3, <4>4, <4>5
    <3>5. CASE ~ (from(mid) <= id)
      <4>1. min \in 1 .. n /\ mid - 1 \in 1 .. n - 1 /\ min <= mid - 1 /\ mid - 1 - min <= d - 1
        BY <2>1, <3>2
      <4>2. id < from(mid - 1 + 1)
        <5>1. mid - 1 + 1 = mid /\ mid \in 1 .. n
          BY <3>2
        <5>2. from(mid) \in Nat
          BY <5>1
        <5> QED BY <3>5, <5>1, <5>2
      <4>3. Between(min, mid - 1)
        BY ONLY <2>1, <4>1, <4>2
      <4>4. Found(min, mid - 1)
        BY <2>3, <4>1, <4>3
      <4>5. s[<<min, max>>] = s[<<min, mid - 1>>]
        BY <3>3, <3>5
      <4>6. min .. mid - 1 \subseteq min .. max
        BY <3>2
      <4> QED BY ONLY <4>4, <4>5, <4>6
    <3> QED BY <3>4, <3>5
  <2> QED BY <2>4, <2>5
<1>6. n \in P
  <2>1. n \in Nat
    OBVIOUS
  <2> HIDE DEF P, n
  <2>2. \A d \in 1 .. n : d - 1 \in P => d \in P
    BY <1>5
  <2>3. \A k \in 0 .. n : k \in P
    BY ONLY <1>4, <2>1, <2>2, UpTo
  <2> QED BY <2>1, <2>3
<1>7. Between(start, end - 1) /\ end - 1 \in 1 .. n - 1 /\ end - 1 - start <= n
  <2>1. end - 1 + 1 = end /\ start <= end - 1 /\ end - 1 - start <= n /\ end - 1 \in 1 .. n - 1
    OBVIOUS
  <2> QED BY <2>1
<1>8. Found(start, end - 1)
  BY <1>6, <1>7
<1> QED BY ONLY <1>1, <1>8

LEMMA CheckpointFacts ==
  ASSUME TypeOK, CheckpointsCover
  PROVE  /\ Len(checkpoints) \in Nat /\ DOMAIN checkpoints = 1 .. Len(checkpoints)
         /\ lastFinalizedRequestId \in Nat
         /\ \A i \in 1 .. Len(checkpoints) : checkpoints[i].fromRequestId \in Nat
         /\ \A i, j \in 1 .. Len(checkpoints) :
              i <= j => checkpoints[i].fromRequestId <= checkpoints[j].fromRequestId
<1>1. /\ checkpoints \in Seq(Checkpoint) /\ Len(checkpoints) \in Nat
      /\ DOMAIN checkpoints = 1 .. Len(checkpoints)
  BY LenProperties DEF TypeOK
<1>2. lastFinalizedRequestId \in Nat
  <2>1. queue \in Seq(WithdrawalRequest) /\ lastFinalizedRequestId \in 0 .. Len(queue)
    BY DEF TypeOK
  <2> QED BY <2>1, LenProperties
<1>3. \A i \in 1 .. Len(checkpoints) : checkpoints[i].fromRequestId \in Nat
  BY <1>2 DEF CheckpointsCover
<1>4. ASSUME NEW i \in 1 .. Len(checkpoints), NEW j \in 1 .. Len(checkpoints), i <= j
      PROVE  checkpoints[i].fromRequestId <= checkpoints[j].fromRequestId
  <2>1. CASE i = j
    BY <1>3, <2>1
  <2>2. CASE i # j
    <3>1. i < j
      BY <1>4, <2>2
    <3>2. checkpoints[i].fromRequestId < checkpoints[j].fromRequestId
      BY <3>1 DEF CheckpointsCover
    <3> QED BY <1>3, <3>2
  <2> QED BY <2>1, <2>2
<1> QED BY <1>1, <1>2, <1>3, <1>4

(* Over any range, the hint is the one in it or none is.                   *)
LEMMA HintInRange ==
  ASSUME TypeOK, CheckpointsCover, NEW id \in 1 .. lastFinalizedRequestId,
         NEW start \in DOMAIN checkpoints, NEW end \in DOMAIN checkpoints
  PROVE  LET hint == FindCheckpointHint(id, start, end)
         IN  \/ hint \in start .. end /\ IsValidHint(id, hint)
             \/ hint = 0 /\ \A h \in start .. end : ~ IsValidHint(id, h)
<1> DEFINE n == Len(checkpoints)
           from(i) == checkpoints[i].fromRequestId
           hint == FindCheckpointHint(id, start, end)
<1>1. /\ n \in Nat /\ DOMAIN checkpoints = 1 .. n /\ lastFinalizedRequestId \in Nat
      /\ \A i \in 1 .. n : from(i) \in Nat
      /\ \A i, j \in 1 .. n : i <= j => from(i) <= from(j)
  BY CheckpointFacts
<1>2. /\ start \in 1 .. n /\ end \in 1 .. n /\ id \in Nat /\ n # 0 /\ id <= lastFinalizedRequestId
      /\ from(start) \in Nat /\ from(end) \in Nat
  BY <1>1
<1>3. \A h \in 1 .. n : IsValidHint(id, h) <=> from(h) <= id /\ (h < n => id < from(h + 1))
  BY <1>1 DEF IsValidHint
<1>4. hint = IF start > end THEN 0
             ELSE IF id >= from(end) THEN (IF end = n \/ id < from(end + 1) THEN end ELSE 0)
             ELSE IF id < from(start) THEN 0 ELSE SearchHint(id, start, end - 1)
  <2>1. ~ (n = 0 \/ id > lastFinalizedRequestId)
    BY <1>1, <1>2
  <2> QED BY ONLY <2>1 DEF FindCheckpointHint, from, n, hint
<1> HIDE DEF hint
<1>5. CASE start > end
  <2>1. start .. end = {}
    BY <1>2, <1>5
  <2> QED BY <1>4, <1>5, <2>1 DEF hint
<1>6. CASE start <= end /\ id >= from(end)
  <2>1. CASE end = n \/ id < from(end + 1)
    <3>1. IsValidHint(id, end) /\ end \in start .. end
      BY <1>2, <1>3, <1>6, <2>1
    <3>2. hint = end
      BY <1>2, <1>4, <1>6, <2>1
    <3> QED BY <3>1, <3>2 DEF hint
  <2>2. CASE ~ (end = n \/ id < from(end + 1))
    <3>1. ASSUME NEW h \in start .. end, IsValidHint(id, h) PROVE FALSE
      <4>1. h \in 1 .. n /\ h < n /\ h + 1 \in 1 .. n /\ end + 1 \in 1 .. n /\ h + 1 <= end + 1
        BY <1>1, <1>2, <2>2
      <4>2. id < from(h + 1) /\ from(h + 1) <= from(end + 1)
        BY <1>1, <1>3, <3>1, <4>1
      <4>3. from(h + 1) \in Nat /\ from(end + 1) \in Nat
        BY <1>1, <4>1
      <4> QED BY <1>2, <2>2, <4>2, <4>3
    <3>2. hint = 0
      BY <1>2, <1>4, <1>6, <2>2
    <3> QED BY <3>1, <3>2 DEF hint
  <2> QED BY <2>1, <2>2
<1>7. CASE start <= end /\ id < from(end) /\ id < from(start)
  <2>1. ASSUME NEW h \in start .. end, IsValidHint(id, h) PROVE FALSE
    <3>1. h \in 1 .. n /\ start <= h
      BY <1>2
    <3>2. from(h) \in Nat /\ from(start) <= from(h) /\ from(h) <= id
      BY <1>1, <1>2, <1>3, <2>1, <3>1
    <3> QED BY <1>2, <1>7, <3>2
  <2>2. hint = 0
    BY <1>2, <1>4, <1>7
  <2> QED BY <2>1, <2>2 DEF hint
<1>8. CASE start <= end /\ id < from(end) /\ ~ (id < from(start))
  <2>1. from(start) <= id /\ start # end
    BY <1>2, <1>8
  <2>2. start < end
    BY <1>2, <1>8, <2>1
  <2>3. hint = SearchHint(id, start, end - 1)
    BY <1>2, <1>4, <1>8
  <2>4. hint \in start .. end - 1 /\ from(hint) <= id /\ id < from(hint + 1)
    BY <1>1, <1>2, <1>8, <2>1, <2>2, <2>3, SearchFinds
  <2>5. hint \in start .. end /\ hint \in 1 .. n
    BY <1>1, <1>2, <2>4
  <2>6. IsValidHint(id, hint)
    BY <1>3, <2>4, <2>5
  <2> QED BY <2>5, <2>6 DEF hint
<1> QED BY <1>2, <1>5, <1>6, <1>7, <1>8

(***************************************************************************)
(* Every finalized request has exactly one valid hint, and the binary      *)
(* search of _findCheckpointHint finds it in any range of checkpoints that *)
(* holds it and answers "not found" on any other, however long the queue   *)
(* and its list of checkpoints are.                                        *)
(***************************************************************************)
THEOREM HintsFound == Spec => []HintsAreFound
<1>1. ASSUME QueueInv PROVE HintsAreFound
  <2>1. TypeOK /\ CheckpointsCover
    BY <1>1 DEF QueueInv
  <2>2. DOMAIN checkpoints = 1 .. Len(checkpoints) /\ lastFinalizedRequestId \in Nat
    BY <2>1, CheckpointFacts
  <2>3. SUFFICES ASSUME NEW id \in 1 .. lastFinalizedRequestId
                 PROVE  /\ Cardinality({h \in DOMAIN checkpoints : IsValidHint(id, h)}) = 1
                        /\ \A start, end \in DOMAIN checkpoints :
                             LET hint == FindCheckpointHint(id, start, end)
                             IN  IF \E h \in start .. end : IsValidHint(id, h)
                                   THEN hint \in start .. end /\ IsValidHint(id, hint)
                                   ELSE hint = 0
    BY DEF HintsAreFound
  <2>4. Cardinality({h \in DOMAIN checkpoints : IsValidHint(id, h)}) = 1
    <3>1. PICK h \in DOMAIN checkpoints : IsValidHint(id, h)
      BY <2>1, <2>2 DEF CheckpointsCover
    <3>2. \A g \in DOMAIN checkpoints : IsValidHint(id, g) => g = h
      BY <2>1, <2>2, <3>1, HintUnique
    <3>3. {g \in DOMAIN checkpoints : IsValidHint(id, g)} = {h}
      BY ONLY <3>1, <3>2
    <3> QED BY <3>3, FS_Singleton
  <2>5. ASSUME NEW start \in DOMAIN checkpoints, NEW end \in DOMAIN checkpoints
        PROVE  LET hint == FindCheckpointHint(id, start, end)
               IN  IF \E h \in start .. end : IsValidHint(id, h)
                     THEN hint \in start .. end /\ IsValidHint(id, hint)
                     ELSE hint = 0
    <3> DEFINE hint == FindCheckpointHint(id, start, end)
    <3>1. \/ hint \in start .. end /\ IsValidHint(id, hint)
          \/ hint = 0 /\ \A h \in start .. end : ~ IsValidHint(id, h)
      BY <2>1, HintInRange
    <3> HIDE DEF hint
    <3> QED BY ONLY <3>1 DEF hint
  <2> QED BY <2>4, <2>5
<1>2. QueueInv => HintsAreFound
  BY <1>1
<1> QED BY <1>2, QueueInvariant, PTL

(* The payout of a finalized request, by any valid hint of it.             *)
LEMMA PayoutByHint ==
  ASSUME QueueInv, NEW id \in 1 .. lastFinalizedRequestId, NEW h, IsValidHint(id, h)
  PROVE  /\ h \in 1 .. Len(checkpoints)
         /\ checkpoints[h].maxShareRate \in Nat
         /\ Payout(id) = Worth(RequestOf(queue, id), checkpoints[h].maxShareRate)
<1> DEFINE g == CHOOSE i \in DOMAIN checkpoints : IsValidHint(id, i)
<1>1. h \in DOMAIN checkpoints
  BY DEF IsValidHint
<1>2. IsValidHint(id, g)
  BY <1>1
<1> HIDE DEF g
<1>3. id \in Nat
  BY DEF QueueInv, TypeOK
<1>4. g = h
  BY <1>2, <1>3, HintUnique DEF QueueInv
<1>5. checkpoints \in Seq(Checkpoint) /\ h \in 1 .. Len(checkpoints)
  BY <1>1, LenProperties DEF QueueInv, TypeOK
<1>6. checkpoints[h] \in Checkpoint
  BY <1>5, ElementOfSeq
<1> QED BY <1>4, <1>5, <1>6 DEF Payout, CalculateClaimableAce, Checkpoint, g

LEMMA PayoutType ==
  ASSUME QueueInv, NEW id \in 1 .. lastFinalizedRequestId
  PROVE  Payout(id) \in Nat /\ Payout(id) <= RequestOf(queue, id).bACE
<1>1. PICK h \in 1 .. Len(checkpoints) : IsValidHint(id, h)
  BY DEF QueueInv, CheckpointsCover
<1>2. checkpoints[h].maxShareRate \in Nat
      /\ Payout(id) = Worth(RequestOf(queue, id), checkpoints[h].maxShareRate)
  BY <1>1, PayoutByHint
<1>3. id \in 1 .. Len(queue) /\ queue \in Seq(WithdrawalRequest)
  BY LenProperties DEF QueueInv, TypeOK
<1> QED BY <1>2, <1>3, WorthBound DEF QueueInv, RequestsPositive

PayoutsByHint ==
  \A id \in 1 .. lastFinalizedRequestId, h \in 1 .. Len(checkpoints) :
    IsValidHint(id, h) =>
      Payout(id) = Worth(RequestOf(queue, id), checkpoints[h].maxShareRate)

LEMMA PayoutsByHintNext == QueueInv' => PayoutsByHint'
<1>1. QueueInv => PayoutsByHint
  BY PayoutByHint DEF PayoutsByHint
<1> QED BY <1>1, PTL

(* A payout stays what it is as long as the checkpoints of its request do. *)
LEMMA PayoutStable ==
  ASSUME QueueInv, QueueInv', NEW id \in 1 .. lastFinalizedRequestId,
         id \in 1 .. lastFinalizedRequestId',
         RequestOf(queue', id) = RequestOf(queue, id),
         Len(checkpoints) <= Len(checkpoints'),
         \A h \in 1 .. Len(checkpoints) : checkpoints'[h] = checkpoints[h],
         \A h \in 1 .. Len(checkpoints) : IsValidHint(id, h) => IsValidHint(id, h)'
  PROVE  Payout(id)' = Payout(id)
<1>1. PICK h \in 1 .. Len(checkpoints) : IsValidHint(id, h)
  BY DEF QueueInv, CheckpointsCover
<1>2. Payout(id) = Worth(RequestOf(queue, id), checkpoints[h].maxShareRate)
  BY <1>1, PayoutByHint
<1>3. IsValidHint(id, h)' /\ h \in 1 .. Len(checkpoints')
  <2>1. Len(checkpoints) \in Nat /\ Len(checkpoints') \in Nat
    BY LenProperties DEF QueueInv, TypeOK
  <2> QED BY <1>1, <2>1
<1>4. Payout(id)' = Worth(RequestOf(queue', id), checkpoints'[h].maxShareRate)
  BY <1>3, PayoutsByHintNext DEF PayoutsByHint
<1> QED BY <1>1, <1>2, <1>4

-----------------------------------------------------------------------------
(* The ledger *)

(* The variables of the ledger.                                            *)
Asked   == [id \in DOMAIN queue |-> RequestOf(queue, id).bACE]
Holding == [id \in DOMAIN queue |-> queue[id].owner]
Fixed   == [id \in 1 .. lastFinalizedRequestId |-> Payout(id)]
Paid    == {id \in DOMAIN queue : queue[id].claimed}

LEMMA LedgerTypes ==
  ASSUME QueueInv
  PROVE  /\ Asked \in Seq(Nat) /\ Len(Asked) = Len(queue)
         /\ DOMAIN Asked = 1 .. Len(queue)
         /\ Holding \in Seq(Owners) /\ Len(Holding) = Len(queue)
         /\ DOMAIN Holding = 1 .. Len(queue)
         /\ Fixed \in Seq(Nat) /\ Len(Fixed) = lastFinalizedRequestId
         /\ DOMAIN Fixed = 1 .. lastFinalizedRequestId
<1>1. /\ queue \in Seq(WithdrawalRequest) /\ Len(queue) \in Nat
      /\ DOMAIN queue = 1 .. Len(queue) /\ lastFinalizedRequestId \in Nat
  BY LenProperties DEF QueueInv, TypeOK
<1>2. Asked \in [1 .. Len(queue) -> Nat]
  BY <1>1 DEF Asked, QueueInv, RequestsPositive
<1>3. Holding \in [1 .. Len(queue) -> Owners]
  <2>1. \A id \in 1 .. Len(queue) : queue[id].owner \in Owners
    <3> SUFFICES ASSUME NEW id \in 1 .. Len(queue) PROVE queue[id].owner \in Owners
      OBVIOUS
    <3>1. queue[id] \in WithdrawalRequest
      BY <1>1, ElementOfSeq
    <3> QED BY <3>1 DEF WithdrawalRequest
  <2> QED BY <1>1, <2>1 DEF Holding
<1>4. Fixed \in [1 .. lastFinalizedRequestId -> Nat]
  BY PayoutType DEF Fixed
<1> QED BY <1>1, <1>2, <1>3, <1>4, FunctionIsSequence

LEMMA LedgerTypesNext ==
  QueueInv' =>
    /\ Asked' \in Seq(Nat) /\ Len(Asked') = Len(queue')
    /\ Holding' \in Seq(Owners) /\ Len(Holding') = Len(queue')
    /\ Fixed' \in Seq(Nat) /\ Len(Fixed') = lastFinalizedRequestId'
<1>1. QueueInv => /\ Asked \in Seq(Nat) /\ Len(Asked) = Len(queue)
                  /\ Holding \in Seq(Owners) /\ Len(Holding) = Len(queue)
                  /\ Fixed \in Seq(Nat) /\ Len(Fixed) = lastFinalizedRequestId
  BY LedgerTypes
<1>2. (QueueInv => /\ Asked \in Seq(Nat) /\ Len(Asked) = Len(queue)
                   /\ Holding \in Seq(Owners) /\ Len(Holding) = Len(queue)
                   /\ Fixed \in Seq(Nat) /\ Len(Fixed) = lastFinalizedRequestId)'
  BY <1>1, PTL
<1> QED BY <1>2

PayoutsBounded ==
  \A id \in 1 .. lastFinalizedRequestId : Payout(id) <= RequestOf(queue, id).bACE

LEMMA PayoutsBoundedNext == QueueInv' => PayoutsBounded'
<1>1. QueueInv => PayoutsBounded
  BY PayoutType DEF PayoutsBounded
<1> QED BY <1>1, PTL

(* As long as a step keeps the checkpoints, the payouts stand.             *)
LEMMA FixedUnchanged ==
  ASSUME QueueInv, QueueInv', UNCHANGED finalVars,
         \A id \in 1 .. Len(queue) : RequestOf(queue', id) = RequestOf(queue, id)
  PROVE  Fixed' = Fixed
<1>1. lastFinalizedRequestId' = lastFinalizedRequestId /\ checkpoints' = checkpoints
      /\ lastFinalizedRequestId \in 0 .. Len(queue) /\ Len(queue) \in Nat
      /\ Len(checkpoints) \in Nat
  BY LenProperties DEF finalVars, QueueInv, TypeOK
<1>2. ASSUME NEW id \in 1 .. lastFinalizedRequestId
      PROVE  Payout(id)' = Payout(id)
  <2>1. \A h \in 1 .. Len(checkpoints) : IsValidHint(id, h) => IsValidHint(id, h)'
    BY <1>1 DEF IsValidHint
  <2>2. RequestOf(queue', id) = RequestOf(queue, id)
    BY <1>1
  <2> QED BY <1>1, <2>1, <2>2, PayoutStable
<1> QED BY <1>1, <1>2 DEF Fixed

LEMMA LedgerQuiet ==
  ASSUME QueueInv, QueueInv', UNCHANGED requestVars, UNCHANGED finalVars
  PROVE  UNCHANGED <<Asked, Holding, Fixed, Paid>>
<1>1. queue' = queue
  BY DEF requestVars
<1>2. Fixed' = Fixed
  BY <1>1, FixedUnchanged
<1> QED BY <1>1, <1>2 DEF Asked, Holding, Paid

LEMMA LedgerRequest ==
  ASSUME QueueInv, QueueInv', NEW o \in Owners, NEW a \in Amounts, RequestWithdrawal(o, a)
  PROVE  Ledger!Request
<1> DEFINE n == Len(queue)
<1>1. /\ queue' \in Seq(WithdrawalRequest) /\ n \in Nat
      /\ Len(queue') = n + 1
      /\ \A i \in 1 .. n :
           queue'[i] = queue[i] /\ RequestOf(queue', i) = RequestOf(queue, i)
      /\ queue'[n + 1].owner = o /\ ~queue'[n + 1].claimed
      /\ UNCHANGED finalVars
  <2>1. UNCHANGED finalVars
    BY DEF RequestWithdrawal
  <2> QED BY <2>1, RequestEffect DEF QueueInv
<1>2. DOMAIN queue = 1 .. n /\ DOMAIN queue' = 1 .. n + 1
  BY <1>1, LenProperties DEF QueueInv, TypeOK
<1>3. /\ Asked \in Seq(Nat) /\ Len(Asked) = n
      /\ Asked' \in Seq(Nat) /\ Len(Asked') = n + 1
      /\ Holding \in Seq(Owners) /\ Len(Holding) = n
      /\ Holding' \in Seq(Owners) /\ Len(Holding') = n + 1
  BY <1>1, LedgerTypes, LedgerTypesNext
<1> HIDE DEF n
<1>4. Holding' = Append(Holding, o)
  <2>1. /\ Append(Holding, o) \in Seq(Owners) /\ Len(Append(Holding, o)) = n + 1
        /\ \A i \in 1 .. n : Append(Holding, o)[i] = Holding[i]
        /\ Append(Holding, o)[n + 1] = o
    BY <1>3, AppendProperties
  <2>2. \A i \in 1 .. n + 1 : Holding'[i] = Append(Holding, o)[i]
    <3> SUFFICES ASSUME NEW i \in 1 .. n + 1
                 PROVE  Holding'[i] = Append(Holding, o)[i]
      OBVIOUS
    <3>1. Holding'[i] = queue'[i].owner
      BY <1>2 DEF Holding
    <3>2. CASE i = n + 1
      BY <1>1, <2>1, <3>1, <3>2 DEF n
    <3>3. CASE i # n + 1
      <4>1. i \in 1 .. n
        BY <1>1, <3>3 DEF n
      <4>2. Holding[i] = queue[i].owner /\ queue'[i] = queue[i]
        BY <1>1, <1>2, <4>1 DEF Holding, n
      <4> QED BY <2>1, <3>1, <4>1, <4>2
    <3> QED BY <3>2, <3>3
  <2> QED BY <1>3, <2>1, <2>2, SeqEqual
<1>5. SubSeq(Asked', 1, Len(Asked)) = Asked
  <2>1. \A i \in 1 .. n : Asked'[i] = Asked[i]
    <3> SUFFICES ASSUME NEW i \in 1 .. n PROVE Asked'[i] = Asked[i]
      OBVIOUS
    <3>1. i \in 1 .. n + 1
      BY <1>1 DEF n
    <3> QED BY <1>1, <1>2, <3>1 DEF Asked, n
  <2>2. \A i \in 1 .. n : Asked'[i] \in Nat
    BY <1>3, <2>1, ElementOfSeq
  <2>3. n \in Nat /\ n \in Int /\ 1 \in Int
    BY <1>1 DEF n
  <2>4. /\ SubSeq(Asked', 1, n) \in Seq(Nat)
        /\ Len(SubSeq(Asked', 1, n)) = n
        /\ \A i \in 1 .. n : SubSeq(Asked', 1, n)[i] = Asked'[i]
    BY <2>2, <2>3, SubSeqProperties
  <2> QED BY <1>3, <2>1, <2>4, SeqEqual
<1>6. Fixed' = Fixed
  BY <1>1, FixedUnchanged DEF n
<1>7. Paid' = Paid
  <2>1. 1 .. n + 1 = 1 .. n \cup {n + 1}
    BY <1>1 DEF n
  <2> QED BY <1>1, <1>2, <2>1 DEF Paid, n
<1> QED BY <1>3, <1>4, <1>5, <1>6, <1>7
        DEF Ledger!Request, Asked, Holding, Fixed, Paid

LEMMA LedgerPay ==
  ASSUME QueueInv, QueueInv', NEW o \in Owners, NEW id, NEW hint, Claim(o, id, hint)
  PROVE  Ledger!Pay
<1>1. /\ id \in 1 .. lastFinalizedRequestId /\ id \in 1 .. Len(queue)
      /\ ~queue[id].claimed
      /\ queue' \in Seq(WithdrawalRequest) /\ Len(queue') = Len(queue)
      /\ \A i \in 1 .. Len(queue) :
           /\ queue'[i].owner = queue[i].owner
           /\ queue'[i].claimed = (queue[i].claimed \/ i = id)
           /\ RequestOf(queue', i) = RequestOf(queue, i)
      /\ UNCHANGED finalVars
  BY ClaimEffect DEF QueueInv
<1>2. DOMAIN queue = 1 .. Len(queue) /\ DOMAIN queue' = 1 .. Len(queue)
  BY <1>1, LenProperties DEF QueueInv, TypeOK
<1>3. Asked' = Asked /\ Holding' = Holding
  BY <1>1, <1>2 DEF Asked, Holding
<1>4. Fixed' = Fixed
  BY <1>1, FixedUnchanged
<1>5. id \in DOMAIN Fixed \ Paid /\ Paid' = Paid \cup {id}
  BY <1>1, <1>2 DEF Fixed, Paid
<1> QED BY <1>3, <1>4, <1>5 DEF Ledger!Pay, Asked, Holding, Fixed, Paid

LEMMA LedgerHandOver ==
  ASSUME QueueInv, QueueInv', NEW o \in Owners, NEW to \in Owners,
         NEW id \in RequestIds, TransferFrom(o, to, id)
  PROVE  Ledger!HandOver
<1>1. /\ id \in 1 .. Len(queue) /\ ~queue[id].claimed /\ to # queue[id].owner
      /\ queue' \in Seq(WithdrawalRequest) /\ Len(queue') = Len(queue)
      /\ \A i \in 1 .. Len(queue) :
           /\ queue'[i].owner = IF i = id THEN to ELSE queue[i].owner
           /\ queue'[i].claimed = queue[i].claimed
           /\ RequestOf(queue', i) = RequestOf(queue, i)
      /\ UNCHANGED finalVars
  BY TransferEffect DEF QueueInv
<1>2. DOMAIN queue = 1 .. Len(queue) /\ DOMAIN queue' = 1 .. Len(queue)
  BY <1>1, LenProperties DEF QueueInv, TypeOK
<1>3. Asked' = Asked /\ Paid' = Paid
  BY <1>1, <1>2 DEF Asked, Paid
<1>4. Fixed' = Fixed
  BY <1>1, FixedUnchanged
<1>5. /\ id \in DOMAIN Holding \ Paid /\ to # Holding[id]
      /\ Holding' = [Holding EXCEPT ![id] = to]
  BY <1>1, <1>2 DEF Holding, Paid
<1> QED BY <1>3, <1>4, <1>5 DEF Ledger!HandOver, Asked, Holding, Fixed, Paid

LEMMA LedgerFinalize ==
  ASSUME QueueInv, QueueInv', UNCHANGED requestVars,
         NEW last, NEW amount, NEW m \in Nat, Finalize(last, amount, m)
  PROVE  Ledger!Finalize
<1> DEFINE n == Len(checkpoints)
           final == lastFinalizedRequestId
<1>1. /\ last \in final + 1 .. Len(queue) /\ lastFinalizedRequestId' = last
      /\ n \in Nat /\ Len(checkpoints') = n + 1
      /\ \A i \in 1 .. n : checkpoints'[i] = checkpoints[i]
      /\ \A id \in 1 .. final, h \in 1 .. n : IsValidHint(id, h) => IsValidHint(id, h)'
  BY FinalizeEffect DEF QueueInv
<1>2. queue' = queue
  BY DEF requestVars
<1>3. final \in Nat /\ Len(queue) \in Nat /\ DOMAIN queue = 1 .. Len(queue)
  BY LenProperties DEF QueueInv, TypeOK
<1>4. Asked' = Asked /\ Holding' = Holding /\ Paid' = Paid
  BY <1>2 DEF Asked, Holding, Paid
<1>5. /\ Asked \in Seq(Nat) /\ Len(Asked) = Len(queue)
      /\ Fixed \in Seq(Nat) /\ Len(Fixed) = final
      /\ Fixed' \in Seq(Nat) /\ Len(Fixed') = last
  BY <1>1, LedgerTypes, LedgerTypesNext
<1>6. Len(Fixed') \in Len(Fixed) + 1 .. Len(Asked)
  BY <1>1, <1>5
<1>7. ASSUME NEW id \in 1 .. final
      PROVE  Fixed'[id] = Fixed[id] /\ Fixed'[id] \in Nat
  <2>1. id \in 1 .. lastFinalizedRequestId'
    BY <1>1, <1>3
  <2>2. Payout(id)' = Payout(id)
    BY <1>1, <1>2, <2>1, PayoutStable
  <2>3. Fixed[id] \in Nat
    BY <1>5, ElementOfSeq
  <2> QED BY <2>1, <2>2, <2>3 DEF Fixed
<1>8. SubSeq(Fixed', 1, Len(Fixed)) = Fixed
  <2> HIDE DEF final
  <2>1. final \in Int /\ 1 \in Int
    BY <1>3
  <2>2. /\ SubSeq(Fixed', 1, final) \in Seq(Nat)
        /\ Len(SubSeq(Fixed', 1, final)) = final
        /\ \A i \in 1 .. final : SubSeq(Fixed', 1, final)[i] = Fixed'[i]
    BY <1>3, <1>7, <2>1, SubSeqProperties
  <2> QED BY <1>5, <1>7, <2>2, SeqEqual
<1>9. ASSUME NEW id \in Len(Fixed) + 1 .. Len(Fixed')
      PROVE  Fixed'[id] <= Asked[id]
  <2>1. id \in 1 .. last /\ id \in 1 .. Len(queue)
    BY <1>1, <1>3, <1>5, <1>9
  <2>2. Payout(id)' <= RequestOf(queue, id).bACE
    BY <1>1, <1>2, <2>1, PayoutsBoundedNext DEF PayoutsBounded
  <2>3. Fixed'[id] = Payout(id)'
    BY <1>1, <2>1 DEF Fixed
  <2>4. Asked[id] = RequestOf(queue, id).bACE
    BY <1>3, <2>1 DEF Asked
  <2> QED BY <2>2, <2>3, <2>4
<1> QED BY <1>4, <1>6, <1>8, <1>9
        DEF Ledger!Finalize, Asked, Holding, Fixed, Paid

LEMMA LedgerInit == ASSUME Init PROVE Ledger!Init
<1>1. queue = <<>> /\ lastFinalizedRequestId = 0
  BY DEF Init
<1>2. Asked = <<>> /\ Holding = <<>> /\ Fixed = <<>>
  <2>1. QueueInv
    BY QueueInit
  <2>2. Len(queue) = 0
    BY <1>1, EmptySeq
  <2>3. /\ Asked \in Seq(Nat) /\ Len(Asked) = 0
        /\ Holding \in Seq(Owners) /\ Len(Holding) = 0
        /\ Fixed \in Seq(Nat) /\ Len(Fixed) = 0
    BY <1>1, <2>1, <2>2, LedgerTypes
  <2> QED BY <2>3, EmptySeq
<1>3. Paid = {}
  BY <1>1 DEF Paid
<1> QED BY <1>2, <1>3 DEF Ledger!Init, Asked, Holding, Fixed, Paid

LEMMA LedgerStutters ==
  ASSUME UNCHANGED <<Asked, Holding, Fixed, Paid>>
  PROVE  UNCHANGED Ledger!vars
  BY DEF Ledger!vars, Asked, Holding, Fixed, Paid

LEMMA LedgerNext ==
  ASSUME QueueInv, QueueInv', [Next]_vars
  PROVE  [Ledger!Next]_(Ledger!vars)
<1>0. ASSUME UNCHANGED requestVars, UNCHANGED finalVars
      PROVE  [Ledger!Next]_(Ledger!vars)
  BY <1>0, LedgerQuiet, LedgerStutters
<1>1. Quiet => [Ledger!Next]_(Ledger!vars)
  BY <1>0 DEF Quiet
<1>2. TypeOK
  BY DEF QueueInv
<1>3. CASE Resume
  BY <1>1, <1>2, <1>3, QuietActions
<1>4. ASSUME NEW d \in PauseArguments, PauseFor(d)
      PROVE  [Ledger!Next]_(Ledger!vars)
  BY <1>1, <1>2, <1>4, QuietActions
<1>5. ASSUME NEW t \in PauseArguments, PauseUntil(t)
      PROVE  [Ledger!Next]_(Ledger!vars)
  BY <1>1, <1>2, <1>5, QuietActions
<1>6. ASSUME NEW o \in Owners, NEW a \in Amounts, RequestWithdrawal(o, a)
      PROVE  [Ledger!Next]_(Ledger!vars)
  BY <1>6, LedgerRequest DEF Ledger!Next
<1>7. ASSUME NEW t \in lastReportTimestamp + 1 .. now, NEW b \in BunkerModes,
             NEW ace \in Budgets, NEW r \in Rates, AccountingReport(t, b, ace, r)
      PROVE  [Ledger!Next]_(Ledger!vars)
  <2>1. t \in Nat /\ b \in BOOLEAN
    BY <1>2, WithdrawalQueueAssumption DEF TypeOK
  <2>2. CASE ~Quiet
    <3>1. UNCHANGED requestVars
      BY <1>7 DEF AccountingReport
    <3>2. PICK last, amount : Finalize(last, amount, ShareRateOf(r))
      BY <1>2, <1>7, <2>1, <2>2, ReportAction
    <3> QED BY <3>1, <3>2, ShareRateType, LedgerFinalize DEF Ledger!Next
  <2> QED BY <1>1, <2>2
<1>8. ASSUME NEW o \in Owners, NEW id \in RequestIds, NEW hint \in 1 .. MaxRequests,
             ClaimWithdrawals(o, id, hint)
      PROVE  [Ledger!Next]_(Ledger!vars)
  BY <1>8, LedgerPay DEF ClaimWithdrawals, Ledger!Next
<1>9. ASSUME NEW o \in Owners, NEW id \in RequestIds, ClaimWithdrawal(o, id)
      PROVE  [Ledger!Next]_(Ledger!vars)
  BY <1>9, LedgerPay DEF ClaimWithdrawal, Ledger!Next
<1>10. ASSUME NEW o \in Owners, NEW to \in Owners \cup {None}, NEW id \in RequestIds,
              Approve(o, to, id)
       PROVE  [Ledger!Next]_(Ledger!vars)
  BY <1>0, <1>10 DEF Approve
<1>11. ASSUME NEW o \in Owners, NEW p \in Owners, NEW yes \in BOOLEAN,
              SetApprovalForAll(o, p, yes)
       PROVE  [Ledger!Next]_(Ledger!vars)
  BY <1>1, <1>2, <1>11, QuietActions
<1>12. ASSUME NEW o \in Owners, NEW to \in Owners, NEW id \in RequestIds,
              TransferFrom(o, to, id)
       PROVE  [Ledger!Next]_(Ledger!vars)
  BY <1>12, LedgerHandOver DEF Ledger!Next
<1>13. CASE Tick
  BY <1>1, <1>2, <1>13, QuietActions
<1>14. CASE UNCHANGED vars
  BY <1>0, <1>14 DEF vars
<1> QED BY <1>3, <1>4, <1>5, <1>6, <1>7, <1>8, <1>9, <1>10, <1>11, <1>12, <1>13, <1>14
        DEF Next

(* The queue keeps the promises of the ledger: the order of service, the   *)
(* payout fixed once and at no more than was asked for, and one payment.   *)
THEOREM QueueImplementsLedger == Spec => ImplementsLedger
<1>1. Init => Ledger!Init
  BY LedgerInit
<1>2. QueueInv /\ QueueInv' /\ [Next]_vars => [Ledger!Next]_(Ledger!vars)
  BY LedgerNext
<1> QED BY <1>1, <1>2, QueueInvariant, PTL DEF Spec, ImplementsLedger, Ledger!Spec

-----------------------------------------------------------------------------
(* What is locked *)

(* A share rate is at most m if the bACE is less than the shares are worth *)
(* at the next one.                                                        *)
LEMMA RateSides ==
  ASSUME NEW a \in Nat, NEW s \in Nat \ {0}, NEW m \in Nat
  PROVE  (a * E27_PRECISION_BASE) \div s <= m <=> a * E27_PRECISION_BASE < (m + 1) * s
<1> DEFINE e == a * E27_PRECISION_BASE
           r == e \div s
<1>1. e \in Nat
  <2>1. E27_PRECISION_BASE \in Nat
    BY PrecisionAssumption
  <2> QED BY <2>1, ProductMonotone
<1> HIDE DEF e
<1>2. r \in Nat /\ r * s <= e /\ e < (r + 1) * s
  BY <1>1, QuotientBound
<1> HIDE DEF r
<1>3. r + 1 \in Nat /\ m + 1 \in Nat /\ s \in Nat
  BY <1>2
<1>4. (r + 1) * s \in Nat /\ (m + 1) * s \in Nat /\ r * s \in Nat
  BY <1>2, <1>3, ProductMonotone
<1>5. CASE r <= m
  <2>1. (r + 1) * s <= (m + 1) * s
    BY <1>2, <1>3, <1>5, ProductMonotone
  <2> QED BY <1>1, <1>2, <1>4, <1>5, <2>1 DEF e, r
<1>6. CASE ~ (r <= m)
  <2>1. m + 1 <= r
    BY <1>2, <1>6
  <2>2. (m + 1) * s <= r * s
    BY <1>2, <1>3, <2>1, ProductMonotone
  <2> QED BY <1>1, <1>2, <1>4, <1>6, <2>2 DEF e, r
<1> QED BY <1>5, <1>6

(* What a request is worth, in units of the precision.                     *)
LEMMA RequestWorth ==
  ASSUME NEW q \in Seq(WithdrawalRequest), NEW id \in 1 .. Len(q),
         RequestOf(q, id).bACE \in Nat \ {0}, RequestOf(q, id).shares \in Nat \ {0},
         NEW m \in Nat
  PROVE  LET a == RequestOf(q, id).bACE
             s == RequestOf(q, id).shares
             w == Worth(RequestOf(q, id), m)
         IN  /\ w \in Nat /\ w <= a
             /\ w * E27_PRECISION_BASE <= (m + 1) * s
             /\ RequestOf(q, id).shareRate > m => w * E27_PRECISION_BASE <= m * s
             /\ RequestOf(q, id).shareRate <= m => a * E27_PRECISION_BASE < (m + 1) * s
             /\ RequestOf(q, id).shareRate \in Nat
<1> DEFINE a == RequestOf(q, id).bACE
           s == RequestOf(q, id).shares
           r == RequestOf(q, id).shareRate
           w == Worth(RequestOf(q, id), m)
           E == E27_PRECISION_BASE
<1>1. w \in Nat /\ w <= a
  BY WorthBound
<1>2. r = (a * E) \div s
  BY RequestFields
<1>3. w = IF r > m THEN (s * m) \div E ELSE a
  BY DEF Worth
<1>4. a \in Nat /\ s \in Nat \ {0} /\ E \in Nat \ {0} /\ s \in Nat
  BY PrecisionAssumption
<1> HIDE DEF a, s, r, w, E
<1>5. r <= m <=> a * E < (m + 1) * s
  BY <1>2, <1>4, RateSides DEF E
<1>6. r \in Nat
  <2>1. a * E \in Nat
    BY <1>4, ProductMonotone
  <2> QED BY <1>2, <1>4, <2>1, QuotientBound
<1>7. m * s \in Nat /\ (m + 1) * s \in Nat /\ m * s <= (m + 1) * s /\ s * m = m * s
  <2>1. m + 1 \in Nat /\ m <= m + 1
    OBVIOUS
  <2> QED BY <1>4, <2>1, ProductMonotone
<1>8. CASE r > m
  <2>1. w * E <= m * s
    <3>1. s * m \in Nat
      BY <1>7
    <3> QED BY <1>3, <1>4, <1>7, <1>8, <3>1, QuotientBound
  <2>2. w * E \in Nat
    BY <1>1, <1>4, ProductMonotone
  <2> QED BY <1>1, <1>6, <1>7, <1>8, <2>1, <2>2 DEF a, s, r, w, E
<1>9. CASE ~ (r > m)
  <2>1. w = a /\ r <= m
    BY <1>3, <1>6, <1>9
  <2>2. a * E \in Nat
    BY <1>4, ProductMonotone
  <2> QED BY <1>1, <1>5, <1>6, <1>7, <1>9, <2>1, <2>2 DEF a, s, r, w, E
<1> QED BY <1>8, <1>9

LEMMA Distributes ==
  ASSUME NEW x \in Nat, NEW y \in Nat, NEW z \in Nat
  PROVE  /\ (x + y) * z = x * z + y * z /\ z * (x + y) = z * x + z * y
         /\ x * z \in Nat /\ y * z \in Nat /\ z * x \in Nat /\ z * y \in Nat
OBVIOUS

Growing(q) ==
  \A id \in 1 .. Len(q) :
    RequestOf(q, id).bACE \in Nat \ {0} /\ RequestOf(q, id).shares \in Nat \ {0}

Worths(q, m) == [id \in 1 .. Len(q) |-> Worth(RequestOf(q, id), m)]

(* The bACE and the shares of the requests after p up to r.                *)
AceOf(q, p, r)    == At(q, r).cumulativeBACE - At(q, p).cumulativeBACE
SharesOf(q, p, r) == At(q, r).cumulativeShares - At(q, p).cumulativeShares

(* The requests after p up to r, one by one: together they are worth no    *)
(* more than they asked for, and no more than their shares at the next     *)
(* rate; at the rate itself if all of them are discounted.                 *)
RangeWorth(q, m, p, r) ==
  LET w == SumOf(Worths(q, m), p + 1 .. r)
      a == AceOf(q, p, r)
      s == SharesOf(q, p, r)
  IN  /\ w \in Nat /\ a \in Nat /\ s \in Nat /\ w <= a /\ (r > p => s > 0)
      /\ w * E27_PRECISION_BASE <= (m + 1) * s
      /\ (\A id \in p + 1 .. r : RequestOf(q, id).shareRate > m) => w * E27_PRECISION_BASE <= m * s
      /\ r > p /\ (\A id \in p + 1 .. r : RequestOf(q, id).shareRate <= m) =>
           a * E27_PRECISION_BASE < (m + 1) * s

LEMMA RangeStep ==
  ASSUME NEW q \in Seq(WithdrawalRequest), Growing(q), NEW m \in Nat,
         NEW p \in 0 .. Len(q), NEW r \in p + 1 .. Len(q), RangeWorth(q, m, p, r - 1)
  PROVE  RangeWorth(q, m, p, r)
<1> DEFINE E == E27_PRECISION_BASE
           W0 == SumOf(Worths(q, m), p + 1 .. r - 1)
           A0 == AceOf(q, p, r - 1)
           S0 == SharesOf(q, p, r - 1)
           W == SumOf(Worths(q, m), p + 1 .. r)
           A == AceOf(q, p, r)
           S == SharesOf(q, p, r)
           a == RequestOf(q, r).bACE
           s == RequestOf(q, r).shares
           w == Worth(RequestOf(q, r), m)
           over(id) == RequestOf(q, id).shareRate > m
           under(id) == RequestOf(q, id).shareRate <= m
<1>1. Len(q) \in Nat /\ p \in Nat /\ r \in Nat /\ r \in 1 .. Len(q) /\ r - 1 \in 0 .. Len(q) /\ r > p
  BY LenProperties
<1>2. /\ w \in Nat /\ w <= a /\ w * E <= (m + 1) * s
      /\ over(r) => w * E <= m * s
      /\ under(r) => a * E < (m + 1) * s
      /\ a \in Nat \ {0} /\ s \in Nat \ {0}
  <2>1. RequestOf(q, r).bACE \in Nat \ {0} /\ RequestOf(q, r).shares \in Nat \ {0}
    BY <1>1 DEF Growing
  <2> QED BY <1>1, <2>1, RequestWorth
<1>3. /\ W0 \in Nat /\ A0 \in Nat /\ S0 \in Nat /\ W0 <= A0
      /\ W0 * E <= (m + 1) * S0
      /\ (\A id \in p + 1 .. r - 1 : over(id)) => W0 * E <= m * S0
      /\ r - 1 > p /\ (\A id \in p + 1 .. r - 1 : under(id)) => A0 * E < (m + 1) * S0
  BY DEF RangeWorth
<1>4. W = W0 + w
  <2> DEFINE T == p + 1 .. r
             f == Worths(q, m)
  <2>1. T \ {r} = p + 1 .. r - 1 /\ r \in T /\ T \subseteq 1 .. Len(q) /\ IsFiniteSet(T)
    <3>1. p + 1 \in Int /\ r \in Int
      BY <1>1
    <3>2. IsFiniteSet(T)
      BY <3>1, FS_Interval
    <3> QED BY <1>1, <3>2
  <2>2. \A id \in 1 .. Len(q) : f[id] = Worth(RequestOf(q, id), m) /\ f[id] \in Nat
    <3>1. TAKE id \in 1 .. Len(q)
    <3>2. Worth(RequestOf(q, id), m) \in Nat
      BY RequestWorth DEF Growing
    <3> QED BY <3>2 DEF Worths
  <2>3. \A x \in T : f[x] \in Int
    BY <2>1, <2>2
  <2>4. f[r] = w
    BY <1>1, <2>2
  <2> HIDE DEF T, f, w
  <2>5. SumOf(f, T) = f[r] + SumOf(f, T \ {r})
    BY <2>1, <2>3, SumStep
  <2>6. W = SumOf(f, T) /\ W0 = SumOf(f, T \ {r})
    BY <2>1 DEF T, f
  <2> HIDE DEF W, W0
  <2> QED BY <1>2, <1>3, <2>4, <2>5, <2>6
<1>5. A = A0 + a /\ S = S0 + s
  <2> DEFINE x == At(q, r)
             y == At(q, r - 1)
             z == At(q, p)
  <2>1. x \in [cumulativeBACE : Nat, cumulativeShares : Nat]
    BY <1>1, AtType
  <2>2. y \in [cumulativeBACE : Nat, cumulativeShares : Nat]
    BY <1>1, AtType
  <2>3. z \in [cumulativeBACE : Nat, cumulativeShares : Nat]
    BY <1>1, AtType
  <2>4. a = x.cumulativeBACE - y.cumulativeBACE /\ s = x.cumulativeShares - y.cumulativeShares
    BY <1>1, RequestFields
  <2>5. /\ A = x.cumulativeBACE - z.cumulativeBACE /\ A0 = y.cumulativeBACE - z.cumulativeBACE
        /\ S = x.cumulativeShares - z.cumulativeShares /\ S0 = y.cumulativeShares - z.cumulativeShares
    BY DEF AceOf, SharesOf
  <2> HIDE DEF x, y, z, A, A0, S, S0, a, s
  <2>6. A = A0 + a
    <3> DEFINE u == x.cumulativeBACE
               v == y.cumulativeBACE
               t == z.cumulativeBACE
    <3>1. u \in Nat /\ v \in Nat /\ t \in Nat
      BY <2>1, <2>2, <2>3
    <3>2. a = u - v /\ A = u - t /\ A0 = v - t
      BY <2>4, <2>5
    <3> HIDE DEF u, v, t
    <3> QED BY <3>1, <3>2
  <2>7. S = S0 + s
    <3> DEFINE u == x.cumulativeShares
               v == y.cumulativeShares
               t == z.cumulativeShares
    <3>1. u \in Nat /\ v \in Nat /\ t \in Nat
      BY <2>1, <2>2, <2>3
    <3>2. s = u - v /\ S = u - t /\ S0 = v - t
      BY <2>4, <2>5
    <3> HIDE DEF u, v, t
    <3> QED BY <3>1, <3>2
  <2> QED BY <2>6, <2>7
<1>6. CASE r - 1 = p
  <2>1. W0 = 0 /\ A0 = 0 /\ S0 = 0
    <3>1. p + 1 .. r - 1 = {}
      BY <1>1, <1>6
    <3>2. W0 = 0
      BY <3>1, SumEmpty
    <3>3. At(q, p) \in [cumulativeBACE : Nat, cumulativeShares : Nat]
      BY <1>1, AtType
    <3>4. A0 = 0 /\ S0 = 0
      BY <1>6, <3>3 DEF AceOf, SharesOf
    <3> QED BY <3>2, <3>4
  <2>2. W = w /\ A = a /\ S = s
    <3> HIDE DEF W0, A0, S0, W, A, S, w, a, s
    <3> QED BY <1>2, <1>4, <1>5, <2>1
  <2>3. r \in p + 1 .. r
    BY <1>1
  <2> HIDE DEF W, A, S, w, a, s
  <2>4. /\ W \in Nat /\ A \in Nat /\ S \in Nat /\ W <= A /\ S > 0
        /\ W * E <= (m + 1) * S
        /\ (\A id \in p + 1 .. r : over(id)) => W * E <= m * S
        /\ (\A id \in p + 1 .. r : under(id)) => A * E < (m + 1) * S
    BY <1>2, <2>2, <2>3
  <2> QED BY <2>4 DEF RangeWorth, W, A, S
<1>7. CASE r - 1 # p
  <2> HIDE DEF W0, A0, S0, W, A, S, w, a, s, E
  <2>1. E \in Nat /\ m + 1 \in Nat /\ a \in Nat /\ s \in Nat
    BY <1>2, PrecisionAssumption DEF E
  <2>2. /\ W * E = W0 * E + w * E /\ W0 * E \in Nat /\ w * E \in Nat
        /\ A * E = A0 * E + a * E /\ A0 * E \in Nat /\ a * E \in Nat
        /\ (m + 1) * S = (m + 1) * S0 + (m + 1) * s /\ (m + 1) * S0 \in Nat /\ (m + 1) * s \in Nat
        /\ m * S = m * S0 + m * s /\ m * S0 \in Nat /\ m * s \in Nat
    BY <1>2, <1>3, <1>4, <1>5, <2>1, Distributes
  <2>3. /\ W \in Nat /\ A \in Nat /\ S \in Nat /\ W <= A /\ S > 0
    BY <1>2, <1>3, <1>4, <1>5
  <2>4. W * E <= (m + 1) * S
    <3> DEFINE x == W0 * E
               y == w * E
               u == (m + 1) * S0
               v == (m + 1) * s
    <3>1. x \in Nat /\ y \in Nat /\ u \in Nat /\ v \in Nat /\ W * E = x + y /\ (m + 1) * S = u + v
      BY ONLY <2>2
    <3>2. x <= u /\ y <= v
      BY ONLY <1>2, <1>3
    <3> HIDE DEF x, y, u, v
    <3>3. x + y <= u + v
      BY ONLY <3>1, <3>2
    <3> QED BY ONLY <3>1, <3>3
  <2>5. ASSUME \A id \in p + 1 .. r : over(id) PROVE W * E <= m * S
    <3>1. over(r) /\ \A id \in p + 1 .. r - 1 : over(id)
      BY <1>1, <2>5
    <3>2. w * E <= m * s /\ W0 * E <= m * S0
      BY <1>2, <1>3, <3>1
    <3> DEFINE x == W0 * E
               y == w * E
               u == m * S0
               v == m * s
    <3>3. x \in Nat /\ y \in Nat /\ u \in Nat /\ v \in Nat /\ W * E = x + y /\ m * S = u + v
      BY ONLY <2>2
    <3>4. x <= u /\ y <= v
      BY ONLY <3>2
    <3> HIDE DEF x, y, u, v
    <3>5. x + y <= u + v
      BY ONLY <3>3, <3>4
    <3> QED BY ONLY <3>3, <3>5
  <2>6. ASSUME \A id \in p + 1 .. r : under(id) PROVE A * E < (m + 1) * S
    <3>1. under(r) /\ (\A id \in p + 1 .. r - 1 : under(id)) /\ r - 1 > p
      BY <1>1, <1>7, <2>6
    <3>2. a * E < (m + 1) * s /\ A0 * E < (m + 1) * S0
      BY <1>2, <1>3, <3>1
    <3> DEFINE x == A0 * E
               y == a * E
               u == (m + 1) * S0
               v == (m + 1) * s
    <3>3. x \in Nat /\ y \in Nat /\ u \in Nat /\ v \in Nat /\ A * E = x + y /\ (m + 1) * S = u + v
      BY ONLY <2>2
    <3>4. x < u /\ y < v
      BY ONLY <3>2
    <3> HIDE DEF x, y, u, v
    <3>5. x + y < u + v
      BY ONLY <3>3, <3>4
    <3> QED BY ONLY <3>3, <3>5
  <2> QED BY <2>3, <2>4, <2>5, <2>6 DEF RangeWorth, W, A, S, E
<1> QED BY <1>6, <1>7

LEMMA RangeFine ==
  ASSUME NEW q \in Seq(WithdrawalRequest), Growing(q), NEW m \in Nat,
         NEW p \in 0 .. Len(q), NEW r \in p .. Len(q)
  PROVE  RangeWorth(q, m, p, r)
<1> DEFINE P == {d \in 0 .. Len(q) - p : RangeWorth(q, m, p, p + d)}
           n == Len(q) - p
<1>1. Len(q) \in Nat /\ n \in Nat /\ p \in Nat
  <2>1. Len(q) \in Nat
    BY LenProperties
  <2> QED BY <2>1
<1>2. 0 \in P
  <2>1. p + 1 .. p = {} /\ p + 0 = p /\ 0 \in 0 .. n
    BY <1>1
  <2>2. SumOf(Worths(q, m), p + 1 .. p) = 0
    BY <2>1, SumEmpty
  <2>3. At(q, p) \in [cumulativeBACE : Nat, cumulativeShares : Nat]
    BY AtType
  <2>4. AceOf(q, p, p) = 0 /\ SharesOf(q, p, p) = 0
    BY <2>3 DEF AceOf, SharesOf
  <2>5. 0 * E27_PRECISION_BASE = 0 /\ (m + 1) * 0 = 0 /\ m * 0 = 0
    BY PrecisionAssumption
  <2>6. ~ (p > p)
    BY <1>1
  <2>7. RangeWorth(q, m, p, p)
    BY ONLY <2>2, <2>4, <2>5, <2>6 DEF RangeWorth
  <2> QED BY <2>1, <2>7
<1>3. ASSUME NEW d \in 1 .. n, d - 1 \in P PROVE d \in P
  <2>1. p + d \in p + 1 .. Len(q) /\ p + (d - 1) = (p + d) - 1
    BY <1>1
  <2>2. RangeWorth(q, m, p, (p + d) - 1)
    BY <1>3, <2>1
  <2>3. RangeWorth(q, m, p, p + d)
    BY <2>1, <2>2, RangeStep
  <2> QED BY <2>3
<1>4. \A d \in 0 .. n : d \in P
  <2> HIDE DEF P, n
  <2> QED BY <1>1, <1>2, <1>3, UpTo
<1>5. r - p \in 0 .. n /\ p + (r - p) = r
  BY <1>1
<1> QED BY <1>4, <1>5

(* The requests of a range on the other side of the rate m than the one    *)
(* before them, which is of the same report.                               *)
Mixed(q, m, p, r) ==
  {id \in p + 2 .. r :
     /\ q[id - 1].reportTimestamp = q[id].reportTimestamp
     /\ (RequestOf(q, id).shareRate <= m) # (RequestOf(q, id - 1).shareRate <= m)}

(* All requests after p up to r join the batch of the one before them.     *)
OneBatch(q, m, p, r) == \A id \in p + 2 .. r : ExtendsBatch(q, id, m)

LEMMA OneSide ==
  ASSUME NEW q \in Seq(WithdrawalRequest), Growing(q), NEW m \in Nat,
         NEW p \in 0 .. Len(q), NEW r \in p + 1 .. Len(q),
         OneBatch(q, m, p, r), Mixed(q, m, p, r) = {}
  PROVE  \/ \A id \in p + 1 .. r : RequestOf(q, id).shareRate <= m
         \/ \A id \in p + 1 .. r : RequestOf(q, id).shareRate > m
<1> DEFINE under(id) == RequestOf(q, id).shareRate <= m
           n == r - (p + 1)
           P == {d \in 0 .. n : under(p + 1 + d) = under(p + 1)}
<1>1. Len(q) \in Nat /\ p \in Nat /\ r \in Nat /\ n \in Nat
  <2>1. Len(q) \in Nat
    BY LenProperties
  <2> QED BY <2>1
<1>2. \A id \in p + 2 .. r : under(id) = under(id - 1)
  BY DEF OneBatch, Mixed, ExtendsBatch
<1> HIDE DEF under
<1>3. 0 \in P
  <2>1. p + 1 + 0 = p + 1 /\ 0 \in 0 .. n
    BY <1>1
  <2> QED BY <2>1
<1>4. ASSUME NEW d \in 1 .. n, d - 1 \in P PROVE d \in P
  <2>1. p + 1 + d \in p + 2 .. r /\ (p + 1 + d) - 1 = p + 1 + (d - 1) /\ d \in 0 .. n
    BY <1>1
  <2>2. under(p + 1 + d) = under(p + 1 + (d - 1))
    BY <1>2, <2>1
  <2>3. under(p + 1 + (d - 1)) = under(p + 1)
    BY <1>4
  <2> QED BY <2>1, <2>2, <2>3
<1>5. \A d \in 0 .. n : d \in P
  <2> HIDE DEF P, n
  <2> QED BY <1>1, <1>3, <1>4, UpTo
<1>6. \A id \in p + 1 .. r : under(id) = under(p + 1)
  <2> SUFFICES ASSUME NEW id \in p + 1 .. r PROVE under(id) = under(p + 1)
    OBVIOUS
  <2> DEFINE d == id - (p + 1)
  <2>1. d \in 0 .. n /\ p + 1 + d = id
    BY <1>1
  <2> HIDE DEF d
  <2>2. under(p + 1 + d) = under(p + 1)
    BY <1>5, <2>1
  <2> QED BY <2>1, <2>2
<1>7. \A id \in p + 1 .. r : ~ under(id) => RequestOf(q, id).shareRate > m
  <2> SUFFICES ASSUME NEW id \in p + 1 .. r, ~ under(id) PROVE RequestOf(q, id).shareRate > m
    OBVIOUS
  <2>1. id \in 1 .. Len(q)
    BY <1>1
  <2>2. RequestOf(q, id).shareRate \in Nat
    BY <2>1, RequestWorth DEF Growing
  <2> QED BY <2>2 DEF under
<1>8. CASE under(p + 1)
  <2>1. \A id \in p + 1 .. r : under(id)
    BY <1>6, <1>8
  <2> QED BY <2>1 DEF under
<1>9. CASE ~ under(p + 1)
  <2>1. \A id \in p + 1 .. r : ~ under(id)
    BY <1>6, <1>9
  <2> QED BY <1>7, <2>1
<1> QED BY <1>8, <1>9

(* What is locked for a batch pays its requests one by one, but for one    *)
(* wei if requests of it are on both sides of the rate.                    *)
LEMMA BatchWorth ==
  ASSUME NEW q \in Seq(WithdrawalRequest), Growing(q), NEW m \in Nat,
         NEW p \in 0 .. Len(q), NEW r \in p + 1 .. Len(q),
         OneBatch(q, m, p, r), SharesOf(q, p, r) <= E27_PRECISION_BASE
  PROVE  /\ Worth(CalcBatch(q, p, r), m) \in Nat
         /\ SumOf(Worths(q, m), p + 1 .. r) \in Nat
         /\ SumOf(Worths(q, m), p + 1 .. r) <= Worth(CalcBatch(q, p, r), m) + 1
         /\ Mixed(q, m, p, r) = {} =>
              SumOf(Worths(q, m), p + 1 .. r) <= Worth(CalcBatch(q, p, r), m)
<1> DEFINE E == E27_PRECISION_BASE
           W == SumOf(Worths(q, m), p + 1 .. r)
           A == AceOf(q, p, r)
           S == SharesOf(q, p, r)
           R == (A * E) \div S
           F == (S * m) \div E
           K == Worth(CalcBatch(q, p, r), m)
           allOver == \A id \in p + 1 .. r : RequestOf(q, id).shareRate > m
           allUnder == \A id \in p + 1 .. r : RequestOf(q, id).shareRate <= m
<1>1. E \in Nat \ {0} /\ E \in Nat
  BY PrecisionAssumption
<1>2. /\ W \in Nat /\ A \in Nat /\ S \in Nat \ {0} /\ S \in Nat /\ W <= A /\ S <= E
      /\ W * E <= (m + 1) * S
      /\ allOver => W * E <= m * S
      /\ allUnder => A * E < (m + 1) * S
  <2>1. r \in p .. Len(q) /\ r > p
    <3>1. Len(q) \in Nat
      BY LenProperties
    <3> QED BY <3>1
  <2>2. RangeWorth(q, m, p, r)
    BY <2>1, RangeFine
  <2> QED BY <2>1, <2>2 DEF RangeWorth
<1>3. K = IF R > m THEN F ELSE A
  BY DEF Worth, CalcBatch, AceOf, SharesOf
<1>4. R <= m <=> A * E < (m + 1) * S
  <2> HIDE DEF A, S
  <2> QED BY <1>2, RateSides
<1>5. Mixed(q, m, p, r) = {} => allOver \/ allUnder
  BY OneSide
<1> HIDE DEF E, W, A, S, K, allOver, allUnder
<1>6. A * E \in Nat /\ W * E \in Nat /\ S * m \in Nat /\ m * S = S * m
      /\ (m + 1) * S \in Nat /\ (m + 1) * S = m * S + S
  <2>1. A * E \in Nat /\ W * E \in Nat /\ S * m \in Nat /\ m * S \in Nat
    BY <1>1, <1>2, ProductMonotone
  <2>2. m * S = S * m /\ (m + 1) * S = m * S + S
    <3>1. (m + 1) * S = m * S + 1 * S /\ 1 * S = S
      BY <1>2, Distributes
    <3> QED BY <1>2, <3>1
  <2> QED BY <1>2, <2>1, <2>2
<1>7. R \in Nat
  BY <1>2, <1>6, QuotientBound
<1>8. F \in Nat /\ S * m < (F + 1) * E
  BY <1>1, <1>6, QuotientBound
<1> HIDE DEF R, F
<1>9. CASE R <= m
  <2>1. K = A
    BY <1>3, <1>7, <1>9
  <2> QED BY <1>2, <2>1 DEF K, W
<1>10. CASE ~ (R <= m)
  <2>1. K = F
    BY <1>3, <1>7, <1>10
  <2>2. W <= F + 1
    <3> SUFFICES ASSUME F + 2 <= W PROVE FALSE
      BY <1>2, <1>8
    <3>1. F + 2 \in Nat /\ F + 1 \in Nat
      BY <1>8
    <3>2. (F + 2) * E <= W * E /\ (F + 2) * E \in Nat
      BY <1>1, <1>2, <3>1, ProductMonotone
    <3>3. (F + 2) * E = (F + 1) * E + E /\ (F + 1) * E \in Nat
      <4>1. (F + 1) * E = F * E + 1 * E /\ (F + 2) * E = F * E + 2 * E /\ F * E \in Nat
        BY <1>1, <1>8, Distributes
      <4>2. 1 * E = E /\ 2 * E = E + E
        BY <1>1
      <4> QED BY <1>1, <4>1, <4>2
    <3> QED BY <1>1, <1>2, <1>6, <1>8, <3>2, <3>3
  <2>3. ASSUME Mixed(q, m, p, r) = {} PROVE W <= F
    <3>1. ~ allUnder
      BY <1>2, <1>4, <1>10
    <3>2. W * E < (F + 1) * E
      <4>1. W * E <= m * S
        BY <1>2, <1>5, <2>3, <3>1
      <4>2. (F + 1) * E \in Nat
        BY <1>1, <1>8, ProductMonotone
      <4> QED BY <1>6, <1>8, <4>1, <4>2
    <3> SUFFICES ASSUME F + 1 <= W PROVE FALSE
      BY <1>2, <1>8
    <3>3. (F + 1) * E <= W * E /\ (F + 1) * E \in Nat
      BY <1>1, <1>2, <1>8, ProductMonotone
    <3> QED BY <1>6, <3>2, <3>3
  <2> QED BY <1>2, <1>8, <2>1, <2>2, <2>3 DEF K, W
<1> QED BY <1>9, <1>10

(* Where the batches begin and end; the empty prefix of them ends at last. *)
EndOf(last, batches, i) == IF i = 0 THEN last ELSE batches[i]

Locks(q, m, last, batches) ==
  [i \in DOMAIN batches |-> Worth(BatchOf(q, last, batches, i), m)]

LEMMA PrefinalizeIsSum ==
  ASSUME NEW q, NEW last, NEW batches, NEW m, IsFiniteSet(DOMAIN batches)
  PROVE  Prefinalize(q, last, batches, m) = SumOf(Locks(q, m, last, batches), DOMAIN batches)
<1> DEFINE S == DOMAIN batches
           X(i) == Worth(BatchOf(q, last, batches, i), m)
           f == Locks(q, m, last, batches)
           c(s) == CHOOSE x \in s : TRUE
           k == CHOOSE g : g = [s \in SUBSET S |->
                  IF s = {} THEN 0 ELSE X(c(s)) + g[s \ {c(s)}]]
<1>0. IsFiniteSet(S)
  OBVIOUS
<1>a. \A i \in S : f[i] = X(i)
  BY DEF Locks
<1>1. Prefinalize(q, last, batches, m) = k[S]
  BY DEF Prefinalize, MapThenSumSet, MapThenFoldSet
<1> HIDE DEF f
<1>2. PICK h : Iterates(h, f, S)
  BY <1>0, IterationExists
<1>3. \A s \in SUBSET S : s # {} => f[c(s)] = X(c(s))
  <2>1. \A s \in SUBSET S : s # {} => c(s) \in S
    OBVIOUS
  <2> HIDE DEF c, X, S
  <2> QED BY <1>a, <2>1
<1>4. h = [s \in SUBSET S |-> IF s = {} THEN 0 ELSE X(c(s)) + h[s \ {c(s)}]]
  <2>1. h = [s \in SUBSET S |-> IF s = {} THEN 0 ELSE f[c(s)] + h[s \ {c(s)}]]
    BY <1>2 DEF Iterates
  <2> HIDE DEF c, X, S
  <2> QED BY <1>3, <2>1
<1>5. k = [s \in SUBSET S |-> IF s = {} THEN 0 ELSE X(c(s)) + k[s \ {c(s)}]]
  <2> HIDE DEF c, X, S
  <2> QED BY <1>4
<1>6. k = [s \in SUBSET S |-> IF s = {} THEN 0 ELSE f[c(s)] + k[s \ {c(s)}]]
  <2> HIDE DEF c, X, S, k
  <2> QED BY <1>3, <1>5
<1>7. Iterates(k, f, S)
  <2> HIDE DEF k, S
  <2> QED BY <1>6 DEF Iterates
<1> HIDE DEF k, S
<1>8. SumOf(f, S) = k[S]
  BY <1>0, <1>7, SumIsIterated
<1> QED BY <1>1, <1>8 DEF f, S

LEMMA WorthsType ==
  ASSUME NEW q \in Seq(WithdrawalRequest), Growing(q), NEW m \in Nat
  PROVE  \A id \in 1 .. Len(q) : Worths(q, m)[id] \in Nat /\ Worths(q, m)[id] \in Int
<1> SUFFICES ASSUME NEW id \in 1 .. Len(q) PROVE Worths(q, m)[id] \in Nat
  OBVIOUS
<1>1. Worth(RequestOf(q, id), m) \in Nat
  BY RequestWorth DEF Growing
<1> QED BY <1>1 DEF Worths

(* A range is worth the two parts of it together.                          *)
LEMMA WorthsSplit ==
  ASSUME NEW q \in Seq(WithdrawalRequest), Growing(q), NEW m \in Nat,
         NEW p \in 0 .. Len(q), NEW e \in p .. Len(q), NEW r \in e .. Len(q)
  PROVE  SumOf(Worths(q, m), p + 1 .. r) =
           SumOf(Worths(q, m), p + 1 .. e) + SumOf(Worths(q, m), e + 1 .. r)
<1> DEFINE S == p + 1 .. r
           A == p + 1 .. e
           f == Worths(q, m)
<1>1. Len(q) \in Nat /\ p \in Nat /\ e \in Nat /\ r \in Nat
  <2>1. Len(q) \in Nat
    BY LenProperties
  <2> QED BY <2>1
<1>2. A \in SUBSET S /\ S \ A = e + 1 .. r /\ S \subseteq 1 .. Len(q)
  BY <1>1
<1>3. IsFiniteSet(S)
  <2>1. p + 1 \in Int /\ r \in Int
    BY <1>1
  <2> QED BY <2>1, FS_Interval
<1>4. \A x \in S : f[x] \in Int
  BY <1>2, WorthsType
<1> HIDE DEF S, A, f
<1>5. SumOf(f, S) = SumOf(f, A) + SumOf(f, S \ A)
  BY <1>2, <1>3, <1>4, SumUnion
<1> QED BY <1>2, <1>5 DEF S, A, f

(* The shares of a part of the range are no more than those of all of it.  *)
LEMMA SharesWithin ==
  ASSUME NEW q \in Seq(WithdrawalRequest), Growing(q),
         NEW l \in 0 .. Len(q), NEW p \in l .. Len(q), NEW r \in p .. Len(q)
  PROVE  SharesOf(q, p, r) \in Nat /\ SharesOf(q, p, r) <= SharesOf(q, l, Len(q))
<1> DEFINE n == Len(q)
           a == At(q, l).cumulativeShares
           b == At(q, p).cumulativeShares
           c == At(q, r).cumulativeShares
           d == At(q, n).cumulativeShares
<1>1. n \in Nat /\ l \in 0 .. n /\ p \in 0 .. n /\ r \in 0 .. n /\ n \in 0 .. n
      /\ p \in l .. n /\ r \in p .. n /\ n \in r .. n
  <2>1. n \in Nat
    BY LenProperties
  <2> QED BY <2>1
<1>2. a \in Nat /\ b \in Nat /\ c \in Nat /\ d \in Nat
  <2>1. \A i \in 0 .. n : At(q, i).cumulativeShares \in Nat
    <3> SUFFICES ASSUME NEW i \in 0 .. n PROVE At(q, i).cumulativeShares \in Nat
      OBVIOUS
    <3>1. At(q, i) \in [cumulativeBACE : Nat, cumulativeShares : Nat]
      BY AtType
    <3> QED BY <3>1
  <2> HIDE DEF n
  <2> QED BY <1>1, <2>1
<1>3. b - a \in Nat /\ c - b \in Nat /\ d - c \in Nat
  <2>1. ASSUME NEW x \in 0 .. n, NEW y \in x .. n
        PROVE  At(q, y).cumulativeShares - At(q, x).cumulativeShares \in Nat
    <3>1. RangeWorth(q, 0, x, y)
      BY RangeFine
    <3> QED BY <3>1 DEF RangeWorth, SharesOf
  <2> HIDE DEF n
  <2> QED BY <1>1, <2>1
<1>4. SharesOf(q, p, r) = c - b /\ SharesOf(q, l, Len(q)) = d - a
  BY DEF SharesOf
<1> HIDE DEF a, b, c, d
<1> QED BY <1>2, <1>3, <1>4

(* The requests that count against a prefix of the batches.                *)
LEMMA MixedGrows ==
  ASSUME NEW q \in Seq(WithdrawalRequest), NEW m,
         NEW l \in 0 .. Len(q), NEW p \in l .. Len(q), NEW r \in p .. Len(q)
  PROVE  /\ Cardinality(Mixed(q, m, l, p)) \in Nat /\ Cardinality(Mixed(q, m, l, r)) \in Nat
         /\ Cardinality(Mixed(q, m, l, p)) <= Cardinality(Mixed(q, m, l, r))
         /\ Mixed(q, m, p, r) # {} =>
              Cardinality(Mixed(q, m, l, p)) + 1 <= Cardinality(Mixed(q, m, l, r))
<1> DEFINE old == Mixed(q, m, l, p)
           new == Mixed(q, m, p, r)
           all == Mixed(q, m, l, r)
<1>1. Len(q) \in Nat /\ l \in Nat /\ p \in Nat /\ r \in Nat
  <2>1. Len(q) \in Nat
    BY LenProperties
  <2> QED BY <2>1
<1>2. old \subseteq all /\ new \subseteq all /\ (\A x \in new : x \notin old)
  BY <1>1 DEF Mixed
<1>3. IsFiniteSet(all)
  <2>1. l + 2 \in Int /\ r \in Int
    BY <1>1
  <2>2. IsFiniteSet(l + 2 .. r)
    BY <2>1, FS_Interval
  <2> QED BY <2>2, FS_Subset DEF Mixed
<1> HIDE DEF old, new, all
<1>4. IsFiniteSet(old) /\ Cardinality(old) \in Nat /\ Cardinality(all) \in Nat
      /\ Cardinality(old) <= Cardinality(all)
  BY <1>2, <1>3, FS_Subset, FS_CardinalityType
<1>5. ASSUME new # {} PROVE Cardinality(old) + 1 <= Cardinality(all)
  <2>1. PICK x \in new : TRUE
    BY <1>5
  <2>2. x \notin old /\ old \cup {x} \subseteq all
    BY <1>2
  <2>3. Cardinality(old \cup {x}) = Cardinality(old) + 1
    BY <1>4, <2>2, FS_AddElement
  <2>4. Cardinality(old \cup {x}) <= Cardinality(all)
    BY <1>3, <2>2, FS_Subset
  <2> QED BY <2>3, <2>4
<1> QED BY <1>4, <1>5 DEF old, new, all

LEMMA RangeLocked ==
  ASSUME NEW q \in Seq(WithdrawalRequest), Growing(q), NEW m \in Nat,
         NEW p \in 0 .. Len(q), NEW r \in p + 1 .. Len(q)
  PROVE  Worth(CalcBatch(q, p, r), m) \in Nat
<1> DEFINE A == AceOf(q, p, r)
           S == SharesOf(q, p, r)
<1>1. A \in Nat /\ S \in Nat
  <2>1. r \in p .. Len(q)
    <3>1. Len(q) \in Nat
      BY LenProperties
    <3> QED BY <3>1
  <2>2. RangeWorth(q, m, p, r)
    BY <2>1, RangeFine
  <2> QED BY <2>2 DEF RangeWorth
<1>2. Worth(CalcBatch(q, p, r), m) \in {A, (S * m) \div E27_PRECISION_BASE}
  BY DEF Worth, CalcBatch, AceOf, SharesOf
<1> HIDE DEF A, S
<1>3. S * m \in Nat
  BY <1>1, ProductMonotone
<1>4. (S * m) \div E27_PRECISION_BASE \in Nat
  BY <1>3, PrecisionAssumption, QuotientBound
<1> QED BY <1>1, <1>2, <1>4

(* What is locked for batches pays their requests one by one, but for one  *)
(* wei for every request that stands on the other side of the rate than    *)
(* the one before it although both are in one batch.                       *)
LEMMA BatchesWorth ==
  ASSUME NEW q \in Seq(WithdrawalRequest), Growing(q), NEW m \in Nat, NEW last \in 0 .. Len(q),
         SharesOf(q, last, Len(q)) <= E27_PRECISION_BASE,
         NEW batches \in Seq(1 .. Len(q)), CanPrefinalize(q, last, batches, m),
         \A i \in 1 .. Len(batches) : OneBatch(q, m, EndOf(last, batches, i - 1), batches[i])
  PROVE  /\ Last(batches) \in last .. Len(q)
         /\ Prefinalize(q, last, batches, m) \in Nat
         /\ SumOf(Worths(q, m), last + 1 .. Last(batches)) <=
              Prefinalize(q, last, batches, m) + Cardinality(Mixed(q, m, last, Last(batches)))
<1> DEFINE n == Len(batches)
           f == Worths(q, m)
           g == Locks(q, m, last, batches)
           end(i) == EndOf(last, batches, i)
           Holds(j) == /\ end(j) \in last .. Len(q)
                       /\ SumOf(g, 1 .. j) \in Nat
                       /\ SumOf(f, last + 1 .. end(j)) <=
                            SumOf(g, 1 .. j) + Cardinality(Mixed(q, m, last, end(j)))
           P == {j \in 0 .. n : Holds(j)}
<1>1. /\ Len(q) \in Nat /\ last \in Nat /\ n \in Nat /\ n >= 1 /\ DOMAIN batches = 1 .. n
      /\ \A i \in 1 .. n : batches[i] \in 1 .. Len(q)
      /\ batches[1] > last
      /\ \A i \in 1 .. n - 1 : batches[i] < batches[i + 1]
  <2>1. Len(q) \in Nat /\ batches # <<>>
    BY LenProperties DEF CanPrefinalize
  <2>2. n \in Nat /\ n >= 1 /\ DOMAIN batches = 1 .. n
    BY <2>1, LenProperties, EmptySeq
  <2>3. \A i \in 1 .. n : batches[i] \in 1 .. Len(q)
    BY <2>2, ElementOfSeq
  <2> QED BY <2>1, <2>2, <2>3 DEF CanPrefinalize
<1> HIDE DEF f, g
<1>2. 0 \in P
  <2>1. end(0) = last /\ last \in last .. Len(q) /\ 0 \in 0 .. n
    BY <1>1 DEF EndOf
  <2>2. 1 .. 0 = {} /\ last + 1 .. last = {}
    BY <1>1
  <2>3. SumOf(g, 1 .. 0) = 0 /\ SumOf(f, last + 1 .. last) = 0
    BY <2>2, SumEmpty
  <2>4. Cardinality(Mixed(q, m, last, last)) \in Nat
    BY <2>1, MixedGrows
  <2>5. Holds(0)
    BY <2>1, <2>3, <2>4
  <2> QED BY <2>1, <2>5
<1>3. ASSUME NEW j \in 1 .. n, j - 1 \in P PROVE j \in P
  <2> DEFINE p == end(j - 1)
             r == end(j)
             V == SumOf(f, last + 1 .. p)
             L == SumOf(g, 1 .. j - 1)
             C == Cardinality(Mixed(q, m, last, p))
             D == Cardinality(Mixed(q, m, last, r))
             W == SumOf(f, p + 1 .. r)
             K == Worth(CalcBatch(q, p, r), m)
  <2>1. p \in last .. Len(q) /\ L \in Nat /\ V <= L + C
    BY <1>3
  <2>2. r = batches[j] /\ r \in p + 1 .. Len(q) /\ g[j] = K
    <3>1. r = batches[j] /\ r \in 1 .. Len(q)
      BY <1>1 DEF EndOf
    <3>2. CASE j = 1
      <4>1. p = last
        BY <3>2 DEF EndOf
      <4>2. g[j] = K
        BY <1>1, <3>1, <3>2, <4>1 DEF g, Locks, BatchOf
      <4> QED BY <1>1, <3>1, <3>2, <4>1, <4>2
    <3>3. CASE j # 1
      <4>1. j - 1 \in 1 .. n - 1 /\ (j - 1) + 1 = j /\ j - 1 # 0
        BY <1>1, <3>3
      <4>2. p = batches[j - 1] /\ batches[j - 1] < batches[j]
        BY <1>1, <4>1 DEF EndOf
      <4>3. g[j] = K
        BY <1>1, <3>1, <3>3, <4>2 DEF g, Locks, BatchOf
      <4> QED BY <1>1, <2>1, <3>1, <4>2, <4>3
    <3> QED BY <3>2, <3>3
  <2> HIDE DEF end, P
  <2>3. /\ p \in 0 .. Len(q) /\ r \in p .. Len(q) /\ r \in last .. Len(q)
        /\ p \in last .. Len(q)
    BY <1>1, <2>1, <2>2
  <2>4. OneBatch(q, m, p, r)
    BY <2>2 DEF end
  <2>5. SharesOf(q, p, r) <= E27_PRECISION_BASE
    <3>1. SharesOf(q, p, r) \in Nat /\ SharesOf(q, p, r) <= SharesOf(q, last, Len(q))
      BY <2>3, SharesWithin
    <3>2. SharesOf(q, last, Len(q)) \in Nat
      <4>1. last \in last .. Len(q) /\ Len(q) \in last .. Len(q)
        BY <1>1
      <4> QED BY <4>1, SharesWithin
    <3> QED BY <3>1, <3>2, PrecisionAssumption
  <2>6. K \in Nat /\ W \in Nat /\ W <= K + 1 /\ (Mixed(q, m, p, r) = {} => W <= K)
    BY <2>2, <2>3, <2>4, <2>5, BatchWorth DEF f
  <2>7. /\ C \in Nat /\ D \in Nat /\ C <= D
        /\ Mixed(q, m, p, r) # {} => C + 1 <= D
    BY <2>3, MixedGrows
  <2>8. SumOf(f, last + 1 .. r) = V + W
    BY <2>3, WorthsSplit DEF f
  <2>9. SumOf(g, 1 .. j) = L + K
    <3> DEFINE S == 1 .. j
    <3>1. S \ {j} = 1 .. j - 1 /\ j \in S /\ IsFiniteSet(S)
      <4>1. j \in Nat /\ 1 \in Int /\ j \in Int /\ j >= 1
        BY <1>1
      <4>2. IsFiniteSet(S)
        BY <4>1, FS_Interval
      <4>3. S \ {j} = 1 .. j - 1 /\ j \in S
        BY <4>1
      <4> QED BY <4>2, <4>3
    <3>2. \A i \in S : g[i] \in Int
      <4> SUFFICES ASSUME NEW i \in S PROVE g[i] \in Int
        OBVIOUS
      <4>1. i \in 1 .. n
        BY <1>1
      <4> DEFINE from == IF i = 1 THEN last ELSE batches[i - 1]
      <4>2. g[i] = Worth(CalcBatch(q, from, batches[i]), m)
        BY <1>1, <4>1 DEF g, Locks, BatchOf
      <4>3. from \in 0 .. Len(q) /\ batches[i] \in from + 1 .. Len(q)
        <5>1. CASE i = 1
          BY <1>1, <5>1
        <5>2. CASE i # 1
          <6>1. i - 1 \in 1 .. n - 1 /\ i - 1 \in 1 .. n /\ (i - 1) + 1 = i
            BY <1>1, <4>1, <5>2
          <6>2. batches[i - 1] < batches[i] /\ from = batches[i - 1]
            BY <1>1, <5>2, <6>1
          <6>3. batches[i - 1] \in 1 .. Len(q) /\ batches[i] \in 1 .. Len(q)
            BY <1>1, <4>1, <6>1
          <6>4. Len(q) \in Nat
            BY LenProperties
          <6> DEFINE x == batches[i - 1]
                     y == batches[i]
                     l == Len(q)
          <6>5. from = x /\ x \in 1 .. l /\ y \in 1 .. l /\ x < y /\ l \in Nat
            BY ONLY <6>2, <6>3, <6>4
          <6> HIDE DEF from, x, y, l
          <6>6. from \in 0 .. l /\ y \in from + 1 .. l
            BY ONLY <6>5
          <6> QED BY ONLY <6>6 DEF y, l
        <5> QED BY <5>1, <5>2
      <4> HIDE DEF from
      <4>4. Worth(CalcBatch(q, from, batches[i]), m) \in Int
        BY <4>3, RangeLocked
      <4> QED BY <4>2, <4>4
    <3> HIDE DEF S
    <3>3. SumOf(g, S) = g[j] + SumOf(g, S \ {j})
      BY <3>1, <3>2, SumStep
    <3> HIDE DEF K
    <3>4. SumOf(g, 1 .. j) = K + L
      BY <2>2, <3>1, <3>3 DEF S
    <3>5. K \in Nat
      BY <2>6 DEF K
    <3> HIDE DEF L
    <3>6. L \in Nat
      BY <2>1 DEF L
    <3> QED BY <3>4, <3>5, <3>6
  <2>10. V \in Int
    <3>1. IsFiniteSet(last + 1 .. p)
      <4>1. last + 1 \in Int /\ p \in Int
        BY <2>3
      <4> QED BY <4>1, FS_Interval
    <3>2. \A x \in last + 1 .. p : f[x] \in Int
      <4>1. last + 1 .. p \subseteq 1 .. Len(q)
        BY <1>1, <2>3
      <4> QED BY <4>1, WorthsType DEF f
    <3> QED BY <3>1, <3>2, SumType
  <2> HIDE DEF V, L, C, D, W, K
  <2>11. SumOf(f, last + 1 .. r) <= SumOf(g, 1 .. j) + D /\ SumOf(g, 1 .. j) \in Nat
    <3>1. CASE Mixed(q, m, p, r) = {}
      BY <2>1, <2>6, <2>7, <2>8, <2>9, <2>10, <3>1
    <3>2. CASE Mixed(q, m, p, r) # {}
      BY <2>1, <2>6, <2>7, <2>8, <2>9, <2>10, <3>2
    <3> QED BY <3>1, <3>2
  <2>12. j \in 0 .. n
    BY <1>1
  <2> QED BY <2>3, <2>11, <2>12 DEF D, P
<1>4. n \in P
  <2>1. n \in 0 .. n
    BY <1>1
  <2> HIDE DEF P
  <2> QED BY <1>1, <1>2, <1>3, <2>1, UpTo
<1>5. end(n) = Last(batches)
  BY <1>1 DEF EndOf, Last
<1>6. Prefinalize(q, last, batches, m) = SumOf(g, 1 .. n)
  <2>1. IsFiniteSet(1 .. n)
    BY <1>1, FS_Interval
  <2> QED BY <1>1, <2>1, PrefinalizeIsSum DEF g
<1> HIDE DEF end
<1> QED BY <1>4, <1>5, <1>6 DEF f

-----------------------------------------------------------------------------
(* The batches that the daemon chooses *)

BatchStates(q) == [remainingAceBudget : Int, batches : Seq(1 .. Len(q)), stopped : BOOLEAN]

(* Up to the last batch, every request joins the one before it or that one *)
(* ends a batch.                                                           *)
Covered(q, m, last, b) ==
  b # <<>> =>
    \A i \in last + 2 .. Last(b) :
      (\E k \in 1 .. Len(b) : b[k] = i - 1) \/ ExtendsBatch(q, i, m)

(* After the round for a request the last batch ends there, or the loop    *)
(* has stopped.                                                            *)
Joined(q, m, last, id, st) ==
  /\ st \in BatchStates(q)
  /\ ~ st.stopped => IF id = last THEN st.batches = <<>>
                                  ELSE st.batches # <<>> /\ Last(st.batches) = id
  /\ Covered(q, m, last, st.batches)

LEMMA RoundJoins ==
  ASSUME NEW q \in Seq(WithdrawalRequest), Growing(q), NEW m \in Nat, NEW time,
         NEW last \in 0 .. Len(q), NEW id \in last + 1 .. Len(q),
         NEW st, Joined(q, m, last, id - 1, st)
  PROVE  Joined(q, m, last, id, HandleRequest(q, m, time, st, id))
<1> DEFINE ace == Worth(RequestOf(q, id), m)
           spent == [st EXCEPT !.remainingAceBudget = @ - ace]
           b == st.batches
           new == HandleRequest(q, m, time, st, id)
<1>1. Len(q) \in Nat /\ last \in Nat /\ id \in Nat /\ id \in 1 .. Len(q) /\ id # last
  <2>1. Len(q) \in Nat
    BY LenProperties
  <2> QED BY <2>1
<1>2. ace \in Nat
  <2>1. Worths(q, m)[id] \in Nat
    BY <1>1, WorthsType
  <2> QED BY <1>1, <2>1 DEF Worths
<1> HIDE DEF ace
<1>3. st \in BatchStates(q) /\ b \in Seq(1 .. Len(q)) /\ Covered(q, m, last, b)
  BY DEF Joined, BatchStates
<1>4. Len(b) \in Nat /\ DOMAIN b = 1 .. Len(b)
  BY <1>3, LenProperties
<1>5. spent \in BatchStates(q) /\ spent.batches = b
  <2>1. st \in [remainingAceBudget : Int, batches : Seq(1 .. Len(q)), stopped : BOOLEAN]
    BY <1>3 DEF BatchStates
  <2>2. st.remainingAceBudget - ace \in Int
    BY <1>2, <2>1
  <2> QED BY <2>1, <2>2 DEF BatchStates
<1>6. ASSUME new \in {[st EXCEPT !.stopped = TRUE], [spent EXCEPT !.stopped = TRUE]}
      PROVE  Joined(q, m, last, id, new)
  <2> HIDE DEF spent, new
  <2>1. new \in BatchStates(q) /\ new.stopped /\ new.batches = b
    BY <1>3, <1>5, <1>6 DEF BatchStates
  <2> QED BY <1>3, <2>1 DEF Joined
<1>7. ASSUME NEW c \in Seq(1 .. Len(q)), new = [spent EXCEPT !.batches = c], c # <<>>, Last(c) = id,
             Covered(q, m, last, c)
      PROVE  Joined(q, m, last, id, new)
  <2> HIDE DEF spent, new
  <2>1. new \in BatchStates(q) /\ new.batches = c
    BY <1>5, <1>7 DEF BatchStates
  <2> QED BY <1>1, <1>7, <2>1 DEF Joined
<1>8. CASE st.stopped \/ q[id].timestamp > time \/ ace > st.remainingAceBudget
  <2>1. new = [st EXCEPT !.stopped = TRUE]
    BY <1>8 DEF HandleRequest, ace
  <2> QED BY <1>6, <2>1
<1>9. CASE ~ (st.stopped \/ q[id].timestamp > time \/ ace > st.remainingAceBudget)
  <2>1. IF id - 1 = last THEN b = <<>> ELSE b # <<>> /\ Last(b) = id - 1
    BY <1>9 DEF Joined
  <2>2. CASE b # <<>> /\ ExtendsBatch(q, id, m)
    <3> DEFINE c == [b EXCEPT ![Len(b)] = id]
    <3>1. new = [spent EXCEPT !.batches[Len(b)] = id]
      BY <1>9, <2>2 DEF HandleRequest, ace
    <3>2. new = [spent EXCEPT !.batches = c]
      <4> HIDE DEF spent, new
      <4> QED BY <1>5, <3>1
    <3>3. Len(b) \in 1 .. Len(b) /\ Len(b) >= 1
      BY <1>4, <2>2, <1>3, EmptySeq
    <3>4. c \in Seq(1 .. Len(q)) /\ Len(c) = Len(b)
      BY <1>1, <1>3, <3>3, ExceptSeq
    <3>5. /\ \A k \in 1 .. Len(b) : c[k] = IF k = Len(b) THEN id ELSE b[k]
          /\ c # <<>>
      BY <1>4, <3>3, <3>4, EmptySeq
    <3> HIDE DEF c
    <3>6. Last(c) = id
      BY <3>3, <3>4, <3>5 DEF Last
    <3>7. Last(b) = id - 1 /\ b[Len(b)] = id - 1 /\ b # <<>>
      BY <2>1, <2>2 DEF Last
    <3>8. ASSUME NEW i \in last + 2 .. id
          PROVE  (\E k \in 1 .. Len(c) : c[k] = i - 1) \/ ExtendsBatch(q, i, m)
      <4>1. CASE i = id
        BY <2>2, <4>1
      <4>2. CASE i # id
        <5>1. i \in last + 2 .. Last(b) /\ i - 1 # id - 1
          BY <1>1, <3>7, <4>2
        <5>2. CASE ExtendsBatch(q, i, m)
          BY <5>2
        <5>3. CASE ~ ExtendsBatch(q, i, m)
          <6>1. PICK k \in 1 .. Len(b) : b[k] = i - 1
            BY <1>3, <3>7, <5>1, <5>3 DEF Covered
          <6>2. k # Len(b)
            BY <3>7, <5>1, <6>1
          <6> QED BY <3>4, <3>5, <6>1, <6>2
        <5> QED BY <5>2, <5>3
      <4> QED BY <4>1, <4>2
    <3>9. Covered(q, m, last, c)
      BY <3>6, <3>8 DEF Covered
    <3> QED BY <1>7, <3>2, <3>4, <3>5, <3>6, <3>9
  <2>3. CASE ~ (b # <<>> /\ ExtendsBatch(q, id, m)) /\ Len(b) = MAX_BATCHES_LENGTH
    <3>1. new = [spent EXCEPT !.stopped = TRUE]
      BY <1>9, <2>3 DEF HandleRequest, ace
    <3> QED BY <1>6, <3>1
  <2>4. CASE ~ (b # <<>> /\ ExtendsBatch(q, id, m)) /\ Len(b) # MAX_BATCHES_LENGTH
    <3> DEFINE c == Append(b, id)
    <3>1. new = [spent EXCEPT !.batches = c]
      BY <1>9, <2>4 DEF HandleRequest, ace
    <3>2. /\ c \in Seq(1 .. Len(q)) /\ Len(c) = Len(b) + 1
          /\ c[Len(b) + 1] = id /\ \A k \in 1 .. Len(b) : c[k] = b[k]
      BY <1>1, <1>3, AppendProperties
    <3> HIDE DEF c
    <3>3. c # <<>> /\ Last(c) = id
      BY <1>4, <3>2, EmptySeq DEF Last
    <3>4. ASSUME NEW i \in last + 2 .. id
          PROVE  (\E k \in 1 .. Len(c) : c[k] = i - 1) \/ ExtendsBatch(q, i, m)
      <4>1. b # <<>> /\ Last(b) = id - 1
        BY <1>1, <2>1, <3>4
      <4>2. b[Len(b)] = id - 1 /\ Len(b) \in 1 .. Len(b)
        BY <1>3, <1>4, <4>1, EmptySeq DEF Last
      <4>3. CASE i = id
        <5>1. c[Len(b)] = b[Len(b)]
          BY <3>2, <4>2
        <5>2. Len(b) \in 1 .. Len(c)
          BY <1>4, <3>2, <4>2
        <5> QED BY <4>2, <4>3, <5>1, <5>2
      <4>4. CASE i # id
        <5>1. i \in last + 2 .. Last(b)
          BY <1>1, <4>1, <4>4
        <5>2. CASE ExtendsBatch(q, i, m)
          BY <5>2
        <5>3. CASE ~ ExtendsBatch(q, i, m)
          <6>1. PICK k \in 1 .. Len(b) : b[k] = i - 1
            BY <1>3, <4>1, <5>1, <5>3 DEF Covered
          <6> HIDE DEF b, spent, new
          <6>2. c[k] = b[k]
            BY ONLY <3>2, <6>1
          <6>3. k \in 1 .. Len(c)
            <7> DEFINE n == Len(b)
                       l == Len(c)
            <7>1. n \in Nat /\ l = n + 1 /\ k \in 1 .. n
              BY ONLY <1>4, <3>2, <6>1
            <7> HIDE DEF n, l
            <7>2. k \in 1 .. l
              BY ONLY <7>1
            <7> QED BY ONLY <7>2 DEF l
          <6>4. c[k] = i - 1
            BY ONLY <6>1, <6>2
          <6> QED BY ONLY <6>3, <6>4
        <5> QED BY <5>2, <5>3
      <4> QED BY <4>3, <4>4
    <3>5. Covered(q, m, last, c)
      BY <3>3, <3>4 DEF Covered
    <3> QED BY <1>7, <3>1, <3>2, <3>3, <3>5
  <2> QED BY <2>2, <2>3, <2>4
<1> QED BY <1>8, <1>9

LEMMA RoundType ==
  ASSUME NEW q \in Seq(WithdrawalRequest), Growing(q), NEW m \in Nat, NEW time,
         NEW st \in BatchStates(q), NEW id \in 1 .. Len(q)
  PROVE  HandleRequest(q, m, time, st, id) \in BatchStates(q)
<1> DEFINE ace == Worth(RequestOf(q, id), m)
           spent == [st EXCEPT !.remainingAceBudget = @ - ace]
<1>1. ace \in Nat
  <2>1. Worths(q, m)[id] \in Nat
    BY WorthsType
  <2> QED BY <2>1 DEF Worths
<1> HIDE DEF ace
<1>2. spent \in BatchStates(q) /\ spent.batches = st.batches
  BY <1>1 DEF BatchStates
<1>3. [st EXCEPT !.stopped = TRUE] \in BatchStates(q)
  BY DEF BatchStates
<1>4. [spent EXCEPT !.stopped = TRUE] \in BatchStates(q)
  <2> HIDE DEF spent
  <2> QED BY <1>2 DEF BatchStates
<1>5. [spent EXCEPT !.batches = Append(st.batches, id)] \in BatchStates(q)
  <2>1. Append(st.batches, id) \in Seq(1 .. Len(q))
    BY AppendProperties DEF BatchStates
  <2> HIDE DEF spent
  <2> QED BY <1>2, <2>1 DEF BatchStates
<1>6. ASSUME st.batches # <<>>
      PROVE  [spent EXCEPT !.batches[Len(st.batches)] = id] \in BatchStates(q)
  <2> DEFINE new == [st.batches EXCEPT ![Len(st.batches)] = id]
  <2>1. st.batches \in Seq(1 .. Len(q))
    BY DEF BatchStates
  <2>2. new \in Seq(1 .. Len(q))
    <3>1. Len(st.batches) \in 1 .. Len(st.batches)
      BY <1>6, <2>1, LenProperties, EmptySeq
    <3> QED BY <2>1, <3>1, ExceptSeq
  <2>3. [spent EXCEPT !.batches[Len(st.batches)] = id] = [spent EXCEPT !.batches = new]
    <3> HIDE DEF spent
    <3> QED BY <1>2
  <2> HIDE DEF spent, new
  <2> QED BY <1>2, <2>2, <2>3 DEF BatchStates
<1> QED BY <1>3, <1>4, <1>5, <1>6 DEF HandleRequest, ace

(* All the rounds of one call.                                             *)
LEMMA ChosenBatches ==
  ASSUME NEW q \in Seq(WithdrawalRequest), Growing(q), NEW m \in Nat, NEW time,
         NEW last \in 0 .. Len(q), NEW budget \in Int
  PROVE  LET b == CalculateFinalizationBatches(q, last, m, time, Len(q) + 1,
                    [remainingAceBudget |-> budget, batches |-> <<>>, finished |-> FALSE]).batches
         IN  b \in Seq(1 .. Len(q)) /\ Covered(q, m, last, b)
<1> DEFINE first == last + 1
           upTo == IF first + (Len(q) + 1) > Len(q) + 1 THEN Len(q) ELSE first + (Len(q) + 1) - 1
           ids == [i \in 1 .. upTo + 1 - first |-> first + i - 1]
           base == [remainingAceBudget |-> budget, batches |-> <<>>, stopped |-> FALSE]
           S == DOMAIN ids
           T == BatchStates(q)
           Step(y, x) == HandleRequest(q, m, time, y, ids[x])
           k == CHOOSE g : g = [s \in SUBSET S |->
                  IF s = {} THEN base ELSE Step(g[s \ {Max(s)}], Max(s))]
           c == [s \in SUBSET S |-> Max(s)]
           g == [p \in S \X T |-> Step(p[2], p[1])]
           n == Len(q) - last
<1>1. Len(q) \in Nat /\ last \in Nat /\ n \in Nat /\ n \in Int
  <2>1. Len(q) \in Nat
    BY LenProperties
  <2> QED BY <2>1
<1>2. upTo = Len(q) /\ upTo + 1 - first = n
  <2>1. first + (Len(q) + 1) > Len(q) + 1 /\ Len(q) + 1 - first = n
    BY <1>1
  <2>2. upTo = Len(q)
    BY <2>1
  <2> HIDE DEF upTo, n, first
  <2> QED BY <2>1, <2>2
<1>3. S = 1 .. n /\ IsFiniteSet(S) /\ S \subseteq Nat
      /\ \A i \in S : ids[i] = last + i /\ ids[i] \in last + 1 .. Len(q) /\ ids[i] \in 1 .. Len(q)
  <2> HIDE DEF upTo
  <2>1. S = 1 .. n /\ \A i \in 1 .. n : ids[i] = last + 1 + i - 1
    BY <1>2
  <2> HIDE DEF ids, S
  <2>2. IsFiniteSet(S)
    <3> HIDE DEF n
    <3> QED BY <1>1, <2>1, FS_Interval
  <2>3. \A i \in 1 .. n : last + 1 + i - 1 = last + i /\ last + i \in last + 1 .. Len(q)
                          /\ last + i \in 1 .. Len(q)
    BY <1>1
  <2>4. 1 .. n \subseteq Nat
    BY <1>1
  <2> HIDE DEF n
  <2> QED BY <2>1, <2>2, <2>3, <2>4
<1>4. base \in T
  <2>1. <<>> \in Seq(1 .. Len(q))
    BY EmptySeq
  <2> QED BY <2>1 DEF BatchStates
<1>5. \A x \in S, y \in T : Step(y, x) \in T
  <2> HIDE DEF ids, S
  <2> QED BY <1>3, RoundType
<1>6. \A s \in SUBSET S : s # {} => Max(s) \in s /\ \A y \in s : y <= Max(s)
  <2> HIDE DEF S, n
  <2> QED BY <1>1, <1>3, MaxOfSome
<1>7. Chooses(c, S)
  <2> HIDE DEF S
  <2> QED BY <1>6 DEF Chooses
<1>8. \A x \in S, y \in T : g[<<x, y>>] = Step(y, x)
  <2> HIDE DEF S, T, Step
  <2> QED OBVIOUS
<1>9. PICK h : Solves(h, g, c, base, S)
  <2> HIDE DEF g, c, base, S
  <2> QED BY <1>3, <1>7, FoldExists
<1>10. \A s \in SUBSET S : h[s] \in T
  <2>1. \A x \in S, y \in T : g[<<x, y>>] \in T
    <3> HIDE DEF S, T, g, Step
    <3> QED BY <1>5, <1>8
  <2> HIDE DEF g, c, base, S, T
  <2> QED BY <1>3, <1>4, <1>7, <1>9, <2>1, FoldType
<1>11. h = [s \in SUBSET S |-> IF s = {} THEN base ELSE Step(h[s \ {Max(s)}], Max(s))]
  <2>1. \A s \in SUBSET S : c[s] = Max(s)
    <3> HIDE DEF S
    <3> QED OBVIOUS
  <2>2. \A s \in SUBSET S : s # {} =>
           g[<<c[s], h[s \ {c[s]}]>>] = Step(h[s \ {Max(s)}], Max(s))
    <3> SUFFICES ASSUME NEW s \in SUBSET S, s # {}
                 PROVE  g[<<Max(s), h[s \ {Max(s)}]>>] = Step(h[s \ {Max(s)}], Max(s))
      BY <2>1
    <3>1. Max(s) \in S /\ h[s \ {Max(s)}] \in T
      <4> HIDE DEF S, T
      <4> QED BY <1>6, <1>10
    <3> HIDE DEF S, T, g, Step
    <3> QED BY <1>8, <3>1
  <2>3. h = [s \in SUBSET S |-> IF s = {} THEN base ELSE g[<<c[s], h[s \ {c[s]}]>>]]
    <3> HIDE DEF S, g, c, base
    <3> QED BY <1>9 DEF Solves
  <2> HIDE DEF S, g, c, base, Step
  <2> QED BY <2>2, <2>3
<1>12. k = [s \in SUBSET S |-> IF s = {} THEN base ELSE Step(k[s \ {Max(s)}], Max(s))]
  <2> HIDE DEF S, base, Step
  <2> QED BY <1>11
<1>13. Joined(q, m, last, Len(q), k[S])
  <2> DEFINE P == {j \in 0 .. n : Joined(q, m, last, last + j, k[1 .. j])}
  <2>1. 0 \in P
    <3> HIDE DEF S, base, Step, k, c, g, ids
    <3>1. 1 .. 0 = {} /\ {} \in SUBSET S /\ 0 \in 0 .. n /\ last + 0 = last
      BY <1>1
    <3>2. k[{}] = base
      BY <1>12, <3>1
    <3>3. base \in BatchStates(q) /\ base.batches = <<>>
      BY <1>4 DEF base
    <3>4. Joined(q, m, last, last, base)
      BY <3>3 DEF Joined, Covered
    <3> QED BY <3>1, <3>2, <3>4
  <2>2. ASSUME NEW j \in 1 .. n, j - 1 \in P PROVE j \in P
    <3> HIDE DEF S, base, k, c, g, ids
    <3> DEFINE s == 1 .. j
    <3>1. /\ j \in s /\ s \ {j} = 1 .. j - 1 /\ s \subseteq 1 .. n /\ s # {} /\ j \in 0 .. n
          /\ last + (j - 1) = (last + j) - 1 /\ last + j \in last + 1 .. Len(q)
          /\ \A y \in s : y \in Nat /\ y <= j
      <4>1. j \in Nat /\ j >= 1 /\ j <= n
        BY <1>1
      <4>2. last + (j - 1) = (last + j) - 1 /\ last + j \in last + 1 .. Len(q)
        BY <1>1, <4>1
      <4> HIDE DEF n
      <4>5. j \in s
        BY <4>1
      <4>6. s \ {j} = 1 .. j - 1
        BY <4>1
      <4>3. \A y \in s : y \in Nat /\ y <= j
        BY <4>1
      <4>4. s \subseteq 1 .. n /\ j \in 0 .. n
        BY <1>1, <4>1
      <4> QED BY <4>5, <4>6, <4>2, <4>3, <4>4
    <3> HIDE DEF s, n
    <3>2. Max(s) = j
      <4>1. Max(s) \in s /\ \A y \in s : y <= Max(s)
        BY <1>3, <1>6, <3>1
      <4>2. Max(s) \in Nat /\ Max(s) <= j /\ j <= Max(s) /\ j \in Nat
        BY <3>1, <4>1
      <4> QED BY <4>2
    <3>3. k[s] = Step(k[1 .. j - 1], j)
      <4> HIDE DEF Step
      <4> QED BY <1>3, <1>12, <3>1, <3>2
    <3>4. ids[j] = last + j
      BY <1>3
    <3>5. Joined(q, m, last, (last + j) - 1, k[1 .. j - 1])
      BY <2>2, <3>1
    <3>6. Joined(q, m, last, last + j, HandleRequest(q, m, time, k[1 .. j - 1], last + j))
      BY <3>1, <3>5, RoundJoins
    <3> QED BY <3>1, <3>3, <3>4, <3>6 DEF s
  <2>3. n \in P
    <3>1. n \in 0 .. n
      BY <1>1
    <3> HIDE DEF P, n
    <3> QED BY <1>1, <2>1, <2>2, <3>1, UpTo
  <2>4. last + n = Len(q)
    BY <1>1
  <2> HIDE DEF k, S, n
  <2> QED BY <1>3, <2>3, <2>4
<1>14. CalculateFinalizationBatches(q, last, m, time, Len(q) + 1,
         [remainingAceBudget |-> budget, batches |-> <<>>, finished |-> FALSE]).batches = k[S].batches
  BY DEF CalculateFinalizationBatches, NextId, FoldLeft, MapThenFoldSet
<1> HIDE DEF k, S
<1> QED BY <1>13, <1>14 DEF Joined, BatchStates

(* So each of the batches that the queue accepts is one batch.             *)
LEMMA ChosenAreBatches ==
  ASSUME NEW q \in Seq(WithdrawalRequest), NEW m, NEW last \in 0 .. Len(q),
         NEW b \in Seq(1 .. Len(q)), Covered(q, m, last, b), CanPrefinalize(q, last, b, m)
  PROVE  \A i \in 1 .. Len(b) : OneBatch(q, m, EndOf(last, b, i - 1), b[i])
<1> DEFINE n == Len(b)
<1>1. /\ Len(q) \in Nat /\ last \in Nat /\ n \in Nat /\ n >= 1 /\ b # <<>>
      /\ \A i \in 1 .. n : b[i] \in Nat
      /\ b[1] > last
      /\ \A i \in 1 .. n - 1 : b[i] < b[i + 1]
  <2>1. Len(q) \in Nat /\ b # <<>>
    BY LenProperties DEF CanPrefinalize
  <2>2. n \in Nat /\ n >= 1
    BY <2>1, LenProperties, EmptySeq
  <2>3. \A i \in 1 .. n : b[i] \in 1 .. Len(q)
    BY <2>2, ElementOfSeq
  <2>4. \A i \in 1 .. n : b[i] \in Nat
    BY <2>1, <2>3
  <2> QED BY <2>1, <2>2, <2>4 DEF CanPrefinalize
<1> HIDE DEF n
<1>2. ASSUME NEW i \in 1 .. n, NEW j \in 1 .. n
      PROVE  i <= j => b[i] <= b[j]
  <2> DEFINE P == {d \in 0 .. n - i : b[i] <= b[i + d]}
  <2>1. 0 \in P
    <3>1. i + 0 = i /\ 0 \in 0 .. n - i
      BY <1>1
    <3> QED BY <1>1, <3>1
  <2>2. ASSUME NEW d \in 1 .. n - i, d - 1 \in P PROVE d \in P
    <3>1. i + (d - 1) \in 1 .. n - 1 /\ (i + (d - 1)) + 1 = i + d /\ i + d \in 1 .. n
          /\ i + (d - 1) \in 1 .. n /\ d \in 0 .. n - i
      BY <1>1
    <3>2. b[i + (d - 1)] < b[i + d]
      BY <1>1, <3>1
    <3>3. b[i] <= b[i + (d - 1)]
      BY <2>2
    <3>4. b[i] <= b[i + d]
      <4>1. b[i] \in Nat /\ b[i + (d - 1)] \in Nat /\ b[i + d] \in Nat
        BY <1>1, <3>1
      <4> QED BY <3>2, <3>3, <4>1
    <3> QED BY <3>1, <3>4
  <2> SUFFICES ASSUME i <= j PROVE b[i] <= b[j]
    OBVIOUS
  <2>3. j - i \in 0 .. n - i /\ i + (j - i) = j /\ n - i \in Nat
    BY <1>1
  <2>4. \A d \in 0 .. n - i : d \in P
    <3> HIDE DEF P
    <3> QED BY <2>1, <2>2, <2>3, UpTo
  <2> QED BY <2>3, <2>4
<1>3. ASSUME NEW i \in 1 .. n, NEW id \in EndOf(last, b, i - 1) + 2 .. b[i]
      PROVE  ExtendsBatch(q, id, m)
  <2>1. EndOf(last, b, i - 1) \in Nat /\ last <= EndOf(last, b, i - 1)
    <3>1. CASE i = 1
      BY <1>1, <3>1 DEF EndOf
    <3>2. CASE i # 1
      <4>1. i - 1 \in 1 .. n /\ 1 \in 1 .. n /\ 1 <= i - 1 /\ i - 1 # 0
        BY <1>1, <3>2
      <4>2. b[1] <= b[i - 1]
        BY <1>2, <4>1
      <4> QED BY <1>1, <4>1, <4>2 DEF EndOf
    <3> QED BY <3>1, <3>2
  <2>2. id \in last + 2 .. b[n] /\ id \in Nat
    <3>1. n \in 1 .. n /\ i <= n
      BY <1>1
    <3>2. b[i] <= b[n]
      BY <1>2, <3>1
    <3>3. b[i] \in Nat /\ b[n] \in Nat
      BY <1>1, <3>1
    <3>4. id \in Nat /\ EndOf(last, b, i - 1) + 2 <= id /\ id <= b[i]
      BY <1>3, <2>1, <3>3
    <3> DEFINE x == EndOf(last, b, i - 1)
               y == b[i]
               z == b[n]
    <3>5. x \in Nat /\ y \in Nat /\ z \in Nat /\ last <= x /\ y <= z
          /\ id \in Nat /\ x + 2 <= id /\ id <= y
      BY <2>1, <3>2, <3>3, <3>4
    <3> HIDE DEF x, y, z
    <3>6. id \in last + 2 .. z
      BY <1>1, <3>5
    <3> QED BY <3>5, <3>6 DEF z
  <2>3. Last(b) = b[n]
    BY DEF Last, n
  <2>4. ASSUME NEW x \in 1 .. n, b[x] = id - 1 PROVE FALSE
    <3>1. CASE x < i
      <4>1. i - 1 \in 1 .. n /\ x <= i - 1 /\ i - 1 # 0
        BY <1>1, <3>1
      <4>2. b[x] <= b[i - 1] /\ EndOf(last, b, i - 1) = b[i - 1]
        BY <1>2, <4>1 DEF EndOf
      <4> QED BY <1>3, <2>1, <2>2, <2>4, <4>2
    <3>2. CASE ~ (x < i)
      <4>1. i <= x
        BY <1>1, <3>2
      <4>2. b[i] <= b[x]
        BY <1>2, <4>1
      <4>3. b[i] \in Nat /\ b[x] \in Nat
        BY <1>1
      <4> QED BY <1>3, <2>1, <2>2, <2>4, <4>2, <4>3
    <3> QED BY <3>1, <3>2
  <2> QED BY <1>1, <2>2, <2>3, <2>4 DEF Covered, n
<1> QED BY <1>3 DEF OneBatch, n

-----------------------------------------------------------------------------
(* Solvency *)

Unpaid == {id \in 1 .. lastFinalizedRequestId : ~queue[id].claimed}

Backed == SumOf(Fixed, Unpaid) <= lockedAceAmount + Cardinality(MixedPairs)

(* The shares that wait in the queue are no more than the precision of a   *)
(* rate.  They are a part of all shares, and the precision is that of a    *)
(* rate of shares: 10^27, which is 10^9 shares of a whole token each.      *)
WaitingWithinPrecision ==
  SharesOf(queue, lastFinalizedRequestId, Len(queue)) <= E27_PRECISION_BASE

LEMMA UnpaidFacts ==
  ASSUME QueueInv
  PROVE  /\ IsFiniteSet(Unpaid) /\ Unpaid \subseteq 1 .. lastFinalizedRequestId
         /\ \A id \in 1 .. lastFinalizedRequestId : Fixed[id] = Payout(id) /\ Fixed[id] \in Nat
         /\ IsFiniteSet(MixedPairs) /\ Cardinality(MixedPairs) \in Nat
<1>1. lastFinalizedRequestId \in Nat /\ lastFinalizedRequestId \in Int
  BY DEF QueueInv, TypeOK
<1>2. IsFiniteSet(1 .. lastFinalizedRequestId) /\ IsFiniteSet(2 .. lastFinalizedRequestId)
  BY <1>1, FS_Interval
<1>3. IsFiniteSet(Unpaid) /\ Unpaid \subseteq 1 .. lastFinalizedRequestId
  BY <1>2, FS_Subset DEF Unpaid
<1>4. IsFiniteSet(MixedPairs) /\ Cardinality(MixedPairs) \in Nat
  BY <1>2, FS_Subset, FS_CardinalityType DEF MixedPairs
<1>5. \A id \in 1 .. lastFinalizedRequestId : Fixed[id] = Payout(id) /\ Fixed[id] \in Nat
  BY PayoutType DEF Fixed
<1> QED BY <1>3, <1>4, <1>5

LEMMA UnpaidNext ==
  QueueInv' =>
    /\ IsFiniteSet(Unpaid') /\ Unpaid' \subseteq 1 .. lastFinalizedRequestId'
    /\ \A id \in 1 .. lastFinalizedRequestId' : Fixed'[id] \in Nat
    /\ IsFiniteSet(MixedPairs') /\ Cardinality(MixedPairs') \in Nat
<1> DEFINE Facts == /\ IsFiniteSet(Unpaid) /\ Unpaid \subseteq 1 .. lastFinalizedRequestId
                    /\ \A id \in 1 .. lastFinalizedRequestId : Fixed[id] \in Nat
                    /\ IsFiniteSet(MixedPairs) /\ Cardinality(MixedPairs) \in Nat
<1>1. QueueInv => Facts
  BY UnpaidFacts
<1>2. QueueInv' => Facts'
  <2> HIDE DEF Facts
  <2> QED BY <1>1, PTL
<1> QED BY <1>2

LEMMA ClaimableIsSum ==
  ASSUME QueueInv
  PROVE  Claimable = SumOf(Fixed, Unpaid)
<1> DEFINE S == Unpaid
           f == Fixed
           c(s) == CHOOSE x \in s : TRUE
           k == CHOOSE g : g = [s \in SUBSET S |->
                  IF s = {} THEN 0 ELSE Payout(c(s)) + g[s \ {c(s)}]]
<1>0. IsFiniteSet(S) /\ \A i \in S : f[i] = Payout(i)
  BY UnpaidFacts
<1>1. Claimable = k[S]
  BY DEF Claimable, MapThenSumSet, MapThenFoldSet, Unpaid
<1> HIDE DEF f
<1>2. PICK h : Iterates(h, f, S)
  BY <1>0, IterationExists
<1>3. \A s \in SUBSET S : s # {} => f[c(s)] = Payout(c(s))
  <2>1. \A s \in SUBSET S : s # {} => c(s) \in S
    OBVIOUS
  <2> HIDE DEF c, S
  <2> QED BY <1>0, <2>1
<1>4. h = [s \in SUBSET S |-> IF s = {} THEN 0 ELSE Payout(c(s)) + h[s \ {c(s)}]]
  <2>1. h = [s \in SUBSET S |-> IF s = {} THEN 0 ELSE f[c(s)] + h[s \ {c(s)}]]
    BY <1>2 DEF Iterates
  <2> HIDE DEF c, S
  <2> QED BY <1>3, <2>1
<1>5. k = [s \in SUBSET S |-> IF s = {} THEN 0 ELSE Payout(c(s)) + k[s \ {c(s)}]]
  <2> HIDE DEF c, S
  <2> QED BY <1>4
<1>6. k = [s \in SUBSET S |-> IF s = {} THEN 0 ELSE f[c(s)] + k[s \ {c(s)}]]
  <2> HIDE DEF c, S, k
  <2> QED BY <1>3, <1>5
<1>7. Iterates(k, f, S)
  <2> HIDE DEF k, S
  <2> QED BY <1>6 DEF Iterates
<1> HIDE DEF k, S
<1>8. SumOf(f, S) = k[S]
  BY <1>0, <1>7, SumIsIterated
<1> QED BY <1>1, <1>8 DEF f, S

LEMMA BackedInit ==
  ASSUME Init
  PROVE  Backed
<1>1. lastFinalizedRequestId = 0 /\ lockedAceAmount = 0 /\ QueueInv
  BY QueueInit DEF Init
<1>2. Unpaid = {}
  BY <1>1 DEF Unpaid
<1>3. SumOf(Fixed, Unpaid) = 0
  BY <1>2, SumEmpty
<1>4. Cardinality(MixedPairs) \in Nat
  BY <1>1, UnpaidFacts
<1> QED BY <1>1, <1>3, <1>4 DEF Backed

(* A step that keeps what is finalized, and the sums and the reports of    *)
(* the requests, keeps the payouts and the mixed pairs.                    *)
LEMMA PairsUnchanged ==
  ASSUME QueueInv, QueueInv', UNCHANGED finalVars,
         \A id \in 1 .. Len(queue) :
           /\ RequestOf(queue', id) = RequestOf(queue, id)
           /\ queue'[id].reportTimestamp = queue[id].reportTimestamp
  PROVE  Fixed' = Fixed /\ MixedPairs' = MixedPairs
<1>1. Fixed' = Fixed
  BY FixedUnchanged
<1>2. /\ lastFinalizedRequestId' = lastFinalizedRequestId /\ checkpoints' = checkpoints
      /\ lastFinalizedRequestId \in 0 .. Len(queue) /\ Len(queue) \in Nat
  BY LenProperties DEF finalVars, QueueInv, TypeOK
<1>3. \A id, h : IsValidHint(id, h)' = IsValidHint(id, h)
  BY <1>2 DEF IsValidHint
<1>4. \A id \in 2 .. lastFinalizedRequestId :
        /\ queue'[id].reportTimestamp = queue[id].reportTimestamp
        /\ queue'[id - 1].reportTimestamp = queue[id - 1].reportTimestamp
        /\ RequestOf(queue', id) = RequestOf(queue, id)
        /\ RequestOf(queue', id - 1) = RequestOf(queue, id - 1)
  <2> SUFFICES ASSUME NEW id \in 2 .. lastFinalizedRequestId
               PROVE  /\ queue'[id].reportTimestamp = queue[id].reportTimestamp
                      /\ queue'[id - 1].reportTimestamp = queue[id - 1].reportTimestamp
                      /\ RequestOf(queue', id) = RequestOf(queue, id)
                      /\ RequestOf(queue', id - 1) = RequestOf(queue, id - 1)
    OBVIOUS
  <2>1. id \in 1 .. Len(queue) /\ id - 1 \in 1 .. Len(queue)
    BY <1>2
  <2> QED BY <2>1
<1>5. MixedPairs' = MixedPairs
  BY <1>2, <1>3, <1>4 DEF MixedPairs
<1> QED BY <1>1, <1>5

LEMMA BackedQuiet ==
  ASSUME QueueInv, QueueInv', Backed, UNCHANGED finalVars, lockedAceAmount' = lockedAceAmount,
         \A id \in 1 .. Len(queue) :
           /\ RequestOf(queue', id) = RequestOf(queue, id)
           /\ queue'[id].reportTimestamp = queue[id].reportTimestamp
           /\ queue'[id].claimed = queue[id].claimed
  PROVE  Backed'
<1>1. Fixed' = Fixed /\ MixedPairs' = MixedPairs
  BY PairsUnchanged
<1>2. /\ lastFinalizedRequestId' = lastFinalizedRequestId
      /\ lastFinalizedRequestId \in 0 .. Len(queue) /\ Len(queue) \in Nat
  BY LenProperties DEF finalVars, QueueInv, TypeOK
<1>3. \A id \in 1 .. lastFinalizedRequestId : queue'[id].claimed = queue[id].claimed
  BY <1>2
<1>4. Unpaid' = Unpaid
  BY <1>2, <1>3 DEF Unpaid
<1> QED BY <1>1, <1>4 DEF Backed

LEMMA BackedClaim ==
  ASSUME QueueInv, QueueInv', Backed, NEW o \in Owners, NEW id, NEW hint, Claim(o, id, hint)
  PROVE  Backed'
<1>1. /\ id \in 1 .. lastFinalizedRequestId /\ id \in 1 .. Len(queue)
      /\ ~queue[id].claimed
      /\ \A i \in 1 .. Len(queue) :
           /\ queue'[i].claimed = (queue[i].claimed \/ i = id)
           /\ RequestOf(queue', i) = RequestOf(queue, i)
      /\ UNCHANGED finalVars
  BY ClaimEffect DEF QueueInv
<1>2. /\ lastFinalizedRequestId' = lastFinalizedRequestId
      /\ lastFinalizedRequestId \in 0 .. Len(queue) /\ Len(queue) \in Nat
      /\ queue \in Seq(WithdrawalRequest) /\ DOMAIN queue = 1 .. Len(queue)
      /\ lockedAceAmount \in Nat
  BY <1>1, LenProperties DEF finalVars, QueueInv, TypeOK
<1>3. \A i \in 1 .. Len(queue) : queue'[i].reportTimestamp = queue[i].reportTimestamp
  <2> SUFFICES ASSUME NEW i \in 1 .. Len(queue)
               PROVE  queue'[i].reportTimestamp = queue[i].reportTimestamp
    OBVIOUS
  <2>1. queue[id] \in WithdrawalRequest
    BY <1>1, <1>2, ElementOfSeq
  <2>2. queue' = [queue EXCEPT ![id].claimed = TRUE]
    BY DEF Claim
  <2> QED BY <1>1, <1>2, <2>1, <2>2 DEF WithdrawalRequest
<1>4. Fixed' = Fixed /\ MixedPairs' = MixedPairs
  BY <1>1, <1>3, PairsUnchanged
<1>5. Unpaid' = Unpaid \ {id} /\ id \in Unpaid
  <2>1. \A i \in 1 .. lastFinalizedRequestId : queue'[i].claimed = (queue[i].claimed \/ i = id)
    BY <1>1, <1>2
  <2> QED BY <1>1, <1>2, <2>1 DEF Unpaid
<1>6. SumOf(Fixed, Unpaid) = Fixed[id] + SumOf(Fixed, Unpaid \ {id})
      /\ SumOf(Fixed, Unpaid \ {id}) \in Nat /\ Fixed[id] \in Nat
  <2>1. IsFiniteSet(Unpaid) /\ \A i \in Unpaid : Fixed[i] \in Nat /\ Fixed[i] \in Int
    BY UnpaidFacts
  <2>2. IsFiniteSet(Unpaid \ {id}) /\ \A i \in Unpaid \ {id} : Fixed[i] \in Nat
    BY <2>1, FS_Subset
  <2> QED BY <1>5, <2>1, <2>2, SumStep, SumOfNaturals
<1>7. lockedAceAmount' = lockedAceAmount - Fixed[id]
  <2>1. IsValidHint(id, hint)
        /\ lockedAceAmount' = lockedAceAmount - CalculateClaimableAce(id, hint)
    BY DEF Claim
  <2>2. CalculateClaimableAce(id, hint) = Payout(id)
    BY <1>1, <2>1, PayoutByHint DEF CalculateClaimableAce
  <2>3. Fixed[id] = Payout(id)
    BY <1>1 DEF Fixed
  <2> QED BY <2>1, <2>2, <2>3
<1>8. Cardinality(MixedPairs) \in Nat
  BY UnpaidFacts
<1>9. SumOf(Fixed, Unpaid) <= lockedAceAmount + Cardinality(MixedPairs)
  BY DEF Backed
<1>10. SumOf(Fixed, Unpaid \ {id}) <= (lockedAceAmount - Fixed[id]) + Cardinality(MixedPairs)
  BY <1>2, <1>6, <1>8, <1>9
<1> QED BY <1>4, <1>5, <1>7, <1>10 DEF Backed

(* The requests that are finalized on the other side of the rate than the  *)
(* one before them join the mixed pairs.                                   *)
LEMMA PairsGrow ==
  ASSUME QueueInv, QueueInv', UNCHANGED requestVars,
         NEW last, NEW amount, NEW m \in Nat, Finalize(last, amount, m)
  PROVE  Cardinality(MixedPairs) + Cardinality(Mixed(queue, m, lastFinalizedRequestId, last))
           <= Cardinality(MixedPairs')
<1> DEFINE n == Len(checkpoints)
           final == lastFinalizedRequestId
           new == Mixed(queue, m, final, last)
<1>1. /\ last \in final + 1 .. Len(queue) /\ lastFinalizedRequestId' = last
      /\ n \in Nat /\ Len(checkpoints') = n + 1 /\ checkpoints' \in Seq(Checkpoint)
      /\ \A i \in 1 .. n : checkpoints'[i] = checkpoints[i]
      /\ checkpoints'[n + 1].maxShareRate = m
      /\ \A id \in 1 .. final, h \in 1 .. n : IsValidHint(id, h) => IsValidHint(id, h)'
      /\ \A id \in final + 1 .. last, h \in {n + 1} : IsValidHint(id, h)'
  BY FinalizeEffect DEF QueueInv
<1>2. queue' = queue
  BY DEF requestVars
<1>3. /\ final \in Nat /\ Len(queue) \in Nat /\ last \in Nat
      /\ DOMAIN checkpoints = 1 .. n /\ DOMAIN checkpoints' = 1 .. n + 1
  <2>1. final \in Nat /\ Len(queue) \in Nat /\ DOMAIN checkpoints = 1 .. n
    BY LenProperties DEF QueueInv, TypeOK
  <2>2. DOMAIN checkpoints' = 1 .. n + 1
    BY <1>1, LenProperties
  <2> QED BY <1>1, <2>1, <2>2
<1>4. MixedPairs \subseteq MixedPairs'
  <2> SUFFICES ASSUME NEW id \in MixedPairs PROVE id \in MixedPairs'
    OBVIOUS
  <2>1. /\ id \in 2 .. final
        /\ queue[id - 1].reportTimestamp = queue[id].reportTimestamp
    BY DEF MixedPairs
  <2>2. PICK h \in DOMAIN checkpoints :
          /\ IsValidHint(id, h) /\ IsValidHint(id - 1, h)
          /\ (RequestOf(queue, id).shareRate <= checkpoints[h].maxShareRate) #
               (RequestOf(queue, id - 1).shareRate <= checkpoints[h].maxShareRate)
    BY DEF MixedPairs
  <2>3. h \in 1 .. n /\ h \in 1 .. n + 1
    BY <1>3, <2>2
  <2>4. id \in 1 .. final /\ id - 1 \in 1 .. final /\ id \in 2 .. last
    BY <1>1, <1>3, <2>1
  <2>5. IsValidHint(id, h)' /\ IsValidHint(id - 1, h)' /\ checkpoints'[h] = checkpoints[h]
    BY <1>1, <2>2, <2>3, <2>4
  <2> QED BY <1>1, <1>2, <1>3, <2>1, <2>2, <2>3, <2>4, <2>5 DEF MixedPairs
<1>5. new \subseteq MixedPairs'
  <2> SUFFICES ASSUME NEW id \in new PROVE id \in MixedPairs'
    OBVIOUS
  <2>1. /\ id \in final + 2 .. last
        /\ queue[id - 1].reportTimestamp = queue[id].reportTimestamp
        /\ (RequestOf(queue, id).shareRate <= m) # (RequestOf(queue, id - 1).shareRate <= m)
    BY DEF Mixed
  <2>2. id \in final + 1 .. last /\ id - 1 \in final + 1 .. last /\ id \in 2 .. last
    BY <1>3, <2>1
  <2> PICK h : h = n + 1
    OBVIOUS
  <2>3. IsValidHint(id, h)' /\ IsValidHint(id - 1, h)'
    BY <1>1, <2>2
  <2>4. h \in DOMAIN checkpoints' /\ checkpoints'[h].maxShareRate = m
    BY <1>1, <1>3
  <2> QED BY <1>1, <1>2, <2>1, <2>2, <2>3, <2>4 DEF MixedPairs
<1>6. MixedPairs \cap new = {}
  <2>1. \A id \in new : id \notin 2 .. final
    BY <1>3 DEF Mixed
  <2> QED BY <2>1 DEF MixedPairs
<1>7. IsFiniteSet(MixedPairs) /\ IsFiniteSet(MixedPairs') /\ IsFiniteSet(new)
  <2>1. IsFiniteSet(MixedPairs) /\ IsFiniteSet(MixedPairs')
    BY UnpaidFacts, UnpaidNext
  <2> QED BY <1>5, <2>1, FS_Subset
<1> HIDE DEF new
<1>8. Cardinality(MixedPairs \cup new) = Cardinality(MixedPairs) + Cardinality(new)
  <2>1. Cardinality(MixedPairs) \in Nat /\ Cardinality(new) \in Nat
        /\ Cardinality(MixedPairs \cap new) = 0
    BY <1>6, <1>7, FS_CardinalityType, FS_EmptySet
  <2> QED BY <1>7, <2>1, FS_Union
<1>9. Cardinality(MixedPairs \cup new) <= Cardinality(MixedPairs')
  <2>1. MixedPairs \cup new \in SUBSET MixedPairs'
    BY <1>4, <1>5
  <2> QED BY <1>7, <2>1, FS_Subset
<1> QED BY <1>8, <1>9 DEF new

(* The unpaid requests of the new range are worth no more than all of it.  *)
LEMMA BackedFinalize ==
  ASSUME QueueInv, QueueInv', Backed, UNCHANGED requestVars,
         NEW last, NEW amount \in Nat, NEW m \in Nat, Finalize(last, amount, m),
         SumOf(Worths(queue, m), lastFinalizedRequestId + 1 .. last) <=
           amount + Cardinality(Mixed(queue, m, lastFinalizedRequestId, last))
  PROVE  Backed'
<1> DEFINE n == Len(checkpoints)
           final == lastFinalizedRequestId
           f == Worths(queue, m)
           range == final + 1 .. last
           U == Unpaid'
           old == SumOf(Fixed, Unpaid)
           A == SumOf(Fixed', Unpaid)
           B == SumOf(Fixed', U \ Unpaid)
<1>1. /\ last \in final + 1 .. Len(queue) /\ lastFinalizedRequestId' = last
      /\ n \in Nat /\ Len(checkpoints') = n + 1
      /\ \A i \in 1 .. n : checkpoints'[i] = checkpoints[i]
      /\ checkpoints'[n + 1].maxShareRate = m
      /\ \A id \in 1 .. final, h \in 1 .. n : IsValidHint(id, h) => IsValidHint(id, h)'
      /\ \A id \in final + 1 .. last, h \in {n + 1} : IsValidHint(id, h)'
  BY FinalizeEffect DEF QueueInv
<1>2. queue' = queue /\ lockedAceAmount' = lockedAceAmount + amount
  BY DEF requestVars, Finalize
<1>3. /\ final \in Nat /\ Len(queue) \in Nat /\ last \in Nat /\ lockedAceAmount \in Nat
      /\ queue \in Seq(WithdrawalRequest) /\ Growing(queue)
  <2>1. /\ final \in Nat /\ Len(queue) \in Nat /\ lockedAceAmount \in Nat
        /\ queue \in Seq(WithdrawalRequest) /\ Growing(queue)
    BY LenProperties DEF QueueInv, TypeOK, RequestsPositive, Growing
  <2> QED BY <1>1, <2>1
<1>4. \A id \in 1 .. final : Fixed'[id] = Fixed[id]
  <2> SUFFICES ASSUME NEW id \in 1 .. final PROVE Fixed'[id] = Fixed[id]
    OBVIOUS
  <2>1. id \in 1 .. lastFinalizedRequestId'
    BY <1>1, <1>3
  <2>2. Payout(id)' = Payout(id)
    BY <1>1, <1>2, <2>1, PayoutStable
  <2> QED BY <2>1, <2>2 DEF Fixed
<1>5. \A id \in range : Fixed'[id] = f[id] /\ id \in 1 .. Len(queue)
  <2> SUFFICES ASSUME NEW id \in range PROVE Fixed'[id] = f[id] /\ id \in 1 .. Len(queue)
    OBVIOUS
  <2>1. id \in 1 .. lastFinalizedRequestId' /\ id \in 1 .. Len(queue)
    BY <1>1, <1>3
  <2> PICK h : h = n + 1
    OBVIOUS
  <2>2. IsValidHint(id, h)' /\ h \in 1 .. Len(checkpoints') /\ checkpoints'[h].maxShareRate = m
    BY <1>1
  <2>3. Payout(id)' = Worth(RequestOf(queue, id), m)
    BY <1>1, <1>2, <2>1, <2>2, PayoutsByHintNext DEF PayoutsByHint
  <2> QED BY <2>1, <2>3 DEF Fixed, Worths
<1>6. /\ IsFiniteSet(U) /\ Unpaid \in SUBSET U /\ U \ Unpaid \in SUBSET range
      /\ IsFiniteSet(Unpaid) /\ IsFiniteSet(U \ Unpaid)
      /\ Unpaid \subseteq 1 .. final
  <2>1. IsFiniteSet(U) /\ Unpaid \subseteq 1 .. final
    BY UnpaidNext, UnpaidFacts
  <2>2. Unpaid \in SUBSET U
    BY <1>1, <1>2, <1>3 DEF Unpaid
  <2>3. U \ Unpaid \in SUBSET range
    BY <1>1, <1>2, <1>3 DEF Unpaid
  <2>4. IsFiniteSet(Unpaid) /\ IsFiniteSet(U \ Unpaid)
    <3> HIDE DEF U
    <3> QED BY <2>1, <2>2, FS_Subset
  <2> QED BY <2>1, <2>2, <2>3, <2>4
<1>7. \A id \in U : Fixed'[id] \in Nat /\ Fixed'[id] \in Int
  BY UnpaidNext
<1> HIDE DEF U, f, range
<1>8. SumOf(Fixed', U) = A + B
  BY <1>6, <1>7, SumUnion
<1>9. A = old /\ A \in Nat
  <2>1. \A id \in Unpaid : Fixed[id] = Fixed'[id] /\ Fixed'[id] \in Nat
    BY <1>4, <1>6, <1>7
  <2> QED BY <1>6, <2>1, SumCongruent, SumOfNaturals
<1>10. B <= SumOf(f, range) /\ B \in Nat
  <2>1. \A id \in range : f[id] \in Nat
    BY <1>3, <1>5, WorthsType DEF f
  <2>2. IsFiniteSet(range)
    <3>1. final + 1 \in Int /\ last \in Int
      BY <1>3
    <3> QED BY <3>1, FS_Interval DEF range
  <2>3. SumOf(f, U \ Unpaid) <= SumOf(f, range)
    BY <1>6, <2>1, <2>2, SumSubset
  <2>4. \A id \in U \ Unpaid : Fixed'[id] = f[id] /\ Fixed'[id] \in Nat
    BY <1>5, <1>6, <1>7
  <2>5. B = SumOf(f, U \ Unpaid) /\ B \in Nat
    BY <1>6, <2>4, SumCongruent, SumOfNaturals
  <2> QED BY <2>3, <2>5
<1>11. Cardinality(MixedPairs) + Cardinality(Mixed(queue, m, final, last))
         <= Cardinality(MixedPairs')
  BY PairsGrow
<1> DEFINE c0 == Cardinality(MixedPairs)
           c1 == Cardinality(Mixed(queue, m, final, last))
           c2 == Cardinality(MixedPairs')
           w == SumOf(f, range)
<1>12. c0 \in Nat /\ c1 \in Nat /\ c2 \in Nat /\ w \in Int
  <2>1. c0 \in Nat /\ c2 \in Nat
    BY UnpaidFacts, UnpaidNext
  <2>2. c1 \in Nat
    <3>1. final \in 0 .. Len(queue) /\ final \in final .. Len(queue) /\ last \in final .. Len(queue)
      BY <1>1, <1>3
    <3> QED BY <1>3, <3>1, MixedGrows
  <2>3. w \in Int
    <3>1. \A id \in range : f[id] \in Int
      BY <1>3, <1>5, WorthsType DEF f
    <3>2. IsFiniteSet(range)
      <4>1. final + 1 \in Int /\ last \in Int
        BY <1>3
      <4> QED BY <4>1, FS_Interval DEF range
    <3> QED BY <3>1, <3>2, SumType
  <2> QED BY <2>1, <2>2, <2>3
<1>13. w <= amount + c1
  BY DEF f, range
<1>14. old <= lockedAceAmount + c0
  BY DEF Backed
<1> HIDE DEF old, A, B, c0, c1, c2, w
<1>15. A + B <= (lockedAceAmount + amount) + c2
  <2>1. B <= w /\ c0 + c1 <= c2
    BY <1>10, <1>11 DEF w, c0, c1, c2
  <2>2. old \in Nat
    BY <1>9
  <2> QED BY <1>3, <1>9, <1>10, <1>12, <1>13, <1>14, <2>1, <2>2
<1> QED BY <1>2, <1>8, <1>15 DEF Backed, c2, U

(* What the report locks is enough, by the way its batches are chosen.     *)
LEMMA BackedReport ==
  ASSUME QueueInv, QueueInv', Backed, WaitingWithinPrecision,
         NEW t \in Nat, NEW isBunker \in BOOLEAN, NEW budget \in Budgets,
         NEW r \in Rates, AccountingReport(t, isBunker, budget, r)
  PROVE  Backed'
<1> DEFINE m == ShareRateOf(r)
           b == BatchesWithin(budget, m, t)
           final == lastFinalizedRequestId
           ace == Prefinalize(queue, final, b, m)
<1>1. /\ UNCHANGED requestVars
      /\ \/ UNCHANGED <<finalVars, lockedAceAmount>>
         \/ CanPrefinalize(queue, final, b, m) /\ Finalize(Last(b), ace, m)
  BY DEF AccountingReport
<1>2. m \in Nat
  BY ShareRateType
<1>3. /\ queue \in Seq(WithdrawalRequest) /\ Growing(queue)
      /\ final \in 0 .. Len(queue) /\ budget \in Int
  BY WithdrawalQueueAssumption DEF QueueInv, TypeOK, RequestsPositive, Growing
<1>4. b \in Seq(1 .. Len(queue)) /\ Covered(queue, m, final, b)
  <2> HIDE DEF m
  <2> QED BY <1>2, <1>3, ChosenBatches DEF BatchesWithin
<1> HIDE DEF m, b, final
<1>5. CASE UNCHANGED <<finalVars, lockedAceAmount>>
  <2>1. queue' = queue
    BY <1>1 DEF requestVars
  <2> QED BY <1>5, <2>1, BackedQuiet
<1>6. CASE CanPrefinalize(queue, final, b, m) /\ Finalize(Last(b), ace, m)
  <2>1. \A i \in 1 .. Len(b) : OneBatch(queue, m, EndOf(final, b, i - 1), b[i])
    BY <1>3, <1>4, <1>6, ChosenAreBatches
  <2>2. SharesOf(queue, final, Len(queue)) <= E27_PRECISION_BASE
    BY DEF WaitingWithinPrecision, final
  <2>3. /\ ace \in Nat
        /\ SumOf(Worths(queue, m), final + 1 .. Last(b)) <=
             ace + Cardinality(Mixed(queue, m, final, Last(b)))
    BY <1>2, <1>3, <1>4, <1>6, <2>1, <2>2, BatchesWorth
  <2> HIDE DEF ace
  <2> QED BY <1>1, <1>2, <1>6, <2>3, BackedFinalize DEF final
<1> QED BY <1>1, <1>5, <1>6

LEMMA BackedNext ==
  ASSUME QueueInv, QueueInv', Backed, WaitingWithinPrecision, [Next]_vars
  PROVE  Backed'
<1>0. ASSUME UNCHANGED requestVars, UNCHANGED finalVars, lockedAceAmount' = lockedAceAmount
      PROVE  Backed'
  <2>1. queue' = queue
    BY <1>0 DEF requestVars
  <2> QED BY <1>0, <2>1, BackedQuiet
<1>1. Quiet => Backed'
  BY <1>0 DEF Quiet
<1>2. TypeOK
  BY DEF QueueInv
<1>3. CASE Resume
  BY <1>1, <1>2, <1>3, QuietActions
<1>4. ASSUME NEW d \in PauseArguments, PauseFor(d)
      PROVE  Backed'
  BY <1>1, <1>2, <1>4, QuietActions
<1>5. ASSUME NEW t \in PauseArguments, PauseUntil(t)
      PROVE  Backed'
  BY <1>1, <1>2, <1>5, QuietActions
<1>6. ASSUME NEW o \in Owners, NEW a \in Amounts, RequestWithdrawal(o, a)
      PROVE  Backed'
  <2>1. UNCHANGED finalVars /\ lockedAceAmount' = lockedAceAmount
    BY <1>6 DEF RequestWithdrawal
  <2>2. \A i \in 1 .. Len(queue) :
          queue'[i] = queue[i] /\ RequestOf(queue', i) = RequestOf(queue, i)
    BY <1>2, <1>6, RequestEffect
  <2> QED BY <2>1, <2>2, BackedQuiet
<1>7. ASSUME NEW t \in lastReportTimestamp + 1 .. now, NEW b \in BunkerModes,
             NEW ace \in Budgets, NEW r \in Rates, AccountingReport(t, b, ace, r)
      PROVE  Backed'
  <2>1. t \in Nat /\ b \in BOOLEAN
    BY <1>2, WithdrawalQueueAssumption DEF TypeOK
  <2> QED BY <1>7, <2>1, BackedReport
<1>8. ASSUME NEW o \in Owners, NEW id \in RequestIds, NEW hint \in 1 .. MaxRequests,
             ClaimWithdrawals(o, id, hint)
      PROVE  Backed'
  BY <1>8, BackedClaim DEF ClaimWithdrawals
<1>9. ASSUME NEW o \in Owners, NEW id \in RequestIds, ClaimWithdrawal(o, id)
      PROVE  Backed'
  BY <1>9, BackedClaim DEF ClaimWithdrawal
<1>10. ASSUME NEW o \in Owners, NEW to \in Owners \cup {None}, NEW id \in RequestIds,
              Approve(o, to, id)
       PROVE  Backed'
  BY <1>0, <1>10 DEF Approve
<1>11. ASSUME NEW o \in Owners, NEW p \in Owners, NEW yes \in BOOLEAN,
              SetApprovalForAll(o, p, yes)
       PROVE  Backed'
  BY <1>1, <1>2, <1>11, QuietActions
<1>12. ASSUME NEW o \in Owners, NEW to \in Owners, NEW id \in RequestIds,
              TransferFrom(o, to, id)
       PROVE  Backed'
  <2>1. /\ id \in 1 .. Len(queue) /\ UNCHANGED finalVars /\ lockedAceAmount' = lockedAceAmount
        /\ \A i \in 1 .. Len(queue) :
             /\ queue'[i].claimed = queue[i].claimed
             /\ RequestOf(queue', i) = RequestOf(queue, i)
    BY <1>2, <1>12, TransferEffect
  <2>2. \A i \in 1 .. Len(queue) : queue'[i].reportTimestamp = queue[i].reportTimestamp
    <3> SUFFICES ASSUME NEW i \in 1 .. Len(queue)
                 PROVE  queue'[i].reportTimestamp = queue[i].reportTimestamp
      OBVIOUS
    <3>1. queue \in Seq(WithdrawalRequest) /\ DOMAIN queue = 1 .. Len(queue)
      BY <1>2, LenProperties DEF TypeOK
    <3>2. queue[id] \in WithdrawalRequest
      BY <2>1, <3>1, ElementOfSeq
    <3>3. queue' = [queue EXCEPT ![id].owner = to]
      BY <1>12 DEF TransferFrom
    <3> QED BY <2>1, <3>1, <3>2, <3>3 DEF WithdrawalRequest
  <2> QED BY <2>1, <2>2, BackedQuiet
<1>13. CASE Tick
  BY <1>1, <1>2, <1>13, QuietActions
<1>14. CASE UNCHANGED vars
  BY <1>0, <1>14 DEF vars
<1> QED BY <1>3, <1>4, <1>5, <1>6, <1>7, <1>8, <1>9, <1>10, <1>11, <1>12, <1>13, <1>14
        DEF Next

(* The locked ace pays every finalized request, in whatever order they are *)
(* claimed, but for one wei for each mixed pair: as long as no more than   *)
(* 10^9 whole shares wait in the queue at once.                            *)
THEOREM StaysSolvent == Spec /\ []WaitingWithinPrecision => []Solvent
<1>1. Init => Backed
  BY BackedInit
<1>2. QueueInv /\ QueueInv' /\ Backed /\ WaitingWithinPrecision /\ [Next]_vars => Backed'
  BY BackedNext
<1>3. QueueInv /\ Backed => Solvent
  BY ClaimableIsSum DEF Backed, Solvent
<1> QED BY <1>1, <1>2, <1>3, QueueInvariant, PTL DEF Spec
=============================================================================
