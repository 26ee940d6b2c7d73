--------------------------- MODULE WithdrawalLedger ---------------------------
(***************************************************************************)
(* What the withdrawal queue promises, without its cumulative sums, its    *)
(* checkpoints and its hints: requests are served in the order they were   *)
(* made; when a request is finalized its payout is fixed for good, at no   *)
(* more than was asked for, whatever happens to the share rate or to later *)
(* requests; and each is paid once, to whoever holds it then.              *)
(***************************************************************************)
EXTENDS Naturals, Sequences

CONSTANT Holders

VARIABLES amounts,   \* bACE asked for, in the order of the requests
          holders,   \* who holds each request
          payouts,   \* what the finalized requests are paid, oldest first
          paid       \* the requests that have been paid

vars == <<amounts, holders, payouts, paid>>

Init == amounts = <<>> /\ holders = <<>> /\ payouts = <<>> /\ paid = {}

Request ==
  /\ \E h \in Holders : holders' = Append(holders, h)
  /\ Len(amounts') = Len(amounts) + 1
  /\ SubSeq(amounts', 1, Len(amounts)) = amounts
  /\ UNCHANGED <<payouts, paid>>

Finalize ==
  /\ Len(payouts') \in Len(payouts) + 1 .. Len(amounts)
  /\ SubSeq(payouts', 1, Len(payouts)) = payouts
  /\ \A i \in Len(payouts) + 1 .. Len(payouts') : payouts'[i] <= amounts[i]
  /\ UNCHANGED <<amounts, holders, paid>>

Pay ==
  /\ \E i \in DOMAIN payouts \ paid : paid' = paid \cup {i}
  /\ UNCHANGED <<amounts, holders, payouts>>

HandOver ==
  /\ \E i \in DOMAIN holders \ paid, h \in Holders :
        h # holders[i] /\ holders' = [holders EXCEPT ![i] = h]
  /\ UNCHANGED <<amounts, payouts, paid>>

Next == Request \/ Finalize \/ Pay \/ HandOver

Spec == Init /\ [][Next]_vars
=============================================================================
