-------------------------- MODULE MCWithdrawalQueue --------------------------
(* The instance of WithdrawalQueue for TLC. *)
EXTENDS WithdrawalQueue, TLC

CONSTANTS o1, o2, o3

Symmetry == Permutations(Owners)

(* A rate at which amounts round to different sides of it, and a loss. *)
TwoRates == {<<118, 100>>, <<1, 1>>}

(* The queue is resumed once, at the start, and never in bunker mode. *)
Untroubled ==
  /\ resumeSinceTimestamp \in {0, PAUSE_INFINITELY}
  /\ now > 0 => resumeSinceTimestamp = 0
  /\ bunkerModeSinceTimestamp = BUNKER_MODE_DISABLED_TIMESTAMP

Unapproved ==
  /\ tokenApprovals = [id \in RequestIds |-> None]
  /\ operatorApprovals = [o \in Owners |-> {}]

(* Two requests of one amount, at one rate, within two time steps. *)
Few ==
  /\ now <= 2 /\ rate = <<1, 1>>
  /\ Len(queue) <= 2
  /\ \A id \in DOMAIN queue : queue[id].cumulativeBACE = 13 * id

(* One holder; what is requested in the last step is never finalized.      *)
OneHolder ==
  /\ Cardinality({queue[id].owner : id \in DOMAIN queue}) <= 1
  /\ \A id \in DOMAIN queue : queue[id].timestamp < MaxTime

(* What is requested and finalized varies with one holder, and what the    *)
(* holders do, or the pauses and the modes of reports, with few requests.  *)
InBounds ==
  \/ Untroubled /\ Unapproved /\ OneHolder
  \/ Untroubled /\ Few
  \/ Unapproved /\ Few

(* Bounded steps, rather than a CONSTRAINT: the steps out of the bounds are *)
(* most of them, and TLC would check the properties on each.               *)
BoundedSpec == Init /\ [][Next /\ InBounds']_vars
=============================================================================
