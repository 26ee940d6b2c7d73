------------------------------- MODULE Committee -------------------------------
(***************************************************************************)
(* What HashConsensus promises, without its counters, its arrays and its   *)
(* processor protocol: a committee votes on one reference slot at a time,  *)
(* and at every moment the agreed report is the one that a quorum of the   *)
(* members of that moment votes for, if there is one.  The agreed report   *)
(* is recomputed after every vote, every change of the membership and      *)
(* every change of the quorum, until the slot is closed because its report *)
(* has started being processed; then it never changes.                     *)
(***************************************************************************)
EXTENDS Naturals, FiniteSets

CONSTANTS Addresses, Hashes, None

VARIABLES slot,      \* the reference slot voted on, 0 when there is none yet
          members, votes, quorum,
          agreed,    \* the agreed report or None
          closed     \* the report of the slot is processed: no more votes

vars == <<slot, members, votes, quorum, agreed, closed>>

Supporters(h, vs, ms) == {m \in ms : vs[m] = h}

Tally(vs, ms, q) ==
  IF \E h \in Hashes : Cardinality(Supporters(h, vs, ms)) >= q
    THEN CHOOSE h \in Hashes : Cardinality(Supporters(h, vs, ms)) >= q
    ELSE None

NoVotes == [a \in Addresses |-> None]

Init ==
  /\ slot = 0
  /\ members = {}
  /\ votes = NoVotes
  /\ quorum = 0
  /\ agreed = None
  /\ closed = FALSE

Recount ==
  agreed' = IF closed THEN agreed ELSE Tally(votes', members', quorum')

Vote(m, h) ==
  /\ ~closed
  /\ m \in members
  /\ votes[m] # h
  /\ votes' = [votes EXCEPT ![m] = h]
  /\ UNCHANGED <<slot, members, quorum, closed>>
  /\ Recount

(* Members join and leave, and the quorum changes, as long as it stays a   *)
(* strict majority.  Whoever leaves takes the vote along.                  *)
Reorganise ==
  /\ members' \in SUBSET Addresses
  /\ Cardinality(members' \ members) + Cardinality(members \ members') <= 1
  /\ quorum' \in Nat /\ quorum' > Cardinality(members') \div 2
  /\ votes' = [a \in Addresses |-> IF a \in members' THEN votes[a] ELSE None]
  /\ UNCHANGED <<slot, closed>>
  /\ Recount

NewSlot ==
  /\ slot' \in Nat /\ slot' > slot
  /\ votes' = NoVotes
  /\ agreed' = None
  /\ closed' \in BOOLEAN
  /\ UNCHANGED <<members, quorum>>

Close ==
  /\ agreed # None
  /\ closed' = TRUE
  /\ UNCHANGED <<slot, members, votes, quorum, agreed>>

Next ==
  \/ \E m \in Addresses, h \in Hashes : Vote(m, h)
  \/ Reorganise
  \/ NewSlot
  \/ Close

Spec == Init /\ [][Next]_vars
=============================================================================
