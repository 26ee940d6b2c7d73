-------------------------- MODULE MCAccountingOracle --------------------------
(* Instances of AccountingOracle for TLC. *)
EXTENDS AccountingOracle, TLC

CONSTANTS op1, op2, c1, c2

Symmetry == Permutations(Operators)

OneOrTwo == {{c1}, {c1, c2}}

(* Frames of two slots; the second contract starts later and has longer    *)
(* ones.                                                                   *)
TwoContracts == [c \in {c1, c2} |->
  IF c = c1 THEN [initialEpoch |-> 2, epochsPerFrame |-> 2, fastLaneLengthSlots |-> 0]
            ELSE [initialEpoch |-> 3, epochsPerFrame |-> 3, fastLaneLengthSlots |-> 0]]
=============================================================================
