------------------------ MODULE MCFinalizationBatches ------------------------
(* Instances of FinalizationBatches for TLC. *)
EXTENDS FinalizationBatches

(* Rates of 1.18, and of 1.3 and 1.0 before and after it. *)
SmallRates == {<<118, 100>>, <<13, 10>>, <<1, 1>>}
=============================================================================
