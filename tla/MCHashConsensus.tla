--------------------------- MODULE MCHashConsensus ---------------------------
(* Instances of HashConsensus for TLC. *)
EXTENDS HashConsensus, TLC

CONSTANTS a1, a2, a3, h1, h2, p1, p2

Symmetry ==
  Permutations(Addresses) \cup Permutations(Hashes) \cup Permutations(Processors)

(* Frames of two slots, the first for the fast lane. *)
OneFrameSize == {<<2, 1>>}

(* Frames of one to three slots, some with a fast lane; an invalid size. *)
ManyFrameSizes == {<<0, 0>>, <<1, 0>>, <<2, 1>>, <<3, 3>>}
=============================================================================
