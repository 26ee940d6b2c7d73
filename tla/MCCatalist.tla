------------------------------ MODULE MCCatalist ------------------------------
(* Instances of Catalist for TLC. *)
EXTENDS Catalist

CONSTANTS u1, m1

(* 5 % of the rewards for the module, 10 % in all. *)
OneModuleFees == [m \in {m1} |-> 5]

NoStakeLimits == {}
TwoStakeLimits == {<<130, 50>>, <<60, 20>>}

Changes == {-20, 40}
=============================================================================
