-------------------------- MODULE RateControllerMC --------------------------
(* Instances of RateController for TLC. *)
EXTENDS RateController, TLC

Identical == Permutations(Callers)
=============================================================================
