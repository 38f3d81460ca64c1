-------------------------- MODULE MCAccountRegistry --------------------------
(* Values of AccountRegistry's constants for TLC. *)
EXTENDS AccountRegistry, TLC

MCSymmetry == Permutations(Accounts)
=============================================================================
