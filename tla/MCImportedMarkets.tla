------------------------- MODULE MCImportedMarkets -------------------------
(* Values of ImportedMarkets' constants for TLC. *)
EXTENDS ImportedMarkets, TLC

Symmetry == Permutations(Tokens) \cup Permutations(Users) \cup Permutations(RegistryKeys)
=============================================================================
