------------------------- MODULE MCWalnutProjection -------------------------
(* Values of WalnutProjection's constants for TLC. *)
EXTENDS WalnutProjection, TLC

MCSymmetry == Permutations(Users)
=============================================================================
