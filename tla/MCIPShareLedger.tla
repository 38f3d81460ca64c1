--------------------------- MODULE MCIPShareLedger ---------------------------
(* Values of IPShareLedger's constants for TLC. *)
EXTENDS IPShareLedger, TLC

MCSymmetry == Permutations(Accounts)
=============================================================================
