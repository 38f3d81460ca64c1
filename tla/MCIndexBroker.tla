---------------------------- MODULE MCIndexBroker ----------------------------
(* Values of IndexBroker's constants for TLC. *)
EXTENDS IndexBroker, TLC

MCSymmetry == Permutations(Users) \cup Permutations(Pools)
=============================================================================
