--------------------------- MODULE MCNutboxMining ---------------------------
(***************************************************************************)
(* Two NFTs in two batches, two baskets, and two accounts that own both.   *)
(***************************************************************************)
EXTENDS NutboxMining, TLC

CONSTANTS t1, t2, n1, n2, b1, b2, alice, bob

Symmetry == Permutations({t1, t2}) \cup Permutations({n1, n2})
                \cup Permutations({b1, b2}) \cup Permutations({alice, bob})
=============================================================================
