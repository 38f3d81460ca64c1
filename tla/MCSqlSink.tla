------------------------------ MODULE MCSqlSink ------------------------------
(***************************************************************************)
(* Two rows, two values and four blocks.                                  *)
(***************************************************************************)
EXTENDS SqlSink, TLC

CONSTANTS k1, k2, v1, v2

Symmetry == Permutations({k1, k2}) \cup Permutations({v1, v2})
=============================================================================
