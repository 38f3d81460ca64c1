-------------------------- MODULE MCIncrementalSink --------------------------
(* Values of IncrementalSink's constants for TLC. *)
EXTENDS IncrementalSink

MCPackages == {"v13", "v14"}

\* Sparse outputs: v13's gap of three blocks is its ceiling below, so it is
\* found only after the window has grown; v14's outputs are adjacent.  On the
\* other fork v13 has no output at block 5.
MCOutputs ==
    {[p \in MCPackages |-> IF p = "v13" THEN {2, 5} ELSE {3, 4}],
     [p \in MCPackages |-> IF p = "v13" THEN {2} ELSE {3, 4}]}

Environment(p, id, b, c, g) ==
    [package |-> p, cursorId |-> id, base |-> b, ceiling |-> c, growth |-> g]

\* Two environments of one package with different bounds, so that a saved
\* window is above the new ceiling or below the new base (the first ceiling is
\* exactly v13's largest gap, the second is short of it), and another package
\* without a cursor id.
MCEnvironments ==
    {Environment("v13", TRUE, 1, 3, 2), Environment("v13", TRUE, 2, 2, 2),
     Environment("v14", FALSE, 1, 3, 2)}
=============================================================================
