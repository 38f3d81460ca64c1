------------------------------ MODULE Packages ------------------------------
(***************************************************************************)
(* What the assemblers of packages share: a package has modules by name,   *)
(* which run one of its binaries and read each other.                      *)
(***************************************************************************)
EXTENDS Naturals, Sequences, FiniteSets, Functions

Names(p) == DOMAIN p.modules

Content(p, n) == p.binaries[p.modules[n].binary]

\* A module with what it reads, and all that those modules read: what is in
\* every set that has the module and whatever its members read.
ReadBy(p, n) ==
    LET closed == {S \in SUBSET Names(p) :
                     n \in S /\ \A m \in S : Range(p.modules[m].inputs) \cap Names(p) \subseteq S}
    IN  {m \in Names(p) : \A S \in closed : m \in S}

\* Binaries are copied in some order, each one that is used once.
Place(S, i) == Cardinality({j \in S : j <= i})
Collected(p, S) == [b \in 1..Cardinality(S) |-> p.binaries[CHOOSE i \in S : Place(S, i) = b]]
=============================================================================
