---------------------------- MODULE OrderedFeed ----------------------------
(***************************************************************************)
(* What the tables promise while sinks are replaced by one another: the    *)
(* changes of a domain are applied block by block, each block once, in the *)
(* order of the chain, none left out.  A recovery may take a domain back   *)
(* to an earlier point of its feed, never to anything else.                *)
(***************************************************************************)
EXTENDS Integers, Sequences, FiniteSets, FiniteSetsExt, SequencesExt

CONSTANTS Domains, Blocks

VARIABLES
    output,  \* per domain, the blocks that have changes of it
    fed      \* per domain, the blocks applied, in the order in which they were

Init ==
    /\ output \in [Domains -> SUBSET Blocks]
    /\ fed = [d \in Domains |-> <<>>]

Left(d) == output[d] \ ToSet(fed[d])

\* One block's changes, of all domains in D.
Feed(D) ==
    /\ \A d \in D : Left(d) # {}
    /\ fed' = [d \in Domains |-> IF d \in D THEN Append(fed[d], Min(Left(d))) ELSE fed[d]]
    /\ UNCHANGED output

Rewind ==
    /\ \A d \in Domains : IsPrefix(fed'[d], fed[d])
    /\ UNCHANGED output

Next ==
    \/ \E D \in SUBSET Domains : Feed(D)
    \/ Rewind

Spec == Init /\ [][Next]_<<output, fed>>
=============================================================================
