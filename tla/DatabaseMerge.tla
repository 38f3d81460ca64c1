---------------------------- MODULE DatabaseMerge ----------------------------
(***************************************************************************)
(* How the changes of several writers become the one DatabaseChanges that  *)
(* the sink applies.  A change has the ordinal of its row.  Tables gives   *)
(* a row the number of rows its writer touched before it; the V14 and      *)
(* import writers put the ordinal of the log in its place.                 *)
(***************************************************************************)
EXTENDS Integers, Sequences, FiniteSets, SequencesExt

\* A set of numbers as an ascending sequence.
InOrder(S) ==
    [i \in 1..Cardinality(S) |-> CHOOSE n \in S : Cardinality({m \in S : m <= n}) = i]

\* Tables: the rows in the order in which a writer first touches them.
RowOrder(touched) ==
    FoldLeft(LAMBDA rows, row : IF Contains(rows, row) THEN rows ELSE Append(rows, row),
             <<>>, touched)

\* The ordinal that Tables gives a row.
RowOrdinal(touched, row) == SelectInSeq(RowOrder(touched), LAMBDA r : r = row) - 1

\* merge_database_changes: concatenate, then a stable sort by ordinal: a
\* change comes after those of smaller ordinals and the earlier ones of its own.
MergeDatabaseChanges(changes) ==
    LET all == FlattenSeq(changes)
        NotAfter(i) ==
            {j \in DOMAIN all : \/ all[j].ordinal < all[i].ordinal
                                \/ all[j].ordinal = all[i].ordinal /\ j <= i}
    IN  [n \in DOMAIN all |-> all[CHOOSE i \in DOMAIN all : Cardinality(NotAfter(i)) = n]]
=============================================================================
