------------------------------- MODULE SqlSink -------------------------------
(***************************************************************************)
(* How the PostgreSQL sink keeps the tables revertible: with every row it  *)
(* changes it records, under the block's number, the operation and the     *)
(* complete previous row, and an undo signal replays these records newest  *)
(* first.  scripts/test-reorg.sql exercises this record format and order.  *)
(* The chain streams non-final blocks, so that any block above the last    *)
(* irreversible one may be undone, and undone again after other blocks.    *)
(***************************************************************************)
EXTENDS ForkableTable

VARIABLES
    history,   \* the rows of HISTORY_TABLE
    lib,       \* the last irreversible block the sink was told of
    undo       \* the undo transaction under way

committed == <<rows, cursor, past, history, lib>>

vars == <<rows, cursor, past, history, lib, undo>>

Ops == {"I", "U", "D"}

Entries == [op : Ops, key : Keys, prev : Contents, block : 1..MaxBlock]

\* No transaction; its other fields mean nothing.
NoUndo == [open |-> FALSE, to |-> 0, rows |-> NoRows, left |-> {}]

TypeOK ==
    /\ rows \in Tables
    /\ cursor \in 0..MaxBlock
    /\ past \in [0..MaxBlock -> Tables]
    /\ history \in SUBSET Entries
    /\ lib \in 0..cursor
    /\ undo \in [open : BOOLEAN, to : 0..MaxBlock, rows : Tables, left : SUBSET Entries]

Init ==
    /\ TableInit
    /\ history = {}
    /\ lib = 0
    /\ undo = NoUndo

-----------------------------------------------------------------------------
\* A block changes at least the rows in touched, to new; a row that does not
\* exist is not deleted.
Changes(touched, new) ==
    \A k \in touched : rows[k] = Absent => new[k] # Absent

OpOf(old, new) ==
    IF old = Absent THEN "I" ELSE IF new = Absent THEN "D" ELSE "U"

\* One record per row of the block; an insert has no previous row.
Records(touched, new) ==
    {[op |-> OpOf(rows[k], new[k]), key |-> k, prev |-> rows[k], block |-> cursor + 1] :
        k \in touched}

\* Mutant: the records of a block are dropped one block before it is final.
RetainedEarly(entries, final) == {e \in entries : e.block > final + 1}

\* Records of irreversible blocks are not kept.
Retained(entries, final) == {e \in entries : e.block > final}

(***************************************************************************)
(* The changes of the next block, their records and the cursor, in one     *)
(* transaction.  The block comes with the last irreversible block; while   *)
(* the sink catches up that is the block itself.                           *)
(***************************************************************************)
Commit(touched, new, final) ==
    /\ ~undo.open
    /\ cursor < MaxBlock
    /\ Changes(touched, new)
    /\ cursor' = cursor + 1
    /\ rows' = [k \in Keys |-> IF k \in touched THEN new[k] ELSE rows[k]]
    /\ past' = [past EXCEPT ![cursor + 1] = rows']
    /\ history' = Retained(history \cup Records(touched, new), final)
    /\ lib' = final
    /\ UNCHANGED undo

\* Mutant: undoes irreversible blocks as well.
BeginUndoAnywhere(v) ==
    /\ ~undo.open
    /\ v < cursor
    /\ undo' = [open |-> TRUE, to |-> v, rows |-> rows, left |-> history]
    /\ UNCHANGED committed

\* The undo signal names the last valid block; the transaction starts.
BeginUndo(v) ==
    /\ ~undo.open
    /\ lib <= v
    /\ v < cursor
    /\ undo' = [open |-> TRUE, to |-> v, rows |-> rows, left |-> history]
    /\ UNCHANGED committed

\* Newest first.
Newest(e) == \A d \in undo.left : d.block <= e.block

\* Mutant: an insert is not reverted.
ReversedKeepsInserts(e, old) == IF e.op = "I" THEN old ELSE e.prev

\* An insert is deleted again, an update of an existing row is put back (of a
\* missing one, nothing is), a deleted row is inserted.
Reversed(e, old) ==
    IF e.op = "I" \/ (e.op = "U" /\ old = Absent) THEN Absent ELSE e.prev

\* A record above the last valid block.  The insert that reverts a deletion
\* fails on the primary key when the row is there.
Reverse(e) ==
    /\ undo.open
    /\ e.block > undo.to
    /\ Newest(e)
    /\ e.op = "D" => undo.rows[e.key] = Absent
    /\ undo' = [undo EXCEPT !.rows[e.key] = Reversed(e, @), !.left = @ \ {e}]
    /\ UNCHANGED committed

\* Mutant: the records of the last valid block go too.
ValidHistoryExclusive(v) == {e \in history : e.block < v}

ValidHistory(v) == {e \in history : e.block <= v}

\* All reversed: the tables, the records and the cursor of the last valid
\* block are committed together.
CommitUndo ==
    /\ undo.open
    /\ \A e \in undo.left : e.block <= undo.to
    /\ rows' = undo.rows
    /\ cursor' = undo.to
    /\ past' = [b \in 0..MaxBlock |-> IF b <= undo.to THEN past[b] ELSE NoRows]
    /\ history' = ValidHistory(undo.to)
    /\ undo' = NoUndo
    /\ UNCHANGED lib

\* The sink stops in the transaction, which PostgreSQL rolls back.  It resumes
\* from its cursor and is given an undo signal again.
Crash ==
    /\ undo.open
    /\ undo' = NoUndo
    /\ UNCHANGED committed

Next ==
    \/ \E touched \in SUBSET Keys : \E new \in [touched -> Contents] :
         \E final \in lib..(cursor + 1) : Commit(touched, new, final)
    \/ \E v \in 0..MaxBlock : BeginUndo(v)
    \/ \E e \in undo.left : Reverse(e)
    \/ CommitUndo
    \/ Crash

Spec == Init /\ [][Next]_vars

-----------------------------------------------------------------------------
(***************************************************************************)
(* "update/delete rollback did not restore block 100 state", "insert       *)
(* rollback did not remove the fork row": the tables are those of the      *)
(* block the cursor names, through every undo, crash and later block.      *)
(***************************************************************************)
RowsAreOfCursor == rows = past[cursor]

(***************************************************************************)
(* The sink implements a table that forks: an undo transaction of any      *)
(* length, interrupted or not, is one step back to the last valid block.   *)
(***************************************************************************)
ImplementsTable == TableSpec

(***************************************************************************)
(* Reverting a record never meets a row in the wrong state: an update and  *)
(* an insert find their row, a deletion finds none, and so no undo fails.  *)
(***************************************************************************)
NeverConflicts ==
    undo.open =>
        \A e \in undo.left :
            e.block > undo.to /\ Newest(e) => (e.op = "D" <=> undo.rows[e.key] = Absent)

(***************************************************************************)
(* The records reach far enough: of every block that may still be undone,  *)
(* the oldest record above it holds each row as it was at that block, and  *)
(* a row without one has not changed since.                                *)
(***************************************************************************)
HistoryReachesLib ==
    \A v \in lib..cursor, k \in Keys :
        LET later == {e \in history : e.key = k /\ e.block > v}
        IN  \/ later = {} /\ rows[k] = past[v][k]
            \/ \E e \in later : e.prev = past[v][k] /\ \A d \in later : e.block <= d.block
=============================================================================
