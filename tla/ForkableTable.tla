---------------------------- MODULE ForkableTable ----------------------------
(***************************************************************************)
(* What the database promises its readers, whatever the sink goes through: *)
(* the tables hold the state of one block, they move to the next block by  *)
(* any change, and after a fork they are again what they were at the last  *)
(* valid block.                                                            *)
(***************************************************************************)
EXTENDS Integers

CONSTANTS
    Keys,      \* the rows of the tables, by table and primary key
    Values,    \* what a row may hold
    Absent,    \* a row that does not exist
    MaxBlock   \* bound on the chain

ASSUME TableAssumption ==
    /\ Absent \notin Values
    /\ MaxBlock \in Nat

VARIABLES
    rows,      \* the tables
    cursor,    \* the block they are of
    past       \* past[b]: the tables at block b, for b up to the cursor

Contents == Values \cup {Absent}

Tables == [Keys -> Contents]

NoRows == [k \in Keys |-> Absent]

TableInit ==
    /\ rows = NoRows
    /\ cursor = 0
    /\ past = [b \in 0..MaxBlock |-> NoRows]

Extend ==
    /\ cursor < MaxBlock
    /\ cursor' = cursor + 1
    /\ rows' \in Tables
    /\ past' = [past EXCEPT ![cursor + 1] = rows']

Rewind(v) ==
    /\ v < cursor
    /\ cursor' = v
    /\ rows' = past[v]
    /\ past' = [b \in 0..MaxBlock |-> IF b <= v THEN past[b] ELSE NoRows]

TableNext ==
    \/ Extend
    \/ \E v \in 0..MaxBlock : Rewind(v)

TableSpec == TableInit /\ [][TableNext]_<<rows, cursor, past>>
=============================================================================
