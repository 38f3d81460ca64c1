-------------------------- MODULE ProtocolRegistry --------------------------
(***************************************************************************)
(* The registries of the protocol's contracts: price pools and routes of   *)
(* the Nutbox router (V11 and V14) and the communities that collect a      *)
(* pool's fees.  An entry is added, replaced and removed on the chain; its *)
(* row is upserted at each event, keeps its columns when the entry is      *)
(* removed, and is used again when it returns.                             *)
(***************************************************************************)
EXTENDS Integers, Sequences

CONSTANTS
    Registries,  \* tables, one of them "nutbox_community_fee_pools"
    Keys,        \* pool ids, or pairs of tokens
    MaxLogs      \* bound on the logs of the chain

VARIABLES
    entries,  \* the contracts: an entry's data, 0 without one
    last,     \*   and the data that the entry last had
    length,   \* number of logs in the committed blocks
    logs,     \* the open block
    rows      \* the tables

vars == <<entries, last, length, logs, rows>>

Slots == Registries \X Keys

NoRow == [active |-> FALSE, data |-> 0]

Init ==
    /\ entries = [s \in Slots |-> 0]
    /\ last = [s \in Slots |-> 0]
    /\ length = 0 /\ logs = <<>>
    /\ rows = [s \in Slots |-> NoRow]

-----------------------------------------------------------------------------
\* Data is told apart by the place of the log that brings it.
Place == length + Len(logs) + 1

Emit(kind, slot) ==
    /\ Place <= MaxLogs
    /\ logs' = Append(logs, [kind |-> kind, slot |-> slot, data |-> Place])
    /\ UNCHANGED <<length, rows>>

\* PoolCommunitySet both adds and replaces.
Put(slot) ==
    /\ Emit(IF slot[1] = "nutbox_community_fee_pools" THEN "SET"
            ELSE IF entries[slot] = 0 THEN "ADDED" ELSE "REPLACED", slot)
    /\ entries' = [entries EXCEPT ![slot] = Place]
    /\ last' = [last EXCEPT ![slot] = Place]

TakeOut(slot) ==
    /\ entries[slot] # 0
    /\ Emit("REMOVED", slot)
    /\ entries' = [entries EXCEPT ![slot] = 0]
    /\ UNCHANGED last

-----------------------------------------------------------------------------
\* Mutant: a removal writes its own, empty columns.
WriteCleared(row, log) ==
    IF log.kind = "REMOVED" THEN [active |-> FALSE, data |-> 0]
    ELSE [active |-> TRUE, data |-> log.data]

\* write_v11_protocol_changes, write_router.
Write(row, log) ==
    IF log.kind = "REMOVED" THEN [row EXCEPT !.active = FALSE]
    ELSE [active |-> TRUE, data |-> log.data]

RowAfter(slot) ==
    LET after[n \in 0..Len(logs)] ==
          IF n = 0 THEN rows[slot]
          ELSE IF logs[n].slot = slot THEN Write(after[n - 1], logs[n])
          ELSE after[n - 1]
    IN  after[Len(logs)]

EndBlock ==
    /\ logs # <<>>
    /\ rows' = [s \in Slots |-> RowAfter(s)]
    /\ length' = length + Len(logs)
    /\ logs' = <<>>
    /\ UNCHANGED <<entries, last>>

Next ==
    \/ \E slot \in Slots : Put(slot) \/ TakeOut(slot)
    \/ EndBlock

Spec == Init /\ [][Next]_vars

-----------------------------------------------------------------------------
(***************************************************************************)
(* Between blocks exactly the contracts' entries are active, each row with *)
(* the data that its entry has or, when it was removed, had last.          *)
(***************************************************************************)
RegistriesFollow ==
    logs = <<>> => \A s \in Slots : rows[s].active = (entries[s] # 0) /\ rows[s].data = last[s]
=============================================================================
