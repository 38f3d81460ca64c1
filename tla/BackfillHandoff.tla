-------------------------- MODULE BackfillHandoff --------------------------
(***************************************************************************)
(* The sinks that fill one database after one another, and the procedure   *)
(* by which one hands over to the next.  At first two streams fill their   *)
(* domains, with a table of cursors each; they become one where their      *)
(* cursors meet.  A new domain is then backfilled from its first block to  *)
(* where the stopped sink's cursor is, and a continuation takes over both, *)
(* from the next block on.  A cursor is that of the last block with output *)
(* and is committed with it; how far a sink has got beyond it is lost when *)
(* the process ends.  All blocks are final ones.                           *)
(*                                                                         *)
(* The steps between sinks are the operator's: SUBSTREAMS_AGENT_RUNBOOK    *)
(* 7.2, and the scripts that check or carry out one of them.               *)
(***************************************************************************)
EXTENDS Integers, Sequences, FiniteSets, FiniteSetsExt, SequencesExt

CONSTANTS
    Horizon,   \* number of blocks of the chain
    FirstNew,  \* first block of the new domain (H of the runbook)
    MaxFaults  \* bound on crashes, replays and restored backups

ASSUME HandoffAssumption == Horizon \in Nat /\ FirstNew \in Nat \ {0} /\ MaxFaults \in Nat

Blocks == 1..Horizon
Domains == {"legacy", "basket", "new"}
Streams == {"legacy", "basket", "unified", "backfill", "continuation"}

Down == -1

VARIABLES
    output,    \* per domain, the blocks that have changes of it
    pools,     \* those of "new" in which a pool is created: later events are
               \* accepted only from pools that the stores know
    applied,   \* the tables: per domain, the blocks applied, in order
    indexes,   \* entity_index of the new domain's row of a block, 0 without one
    cursors,   \* per stream, its cursor, 0 without one
    position,  \* per stream, the last block it has seen, or Down
    phase,     \* how far the operator is
    joined,    \* cutover_block of check-unified-cutover.sql
    boundary,  \* the stopped sink's cursor (C of the runbook)
    known,     \* first block that the continuation's stores are built from
    backup,    \* the database as it was backed up, with its cursors
    faults

chain == <<output, pools>>
vars == <<chain, applied, indexes, cursors, position, phase, joined, boundary, known, backup,
          faults>>

Init ==
    /\ output \in [Domains -> SUBSET Blocks]
    /\ \A b \in output["new"] : b >= FirstNew
    /\ pools \in SUBSET output["new"]
    /\ applied = [d \in Domains |-> <<>>]
    /\ indexes = [b \in Blocks |-> 0]
    /\ cursors = [s \in Streams |-> 0]
    /\ position = [s \in Streams |-> Down]
    /\ phase = "separate"
    /\ joined = 0 /\ boundary = 0 /\ known = FirstNew /\ faults = 0
    /\ backup = [taken |-> FALSE, applied |-> applied, cursors |-> cursors]

-----------------------------------------------------------------------------
(***************************************************************************)
(* A sink: what it writes, and between which blocks.                       *)
(***************************************************************************)
DomainsOf ==
    [legacy |-> {"legacy"}, basket |-> {"basket"}, unified |-> {"legacy", "basket"},
     backfill |-> {"new"}, continuation |-> Domains]

RunningIn ==
    [separate |-> {"legacy", "basket"}, unified |-> {"unified"}, stopped |-> {"backfill"},
     backfilled |-> {}, continued |-> {"continuation"}]

Running == RunningIn[phase]

\* START_BLOCK.
FirstOf ==
    [legacy |-> 1, basket |-> 1, unified |-> joined + 1, backfill |-> FirstNew,
     continuation |-> boundary + 1]

\* Mutant: the stop block is taken in.
LastOfInclusive(s) ==
    IF s = "backfill" /\ boundary < Horizon THEN boundary + 1 ELSE Horizon

\* STOP_BLOCK, which is exclusive: C + 1 for the backfill.
LastOf(s) == IF s = "backfill" THEN boundary ELSE Horizon

\* Mutant: a restart begins at START_BLOCK again.
ResumeAtStart(s) == FirstOf[s] - 1

\* From the cursor, and without one from START_BLOCK.
Resume(s) == IF cursors[s] = 0 THEN FirstOf[s] - 1 ELSE cursors[s]

Start(s) ==
    /\ s \in Running
    /\ position[s] = Down
    /\ position' = [position EXCEPT ![s] = Resume(s)]
    /\ UNCHANGED <<chain, applied, indexes, cursors, phase, joined, boundary, known, backup,
                   faults>>

\* The counter of a domain's rows, in a store built from block "from" on.
IndexAt(from, b) == Cardinality({c \in output["new"] : from <= c /\ c <= b})

\* The next block: its changes and the cursor in one transaction.
Process(s) ==
    LET b == position[s] + 1
        D == {d \in DomainsOf[s] : b \in output[d]}
    IN  /\ s \in Running
        /\ position[s] # Down /\ b <= LastOf(s)
        /\ position' = [position EXCEPT ![s] = b]
        /\ cursors' = IF D = {} THEN cursors ELSE [cursors EXCEPT ![s] = b]
        /\ applied' = [d \in Domains |-> IF d \in D THEN Append(applied[d], b) ELSE applied[d]]
        /\ indexes' = IF "new" \in D THEN [indexes EXCEPT ![b] = IndexAt(known, b)] ELSE indexes
        /\ UNCHANGED <<chain, phase, joined, boundary, known, backup, faults>>

Crash(s) ==
    /\ faults < MaxFaults
    /\ position[s] # Down
    /\ position' = [position EXCEPT ![s] = Down]
    /\ faults' = faults + 1
    /\ UNCHANGED <<chain, applied, indexes, cursors, phase, joined, boundary, known, backup>>

-----------------------------------------------------------------------------
(***************************************************************************)
(* The operator.                                                           *)
(***************************************************************************)
Stopped == [s \in Streams |-> Down]

\* Mutant: the streams need not have met.
AlignedUnchecked == cursors["legacy"] # 0 /\ cursors["basket"] # 0

\* check-unified-cutover.sql: both cursors exist and are equal.
Aligned == cursors["legacy"] # 0 /\ cursors["legacy"] = cursors["basket"]

Unify ==
    /\ phase = "separate"
    /\ Aligned
    /\ phase' = "unified"
    /\ joined' = cursors["legacy"]
    /\ position' = Stopped
    /\ UNCHANGED <<chain, applied, indexes, cursors, boundary, known, backup, faults>>

\* Before production stops, so that the backup may be behind the boundary.
BackUp ==
    /\ phase = "unified" /\ ~backup.taken
    /\ backup' = [taken |-> TRUE, applied |-> applied, cursors |-> cursors]
    /\ UNCHANGED <<chain, applied, indexes, cursors, position, phase, joined, boundary, known,
                   faults>>

\* Stop the production sink; its cursor is the boundary.
StopProduction ==
    /\ phase = "unified" /\ backup.taken
    /\ cursors["unified"] # 0
    /\ phase' = "stopped"
    /\ boundary' = cursors["unified"]
    /\ position' = Stopped
    /\ UNCHANGED <<chain, applied, indexes, cursors, joined, known, backup, faults>>

\* Mutant: the backfill is done when its cursor is at the boundary.
BackfillDoneByCursor == cursors["backfill"] = boundary

\* The backfill has come to its stop block, with or without output in the
\* last blocks.
BackfillDone == position["backfill"] >= boundary

FinishBackfill ==
    /\ phase = "stopped"
    /\ BackfillDone
    /\ phase' = "backfilled"
    /\ position' = Stopped
    /\ UNCHANGED <<chain, applied, indexes, cursors, joined, boundary, known, backup, faults>>

\* The continuation starts after the boundary with a cursor table of its own.
Continue ==
    /\ phase = "backfilled"
    /\ phase' = "continued"
    /\ UNCHANGED <<chain, applied, indexes, cursors, position, joined, boundary, known, backup,
                   faults>>

\* Mutant: pools do not keep the branches from being reset.
ResetIsSafeUnchecked == TRUE

\* prepare-v11-filter-cutover.sql: no table of state may have a row.
ResetIsSafe == ToSet(applied["new"]) \cap pools = {}

\* Mutant: the rows keep their indexes.
RebasedNot(b) == indexes[b]

\* Its UPDATE: block_number * 1000000 + log_index.
Rebased(b) == IF indexes[b] = 0 THEN 0 ELSE b * 1000000

\* The cutover of the filters: stores of the new domain start empty after
\* the boundary (make_cutover_continuation), and the cursor of the stopped
\* sink is promoted to the continuation.
ContinueReset ==
    /\ phase = "backfilled"
    /\ ResetIsSafe
    /\ phase' = "continued"
    /\ known' = boundary + 1
    /\ indexes' = [b \in Blocks |-> Rebased(b)]
    /\ cursors' = [cursors EXCEPT !["continuation"] = cursors["unified"]]
    /\ UNCHANGED <<chain, applied, position, joined, boundary, backup, faults>>

\* Mutant: only the cursor is reset.
CleanedNot == applied["new"]

\* A scoped cleanup leaves none of the new domain's rows and aggregates.
Cleaned == <<>>

\* A deliberate fresh replay of the backfill.
Replay ==
    /\ phase \in {"stopped", "backfilled"}
    /\ faults < MaxFaults
    /\ faults' = faults + 1
    /\ phase' = "stopped"
    /\ applied' = [applied EXCEPT !["new"] = Cleaned]
    /\ indexes' = [b \in Blocks |-> 0]
    /\ cursors' = [cursors EXCEPT !["backfill"] = 0]
    /\ position' = Stopped
    /\ UNCHANGED <<chain, joined, boundary, known, backup>>

\* Mutant: the restored database is taken for that of the boundary.
RestoredPhaseStopped == "stopped"

\* What the backup was taken of: production goes on from its cursor.
RestoredPhase == "unified"

RestoreBackup ==
    /\ phase \in {"stopped", "backfilled", "continued"}
    /\ faults < MaxFaults
    /\ faults' = faults + 1
    /\ phase' = RestoredPhase
    /\ applied' = backup.applied
    /\ cursors' = backup.cursors
    /\ indexes' = [b \in Blocks |-> 0]
    /\ known' = FirstNew
    /\ position' = Stopped
    /\ UNCHANGED <<chain, joined, boundary, backup>>

Operate ==
    \/ Unify \/ BackUp \/ StopProduction
    \/ FinishBackfill
    \/ Continue \/ ContinueReset
    \/ Replay \/ RestoreBackup

Next ==
    \/ \E s \in Streams : Start(s) \/ Process(s) \/ Crash(s)
    \/ Operate

\* The timer starts a sink that ended, and a running sink goes on; of the
\* operator's steps only seeing the backfill's end is taken for granted.
Fairness ==
    /\ \A s \in Streams : WF_vars(Start(s)) /\ WF_vars(Process(s))
    /\ WF_vars(FinishBackfill)

Spec == Init /\ [][Next]_vars /\ Fairness

-----------------------------------------------------------------------------
Feeds == INSTANCE OrderedFeed WITH fed <- applied

(***************************************************************************)
(* Through streams that join, a backfill, a continuation, crashes at any   *)
(* point, fresh replays and restored backups, the changes of each domain   *)
(* are applied block by block, each block once and none left out.          *)
(***************************************************************************)
FeedsInOrder == Feeds!Spec

(***************************************************************************)
(* The continuation's stores know every pool whose row is in the tables,   *)
(* although a reset has emptied them, and no two rows of the new domain    *)
(* get the same entity_index.                                              *)
(***************************************************************************)
StoresFitTables ==
    LET rows == ToSet(applied["new"])
    IN  /\ phase = "continued" => \A b \in rows \cap pools : known <= b
        /\ \A b, c \in rows : indexes[b] = indexes[c] => b = c

(***************************************************************************)
(* A backfill comes to its end even if the last blocks before the boundary *)
(* have nothing for it, and a continuation that is left alone brings every *)
(* domain up to the last block.                                            *)
(***************************************************************************)
HandoffCompletes ==
    /\ phase = "stopped" ~> phase # "stopped"
    /\ phase = "continued" ~>
          \/ phase # "continued"
          \/ \A d \in Domains : ToSet(applied[d]) = output[d]
=============================================================================
