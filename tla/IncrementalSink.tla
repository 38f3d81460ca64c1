--------------------------- MODULE IncrementalSink ---------------------------
(***************************************************************************)
(* The bounded incremental sink: the systemd timer starts a oneshot unit   *)
(* that runs scripts/run-incremental-sink.sh, which picks a block window,  *)
(* runs substreams-sink-sql up to an exclusive stop block, compares the    *)
(* SQL cursor before and after, and stores the next window in a state      *)
(* file.  A pipeline is sparse: only the blocks in output[p] make the      *)
(* output module of package p write rows and a cursor.                     *)
(***************************************************************************)
EXTENDS Integers

CONSTANTS
    StartBlock,    \* START_BLOCK, the first block of an empty cursor table
    LagBlocks,     \* LATEST_LAG_BLOCKS
    Packages,      \* deployable packages, each with one output-module hash
    NoPackage,     \* scope of a state file that was never written
    Outputs,       \* what a chain may hold: for each package, the blocks on
                   \* which its output bears a cursor
    Environments,  \* the unit environments an operator may install
    MaxHead,       \* bound on the chain
    MaxForks       \* bound on forks

(***************************************************************************)
(* An environment is what the script validates before doing anything: a    *)
(* package, whether INCREMENTAL_CURSOR_ID names its output module,         *)
(* INCREMENTAL_MAX_BLOCKS, its ceiling and the growth factor.              *)
(***************************************************************************)
ValidEnvironment(e) ==
    /\ e.package \in Packages
    /\ e.cursorId \in BOOLEAN
    /\ e.base \in Nat \ {0}
    /\ e.ceiling \in Nat
    /\ e.ceiling >= e.base
    /\ e.growth \in Nat
    /\ e.growth >= 2

ASSUME ConstantsAssumption ==
    /\ StartBlock \in Nat \ {0}
    /\ LagBlocks \in Nat
    /\ NoPackage \notin Packages
    /\ Outputs \subseteq [Packages -> SUBSET Nat]
    /\ \A o \in Outputs, p \in Packages : \A b \in o[p] : b >= StartBlock
    /\ \A e \in Environments : ValidEnvironment(e)
    /\ MaxHead \in Nat
    /\ MaxForks \in Nat

VARIABLES
    head,     \* the chain's latest block
    env,      \* the installed environment
    output,   \* the outputs of the canonical chain
    cursors,  \* the cursors table: block of each module hash, 0 when absent
    tables,   \* tables[p]: the blocks whose changes p has committed
    canon,    \* canon[p] <= cursors[p]: the last block of p that is still canonical
    file,     \* the window state file
    phase,    \* where the wrapper process is
    window,   \* effective_max_blocks of this invocation
    before,   \* cursor_block, the cursor read before the sink ran
    target,   \* target_block, the last block of this invocation
    forks,    \* forks so far
    (* history, for the properties only: how far the range of this run, and   *)
    (* that of the run that wrote the file, is still the chain the sink read  *)
    kept, savedKept

sinkVars == <<head, env, output, cursors, tables, canon, file, phase, window, before, target,
              forks, kept, savedKept>>

run == <<window, before, target, kept>>
saved == <<file, savedKept>>
database == <<cursors, tables, canon>>
chain == <<head, output, forks>>

\* The state file's scope hash: the window bounds are not part of it.
Scope(e) == <<e.package, e.cursorId>>

NoFile == [scope |-> <<NoPackage, FALSE>>, next |-> 0, lastCursor |-> 0, lastTarget |-> 0]

Phases == {"idle", "sinking", "sunk"}

SinkTypeOK ==
    /\ head \in Nat
    /\ env \in Environments
    /\ output \in Outputs
    /\ cursors \in [Packages -> Nat]
    /\ canon \in [Packages -> Nat]
    /\ tables \in [Packages -> SUBSET Nat]
    /\ file \in [scope : (Packages \cup {NoPackage}) \X BOOLEAN, next : Nat,
                 lastCursor : Nat, lastTarget : Int]
    /\ phase \in Phases
    /\ window \in Nat
    /\ before \in Nat
    /\ target \in Int
    /\ forks \in Nat
    /\ kept \in Int /\ savedKept \in Int

SinkInit ==
    /\ head = 0
    /\ env \in Environments
    /\ output \in Outputs
    /\ cursors = [p \in Packages |-> 0]
    /\ canon = [p \in Packages |-> 0]
    /\ tables = [p \in Packages |-> {}]
    /\ file = NoFile
    /\ phase = "idle"
    /\ window = 0 /\ before = 0 /\ target = 0
    /\ forks = 0
    /\ kept = 0 /\ savedKept = 0

-----------------------------------------------------------------------------
(***************************************************************************)
(* read_cursor_block: the row of INCREMENTAL_CURSOR_ID, or the largest     *)
(* block of the table when no id is configured; 0 for an empty result.     *)
(***************************************************************************)
IsCursorBlock(c) ==
    IF env.cursorId
    THEN c = cursors[env.package]
    ELSE /\ c \in {cursors[p] : p \in Packages}
         /\ \A p \in Packages : c >= cursors[p]

\* Mutant: repeats the same fixed range.
GrowKeeps(current) == current

\* grow_window: multiply, but never past the ceiling.
Grow(current) ==
    IF current >= env.ceiling \/ current > env.ceiling \div env.growth
    THEN env.ceiling
    ELSE current * env.growth

\* The saved window counts only for the same scope and if it is not below
\* the base; it is clipped to the ceiling.
EffectiveWindow ==
    IF file.scope = Scope(env) /\ file.next >= env.base
    THEN IF file.next > env.ceiling THEN env.ceiling ELSE file.next
    ELSE env.base

ResolvedStart(c) == IF c > 0 THEN c + 1 ELSE StartBlock

ChainTarget(latest) == latest - LagBlocks

\* Mutant: forgets the chain target.
TargetBlockWindowOnly(latest, start) == start + EffectiveWindow - 1

TargetBlock(latest, start) ==
    LET batch == start + EffectiveWindow - 1
    IN  IF ChainTarget(latest) > batch THEN batch ELSE ChainTarget(latest)

-----------------------------------------------------------------------------
NewBlock ==
    /\ head < MaxHead
    /\ head' = head + 1
    /\ UNCHANGED <<env, output, forks, database, saved, phase, run>>

\* What is left of the blocks up to one when those above valid are replaced.
Lowered(block, valid) == IF block > valid THEN valid ELSE block

\* The blocks above valid are replaced; their outputs may be other ones.
Fork(valid) ==
    /\ forks < MaxForks
    /\ forks' = forks + 1
    /\ \E o \in Outputs :
         /\ \A p \in Packages :
              {b \in o[p] : b <= valid} = {b \in output[p] : b <= valid}
         /\ output' = o
    /\ canon' = [p \in Packages |-> Lowered(canon[p], valid)]
    /\ kept' = Lowered(kept, valid)
    /\ savedKept' = Lowered(savedKept, valid)
    /\ UNCHANGED <<head, env, cursors, tables, file, phase, window, before, target>>

(***************************************************************************)
(* The operator installs another environment between two invocations.      *)
(***************************************************************************)
Deploy(e) ==
    /\ phase = "idle"
    /\ e # env
    /\ env' = e
    /\ UNCHANGED <<chain, database, saved, phase, run>>

(***************************************************************************)
(* The timer starts the wrapper, which reads the window, a chain head the  *)
(* RPC endpoint reports (latest), and the cursor, and starts the sink.     *)
(* Where a conjunct fails the script exits and leaves everything as it is: *)
(* with 1 for a head within the lag, with 0 when up to date.               *)
(***************************************************************************)
Launch(latest, c) ==
    /\ phase = "idle"
    /\ latest > LagBlocks
    /\ IsCursorBlock(c)
    /\ ResolvedStart(c) <= ChainTarget(latest)
    /\ phase' = "sinking"
    /\ window' = EffectiveWindow
    /\ before' = c
    /\ target' = TargetBlock(latest, ResolvedStart(c))
    /\ kept' = target'
    /\ UNCHANGED <<chain, env, database, saved>>

(***************************************************************************)
(* substreams-sink-sql resumes after its own module's cursor, whatever the *)
(* wrapper has read of the table, or at --start-block if there is none;    *)
(* and streams the blocks before STOP_BLOCK in order.                      *)
(***************************************************************************)
\* Mutant: a stop block that is taken as inclusive.
StopBlockInclusive == target

StopBlock == target + 1

Pending(p) ==
    {b \in output[p] : b >= StartBlock /\ b > cursors[p] /\ b < StopBlock}

\* One flush: the rows of every pending block up to b, and the cursor b, in
\* one database transaction.
SinkCommit ==
    /\ phase = "sinking"
    /\ LET p == env.package
       IN  /\ canon[p] = cursors[p]
           /\ \E b \in Pending(p) :
                /\ tables' = [tables EXCEPT ![p] = @ \cup {o \in Pending(p) : o <= b}]
                /\ cursors' = [cursors EXCEPT ![p] = b]
                /\ canon' = [canon EXCEPT ![p] = b]
    /\ UNCHANGED <<chain, env, saved, phase, run>>

\* The cursor's block was forked out: the provider names the last valid
\* block, and the sink reverts the later rows and moves the cursor back, in
\* one database transaction.
SinkUndo ==
    /\ phase = "sinking"
    /\ LET p == env.package
       IN  /\ canon[p] < cursors[p]
           /\ tables' = [tables EXCEPT ![p] = {b \in @ : b <= canon[p]}]
           /\ cursors' = [cursors EXCEPT ![p] = canon[p]]
    /\ UNCHANGED <<chain, env, canon, saved, phase, run>>

\* The sink reached the stop block and exits with 0.
SinkDone ==
    /\ phase = "sinking"
    /\ canon[env.package] = cursors[env.package]
    /\ Pending(env.package) = {}
    /\ phase' = "sunk"
    /\ kept' = target
    /\ UNCHANGED <<chain, env, database, saved, window, before, target>>

\* The script exits, and with it the variables of the run are gone.
Exit ==
    /\ phase' = "idle"
    /\ window' = 0 /\ before' = 0 /\ target' = 0
    /\ kept' = 0

(***************************************************************************)
(* The sink exits with an error, or the unit is stopped (TimeoutStartSec,  *)
(* a reboot) in any phase.  The script exits without touching the file.    *)
(***************************************************************************)
Abort ==
    /\ phase # "idle"
    /\ Exit
    /\ UNCHANGED <<chain, env, database, saved>>

\* Mutant: saves the window before looking at the sink's exit status.
SaveWindowAnyStatus(after) ==
    /\ phase \in {"sinking", "sunk"}
    /\ IsCursorBlock(after)
    /\ after >= before
    /\ file' = [scope |-> Scope(env),
                next |-> IF after > before THEN env.base ELSE Grow(window),
                lastCursor |-> after,
                lastTarget |-> target]
    /\ savedKept' = kept
    /\ Exit
    /\ UNCHANGED <<chain, env, database>>

(***************************************************************************)
(* After a successful run: an advanced cursor resets the window, an        *)
(* unchanged one grows it; the state file is replaced atomically.          *)
(***************************************************************************)
SaveWindow(after) ==
    /\ phase = "sunk"
    /\ IsCursorBlock(after)
    /\ after >= before
    /\ file' = [scope |-> Scope(env),
                next |-> IF after > before THEN env.base ELSE Grow(window),
                lastCursor |-> after,
                lastTarget |-> target]
    /\ savedKept' = kept
    /\ Exit
    /\ UNCHANGED <<chain, env, database>>

\* "PostgreSQL cursor moved backwards": exit 1, file untouched.
RefuseBackwardsCursor(after) ==
    /\ phase = "sunk"
    /\ IsCursorBlock(after)
    /\ after < before
    /\ Exit
    /\ UNCHANGED <<chain, env, database, saved>>

CursorBlocks == {cursors[p] : p \in Packages}

SinkNext ==
    \/ NewBlock
    \/ \E valid \in 0..(head - 1) : Fork(valid)
    \/ \E e \in Environments : Deploy(e)
    \/ \E latest \in 0..head, c \in CursorBlocks : Launch(latest, c)
    \/ SinkCommit
    \/ SinkUndo
    \/ SinkDone
    \/ Abort
    \/ \E c \in CursorBlocks : SaveWindow(c)
    \/ \E c \in CursorBlocks : RefuseBackwardsCursor(c)

SinkSpec == SinkInit /\ [][SinkNext]_sinkVars

(***************************************************************************)
(* What the unit's scheduling gives: the calendar timer starts the wrapper *)
(* again and again and infinitely often the endpoint reports the real      *)
(* head; a run is not aborted every single time (MAX_RETRIES, a watchdog   *)
(* of two hours).  Nothing obliges the chain to grow or to fork, or the    *)
(* operator to deploy.                                                     *)
(***************************************************************************)
SinkFairness ==
    /\ SF_sinkVars(\E c \in CursorBlocks : Launch(head, c))
    /\ SF_sinkVars(SinkCommit)
    /\ SF_sinkVars(SinkUndo)
    /\ SF_sinkVars(SinkDone)
    /\ SF_sinkVars(\E c \in CursorBlocks : SaveWindow(c))
    /\ WF_sinkVars(\E c \in CursorBlocks : RefuseBackwardsCursor(c))

FairSinkSpec == SinkSpec /\ SinkFairness

-----------------------------------------------------------------------------
(***************************************************************************)
(* No cursor, and so no row, is ever within LATEST_LAG_BLOCKS of the head, *)
(* although the window may reach past it.                                  *)
(***************************************************************************)
LagRespected ==
    \A p \in Packages : cursors[p] > 0 => cursors[p] + LagBlocks <= head

(***************************************************************************)
(* The window of a run lies between INCREMENTAL_MAX_BLOCKS and its ceiling *)
(* for the environment in force, although the state file outlives changes  *)
(* of both, which are not part of its scope.                               *)
(***************************************************************************)
WindowInBounds ==
    phase # "idle" => window \in env.base..env.ceiling

(***************************************************************************)
(* The saved window is evidence: the state file is only written for a      *)
(* range that was scanned to its end, whatever a fork has undone before,   *)
(* so between the cursor and the target that it holds there is no output   *)
(* of its package, but for blocks that a fork has replaced since.          *)
(***************************************************************************)
SavedRangeExhausted ==
    \A p \in Packages :
        file.scope[1] = p =>
            \A b \in output[p] :
                ~(file.lastCursor < b /\ b <= file.lastTarget /\ b <= savedKept)

(***************************************************************************)
(* What the wrapper promises of its windows: a range that has been scanned *)
(* held nothing else, stayed out of the lag and kept to the bounds.        *)
(***************************************************************************)
WindowsSafe == LagRespected /\ WindowInBounds /\ SavedRangeExhausted

\* On every fork, successive outputs of e's package (and the first one) are
\* within e's ceiling.
GapsWithinCeiling(e) ==
    \A o \in Outputs : \A b \in o[e.package] :
        \/ b - e.ceiling < StartBlock
        \/ \E a \in o[e.package] : a < b /\ b - a <= e.ceiling

(***************************************************************************)
(* "Repeating the same fixed range would starve every relevant event       *)
(* beyond that range": under an environment that stays installed, every    *)
(* output that falls behind the lag is committed, if no gap between        *)
(* outputs exceeds the ceiling and the cursor id is configured.            *)
(***************************************************************************)
Reached(p) == \A b \in output[p] : b + LagBlocks <= head => b \in tables[p]

NoStarvation ==
    \A e \in Environments :
        e.cursorId /\ GapsWithinCeiling(e) /\ <>[](env = e)
            => []<>Reached(e.package)
=============================================================================
