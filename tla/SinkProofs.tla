------------------------------ MODULE SinkProofs ------------------------------
(***************************************************************************)
(* Proofs about the two halves of the database sink: IncrementalSink for   *)
(* every environment set, every placement of outputs and a chain of any    *)
(* length, then SqlSink for every set of rows and values and a chain of any *)
(* length.                                                                 *)
(***************************************************************************)
EXTENDS IncrementalSink, SqlSink, WellFoundedInduction, TLAPS

(***************************************************************************)
(* The inductive invariant.  The property does not imply itself: the saved *)
(* range is exhausted because the run that saved it had left nothing       *)
(* pending but in blocks replaced since it returned (DrainedWhenSunk), and *)
(* the cursor keeps out of the lag because the target of the run under way *)
(* does (TargetBehindLag).                                                 *)
(***************************************************************************)
TargetBehindLag == phase # "idle" => target + LagBlocks <= head

DrainedWhenSunk == phase = "sunk" => \A b \in Pending(env.package) : b > kept

SinkInv ==
    /\ SinkTypeOK
    /\ LagRespected
    /\ WindowInBounds
    /\ SavedRangeExhausted
    /\ TargetBehindLag
    /\ DrainedWhenSunk

\* The window a run starts with lies between the base and the ceiling.
LEMMA EffectiveWindowBounds ==
    ASSUME SinkTypeOK
    PROVE  EffectiveWindow \in env.base..env.ceiling
<1>1. ValidEnvironment(env)
  BY ConstantsAssumption DEF SinkTypeOK
<1>2. file.next \in Nat
  BY DEF SinkTypeOK
<1> QED
  BY <1>1, <1>2 DEF EffectiveWindow, ValidEnvironment

\* A grown window is a natural number, whatever window it grew from.
LEMMA GrowType ==
    ASSUME SinkTypeOK
    PROVE  Grow(window) \in Nat
<1>1. env.ceiling \in Nat /\ env.growth \in Nat
  BY ConstantsAssumption DEF SinkTypeOK, ValidEnvironment
<1>2. window * env.growth \in Nat
  BY <1>1 DEF SinkTypeOK
<1> QED
  BY <1>1, <1>2 DEF Grow

\* The target of a run never reaches into the lag.
LEMMA TargetBounds ==
    ASSUME SinkTypeOK, NEW latest \in Nat, NEW start \in Nat
    PROVE  /\ TargetBlock(latest, start) \in Int
           /\ TargetBlock(latest, start) + LagBlocks <= latest
<1>1. EffectiveWindow \in Int
  <2>1. env.base \in Int /\ env.ceiling \in Int
    BY ConstantsAssumption DEF SinkTypeOK, ValidEnvironment
  <2> QED
    BY <2>1, EffectiveWindowBounds
<1> QED
  BY <1>1, ConstantsAssumption DEF TargetBlock, ChainTarget

\* The cursor that the driver reads is a block, not before that of its package.
LEMMA CursorBlockType ==
    ASSUME SinkTypeOK, NEW c, IsCursorBlock(c)
    PROVE  /\ c \in Nat
           /\ c >= cursors[env.package]
<1>1. env.package \in Packages
  BY ConstantsAssumption DEF SinkTypeOK, ValidEnvironment
<1> QED
  BY <1>1 DEF IsCursorBlock, SinkTypeOK

\* The outputs of a package are block numbers from START_BLOCK on.
LEMMA OutputType ==
    ASSUME SinkTypeOK, NEW p \in Packages, NEW b \in output[p]
    PROVE  b \in Nat /\ b >= StartBlock
BY ConstantsAssumption DEF SinkTypeOK

-----------------------------------------------------------------------------
\* The invariant holds at first.
LEMMA InitSinkInv == SinkInit => SinkInv
<1> SUFFICES ASSUME SinkInit PROVE SinkInv
  OBVIOUS
<1>1. SinkTypeOK
  <2>1. <<NoPackage, FALSE>> \in (Packages \cup {NoPackage}) \X BOOLEAN
    OBVIOUS
  <2>2. file \in [scope : (Packages \cup {NoPackage}) \X BOOLEAN, next : Nat,
                  lastCursor : Nat, lastTarget : Int]
    BY <2>1 DEF SinkInit, NoFile
  <2> QED
    BY <2>2 DEF SinkInit, SinkTypeOK, Phases
<1>2. LagRespected /\ WindowInBounds /\ TargetBehindLag /\ DrainedWhenSunk
  BY DEF SinkInit, LagRespected, WindowInBounds, TargetBehindLag, DrainedWhenSunk
<1>3. SavedRangeExhausted
  BY ConstantsAssumption DEF SinkInit, SavedRangeExhausted, NoFile
<1> QED
  BY <1>1, <1>2, <1>3 DEF SinkInv

\* A flush moves the cursor no further than the target of its run.
LEMMA SinkCommitStep ==
    ASSUME SinkInv, SinkCommit
    PROVE  SinkInv'
<1> DEFINE p == env.package
<1>1. p \in Packages
  BY ConstantsAssumption DEF SinkInv, SinkTypeOK, ValidEnvironment
<1>2. PICK b \in Pending(p) :
        /\ tables' = [tables EXCEPT ![p] = @ \cup {o \in Pending(p) : o <= b}]
        /\ cursors' = [cursors EXCEPT ![p] = b]
        /\ canon' = [canon EXCEPT ![p] = b]
  BY DEF SinkCommit
<1>3. /\ target \in Int
      /\ \A o \in output[p] : o \in Nat
  BY <1>1, OutputType DEF SinkInv, SinkTypeOK
<1>4. b \in Nat /\ b <= target
  BY <1>2, <1>3 DEF Pending, StopBlock
<1>5. SinkTypeOK'
  <2>1. {o \in Pending(p) : o <= b} \subseteq Nat
    BY <1>3 DEF Pending
  <2>2. tables' \in [Packages -> SUBSET Nat]
    BY <1>1, <1>2, <2>1 DEF SinkInv, SinkTypeOK
  <2> QED
    BY <1>1, <1>2, <1>4, <2>2 DEF SinkCommit, SinkInv, SinkTypeOK, chain, run, saved
<1>6. LagRespected'
  <2> SUFFICES ASSUME NEW q \in Packages
               PROVE  cursors'[q] > 0 => cursors'[q] + LagBlocks <= head
    BY DEF LagRespected, SinkCommit, chain
  <2>1. CASE q # p
    BY <2>1, <1>2 DEF SinkInv, SinkTypeOK, LagRespected
  <2>2. CASE q = p
    <3>1. cursors'[p] = b
      BY <1>1, <1>2 DEF SinkInv, SinkTypeOK
    <3>2. target + LagBlocks <= head /\ head \in Nat
      BY DEF SinkInv, SinkTypeOK, TargetBehindLag, SinkCommit
    <3> QED
      BY <2>2, <3>1, <3>2, <1>3, <1>4, ConstantsAssumption
  <2> QED
    BY <2>1, <2>2
<1>7. WindowInBounds' /\ SavedRangeExhausted' /\ TargetBehindLag' /\ DrainedWhenSunk'
  BY DEF SinkCommit, SinkInv, WindowInBounds, SavedRangeExhausted,
         TargetBehindLag, DrainedWhenSunk, run, chain, saved
<1> QED
  BY <1>5, <1>6, <1>7 DEF SinkInv

\* An undo moves the cursor back.
LEMMA UndoStep ==
    ASSUME SinkInv, SinkUndo
    PROVE  SinkInv'
<1> DEFINE p == env.package
<1>1. /\ p \in Packages
      /\ canon[p] \in Nat
      /\ cursors[p] \in Nat
      /\ canon[p] < cursors[p]
  BY ConstantsAssumption DEF SinkInv, SinkTypeOK, ValidEnvironment, SinkUndo
<1>2. /\ tables' = [tables EXCEPT ![p] = {b \in @ : b <= canon[p]}]
      /\ cursors' = [cursors EXCEPT ![p] = canon[p]]
      /\ canon' = canon
  BY DEF SinkUndo
<1>3. SinkTypeOK'
  BY <1>1, <1>2 DEF SinkUndo, SinkInv, SinkTypeOK, run, chain, saved
<1>4. LagRespected'
  BY <1>1, <1>2, ConstantsAssumption
     DEF SinkInv, SinkTypeOK, LagRespected, SinkUndo, chain
<1>5. WindowInBounds' /\ SavedRangeExhausted' /\ TargetBehindLag' /\ DrainedWhenSunk'
  BY DEF SinkUndo, SinkInv, WindowInBounds, SavedRangeExhausted,
         TargetBehindLag, DrainedWhenSunk, run, chain, saved
<1> QED
  BY <1>3, <1>4, <1>5 DEF SinkInv

(***************************************************************************)
(* A fork replaces no block up to valid, and whatever it replaces it takes *)
(* out of the scanned ranges.                                              *)
(***************************************************************************)
LEMMA ForkStep ==
    ASSUME SinkInv, NEW valid \in 0..(head - 1), Fork(valid)
    PROVE  SinkInv'
<1>1. /\ valid \in Nat /\ forks \in Nat
      /\ canon \in [Packages -> Nat]
      /\ kept \in Int /\ savedKept \in Int
  BY DEF SinkInv, SinkTypeOK
<1>2. /\ kept' \in Int /\ kept' <= kept /\ kept' <= valid
      /\ savedKept' \in Int /\ savedKept' <= savedKept /\ savedKept' <= valid
      /\ canon' \in [Packages -> Nat]
  BY <1>1 DEF Fork, Lowered
<1>3. /\ output' \in Outputs
      /\ \A p \in Packages :
           {b \in output'[p] : b <= valid} = {b \in output[p] : b <= valid}
  BY DEF Fork
<1>4. SinkTypeOK'
  BY <1>1, <1>2, <1>3 DEF Fork, SinkInv, SinkTypeOK
<1>5. \A p \in Packages : \A b \in output'[p] : b \in Nat
  BY <1>3, ConstantsAssumption
<1>6. \A p \in Packages : \A b \in output'[p] : b <= valid => b \in output[p]
  BY <1>3
<1>7. LagRespected' /\ WindowInBounds' /\ TargetBehindLag'
  BY DEF Fork, SinkInv, LagRespected, WindowInBounds, TargetBehindLag
<1>8. SavedRangeExhausted'
  <2> SUFFICES ASSUME NEW p \in Packages, file.scope[1] = p,
                      NEW b \in output'[p],
                      file.lastCursor < b, b <= file.lastTarget, b <= savedKept'
               PROVE  FALSE
    BY DEF SavedRangeExhausted, Fork
  <2>1. b <= valid /\ b <= savedKept
    BY <1>1, <1>2, <1>5
  <2>2. b \in output[p]
    BY <2>1, <1>6
  <2> QED
    BY <2>1, <2>2 DEF SinkInv, SavedRangeExhausted
<1>9. DrainedWhenSunk'
  <2> SUFFICES ASSUME phase = "sunk", NEW b \in Pending(env.package)', b <= kept'
               PROVE  FALSE
    <3>1. \A b \in Pending(env.package)' : b \in Int
      BY <1>4, ConstantsAssumption DEF Pending, Fork, SinkTypeOK, ValidEnvironment
    <3> QED
      BY <3>1, <1>2 DEF DrainedWhenSunk, Fork
  <2>1. env.package \in Packages
    BY ConstantsAssumption DEF SinkInv, SinkTypeOK, ValidEnvironment
  <2>2. /\ b \in output'[env.package]
        /\ b >= StartBlock /\ b > cursors[env.package] /\ b < StopBlock
    BY DEF Pending, StopBlock, Fork
  <2>3. b <= valid /\ b <= kept
    BY <2>1, <2>2, <1>1, <1>2, <1>5
  <2>4. b \in Pending(env.package)
    BY <2>1, <2>2, <2>3, <1>6 DEF Pending
  <2>5. b > kept
    BY <2>4 DEF SinkInv, DrainedWhenSunk
  <2>6. b \in Nat
    BY <2>1, <2>2, <1>5
  <2> QED
    BY <2>3, <2>5, <2>6, <1>1
<1> QED
  BY <1>4, <1>7, <1>8, <1>9 DEF SinkInv

\* A run starts with a window in bounds and a target behind the lag.
LEMMA LaunchStep ==
    ASSUME SinkInv, NEW latest \in 0..head, NEW c, Launch(latest, c)
    PROVE  SinkInv'
<1>1. SinkTypeOK
  BY DEF SinkInv
<1>2. c \in Nat /\ latest \in Nat /\ latest <= head /\ ResolvedStart(c) \in Nat
  BY <1>1, CursorBlockType, ConstantsAssumption DEF Launch, ResolvedStart, SinkTypeOK
<1>3. target' \in Int /\ target' + LagBlocks <= latest
  BY <1>1, <1>2, TargetBounds DEF Launch
<1>4. env.base \in Nat /\ env.ceiling \in Nat
  BY <1>1, ConstantsAssumption DEF SinkTypeOK, ValidEnvironment
<1>5. window' \in env.base..env.ceiling
  BY <1>1, EffectiveWindowBounds DEF Launch
<1>6. SinkTypeOK'
  BY <1>1, <1>2, <1>3, <1>4, <1>5 DEF Launch, SinkTypeOK, Phases, chain, database, saved
<1>7. LagRespected' /\ SavedRangeExhausted' /\ DrainedWhenSunk'
  BY DEF Launch, SinkInv, LagRespected, SavedRangeExhausted, DrainedWhenSunk,
         chain, database, saved
<1>8. WindowInBounds'
  BY <1>5 DEF Launch, WindowInBounds, database
<1>9. TargetBehindLag'
  BY <1>1, <1>2, <1>3, ConstantsAssumption DEF Launch, TargetBehindLag, SinkTypeOK, chain
<1> QED
  BY <1>6, <1>7, <1>8, <1>9 DEF SinkInv

\* The saved range was scanned to its end.
LEMMA SaveStep ==
    ASSUME SinkInv, NEW after, SaveWindow(after)
    PROVE  SinkInv'
<1>1. SinkTypeOK
  BY DEF SinkInv
<1>2. after \in Nat /\ after >= cursors[env.package]
  BY <1>1, CursorBlockType DEF SaveWindow
<1>3. env.package \in Packages /\ env.cursorId \in BOOLEAN /\ env.base \in Nat
  BY <1>1, ConstantsAssumption DEF SinkTypeOK, ValidEnvironment
<1>4. SinkTypeOK'
  BY <1>1, <1>2, <1>3, GrowType
     DEF SaveWindow, Exit, SinkTypeOK, Phases, Scope, chain, database
<1>5. /\ LagRespected' /\ WindowInBounds'
      /\ TargetBehindLag' /\ DrainedWhenSunk'
  BY DEF SaveWindow, Exit, SinkInv, LagRespected, WindowInBounds, TargetBehindLag,
         DrainedWhenSunk, chain, database
<1>6. SavedRangeExhausted'
  <2> SUFFICES \A b \in output[env.package] : ~(after < b /\ b <= target /\ b <= kept)
    BY DEF SaveWindow, Scope, SavedRangeExhausted, chain
  <2> SUFFICES ASSUME NEW b \in output[env.package], after < b, b <= target, b <= kept
               PROVE  FALSE
    OBVIOUS
  <2>1. /\ b \in Nat /\ b >= StartBlock
        /\ cursors[env.package] \in Nat /\ target \in Int /\ kept \in Int
    BY <1>1, <1>3, OutputType DEF SinkTypeOK
  <2>2. b \in Pending(env.package)
    BY <1>2, <2>1 DEF Pending, StopBlock
  <2>3. b > kept
    BY <2>2 DEF SaveWindow, SinkInv, DrainedWhenSunk
  <2> QED
    BY <2>1, <2>3
<1> QED
  BY <1>4, <1>5, <1>6 DEF SinkInv

\* The invariant is inductive.
LEMMA NextSinkInv == SinkInv /\ [SinkNext]_sinkVars => SinkInv'
<1> SUFFICES ASSUME SinkInv, [SinkNext]_sinkVars PROVE SinkInv'
  OBVIOUS
<1>1. CASE NewBlock
  BY <1>1, ConstantsAssumption
     DEF NewBlock, SinkInv, SinkTypeOK, LagRespected, WindowInBounds, SavedRangeExhausted,
         TargetBehindLag, DrainedWhenSunk, Pending, StopBlock, run, database, saved
<1>2. ASSUME NEW e \in Environments, Deploy(e) PROVE SinkInv'
  BY <1>2 DEF Deploy, SinkInv, SinkTypeOK, LagRespected, WindowInBounds,
              SavedRangeExhausted, TargetBehindLag, DrainedWhenSunk,
              run, chain, database, saved
<1>3. ASSUME NEW latest \in 0..head, NEW c \in CursorBlocks, Launch(latest, c)
      PROVE  SinkInv'
  BY <1>3, LaunchStep
<1>4. CASE SinkCommit
  BY <1>4, SinkCommitStep
<1>5. CASE SinkUndo
  BY <1>5, UndoStep
<1>6. CASE SinkDone
  BY <1>6 DEF SinkDone, SinkInv, SinkTypeOK, Phases, LagRespected, WindowInBounds,
              SavedRangeExhausted, TargetBehindLag, DrainedWhenSunk,
              Pending, StopBlock, chain, database, saved
<1>7. CASE Abort
  BY <1>7 DEF Abort, Exit, SinkInv, SinkTypeOK, Phases, LagRespected, WindowInBounds,
              SavedRangeExhausted, TargetBehindLag, DrainedWhenSunk,
              chain, database, saved
<1>8. ASSUME NEW c \in CursorBlocks, SaveWindow(c) PROVE SinkInv'
  BY <1>8, SaveStep
<1>9. ASSUME NEW c \in CursorBlocks, RefuseBackwardsCursor(c) PROVE SinkInv'
  BY <1>9 DEF RefuseBackwardsCursor, Exit, SinkInv, SinkTypeOK, Phases, LagRespected,
              WindowInBounds, SavedRangeExhausted, TargetBehindLag,
              DrainedWhenSunk, chain, database, saved
<1>10. CASE UNCHANGED sinkVars
  BY <1>10 DEF sinkVars, SinkInv, SinkTypeOK, LagRespected, WindowInBounds,
               SavedRangeExhausted, TargetBehindLag, DrainedWhenSunk, Pending, StopBlock
<1>11. ASSUME NEW valid \in 0..(head - 1), Fork(valid) PROVE SinkInv'
  BY <1>11, ForkStep
<1> QED
  BY <1>1, <1>2, <1>3, <1>4, <1>5, <1>6, <1>7, <1>8, <1>9, <1>10, <1>11 DEF SinkNext

(***************************************************************************)
(* The wrapper's inductive invariant holds in every reachable state.       *)
(***************************************************************************)
THEOREM SinkInvariance == SinkSpec => []SinkInv
<1>1. SinkInit => SinkInv
  BY InitSinkInv
<1>2. SinkInv /\ [SinkNext]_sinkVars => SinkInv'
  BY NextSinkInv
<1> QED
  BY <1>1, <1>2, PTL DEF SinkSpec

(***************************************************************************)
(* Type correctness of the driver, its files and the cursors table.        *)
(***************************************************************************)
THEOREM TypeCorrect == SinkSpec => []SinkTypeOK
<1>1. SinkInv => SinkTypeOK
  BY DEF SinkInv
<1> QED
  BY <1>1, SinkInvariance, PTL

(***************************************************************************)
(* The cursor stays LATEST_LAG_BLOCKS behind the head; the window keeps to *)
(* its bounds; the saved range holds no output.                            *)
(***************************************************************************)
THEOREM WindowsAreSafe == SinkSpec => []WindowsSafe
<1>1. SinkInv => WindowsSafe
  BY DEF SinkInv, WindowsSafe
<1> QED
  BY <1>1, SinkInvariance, PTL

-----------------------------------------------------------------------------
(***************************************************************************)
(* The inductive invariant.  That the tables are those of the cursor says  *)
(* nothing of the records that will restore an earlier block; what does:   *)
(* a record holds what its block did to its row (RecordsFit), only one of  *)
(* them (OnePerRow), and where there is none the row stayed as it was      *)
(* (Untouched).  Within an undo, the records already reverted are newer    *)
(* than those left (UndoInOrder), none of a valid block is among them, and *)
(* a row whose records above b are the reverted ones is back at b.         *)
(***************************************************************************)
RecordsFit ==
    \A e \in history :
        /\ lib < e.block
        /\ e.block <= cursor
        /\ e.prev = past[e.block - 1][e.key]
        /\ e.op = OpOf(past[e.block - 1][e.key], past[e.block][e.key])
        /\ past[e.block - 1][e.key] = Absent => past[e.block][e.key] # Absent

OnePerRow == \A d, e \in history : d.key = e.key /\ d.block = e.block => d = e

Untouched ==
    \A k \in Keys : \A a, b \in lib..cursor :
        /\ a <= b
        /\ \A e \in history : e.key = k => ~(a < e.block /\ e.block <= b)
        => past[a][k] = past[b][k]

HistoryFits == RecordsFit /\ OnePerRow /\ Untouched

UndoInOrder ==
    /\ undo.left \subseteq history
    /\ lib <= undo.to /\ undo.to < cursor
    /\ \A d \in history : d.block <= undo.to => d \in undo.left
    /\ \A d \in history, e \in undo.left : d \in undo.left \/ e.block <= d.block

RevertedTo(k, b) == \A d \in history : d.key = k => (d \in undo.left <=> d.block <= b)

RowsReverted ==
    \A k \in Keys : \A b \in undo.to..cursor :
        RevertedTo(k, b) => undo.rows[k] = past[b][k]

UndoFits == undo.open => UndoInOrder /\ RowsReverted

IInv ==
    /\ TypeOK
    /\ RowsAreOfCursor
    /\ HistoryFits
    /\ UndoFits

\* The invariant holds at first.
LEMMA InitIInv == Init => IInv
<1> SUFFICES ASSUME Init PROVE IInv
  OBVIOUS
<1> USE TableAssumption
<1>1. TypeOK
  BY DEF Init, TableInit, TypeOK, NoUndo, NoRows, Tables, Contents, Entries
<1>2. RowsAreOfCursor
  BY DEF Init, TableInit, RowsAreOfCursor
<1>3. HistoryFits
  BY DEF Init, TableInit, HistoryFits, RecordsFit, OnePerRow, Untouched
<1>4. UndoFits
  BY DEF Init, UndoFits, NoUndo
<1> QED
  BY <1>1, <1>2, <1>3, <1>4 DEF IInv

-----------------------------------------------------------------------------
(***************************************************************************)
(* A record above the undo's target that is newest among those left finds  *)
(* its row as the record's block left it, and puts back what was before.   *)
(***************************************************************************)
LEMMA NewestFindsItsRow ==
    ASSUME IInv, undo.open, NEW e \in undo.left, e.block > undo.to, Newest(e)
    PROVE  /\ e \in history
           /\ undo.rows[e.key] = past[e.block][e.key]
           /\ e.op = "D" <=> undo.rows[e.key] = Absent
           /\ Reversed(e, undo.rows[e.key]) = past[e.block - 1][e.key]
<1>1. /\ UndoInOrder /\ RowsReverted
      /\ RecordsFit /\ OnePerRow
  BY DEF IInv, UndoFits, HistoryFits
<1>2. e \in history
  BY <1>1 DEF UndoInOrder
<1>3. /\ history \subseteq Entries
      /\ undo.to \in Nat /\ cursor \in Nat
      /\ e \in Entries /\ e.block \in Nat
  BY <1>2, TableAssumption DEF IInv, TypeOK, Entries
<1>4. e.block \in undo.to..cursor
  BY <1>1, <1>2, <1>3 DEF RecordsFit
<1>5. RevertedTo(e.key, e.block)
  <2> SUFFICES ASSUME NEW d \in history, d.key = e.key
               PROVE  d \in undo.left <=> d.block <= e.block
    BY DEF RevertedTo
  <2>1. d.block \in Nat
    BY <1>3 DEF Entries
  <2>2. ASSUME d \in undo.left PROVE d.block <= e.block
    BY <2>2 DEF Newest
  <2>3. ASSUME d.block <= e.block PROVE d \in undo.left
    <3>1. CASE d.block = e.block
      BY <3>1, <1>1, <1>2 DEF OnePerRow
    <3>2. CASE d.block < e.block
      BY <3>2, <2>1, <1>1, <1>3 DEF UndoInOrder
    <3> QED
      BY <2>1, <2>3, <3>1, <3>2, <1>3
  <2> QED
    BY <2>2, <2>3
<1>6. e.key \in Keys
  BY <1>3 DEF Entries
<1>7. undo.rows[e.key] = past[e.block][e.key]
  BY <1>1, <1>4, <1>5, <1>6 DEF RowsReverted
<1>8. /\ e.prev = past[e.block - 1][e.key]
      /\ e.op = OpOf(past[e.block - 1][e.key], past[e.block][e.key])
      /\ past[e.block - 1][e.key] = Absent => past[e.block][e.key] # Absent
  BY <1>1, <1>2 DEF RecordsFit
<1>9. e.op = "D" <=> undo.rows[e.key] = Absent
  BY <1>7, <1>8 DEF OpOf
<1>10. Reversed(e, undo.rows[e.key]) = past[e.block - 1][e.key]
  BY <1>7, <1>8 DEF OpOf, Reversed
<1> QED
  BY <1>2, <1>7, <1>9, <1>10

-----------------------------------------------------------------------------
(***************************************************************************)
(* The next block: its tables, its records, and what they relate to.       *)
(***************************************************************************)
LEMMA CommitStep ==
    ASSUME IInv, NEW touched \in SUBSET Keys, NEW new \in [touched -> Contents],
           NEW final \in lib..(cursor + 1), Commit(touched, new, final)
    PROVE  IInv'
<1> USE TableAssumption
<1>1. /\ cursor \in 0..MaxBlock /\ cursor' = cursor + 1 /\ cursor + 1 \in 0..MaxBlock
      /\ lib \in 0..cursor /\ lib' = final
      /\ rows \in Tables /\ past \in [0..MaxBlock -> Tables]
      /\ history \subseteq Entries
      /\ rows = past[cursor]
      /\ ~undo.open /\ undo' = undo
  BY DEF IInv, TypeOK, Commit, RowsAreOfCursor
<1>2. /\ rows' = [k \in Keys |-> IF k \in touched THEN new[k] ELSE rows[k]]
      /\ rows' \in Tables
      /\ past' = [past EXCEPT ![cursor + 1] = rows']
      /\ past' \in [0..MaxBlock -> Tables]
  BY <1>1 DEF Commit, Tables
<1>3. /\ past'[cursor + 1] = rows'
      /\ \A b \in 0..cursor : past'[b] = past[b]
  BY <1>1, <1>2
<1>4. /\ history' = Retained(history \cup Records(touched, new), final)
      /\ Changes(touched, new)
  BY DEF Commit
<1>5. ASSUME NEW e \in history'
      PROVE  /\ e.block > final
             /\ e \in history \/ e \in Records(touched, new)
  BY <1>4, <1>5 DEF Retained
<1>6. ASSUME NEW e \in Records(touched, new)
      PROVE  /\ e \in Entries
             /\ e.key \in touched
             /\ e.block = cursor + 1
             /\ e.prev = rows[e.key]
             /\ e.op = OpOf(rows[e.key], rows'[e.key])
             /\ rows[e.key] = Absent => rows'[e.key] # Absent
  <2>1. PICK k \in touched : e = [op |-> OpOf(rows[k], new[k]), key |-> k,
                                 prev |-> rows[k], block |-> cursor + 1]
    BY <1>6 DEF Records
  <2>2. /\ e.op = OpOf(rows[k], new[k]) /\ e.key = k
        /\ e.prev = rows[k] /\ e.block = cursor + 1
    BY <2>1
  <2>3. rows'[k] = new[k] /\ rows[k] \in Contents
    BY <1>1, <1>2 DEF Tables
  <2>4. OpOf(rows[k], new[k]) \in Ops
    BY DEF OpOf, Ops
  <2>5. cursor + 1 \in 1..MaxBlock
    BY <1>1
  <2>6. e \in Entries
    BY <2>1, <2>3, <2>4, <2>5 DEF Entries
  <2>7. rows[k] = Absent => new[k] # Absent
    BY <1>4 DEF Changes
  <2> QED
    BY <2>2, <2>3, <2>6, <2>7
<1>7. TypeOK'
  <2>1. history' \in SUBSET Entries
    BY <1>1, <1>5, <1>6
  <2>2. final \in 0..(cursor + 1)
    BY <1>1
  <2>3. undo \in [open : BOOLEAN, to : 0..MaxBlock, rows : Tables, left : SUBSET Entries]
    BY DEF IInv, TypeOK
  <2> QED
    BY <1>1, <1>2, <2>1, <2>2, <2>3 DEF TypeOK
<1>8. RowsAreOfCursor'
  BY <1>1, <1>3 DEF RowsAreOfCursor
<1>9. RecordsFit'
  <2> SUFFICES ASSUME NEW e \in history'
               PROVE  /\ lib' < e.block
                      /\ e.block <= cursor'
                      /\ e.prev = past'[e.block - 1][e.key]
                      /\ e.op = OpOf(past'[e.block - 1][e.key], past'[e.block][e.key])
                      /\ past'[e.block - 1][e.key] = Absent => past'[e.block][e.key] # Absent
    BY DEF RecordsFit
  <2>1. CASE e \in history
    <3>1. e.block \in 1..cursor
      BY <2>1, <1>1 DEF IInv, HistoryFits, RecordsFit, Entries
    <3>2. past'[e.block] = past[e.block] /\ past'[e.block - 1] = past[e.block - 1]
      BY <3>1, <1>1, <1>3
    <3> QED
      BY <2>1, <3>1, <3>2, <1>1, <1>5 DEF IInv, HistoryFits, RecordsFit
  <2>2. CASE e \in Records(touched, new)
    <3>1. e.block = cursor + 1 /\ e.block - 1 = cursor
      BY <2>2, <1>1, <1>6
    <3>2. past'[cursor] = rows
      BY <1>1, <1>3
    <3> QED
      BY <2>2, <3>1, <3>2, <1>1, <1>3, <1>5, <1>6
  <2> QED
    BY <2>1, <2>2, <1>5
<1>10. OnePerRow'
  <2> SUFFICES ASSUME NEW d \in history', NEW e \in history', d.key = e.key, d.block = e.block
               PROVE  d = e
    BY DEF OnePerRow
  <2>1. \A h \in history : h.block <= cursor /\ h.block \in Nat
    BY <1>1 DEF IInv, HistoryFits, RecordsFit, Entries
  <2>2. CASE d \in history
    BY <2>1, <2>2, <1>1, <1>5, <1>6 DEF IInv, HistoryFits, OnePerRow
  <2>3. CASE d \in Records(touched, new) /\ e \in Records(touched, new)
    BY <2>3 DEF Records
  <2>4. CASE d \in Records(touched, new) /\ e \in history
    BY <2>1, <2>4, <1>1, <1>6
  <2> QED
    BY <2>2, <2>3, <2>4, <1>5
<1>11. Untouched'
  <2> SUFFICES ASSUME NEW k \in Keys, NEW a \in lib'..cursor', NEW b \in lib'..cursor', a <= b,
                      \A e \in history' : e.key = k => ~(a < e.block /\ e.block <= b)
               PROVE  past'[a][k] = past'[b][k]
    BY DEF Untouched
  <2>1. a \in Nat /\ b \in Nat /\ lib <= a /\ final <= a /\ b <= cursor + 1
    BY <1>1
  <2>2. ASSUME NEW m \in lib..cursor, a <= m, m <= b
        PROVE  past[a][k] = past[m][k]
    <3>1. a \in lib..cursor
      BY <2>1, <2>2, <1>1
    <3>2. ASSUME NEW e \in history, e.key = k, a < e.block, e.block <= m
          PROVE  FALSE
      <4>1. e.block \in Nat
        BY <1>1 DEF Entries
      <4>2. e \in history'
        BY <4>1, <2>1, <3>2, <1>1, <1>4 DEF Retained
      <4> QED
        BY <4>1, <4>2, <3>2, <2>1, <2>2, <1>1
    <3> QED
      BY <2>2, <3>1, <3>2 DEF IInv, HistoryFits, Untouched
  <2>3. CASE b <= cursor
    BY <2>1, <2>2, <2>3, <1>1, <1>3
  <2>4. CASE b = cursor + 1 /\ a <= cursor
    <3>1. past[a][k] = past[cursor][k]
      BY <2>1, <2>2, <2>4, <1>1
    <3>2. k \notin touched
      <4> SUFFICES ASSUME k \in touched PROVE FALSE
        OBVIOUS
      <4> DEFINE r == [op |-> OpOf(rows[k], new[k]), key |-> k, prev |-> rows[k], block |-> cursor + 1]
      <4>1. r \in Records(touched, new)
        BY DEF Records
      <4>2. r.block = cursor + 1 /\ r.key = k
        OBVIOUS
      <4>3. r \in history'
        BY <4>1, <4>2, <2>1, <2>4, <1>1, <1>4 DEF Retained
      <4> QED
        BY <4>2, <4>3, <2>1, <2>4, <1>1
    <3>3. rows'[k] = rows[k]
      BY <3>2, <1>2
    <3> QED
      BY <3>1, <3>3, <2>1, <2>4, <1>1, <1>3
  <2>5. CASE a = cursor + 1
    BY <2>1, <2>5, <1>1
  <2> QED
    BY <2>1, <2>3, <2>4, <2>5, <1>1
<1>12. UndoFits'
  BY <1>1 DEF UndoFits
<1> QED
  BY <1>7, <1>8, <1>9, <1>10, <1>11, <1>12 DEF IInv, HistoryFits

-----------------------------------------------------------------------------
\* The begin of an undo keeps the invariant.
LEMMA BeginUndoStep ==
    ASSUME IInv, NEW v \in 0..MaxBlock, BeginUndo(v)
    PROVE  IInv'
<1> USE TableAssumption
<1>1. /\ lib <= v /\ v < cursor
      /\ undo' = [open |-> TRUE, to |-> v, rows |-> rows, left |-> history]
      /\ UNCHANGED committed
  BY DEF BeginUndo
<1>2. /\ undo'.to = v /\ undo'.rows = rows /\ undo'.left = history
  BY <1>1
<1>3. /\ lib \in Nat /\ cursor \in Nat /\ history \subseteq Entries
      /\ rows = past[cursor]
  BY DEF IInv, TypeOK, RowsAreOfCursor
<1>4. TypeOK' /\ RowsAreOfCursor' /\ HistoryFits'
  BY <1>1 DEF committed, IInv, TypeOK, RowsAreOfCursor, HistoryFits, RecordsFit, OnePerRow, Untouched
<1>5. UndoInOrder'
  BY <1>1, <1>2 DEF committed, UndoInOrder
<1>6. RowsReverted'
  <2> SUFFICES ASSUME NEW k \in Keys, NEW b \in v..cursor, RevertedTo(k, b)'
               PROVE  rows[k] = past[b][k]
    BY <1>1, <1>2 DEF committed, RowsReverted
  <2>1. b \in lib..cursor /\ cursor \in lib..cursor /\ b <= cursor
    BY <1>1, <1>3
  <2>2. \A e \in history : e.key = k => ~(b < e.block /\ e.block <= cursor)
    <3>1. \A e \in history : e.key = k => e.block <= b
      BY <1>1, <1>2 DEF committed, RevertedTo
    <3> QED
      BY <3>1, <1>3, <2>1 DEF Entries
  <2> QED
    BY <2>1, <2>2, <1>3 DEF IInv, HistoryFits, Untouched
<1> QED
  BY <1>4, <1>5, <1>6 DEF IInv, UndoFits

(***************************************************************************)
(* One record reverted: its row is back before the record's block, and so  *)
(* at every earlier block none of the records left is above.               *)
(***************************************************************************)
LEMMA ReverseStep ==
    ASSUME IInv, NEW e \in undo.left, Reverse(e)
    PROVE  IInv'
<1> USE TableAssumption
<1>1. /\ undo.open /\ e.block > undo.to /\ Newest(e)
      /\ undo' = [undo EXCEPT !.rows[e.key] = Reversed(e, @), !.left = @ \ {e}]
      /\ UNCHANGED committed
  BY DEF Reverse
<1>2. /\ UndoInOrder /\ RowsReverted
      /\ HistoryFits /\ TypeOK
  BY <1>1 DEF IInv, UndoFits
<1>3. /\ e \in history /\ e \in Entries
      /\ lib \in Nat /\ cursor \in Nat /\ undo.to \in Nat
      /\ history \subseteq Entries
      /\ past \in [0..MaxBlock -> Tables]
      /\ undo \in [open : BOOLEAN, to : 0..MaxBlock, rows : Tables, left : SUBSET Entries]
  BY <1>2 DEF TypeOK, UndoInOrder
<1>4. /\ e.key \in Keys /\ e.block \in Nat
      /\ lib < e.block /\ e.block <= cursor
  BY <1>2, <1>3 DEF Entries, HistoryFits, RecordsFit
<1>5. Reversed(e, undo.rows[e.key]) = past[e.block - 1][e.key]
  BY <1>1, NewestFindsItsRow
<1>6. /\ undo'.open /\ undo'.to = undo.to
      /\ undo'.left = undo.left \ {e}
      /\ undo'.rows = [undo.rows EXCEPT ![e.key] = past[e.block - 1][e.key]]
  BY <1>1, <1>3, <1>5
<1>7. undo'.rows \in Tables
  <2>1. e.block - 1 \in 0..MaxBlock
    BY <1>3, <1>4 DEF Entries
  <2>2. past[e.block - 1][e.key] \in Contents
    BY <2>1, <1>3, <1>4 DEF Tables
  <2> QED
    BY <2>2, <1>3, <1>6 DEF Tables
<1>8. TypeOK'
  <2>1. undo' \in [open : BOOLEAN, to : 0..MaxBlock, rows : Tables, left : SUBSET Entries]
    <3>1. /\ undo'.open \in BOOLEAN /\ undo'.to \in 0..MaxBlock /\ undo'.left \in SUBSET Entries
      BY <1>3, <1>6
    <3>2. undo' = [open |-> undo'.open, to |-> undo'.to, rows |-> undo'.rows, left |-> undo'.left]
      BY <1>1, <1>3
    <3> QED
      BY <3>1, <3>2, <1>7
  <2> QED
    BY <2>1, <1>1, <1>2 DEF committed, TypeOK
<1>9. RowsAreOfCursor' /\ HistoryFits'
  BY <1>1 DEF committed, IInv, RowsAreOfCursor, HistoryFits, RecordsFit, OnePerRow, Untouched
<1>10. UndoInOrder'
  <2>1. \A d \in history : d.block <= undo.to => d \in undo'.left
    BY <1>1, <1>2, <1>3, <1>4, <1>6 DEF UndoInOrder
  <2>2. \A d \in history, f \in undo'.left : d \in undo'.left \/ f.block <= d.block
    BY <1>1, <1>2, <1>6 DEF UndoInOrder, Newest
  <2> QED
    BY <2>1, <2>2, <1>1, <1>2, <1>6 DEF committed, UndoInOrder
<1>11. RowsReverted'
  <2> SUFFICES ASSUME NEW k \in Keys, NEW b \in undo.to..cursor,
                      \A d \in history : d.key = k => (d \in undo'.left <=> d.block <= b)
               PROVE  undo'.rows[k] = past[b][k]
    BY <1>1, <1>6 DEF committed, RowsReverted, RevertedTo
  <2>1. CASE k # e.key
    <3>1. RevertedTo(k, b)
      BY <2>1, <1>6 DEF RevertedTo
    <3>2. undo'.rows[k] = undo.rows[k]
      BY <2>1, <1>3, <1>6 DEF Tables
    <3> QED
      BY <3>1, <3>2, <1>2 DEF RowsReverted
  <2>2. CASE k = e.key
    <3>1. b < e.block
      BY <2>2, <1>3, <1>4, <1>6
    <3>2. undo'.rows[k] = past[e.block - 1][k]
      BY <2>2, <1>3, <1>4, <1>6 DEF Tables
    <3>3. ASSUME NEW d \in history, d.key = k
          PROVE  ~(b < d.block /\ d.block <= e.block - 1)
      <4>1. d.block \in Nat
        BY <1>3 DEF Entries
      <4>2. CASE d \in undo.left
        BY <3>3, <4>1, <4>2, <1>4, <1>6
      <4>3. CASE d \notin undo.left
        BY <4>1, <4>3, <1>2, <1>4 DEF UndoInOrder
      <4> QED
        BY <4>2, <4>3
    <3>4. b \in lib..cursor /\ e.block - 1 \in lib..cursor /\ b <= e.block - 1
      BY <3>1, <1>2, <1>3, <1>4 DEF UndoInOrder
    <3>5. past[b][k] = past[e.block - 1][k]
      BY <3>3, <3>4, <1>2 DEF HistoryFits, Untouched
    <3> QED
      BY <3>2, <3>5
  <2> QED
    BY <2>1, <2>2
<1> QED
  BY <1>8, <1>9, <1>10, <1>11 DEF IInv, UndoFits

\* The transaction that ends an undo has the tables of its target.
LEMMA UndoneRows ==
    ASSUME IInv, CommitUndo
    PROVE  /\ undo.to \in lib..cursor /\ undo.to < cursor
           /\ undo.rows = past[undo.to]
<1>1. /\ undo.open /\ UndoInOrder /\ RowsReverted
      /\ \A e \in undo.left : e.block <= undo.to
  BY DEF IInv, UndoFits, CommitUndo
<1>2. /\ lib \in Nat /\ cursor \in Nat /\ undo.to \in 0..MaxBlock
      /\ undo.rows \in Tables /\ past[undo.to] \in Tables
  BY TableAssumption DEF IInv, TypeOK
<1>3. undo.to \in lib..cursor /\ undo.to \in undo.to..cursor /\ undo.to < cursor
  BY <1>1, <1>2 DEF UndoInOrder
<1>4. ASSUME NEW k \in Keys PROVE undo.rows[k] = past[undo.to][k]
  <2>1. RevertedTo(k, undo.to)
    BY <1>1 DEF RevertedTo, UndoInOrder
  <2> QED
    BY <2>1, <1>1, <1>3 DEF RowsReverted
<1>5. undo.rows = past[undo.to]
  BY <1>2, <1>4 DEF Tables
<1> QED
  BY <1>3, <1>5

\* Its commit keeps the invariant.
LEMMA CommitUndoStep ==
    ASSUME IInv, CommitUndo
    PROVE  IInv'
<1> USE TableAssumption
<1> DEFINE v == undo.to
<1>1. /\ rows' = undo.rows /\ cursor' = v /\ lib' = lib
      /\ past' = [b \in 0..MaxBlock |-> IF b <= v THEN past[b] ELSE NoRows]
      /\ history' = ValidHistory(v)
      /\ undo' = NoUndo
  BY DEF CommitUndo
<1>2. v \in lib..cursor /\ v < cursor /\ undo.rows = past[v]
  BY UndoneRows
<1>3. /\ HistoryFits
      /\ lib \in 0..cursor /\ cursor \in 0..MaxBlock /\ v \in 0..MaxBlock
      /\ history \subseteq Entries
      /\ past \in [0..MaxBlock -> Tables] /\ undo.rows \in Tables
  BY DEF IInv, TypeOK
<1>4. \A b \in 0..v : past'[b] = past[b]
  BY <1>1, <1>2, <1>3
<1>5. NoRows \in Tables
  BY DEF NoRows, Tables, Contents
<1>6. /\ history' \subseteq history
      /\ \A e \in history' : e.block <= v
      /\ \A e \in history : e.block <= v => e \in history'
  BY <1>1 DEF ValidHistory
<1> HIDE DEF v
<1>7. TypeOK'
  <2>1. past' \in [0..MaxBlock -> Tables]
    BY <1>1, <1>3, <1>5
  <2>2. undo' \in [open : BOOLEAN, to : 0..MaxBlock, rows : Tables, left : SUBSET Entries]
    BY <1>1, <1>3, <1>5 DEF NoUndo
  <2>3. lib' \in 0..cursor' /\ cursor' \in 0..MaxBlock
    BY <1>1, <1>2, <1>3
  <2> QED
    BY <2>1, <2>2, <2>3, <1>1, <1>3, <1>6 DEF TypeOK
<1>8. RowsAreOfCursor'
  BY <1>1, <1>2, <1>3, <1>4 DEF RowsAreOfCursor
<1>9. RecordsFit'
  <2> SUFFICES ASSUME NEW e \in history'
               PROVE  /\ lib' < e.block
                      /\ e.block <= cursor'
                      /\ e.prev = past'[e.block - 1][e.key]
                      /\ e.op = OpOf(past'[e.block - 1][e.key], past'[e.block][e.key])
                      /\ past'[e.block - 1][e.key] = Absent => past'[e.block][e.key] # Absent
    BY DEF RecordsFit
  <2>1. e \in history /\ e.block \in 1..v
    BY <1>3, <1>6 DEF Entries
  <2>2. past'[e.block] = past[e.block] /\ past'[e.block - 1] = past[e.block - 1]
    BY <2>1, <1>3, <1>4
  <2> QED
    BY <2>1, <2>2, <1>1, <1>3 DEF HistoryFits, RecordsFit
<1>10. OnePerRow'
  BY <1>3, <1>6 DEF HistoryFits, OnePerRow
<1>11. Untouched'
  <2> SUFFICES ASSUME NEW k \in Keys, NEW a \in lib'..cursor', NEW b \in lib'..cursor', a <= b,
                      \A e \in history' : e.key = k => ~(a < e.block /\ e.block <= b)
               PROVE  past'[a][k] = past'[b][k]
    BY DEF Untouched
  <2>1. a \in lib..cursor /\ b \in lib..cursor /\ a \in 0..v /\ b \in 0..v
    BY <1>1, <1>2, <1>3
  <2>2. ASSUME NEW e \in history, e.key = k, a < e.block, e.block <= b
        PROVE  FALSE
    <3>1. e.block \in Nat
      BY <1>3 DEF Entries
    <3>2. e \in history'
      BY <3>1, <2>1, <2>2, <1>3, <1>6
    <3> QED
      BY <3>2, <2>2
  <2>3. past[a][k] = past[b][k]
    BY <2>1, <2>2, <1>3 DEF HistoryFits, Untouched
  <2> QED
    BY <2>1, <2>3, <1>4
<1>12. UndoFits'
  BY <1>1 DEF UndoFits, NoUndo
<1> QED
  BY <1>7, <1>8, <1>9, <1>10, <1>11, <1>12 DEF IInv, HistoryFits

\* A crash keeps the invariant.
LEMMA CrashStep ==
    ASSUME IInv, Crash
    PROVE  IInv'
<1>1. undo' = NoUndo /\ UNCHANGED committed
  BY DEF Crash
<1>2. NoUndo \in [open : BOOLEAN, to : 0..MaxBlock, rows : Tables, left : SUBSET Entries]
  BY TableAssumption DEF NoUndo, NoRows, Tables, Contents
<1>3. TypeOK'
  BY <1>1, <1>2 DEF IInv, TypeOK, committed
<1>4. RowsAreOfCursor' /\ HistoryFits'
  BY <1>1 DEF committed, IInv, RowsAreOfCursor, HistoryFits, RecordsFit, OnePerRow, Untouched
<1>5. UndoFits'
  BY <1>1 DEF UndoFits, NoUndo
<1> QED
  BY <1>3, <1>4, <1>5 DEF IInv

\* The invariant is inductive.
LEMMA NextIInv == IInv /\ [Next]_vars => IInv'
<1> SUFFICES ASSUME IInv, [Next]_vars PROVE IInv'
  OBVIOUS
<1>1. CASE UNCHANGED vars
  BY <1>1 DEF vars, IInv, TypeOK, RowsAreOfCursor, HistoryFits, RecordsFit, OnePerRow, Untouched,
              UndoFits, UndoInOrder, RowsReverted, RevertedTo
<1> QED
  BY <1>1, CommitStep, BeginUndoStep, ReverseStep, CommitUndoStep, CrashStep DEF Next

-----------------------------------------------------------------------------
\* The invariant holds of every reachable state of the sink.
THEOREM Invariance == Spec => []IInv
BY InitIInv, NextIInv, PTL DEF Spec

(***************************************************************************)
(* Through every commit, undo and crash the tables are those of the block  *)
(* that the cursor names.                                                  *)
(***************************************************************************)
THEOREM RowsRestored == Spec => []RowsAreOfCursor
<1>1. IInv => RowsAreOfCursor
  BY DEF IInv
<1> QED
  BY <1>1, Invariance, PTL

(***************************************************************************)
(* No record to be reverted meets its row in a state that makes the undo   *)
(* transaction fail or do nothing.                                         *)
(***************************************************************************)
THEOREM UndoNeverFails == Spec => []NeverConflicts
<1>1. IInv => NeverConflicts
  BY NewestFindsItsRow DEF NeverConflicts
<1> QED
  BY <1>1, Invariance, PTL

\* A set of naturals has a least one.
LEMMA Smallest ==
    ASSUME NEW T, T \subseteq Nat, T # {}
    PROVE  \E n \in T : \A m \in T : n <= m
<1> DEFINE R == OpToRel(<, Nat)
<1>1. \A m, n \in Nat : m < n => <<m, n>> \in R
  BY DEF OpToRel
<1>2. IsWellFoundedOn(R, Nat)
  BY NatLessThanWellFounded
<1> HIDE DEF R
<1>3. PICK n \in T : \A m \in T : ~(<<m, n>> \in R)
  BY <1>2, WFMin
<1>4. ASSUME NEW m \in T PROVE n <= m
  <2>1. m \in Nat /\ n \in Nat
    OBVIOUS
  <2>2. ~(<<m, n>> \in R)
    BY <1>3
  <2>3. ~(m < n)
    BY <2>1, <2>2, <1>1, Zenon
  <2> QED
    BY <2>1, <2>3
<1> QED
  BY <1>4

(***************************************************************************)
(* Of every block that may still be undone, the records above it hold what *)
(* the tables were.                                                        *)
(***************************************************************************)
LEMMA IInvReaches == IInv => HistoryReachesLib
<1> SUFFICES ASSUME IInv, NEW v \in lib..cursor, NEW k \in Keys
             PROVE  LET later == {e \in history : e.key = k /\ e.block > v}
                    IN  \/ later = {} /\ rows[k] = past[v][k]
                        \/ \E e \in later : e.prev = past[v][k] /\ \A d \in later : e.block <= d.block
  BY DEF HistoryReachesLib
<1> DEFINE later == {e \in history : e.key = k /\ e.block > v}
<1>1. /\ HistoryFits /\ history \subseteq Entries
      /\ lib \in Nat /\ cursor \in Nat /\ v \in Nat
      /\ rows = past[cursor]
  BY TableAssumption DEF IInv, TypeOK, RowsAreOfCursor
<1>2. ASSUME NEW m \in v..cursor, \A e \in later : e.block > m
      PROVE  past[v][k] = past[m][k]
  <2>1. v \in lib..cursor /\ m \in lib..cursor /\ v <= m
    BY <1>1
  <2>2. ASSUME NEW e \in history, e.key = k PROVE ~(v < e.block /\ e.block <= m)
    <3>1. e.block \in Nat
      BY <1>1 DEF Entries
    <3> QED
      BY <3>1, <2>1, <2>2, <1>1, <1>2
  <2> QED
    BY <2>1, <2>2, <1>1 DEF HistoryFits, Untouched
<1>3. CASE later = {}
  <2>1. cursor \in v..cursor
    BY <1>1
  <2> QED
    BY <2>1, <1>1, <1>2, <1>3
<1>4. CASE later # {}
  <2> DEFINE blocks == {e.block : e \in later}
  <2>1. blocks \subseteq Nat /\ blocks # {}
    BY <1>1, <1>4 DEF Entries
  <2>2. PICK n \in blocks : \A m \in blocks : n <= m
    <3> HIDE DEF blocks
    <3> QED
      BY <2>1, Smallest
  <2>4. PICK e \in later : e.block = n
    OBVIOUS
  <2>5. e.block \in Nat /\ e.block > v /\ e.block <= cursor /\ e.prev = past[e.block - 1][k]
    BY <1>1 DEF Entries, HistoryFits, RecordsFit
  <2>6. \A d \in later : e.block <= d.block
    BY <2>2, <2>4
  <2>7. /\ e.block - 1 \in v..cursor
        /\ \A d \in later : d.block > e.block - 1
    <3>1. \A d \in later : d.block \in Nat
      BY <1>1 DEF Entries
    <3> QED
      BY <3>1, <2>5, <2>6, <1>1
  <2>8. past[v][k] = past[e.block - 1][k]
    BY <2>7, <1>2
  <2> QED
    BY <2>5, <2>6, <2>8
<1> QED
  BY <1>3, <1>4

\* At any time the history of undo entries reaches back to the last irreversible block.
THEOREM HistoryReaches == Spec => []HistoryReachesLib
BY IInvReaches, Invariance, PTL

(***************************************************************************)
(* The sink implements a table that forks: a commit is its Extend, the     *)
(* transaction that ends an undo its Rewind, and all else stutters.        *)
(***************************************************************************)
LEMMA StepImplements ==
    IInv /\ [Next]_vars => [TableNext]_<<rows, cursor, past>>
<1> SUFFICES ASSUME IInv, [Next]_vars
             PROVE  TableNext \/ UNCHANGED <<rows, cursor, past>>
  OBVIOUS
<1>1. ASSUME NEW touched \in SUBSET Keys, NEW new \in [touched -> Contents],
             NEW final \in lib..(cursor + 1), Commit(touched, new, final)
      PROVE  Extend
  <2>1. rows' \in Tables
    BY <1>1, CommitStep DEF IInv, TypeOK
  <2> QED
    BY <2>1, <1>1 DEF Commit, Extend
<1>2. ASSUME CommitUndo PROVE \E v \in 0..MaxBlock : Rewind(v)
  <2>1. /\ undo.to \in 0..MaxBlock /\ undo.to < cursor
        /\ rows' = past[undo.to]
    BY <1>2, UndoneRows DEF IInv, TypeOK, CommitUndo
  <2>2. Rewind(undo.to)
    BY <2>1, <1>2 DEF CommitUndo, Rewind
  <2> QED
    BY <2>1, <2>2
<1>3. ASSUME NEW v \in 0..MaxBlock, BeginUndo(v) PROVE UNCHANGED <<rows, cursor, past>>
  BY <1>3 DEF BeginUndo, committed
<1>4. ASSUME NEW e \in undo.left, Reverse(e) PROVE UNCHANGED <<rows, cursor, past>>
  BY <1>4 DEF Reverse, committed
<1>5. ASSUME Crash PROVE UNCHANGED <<rows, cursor, past>>
  BY <1>5 DEF Crash, committed
<1>6. CASE UNCHANGED vars
  BY <1>6 DEF vars
<1> QED
  BY <1>1, <1>2, <1>3, <1>4, <1>5, <1>6 DEF Next, TableNext

\* The sink implements the table that forks: undo transactions, interrupted or not,
\* are single steps back of it.
THEOREM Implements == Spec => ImplementsTable
<1>1. Init => TableInit
  BY DEF Init
<1> QED
  BY <1>1, Invariance, StepImplements, PTL DEF Spec, TableSpec, ImplementsTable
=============================================================================
