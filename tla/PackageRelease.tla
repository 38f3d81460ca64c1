--------------------------- MODULE PackageRelease ---------------------------
(***************************************************************************)
(* The chain of package releases of the production sink.                   *)
(*                                                                         *)
(* A running index is never rebuilt: every release is assembled from the   *)
(* exact package in production and an additive template, so that modules   *)
(* already running keep their definitions (hence the server's cache of     *)
(* their stores) and the new sink output still merges what was served.     *)
(* The assemblers are the programs of src/examples: one per domain (V11,   *)
(* V14, imported markets V2), the cutover that restarts empty branches and *)
(* the hotfix that replaces one binary.                                    *)
(*                                                                         *)
(* A module is its binary index, its initial block and its inputs; the     *)
(* executable rest (kind, block filter) is part of the binary's content,   *)
(* and per-network parameters travel exactly as initial blocks do.         *)
(***************************************************************************)
EXTENDS Packages

CONSTANTS
    Networks,       \* networks a package may carry overrides for
    Kinds,          \* the domains that are released, one assembler each
    Binding,        \* those whose assembler binds the merge to the old sink
    Final,          \* Final[k]: the merged output that domain's sink serves
    Backfill,       \* Backfill[k]: the output of that domain alone
    Production,     \* packages that may be in production at first
    Templates,      \* packages built from the manifest, of any version
    CutoverKind,    \* the domain the cutover and the hotfix are for
    ResetModules,   \* modules a cutover restarts
    Target,         \* the module the hotfix replaces
    MaxBlock,       \* bound on the chain
    MaxBinaries     \* bound on the hotfixes of one package

VARIABLES
    package,    \* the package in production
    cursor,     \* the last block its sink committed
    served      \* the outputs production's sink has served so far

packageVars == <<package, cursor, served>>

-----------------------------------------------------------------------------
\* A network's override of the initial block takes precedence.
InitialBlock(p, n, net) ==
    IF n \in DOMAIN p.overrides[net]
    THEN p.overrides[net][n]
    ELSE p.modules[n].initialBlock

Only(f, S) == [n \in DOMAIN f \cap S |-> f[n]]
Without(f, S) == [n \in DOMAIN f \ S |-> f[n]]
With(f, g) == [n \in DOMAIN f \cup DOMAIN g |->
                 IF n \in DOMAIN g THEN g[n] ELSE f[n]]
Lesser(a, b) == IF a < b THEN a ELSE b

(***************************************************************************)
(* Packages are well-formed: a module has one of the package's binaries    *)
(* and reads modules of the package.  Production's sink has begun.  A      *)
(* domain whose assembler does not bind its output was the first one, so   *)
(* every template has that output, which begins with production and reads  *)
(* its sink as the manifest says.                                          *)
(***************************************************************************)
IsPackage(p) ==
    /\ p = [modules |-> p.modules, binaries |-> p.binaries,
            overrides |-> p.overrides, sink |-> p.sink]
    /\ p.binaries \in Seq(Range(p.binaries))
    /\ p.modules \in [Names(p) -> [binary : DOMAIN p.binaries, initialBlock : Nat,
                                   inputs : Seq(Names(p))]]
    /\ \A net \in Networks : p.overrides[net] \in [DOMAIN p.overrides[net] -> Nat]
    /\ p.sink \in Names(p)

ASSUME PackagesAssumption == \A p \in Production \cup Templates : IsPackage(p)

ASSUME ProductionAssumption ==
    \A p \in Production, net \in Networks : InitialBlock(p, p.sink, net) <= 2

ASSUME UnboundAssumption ==
    \A k \in Kinds \ Binding, t \in Templates :
        /\ Final[k] \in Names(t)
        /\ \A net \in Networks : InitialBlock(t, Final[k], net) <= 2
        /\ \A p \in Production : p.sink \in Range(t.modules[Final[k]].inputs)

-----------------------------------------------------------------------------
\* The checks of an assembler on its two inputs.
Compatible(p, t, k) ==
    /\ Names(p) \subseteq Names(t)
    /\ {Final[k], Backfill[k]} \subseteq Names(t)
    /\ {Final[k], Backfill[k]} \cap Names(p) = {}
    /\ k \in Binding => t.modules[Final[k]].inputs # <<>>

\* Production's binaries follow the template's, each one that is used once.
UsedBinaries(p) == {p.modules[n].binary : n \in Names(p)}
RemappedUnshifted(p, t, i) == Place(UsedBinaries(p), i)
Remapped(p, t, i) == Len(t.binaries) + Place(UsedBinaries(p), i)
AllBinaries(p, t) == t.binaries \o Collected(p, UsedBinaries(p))

\* Every module of production replaces the template's of the same name.
MergedModules(p, t) ==
    [n \in Names(t) |->
        IF n \in Names(p)
        THEN [p.modules[n] EXCEPT !.binary = Remapped(p, t, @)]
        ELSE t.modules[n]]

\* Of modules that are kept only production's overrides remain.
OverridesNotRemoved(p, t) ==
    [net \in Networks |->
        With(t.overrides[net], Only(p.overrides[net], Names(p)))]
MergedOverrides(p, t) ==
    [net \in Networks |->
        With(Without(t.overrides[net], Names(p)),
             Only(p.overrides[net], Names(p)))]

Additive(p, t, k) ==
    [modules   |-> MergedModules(p, t),
     binaries  |-> AllBinaries(p, t),
     overrides |-> MergedOverrides(p, t),
     sink      |-> Final[k]]

\* bind_output: the merge reads the output in production, from the earlier
\* of its start and the new domain's, on every network.
BoundFromTheDomain(p, q, k) ==
    [q EXCEPT
        !.modules[Final[k]] = [@ EXCEPT
            !.inputs[1] = p.sink,
            !.initialBlock = q.modules[Backfill[k]].initialBlock],
        !.overrides = [net \in Networks |->
            With(@[net], [n \in {Final[k]} |-> InitialBlock(q, Backfill[k], net)])]]
BoundOutput(p, q, k) ==
    [q EXCEPT
        !.modules[Final[k]] = [@ EXCEPT
            !.inputs[1] = p.sink,
            !.initialBlock = Lesser(p.modules[p.sink].initialBlock,
                                    q.modules[Backfill[k]].initialBlock)],
        !.overrides = [net \in Networks |->
            With(@[net],
                 [n \in {Final[k]} |-> Lesser(InitialBlock(p, p.sink, net),
                                              InitialBlock(q, Backfill[k], net))])]]

AssembleUnbound(p, t, k) == Additive(p, t, k)
Assemble(p, t, k) ==
    IF k \in Binding
    THEN BoundOutput(p, Additive(p, t, k), k)
    ELSE Additive(p, t, k)

-----------------------------------------------------------------------------
(***************************************************************************)
(* A domain is released: the candidate replaces production at the block    *)
(* its sink last committed.                                                *)
(***************************************************************************)
Release(k) ==
    \E t \in Templates :
        /\ Compatible(package, t, k)
        /\ package' = Assemble(package, t, k)
        /\ served' = served \cup {package.sink}
        /\ UNCHANGED cursor

(***************************************************************************)
(* The cutover: branches proven empty restart after the cursor.            *)
(***************************************************************************)
Retargeted(p, start) ==
    [p EXCEPT
        !.modules = [n \in Names(p) |->
            IF n \in ResetModules
            THEN [p.modules[n] EXCEPT !.initialBlock = start]
            ELSE p.modules[n]],
        !.overrides = [net \in Networks |->
            [n \in DOMAIN p.overrides[net] |->
                IF n \in ResetModules THEN start ELSE p.overrides[net][n]]]]

Cutover ==
    LET start == cursor + 1 IN
    /\ package.sink = Final[CutoverKind]
    /\ ResetModules \subseteq Names(package)
    /\ \A n \in ResetModules : package.modules[n].initialBlock <= start
    /\ package' = Retargeted(package, start)
    /\ UNCHANGED <<cursor, served>>

(***************************************************************************)
(* The hotfix: one module takes the binary a fixed template has for it.    *)
(***************************************************************************)
PatchedInPlace(p, t) ==
    [p EXCEPT !.binaries[p.modules[Target].binary] = Content(t, Target)]
Patched(p, t) ==
    [p EXCEPT !.binaries = Append(@, Content(t, Target)),
              !.modules[Target].binary = Len(p.binaries) + 1]

Hotfix ==
    \E t \in Templates :
        /\ Len(package.binaries) < MaxBinaries
        /\ package.sink = Final[CutoverKind]
        /\ {Backfill[CutoverKind], Target} \subseteq Names(package)
        /\ Target \in Names(t)
        /\ t.modules[Target].inputs = package.modules[Target].inputs
        /\ package' = Patched(package, t)
        /\ UNCHANGED <<cursor, served>>

\* The sink in production commits a later block.
Advance ==
    /\ cursor < MaxBlock
    /\ cursor' = cursor + 1
    /\ UNCHANGED <<package, served>>

PackageInit ==
    /\ package \in Production
    /\ cursor = 1
    /\ served = {}

PackageNext ==
    \/ \E k \in Kinds : Release(k)
    \/ Cutover
    \/ Hotfix
    \/ Advance

PackageSpec == PackageInit /\ [][PackageNext]_packageVars

-----------------------------------------------------------------------------
\* What the module hash covers of one module: content, inputs and starts.
Definition(p, n) ==
    [content |-> Content(p, n),
     inputs  |-> p.modules[n].inputs,
     starts  |-> [net \in Networks |-> InitialBlock(p, n, net)]]

\* A release leaves every module in production exactly as it ran, whatever
\* the template has under the same name and on whatever network; between
\* releases only the hotfix's module changes what it computes, and only the
\* cutover's modules change where they start.
OnlyNamedModulesChange ==
    [][\A n \in Names(package) :
         LET old == Definition(package, n)
             new == Definition(package', n)
         IN  /\ package'.sink # package.sink => new = old
             /\ new.content # old.content => n = Target
             /\ new.starts # old.starts => n \in ResetModules]_packageVars

(***************************************************************************)
(* The switch to a release is seamless: every output the sink has ever     *)
(* served is still merged into the one it serves now, so that no release   *)
(* drops an older domain, and that output starts no later than the block   *)
(* after the cursor, so that none of an older domain's blocks is left out, *)
(* on any network.                                                         *)
(***************************************************************************)
NoDomainDropped == served \subseteq ReadBy(package, package.sink)

NoGapAtTheSwitch ==
    \A net \in Networks : InitialBlock(package, package.sink, net) <= cursor + 1

SwitchIsSeamless == NoDomainDropped /\ NoGapAtTheSwitch
=============================================================================
