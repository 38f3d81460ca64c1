--------------------------- MODULE FirstPackages ---------------------------
(***************************************************************************)
(* How the package that PackageRelease starts from came about.  At first   *)
(* one package indexes everything.  Its Basket maps are then disabled, by  *)
(* a filter that no block passes, so that a package of its own can index   *)
(* the baskets; and in the end one package takes over from the two.        *)
(*                                                                         *)
(* Neither step rebuilds a module that runs: a module is what its hash     *)
(* covers, that is its binary's content, its filter and its inputs (its    *)
(* initial block is copied with it; the first manifests override none).    *)
(* The same filters are written a second time in a map for human readers.  *)
(***************************************************************************)
EXTENDS Packages

CONSTANTS
    Legacies,       \* packages that may have run first
    BasketPackages, \* Basket packages
    CombinedTemplates,
    BasketModules,  \* BASKET_MODULES
    Imported,       \* the modules of the ethcommon import
    Output,         \* db_out
    BasketOutput,   \* basket_db_out
    Disabled        \* DISABLED_BASKET_FILTER

VARIABLES
    legacy,    \* the package that indexes the old domains
    basket,    \* the Basket package, or NoPackage
    unified,   \* the package assembled of both, or NoPackage
    serving    \* which of them are in service

firstVars == <<legacy, basket, unified, serving>>

NoPackage == [modules |-> <<>>]

-----------------------------------------------------------------------------
(***************************************************************************)
(* Packages are well-formed, have only what their sink reads filtered as   *)
(* it runs, and tell the filters in force.  In a package with everything   *)
(* the baskets are read by the output alone; a Basket package has nothing  *)
(* else, and nothing that reads its output.                                *)
(***************************************************************************)
WellFormed(p) ==
    /\ p = [network |-> p.network, modules |-> p.modules, binaries |-> p.binaries,
            told |-> p.told, sink |-> p.sink]
    /\ p.binaries \in Seq(Range(p.binaries))
    /\ p.modules = [n \in Names(p) |-> p.modules[n]]
    /\ \A n \in Names(p) :
        /\ p.modules[n] = [binary |-> p.modules[n].binary, filter |-> p.modules[n].filter,
                           inputs |-> p.modules[n].inputs]
        /\ p.modules[n].binary \in DOMAIN p.binaries
        /\ Range(p.modules[n].inputs) \subseteq Names(p)
    /\ DOMAIN p.told \subseteq Names(p)
    /\ \A n \in DOMAIN p.told : p.told[n] = p.modules[n].filter

ASSUME NamesAssumption ==
    /\ Output \notin BasketModules \cup Imported
    /\ BasketOutput \notin BasketModules \cup Imported
    /\ BasketModules \cap Imported = {}

ASSUME LegacyAssumption ==
    \A p \in Legacies :
        /\ WellFormed(p) /\ p.sink = Output /\ Output \in Names(p) /\ BasketOutput \notin Names(p)
        /\ \A n \in Names(p) : p.modules[n].filter # Disabled
        /\ \A n \in Names(p) \ ({Output} \cup BasketModules) :
              Range(p.modules[n].inputs) \cap ({Output} \cup BasketModules) = {}

ASSUME BasketAssumption ==
    \A p \in BasketPackages :
        /\ WellFormed(p) /\ p.sink = BasketOutput /\ BasketOutput \in Names(p)
        /\ BasketModules \subseteq ReadBy(p, BasketOutput)
        /\ Names(p) \subseteq BasketModules \cup Imported \cup {BasketOutput}
        /\ \A n \in Names(p) : /\ p.modules[n].filter # Disabled
                               /\ BasketOutput \notin Range(p.modules[n].inputs)

ASSUME TemplateAssumption == \A t \in CombinedTemplates : WellFormed(t)

\* A module's hash covers the definitions of all that it reads.
HashOf(p, n) ==
    [m \in ReadBy(p, n) |->
        [content |-> Content(p, m),
         filter  |-> p.modules[m].filter,
         inputs  |-> p.modules[m].inputs]]

-----------------------------------------------------------------------------
(***************************************************************************)
(* make_legacy_continuation: both Basket maps must be there, and have a    *)
(* filter; only the executable filters are always written.                 *)
(***************************************************************************)
BasketMaps == {n \in BasketModules : n # "store_basket_addresses"}

FiltersToldStale(p) == p.told

FiltersToldDisabled(p) ==
    [n \in DOMAIN p.told |-> IF n \in BasketMaps THEN Disabled ELSE p.told[n]]

DisableBaskets ==
    /\ legacy \in serving /\ basket = NoPackage
    /\ BasketMaps \subseteq Names(legacy)
    /\ \A n \in BasketMaps : legacy.modules[n].filter # ""
    /\ legacy' = [legacy EXCEPT
                    !.modules = [n \in DOMAIN @ |->
                        IF n \in BasketMaps THEN [@[n] EXCEPT !.filter = Disabled] ELSE @[n]],
                    !.told = FiltersToldDisabled(legacy)]
    /\ serving' = {legacy'}
    /\ UNCHANGED <<basket, unified>>

\* The Basket package is put beside the package whose maps are disabled, or
\* that never had them.
StartBasket ==
    /\ basket = NoPackage
    /\ \A n \in BasketMaps \cap Names(legacy) : legacy.modules[n].filter = Disabled
    /\ basket' \in BasketPackages
    /\ serving' = serving \cup {basket'}
    /\ UNCHANGED <<legacy, unified>>

-----------------------------------------------------------------------------
(***************************************************************************)
(* make_unified_package: where a module of the template comes from.        *)
(***************************************************************************)
SourceLegacyFirst(n) ==
    IF n = Output \/ n \in Imported \/ n \notin Names(legacy) \cup BasketModules
    THEN "template"
    ELSE IF n \in Names(legacy) THEN "legacy" ELSE "basket"

Source(n) ==
    IF n = Output \/ n \in Imported \/ n \notin Names(legacy) \cup BasketModules
    THEN "template"
    ELSE IF n \in BasketModules THEN "basket" ELSE "legacy"

PackageOf(n) == IF Source(n) = "basket" THEN basket ELSE legacy

\* The binaries of a package that the copied modules use follow those that
\* are there; in what order makes no difference.
Used(t, source) ==
    {PackageOf(n).modules[n].binary : n \in {m \in Names(t) : Source(m) = source}}

CopiedToBasketPlace(t, n) ==
    LET p == PackageOf(n) IN
    [p.modules[n] EXCEPT !.binary = Len(t.binaries) + Place(Used(t, Source(n)), @)]

Copied(t, n) ==
    LET before == IF Source(n) = "basket" THEN Cardinality(Used(t, "legacy")) ELSE 0
    IN  [PackageOf(n).modules[n] EXCEPT
           !.binary = Len(t.binaries) + before + Place(Used(t, Source(n)), @)]

Unified(t) ==
    [network  |-> t.network,
     modules  |-> [n \in Names(t) |->
                     IF Source(n) = "template" THEN t.modules[n] ELSE Copied(t, n)],
     binaries |-> t.binaries \o Collected(legacy, Used(t, "legacy"))
                             \o Collected(basket, Used(t, "basket")),
     told     |-> LET copied == {n \in Names(t) : Source(n) # "template"}
                      heard == {n \in copied : n \in DOMAIN PackageOf(n).told}
                  IN  [n \in (DOMAIN t.told \ copied) \cup heard |->
                         IF n \in heard THEN PackageOf(n).told[n] ELSE t.told[n]],
     sink     |-> Output]

\* The program ends without a package where a module it must copy is missing.
MakeUnified ==
    \E t \in CombinedTemplates :
        /\ basket # NoPackage /\ unified = NoPackage
        /\ legacy.network = basket.network /\ legacy.network = t.network
        /\ Output \in Names(t)
        /\ \A n \in Names(t) : Source(n) # "template" => n \in Names(PackageOf(n))
        /\ unified' = Unified(t)
        /\ UNCHANGED <<legacy, basket, serving>>

\* verify-unified-package: the hashes upstream of both outputs.
SameHash(p, n) == n \in ReadBy(unified, Output) /\ HashOf(unified, n) = HashOf(p, n)

Verified ==
    /\ \A n \in ReadBy(legacy, Output) \ ({Output} \cup BasketModules) : SameHash(legacy, n)
    /\ \A n \in ReadBy(basket, BasketOutput) \cap BasketModules : SameHash(basket, n)

\* The two are stopped at one cursor, and the one starts.
Deploy ==
    /\ unified # NoPackage /\ unified \notin serving
    /\ Verified
    /\ serving' = {unified}
    /\ UNCHANGED <<legacy, basket, unified>>

FirstInit ==
    /\ legacy \in Legacies
    /\ basket = NoPackage /\ unified = NoPackage
    /\ serving = {legacy}

FirstNext == DisableBaskets \/ StartBasket \/ MakeUnified \/ Deploy

FirstSpec == FirstInit /\ [][FirstNext]_firstVars

-----------------------------------------------------------------------------
\* Who reads which logs.
Read(p) == {n \in ReadBy(p, p.sink) : p.modules[n].filter # Disabled}
Readings == UNION {{<<p, n>> : n \in Read(p)} : p \in serving}

(***************************************************************************)
(* What the first packages owe each other.                                 *)
(*                                                                         *)
(* No log is read by two packages in service, and none of the old domains  *)
(* stops being read; once the Basket package has been in service, baskets  *)
(* never stop being read either, although the package it replaces has the  *)
(* same modules, disabled.                                                 *)
(*                                                                         *)
(* An assembled package fails its verification only for what the assembler *)
(* cannot help: inputs with different imports, or a template without a     *)
(* module that runs.                                                       *)
(*                                                                         *)
(* Where a package tells readers a filter, it is the one in force.         *)
(***************************************************************************)
DomainsReadOnce ==
    LET readings == Readings
        Readers(n) == {r[1] : r \in {s \in readings : s[2] = n}}
    IN  /\ \A n \in ReadBy(legacy, Output) \ ({Output} \cup Imported \cup BasketModules) :
              Cardinality(Readers(n)) = 1
        /\ \A n \in BasketMaps : /\ Cardinality(Readers(n)) <= 1
                                 /\ basket # NoPackage => Readers(n) # {}

SameImports ==
    \A n \in Imported : HashOf(unified, n) = HashOf(legacy, n)
                        /\ HashOf(unified, n) = HashOf(basket, n)
TemplateComplete ==
    ReadBy(legacy, Output) \cup (ReadBy(basket, BasketOutput) \ {BasketOutput})
        \subseteq ReadBy(unified, Output)

FailsOnlyForItsInputs ==
    unified # NoPackage /\ SameImports /\ TemplateComplete => Verified

FiltersTold ==
    \A p \in serving \cup ({unified} \ {NoPackage}) :
        \A n \in DOMAIN p.told : p.told[n] = p.modules[n].filter

FirstPackagesAgree == DomainsReadOnce /\ FailsOnlyForItsInputs /\ FiltersTold
=============================================================================
