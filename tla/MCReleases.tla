----------------------------- MODULE MCReleases -----------------------------
(***************************************************************************)
(* Packages and handoffs in one run.  A package changes what a sink would  *)
(* compute and a handoff where sinks start; each is checked by itself, and *)
(* so are the first packages, so that a behaviour follows one of them.     *)
(*                                                                         *)
(* A package built from a manifest has two binaries, its own and that of   *)
(* the ethcommon import, in either order.                                  *)
(***************************************************************************)
EXTENDS BackfillHandoff, FirstPackages, MCPackageRelease

VARIABLE part  \* "first", "packages" or "handoff"

Ethcommon == "ethcommon:index_events"
FirstBasketModules ==
    {"map_basket_registry_events", "store_basket_addresses", "map_basket_events"}

FirstManifest ==
    ("ethcommon:index_events"      :> [filter |-> "", inputs |-> <<>>]) @@
    [map_events                 |-> [filter |-> "pump", inputs |-> <<Ethcommon>>],
     map_more_events            |-> [filter |-> "more", inputs |-> <<Ethcommon>>],
     map_basket_registry_events |-> [filter |-> "registry", inputs |-> <<Ethcommon>>],
     store_basket_addresses     |->
        [filter |-> "", inputs |-> <<"map_basket_registry_events">>],
     map_basket_events          |->
        [filter |-> "baskets",
         inputs |-> <<Ethcommon, "map_basket_registry_events", "store_basket_addresses">>],
     db_out                     |->
        [filter |-> "", inputs |-> <<"map_events", "map_basket_events">>],
     basket_db_out              |-> [filter |-> "", inputs |-> <<"map_basket_events">>]]

\* An output reads what there is of its inputs; filters are told or not.
FirstBuilt(names, binaries, told, network, sink) ==
    LET own == CHOOSE i \in 1..2 : binaries[i] \notin {"import", "other import"} IN
    [network  |-> network,
     modules  |-> [n \in names |->
                     [binary |-> IF n = Ethcommon THEN 3 - own ELSE own,
                      filter |-> FirstManifest[n].filter,
                      inputs |-> SelectSeq(FirstManifest[n].inputs, LAMBDA m : m \in names)]],
     binaries |-> binaries,
     told     |-> [n \in {m \in names : told /\ FirstManifest[m].filter # ""} |->
                     FirstManifest[n].filter],
     sink     |-> sink]

Orders(own, import) == {<<own, import>>, <<import, own>>}
LegacyNames == FirstBasketModules \cup {Ethcommon, "map_events", "db_out"}
BasketNames == FirstBasketModules \cup {Ethcommon, "basket_db_out"}

FirstLegacies ==
    {FirstBuilt(names, order, told, robinhood, "db_out") :
        names \in {LegacyNames, LegacyNames \ FirstBasketModules},
        order \in Orders("v0.1", "import"), told \in BOOLEAN}
FirstBaskets ==
    {FirstBuilt(BasketNames, order, told, network, "basket_db_out") :
        order \in Orders("basket", "import") \cup Orders("basket", "other import"),
        told \in BOOLEAN, network \in MCNetworks}
FirstTemplates ==
    {FirstBuilt(names, order, TRUE, robinhood, "db_out") :
        names \in {LegacyNames, LegacyNames \ {"map_events"}, LegacyNames \ {"db_out"},
                   LegacyNames \cup {"map_more_events"}},
        order \in Orders("v0.2", "import") \cup Orders("v0.2", "other import")}

MCImported == {Ethcommon}

ReleasesInit ==
    /\ FirstInit /\ PackageInit /\ Init
    /\ \/ part = "first"
       \/ part = "packages"
       \/ part = "handoff"
    /\ part # "first" => legacy = CHOOSE p \in FirstLegacies : Names(p) \cap FirstBasketModules = {}
    /\ part # "packages" => package = CHOOSE p \in MCProduction : TRUE
    /\ part # "handoff" => \A d \in DOMAIN output : output[d] = {}

ReleasesNext ==
    /\ UNCHANGED part
    /\ \/ part = "first" /\ UNCHANGED <<packageVars, vars>> /\ FirstNext
       \/ part = "packages" /\ UNCHANGED <<firstVars, vars>> /\ PackageNext
       \/ part = "handoff" /\ UNCHANGED <<firstVars, packageVars>> /\ Next

ReleasesSpec ==
    /\ ReleasesInit
    /\ [][ReleasesNext]_<<part, firstVars, packageVars, vars>>
    /\ \A s \in Streams :
          /\ WF_vars(part = "handoff" /\ Start(s))
          /\ WF_vars(part = "handoff" /\ Process(s))
    /\ WF_vars(part = "handoff" /\ FinishBackfill)
=============================================================================
