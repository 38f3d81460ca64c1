SPECIFICATION ReleasesSpec
CONSTANTS
    robinhood = robinhood
    other = other
    Networks <- MCNetworks
    Kinds <- MCKinds
    Binding <- MCBinding
    Final <- MCFinal
    Backfill <- MCBackfill
    Production <- MCProduction
    Templates <- MCTemplates
    ResetModules <- MCReset
    Legacies <- FirstLegacies
    BasketPackages <- FirstBaskets
    CombinedTemplates <- FirstTemplates
    BasketModules <- FirstBasketModules
    Imported <- MCImported
    Output = "db_out"
    BasketOutput = "basket_db_out"
    Disabled = "disabled"
    CutoverKind = "v11"
    Target = "index_broker_db_out"
    MaxBlock = 4
    MaxBinaries = 4
    Horizon = 3
    FirstNew = 1
    MaxFaults = 2
CHECK_DEADLOCK FALSE
INVARIANTS
    FirstPackagesAgree
    SwitchIsSeamless
    StoresFitTables
PROPERTIES
    OnlyNamedModulesChange
    FeedsInOrder
    HandoffCompletes
