SPECIFICATION ImportSpec
CONSTANTS
    Tokens = {t1, t2}
    V2Tokens = {t3}
    Users = {u1, u2}
    NoOne = NoOne
    FeeAddress = FeeAddress
    Venues = {"V2", "V3"}
    MaxItems = 3
    MaxCalls = 2
    HelperBlock = 2
    Registries = {"nutbox_router_routes", "nutbox_community_fee_pools"}
    RegistryKeys = {k1, k2}
    MaxV2Logs = 4
    MaxRegistry = 5
SYMMETRY Symmetry
CHECK_DEADLOCK FALSE
INVARIANTS
    TradesExact
    SellsmanAttributed
    MarketsFollow
