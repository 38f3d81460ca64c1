SPECIFICATION MarketSpec
CONSTANTS
    LegacyTokens = {l1}
    V11Tokens = {e1}
    V14Tokens = {v1}
    Assets = {a1, a2}
    Stranger = Stranger
    MaxSupply = 2
    FirstBlock = 1
    MaxLogs = 4
    MaxHistory = 5
    MaxHistory14 = 6
CHECK_DEADLOCK FALSE
INVARIANTS
    RowsFollowCurve
    ListingFollows
    TradesNumberedOnce
    ComponentsFollow
