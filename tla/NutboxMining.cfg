SPECIFICATION MiningSpec
CONSTANTS
    t1 = t1
    t2 = t2
    n1 = n1
    n2 = n2
    b1 = b1
    b2 = b2
    alice = alice
    bob = bob
    Tokens = {t1, t2}
    Batches = {n1, n2}
    Baskets = {b1, b2}
    Members = {alice, bob}
    Factories = {"ours", "other"}
    NoOne = NoOne
    NoToken = NoToken
    MaxLevel = 1
    MaxAmount = 2
    MaxBlockLogs = 4
    MaxHistory = 7
SYMMETRY Symmetry
CHECK_DEADLOCK FALSE
INVARIANTS
    WeightsAgree
    NftRowsFollow
    PoolTotalsFollow
