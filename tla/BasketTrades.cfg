SPECIFICATION TradesSpec
CONSTANTS
    Keys = {k1, k2}
    MaxLogs = 6
    Earliest = {first}
    Third = {third}
    Latest = {latest}
    Stranger = Stranger
    Bidders = {alice, bob}
    NoBidder = NoBidder
    MaxBid = 2
    MaxBlockLogs = 3
    MaxHistory = 5
SYMMETRY MCSymmetry
CHECK_DEADLOCK FALSE
INVARIANTS
    MatchesTruly
    RouterLogsSpentOnce
    TradesCountedOnce
    EventsAndAuctionFollow
