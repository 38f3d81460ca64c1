SPECIFICATION BrokerSpec
CONSTANTS
    Pools = {p1, p2}
    Amms = {m1}
    Users = {u1, u2}
    Zero = zero
    MaxCalls = 3
    MaxLogs = 3
    MaxHistory = 4
SYMMETRY MCSymmetry
CHECK_DEADLOCK FALSE
INVARIANTS
    RowsFollowCreations
    CreationsDescribed
