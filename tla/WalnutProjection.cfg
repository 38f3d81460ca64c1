SPECIFICATION Spec
CONSTANTS
    Communities = {c1}
    LegacyPools = {s1}
    CurationPools = {t1}
    Users = {u1, u2}
    EarlierRows = {0, 9}
    None = none
    FirstBlock = 1
    MaxLogs = 5
    MaxHistory = 6
SYMMETRY MCSymmetry
CHECK_DEADLOCK FALSE
INVARIANTS
    RowsFollowContracts
    OperationsFollow
    CountsAreRowCounts
