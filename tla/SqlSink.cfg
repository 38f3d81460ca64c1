SPECIFICATION Spec
CONSTANTS
    k1 = k1
    k2 = k2
    v1 = v1
    v2 = v2
    Keys = {k1, k2}
    Values = {v1, v2}
    Absent = Absent
    MaxBlock = 4
SYMMETRY Symmetry
CHECK_DEADLOCK FALSE
INVARIANTS
    NeverConflicts
    HistoryReachesLib
PROPERTIES
    ImplementsTable
