SPECIFICATION Spec
CONSTANTS
    Pools = {p1, p2}
    Amms = {m1}
    Users = {u1, u2}
    Zero = zero
    MaxLogs = 3
    MaxHistory = 4
INVARIANT
    AccountIndexesUnique
SYMMETRY MCSymmetry
CHECK_DEADLOCK FALSE
