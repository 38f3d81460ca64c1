SPECIFICATION RegistrySpec
CONSTANTS
    Accounts = {a1, a2, a3}
    MaxLogs = 2
    MaxBlocks = 3
SYMMETRY MCSymmetry
CHECK_DEADLOCK FALSE
INVARIANTS
    IndexesIdentify
    CountedTwiceOnlyBackwards
    JoinedBeforeRegistered
PROPERTIES
    PreIndexIsFinal
