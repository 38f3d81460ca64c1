SPECIFICATION Spec
CONSTANTS
    Accounts = {a1, a2}
    Amounts = {1, 2}
    MaxShares = 2
    MaxLogs = 3
    MaxEvents = 5
SYMMETRY MCSymmetry
CHECK_DEADLOCK FALSE
INVARIANTS
    CountsMatch
    SupplyIsWhatIsHeld
    IndexesFollowTheChain
    CountedAccountsJoined
