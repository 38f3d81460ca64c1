SPECIFICATION FairSinkSpec
CONSTANTS
    StartBlock = 2
    LagBlocks = 1
    Packages <- MCPackages
    NoPackage = "none"
    Outputs <- MCOutputs
    Environments <- MCEnvironments
    MaxHead = 6
    MaxForks = 2
INVARIANTS
    WindowsSafe
PROPERTIES
    NoStarvation
CHECK_DEADLOCK FALSE
