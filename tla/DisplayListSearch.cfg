SPECIFICATION SearchSpec

CONSTANTS
    Inputs <- MCInputs
    BinarySearchThreshold = 1
    Width = 2
    BranchFactor = 3
    MaxItems = 10

CHECK_DEADLOCK FALSE

INVARIANTS
    RegionIsTheArea
    QueriesAreExact
    SearchFindsTheDraws
