CONSTANTS
    MaxPrime = 13
    Lists <- MCLists
    Vectors <- MCVectors
    MinRanges = {0, 2, 3}
    GridSizes = {2, 6, 8, 12, 16, 18, 24, 30, 36, 60, 64, 72}
    GridDims = {2, 3, 4}
    GridAsks <- MCOpen
    Presets <- MCPresets
    LevSizes <- MCLevSizes
    Machines <- MCMachines
    Builds <- MCBuilds
    Policies <- MCPolicies
    MaxRanks = 14
    MemSizes = {1, 2, 3, 4, 5}
    Boxes <- MCBoxes
    MemTypes = {"malloc", "cuda"}
    Postfixes = {"", "k"}
SPECIFICATION Spec
CHECK_DEADLOCK FALSE
INVARIANTS
    SizesAsDocumented
