CONSTANTS
    MaxPrime = 7
    N = 4
    Inputs <- MCInputs
SPECIFICATION Spec
INVARIANTS
    ViewsPartition
    HalosMatch
    FileKept
