\* Four processes; texts of two to four levels, then the tuples.
CONSTANTS
    N = 4
    Inputs <- MCInputs
SPECIFICATION Spec
INVARIANTS
    AllPrinted
    NestedOrder
    TuplesListAll
