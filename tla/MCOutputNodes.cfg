\* One process on each node and no level below the nodes.
CONSTANTS
    N = 4
    Inputs <- MCInputsNodes
SPECIFICATION Spec
INVARIANT
    AllPrinted
