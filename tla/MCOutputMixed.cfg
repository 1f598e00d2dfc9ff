\* One process on each node, and more levels on one of the nodes.
CONSTANTS
    N = 4
    Inputs <- MCInputsMixed
SPECIFICATION FairSpec
PROPERTY
    PrintReturns
CHECK_DEADLOCK FALSE
