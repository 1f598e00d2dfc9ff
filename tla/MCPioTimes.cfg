\* The same runs: what the table of I/O times holds.
CONSTANTS
    N = 4
    Node <- MCNode
    Runs <- MCRuns
    DefaultBlocks <- MCDefaultBlocks
    DefaultTotal = 6
SPECIFICATION Spec
INVARIANTS
    IOTableHoldsIOTimes
