\* The same runs: whose times are in the table of close times.
CONSTANTS
    N = 4
    Node <- MCNode
    Runs <- MCRuns
    DefaultBlocks <- MCDefaultBlocks
    DefaultTotal = 6
SPECIFICATION Spec
INVARIANTS
    CloseTableOwnTimes
