\* The same runs: what the minima of several tests are taken from.
CONSTANTS
    N = 4
    Node <- MCNode
    Runs <- MCRuns
    DefaultBlocks <- MCDefaultBlocks
    DefaultTotal = 6
SPECIFICATION Spec
INVARIANTS
    MinimaOwnTimes
