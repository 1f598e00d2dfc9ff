\* Written with -leavefiles and read, once or twice, with other tests, with
\* the defaults, and with options that differ between the processes.
CONSTANTS
    N = 4
    Node <- MCNode
    Runs <- MCRuns
    DefaultBlocks <- MCDefaultBlocks
    DefaultTotal = 6
SPECIFICATION Spec
INVARIANTS
    FilesApart
    AbortsForReason
    FilesAsAsked
    TablesOwnTimes
