\* Two pairs and two message lengths; one pair of two threads each, whose tags
\* overlap when a message is sent more than twice.
CONSTANTS
    N = 4
    MsgSizes <- MCMsgSizes
    Trials = 1
    Clocks <- MCClocks
    WtickOpts = {0}
    Jobs <- MCJobs
    Garbage = {0}
    Threads = 2
    TagStride = 2
    NtestWT = 6
    NtestS = 1
    NtestR = 1
    NtestMIN = 1
    NtestMAX = 3
SPECIFICATION FairSpec
INVARIANTS
    ThreadsDoNotMix
    CollectiveOrder
    TestsDoNotMix
    ChosenPairsOnly
    UsableSetup
PROPERTIES
    AllTestsDone
