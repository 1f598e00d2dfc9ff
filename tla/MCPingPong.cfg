\* Two processes, two trials of two lengths, with and without -checksync.
CONSTANTS
    N = 2
    MaxRound = 4
    EarlyCalls = FALSE
    MsgSizes <- MCMsgSizes
    NtestWT = 6
    NtestS = 1
    NtestR = 1
    NtestMIN = 1
    NtestMAX = 3
    Ticks = {1, 2, 3}
    CheckSyncs = {TRUE, FALSE}
SPECIFICATION PPFairSpec
INVARIANTS
    CollectiveOrder
    ChecksThisTest
    QuietSection
PROPERTIES
    AllTestsDone
