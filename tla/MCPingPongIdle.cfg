\* A process that has no data to check, with -checksync.
CONSTANTS
    N = 3
    MaxRound = 2
    EarlyCalls = FALSE
    MsgSizes <- MCMsgSizes
    NtestWT = 6
    NtestS = 1
    NtestR = 1
    NtestMIN = 1
    NtestMAX = 3
    Ticks = {1}
    CheckSyncs = {TRUE}
SPECIFICATION PPFairSpec
INVARIANTS
    CollectiveOrder
