\* Three processes, three sections each, every order of rounds 2 and 3.
CONSTANTS
    N = 3
    MaxRound = 3
    EarlyCalls = TRUE
SPECIFICATION FairSpec
INVARIANTS
    TypeOK
    MutualExclusion
    NoStaleToken
PROPERTIES
    ImplementsSection
    AllRoundsComplete
