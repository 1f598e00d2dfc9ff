CONSTANTS
    N = 4
    Inputs <- MCInputs
SPECIFICATION FairSpec
INVARIANTS
    CollectivesMatch
    LeadersKnown
    PolicyAgrees
    TuplesAddress
PROPERTIES
    AllReturn
