CONSTANTS
    MaxPrime = 7
    N = 6
    Inputs <- MCInputs
SPECIFICATION Spec
INVARIANTS
    GridPlaces
    ObjectsAreBoxes
    ShiftsPair
    SubgridPlaces
    SameOutcome
