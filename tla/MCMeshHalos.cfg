CONSTANTS
    MaxPrime = 7
    N = 4
    Inputs <- ThreeDims
SPECIFICATION Spec
INVARIANT ComparedWithHalos
