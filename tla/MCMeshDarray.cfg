CONSTANTS
    MaxPrime = 7
    N = 4
    Inputs <- WithRemainder
SPECIFICATION Spec
INVARIANT ViewIsPart
