CONSTANTS
    MaxPrime = 7
    N = 4
    Inputs <- DefaultBuild
SPECIFICATION Spec
INVARIANT ContextRead
