\* Upper levels that are the same, and different depths below: the system stops
\* where some wait for others that are through.
CONSTANTS
    N = 4
    Inputs <- DepthInputs
SPECIFICATION FairSpec
PROPERTIES
    AllReturn
CHECK_DEADLOCK FALSE
