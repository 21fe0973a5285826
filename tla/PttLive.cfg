\* Liveness.
SPECIFICATION FairSpec
CONSTANTS
    i1 = i1
    i2 = i2
    c1 = c1
    InputThreads <- TwoInputs
    ControlThreads <- OneControl
    MaxPresses = 1
    MaxDrops = 1
    MaxFailures = 0
    ForcedEnds = FALSE
PROPERTIES
    CallsReturn
