\* Two presses, a lost connection, a lost answer, forced ends.
SPECIFICATION Spec
CONSTANTS
    i1 = i1
    i2 = i2
    c1 = c1
    InputThreads <- TwoInputs
    ControlThreads <- OneControl
    MaxPresses = 2
    MaxDrops = 1
    MaxFailures = 1
    ForcedEnds = TRUE
SYMMETRY InputSymmetry
INVARIANTS
    NoOrphanedTransmission
    EndpointCalledOnce
    MicrophoneFollowsTransmission
