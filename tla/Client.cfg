SPECIFICATION ClientSpec
CONSTANTS
    Speakers <- MCSpeakers
    MaxStreams = 1
    MaxPerScope = 1
    MaxPublications = 2
    MaxSettings = 1
    MaxGenerations = 3
    MaxInputs = 2
INVARIANTS
    AdmissionByPriority
    PlaybackSettles
    SessionsAreOwned
    ShownIsInUse
CHECK_DEADLOCK FALSE
