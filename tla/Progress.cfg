SPECIFICATION ProgressSpec
CONSTANTS
    w1 = w1
    w2 = w2
    Workers <- MCWorkers
    Capacity = 2
    MaxConnections = 5
    Actors = {"me", "other"}
    Members = {"me", "other", "third"}
    VoiceGroups = {1, 2}
    MaxParticipants = 2
    MaxRevisions = 1
    Me = "me"
    MaxChanges = 2
    MaxPolls = 0
    MaxErrors = 1
    MaxQueued = 2
    rawReader = rawReader
    uiCaller = uiCaller
    Reader = rawReader
    Caller = uiCaller
    Controls <- MCControls
    Candidates <- MCCandidates
    Nodes <- MCNodes
    DeviceId <- MCDeviceId
    ButtonsOf <- MCButtonsOf
    ReportOf <- MCReportOf
    MaxMessages = 2
    MaxBuffers = 2
    MaxFrames = 4
    MaxGains = 2
    DbSessions = {1}
    MaxDbVersion = 2
    MaxEvents = 2
    MaxTicks = 3
    TicksPerMs = 2
    Retention = 1
    PageLimit = 1
    MaxStarts = 2
INVARIANTS
    ProgressTypeOK
    EachConnectionOnce
    NoLostWakeup
    AcceptedAreDistinguishable
    NoGhostInput
    BuffersFreedOnce
    RepositoryIsReliable
PROPERTIES
    ConnectionsAnswered
    ShutdownStops
    ChangesDelivered
    ClientConverges
    DestructionEnds
CHECK_DEADLOCK FALSE
