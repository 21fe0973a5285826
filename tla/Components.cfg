SPECIFICATION ComponentsSpec
CONSTANTS
    team = team
    squad = squad
    Scopes <- MCScopes
    DefaultScope = team
    MaxVersion = 2
    MaxRequests = 3
    Samples <- MCSamples
    Gains = {0, 1}
    QueueCapacity = 2
    MaxBatch = 3
    MaxAccepted = 4
    Others = {"a"}
    PanelScopes = {"team", "group"}
    MaxNumber = 3
    MaxFlying = 2
    CoreThreads = {"t1", "t2"}
    CallbackKinds = {"connected", "disconnected", "speaker", "track"}
    HostVersions = {0, 1, 2}
    MaxCalls = 2
    MaxCallbacks = 2
    RateWorkers = {"w1", "w2"}
    MaxInWindow = 2
    Window = 2
    MaxTime = 5
    MaxPassed = 5
    SpecializationGroup <- MCSpecializationGroup
    TeamSpecialization <- MCTeamSpecialization
    Groups = {"g1", "g2"}
    InactiveGroups = {}
    DefinedScopes = {"team", "group"}
    TransmitScopes <- MCTransmitScopes
    ReceiveScopes <- MCReceiveScopes
    InitialMembership <- MCInitialMembership
    Replacements <- MCReplacements
    MaxApiCalls = 2
    MaxLogins = 3
    MaxApiVersion = 2
    Expiring = {1}
    AskedScopes = {"team"}
    Actors = {"me", "other"}
    Members = {"me", "other", "third"}
    VoiceGroups = {1, 2}
    MaxParticipants = 2
    MaxRevisions = 1
    Me = "me"
    MaxChanges = 2
    MaxPolls = 2
    MaxErrors = 0
    MaxQueued = 2
INVARIANTS
    ComponentsTypeOK
    InFlightOnCurrentMembership
    HoldsOwnGrant
    RingIsSafe
    ShownIsNewest
    CoreTellsTheHost
    RateIsBounded
    AnswersAreTrue
    RoomsReachRecipients
    ViewMatchesServer
PROPERTIES
    ReleaseConfirmedByServer
    IsFifo
CHECK_DEADLOCK FALSE
