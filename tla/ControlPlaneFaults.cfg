\* Time, a failing RoomService call and a restart: what becomes of transmissions and
\* rights.
SPECIFICATION FairSpec
CONSTANTS
    p1 = p1
    p2 = p2
    n1 = n1
    n2 = n2
    a1 = a1
    a2 = a2
    b1 = b1
    w1 = w1
    w2 = w2
    mt = mt
    Players <- OnePlayer
    Sessions <- OneDevice
    Owner <- MCOwner
    Nodes <- OneNode
    Moderators <- OnePlayer
    Workers <- OneWorker
    Maintenance = mt
    SpeakerLimit = 1
    SessionLifetime = 2
    MaxDuration = 1
    MaxVersion = 2
    MaxIds = 2
    MaxClock = 2
    MaxFailures = 1
    MaxRestarts = 1
INVARIANTS RightsAreAccountedFor
PROPERTIES
    TransmissionsEnd
    RightsAreWithdrawn
