\* Two players compete for one speaker slot while they are moved between two
\* nodes.  Time stands still.
SPECIFICATION Spec
CONSTANTS
    p1 = p1
    p2 = p2
    n1 = n1
    n2 = n2
    a1 = a1
    a2 = a2
    b1 = b1
    w1 = w1
    w2 = w2
    mt = mt
    Players <- TwoPlayers
    Sessions <- OneDeviceEach
    Owner <- MCOwner
    Nodes <- TwoNodes
    Moderators <- OnePlayer
    Workers <- TwoWorkers
    Maintenance = mt
    SpeakerLimit = 1
    SessionLifetime = 2
    MaxDuration = 1
    MaxVersion = 2
    MaxIds = 2
    MaxClock = 0
    MaxFailures = 0
    MaxRestarts = 0
SYMMETRY WorkerSymmetry
INVARIANTS
    ActiveOnCurrentMembership
    SpeakerLimitRespected
