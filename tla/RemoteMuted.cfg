\* A track outlives a reconnect, and its sender is muted afterwards.
SPECIFICATION RemoteSpec
CONSTANTS
    Speakers <- MCSpeakers
    MaxStreams = 1
    MaxPerScope = 1
    MaxPublications = 1
    MaxSettings = 2
INVARIANTS MutedIsSilent
CHECK_DEADLOCK FALSE
