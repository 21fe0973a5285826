\* Bindings are replaced while a press is being delivered.
SPECIFICATION DevicesSpec
CONSTANTS
    rawReader = rawReader
    uiCaller = uiCaller
    Reader = rawReader
    Caller = uiCaller
    Controls <- MCControls
    Candidates <- MCCandidates
    Nodes <- MCNodes
    DeviceId <- MCDeviceId
    ButtonsOf <- MCButtonsOf
    ReportOf <- MCReportOf
    MaxMessages = 3
INVARIANTS ReleasedMeansInactive
CHECK_DEADLOCK FALSE
