CONSTANTS
    Requirements <- MCRequirements
    Contents <- MCContents
    Delivered <- MCDelivered
    Submissions <- MCSubmissions
    Calls <- MCCalls
    FieldValues <- MCFieldValues
    Windows <- MCWindows
    Findings <- MCFindings
    Sizes <- MCSizes
    MaxDay = 1
    MaxGateEdits = 2
SPECIFICATION GateSpec
INVARIANTS MarketRowsTraceToTheirArtifact GeneratedFilesTellTheGate ReleasedSourcesAreTriaged
PROPERTY TimeOnlyMovesWaivers
CHECK_DEADLOCK FALSE
