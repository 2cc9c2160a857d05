CONSTANTS
    Kinds <- MCKinds
    Contents <- MCContents
    Contexts <- MCContexts
    Targets <- MCTargets
    MaxEdits = 2
SPECIFICATION Spec
INVARIANTS ReviewedIsComplete OneDeployment DrillsEndSafely
PROPERTY PinnedFilesHold
CHECK_DEADLOCK FALSE
