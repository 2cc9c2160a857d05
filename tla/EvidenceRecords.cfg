SPECIFICATION RecordsSpec
CONSTANTS
    RecordKinds = {"custody", "signing", "admin", "ceremony", "randomizer", "provenance", "permanence"}
    FileContents <- MCContents
    Facts <- MCFacts
    RecordContexts <- MCContexts
    RecordTargets <- MCTargets
    MaxRecordEdits = 2
INVARIANTS ProductionListingIsFinished AcceptedRecordsAreSound
CHECK_DEADLOCK FALSE
