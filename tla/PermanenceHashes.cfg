SPECIFICATION RecordsSpec
CONSTANTS
    RecordKinds = {"permanence"}
    FileContents <- MCContents
    Facts <- MCFacts
    RecordContexts <- MCContexts
    RecordTargets <- MCTargets
    MaxRecordEdits = 2
INVARIANTS
    ReviewedPackageIsHashed
CHECK_DEADLOCK FALSE
