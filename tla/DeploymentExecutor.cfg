SPECIFICATION FairSpec
CONSTANTS
    Sessions = {1, 2}
    Clones = {"a"}
    CloneOf <- OneClone
    Plans = {"p"}
    PlanOf <- OnePlan
    Length <- TwoEach
    StartNonce <- StartNonces
    NoNonce = NoNonce
    Outputs = {"out"}
    OutputOf <- OneOutput
    NoSession = NoSession
    MaxNonce = 3
    MaxBlock = 3
INVARIANTS SentOnce ReceiptTruthful ReceiptJournaled
PROPERTIES LocksReleased
CHECK_DEADLOCK FALSE
