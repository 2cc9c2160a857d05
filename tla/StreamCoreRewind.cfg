SPECIFICATION Spec
CONSTANTS
    m1 = m1
    m2 = m2
    c1 = c1
    c2 = c2
    r1 = r1
    Holders = {alice, vault}
    Receivers = {vault}
    Modules <- TwoManagers
    GenesisRegistry = r1
    NoAddress = NoAddress
    OperationIds = {o1}
    NoOperation = NoOperation
    TokenData = {d1}
    NoData = NoData
    GasParameters = {}
    GenesisGas = 1
    ActionIds = {}
    NoAction = NoAction
    Supplies = {1, 2}
    MaxUint = 3
    MaxCollectionId = 1
    MaxRevision = 2
    MaxGas = 1
PROPERTIES HighWaterNeverRewinds
CHECK_DEADLOCK FALSE
