SPECIFICATION Spec
CONSTANTS
    m1 = m1
    m2 = m2
    c1 = c1
    c2 = c2
    r1 = r1
    Holders = {alice, vault}
    Receivers = {vault}
    Modules <- TwoCoordinators
    GenesisRegistry = r1
    NoAddress = NoAddress
    OperationIds = {o1}
    NoOperation = NoOperation
    TokenData = {d1}
    NoData = NoData
    GasParameters = {g1}
    GenesisGas = 1
    ActionIds = {a1}
    NoAction = NoAction
    Supplies = {1, 2}
    MaxUint = 3
    MaxCollectionId = 1
    MaxRevision = 2
    MaxGas = 2
INVARIANTS DenseAllocation SupplyExact SupplyCapped AdmissionStillValid CoordinatorBound RecoveryOpen
PROPERTIES FrozenIsFinal
SYMMETRY Symmetry
CHECK_DEADLOCK FALSE
