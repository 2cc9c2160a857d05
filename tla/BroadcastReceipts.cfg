CONSTANTS
    Contracts <- MCContracts
    Targets <- MCTargets
    TargetOrder <- MCTargetOrder
    ClientTargets <- MCClientTargets
    Rebuilds <- MCRebuilds
    Library = "Lib"
    Inner = "Wallet"
    LinksLibrary <- MCLinksLibrary
    ArgumentOf <- MCArgumentOf
    Orders <- MCOrders
    Mishaps <- MCMishaps
    CommittedTemplate <- MCCommitted
    Templates <- MCTemplates
    WrongAddresses = {2}
    NamedAddresses = {1}
    MaxDeploys = 2
    MaxEdition = 1
    MaxEdits = 0
SPECIFICATION DeploymentSpec
CONSTRAINT OneHalf
INVARIANT ListedDeploymentsSucceeded
CHECK_DEADLOCK FALSE
