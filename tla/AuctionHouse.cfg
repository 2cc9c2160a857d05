SPECIFICATION FairSpec
CONSTANTS
    NumAccounts = 2
    Contracts = {2}
    NumTokens = 2
    Artists = {1}
    SplitWallets = {1}
    Signers = {"k1", "k2"}
    Authorizations <- TwoAuctions
    MaxValue = 3
    MaxSurplus = 1
    MaxEpoch = 2
    MaxTimestamp = 2
    MaxDuration = 2
    MaxExtension = 2
INVARIANTS Solvent MoneyConserved Custody AuthorizationSingleUse
PROPERTIES RefundsArePaid SettlementCompletes
