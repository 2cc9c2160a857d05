SPECIFICATION FairSpec
CONSTANTS
    c1 = c1
    vrf = vrf
    other = other
    Tokens = {t1}
    Scopes = {s1}
    Collections = {c1}
    Providers = {vrf, other}
    NoProvider = NoProvider
    VRFProviders = {vrf}
    Authority = Authority
    Requesters = {}
    Inputs = {i1}
    NoInputs = NoInputs
    Salts = {x1, x2}
    Timeouts = {1}
    Ids = {1, 2}
    Words = {w1}
    NoKey = NoKey
    NoRaw = NoRaw
    NoSeed = NoSeed
    MaxValue = 1
    PublicChoices = {FALSE}
    MaxBlock = 2
    MaxForced = 1
    CollectionOf <- OneCollection
    Fee <- Fees
INVARIANTS BooksExact OneRequestPerSubject AdapterAgrees
PROPERTIES DrawnOnce RequestsEnd
