\* One wallet with two handler threads, one directory of daemons, one account
\* with two consensus peers, one V1 chain, one V1 pool, three V1 accounts, one
\* choice of payment ranges, one validator with two handler threads, two
\* consensus daemons with sortition, one router with a seed.
CONSTANTS
    h1 = h1
    h2 = h2
    idA = idA
    idB = idB
    pkg = pkg
    p1 = p1
    p2 = p2
    None = None
    Ids = {idA, idB}
    Incoming = {pkg}
    MaxMints = 2
    MaxRequests = 3
    MaxSaveFailures = 1
    TornWrites = FALSE
    MaxPids = 2
    Msgs = {pkg}
    Seeds = {p1}
    Window = 2
    Skew = 1
    Skews = {0, 1, 2}
    Retries = 1
    Base = 1
    Longest = 3
    MaxSteps = 1
    MaxStops = 1
    ForkBlocks = {1, 2, 3, 4, 5}
    ForkParent <- TwoForks
    Confirmations = 2
    MaxForkHeight = 2
    MaxReloads = 2
    Submissions <- ThreeSubmissions
    PerBlock = 2
    MaxSubmits = 3
    MaxCleanups = 1
    Validators = {p1}
    Bodies = {idA, idB}
    Me = p1
    Threads = {h1, h2}
    First <- Voted
    Asks <- Calls
    MaxCalls = 3
    MaxCrashes = 1
    V1Accounts = {p1, p2, pkg}
    Treasury = p1
    GenesisValues <- TwoValues
    MaxUnits = 4
    MaxBatches = 2
    Accounts = {p1, p2}
    LastUnit = 2
    Genesis <- OneGift
    Manual = {p2}
    CacheBlocks = 1
    MaxBundles = 2
    MaxRefused = 1
    MaxRestarts = 1
SPECIFICATION PartsSpec
INVARIANTS   UnitsOwnedOnce  LocalSound VotesAgreeUnlessRaced
PROPERTIES  LoopsCatchUp LongestChainKept HandledOnceUnlessStepped
CHECK_DEADLOCK FALSE
