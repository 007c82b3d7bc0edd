\* One legacy driver and a follower; crashes, lost announcements, and bundles
\* that never expire.
CONSTANTS
    n1 = n1
    n2 = n2
    acc1 = acc1
    acc2 = acc2
    x = x
    y = y
    Nodes = {n1, n2}
    Drivers = {n1}
    Accounts = {acc1, acc2}
    Bodies = {x}
    Mode = "legacy"
    Expiries = {9}
    Fees = {0}
    Window = 2
    Lossy = TRUE
    Threads = 1
    MaxHeight = 3
    MaxCrashes = 2
    MaxSaveFailures = 0
SPECIFICATION Spec
INVARIANTS TypeOK PoolExecutable StoresAgree ReceiptsChain ReceiptsServed RestartChangesNothing
CHECK_DEADLOCK FALSE
