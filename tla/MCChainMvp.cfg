\* Two drivers that apply what they previewed, replacement bundles with higher
\* fees, bundles that expire in the pool, and no crash.
CONSTANTS
    n1 = n1
    n2 = n2
    acc1 = acc1
    acc2 = acc2
    x = x
    y = y
    Nodes = {n1, n2}
    Drivers = {n1, n2}
    Accounts = {acc1}
    Bodies = {x}
    Mode = "mvp"
    Expiries = {1, 9}
    Fees = {0, 1}
    Window = 1
    Lossy = FALSE
    Threads = 1
    MaxHeight = 3
    MaxCrashes = 0
    MaxSaveFailures = 0
SPECIFICATION FairSpec
PROPERTIES LedgerSpec BlocksSpread 
CHECK_DEADLOCK FALSE
