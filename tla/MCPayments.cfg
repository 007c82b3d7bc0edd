\* Two hosts that pay each other.
CONSTANTS
    alice = alice
    bob = bob
    carol = carol
    Accounts = {alice, bob}
    Genesis <- OneRange
    LastUnit = 2
    Threads = 1
    LossyPush = TRUE
    MidCrash = FALSE
    MaxAttempts = 2
    MaxCrashes = 0
    MaxTimeouts = 0
    MaxMisses = 1
SPECIFICATION FairSpec
INVARIANTS TypeOK SpendableIsOwned PendingAwaitsReceipt LocksMatchPending NextBundleExecutable PackagesValid
PROPERTIES PendingResolves PaymentsArrive
CHECK_DEADLOCK FALSE
