\* A submission times out although consensus has it.
CONSTANTS
    alice = alice
    bob = bob
    carol = carol
    Accounts = {alice, bob}
    Genesis <- OneRange
    LastUnit = 2
    Threads = 1
    LossyPush = FALSE
    MidCrash = FALSE
    MaxAttempts = 2
    MaxCrashes = 0
    MaxTimeouts = 1
    MaxMisses = 0
SPECIFICATION Spec
INVARIANTS SpendableIsOwned
CHECK_DEADLOCK FALSE
