\* Three hosts, one unit of money: it can only be given twice in a way the
\* chain would show when there is a third account.
CONSTANTS
    alice = alice
    bob = bob
    carol = carol
    Accounts = {alice, bob, carol}
    Genesis <- OneUnit
    LastUnit = 1
    Threads = 1
    LossyPush = FALSE
    MidCrash = TRUE
    MaxAttempts = 2
    MaxCrashes = 1
    MaxTimeouts = 1
    MaxMisses = 0
SPECIFICATION Spec
SYMMETRY Symmetry
PROPERTY OwnershipSpec
CHECK_DEADLOCK FALSE
