\* Two drivers in one round; the first driver, whom the second one asks, and a
\* follower crash inside their operations and restart.
CONSTANTS
    v1 = v1
    v2 = v2
    v3 = v3
    v4 = v4
    a = a
    b = b
    Validators = {v1, v2, v3, v4}
    Bodies = {a, b}
    Drivers = {v1, v2}
    PeerSets = {{v1, v3, v4}, {v2, v1}}
    Crashable = {v1, v3}
    MaxHeight = 1
    MaxRound = 1
    MaxTimeoutRound = 0
    MaxLate = 1
SPECIFICATION Spec
SYMMETRY BodySymmetry
INVARIANTS OneVotePerSlot NothingOnlyInMemory NoConflictWhileCounting
CHECK_DEADLOCK FALSE
