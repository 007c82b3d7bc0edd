\* A round is driven to its end; then its notices are lost or late while
\* another driver times the round out and proposes in the next.
CONSTANTS
    v1 = v1
    v2 = v2
    v3 = v3
    v4 = v4
    a = a
    b = b
    Validators = {v1, v2, v3, v4}
    Bodies = {a, b}
    Drivers = {v1, v2}
    PeerSets = {{v1, v3, v4}, {v2, v3, v4}}
    Crashable = {}
    MaxHeight = 1
    MaxRound = 2
    MaxTimeoutRound = 1
    MaxLate = 0
SPECIFICATION Spec
SYMMETRY Symmetry
CONSTRAINT OneAfterTheOther
INVARIANT ChainAgreement
CHECK_DEADLOCK FALSE
