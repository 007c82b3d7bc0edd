\* A host crashes between two transactions of observe_qc.
CONSTANTS
    v1 = v1
    v2 = v2
    v3 = v3
    v4 = v4
    a = a
    b = b
    Validators = {v1, v2}
    Bodies = {a, b}
    Drivers = {v1}
    PeerSets = {{v1, v2}}
    Crashable = {v1, v2}
    MaxHeight = 1
    MaxRound = 1
    MaxTimeoutRound = 0
    MaxLate = 0
SPECIFICATION Spec
SYMMETRY BodySymmetry
INVARIANT CanRestart
CHECK_DEADLOCK FALSE
