\* One driver takes two validators through two heights and two rounds, with
\* retries, a timeout, late requests and crashes of both.
CONSTANTS
    v1 = v1
    v2 = v2
    v3 = v3
    v4 = v4
    a = a
    b = b
    Validators = {v1, v2}
    Bodies = {a, b}
    Drivers = {v1}
    PeerSets = {{v1, v2}, {v1}}
    Crashable = {v1, v2}
    MaxHeight = 2
    MaxRound = 2
    MaxTimeoutRound = 1
    MaxLate = 1
SPECIFICATION Spec
SYMMETRY BodySymmetry
INVARIANTS TypeOK RoundsAreEarned AppliedIsCertified RuntimeStateValid
PROPERTY NeverGoesBack
CHECK_DEADLOCK FALSE
