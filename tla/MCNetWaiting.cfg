\* Two drivers ask each other, with proposals and with timeout requests, and no
\* send times out by itself.
CONSTANTS
    v1 = v1
    v2 = v2
    v3 = v3
    v4 = v4
    a = a
    b = b
    Validators = {v1, v2}
    Bodies = {a, b}
    Drivers = {v1, v2}
    PeerSets = {{v1, v2}}
    Crashable = {}
    MaxHeight = 1
    MaxRound = 1
    MaxTimeoutRound = 1
    MaxLate = 1
SPECIFICATION FairSpec
PROPERTY CallsEnd
CHECK_DEADLOCK FALSE
