\* Two drivers compete in one round for the votes of the same two followers; a
\* driver that gives up may try again with another block.
CONSTANTS
    v1 = v1
    v2 = v2
    v3 = v3
    v4 = v4
    a = a
    b = b
    Validators = {v1, v2, v3, v4}
    Bodies = {a, b}
    Drivers = {v1, v2}
    PeerSets = {{v1, v3, v4}, {v2, v3, v4}, {v1, v3}, {v1, v4}, {v2, v3}, {v2, v4}}
    Crashable = {}
    MaxHeight = 1
    MaxRound = 1
    MaxTimeoutRound = 0
    MaxLate = 1
SPECIFICATION Spec
SYMMETRY Symmetry
INVARIANTS OneQCPerSlot PhaseLadder
PROPERTY VotesLikeQuorumVoting
CHECK_DEADLOCK FALSE
