--------------------------- MODULE MCConsensusNet ---------------------------
(***************************************************************************)
(* ConsensusNet for TLC.  Four validators are the smallest set that        *)
(* tolerates a fault (quorum 3); in a set of two or three every vote       *)
(* counts, which keeps the runs over several heights and rounds small.     *)
(***************************************************************************)
EXTENDS ConsensusNet, TLC

CONSTANTS v1, v2, v3, v4, a, b

\* Blocks are interchangeable, and so are validators that only answer.
BodySymmetry == Permutations(Bodies)
Symmetry == BodySymmetry \cup Permutations({v3, v4})

\* For the fork: v2 starts once v1 has applied its block and is done, and no
\* notice of it has reached a follower.
OneAfterTheOther ==
    /\ IF chain[v1] = <<>> THEN driver[v2].pc = "idle" ELSE driver[v1].pc = "idle"
    /\ chain[v3] = <<>> /\ chain[v4] = <<>>

=============================================================================
