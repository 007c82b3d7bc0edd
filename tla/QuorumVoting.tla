---------------------------- MODULE QuorumVoting ----------------------------
(***************************************************************************)
(* What the vote layer of the consensus promises, without saying how: a    *)
(* validator backs at most one block in a slot (a height, a round and a    *)
(* phase), and a certificate appears for a block only when a quorum has    *)
(* backed it in that slot.  ConsensusNet implements this specification.    *)
(***************************************************************************)
EXTENDS ValidatorSet

CONSTANTS Slots,        \* heights, rounds and phases in which votes are cast
          Values        \* the blocks votes are cast for

VARIABLES cast,         \* the votes cast so far
          certs         \* the certificates formed so far

vars == <<cast, certs>>

Votes == [slot : Slots, voter : Validators, block : Values]
Certs == [slot : Slots, block : Values]

Init ==
    /\ cast = {}
    /\ certs = {}

Supporters(s, b) == {v \in Validators : [slot |-> s, voter |-> v, block |-> b] \in cast}

\* A validator that has not backed another block in slot s backs b.
CastVote(v, s, b) ==
    /\ \A m \in cast : m.voter = v /\ m.slot = s => m.block = b
    /\ cast' = cast \cup {[slot |-> s, voter |-> v, block |-> b]}
    /\ UNCHANGED certs

\* A quorum has backed b in slot s: somebody can present the certificate.
Certify(s, b) ==
    /\ HasQuorum(Supporters(s, b))
    /\ certs' = certs \cup {[slot |-> s, block |-> b]}
    /\ UNCHANGED cast

Next == \E s \in Slots, b \in Values :
            \/ \E v \in Validators : CastVote(v, s, b)
            \/ Certify(s, b)

Spec == Init /\ [][Next]_vars

-----------------------------------------------------------------------------

TypeOK == cast \subseteq Votes /\ certs \subseteq Certs

\* No validator's votes in one slot are for two blocks.
OneBlockPerVoter ==
    \A m1, m2 \in cast : m1.voter = m2.voter /\ m1.slot = m2.slot => m1.block = m2.block

\* A certificate never outlives its evidence: the quorum that backed it is on record.
CertsAreBacked == \A c \in certs : HasQuorum(Supporters(c.slot, c.block))

\* No slot has certificates for two blocks: the agreement the vote layer promises.
OneBlockPerSlot ==
    \A c1, c2 \in certs : c1.slot = c2.slot => c1.block = c2.block

=============================================================================
