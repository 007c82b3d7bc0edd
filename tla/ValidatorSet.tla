---------------------------- MODULE ValidatorSet ----------------------------
(***************************************************************************)
(* The fixed validator set of a consensus epoch                            *)
(* (EZ_V2/consensus/validator_set.py).  Every validator has one vote, so a *)
(* quorum is a matter of counting.                                         *)
(***************************************************************************)
EXTENDS Integers, FiniteSets

CONSTANT Validators     \* the validator identifiers

\* validator_set.py refuses an empty set of validators.
ASSUME ValidatorsAssumption == IsFiniteSet(Validators) /\ Validators # {}

N == Cardinality(Validators)

\* Mutant: the quorum one signer short.
QuorumOneShort == (2 * N) \div 3

\* ValidatorSet.quorum_size: floor(2n/3) + 1, which is 2f+1 when n = 3f+1.
QuorumSize == (2 * N) \div 3 + 1

\* ValidatorSet.has_quorum: the distinct members among the given signers.
HasQuorum(signers) == Cardinality(signers \cap Validators) >= QuorumSize

=============================================================================
