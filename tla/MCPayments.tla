------------------------------ MODULE MCPayments ------------------------------
EXTENDS Payments, TLC

CONSTANTS alice, bob, carol

\* Alice starts with one range of two units, or of one, or with two ranges of
\* one, the others with nothing.
OneRange == [a \in Accounts |-> IF a = alice THEN {1..2} ELSE {}]
OneUnit == [a \in Accounts |-> IF a = alice THEN {1..1} ELSE {}]
TwoUnits == [a \in Accounts |-> IF a = alice THEN {1..1, 2..2} ELSE {}]

\* Bob and Carol start with nothing.
Symmetry == Permutations({bob, carol})

=============================================================================
