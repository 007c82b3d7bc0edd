------------------------------ MODULE Ownership ------------------------------
(***************************************************************************)
(* What the payments promise together: every unit of money has one owner,  *)
(* and only its owner gives it away.  One block may carry the gifts of     *)
(* several accounts, which nobody can take back.                           *)
(***************************************************************************)
EXTENDS Naturals, Sequences

CONSTANTS Accounts, Units

VARIABLES owner,        \* who owns a unit
          gifts         \* block by block, who gave what to whom

Gifts == [from : Accounts, to : Accounts, units : SUBSET Units]

\* Who owns what at the start is any assignment of the units to accounts.
Init ==
    /\ owner \in [Units -> Accounts]
    /\ gifts = <<>>

\* Every giver makes one gift, of units it owns.
Allowed(block) ==
    /\ block \subseteq Gifts
    /\ \A g \in block : \A u \in g.units : owner[u] = g.from
    /\ \A g, h \in block : g.from = h.from => g = h

\* The gifts of one block change hands.
Give(block) ==
    /\ gifts' = Append(gifts, block)
    /\ Allowed(block)
    /\ owner' = [u \in Units |->
          IF \E g \in block : u \in g.units
          THEN (CHOOSE g \in block : u \in g.units).to ELSE owner[u]]

Next ==
    /\ Len(gifts') = Len(gifts) + 1
    /\ Give(gifts'[Len(gifts')])

Spec == Init /\ [][Next]_<<owner, gifts>>

=============================================================================
