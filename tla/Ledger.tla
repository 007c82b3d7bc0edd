-------------------------------- MODULE Ledger --------------------------------
(***************************************************************************)
(* What the chain promises the accounts: each account has one history of   *)
(* confirmed bundles, numbered from one without gap or repetition, that    *)
(* only ever grows at its end.  A block extends the histories of some      *)
(* accounts by one bundle each.                                            *)
(***************************************************************************)
EXTENDS Naturals, Sequences

CONSTANTS Accounts, Bodies

VARIABLE history

Init == history = [a \in Accounts |-> <<>>]

Confirm(senders) ==
    \E body \in [senders -> Bodies] :
        history' = [a \in Accounts |->
            IF a \in senders
            THEN Append(history[a], <<Len(history[a]) + 1, body[a]>>)
            ELSE history[a]]

Next == \E senders \in SUBSET Accounts : Confirm(senders)

Spec == Init /\ [][Next]_history

=============================================================================
