----------------------------- MODULE V1Values ------------------------------
(***************************************************************************)
(* The V1 accounts and the values they pay with (EZ_V1/EZ_Account,         *)
(* EZ_V1/EZ_VPB, EZ_V1/EZ_Transaction/CreateMultiTransactions.py): an      *)
(* account picks unspent values for a batch of payments, splits one of     *)
(* them for the change, keeps what it sent as ONCHAIN, and a recipient     *)
(* looks a received value up by its first unit before it adds it.          *)
(*                                                                         *)
(* A value is a node [lo, num, state, heir] of its account's collection:   *)
(* units lo .. lo+num-1, heir being the owner the block index of the node  *)
(* records last.  Proof units, signatures and the verification of a        *)
(* received value (taken to succeed) are left out.  Calls on an account do *)
(* not overlap, and a value is delivered once.                             *)
(***************************************************************************)
EXTENDS Naturals, Sequences, SequencesExt, FiniteSets, FiniteSetsExt

CONSTANTS Accounts, Treasury, Genesis, Units, Nobody, MaxBatches, MaxCrashes

VARIABLES
    holds,    \* collection of each account: its set of nodes
    batches,  \* the multi-transactions made so far
    clashed,  \* an account received a piece of, or around, a value it keeps
    crashes   \* bound

valueVars == <<holds, batches, clashed, crashes>>

Node(lo, num, state, heir) == [lo |-> lo, num |-> num, state |-> state, heir |-> heir]
UnitsOf(v) == v.lo .. (v.lo + v.num - 1)

\* The units in a set of nodes, those of each node counted apart.
Total(S) == Cardinality(UNION {{v} \X (1..v.num) : v \in S})
Overlap(v, w) == UnitsOf(v) \cap UnitsOf(w) # {}

\* initialize_from_genesis_batch: the treasury gets the genesis values.
Init ==
    /\ holds = [a \in Accounts |->
                   IF a = Treasury THEN {Node(g.lo, g.num, "UNSPENT", Nobody) : g \in Genesis}
                   ELSE {}]
    /\ batches = <<>>
    /\ clashed = FALSE
    /\ crashes = 0

-----------------------------------------------------------------------------
(* Picking values for one payment. *)

\* BUG: a value that is part of an unfinished payment can be picked again.
FreePending(c) == {v \in c : v.state \in {"UNSPENT", "PENDING"}}

\* find_by_state(UNSPENT)
Free(c) == {v \in c : v.state = "UNSPENT"}

\* The selections of pick_values_for_transaction: one value of exactly the
\* amount if there is one, otherwise the largest values until the sum
\* suffices; values of one size come in any order.
Selections(c, amount) ==
    LET exact == {v \in Free(c) : v.num = amount}
        greedy(S, last) ==
            /\ last \in S
            /\ Total(S) >= amount /\ Total(S \ {last}) < amount
            /\ \A v \in S : v.num >= last.num
            /\ \A v \in Free(c) \ S : v.num <= last.num
    IN  IF exact # {} THEN {[of |-> {v}, last |-> v] : v \in exact}
        ELSE {p \in [of : SUBSET Free(c), last : Free(c)] : greedy(p.of, p.last)}

\* BUG: the change overlaps the part that is paid.
SplitOverlapping(v, change) ==
    [paid |-> [v EXCEPT !.num = @ - change + 1],
     rest |-> [v EXCEPT !.lo = @ + v.num - change, !.num = change]]

\* Value.split_value: the node keeps the front, the change is a new node.
Split(v, change) ==
    [paid |-> [v EXCEPT !.num = @ - change],
     rest |-> [v EXCEPT !.lo = @ + v.num - change, !.num = change]]

\* What a selection makes of the collection, and the values the payment moves.
Picked(c, sel, amount) ==
    LET change == Total(sel.of) - amount
        cut == Split(sel.last, change)
        moved == IF change = 0 THEN sel.of ELSE (sel.of \ {sel.last}) \cup {cut.paid}
        rest == IF change = 0 THEN {} ELSE {cut.rest}
    IN  [coll |-> (c \ sel.of) \cup rest \cup {[v EXCEPT !.state = "PENDING"] : v \in moved},
         moved |-> {[lo |-> v.lo, num |-> v.num] : v \in moved}]

-----------------------------------------------------------------------------
(* Payments. *)

Pay(to, moved) == [to |-> to, moved |-> moved]

\* create_batch_transactions with one request.
PayOne(a) ==
    \E b \in Accounts \ {a}, amount \in 1..Units :
        \E sel \in Selections(holds[a], amount) :
            LET p == Picked(holds[a], sel, amount)
            IN  /\ holds' = [holds EXCEPT ![a] = p.coll]
                /\ batches' = Append(batches, [from |-> a, mined |-> FALSE, due |-> <<Pay(b, p.moved)>>])

\* With two requests.  When the second one cannot be paid the batch is given
\* up and the values picked for the first stay PENDING.
PayTwo(a) ==
    \E b, d \in Accounts \ {a}, x, y \in 1..Units :
        \E sel \in Selections(holds[a], x) :
            LET p == Picked(holds[a], sel, x)
            IN  \/ /\ Selections(p.coll, y) = {}
                   /\ holds' = [holds EXCEPT ![a] = p.coll]
                   /\ UNCHANGED batches
                \/ \E next \in Selections(p.coll, y) :
                       LET q == Picked(p.coll, next, y)
                       IN  /\ holds' = [holds EXCEPT ![a] = q.coll]
                           /\ batches' = Append(batches,
                                  [from |-> a, mined |-> FALSE,
                                   due |-> <<Pay(b, p.moved), Pay(d, q.moved)>>])

CreateBatch(a) ==
    /\ ~clashed /\ Len(batches) < MaxBatches
    /\ PayOne(a) \/ PayTwo(a)
    /\ UNCHANGED <<clashed, crashes>>

\* The process stops in split_value between its two stores: the node has
\* become the front and the change was never written.
CrashInSplit(a) ==
    /\ ~clashed /\ crashes < MaxCrashes
    /\ crashes' = crashes + 1
    /\ \E amount \in 1..Units : \E sel \in Selections(holds[a], amount) :
          /\ Total(sel.of) > amount
          /\ holds' = [holds EXCEPT ![a] =
                          (@ \ {sel.last}) \cup {Split(sel.last, Total(sel.of) - amount).paid}]
    /\ UNCHANGED <<batches, clashed>>

\* confirm_multi_transaction: the application marks what it picked CONFIRMED
\* before it submits the batch.
MarkConfirmed(i) ==
    /\ ~clashed /\ ~batches[i].mined
    /\ LET a == batches[i].from
           sent == UNION {batches[i].due[k].moved : k \in DOMAIN batches[i].due}
       IN  holds' = [holds EXCEPT ![a] =
               {IF [lo |-> v.lo, num |-> v.num] \in sent THEN [v EXCEPT !.state = "CONFIRMED"] ELSE v : v \in @}]
    /\ holds' # holds
    /\ UNCHANGED <<batches, clashed, crashes>>

\* BUG: the values that were sent are free again.
SentStateFree == "UNSPENT"

\* The state of a value whose batch is in a block.
SentState == "ONCHAIN"

\* update_vpb_after_transaction_sent.  The values of all payments are put in
\* one list, and the i-th value gets the recipient of the i-th payment, or
\* the default recipient when there is none.
Mine(i) ==
    /\ ~clashed /\ ~batches[i].mined
    /\ batches' = [batches EXCEPT ![i].mined = TRUE]
    /\ LET a == batches[i].from
           due == batches[i].due
           list == FlattenSeq([k \in DOMAIN due |->
                       SetToSortSeq(due[k].moved, LAMBDA v, w : v.lo < w.lo)])
           at(v) == {n \in DOMAIN list : list[n].lo = v.lo}
           heir(n) == IF n <= Len(due) THEN due[n].to ELSE due[1].to
       IN  holds' = [holds EXCEPT ![a] =
               {IF at(v) = {} THEN v
                ELSE [v EXCEPT !.state = SentState, !.heir = heir(Max(at(v)))] : v \in @}]
    /\ UNCHANGED <<clashed, crashes>>

\* receive_vpb_from_others.  A node that starts with the same unit is taken
\* for the value received, whatever its size.
Receive(i, k) ==
    /\ ~clashed /\ batches[i].mined
    /\ \E v \in batches[i].due[k].moved :
          LET b == batches[i].due[k].to
              known == {w \in holds[b] : w.lo = v.lo}
          IN  /\ batches' = [batches EXCEPT ![i].due[k].moved = @ \ {v}]
              /\ clashed' = \E w \in holds[b] : Overlap(w, v) /\ (w.lo # v.lo \/ w.num # v.num)
              /\ holds' = [holds EXCEPT ![b] =
                     IF known = {} THEN @ \cup {Node(v.lo, v.num, "VERIFIED", b)}
                     ELSE (@ \ known) \cup {[w EXCEPT !.state = "VERIFIED", !.heir = b] : w \in known}]
    /\ UNCHANGED crashes

\* _check_and_convert_verified_to_unspent, value by value.
Convert(a) ==
    /\ ~clashed
    /\ \E v \in holds[a] :
          /\ v.state = "VERIFIED"
          /\ holds' = [holds EXCEPT ![a] = (@ \ {v}) \cup {[v EXCEPT !.state = "UNSPENT"]}]
    /\ UNCHANGED <<batches, clashed, crashes>>

Next ==
    \/ \E a \in Accounts : CreateBatch(a)
    \/ \E a \in Accounts : CrashInSplit(a)
    \/ \E i \in DOMAIN batches : MarkConfirmed(i)
    \/ \E i \in DOMAIN batches : Mine(i)
    \/ \E i \in DOMAIN batches : \E k \in DOMAIN batches[i].due : Receive(i, k)
    \/ \E a \in Accounts : Convert(a)

Spec == Init /\ [][Next]_valueVars

-----------------------------------------------------------------------------
\* The units an account may still spend, and those on their way to someone.
Spendable(a) == UNION {UnitsOf(v) : v \in {w \in holds[a] : w.state \in {"UNSPENT", "VERIFIED"}}}
Moving(i, k) == UNION {UnitsOf(v) : v \in batches[i].due[k].moved}
Claims == {<<a>> : a \in Accounts} \cup {<<i, k>> : i \in DOMAIN batches, k \in 1..2}
ClaimOf(c) ==
    IF Len(c) = 1 THEN Spendable(c[1])
    ELSE IF c[2] \in DOMAIN batches[c[1]].due THEN Moving(c[1], c[2]) ELSE {}

\* No unit is spendable in two accounts, or spendable and on its way at once.
OwnedOnce == \A c, d \in Claims : c # d => ClaimOf(c) \cap ClaimOf(d) = {}

\* validate_no_overlap
NoOverlap == \A a \in Accounts : \A v, w \in holds[a] : v # w => ~Overlap(v, w)

\* Through batches, splits, blocks, deliveries and crashes no unit is in two
\* hands and no account keeps overlapping values, as long as nobody receives
\* a piece of a value it sent before (pick_values_for_transaction,
\* split_value, update_vpb_after_transaction_sent, receive_vpb_from_others).
\* A piece that comes back breaks both: see `clashed`.
UnitsOwnedOnce == ~clashed => OwnedOnce /\ NoOverlap

\* The owner recorded for a value that left is the account it went to, for
\* payments of several values too.
HeirRecorded ==
    \A i \in DOMAIN batches : \A k \in DOMAIN batches[i].due :
        batches[i].mined =>
            \A v \in batches[i].due[k].moved : \A w \in holds[batches[i].from] :
                w.lo = v.lo => w.heir = batches[i].due[k].to
=============================================================================
