----------------------------- MODULE Selection -----------------------------
(***************************************************************************)
(* How a wallet chooses the ranges of a payment (EZ_V2/wallet.py,          *)
(* select_payment_ranges): one pass over the spendable records keeps, for  *)
(* every subtotal, the cheapest plan of whole records, and the cheapest    *)
(* plan for the amount, whose last range may be the front of a record.     *)
(*                                                                         *)
(* A record is [size, checkpoint, distance, units, height]: whether the    *)
(* wallet has a checkpoint of exactly this range, the witness units down   *)
(* to a checkpoint (Inf when there is none), all its witness units, and    *)
(* the height it was acquired at.  Records come in the order of their      *)
(* first units; the order of _sorted_spendable_records does not matter to  *)
(* the property.                                                           *)
(***************************************************************************)
EXTENDS Integers, Sequences, SequencesExt, FiniteSetsExt, Functions

CONSTANTS Kinds, MaxRecords, MaxAmount, Inf

VARIABLES
    records, amount,  \* the question; amount 0 before it is asked
    index,            \* the record the loop looks at
    exact,            \* exact_plans: subtotal -> plan
    best              \* best_plan; <<>> stands for None

selectionVars == <<records, amount, index, exact, best>>

Init == records = <<>> /\ amount = 0 /\ index = 0 /\ exact = [s \in {0} |-> <<>>] /\ best = <<>>

\* A wallet is asked to pay; it refuses an amount of 0 or less.
Ask ==
    /\ amount = 0
    /\ amount' \in 1..MaxAmount
    /\ \E n \in 0..MaxRecords : records' \in [1..n -> Kinds]
    /\ index' = 1
    /\ UNCHANGED <<exact, best>>

-----------------------------------------------------------------------------
(* The cost of a plan, a sequence of <<record index, units taken>>. *)

Taken(plan, f(_)) == MapThenSumSet(LAMBDA i : f(records[plan[i][1]]), DOMAIN plan)
Splits(plan) == Cardinality({i \in DOMAIN plan : plan[i][2] < records[plan[i][1]].size})
Distance(r) == IF r.checkpoint THEN 0 ELSE r.distance
Capped(n) == IF n > Inf THEN Inf ELSE n

\* The components of _selection_plan_cost before the ranges themselves.
Merits(plan) ==
    <<Len(plan), Splits(plan), Taken(plan, LAMBDA r : IF r.checkpoint THEN 0 ELSE 1),
      Capped(Taken(plan, Distance)), Taken(plan, LAMBDA r : r.units),
      -Taken(plan, LAMBDA r : r.height)>>

\* BUG: splits are not counted.
CostNoSplits(plan) == [Merits(plan) EXCEPT ![2] = 0] \o FlattenSeq(plan)

\* _selection_plan_cost
Cost(plan) == Merits(plan) \o FlattenSeq(plan)

\* Python's order on tuples.
Less(a, b) ==
    \E i \in DOMAIN a \cap DOMAIN b : a[i] < b[i] /\ \A j \in 1..(i - 1) : a[j] = b[j]

Cheaper(p, q) == IF q = <<>> \/ Less(Cost(p), Cost(q)) THEN p ELSE q
Cheapest(plans, q) == FoldSet(Cheaper, q, plans)

-----------------------------------------------------------------------------
\* The plans of whole records that end with record r, by subtotal.
WholePlans(known, r) ==
    [t \in {s \in 1..amount : s - r.size \in DOMAIN known} |->
        Append(known[t - r.size], <<index, r.size>>)]

\* The plans for the amount that end with the front of record r.
CutPlans(known, r) ==
    {Append(known[s], <<index, amount - s>>) :
        s \in {t \in DOMAIN known : 0 < amount - t /\ amount - t < r.size}}

\* One turn of the loop.
Consider ==
    /\ index \in DOMAIN records
    /\ LET r == records[index]
           whole == WholePlans(exact, r)
           cut == Cheapest(CutPlans(exact, r), best)
       IN  /\ exact' = [t \in DOMAIN exact \cup DOMAIN whole |->
                           IF t \notin DOMAIN whole THEN exact[t]
                           ELSE IF t \notin DOMAIN exact THEN whole[t]
                           ELSE Cheaper(whole[t], exact[t])]
           /\ best' = IF amount \in DOMAIN exact' THEN Cheaper(exact'[amount], cut) ELSE cut
    /\ index' = index + 1
    /\ UNCHANGED <<records, amount>>

Next == Ask \/ Consider

Spec == Init /\ [][Next]_selectionVars

-----------------------------------------------------------------------------
\* Every way to pay the amount: how much of each record is taken.
Ways ==
    {w \in [DOMAIN records -> 0..MaxAmount] :
        /\ \A i \in DOMAIN records : w[i] <= records[i].size
        /\ FoldFunction(+, 0, w) = amount}
PlanOf(w) ==
    LET used == SelectSeq([i \in DOMAIN records |-> i], LAMBDA i : w[i] > 0)
    IN  [k \in DOMAIN used |-> <<used[k], w[used[k]]>>]

Known == \A i \in DOMAIN records : records[i].checkpoint \/ records[i].distance < Inf

\* When the loop ends the plan pays the amount exactly, it is missing only if
\* the records do not suffice, and among all ways to pay none is better: in
\* the number of ranges, splits, checkpoints missed and units down to a
\* checkpoint, and in all components when every record leads to a checkpoint
\* (an infinite distance hides the components after it from the subtotals).
SelectionIsCheapest ==
    (amount > 0 /\ index > Len(records)) =>
        IF best = <<>> THEN Ways = {}
        ELSE /\ best \in {PlanOf(w) : w \in Ways}
             /\ LET n == IF Known THEN 6 ELSE 4
                IN  \A w \in Ways :
                        ~Less(SubSeq(Merits(PlanOf(w)), 1, n), SubSeq(Merits(best), 1, n))
=============================================================================
