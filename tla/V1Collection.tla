---------------------------- MODULE V1Collection ----------------------------
(***************************************************************************)
(* The values of one V1 account                                            *)
(* (EZ_V1/EZ_VPB/values/AccountValueCollection.py): a linked list of nodes *)
(* in memory with an index by node, by state and by first unit, over the   *)
(* rows of a sqlite table.  The operators map a collection to the          *)
(* collection after a call; V1Vault uses them too.  A call of the storage  *)
(* that fails (`ok` is FALSE) returns False or is only logged, and the     *)
(* memory has then moved or not as the code has it.                        *)
(*                                                                         *)
(* A collection is [list, val, byState, byBegin, size, rows]: the nodes    *)
(* from head to tail, the value of each node, the three indexes and the    *)
(* count, and the rows in the order of their sequence numbers.  Node ids   *)
(* are drawn afresh.  merge_adjacent_values is left out: nothing calls it. *)
(***************************************************************************)
EXTENDS Naturals, Sequences, SequencesExt, FiniteSets, TLC

CONSTANTS
    Ranges,      \* the ranges of units values are added with: [lo, num]
    States,      \* the states of a value
    MaxNodes,    \* bound
    MaxFailures  \* bound: storage calls that fail

VARIABLES
    c,        \* the collection
    fresh,    \* the next node id
    failures, \* bound
    short,    \* history: a batch was cut off by a failure
    repaired  \* history: the last call was a validation that read the rows and returned True

collectionVars == <<c, fresh, failures, short, repaired>>

Value(r, st) == [lo |-> r.lo, num |-> r.num, state |-> st]
EndOf(v) == v.lo + v.num - 1

-----------------------------------------------------------------------------
(* AccountValueCollectionStorage *)

Deleted(rows, n) == SelectSeq(rows, LAMBDA r : r.node # n)

\* BUG: an update is taken for a new row.
AppendRow(rows, n, v) == Append(rows, [node |-> n, val |-> v])

\* store_value: the row is replaced, with the highest sequence number.
Stored(rows, n, v) == Append(Deleted(rows, n), [node |-> n, val |-> v])

-----------------------------------------------------------------------------
(* AccountValueCollection *)

Empty(rows) ==
    [list |-> <<>>, val |-> <<>>, byState |-> [st \in States |-> {}], byBegin |-> <<>>,
     size |-> 0, rows |-> rows]

\* A node joins the list at place i (1 is the head) and the indexes.
Linked(k, n, v, i) ==
    [k EXCEPT !.list = InsertAt(@, i, n),
              !.val = (n :> v) @@ @,
              !.byState[v.state] = @ \cup {n},
              !.byBegin = (v.lo :> n) @@ @]

Counted(k) == [k EXCEPT !.size = @ + 1]
AtTail(k, n, v) == Counted(Linked(k, n, v, Len(k.list) + 1))

\* _load_existing_values
Loaded(rows) == FoldLeft(LAMBDA k, r : AtTail(k, r.node, r.val), Empty(rows), rows)

\* add_value
Added(k, n, v, position, ok) ==
    IF ~ok THEN k
    ELSE [Counted(Linked(k, n, v, IF position = "end" THEN Len(k.list) + 1 ELSE 1))
             EXCEPT !.rows = Stored(@, n, v)]

\* batch_add_values, of which the first `kept` values could be stored: the
\* count is raised after the last one.
BatchAdded(k, first, vs, kept) ==
    LET add(b, i) == [Linked(b, first + i - 1, vs[i], Len(b.list) + 1)
                         EXCEPT !.rows = Stored(@, first + i - 1, vs[i])]
        all == FoldLeft(add, k, [i \in 1..kept |-> i])
    IN  IF kept = Len(vs) THEN [all EXCEPT !.size = @ + Len(vs)] ELSE all

\* BUG: the index by first unit keeps the node.
RemovedButFound(k, n, ok) ==
    [k EXCEPT !.list = SelectSeq(@, LAMBDA m : m # n),
              !.val = [m \in DOMAIN @ \ {n} |-> @[m]],
              !.byState[k.val[n].state] = @ \ {n},
              !.size = @ - 1,
              !.rows = IF ok THEN Deleted(@, n) ELSE @]

\* remove_value: a row that cannot be deleted is only warned of.
Removed(k, n, ok) ==
    LET lo == k.val[n].lo
    IN  [k EXCEPT !.list = SelectSeq(@, LAMBDA m : m # n),
                  !.val = [m \in DOMAIN @ \ {n} |-> @[m]],
                  !.byState[k.val[n].state] = @ \ {n},
                  !.byBegin = [b \in {x \in DOMAIN @ : ~(x = lo /\ @[lo] = n)} |-> @[b]],
                  !.size = @ - 1,
                  !.rows = IF ok THEN Deleted(@, n) ELSE @]

\* split_value: the node becomes the front, the change a node of its own
\* behind it.  `oks` are the two stores; without the second one the change is
\* nowhere.
Divided(k, n, change, new, oks) ==
    LET v == k.val[n]
        front == [v EXCEPT !.num = @ - change]
        rest == [v EXCEPT !.lo = @ + v.num - change, !.num = change]
        cut == [k EXCEPT !.val[n] = front, !.rows = Stored(@, n, front)]
        place == CHOOSE i \in DOMAIN k.list : k.list[i] = n
    IN  IF ~oks[1] THEN k
        ELSE IF ~oks[2] THEN cut
        ELSE [Counted(Linked(cut, new, rest, place + 1)) EXCEPT !.rows = Stored(@, new, rest)]

\* update_value_state: the memory moves before the store and stays moved.
Moved(k, n, st, ok) ==
    LET old == k.val[n].state
        v == [k.val[n] EXCEPT !.state = st]
    IN  IF old = st THEN k
        ELSE [k EXCEPT !.byState = [@ EXCEPT ![old] = @ \ {n}, ![st] = @ \cup {n}],
                       !.val[n] = v,
                       !.rows = IF ok THEN Stored(@, n, v) ELSE @]

\* clear_spent_values
Cleaned(k) == FoldLeft(LAMBDA b, n : Removed(b, n, TRUE), k, SetToSeq(k.byState["CONFIRMED"]))

\* get_value_by_id: by the index, else the first node in the list.
Lookup(k, lo) ==
    IF lo \in DOMAIN k.byBegin THEN k.byBegin[lo]
    ELSE k.list[Min({i \in DOMAIN k.list : k.val[k.list[i]].lo = lo})]

NoOverlap(k) ==
    \A m, n \in DOMAIN k.val : m # n =>
        EndOf(k.val[m]) < k.val[n].lo \/ EndOf(k.val[n]) < k.val[m].lo

\* validate_integrity
Intact(k) ==
    /\ \A n \in ToSet(k.list) : n \in DOMAIN k.val /\ n \in k.byState[k.val[n].state]
    /\ Len(k.list) = k.size /\ Cardinality(DOMAIN k.val) = k.size
    /\ FoldSet(LAMBDA st, t : Cardinality(k.byState[st]) + t, 0, States) = k.size
    /\ NoOverlap(k)

\* What validate_integrity_with_storage makes of a collection when it reads
\* `stored`: rows it lacks join the list in any order, and nodes it finds no
\* row for are removed, with whatever row they have.
Repairs(k, stored) ==
    LET known == DOMAIN k.val
        found == {r.node : r \in ToSet(stored)}
        row(n) == (CHOOSE r \in ToSet(stored) : r.node = n).val
        joined(p) == FoldLeft(LAMBDA b, n : AtTail(b, n, row(n)), k, p)
    IN  {FoldLeft(LAMBDA b, n : Removed(b, n, TRUE), joined(p), SetToSeq(known \ found)) :
            p \in SetToSeqs(found \ known)}

SameAs(k, stored) ==
    /\ DOMAIN k.val = {r.node : r \in ToSet(stored)}
    /\ \A r \in ToSet(stored) : k.val[r.node] = r.val

\* BUG: the values themselves are not compared.
IntactOnly(k, stored) == Intact(k)

\* What validate_integrity_with_storage then returns.
Verdict(k, stored) == SameAs(k, stored) /\ Intact(k)

-----------------------------------------------------------------------------
(* One account, any calls. *)

Init ==
    /\ c = Empty(<<>>) /\ fresh = 1 /\ failures = 0
    /\ short = FALSE /\ repaired = FALSE

\* The outcome of a call of the storage.
Outcome(ok) ==
    /\ ok \/ failures < MaxFailures
    /\ failures' = failures + (IF ok THEN 0 ELSE 1)

AddValue ==
    \E r \in Ranges, position \in {"end", "beginning"}, ok \in BOOLEAN :
        /\ fresh <= MaxNodes /\ Outcome(ok)
        /\ c' = Added(c, fresh, Value(r, "UNSPENT"), position, ok)
        /\ fresh' = fresh + 1 /\ repaired' = FALSE /\ UNCHANGED short

BatchAddValues ==
    \E r, q \in Ranges, kept \in 0..2 :
        /\ fresh < MaxNodes /\ Outcome(kept = 2)
        /\ c' = BatchAdded(c, fresh, <<Value(r, "UNSPENT"), Value(q, "UNSPENT")>>, kept)
        /\ fresh' = fresh + 2 /\ repaired' = FALSE
        /\ short' = (short \/ kept = 1)

RemoveValue ==
    \E n \in DOMAIN c.val, ok \in BOOLEAN :
        /\ Outcome(ok)
        /\ c' = Removed(c, n, ok)
        /\ repaired' = FALSE /\ UNCHANGED <<fresh, short>>

SplitValue ==
    \E n \in DOMAIN c.val, change \in 1..3, oks \in {<<TRUE, TRUE>>, <<FALSE, TRUE>>, <<TRUE, FALSE>>} :
        /\ fresh <= MaxNodes /\ change < c.val[n].num
        /\ Outcome(oks = <<TRUE, TRUE>>)
        /\ c' = Divided(c, n, change, fresh, oks)
        /\ fresh' = fresh + 1 /\ repaired' = FALSE /\ UNCHANGED short

UpdateValueState ==
    \E n \in DOMAIN c.val, st \in States, ok \in BOOLEAN :
        /\ st # c.val[n].state /\ Outcome(ok)
        /\ c' = Moved(c, n, st, ok)
        /\ repaired' = FALSE /\ UNCHANGED <<fresh, short>>

ClearSpentValues ==
    /\ c.byState["CONFIRMED"] # {}
    /\ c' = Cleaned(c)
    /\ repaired' = FALSE /\ UNCHANGED <<fresh, failures, short>>

\* revert_pending_to_unspent
RevertPending ==
    /\ c.byState["PENDING"] # {}
    /\ c' = FoldLeft(LAMBDA b, n : Moved(b, n, "UNSPENT", TRUE), c, SetToSeq(c.byState["PENDING"]))
    /\ repaired' = FALSE /\ UNCHANGED <<fresh, failures, short>>

\* clear_all
ClearAll ==
    /\ c # Empty(<<>>)
    /\ c' = Empty(<<>>)
    /\ short' = FALSE /\ repaired' = FALSE /\ UNCHANGED <<fresh, failures>>

\* What a read of the storage returns: nothing when it fails, like an empty
\* table (get_all_values).
Read(ok) == IF ok THEN c.rows ELSE <<>>

\* reload_from_storage, or a restart of the process.
Reload ==
    \E ok \in BOOLEAN :
        /\ Outcome(ok)
        /\ c' = [Loaded(Read(ok)) EXCEPT !.rows = c.rows]
        /\ short' = FALSE /\ repaired' = FALSE /\ UNCHANGED fresh

\* validate_integrity_with_storage
ValidateWithStorage ==
    \E ok \in BOOLEAN :
        /\ Outcome(ok)
        /\ c' \in Repairs(c, Read(ok))
        /\ repaired' = (ok /\ Verdict(c', Read(ok)))
        /\ UNCHANGED <<fresh, short>>

Next ==
    \/ AddValue \/ BatchAddValues \/ RemoveValue \/ SplitValue
    \/ UpdateValueState \/ ClearSpentValues \/ RevertPending \/ ClearAll
    \/ Reload \/ ValidateWithStorage

Spec == Init /\ [][Next]_collectionVars

-----------------------------------------------------------------------------
\* The list and its three indexes tell of the same nodes, whichever calls
\* failed; the count too, unless a batch was cut off (AccountValueCollection).
IndexesAgree ==
    /\ IsInjective(c.list) /\ ToSet(c.list) = DOMAIN c.val
    /\ \A st \in States : c.byState[st] = {n \in DOMAIN c.val : c.val[n].state = st}
    /\ \A lo \in DOMAIN c.byBegin :
          c.byBegin[lo] \in DOMAIN c.val /\ c.val[c.byBegin[lo]].lo = lo
    /\ ~short => c.size = Len(c.list)

\* As long as no call of the storage failed, a reload changes no value
\* (store_value, update_value_state, split_value, remove_value).
MemoryIsStored == failures = 0 => SameAs(c, c.rows)

\* A collection that was validated against its storage is what the storage
\* holds, whatever failed before (validate_integrity_with_storage).
RepairIsTrue == repaired => SameAs(c, c.rows) /\ IndexesAgree

CollectionSound == IndexesAgree /\ MemoryIsStored /\ RepairIsTrue

\* Without their order: the rows are loaded in the order the values were last
\* stored, not in the order of the list (get_all_values).
ReloadKeepsOrder == failures = 0 => c.list = [i \in DOMAIN c.rows |-> c.rows[i].node]

\* Without a condition on the reads: a validation whose read fails finds no
\* row for any node and deletes them all (validate_integrity_with_storage).
ValidationKeepsRows == [][ValidateWithStorage => c'.rows = c.rows]_collectionVars
=============================================================================
