------------------------------ MODULE V1Proofs ------------------------------
(***************************************************************************)
(* The proof units of one V1 account                                       *)
(* (EZ_V1/EZ_VPB/proofs/AccountProofManager.py): rows of proof units with  *)
(* a reference count, rows that map a value's node to its units in order,  *)
(* a copy of the mapping in memory and a Bloom filter of the units that    *)
(* went through add_proof_unit_optimized.  Each operator is what one       *)
(* commit of the database does, with what the code then does in memory.    *)
(*                                                                         *)
(* A record of proofs is [units, maps, mem, bloom]: the count of each      *)
(* stored unit, the units of each node in the database and in memory, the  *)
(* filter.  The filter is exact: a false positive costs a query that finds *)
(* no row, or spares a unit of the batch path its reset.  The cache of     *)
(* units is left out: a unit that is not in it is loaded.                  *)
(***************************************************************************)
EXTENDS Naturals, Sequences, SequencesExt, TLC

NoProofs == [units |-> <<>>, maps |-> <<>>, mem |-> <<>>, bloom |-> {}]

UnitsOfNode(f, n) == IF n \in DOMAIN f THEN f[n] ELSE <<>>
Extended(f, n, u) == (n :> Append(UnitsOfNode(f, n), u)) @@ f
Without(f, n) == [m \in DOMAIN f \ {n} |-> f[m]]

\* BUG: a unit that is known is stored as it came.
UnitReplaced(p, u, count) ==
    [p EXCEPT !.units = (u :> count) @@ @, !.bloom = @ \cup {u}]

\* The first commit of add_proof_unit_optimized: a unit the filter and the
\* table know is counted once more, any other one is stored with the count it
\* came with.
UnitStored(p, u, count) ==
    LET known == u \in p.bloom /\ u \in DOMAIN p.units
    IN  [p EXCEPT !.units = (u :> IF known THEN @[u] + 1 ELSE count) @@ @,
                  !.bloom = @ \cup {u}]

\* BUG: the memory is not told of a new mapping.
MappedInTable(p, n, u) ==
    IF u \in ToSet(UnitsOfNode(p.maps, n)) THEN p ELSE [p EXCEPT !.maps = Extended(@, n, u)]

\* Its second commit (add_value_proof_mapping).
Mapped(p, n, u) ==
    IF u \in ToSet(UnitsOfNode(p.maps, n)) THEN p
    ELSE [p EXCEPT !.maps = Extended(@, n, u),
                   !.mem = IF u \in ToSet(UnitsOfNode(@, n)) THEN @ ELSE Extended(@, n, u)]

\* The first commit of a pair of batch_add_proof_units: no query, no filter.
BatchStored(p, u) == [p EXCEPT !.units = (u :> 1) @@ @]

\* Its second one; the memory is told whether the mapping is new or not.
BatchMapped(p, n, u) ==
    [p EXCEPT !.maps = IF u \in ToSet(UnitsOfNode(@, n)) THEN @ ELSE Extended(@, n, u),
              !.mem = Extended(@, n, u)]

\* The first commit of remove_value_proof_mapping.
Unmapped(p, n, u) ==
    IF u \notin ToSet(UnitsOfNode(p.maps, n)) THEN p
    ELSE [p EXCEPT !.maps[n] = Remove(@, u),
                   !.mem = IF n \in DOMAIN @ THEN [@ EXCEPT ![n] = Remove(@, u)] ELSE @]

\* Its second one: the count falls, and at zero the unit goes with every
\* mapping of it that is left (delete_proof_unit).
Released(p, u) ==
    IF u \notin DOMAIN p.units THEN p
    ELSE IF p.units[u] > 1 THEN [p EXCEPT !.units[u] = @ - 1]
    ELSE [p EXCEPT !.units = Without(@, u),
                   !.maps = [n \in DOMAIN @ |-> Remove(@[n], u)]]

\* The end of remove_value.
Forgotten(p, n) == [p EXCEPT !.maps = Without(@, n), !.mem = Without(@, n)]

\* The end of clear_all; the filter and the units that are still counted stay.
AllForgotten(p) == [p EXCEPT !.mem = <<>>]

\* get_proof_units_for_value
ProofsOf(p, n) == SelectSeq(UnitsOfNode(p.mem, n), LAMBDA u : u \in DOMAIN p.units)

\* _load_existing_mappings
LoadedProofs(p) ==
    LET found(n) == SelectSeq(p.maps[n], LAMBDA u : u \in DOMAIN p.units)
        nodes == {n \in DOMAIN p.maps : found(n) # <<>>}
    IN  [p EXCEPT !.mem = [n \in nodes |-> found(n)],
                  !.bloom = UNION {ToSet(found(n)) : n \in nodes}]
=============================================================================
