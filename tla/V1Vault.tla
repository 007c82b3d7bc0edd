------------------------------ MODULE V1Vault ------------------------------
(***************************************************************************)
(* One V1 account over its three databases                                 *)
(* (EZ_V1/EZ_VPB/VPBManager.py, EZ_V1/EZ_Account/Account.py): the values   *)
(* (V1Collection), the proof units (V1Proofs) and the block indexes.  A    *)
(* handler runs under the lock of the account, but every call of a         *)
(* database is a commit of its own: the process may end between two of     *)
(* them, and one of them may fail, which the handler survives or not.      *)
(*                                                                         *)
(* A handler is the sequence of its commits.  Of an index only whether the *)
(* value has one is kept (its heights are in V1History), of a transfer the *)
(* units it carries.  A payment is of one whole value.                     *)
(***************************************************************************)
EXTENDS Naturals, Sequences, SequencesExt, FiniteSets, TLC

CONSTANTS
    Genesis,     \* the values of the genesis block, in order
    Foreign,     \* a value that is someone else's at first
    Nobody,
    MaxNodes, MaxPays, MaxFaults  \* bounds

VARIABLES
    s,         \* the account: values c, proofs p, indexed nodes x, _node_id_to_value_id
    fresh,     \* the next node id
    bundle,    \* submitted_transactions: the range that is paid, and its block
    pays,      \* bound: payments
    failures,  \* bound: commits that failed
    crashes,   \* bound: restarts within a handler
    due,       \* history: the units each value came with
    dropped    \* history: the proofs of some value were removed

vaultVars == <<s, fresh, bundle, pays, failures, crashes, due, dropped>>

Coll == INSTANCE V1Collection WITH
    Ranges <- {}, States <- {"UNSPENT", "PENDING", "CONFIRMED", "ONCHAIN", "VERIFIED"},
    MaxFailures <- MaxFaults, c <- s.c, short <- FALSE, repaired <- FALSE
Prf == INSTANCE V1Proofs

\* Every genesis value has the same proof unit: it names the genesis bundle.
GenesisUnit == 0
\* The unit of a bundle is the number of its block; these came with transfers.
Sender1 == 101
Sender2 == 102

InState(st) == s.c.byState[st]
NodesOf(r) == {n \in DOMAIN s.c.val : s.c.val[n].lo = r.lo /\ s.c.val[n].num = r.num}

-----------------------------------------------------------------------------
(* Commits. *)

Row(n, v) == [op |-> "row", n |-> n, v |-> v, stops |-> TRUE]
Move(n, st) == [op |-> "move", n |-> n, st |-> st, stops |-> FALSE]
Index(n, stops) == [op |-> "index", n |-> n, stops |-> stops]
Unit(u, count, stops) == [op |-> "unit", u |-> u, count |-> count, stops |-> stops]
Map(n, u, stops) == [op |-> "map", n |-> n, u |-> u, stops |-> stops]
On(op, n, u, stops) == [op |-> op, n |-> n, u |-> u, stops |-> stops]

\* The state after a commit.
Applied(k, e) ==
    CASE e.op = "row" -> [k EXCEPT !.c = Coll!Added(@, e.n, e.v, "end", TRUE),
                                   !.named = @ \cup {e.n}]
      [] e.op = "move" -> [k EXCEPT !.c = Coll!Moved(@, e.n, e.st, TRUE)]
      [] e.op = "index" -> [k EXCEPT !.x = @ \cup {e.n}]
      [] e.op = "unit" -> [k EXCEPT !.p = Prf!UnitStored(@, e.u, e.count)]
      [] e.op = "map" -> [k EXCEPT !.p = Prf!Mapped(@, e.n, e.u)]
      [] e.op = "batch unit" -> [k EXCEPT !.p = Prf!BatchStored(@, e.u)]
      [] e.op = "batch map" -> [k EXCEPT !.p = Prf!BatchMapped(@, e.n, e.u)]
      [] e.op = "unmap" -> [k EXCEPT !.p = Prf!Unmapped(@, e.n, e.u)]
      [] e.op = "release" -> [k EXCEPT !.p = Prf!Released(@, e.u)]
      [] e.op = "forget" -> [k EXCEPT !.p = Prf!Forgotten(@, e.n)]
      [] e.op = "clear values" -> [k EXCEPT !.c = Coll!Empty(<<>>)]
      [] e.op = "clear indexes" -> [k EXCEPT !.p = Prf!AllForgotten(@), !.x = {}, !.named = {}]

\* The state when it fails: some handlers have moved, or move, the memory.
Failed(k, e) ==
    CASE e.op = "move" -> [k EXCEPT !.c = Coll!Moved(@, e.n, e.st, FALSE)]
      [] e.op = "batch map" -> [k EXCEPT !.p.mem = Prf!Extended(@, e.n, e.u)]
      [] e.op = "forget" -> [k EXCEPT !.p.mem = Prf!Without(@, e.n)]
      [] e.op = "clear indexes" -> [k EXCEPT !.p = Prf!AllForgotten(@)]
      [] OTHER -> k

Done(k, es) == FoldLeft(Applied, k, es)

\* What a handler still does after its commit number i failed: without the
\* unit there is no mapping, without the removal of a mapping no release.
Remaining(es, i) ==
    IF es[i].stops THEN <<>>
    ELSE SubSeq(es, i + (IF es[i].op \in {"unit", "unmap"} THEN 2 ELSE 1), Len(es))

\* A new process on the same databases (VPBManager.__init__).
Restarted(k) ==
    [k EXCEPT !.c = Coll!Loaded(@.rows), !.p = Prf!LoadedProofs(@), !.named = {}]

\* A handler with the commits `es`, after which the bundle is `b`.
Handles(es, b) ==
    \/ /\ s' = Done(s, es)
       /\ bundle' = b /\ UNCHANGED <<failures, crashes>>
    \/ /\ failures + crashes < MaxFaults
       /\ \E i \in DOMAIN es :
             s' = Done(Failed(Done(s, SubSeq(es, 1, i - 1)), es[i]), Remaining(es, i))
       /\ failures' = failures + 1
       /\ bundle' = b /\ UNCHANGED crashes

\* The process ends within it.
Ends(es) ==
    /\ failures + crashes < MaxFaults
    /\ \E i \in 0..(Len(es) - 1) : s' = Restarted(Done(s, SubSeq(es, 1, i)))
    /\ crashes' = crashes + 1
    /\ bundle' = Nobody /\ UNCHANGED failures

-----------------------------------------------------------------------------
Init ==
    /\ s = [c |-> Coll!Empty(<<>>), p |-> Prf!NoProofs, x |-> {}, named |-> {}]
    /\ fresh = 1 /\ bundle = Nobody /\ pays = 0
    /\ failures = 0 /\ crashes = 0 /\ due = <<>> /\ dropped = FALSE

(* on_genesis_init, initialize_from_genesis_batch: the chain is saved before,  *)
(* so what is not finished here is never done.                                 *)
Born == [i \in DOMAIN Genesis |-> Coll!Value(Genesis[i], "UNSPENT")]

GenesisCommits ==
    FlattenSeq([n \in DOMAIN Genesis |-> <<On("batch unit", n, GenesisUnit, TRUE),
                                           On("batch map", n, GenesisUnit, FALSE)>>])
    \o [n \in DOMAIN Genesis |-> Index(n, TRUE)]

InitializeFromGenesis ==
    /\ fresh = 1 /\ fresh' = Len(Genesis) + 1
    /\ LET all == [s EXCEPT !.c = Coll!BatchAdded(@, 1, Born, Len(Genesis)),
                            !.named = DOMAIN Genesis]
           cut(k) == [s EXCEPT !.c = Coll!BatchAdded(@, 1, Born, k)]
           es == GenesisCommits
       IN  \/ /\ s' = Done(all, es)
              /\ due' = [n \in DOMAIN Genesis |-> {GenesisUnit}]
              /\ UNCHANGED <<failures, crashes>>
           \/ /\ failures + crashes < MaxFaults /\ failures' = failures + 1
              /\ \/ \E k \in 0..(Len(Genesis) - 1) : s' = cut(k)
                 \/ \E i \in DOMAIN es :
                       s' = Done(Failed(Done(all, SubSeq(es, 1, i - 1)), es[i]), Remaining(es, i))
              /\ UNCHANGED <<due, crashes>>
           \/ /\ failures + crashes < MaxFaults /\ crashes' = crashes + 1
              /\ \/ \E k \in 0..(Len(Genesis) - 1) : s' = Restarted(cut(k))
                 \/ \E i \in 0..(Len(es) - 1) : s' = Restarted(Done(all, SubSeq(es, 1, i)))
              /\ UNCHANGED <<due, failures>>
    /\ UNCHANGED <<bundle, pays, dropped>>

\* create_batch_transactions, confirm_multi_transaction, _add_to_submitted_queue
Pay ==
    /\ bundle = Nobody /\ pays < MaxPays
    /\ pays' = pays + 1
    /\ \E n \in InState("UNSPENT") :
          LET es == <<Move(n, "PENDING"), Move(n, "CONFIRMED")>>
              v == s.c.val[n]
          IN  \/ Handles(es, [lo |-> v.lo, num |-> v.num, at |-> pays + 1])
              \/ Ends(es)
    /\ UNCHANGED <<fresh, due, dropped>>

UnitAndMap(n, u, count, stops) == <<Unit(u, count, stops), Map(n, u, stops)>>

\* on_proof_to_sender, update_vpb_after_transaction_sent: the unit goes to the
\* target, without which the handler stops, and then to every value.  The
\* other indexes only get a height.
TransactionSent ==
    /\ bundle # Nobody
    /\ LET targets == NodesOf(bundle)
           commits(n) ==
               <<Index(n, FALSE)>> \o UnitAndMap(n, bundle.at, 1, TRUE)
               \o FlattenSeq([i \in DOMAIN s.c.list |-> UnitAndMap(s.c.list[i], bundle.at, 1, FALSE)])
               \o <<Move(n, "ONCHAIN")>>
       IN  IF targets = {}
           THEN bundle' = Nobody /\ UNCHANGED <<s, failures, crashes>>
           ELSE \E n \in targets : Handles(commits(n), Nobody) \/ Ends(commits(n))
    /\ UNCHANGED <<fresh, pays, due, dropped>>

\* receive_vpb_from_others of a transfer that was verified.  The units carry
\* the count they have at the sender.
Carried(n, us) == FlattenSeq([i \in DOMAIN us |-> UnitAndMap(n, us[i], 2, FALSE)])
Kept(n) == <<Index(n, FALSE), Move(n, "UNSPENT"), Move(n, "VERIFIED")>>

\* BUG: the value can be spent before its units are stored.
ReceiveEarly(n, before, us) ==
    LET es == before \o Tail(Kept(n)) \o Carried(n, us) \o <<Head(Kept(n))>>
    IN  /\ Handles(es, bundle) \/ Ends(es)
        /\ due' = (n :> ToSet(us)) @@ due

Receive(n, before, us) ==
    LET es == before \o Carried(n, us) \o Kept(n)
    IN  /\ Handles(es, bundle) \/ Ends(es)
        /\ due' = (n :> ToSet(us)) @@ due

ReceiveNew ==
    /\ 1 < fresh /\ fresh <= MaxNodes /\ NodesOf(Foreign) = {}
    /\ Receive(fresh, <<Row(fresh, Coll!Value(Foreign, "ONCHAIN"))>>, <<Sender1>>)
    /\ fresh' = fresh + 1 /\ UNCHANGED <<pays, dropped>>

\* A value that was paid comes back, with a longer history.
ReceiveAgain ==
    /\ \E n \in InState("ONCHAIN") :
          \E us \in {Prf!ProofsOf(s.p, n) \o <<Sender2>>} : Receive(n, <<>>, us)
    /\ UNCHANGED <<fresh, pays, dropped>>

\* _check_and_convert_verified_to_unspent, of the values that are due.
ConvertVerified ==
    /\ \E n \in InState("VERIFIED") : Handles(<<Move(n, "UNSPENT")>>, bundle)
    /\ UNCHANGED <<fresh, pays, due, dropped>>

\* cleanup_confirmed_values: the values alone.
CleanupConfirmed ==
    /\ InState("CONFIRMED") # {}
    /\ s' = [s EXCEPT !.c = Coll!Cleaned(@)]
    /\ UNCHANGED <<fresh, bundle, pays, failures, crashes, due, dropped>>

\* AccountProofManager.remove_value
Dropping(n) ==
    LET us == Prf!UnitsOfNode(s.p.mem, n)
    IN  FlattenSeq([i \in DOMAIN us |-> <<On("unmap", n, us[i], FALSE),
                                          On("release", n, us[i], FALSE)>>])
        \o <<On("forget", n, 0, FALSE)>>

DroppingAll(S) == LET q == SetToSeq(S) IN FlattenSeq([i \in DOMAIN q |-> Dropping(q[i])])

\* validate_vpb_integrity: the proofs of values that are gone are removed,
\* unless the account still knows the name of one.
ValidateIntegrity ==
    LET orphans == DOMAIN s.p.mem \ DOMAIN s.c.val
        es == DroppingAll(orphans)
    IN  /\ Coll!Intact(s.c) /\ s.named \subseteq DOMAIN s.c.val /\ orphans # {}
        /\ Handles(es, bundle) \/ Ends(es)
        /\ dropped' = TRUE
        /\ UNCHANGED <<fresh, pays, due>>

\* clear_all_data
ClearAllData ==
    LET es == <<On("clear values", 0, 0, TRUE)>> \o DroppingAll(DOMAIN s.p.mem)
              \o <<On("clear indexes", 0, 0, TRUE)>>
    IN  /\ DOMAIN s.c.val # {}
        /\ Handles(es, Nobody) \/ Ends(es)
        /\ dropped' = TRUE
        /\ UNCHANGED <<fresh, pays, due>>

\* The process ends between two handlers.
Restart ==
    /\ s' = Restarted(s)
    /\ bundle' = Nobody
    /\ UNCHANGED <<fresh, pays, failures, crashes, due, dropped>>

Next ==
    \/ InitializeFromGenesis \/ Pay \/ TransactionSent \/ ReceiveNew \/ ReceiveAgain
    \/ ConvertVerified \/ CleanupConfirmed \/ ValidateIntegrity \/ ClearAllData \/ Restart

Spec == Init /\ [][Next]_vaultVars

-----------------------------------------------------------------------------
Proven(n) == ToSet(Prf!UnitsOfNode(s.p.maps, n)) \cap DOMAIN s.p.units

\* A value that can be spent has its index and the units it came with in the
\* databases, also after a crash within the receipt (the order of
\* receive_vpb_from_others), as long as no commit fails.  Of the genesis unit
\* only until proofs are removed: see GenesisUnitKept.
SpendableIsDocumented ==
    failures = 0 =>
        \A r \in ToSet(s.c.rows) :
            r.val.state \in {"UNSPENT", "VERIFIED"} /\ r.node \in DOMAIN due =>
                /\ due[r.node] \ (IF dropped THEN {GenesisUnit} ELSE {}) \subseteq Proven(r.node)
                /\ r.node \in s.x

\* A unit is counted at least as often as values refer to it: the removal of
\* one value leaves the others their proof, whichever commits fail
\* (add_proof_unit_optimized, remove_value_proof_mapping).
CountedUnits ==
    \A u \in DOMAIN s.p.units \ {GenesisUnit} :
        Cardinality({n \in DOMAIN s.p.maps : u \in ToSet(s.p.maps[n])}) <= s.p.units[u]

\* As long as no commit fails, a restart changes no value and no proof of one
\* that is in the collection (_load_existing_values, _load_existing_mappings).
RestartInvisible ==
    failures = 0 =>
        LET k == Restarted(s)
            proofs(p, n) == ToSet(Prf!ProofsOf(p, n)) \ {GenesisUnit}
        IN  /\ k.c.val = s.c.val
            /\ \A n \in DOMAIN s.c.val : proofs(k.p, n) = proofs(s.p, n)

VaultSound == SpendableIsDocumented /\ CountedUnits /\ RestartInvisible

\* Without its condition: the genesis unit is stored once for every value, with
\* a count of one, and goes with the first value whose proofs are removed
\* (batch_add_proof_units).
GenesisUnitKept ==
    failures = 0 =>
        \A n \in DOMAIN due \cap DOMAIN s.c.val :
            GenesisUnit \in due[n] => GenesisUnit \in Proven(n)
=============================================================================
