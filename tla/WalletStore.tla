----------------------------- MODULE WalletStore -----------------------------
(***************************************************************************)
(* One account's wallet (EZ_V2/wallet.py over the tables of                *)
(* EZ_V2/storage.py): what it keeps, which rows each operation writes, and *)
(* when a receipt or a transfer package is accepted.  No variables:        *)
(* Payments holds one store per account.                                   *)
(*                                                                         *)
(* Money is a set of units and a value range is an interval of them.       *)
(* Every bundle has a number of its own, its sender's n-th attempt, in     *)
(* place of nonce and timestamps; record ids are the attempt that cut the  *)
(* record and its range.  Proofs, hashes and checkpoints are left out.     *)
(***************************************************************************)
EXTENDS Integers, FiniteSets, Sequences

CONSTANTS Accounts,
          LastUnit,         \* the units are 1..LastUnit
          Genesis           \* account -> the ranges it starts with

Units == 1..LastUnit

Ranges == {m..n : m, n \in Units} \ {{}}

ASSUME GenesisAssumption ==
    /\ LastUnit \in Nat \ {0}
    /\ Genesis \in [Accounts -> SUBSET Ranges]

Statuses == {"spendable", "pending", "missing", "archived"}

\* submit_payment makes bundles of one transaction.
Bundles == [sender : Accounts, n : Nat \ {0}, seq : Nat \ {0}, to : Accounts,
            values : SUBSET Ranges]

\* ConfirmedBundleUnit: a bundle and the height of its receipt.
ConfirmedUnits == [bundle : Bundles, height : Nat \ {0}]

\* chain is confirmed_bundle_chain, newest first.  by and n are the account and
\* attempt that cut the range.
Records == [by : Accounts, n : Nat, value : Ranges, status : Statuses, acquired : Nat,
            chain : Seq(ConfirmedUnits)]

\* TransferPackage: the record as the sender archived it.
Packages == [bundle : Bundles, value : Ranges, acquired : Nat, chain : Seq(ConfirmedUnits)]

\* The tables value_records, pending_bundles, receipts, confirmed_units and
\* accepted_transfer_packages.
Stores == [records : SUBSET Records, pending : SUBSET Bundles,
           receipts : SUBSET ConfirmedUnits, confirmed : SUBSET ConfirmedUnits,
           accepted : SUBSET Packages]

\* add_genesis_value
FirstStore(a) ==
    [records |-> {[by |-> a, n |-> 0, value |-> v, status |-> "spendable", acquired |-> 0,
                   chain |-> <<>>] : v \in Genesis[a]},
     pending |-> {}, receipts |-> {}, confirmed |-> {}, accepted |-> {}]

Seqs(rows) == {x.seq : x \in rows}

ReceiptSeqs(s) == {u.bundle.seq : u \in s.receipts}

\* Mutant: only pending rows are looked at.
NextSequenceOfPending(s) ==
    LET used == Seqs(s.pending)
    IN  1 + (IF used = {} THEN 0 ELSE CHOOSE m \in used : \A k \in used : k <= m)

\* next_sequence
NextSequence(s) ==
    LET used == ReceiptSeqs(s) \cup Seqs(s.pending)
    IN  1 + (IF used = {} THEN 0 ELSE CHOOSE m \in used : \A k \in used : k <= m)

-----------------------------------------------------------------------------
(* Values *)

\* The maximal intervals of a set of units.
Intervals(S) ==
    {I \in Ranges : I \subseteq S /\ ~\E J \in Ranges : I \subseteq J /\ I # J /\ J \subseteq S}

\* Mutant: the rest is one piece, also when nothing is left.
PartitionInTwo(range, targets) == targets \cup {range \ UNION targets}

\* _partition_range: the targets and what is left between them.
Partition(range, targets) == targets \cup Intervals(range \ UNION targets)

Spendable(records) == {r \in records : r.status = "spendable"}

Prefixes(range) == {v \in Ranges : v \subseteq range /\ \A x \in range, y \in v : x < y => x \in v}

\* What select_payment_ranges may pick: whole records and a prefix of one more.
\* Which of the plans it prefers is left open.
Selections(records) ==
    {{r.value : r \in whole} : whole \in SUBSET Spendable(records)} \cup
    UNION {{{r.value : r \in whole} \cup {v} :
                v \in UNION {Prefixes(r.value) : r \in Spendable(records) \ whole}} :
            whole \in SUBSET Spendable(records)}

\* _assign_targets_to_records, for one target.
SourceOf(records, v) == CHOOSE r \in Spendable(records) : v \subseteq r.value

\* Mutant: the change of a split stays spendable while the bundle is pending.
RecordsWithoutChange(records, b) ==
    LET touched == {SourceOf(records, v) : v \in b.values}
        piece(r, v) == [r EXCEPT !.by = b.sender, !.n = b.n, !.value = v,
                                 !.status = IF v \in b.values THEN "pending" ELSE "spendable"]
    IN  (records \ touched) \cup
        UNION {{piece(r, v) : v \in Partition(r.value, {w \in b.values : SourceOf(records, w) = r})}
                : r \in touched}

\* build_bundle: the touched records are cut into pending pieces.
RecordsWithPending(records, b) ==
    LET touched == {SourceOf(records, v) : v \in b.values}
        piece(r, v) == [r EXCEPT !.by = b.sender, !.n = b.n, !.value = v, !.status = "pending"]
    IN  (records \ touched) \cup
        UNION {{piece(r, v) : v \in Partition(r.value, {w \in b.values : SourceOf(records, w) = r})}
                : r \in touched}

\* pending_record_ids
IsPieceOf(r, b) == r.by = b.sender /\ r.n = b.n

\* mark_receipt_missing
RecordsWithMissing(records, b) ==
    {IF IsPieceOf(r, b) /\ r.status = "pending" THEN [r EXCEPT !.status = "missing"] ELSE r
        : r \in records}

\* rollback_pending_bundle
RecordsRolledBack(records, b) ==
    {IF IsPieceOf(r, b) THEN [r EXCEPT !.status = "spendable"] ELSE r : r \in records}

\* Mutant: a value that came in after the bundle's block gets its unit too.
ConfirmedRecordAlways(r, u) ==
    IF r.status = "archived" THEN r
    ELSE LET extended == [r EXCEPT !.chain = <<u>> \o @]
         IN  IF IsPieceOf(r, u.bundle)
             THEN [extended EXCEPT !.status =
                      IF r.value \in u.bundle.values THEN "archived" ELSE "spendable"]
             ELSE IF r.status = "pending" THEN r
             ELSE [extended EXCEPT !.status = "spendable"]

\* Mutant: the pieces that were paid out become spendable again.
ConfirmedRecordKept(r, u) ==
    IF r.status = "archived" \/ (~IsPieceOf(r, u.bundle) /\ r.acquired >= u.height) THEN r
    ELSE [r EXCEPT !.chain = <<u>> \o @, !.status = "spendable"]

\* _apply_confirmed_unit_to_records, for one record.
ConfirmedRecord(r, u) ==
    IF r.status = "archived" THEN r
    ELSE LET extended == [r EXCEPT !.chain = <<u>> \o @]
         IN  IF IsPieceOf(r, u.bundle)
             THEN [extended EXCEPT !.status =
                      IF r.value \in u.bundle.values THEN "archived" ELSE "spendable"]
             ELSE IF r.status = "pending" \/ r.acquired >= u.height THEN r
             ELSE [extended EXCEPT !.status = "spendable"]

RecordsConfirmed(records, u) == {ConfirmedRecord(r, u) : r \in records}

-----------------------------------------------------------------------------
(* What a wallet accepts *)

\* on_receipt_confirmed: the proof fails unless the receipt is for the very
\* bundle that is pending.
AcceptsReceipt(s, u) ==
    /\ u.bundle \in s.pending
    /\ u.bundle.seq = 1 \/ \E p \in s.confirmed : p.bundle.seq = u.bundle.seq - 1

\* Mutant: a package for one range of the bundle only.
PackagesOfOne(records, u) ==
    LET sent == {x \in records : /\ x.status = "archived" /\ x.value \in u.bundle.values
                                 /\ x.chain # <<>> /\ Head(x.chain) = u}
        first == {x \in sent : \A y \in sent : x.value = y.value \/
                                   \E m \in x.value : \A n \in y.value : m < n}
    IN  {[bundle |-> u.bundle, value |-> r.value, acquired |-> r.acquired, chain |-> r.chain]
            : r \in first}

\* _on_receipt: one package for each range of the bundle, cut by
\* export_transfer_package from the archived record.
PackagesOf(records, u) ==
    {[bundle |-> u.bundle, value |-> r.value, acquired |-> r.acquired, chain |-> r.chain]
        : r \in {x \in records : /\ x.status = "archived"
                                 /\ x.value \in u.bundle.values
                                 /\ x.chain # <<>> /\ Head(x.chain) = u}}

\* validate_transfer_package: the sender's segment ends with the target
\* transaction, is linked by prev_ref, spends the range only there, and starts
\* after the range was acquired.
Valid(p) ==
    /\ p.chain # <<>>
    /\ Head(p.chain).bundle = p.bundle
    /\ p.value \in p.bundle.values
    /\ \A v \in p.bundle.values \ {p.value} : v \cap p.value = {}
    /\ \A i \in 2..Len(p.chain) :
          /\ p.chain[i - 1].bundle.seq = p.chain[i].bundle.seq + 1
          /\ \A v \in p.chain[i].bundle.values : v \cap p.value = {}
    /\ p.chain[Len(p.chain)].height > p.acquired

\* The record receive_transfer adds.
ReceivedRecord(p) ==
    [by |-> p.bundle.sender, n |-> p.bundle.n, value |-> p.value, status |-> "spendable",
     acquired |-> Head(p.chain).height, chain |-> <<>>]

-----------------------------------------------------------------------------
(* The transactions an operation commits, one after the other *)

\* What one of them writes, and where.
Transactions ==
    [table : {"records"}, rows : SUBSET Records] \cup
    [table : {"pending", "unpending"}, row : Bundles] \cup
    [table : {"receipts", "confirmed"}, row : ConfirmedUnits] \cup
    [table : {"accepted"}, row : Packages]

\* Writing one table.  _persist_records replaces all records by those the
\* operation computed from what it had read.
Apply(s, w) ==
    CASE w.table = "records" -> [s EXCEPT !.records = w.rows]
      [] w.table = "pending" -> [s EXCEPT !.pending =
                                    {b \in @ : b.seq # w.row.seq} \cup {w.row}]
      [] w.table = "unpending" -> [s EXCEPT !.pending = {b \in @ : b.seq # w.row.seq}]
      [] w.table = "receipts" -> [s EXCEPT !.receipts =
                                    {u \in @ : u.bundle.seq # w.row.bundle.seq} \cup {w.row}]
      [] w.table = "confirmed" -> [s EXCEPT !.confirmed = @ \cup {w.row}]
      [] w.table = "accepted" -> [s EXCEPT !.accepted = @ \cup {w.row}]

\* build_bundle
BuildWrites(s, b) ==
    <<[table |-> "pending", row |-> b],
      [table |-> "records", rows |-> RecordsWithPending(s.records, b)]>>

\* rollback_pending_bundle
RollbackWrites(s, b) ==
    <<[table |-> "unpending", row |-> b],
      [table |-> "records", rows |-> RecordsRolledBack(s.records, b)]>>

\* mark_receipt_missing
MissingWrites(s, b) == <<[table |-> "records", rows |-> RecordsWithMissing(s.records, b)]>>

\* Mutant: the pending row stays.
ConfirmWritesKeepPending(s, u) ==
    <<[table |-> "receipts", row |-> u],
      [table |-> "confirmed", row |-> u],
      [table |-> "records", rows |-> RecordsConfirmed(s.records, u)]>>

\* on_receipt_confirmed
ConfirmWrites(s, u) ==
    <<[table |-> "receipts", row |-> u],
      [table |-> "confirmed", row |-> u],
      [table |-> "unpending", row |-> u.bundle],
      [table |-> "records", rows |-> RecordsConfirmed(s.records, u)]>>

\* receive_transfer
ReceiveWrites(s, p) ==
    <<[table |-> "records", rows |-> s.records \cup {ReceivedRecord(p)}],
      [table |-> "accepted", row |-> p]>>

=============================================================================
