----------------------------- MODULE V1History -----------------------------
(***************************************************************************)
(* The history that goes with a V1 value (EZ_V1/EZ_VPB: proof units and    *)
(* block index), how an account keeps it while its bundles enter blocks,   *)
(* how it is handed on with a payment, and how the recipient verifies it,  *)
(* from a checkpoint of its own when it has one (EZ_V1/EZ_VPB_Validator,   *)
(* EZ_V1/EZ_CheckPoint).  The messages are those of                        *)
(* modules/ez_p2p/nodes/account_node.py; they arrive in any order.  Its    *)
(* handler of a transfer raises at line 197 (MainChainInfo lacks an        *)
(* argument); Deliver is the verification and the receipt it would go on   *)
(* with, as the integration tests call them.                               *)
(*                                                                         *)
(* A value is a range of units [lo, num].  A proof unit names the block    *)
(* and the sender of its bundle and verifies against that block alone; the *)
(* filter of a block is the set of its senders.  A payment of a bundle     *)
(* moves one value.  The recipient verifies against the whole main chain.  *)
(* The field `clean` of a record is history: see Clean.                    *)
(***************************************************************************)
EXTENDS Naturals, Sequences, SequencesExt, FiniteSetsExt

CONSTANTS Accounts, Treasury, Genesis, Nobody, MaxBlocks

VARIABLES
    coll,         \* the records of each account: value, state, block index, proofs
    queued,       \* bundles in the transaction pool
    ledger,       \* the blocks after the genesis block: sets of bundles
    proofsDue,    \* PROOF_TO_SENDER messages on their way
    vpbs,         \* VPB_TRANSFER messages on their way
    checkpoints   \* of each account: [val, height], the owner being itself

historyVars == <<coll, queued, ledger, proofsDue, vpbs, checkpoints>>

UnitsOf(v) == v.lo .. (v.lo + v.num - 1)
Overlap(v, w) == UnitsOf(v) \cap UnitsOf(w) # {}
With(s, x) == IF x \in ToSet(s) THEN s ELSE Append(s, x)

\* A value as it is left by split_value: no history of its own.
Bare(v) == [val |-> v, state |-> "UNSPENT", heights |-> <<>>, owners |-> <<>>,
            proofs |-> <<>>, clean |-> FALSE]

\* create_genesis_vpb_for_account
Born(v) == [Bare(v) EXCEPT !.heights = <<0>>, !.owners = <<[at |-> 0, to |-> Treasury]>>,
                           !.proofs = <<[at |-> 0, from |-> Nobody]>>, !.clean = TRUE]

\* initialize_from_genesis_batch
Init ==
    /\ coll = [a \in Accounts |-> IF a = Treasury THEN {Born(v) : v \in Genesis} ELSE {}]
    /\ queued = {} /\ ledger = <<>> /\ proofsDue = {} /\ vpbs = {}
    /\ checkpoints = [a \in Accounts |-> {}]

Heights == 0..Len(ledger)
Sends(a, h) == h > 0 /\ \E b \in ledger[h] : b.from = a

\* The payments of the bundle a proof unit carries; the genesis bundle pays
\* the genesis values to the treasury.
PaymentsOf(p) ==
    IF p.at = 0 THEN {[val |-> v, to |-> Treasury] : v \in Genesis}
    ELSE UNION {b.pays : b \in {c \in ledger[p.at] : c.from = p.from}}

-----------------------------------------------------------------------------
(* Paying. *)

Free(a) == {r \in coll[a] : r.state = "UNSPENT"}

\* create_batch_transactions and confirm_multi_transaction, of values that are
\* paid as they are.
PayWhole(a) ==
    \E S \in SUBSET Free(a) \ {{}} : \E to \in [S -> Accounts \ {a}] :
        /\ coll' = [coll EXCEPT ![a] = (@ \ S) \cup {[r EXCEPT !.state = "CONFIRMED"] : r \in S}]
        /\ queued' = queued \cup {[from |-> a, pays |-> {[val |-> r.val, to |-> to[r]] : r \in S}]}

\* The same with change: the node keeps its history and becomes the part that
\* is paid, the change is a new node.
PayPart(a) ==
    \E r \in Free(a), b \in Accounts \ {a}, n \in 1..Max({v.num : v \in Genesis}) :
        /\ n < r.val.num
        /\ LET paid == [r.val EXCEPT !.num = n]
               rest == [lo |-> r.val.lo + n, num |-> r.val.num - n]
           IN  /\ coll' = [coll EXCEPT ![a] = (@ \ {r}) \cup
                              {[r EXCEPT !.state = "CONFIRMED", !.val = paid, !.clean = FALSE],
                               Bare(rest)}]
               /\ queued' = queued \cup {[from |-> a, pays |-> {[val |-> paid, to |-> b]}]}

\* on_create_and_submit.  The pool holds one bundle of a submitter; what a
\* refused one leaves behind is left out.
Submit(a) ==
    /\ Len(ledger) < MaxBlocks
    /\ \A b \in queued : b.from # a
    /\ PayWhole(a) \/ PayPart(a)
    /\ UNCHANGED <<ledger, proofsDue, vpbs, checkpoints>>

\* A round of miner_loop.
Mine ==
    /\ Len(ledger) < MaxBlocks /\ queued # {}
    /\ ledger' = Append(ledger, queued)
    /\ queued' = {}
    /\ proofsDue' = proofsDue \cup {[at |-> Len(ledger) + 1, of |-> b] : b \in queued}
    /\ UNCHANGED <<coll, vpbs, checkpoints>>

-----------------------------------------------------------------------------
(* The sender's own records once its bundle is in a block. *)

\* add_block_height_to_index, without a change of the owner.  An index without
\* an owner cannot be stored: a value that has none stays without.
Listed(r, h) == IF r.heights = <<>> THEN r ELSE [r EXCEPT !.heights = With(@, h)]

\* The same with the new owner (add_ownership_change).
HandedOn(r, h, to) ==
    [r EXCEPT
        !.heights = With(@, h),
        !.owners = IF \E i \in DOMAIN @ : @[i].at = h
                   THEN [i \in DOMAIN @ |-> IF @[i].at = h THEN [at |-> h, to |-> to] ELSE @[i]]
                   ELSE Append(@, [at |-> h, to |-> to])]

\* add_proof_unit_optimized
Proven(r, p) == [r EXCEPT !.proofs = With(@, p)]

\* BUG: the blocks of other payments are not listed.
UpdatedTargetsOnly(r, c) ==
    LET pays == {p \in c.of.pays : p.val = r.val}
        proof == [at |-> c.at, from |-> c.of.from]
    IN  IF pays # {}
        THEN [Proven(HandedOn(r, c.at, (CHOOSE p \in pays : TRUE).to), proof) EXCEPT !.state = "ONCHAIN"]
        ELSE Proven(r, proof)

\* update_after_transaction_sent for one record.  Every record gets the proof,
\* but of those that are not paid only an UNSPENT one gets the height.
Updated(r, c) ==
    LET pays == {p \in c.of.pays : p.val = r.val}
        proof == [at |-> c.at, from |-> c.of.from]
    IN  IF pays # {}
        THEN [Proven(HandedOn(r, c.at, (CHOOSE p \in pays : TRUE).to), proof) EXCEPT !.state = "ONCHAIN"]
        ELSE IF r.state = "UNSPENT" THEN Proven(Listed(r, c.at), proof)
        ELSE Proven(r, proof)

\* History, no code: the record follows its holder's bundles.  They are
\* confirmed in the order of the chain, while the record is paid or UNSPENT,
\* and after the block that brought the value.
Clean(r, c) ==
    /\ r.clean
    /\ \A d \in proofsDue : d.of.from = c.of.from => d.at >= c.at
    /\ r.state = "UNSPENT" \/ \E p \in c.of.pays : p.val = r.val
    /\ \A i \in DOMAIN r.heights : r.heights[i] < c.at

\* BUG: the checkpoint covers the block of the payment itself.
CheckpointAtPayment(c) == c.at

\* The block up to which the sender vouches for what it paid.
CheckpointHeight(c) == c.at - 1

\* save_checkpoint: an upsert by the exact range.
Saved(known, c) ==
    LET paid == {p.val : p \in c.of.pays}
    IN  {k \in known : k.val \notin paid} \cup {[val |-> v, height |-> CheckpointHeight(c)] : v \in paid}

\* on_proof_to_sender: update_vpb_after_transaction_sent, and the records of
\* the values paid go to their recipients as they are now.
Confirm(c) ==
    LET a == c.of.from
        after == {[Updated(r, c) EXCEPT !.clean = Clean(r, c)] : r \in coll[a]}
    IN  /\ coll' = [coll EXCEPT ![a] = after]
        /\ checkpoints' = [checkpoints EXCEPT ![a] = Saved(@, c)]
        /\ proofsDue' = proofsDue \ {c}
        /\ vpbs' = vpbs \cup {[to |-> p.to, vpb |-> CHOOSE r \in after : r.val = p.val] : p \in c.of.pays}
        /\ UNCHANGED <<queued, ledger>>

-----------------------------------------------------------------------------
(* The verification of a record that arrives (verify_vpb_pair). *)

Increasing(s) == \A i, j \in DOMAIN s : i < j => s[i] < s[j]

\* _validate_block_index_list_structure and _validate_vpb_consistency.
WellFormed(r) ==
    /\ r.heights # <<>> /\ Increasing(r.heights)
    /\ Increasing([i \in DOMAIN r.owners |-> r.owners[i].at])
    /\ \A o \in ToSet(r.owners) : o.at \in ToSet(r.heights)
    /\ Len(r.proofs) = Len(r.heights)

\* find_containing_checkpoint: the exact range, else the highest one around it.
Trusted(a, v) ==
    LET exact == {k \in checkpoints[a] : k.val = v}
        around == {k \in checkpoints[a] : UnitsOf(v) \subseteq UnitsOf(k.val)}
        fit == IF exact # {} THEN exact ELSE around
    IN  {k \in fit : \A j \in fit : j.height <= k.height}

\* generate_vpb_slice, from height `start`.
Sliced(r, start) ==
    LET first == Min({i \in DOMAIN r.heights : r.heights[i] >= start})
        heights == SubSeq(r.heights, first, Len(r.heights))
    IN  [r EXCEPT !.heights = heights,
                  !.proofs = SubSeq(@, first, Len(@)),
                  !.owners = SelectSeq(@, LAMBDA o : o.at \in ToSet(heights))]

\* extract_owner_epochs: each listed block with the owner recorded last; the
\* blocks before the first record have none.
Epochs(r) ==
    LET recorded(h) == {o \in ToSet(r.owners) : o.at <= h}
        owner(h) == (CHOOSE o \in recorded(h) : \A q \in recorded(h) : q.at <= o.at).to
        owned == SelectSeq(r.heights, LAMBDA h : recorded(h) # {})
    IN  [i \in DOMAIN owned |-> [at |-> owned[i], owner |-> owner(owned[i])]]

\* BUG: the filters are not looked at.
AnyBlooms(r, epochs) == TRUE

\* verify_bloom_filter_consistency: a block in which the owner of the time
\* sent a bundle is listed.
BloomConsistent(r, epochs) ==
    \A i \in 1..(Len(epochs) - 1) : \A h \in epochs[i].at .. epochs[i + 1].at :
        Sends(epochs[i].owner, h) => h \in ToSet(r.heights)

\* The owner a block is checked to take the value from: none for the first
\* one, the owner of the checkpoint after a checkpoint.
PreviousOwner(a, trusted, epochs, i) ==
    IF i > 1 THEN epochs[i - 1].owner ELSE IF trusted # {} THEN a ELSE Nobody

\* _detect_double_spend_in_epoch: a block that changes the owner pays exactly
\* the value from the one to the other, any other one pays no unit of it.
PaysAsRecorded(v, e, previous, p) ==
    LET touching == {q \in PaymentsOf(p) : Overlap(q.val, v)}
        move == [val |-> v, to |-> e.owner]
    IN  IF e.at = 0 THEN touching = {move}
        ELSE IF previous \notin {Nobody, e.owner}
             THEN p.from = previous /\ touching = {move}
        ELSE touching = {}

\* verify_proof_units_and_detect_double_spend.  The proof of a block is the
\* one at the block's place in the list.
ProofsHold(a, trusted, r, epochs) ==
    \A i \in DOMAIN epochs :
        LET p == r.proofs[CHOOSE k \in DOMAIN r.heights : r.heights[k] = epochs[i].at]
        IN  /\ p.at = epochs[i].at
            /\ PaysAsRecorded(r.val, epochs[i], PreviousOwner(a, trusted, epochs, i), p)

\* Where the verification starts.
Start(trusted) == IF trusted = {} THEN 0 ELSE (CHOOSE k \in trusted : TRUE).height + 1

\* verify_vpb
Accepts(m) ==
    LET trusted == Trusted(m.to, m.vpb.val)
        start == Start(trusted)
        slice == Sliced(m.vpb, start)
        epochs == Epochs(slice)
    IN  /\ WellFormed(m.vpb)
        /\ start <= Last(m.vpb.heights)
        /\ epochs # <<>>
        /\ BloomConsistent(slice, epochs)
        /\ ProofsHold(m.to, trusted, slice, epochs)

-----------------------------------------------------------------------------
(* Receiving. *)

Sorted(S) == SetToSortSeq(S, LAMBDA x, y : x < y)

\* update_block_index_merge and the proofs, one by one: what arrives joins the
\* record that starts with the same unit.
Merged(old, r) ==
    LET owners == ToSet(r.owners) \cup
                  {o \in ToSet(old.owners) : \A q \in ToSet(r.owners) : q.at # o.at}
    IN  [old EXCEPT
            !.state = "VERIFIED",
            !.heights = Sorted(ToSet(@) \cup ToSet(r.heights)),
            !.owners = SetToSortSeq(owners, LAMBDA o, q : o.at < q.at),
            !.proofs = FoldLeft(With, @, r.proofs)]

\* History, no code: what is received is complete if no bundle of the
\* recipient was confirmed after the block that paid it.
StillClean(m, known) ==
    /\ m.vpb.clean /\ \A r \in known : r.clean
    /\ \A h \in Heights : h > Last(m.vpb.heights) /\ Sends(m.to, h) =>
           \E d \in proofsDue : d.at = h /\ d.of.from = m.to

\* What on_vpb_transfer is there for: verify_vpb, then receive_vpb_from_others.
Deliver(m) ==
    /\ vpbs' = vpbs \ {m}
    /\ LET known == {r \in coll[m.to] : r.val.lo = m.vpb.val.lo}
           keep(r) == [r EXCEPT !.clean = StillClean(m, known)]
       IN  coll' = IF ~Accepts(m) THEN coll
                   ELSE [coll EXCEPT ![m.to] = (@ \ known) \cup
                            IF known = {} THEN {keep([m.vpb EXCEPT !.state = "VERIFIED"])}
                            ELSE {keep(Merged(r, m.vpb)) : r \in known}]
    /\ UNCHANGED <<queued, ledger, proofsDue, checkpoints>>

\* _check_and_convert_verified_to_unspent, value by value.
Convert(a) ==
    /\ \E r \in coll[a] :
          /\ r.state = "VERIFIED"
          /\ coll' = [coll EXCEPT ![a] = (@ \ {r}) \cup {[r EXCEPT !.state = "UNSPENT"]}]
    /\ UNCHANGED <<queued, ledger, proofsDue, vpbs, checkpoints>>

Next ==
    \/ \E a \in Accounts : Submit(a) \/ Convert(a)
    \/ Mine
    \/ \E c \in proofsDue : Confirm(c)
    \/ \E m \in vpbs : Deliver(m)

Spec == Init /\ [][Next]_historyVars

-----------------------------------------------------------------------------
\* The owner of a genesis value after each block, read off the chain alone.
OwnerAt(v) ==
    LET owner[h \in Heights] ==
            IF h = 0 THEN Treasury
            ELSE LET heirs == {p.to : p \in UNION {{q \in b.pays : q.val = v} :
                                        b \in {c \in ledger[h] : c.from = owner[h - 1]}}}
                 IN  IF heirs = {} THEN owner[h - 1] ELSE CHOOSE a \in heirs : TRUE
    IN  owner

\* A block the history of a value has to account for.
Counts(v, h) == h = 0 \/ Sends(OwnerAt(v)[h - 1], h)

\* What a recipient accepts is its own by the chain, and the history it keeps
\* from where the verification began is exactly the blocks of the owners.
AcceptedIsTrue ==
    \A m \in vpbs : Accepts(m) =>
        /\ m.vpb.val \in Genesis
        /\ OwnerAt(m.vpb.val)[Last(m.vpb.heights)] = m.to
        /\ \A h \in Start(Trusted(m.to, m.vpb.val)) .. Last(m.vpb.heights) :
              h \in ToSet(m.vpb.heights) <=> Counts(m.vpb.val, h)

\* A payment whose history was kept as it should is accepted, whether the
\* recipient had the value before or not.
CleanIsAccepted == \A m \in vpbs : m.vpb.clean /\ m.vpb.val \in Genesis => Accepts(m)

\* The histories that travel with V1 values convince their recipients exactly
\* of what the chain says (update_after_transaction_sent, verify_vpb_pair,
\* update_block_index_merge, the checkpoint of on_proof_to_sender).
HistoryKept == AcceptedIsTrue /\ CleanIsAccepted

\* Without the condition: a payment that is in a block is accepted.
PaidValueAccepted == \A m \in vpbs : Accepts(m)
=============================================================================
