------------------------------ MODULE ChainState ------------------------------
(***************************************************************************)
(* What EZ_V2/chain.py keeps of the chain in memory, what                  *)
(* EZ_V2/consensus_store.py keeps of it on disk, and what each operation   *)
(* does to them.  The module has no variables: ChainNodes holds one chain  *)
(* and one disk per consensus node and applies these operators to them.    *)
(*                                                                         *)
(* A block hash covers the heights, senders and bundle bodies of the whole *)
(* ancestry and nothing else, so a block's id is that sequence.  Keys,     *)
(* signatures, size limits and timestamps are left out: an honest wallet's *)
(* bundle passes all those tests.                                          *)
(***************************************************************************)
EXTENDS Integers, FiniteSets, Sequences

CONSTANTS Accounts, Bodies,
          Window            \* receipt_cache_blocks

ASSUME WindowAssumption == Window \in Nat \ {0}

\* BundleSubmission: the body is the sidecar, the rest is the envelope.
Bundles == [sender : Accounts, seq : Nat \ {0}, body : Bodies, expiry : Nat, fee : Nat]

BlockIds == Seq(SUBSET (Accounts \X Bodies))

\* BundleRef; the block id fixes the height.
Refs == [seq : Nat \ {0}, block : BlockIds, body : Bodies]

\* An account without a leaf: the code's None, and sequence number 0.
NoRef == [seq |-> 0, block |-> <<>>, body |-> "none"]

Leaves == [Accounts -> Refs \cup {NoRef}]

\* A diff entry is the bundle and the prev_ref of the new leaf; the state root
\* is the leaves it commits to.
Blocks == [id : BlockIds, entries : SUBSET [bundle : Bundles, prev : Refs \cup {NoRef}],
           root : Leaves]

Receipts == [sender : Accounts, seq : Nat \ {0}, block : BlockIds, prev : Refs \cup {NoRef}]

\* ChainStateV2: the blocks, the account leaves, the receipt cache with its
\* proof batches (one per block), and the bundle pool.
Chains == [blocks : Seq(Blocks), leaves : Leaves, receipts : SUBSET Receipts,
           batches : SUBSET BlockIds, pool : SUBSET Bundles]

\* ConsensusStateStore: rows of blocks, receipts and batches, and the singleton
\* row, which names the block saved last (<<>> before the first one).
Disks == [blocks : SUBSET Blocks, receipts : SUBSET Receipts,
          batches : SUBSET BlockIds, last : BlockIds]

EmptyChain == [blocks |-> <<>>, leaves |-> [a \in Accounts |-> NoRef], receipts |-> {},
               batches |-> {}, pool |-> {}]

EmptyDisk == [blocks |-> {}, receipts |-> {}, batches |-> {}, last |-> <<>>]

Height(c) == Len(c.blocks)

Tip(c) == IF c.blocks = <<>> THEN <<>> ELSE c.blocks[Len(c.blocks)].id

-----------------------------------------------------------------------------
(* The bundle pool *)

PendingOf(c, a) == {p \in c.pool : p.sender = a}

\* Mutant: the account's next bundle may follow the one that is still pending.
AdmissibleOverPending(c, b) ==
    /\ b.expiry >= Height(c)
    /\ \/ b.seq = c.leaves[b.sender].seq + 1
       \/ \E p \in PendingOf(c, b.sender) : p.seq + 1 = b.seq

\* BundlePool.submit accepts b.
Admissible(c, b) ==
    /\ b.expiry >= Height(c)
    /\ \/ b.seq = c.leaves[b.sender].seq + 1
       \/ \E p \in PendingOf(c, b.sender) : p.seq = b.seq
    /\ \A p \in PendingOf(c, b.sender) :
          p.seq = b.seq /\ p.body = b.body /\ (p = b \/ b.fee > p.fee)

Submit(c, b) == [c EXCEPT !.pool = (@ \ PendingOf(c, b.sender)) \cup {b}]

\* Mutant: a finalized bundle stays in the pool.
UnfinalizedAll(pool, done) == pool

\* remove_finalized_bundle, for every entry of a block.
Unfinalized(pool, done) ==
    {p \in pool : \A b \in done : b.sender = p.sender => p.seq > b.seq}

-----------------------------------------------------------------------------
(* Blocks *)

BundlesOf(blk) == {e.bundle : e \in blk.entries}

Content(bundles) == {<<b.sender, b.body>> : b \in bundles}

\* Mutant: only an account's first bundle moves its leaf.
LeavesUnchanged(leaves, id, bundles) ==
    [a \in Accounts |->
        IF leaves[a] = NoRef /\ \E b \in bundles : b.sender = a
        THEN LET b == CHOOSE b \in bundles : b.sender = a
             IN  [seq |-> b.seq, block |-> id, body |-> b.body]
        ELSE leaves[a]]

\* Mutant: the leaf keeps the number of the bundle before.
LeavesBehind(leaves, id, bundles) ==
    [a \in Accounts |->
        IF \E b \in bundles : b.sender = a
        THEN LET b == CHOOSE b \in bundles : b.sender = a
             IN  [seq |-> b.seq - 1, block |-> id, body |-> b.body]
        ELSE leaves[a]]

LeavesAfter(leaves, id, bundles) ==
    [a \in Accounts |->
        IF \E b \in bundles : b.sender = a
        THEN LET b == CHOOSE b \in bundles : b.sender = a
             IN  [seq |-> b.seq, block |-> id, body |-> b.body]
        ELSE leaves[a]]

\* The block preview_block and build_block make of the whole pool.
NextBlock(c) ==
    LET id == Append(Tip(c), Content(c.pool))
    IN  [id |-> id,
         entries |-> {[bundle |-> b, prev |-> c.leaves[b.sender]] : b \in c.pool},
         root |-> LeavesAfter(c.leaves, id, c.pool)]

\* Mutant: the receipt refers to the leaf the block itself has just written.
ReceiptsAtNewLeaf(blk) ==
    {[sender |-> e.bundle.sender, seq |-> e.bundle.seq, block |-> blk.id,
      prev |-> blk.root[e.bundle.sender]] : e \in blk.entries}

ReceiptsOf(blk) ==
    {[sender |-> e.bundle.sender, seq |-> e.bundle.seq, block |-> blk.id, prev |-> e.prev]
        : e \in blk.entries}

\* Mutant: one row per sender.
ReplacingBySender(rows, new) == {r \in rows : \A x \in new : x.sender # r.sender} \cup new

\* A receipt row is keyed by sender and sequence number.
Replacing(rows, new) ==
    {r \in rows : \A x \in new : ~(x.sender = r.sender /\ x.seq = r.seq)} \cup new

\* ReceiptCache._prune: the last Window heights that have receipts.
Recent(rows, r) ==
    Cardinality({h \in {Len(x.block) : x \in rows} : h > Len(r.block)}) < Window

\* ReceiptCache.add for every receipt of a block.
Cached(rows, blk) ==
    LET all == Replacing(rows, ReceiptsOf(blk)) IN {r \in all : Recent(all, r)}

\* add_proof_batch: batches leave the cache with the receipts of their height.
BatchesAfter(batches, rows, blk) ==
    {id \in batches : \E r \in rows : Len(r.block) = Len(id)} \cup {blk.id}

\* What a block does to the chain once it is built or accepted.
Advance(c, blk) ==
    LET rows == Cached(c.receipts, blk)
    IN  [blocks |-> Append(c.blocks, blk),
         leaves |-> LeavesAfter(c.leaves, blk.id, BundlesOf(blk)),
         receipts |-> rows,
         batches |-> BatchesAfter(c.batches, rows, blk),
         pool |-> Unfinalized(c.pool, BundlesOf(blk))]

\* ChainStateV2.apply_block accepts blk.
Applicable(c, blk) ==
    /\ Len(blk.id) = Height(c) + 1
    /\ SubSeq(blk.id, 1, Height(c)) = Tip(c)
    /\ blk.id[Len(blk.id)] = Content(BundlesOf(blk))
    /\ \A d, e \in blk.entries : d.bundle.sender = e.bundle.sender => d = e
    /\ \A e \in blk.entries :
          /\ e.bundle.expiry >= Len(blk.id)
          /\ e.prev = c.leaves[e.bundle.sender]
          /\ e.bundle.seq = c.leaves[e.bundle.sender].seq + 1
    /\ blk.root = LeavesAfter(c.leaves, blk.id, BundlesOf(blk))

-----------------------------------------------------------------------------
(* The store *)

\* The primary key of blocks_v2 is the height.
CanSave(d, blk) == \A x \in d.blocks : Len(x.id) # Len(blk.id)

\* Mutant: the store keeps one block less than the window.
InStoreWindowShort(id, tip) == Len(id) > Len(tip) - Window + 1

\* The rows save_applied_block keeps: height >= tip - Window + 1.
InStoreWindow(id, tip) == Len(id) > Len(tip) - Window

\* save_applied_block: one transaction.
SaveBlock(d, blk) ==
    [blocks |-> d.blocks \cup {blk},
     receipts |-> {r \in Replacing(d.receipts, ReceiptsOf(blk)) : InStoreWindow(r.block, blk.id)},
     batches |-> {id \in d.batches \cup {blk.id} : InStoreWindow(id, blk.id)},
     last |-> blk.id]

\* list_blocks, by height.
StoredAt(d, h) == CHOOSE b \in d.blocks : Len(b.id) = h

\* The chain that applying the first n stored blocks gives.
Replay(d) ==
    LET replay[n \in 0..Cardinality(d.blocks)] ==
            IF n = 0 THEN EmptyChain ELSE Advance(replay[n - 1], StoredAt(d, n))
    IN  replay

\* load_chain_state: every stored block must apply on top of the ones before
\* it and the last one must be the one the singleton row names.
Loadable(d) ==
    LET n == Cardinality(d.blocks)
    IN  /\ {Len(b.id) : b \in d.blocks} = 1..n
        /\ \A h \in 1..n : Applicable(Replay(d)[h - 1], StoredAt(d, h))
        /\ Tip(Replay(d)[n]) = d.last

\* The stored blocks with the state their replay gives.  The pool is not
\* stored: it starts empty.
Load(d) ==
    LET n == Cardinality(d.blocks)
    IN  [blocks |-> [h \in 1..n |-> StoredAt(d, h)],
         leaves |-> Replay(d)[n].leaves,
         receipts |-> Replay(d)[n].receipts,
         batches |-> Replay(d)[n].batches,
         pool |-> {}]

=============================================================================
