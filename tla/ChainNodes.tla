------------------------------ MODULE ChainNodes ------------------------------
(***************************************************************************)
(* The consensus nodes as keepers of the chain (EZ_V2/localnet.py and the  *)
(* block handlers of EZ_V2/network_host.py): bundles reach a node's pool,  *)
(* a driver makes the next block in memory and then saves it, announces    *)
(* it, and the other nodes fetch and apply what they lack.  Nodes crash    *)
(* between any two steps and restart from their disk; a save may fail and  *)
(* an announcement may be lost.                                            *)
(*                                                                         *)
(* In "legacy" mode the driver executes its pool as it is; in "mvp" mode   *)
(* the block is a preview that the driver applies like everyone else once  *)
(* the votes are in.  That no two drivers make blocks at one height is the *)
(* subject of ConsensusNet and assumed here.                               *)
(***************************************************************************)
EXTENDS ChainState

CONSTANTS Nodes,
          Drivers,          \* the nodes that make blocks
          Mode,             \* consensus_mode: "legacy" or "mvp"
          Expiries, Fees,   \* the envelopes wallets send
          Lossy,            \* announcements may be lost
          Threads,          \* handler threads of one node inside produce/apply
          MaxHeight, MaxCrashes, MaxSaveFailures

ASSUME NodesAssumption ==
    /\ IsFiniteSet(Nodes) /\ Nodes # {} /\ Drivers \subseteq Nodes
    /\ Mode \in {"legacy", "mvp"}
    /\ Expiries \subseteq Nat /\ Fees \subseteq Nat
    /\ Lossy \in BOOLEAN
    /\ Threads \in Nat \ {0}
    /\ MaxHeight \in Nat /\ MaxCrashes \in Nat /\ MaxSaveFailures \in Nat

VARIABLES
    up,         \* the node's process runs
    chain,      \* its chain in memory
    disk,       \* its store
    saving,     \* blocks in memory whose save_applied_block has not run yet
    notices,    \* announcements on their way to the node
    crashes, saveFailures

vars == <<up, chain, disk, saving, notices, crashes, saveFailures>>

\* A block to save; own when this node made it and will announce it.
Jobs == [block : Blocks, own : BOOLEAN]

Notices == [from : Nodes, block : Blocks]

TypeOK ==
    /\ up \in [Nodes -> BOOLEAN]
    /\ chain \in [Nodes -> Chains]
    /\ disk \in [Nodes -> Disks]
    /\ saving \in [Nodes -> SUBSET Jobs]
    /\ notices \in [Nodes -> SUBSET Notices]
    /\ crashes \in 0..MaxCrashes
    /\ saveFailures \in 0..MaxSaveFailures

Init ==
    /\ up = [n \in Nodes |-> TRUE]
    /\ chain = [n \in Nodes |-> EmptyChain]
    /\ disk = [n \in Nodes |-> EmptyDisk]
    /\ saving = [n \in Nodes |-> {}]
    /\ notices = [n \in Nodes |-> {}]
    /\ crashes = 0 /\ saveFailures = 0

-----------------------------------------------------------------------------

\* A handler thread is free to change the chain.
Free(n) == up[n] /\ Cardinality(saving[n]) < Threads

\* submit_bundle at a node that makes blocks; a bundle the pool refuses changes
\* nothing.
SubmitBundle(n, b) ==
    /\ n \in Drivers /\ up[n]
    /\ Admissible(chain[n], b)
    /\ chain' = [chain EXCEPT ![n] = Submit(@, b)]
    /\ UNCHANGED <<up, disk, saving, notices, crashes, saveFailures>>

\* The chain's next height is the driver's to make.
MayDrive(n) ==
    /\ \A m \in Nodes \ {n} : saving[m] = {}
    /\ \A m \in Nodes : \A b \in disk[m].blocks : Len(b.id) <= Height(chain[n])

\* Mutant: the block is announced before it is saved.
MakeBlockAnnouncing(n) ==
    /\ n \in Drivers
    /\ Free(n) /\ MayDrive(n)
    /\ chain[n].pool # {} /\ Height(chain[n]) < MaxHeight
    /\ LET blk == NextBlock(chain[n])
       IN  /\ chain' = [chain EXCEPT ![n] = Advance(@, blk)]
           /\ saving' = [saving EXCEPT ![n] = @ \cup {[block |-> blk, own |-> FALSE]}]
           /\ notices' = [m \in Nodes |->
                  IF m = n THEN notices[m] ELSE notices[m] \cup {[from |-> n, block |-> blk]}]
    /\ UNCHANGED <<up, disk, crashes, saveFailures>>

\* produce_block, or a round of mvp consensus up to its commit certificate
\* followed by the driver's own apply_block, which may refuse the block.
MakeBlock(n) ==
    /\ n \in Drivers
    /\ Free(n) /\ MayDrive(n)
    /\ chain[n].pool # {} /\ Height(chain[n]) < MaxHeight
    /\ LET blk == NextBlock(chain[n])
       IN  /\ Mode = "mvp" => Applicable(chain[n], blk)
           /\ chain' = [chain EXCEPT ![n] = Advance(@, blk)]
           /\ saving' = [saving EXCEPT ![n] = @ \cup {[block |-> blk, own |-> TRUE]}]
    /\ UNCHANGED <<up, disk, notices, crashes, saveFailures>>

\* The nodes an announcement reaches.
Reached(n) == IF Lossy THEN SUBSET (Nodes \ {n}) ELSE {Nodes \ {n}}

\* save_applied_block and, for a block of its own, _broadcast_block_announce.
Save(n, job) ==
    /\ up[n]
    /\ job \in saving[n]
    /\ CanSave(disk[n], job.block)
    /\ disk' = [disk EXCEPT ![n] = SaveBlock(@, job.block)]
    /\ saving' = [saving EXCEPT ![n] = @ \ {job}]
    /\ \E reached \in IF job.own THEN Reached(n) ELSE {{}} :
          notices' = [m \in Nodes |->
              IF m \in reached
              THEN notices[m] \cup {[from |-> n, block |-> job.block]}
              ELSE notices[m]]
    /\ UNCHANGED <<up, chain, crashes, saveFailures>>

\* The transaction fails and the handler's exception leaves memory as it is.
SaveFails(n, job) ==
    /\ up[n]
    /\ job \in saving[n]
    /\ saveFailures < MaxSaveFailures
    /\ saving' = [saving EXCEPT ![n] = @ \ {job}]
    /\ saveFailures' = saveFailures + 1
    /\ UNCHANGED <<up, chain, disk, notices, crashes>>

\* The block node n needs next to follow announcement m: the announced block
\* itself, or one fetched from the announcer's store.
Obtainable(n, m) ==
    {b \in {m.block} \cup (IF up[m.from] THEN disk[m.from].blocks ELSE {}) :
        Len(b.id) = Height(chain[n]) + 1}

\* _on_block_announce, one block of _sync_announced_blocks at a time.
SyncBlock(n, m) ==
    /\ Free(n)
    /\ m \in notices[n] /\ Height(chain[n]) < Len(m.block.id)
    /\ \E blk \in Obtainable(n, m) :
          /\ Applicable(chain[n], blk)
          /\ chain' = [chain EXCEPT ![n] = Advance(@, blk)]
          /\ saving' = [saving EXCEPT ![n] = @ \cup {[block |-> blk, own |-> FALSE]}]
    /\ UNCHANGED <<up, disk, notices, crashes, saveFailures>>

\* Mutant: an announcement that does not extend the chain at once is dropped.
EndSyncGap(n, m) ==
    /\ up[n]
    /\ m \in notices[n]
    /\ Len(m.block.id) # Height(chain[n]) + 1
    /\ notices' = [notices EXCEPT ![n] = @ \ {m}]
    /\ UNCHANGED <<up, chain, disk, saving, crashes, saveFailures>>

\* The announcement is answered: nothing is left to fetch, the block cannot be
\* had, or it does not apply.
EndSync(n, m) ==
    /\ up[n]
    /\ m \in notices[n]
    /\ \/ Height(chain[n]) >= Len(m.block.id)
       \/ ~\E blk \in Obtainable(n, m) : Applicable(chain[n], blk)
    /\ notices' = [notices EXCEPT ![n] = @ \ {m}]
    /\ UNCHANGED <<up, chain, disk, saving, crashes, saveFailures>>

Crash(n) ==
    /\ up[n]
    /\ crashes < MaxCrashes
    /\ crashes' = crashes + 1
    /\ up' = [up EXCEPT ![n] = FALSE]
    /\ chain' = [chain EXCEPT ![n] = EmptyChain]
    /\ saving' = [saving EXCEPT ![n] = {}]
    /\ notices' = [notices EXCEPT ![n] = {}]
    /\ UNCHANGED <<disk, saveFailures>>

\* V2ConsensusNode.__init__: a disk that does not load stops the start.
Restart(n) ==
    /\ ~up[n]
    /\ Loadable(disk[n])
    /\ up' = [up EXCEPT ![n] = TRUE]
    /\ chain' = [chain EXCEPT ![n] = Load(disk[n])]
    /\ UNCHANGED <<disk, saving, notices, crashes, saveFailures>>

\* The bundles wallets send: any sequence number up to the chain's length.
Inputs ==
    [sender : Accounts, seq : 1..MaxHeight, body : Bodies, expiry : Expiries, fee : Fees]

Next ==
    \E n \in Nodes :
        \/ \E b \in Inputs : SubmitBundle(n, b)
        \/ MakeBlock(n)
        \/ \E job \in saving[n] : Save(n, job) \/ SaveFails(n, job)
        \/ \E m \in notices[n] : SyncBlock(n, m) \/ EndSync(n, m)
        \/ Crash(n)
        \/ Restart(n)

Spec == Init /\ [][Next]_vars

\* The daemon's threads run on, and an operator restarts a node that is down.
FairSpec ==
    /\ Spec
    /\ \A n \in Nodes :
          /\ WF_vars(MakeBlock(n))
          /\ WF_vars(\E job \in saving[n] : Save(n, job))
          /\ WF_vars(\E m \in notices[n] : SyncBlock(n, m) \/ EndSync(n, m))
          /\ WF_vars(Restart(n))

-----------------------------------------------------------------------------
(* Safety *)

\* The builder checks neither sequence numbers nor duplicates: whatever waits in
\* a pool must be the account's next bundle, and its only one.
PoolExecutable ==
    \A n \in Nodes : \A p, q \in chain[n].pool :
        /\ p.seq = chain[n].leaves[p.sender].seq + 1
        /\ p.sender = q.sender => p = q

\* Whatever heights two nodes have on disk, they hold the same blocks there:
\* a node that lost its memory does not make another block of a height that
\* its peers already have from it.
StoresAgree ==
    \A n, m \in Nodes : \A b \in disk[n].blocks, d \in disk[m].blocks :
        Len(b.id) = Len(d.id) => b = d

\* A node between two operations has in memory what a restart would load, the
\* pool excepted, and the receipts and batches it rebuilds by replaying its
\* blocks are the rows that the store's own window keeps.
RestartChangesNothing ==
    \A n \in Nodes : up[n] /\ saving[n] = {} =>
        /\ Loadable(disk[n])
        /\ Load(disk[n]) = [chain[n] EXCEPT !.pool = {}]
        /\ disk[n].receipts = chain[n].receipts
        /\ disk[n].batches = chain[n].batches

\* Every disk loads.
CanReload == \A n \in Nodes : Loadable(disk[n])

\* on_receipt_confirmed builds on it: the receipt of an account's bundle points
\* to the bundle before it, in memory and on disk.
ReceiptsChain ==
    \A n \in Nodes : \A rows \in {chain[n].receipts, disk[n].receipts} : \A r \in rows :
        /\ r.prev.seq = r.seq - 1
        /\ \A s \in rows : s.sender = r.sender /\ s.seq = r.seq - 1 => r.prev.block = s.block

\* _on_receipt_request: memory first, then the store.
Served(n, a, seq) ==
    LET in(rows) == {r \in rows : r.sender = a /\ r.seq = seq}
    IN  IF in(chain[n].receipts) # {} THEN in(chain[n].receipts) ELSE in(disk[n].receipts)

\* A receipt that is served comes with its proof batch, and the bundles of the
\* node's last Window blocks are all served.
ReceiptsServed ==
    \A n \in Nodes : up[n] =>
        /\ \A r \in chain[n].receipts \cup disk[n].receipts :
              r.block \in chain[n].batches \cup disk[n].batches
        /\ \A h \in 1..Height(chain[n]) : h > Height(chain[n]) - Window =>
              \A b \in BundlesOf(chain[n].blocks[h]) :
                  \E r \in Served(n, b.sender, b.seq) : r.block = chain[n].blocks[h].id

-----------------------------------------------------------------------------
(* Refinement: the accounts' histories on the disk that is furthest *)

Furthest == CHOOSE n \in Nodes : \A m \in Nodes :
                Cardinality(disk[m].blocks) <= Cardinality(disk[n].blocks)

ConfirmedBundles(a) ==
    {b \in UNION {BundlesOf(blk) : blk \in disk[Furthest].blocks} : b.sender = a}

\* In the order of their sequence numbers; a repeated or skipped number would
\* leave a hole that no step of Ledger makes.
History == [a \in Accounts |->
    [i \in 1..Cardinality(ConfirmedBundles(a)) |->
        IF \E b \in ConfirmedBundles(a) : b.seq = i
        THEN LET b == CHOOSE b \in ConfirmedBundles(a) : b.seq = i IN <<b.seq, b.body>>
        ELSE <<0, "none">>]]

L == INSTANCE Ledger WITH history <- History

\* The nodes together keep one ledger (Ledger.tla).
LedgerSpec == L!Spec

-----------------------------------------------------------------------------
(* Liveness *)

\* A bundle in a driver's pool that cannot expire reaches a block, unless the driver
\* loses its pool or it is replaced (MakeBlock drops what has expired and goes on).
PendingIsConfirmed ==
    \A n \in Drivers : \A a \in Accounts :
        (up[n] /\ \E b \in PendingOf(chain[n], a) : b.expiry >= MaxHeight) ~>
            ((\A b \in PendingOf(chain[n], a) : b.expiry < MaxHeight) \/ Height(chain[n]) = MaxHeight)

\* A block on one disk reaches every disk.
BlocksSpread ==
    \A h \in 1..MaxHeight :
        (\E n \in Nodes : \E b \in disk[n].blocks : Len(b.id) >= h) ~>
            (\A n \in Nodes : \E b \in disk[n].blocks : Len(b.id) = h)

=============================================================================
