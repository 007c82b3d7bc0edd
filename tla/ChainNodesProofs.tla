--------------------------- MODULE ChainNodesProofs ---------------------------
(***************************************************************************)
(* Invariants of ChainNodes for any nodes, accounts, bodies and window.    *)
(*                                                                         *)
(* IInv: the pools stay executable, and no two stores disagree about a     *)
(* height.  It follows a block from the driver that makes it: it is        *)
(* waiting to be saved, or on a disk, or announced and then on a disk too; *)
(* and whatever is known of a height in any of the three places is one     *)
(* block.                                                                  *)
(*                                                                         *)
(* ReceiptState: the receipts of a chain point back along the leaves, the  *)
(* cache has those of the last Window blocks, and the rows of a store are  *)
(* of blocks in it.                                                        *)
(*                                                                         *)
(* ReloadState, for one handler thread and no failing save: a store        *)
(* replays to the memory it was saved from, or to that memory without the  *)
(* one block that is still to be saved.                                    *)
(*                                                                         *)
(* InOrder: the blocks of a chain hold, of each account, the bundles up to *)
(* its leaf, one of each number.  From it and ReloadState, the store that  *)
(* is furthest implements Ledger.                                          *)
(*                                                                         *)
(* load_chain_state replays a store, which is a recursion; what it         *)
(* computes is proved stage by stage, through the least stage that would   *)
(* be wrong.                                                               *)
(***************************************************************************)
EXTENDS ChainNodes, FiniteSetTheorems, SequenceTheorems, WellFoundedInduction, TLAPS

IsSequence(s) == \E S : s \in Seq(S)

\* A chain in memory: block h has an id of length h, and the pool holds
\* bundles that wallets send.
ChainShape(c) ==
    /\ IsSequence(c.blocks)
    /\ \A h \in 1..Len(c.blocks) :
          c.blocks[h].id \in BlockIds /\ Len(c.blocks[h].id) = h
    /\ c.pool \subseteq Bundles
    /\ c = [blocks |-> c.blocks, leaves |-> c.leaves, receipts |-> c.receipts,
            batches |-> c.batches, pool |-> c.pool]

\* PoolExecutable, for one chain.
Executable(c) ==
    \A p, q \in c.pool :
        /\ p.seq = c.leaves[p.sender].seq + 1
        /\ p.sender = q.sender => p = q

OnDisk == UNION {disk[n].blocks : n \in Nodes}

Waiting(n) == {job.block : job \in saving[n]}

Domains ==
    /\ DOMAIN chain = Nodes /\ DOMAIN disk = Nodes
    /\ DOMAIN saving = Nodes /\ DOMAIN notices = Nodes

Shapes ==
    /\ \A n \in Nodes : ChainShape(chain[n]) /\ IsFiniteSet(disk[n].blocks)
    /\ \A b \in OnDisk : b.id \in BlockIds
    /\ \A n \in Nodes : \A b \in Waiting(n) :
          b.id \in BlockIds /\ Len(b.id) <= Height(chain[n])
    /\ \A n \in Nodes : ~up[n] => saving[n] = {}

AnnouncedIsSaved == \A n \in Nodes : \A m \in notices[n] : m.from \in Nodes /\ m.block \in OnDisk

SameLength(S, T) == \A b \in S, d \in T : Len(b.id) = Len(d.id) => b = d

OneBlockPerHeight ==
    /\ SameLength(OnDisk, OnDisk)
    /\ \A n \in Nodes : SameLength(Waiting(n), OnDisk)
    /\ \A n, m \in Nodes : SameLength(Waiting(n), Waiting(m))

IInv ==
    /\ Domains
    /\ Shapes
    /\ \A n \in Nodes : Executable(chain[n])
    /\ AnnouncedIsSaved
    /\ OneBlockPerHeight

-----------------------------------------------------------------------------
(* The operators *)

\* A driver's block or a fetched one extends a chain (self.chain.blocks.append).
LEMMA AppendShape ==
    ASSUME NEW s, NEW e, IsSequence(s)
    PROVE  /\ IsSequence(Append(s, e))
           /\ Len(s) \in Nat
           /\ Len(Append(s, e)) = Len(s) + 1
           /\ \A i \in 1..Len(s) : Append(s, e)[i] = s[i]
           /\ Append(s, e)[Len(s) + 1] = e
<1>1. PICK S : s \in Seq(S)
  BY DEF IsSequence
<1>2. s \in Seq(S \cup {e}) /\ e \in S \cup {e}
  BY <1>1
<1>3. Append(s, e) \in Seq(S \cup {e})
  BY <1>2
<1>4. QED
  BY <1>2, <1>3 DEF IsSequence

\* The id of the last block has the chain's height as its length
\* (current_block_hash, current_height).
LEMMA TipShape ==
    ASSUME NEW c, ChainShape(c)
    PROVE  Tip(c) \in BlockIds /\ Len(Tip(c)) = Height(c) /\ Height(c) \in Nat
<1>1. Len(c.blocks) \in Nat /\ (c.blocks # <<>> => Len(c.blocks) \in 1..Len(c.blocks))
  BY DEF ChainShape, IsSequence
<1>2. CASE c.blocks = <<>>
  BY <1>2 DEF Tip, Height, BlockIds
<1>3. CASE c.blocks # <<>>
  BY <1>1, <1>3 DEF Tip, Height, ChainShape
<1>4. QED
  BY <1>2, <1>3

\* A chain that takes a block of the next height keeps its shape
\* (_execute_submissions, apply_block).
LEMMA AdvanceShape ==
    ASSUME NEW c, ChainShape(c), NEW blk,
           blk.id \in BlockIds, Len(blk.id) = Height(c) + 1
    PROVE  /\ ChainShape(Advance(c, blk))
           /\ Height(Advance(c, blk)) = Height(c) + 1
<1> DEFINE d == Advance(c, blk)
<1>1. d.blocks = Append(c.blocks, blk) /\ d.pool = Unfinalized(c.pool, BundlesOf(blk))
  BY DEF Advance
<1>2. IsSequence(c.blocks)
  BY DEF ChainShape
<1>3. IsSequence(d.blocks) /\ Len(d.blocks) = Len(c.blocks) + 1 /\ Len(c.blocks) \in Nat
  BY <1>1, <1>2, AppendShape
<1>4. \A h \in 1..Len(d.blocks) : d.blocks[h].id \in BlockIds /\ Len(d.blocks[h].id) = h
  <2> TAKE h \in 1..Len(d.blocks)
  <2>1. CASE h \in 1..Len(c.blocks)
    BY <2>1, <1>1, <1>2, AppendShape DEF ChainShape
  <2>2. CASE h = Len(c.blocks) + 1
    BY <2>2, <1>1, <1>2, AppendShape DEF Height
  <2>3. QED
    BY <2>1, <2>2, <1>3
<1>5. d.pool \subseteq Bundles
  BY <1>1 DEF Unfinalized, ChainShape
<1>6. d = [blocks |-> d.blocks, leaves |-> d.leaves, receipts |-> d.receipts,
           batches |-> d.batches, pool |-> d.pool]
  BY DEF Advance
<1>7. QED
  BY <1>3, <1>4, <1>5, <1>6 DEF ChainShape, Height

\* A block of next bundles leaves no pending bundle behind its account
\* (remove_finalized_bundle).
LEMMA AdvanceExecutable ==
    ASSUME NEW c, ChainShape(c), Executable(c), NEW blk,
           \A b \in BundlesOf(blk) : b.seq = c.leaves[b.sender].seq + 1
    PROVE  Executable(Advance(c, blk))
<1> DEFINE d == Advance(c, blk)
<1>1. /\ d.pool = Unfinalized(c.pool, BundlesOf(blk))
      /\ d.leaves = LeavesAfter(c.leaves, blk.id, BundlesOf(blk))
  BY DEF Advance
<1>2. ASSUME NEW p \in d.pool
      PROVE  p.seq = d.leaves[p.sender].seq + 1
  <2>1. p \in c.pool /\ \A b \in BundlesOf(blk) : b.sender = p.sender => p.seq > b.seq
    BY <1>1, <1>2 DEF Unfinalized
  <2>2. p.seq = c.leaves[p.sender].seq + 1 /\ p.seq \in Nat /\ p.sender \in Accounts
    BY <2>1 DEF Executable, ChainShape, Bundles
  <2>3. ~\E b \in BundlesOf(blk) : b.sender = p.sender
    BY <2>1, <2>2
  <2>4. d.leaves[p.sender] = c.leaves[p.sender]
    BY <1>1, <2>2, <2>3 DEF LeavesAfter
  <2>5. QED
    BY <2>2, <2>4
<1>3. d.pool \subseteq c.pool
  BY <1>1 DEF Unfinalized
<1>4. QED
  BY <1>2, <1>3 DEF Executable

\* BundlePool.submit keeps the pool executable.
LEMMA SubmitKeeps ==
    ASSUME NEW c, ChainShape(c), Executable(c), NEW b \in Bundles, Admissible(c, b)
    PROVE  /\ ChainShape(Submit(c, b)) /\ Executable(Submit(c, b))
           /\ Height(Submit(c, b)) = Height(c)
<1> DEFINE d == Submit(c, b)
<1>0. c \in [blocks : {c.blocks}, leaves : {c.leaves}, receipts : {c.receipts},
             batches : {c.batches}, pool : {c.pool}]
  BY DEF ChainShape
<1>1. /\ d.pool = (c.pool \ PendingOf(c, b.sender)) \cup {b}
      /\ d.leaves = c.leaves /\ d.blocks = c.blocks
      /\ d = [blocks |-> d.blocks, leaves |-> d.leaves, receipts |-> d.receipts,
              batches |-> d.batches, pool |-> d.pool]
  BY <1>0 DEF Submit
<1>2. b.seq = c.leaves[b.sender].seq + 1
  BY DEF Admissible, PendingOf, Executable
<1>3. Executable(d)
  BY <1>1, <1>2 DEF Executable, PendingOf
<1>4. ChainShape(d)
  BY <1>1 DEF ChainShape
<1>5. QED
  BY <1>1, <1>3, <1>4 DEF Height

\* preview_block makes a block of the next height out of next bundles.
LEMMA NextBlockShape ==
    ASSUME NEW c, ChainShape(c), Executable(c)
    PROVE  /\ NextBlock(c).id \in BlockIds
           /\ Len(NextBlock(c).id) = Height(c) + 1
           /\ BundlesOf(NextBlock(c)) = c.pool
           /\ \A b \in BundlesOf(NextBlock(c)) : b.seq = c.leaves[b.sender].seq + 1
<1>1. Content(c.pool) \in SUBSET (Accounts \X Bodies)
  BY DEF Content, ChainShape, Bundles
<1>2. NextBlock(c).id = Append(Tip(c), Content(c.pool))
  BY DEF NextBlock
<1>3. NextBlock(c).id \in BlockIds /\ Len(NextBlock(c).id) = Height(c) + 1
  BY <1>1, <1>2, TipShape DEF BlockIds
<1> DEFINE entry(b) == [bundle |-> b, prev |-> c.leaves[b.sender]]
<1>4. BundlesOf(NextBlock(c)) = c.pool
  <2>1. NextBlock(c).entries = {entry(b) : b \in c.pool}
    BY DEF NextBlock
  <2>2. \A b \in c.pool : entry(b).bundle = b
    OBVIOUS
  <2>3. BundlesOf(NextBlock(c)) = {e.bundle : e \in {entry(b) : b \in c.pool}}
    BY <2>1, Zenon DEF BundlesOf
  <2> HIDE DEF entry
  <2>4. {e.bundle : e \in {entry(b) : b \in c.pool}} = c.pool
    BY <2>2
  <2>5. QED
    BY <2>3, <2>4
<1>5. QED
  BY <1>3, <1>4 DEF Executable

\* A chain loaded from a disk has the disk's blocks and no pool
\* (load_chain_state).
LEMMA LoadShape ==
    ASSUME NEW d, Loadable(d), IsFiniteSet(d.blocks), \A b \in d.blocks : b.id \in BlockIds
    PROVE  ChainShape(Load(d)) /\ Executable(Load(d))
<1> DEFINE n == Cardinality(d.blocks)
<1>1. n \in Nat
  BY FS_CardinalityType
<1>2. Load(d).blocks = [h \in 1..n |-> StoredAt(d, h)] /\ Load(d).pool = {}
  BY DEF Load
<1>3. \A h \in 1..n : StoredAt(d, h) \in d.blocks /\ Len(StoredAt(d, h).id) = h
  <2> TAKE h \in 1..n
  <2>1. h \in {Len(b.id) : b \in d.blocks}
    BY DEF Loadable
  <2>2. \E b \in d.blocks : Len(b.id) = h
    BY <2>1
  <2>3. QED
    BY <2>2 DEF StoredAt
<1>4. Load(d).blocks \in Seq(d.blocks) /\ Len(Load(d).blocks) = n
  BY <1>1, <1>2, <1>3
<1>5. IsSequence(Load(d).blocks)
  BY <1>4 DEF IsSequence
<1>6. \A h \in 1..n : Load(d).blocks[h].id \in BlockIds /\ Len(Load(d).blocks[h].id) = h
  BY <1>2, <1>3
<1>7. ChainShape(Load(d))
  BY <1>2, <1>4, <1>5, <1>6 DEF ChainShape, Load
<1>8. QED
  BY <1>2, <1>7 DEF Executable

-----------------------------------------------------------------------------
(* The steps *)

\* A fresh network (V2ConsensusNode.__init__ on empty files).
LEMMA InitHolds == Init => IInv
<1> SUFFICES ASSUME Init PROVE IInv
  OBVIOUS
<1>1. IsSequence(<<>>)
  <2>1. <<>> \in Seq({})
    OBVIOUS
  <2>2. QED
    BY <2>1 DEF IsSequence
<1>2. ChainShape(EmptyChain) /\ Executable(EmptyChain)
  BY <1>1 DEF EmptyChain, ChainShape, Executable
<1>3. OnDisk = {} /\ \A n \in Nodes : Waiting(n) = {}
  BY DEF OnDisk, Waiting, Init, EmptyDisk
<1>4. Shapes
  BY <1>2, <1>3, FS_EmptySet DEF Shapes, Init, EmptyDisk
<1>5. Domains
  BY DEF Domains, Init
<1>6. QED
  BY <1>2, <1>3, <1>4, <1>5 DEF IInv, AnnouncedIsSaved, OneBlockPerHeight, SameLength, Init

\* A wallet's bundle enters a driver's pool (submit_bundle).
LEMMA SubmitStep ==
    ASSUME IInv, NEW n \in Nodes, NEW b \in Inputs, SubmitBundle(n, b)
    PROVE  IInv'
<1>1. b \in Bundles
  <2>1. 1..MaxHeight \subseteq Nat \ {0} /\ Expiries \subseteq Nat /\ Fees \subseteq Nat
    BY NodesAssumption
  <2>2. b \in [sender : Accounts, seq : 1..MaxHeight, body : Bodies,
               expiry : Expiries, fee : Fees]
    BY DEF Inputs
  <2>3. QED
    BY <2>1, <2>2 DEF Bundles
<1>2. /\ chain' = [chain EXCEPT ![n] = Submit(chain[n], b)]
      /\ Admissible(chain[n], b)
      /\ UNCHANGED <<up, disk, saving, notices>>
  BY DEF SubmitBundle
<1>3. ChainShape(chain[n]) /\ Executable(chain[n])
  BY DEF IInv, Shapes
<1>4. /\ ChainShape(Submit(chain[n], b)) /\ Executable(Submit(chain[n], b))
      /\ Height(Submit(chain[n], b)) = Height(chain[n])
  BY <1>1, <1>2, <1>3, SubmitKeeps
<1>5. \A m \in Nodes : /\ ChainShape(chain'[m]) /\ Executable(chain'[m])
                       /\ Height(chain'[m]) = Height(chain[m])
  BY <1>2, <1>4 DEF IInv, Shapes, Domains
<1>6. OnDisk' = OnDisk /\ \A m \in Nodes : Waiting(m)' = Waiting(m)
  BY <1>2 DEF OnDisk, Waiting
<1>7. Domains'
  BY <1>2 DEF IInv, Domains
<1>8. Shapes'
  BY <1>2, <1>5, <1>6 DEF IInv, Shapes
<1>9. QED
  BY <1>2, <1>5, <1>6, <1>7, <1>8 DEF IInv, AnnouncedIsSaved, OneBlockPerHeight, SameLength

\* A node takes a block into memory: disks and announcements stay.
LEMMA TakeStep ==
    ASSUME IInv, NEW n \in Nodes, NEW blk, NEW own,
           up[n],
           blk.id \in BlockIds, Len(blk.id) = Height(chain[n]) + 1,
           \A b \in BundlesOf(blk) : b.seq = chain[n].leaves[b.sender].seq + 1,
           SameLength({blk}, OnDisk),
           \A m \in Nodes : SameLength({blk}, Waiting(m)),
           chain' = [chain EXCEPT ![n] = Advance(chain[n], blk)],
           saving' = [saving EXCEPT ![n] = saving[n] \cup {[block |-> blk, own |-> own]}],
           UNCHANGED <<up, disk, notices>>
    PROVE  IInv'
<1> DEFINE c == chain[n]
<1>1. ChainShape(c) /\ Executable(c)
  BY DEF IInv, Shapes
<1>2. /\ ChainShape(Advance(c, blk)) /\ Executable(Advance(c, blk))
      /\ Height(Advance(c, blk)) = Height(c) + 1 /\ Height(c) \in Nat
  BY <1>1, AdvanceShape, AdvanceExecutable, TipShape
<1>3. /\ chain'[n] = Advance(c, blk)
      /\ \A m \in Nodes \ {n} : chain'[m] = chain[m]
      /\ saving'[n] = saving[n] \cup {[block |-> blk, own |-> own]}
      /\ \A m \in Nodes \ {n} : saving'[m] = saving[m]
  BY DEF IInv, Domains
<1>4. OnDisk' = OnDisk
  BY DEF OnDisk
<1>5. /\ Waiting(n)' = Waiting(n) \cup {blk}
      /\ \A m \in Nodes \ {n} : Waiting(m)' = Waiting(m)
  <2>1. \A m \in Nodes \ {n} : Waiting(m)' = Waiting(m)
    BY <1>3 DEF Waiting
  <2>2. \E job : job.block = blk /\ saving'[n] = saving[n] \cup {job}
    <3>1. [block |-> blk, own |-> own].block = blk
      OBVIOUS
    <3>2. QED
      BY <3>1, <1>3
  <2>3. Waiting(n)' = Waiting(n) \cup {blk}
    BY <2>2 DEF Waiting
  <2>4. QED
    BY <2>1, <2>3
<1>6. Domains'
  BY DEF IInv, Domains
<1>7. \A m \in Nodes : ChainShape(chain'[m]) /\ Executable(chain'[m])
  BY <1>2, <1>3 DEF IInv, Shapes
<1>8. \A m \in Nodes : \A b \in Waiting(m)' :
         b.id \in BlockIds /\ Len(b.id) <= Height(chain'[m])
  <2> TAKE m \in Nodes
  <2> TAKE b \in Waiting(m)'
  <2>1. CASE m # n
    BY <2>1, <1>3, <1>5 DEF IInv, Shapes
  <2>2. CASE m = n /\ b \in Waiting(n)
    <3>1. b.id \in BlockIds /\ Len(b.id) <= Height(c)
      BY <2>2 DEF IInv, Shapes
    <3>2. Len(b.id) \in Nat
      BY <3>1 DEF BlockIds
    <3>3. QED
      BY <2>2, <3>1, <3>2, <1>2, <1>3
  <2>3. CASE m = n /\ b = blk
    BY <2>3, <1>2, <1>3
  <2>4. QED
    BY <2>1, <2>2, <2>3, <1>5
<1>9. Shapes'
  BY <1>3, <1>4, <1>7, <1>8 DEF IInv, Shapes
<1>10. OneBlockPerHeight'
  BY <1>4, <1>5 DEF IInv, OneBlockPerHeight, SameLength
<1>11. QED
  BY <1>4, <1>6, <1>7, <1>9, <1>10 DEF IInv, AnnouncedIsSaved

\* A driver makes the next block (produce_block, run_mvp_consensus_round).
LEMMA MakeStep ==
    ASSUME IInv, NEW n \in Nodes, MakeBlock(n)
    PROVE  IInv'
<1> DEFINE blk == NextBlock(chain[n])
<1>1. ChainShape(chain[n]) /\ Executable(chain[n])
  BY DEF IInv, Shapes
<1>2. /\ blk.id \in BlockIds /\ Len(blk.id) = Height(chain[n]) + 1
      /\ \A b \in BundlesOf(blk) : b.seq = chain[n].leaves[b.sender].seq + 1
      /\ Height(chain[n]) \in Nat
  BY <1>1, NextBlockShape, TipShape
<1>3. SameLength({blk}, OnDisk)
  <2>1. \A b \in OnDisk : Len(b.id) <= Height(chain[n]) /\ b.id \in BlockIds
    BY DEF MakeBlock, MayDrive, OnDisk, IInv, Shapes
  <2>2. \A b \in OnDisk : Len(b.id) # Len(blk.id)
    BY <2>1, <1>2 DEF BlockIds
  <2>3. QED
    BY <2>2 DEF SameLength
<1>4. \A m \in Nodes : SameLength({blk}, Waiting(m))
  <2> TAKE m \in Nodes
  <2>1. \A b \in Waiting(m) : m = n /\ Len(b.id) <= Height(chain[n]) /\ b.id \in BlockIds
    BY DEF MakeBlock, MayDrive, Waiting, IInv, Shapes
  <2>2. \A b \in Waiting(m) : Len(b.id) # Len(blk.id)
    BY <2>1, <1>2 DEF BlockIds
  <2>3. QED
    BY <2>2 DEF SameLength
<1>5. /\ up[n]
      /\ chain' = [chain EXCEPT ![n] = Advance(chain[n], blk)]
      /\ saving' = [saving EXCEPT ![n] = saving[n] \cup {[block |-> blk, own |-> TRUE]}]
      /\ UNCHANGED <<up, disk, notices>>
  BY DEF MakeBlock, Free
<1> HIDE DEF blk
<1>6. QED
  BY <1>2, <1>3, <1>4, <1>5, TakeStep

\* A node applies an announced or fetched block (_sync_announced_blocks).
LEMMA SyncStep ==
    ASSUME IInv, NEW n \in Nodes, NEW m \in notices[n], SyncBlock(n, m)
    PROVE  IInv'
<1>1. PICK blk \in Obtainable(n, m) :
         /\ Applicable(chain[n], blk)
         /\ chain' = [chain EXCEPT ![n] = Advance(chain[n], blk)]
         /\ saving' = [saving EXCEPT ![n] = saving[n] \cup {[block |-> blk, own |-> FALSE]}]
  BY DEF SyncBlock
<1>2. m.from \in Nodes /\ m.block \in OnDisk
  BY DEF IInv, AnnouncedIsSaved
<1>3. blk \in OnDisk /\ Len(blk.id) = Height(chain[n]) + 1
  BY <1>2 DEF Obtainable, OnDisk
<1>4. blk.id \in BlockIds
  BY <1>3 DEF IInv, Shapes
<1>5. \A b \in BundlesOf(blk) : b.seq = chain[n].leaves[b.sender].seq + 1
  BY <1>1 DEF Applicable, BundlesOf
<1>6. SameLength({blk}, OnDisk) /\ \A k \in Nodes : SameLength({blk}, Waiting(k))
  BY <1>3 DEF IInv, OneBlockPerHeight, SameLength
<1>7. up[n] /\ UNCHANGED <<up, disk, notices>>
  BY DEF SyncBlock, Free
<1>8. QED
  BY <1>1, <1>3, <1>4, <1>5, <1>6, <1>7, TakeStep

\* A waiting block reaches the disk and is announced (save_applied_block,
\* _broadcast_block_announce).
LEMMA SaveStep ==
    ASSUME IInv, NEW n \in Nodes, NEW job \in saving[n], Save(n, job)
    PROVE  IInv'
<1> DEFINE blk == job.block
<1>1. /\ up[n]
      /\ disk' = [disk EXCEPT ![n] = SaveBlock(disk[n], blk)]
      /\ saving' = [saving EXCEPT ![n] = saving[n] \ {job}]
      /\ UNCHANGED <<up, chain>>
  BY DEF Save
<1>2. PICK reached \in (IF job.own THEN Reached(n) ELSE {{}}) :
         notices' = [m \in Nodes |->
              IF m \in reached
              THEN notices[m] \cup {[from |-> n, block |-> blk]}
              ELSE notices[m]]
  BY DEF Save
<1>3. /\ disk'[n].blocks = disk[n].blocks \cup {blk}
      /\ \A m \in Nodes \ {n} : disk'[m].blocks = disk[m].blocks
      /\ OnDisk' = OnDisk \cup {blk}
  BY <1>1 DEF IInv, Domains, SaveBlock, OnDisk
<1>4. \A m \in Nodes : saving'[m] \subseteq saving[m] /\ Waiting(m)' \subseteq Waiting(m)
  BY <1>1 DEF IInv, Domains, Waiting
<1>5. blk \in Waiting(n)
  BY DEF Waiting
<1>6. \A m \in Nodes : IsFiniteSet(disk'[m].blocks)
  <2>1. \A m \in Nodes : IsFiniteSet(disk[m].blocks)
    BY DEF IInv, Shapes
  <2>2. IsFiniteSet(disk[n].blocks \cup {blk})
    BY <2>1, FS_AddElement
  <2>3. QED
    BY <2>1, <2>2, <1>3
<1>7. Shapes'
  BY <1>1, <1>3, <1>4, <1>5, <1>6 DEF IInv, Shapes
<1>8. Domains'
  BY <1>1, <1>2 DEF IInv, Domains
<1>9. AnnouncedIsSaved'
  <2>1. \A m \in Nodes : \A x \in notices'[m] :
           x \in notices[m] \/ (x.from = n /\ x.block = blk)
    BY <1>2
  <2>2. QED
    BY <2>1, <1>3 DEF IInv, AnnouncedIsSaved
<1>10. OneBlockPerHeight'
  BY <1>3, <1>4, <1>5 DEF IInv, OneBlockPerHeight, SameLength
<1>11. QED
  BY <1>1, <1>7, <1>8, <1>9, <1>10 DEF IInv

\* A save that fails, an announcement that is answered: less is under way.
LEMMA DropStep ==
    ASSUME IInv, NEW n \in Nodes,
           \/ \E job \in saving[n] : SaveFails(n, job)
           \/ \E m \in notices[n] : EndSync(n, m)
    PROVE  IInv'
<1>1. /\ UNCHANGED <<up, chain, disk>> /\ Domains'
      /\ \A m \in Nodes : saving'[m] \subseteq saving[m] /\ notices'[m] \subseteq notices[m]
  BY DEF IInv, Domains, SaveFails, EndSync
<1>2. OnDisk' = OnDisk /\ \A m \in Nodes : Waiting(m)' \subseteq Waiting(m)
  BY <1>1 DEF OnDisk, Waiting
<1>3. Shapes'
  BY <1>1, <1>2 DEF IInv, Shapes
<1>4. AnnouncedIsSaved' /\ OneBlockPerHeight'
  BY <1>1, <1>2 DEF IInv, AnnouncedIsSaved, OneBlockPerHeight, SameLength
<1>5. QED
  BY <1>1, <1>3, <1>4 DEF IInv

\* A crash empties the node's memory.
LEMMA CrashStep ==
    ASSUME IInv, NEW n \in Nodes, Crash(n)
    PROVE  IInv'
<1>1. /\ chain' = [chain EXCEPT ![n] = EmptyChain] /\ up' = [up EXCEPT ![n] = FALSE]
      /\ saving' = [saving EXCEPT ![n] = {}] /\ notices' = [notices EXCEPT ![n] = {}]
      /\ UNCHANGED disk
  BY DEF Crash
<1>2. <<>> \in Seq({})
  OBVIOUS
<1>3. ChainShape(EmptyChain) /\ Executable(EmptyChain)
  BY <1>2 DEF EmptyChain, ChainShape, Executable, IsSequence
<1>4. /\ chain'[n] = EmptyChain /\ \A m \in Nodes \ {n} : chain'[m] = chain[m]
      /\ saving'[n] = {} /\ \A m \in Nodes \ {n} : saving'[m] = saving[m]
      /\ \A m \in Nodes : notices'[m] \subseteq notices[m]
      /\ \A m \in Nodes \ {n} : up'[m] = up[m]
      /\ Domains'
  <2>1. up' = [up EXCEPT ![n] = FALSE]
    BY <1>1
  <2>2. \A m \in Nodes \ {n} : up'[m] = up[m]
    BY <2>1
  <2>3. QED
    BY <1>1, <2>2 DEF IInv, Domains
<1>5. OnDisk' = OnDisk /\ Waiting(n)' = {} /\ \A m \in Nodes \ {n} : Waiting(m)' = Waiting(m)
  BY <1>1, <1>4 DEF OnDisk, Waiting
<1>6. Shapes'
  BY <1>1, <1>3, <1>4, <1>5 DEF IInv, Shapes
<1>7. AnnouncedIsSaved' /\ OneBlockPerHeight'
  BY <1>4, <1>5 DEF IInv, AnnouncedIsSaved, OneBlockPerHeight, SameLength
<1>8. QED
  BY <1>3, <1>4, <1>6, <1>7 DEF IInv

\* A node starts from its disk (V2ConsensusNode.__init__).
LEMMA RestartStep ==
    ASSUME IInv, NEW n \in Nodes, Restart(n)
    PROVE  IInv'
<1>1. /\ chain' = [chain EXCEPT ![n] = Load(disk[n])]
      /\ UNCHANGED <<disk, saving, notices>>
      /\ Loadable(disk[n]) /\ saving[n] = {}
  BY DEF Restart, IInv, Shapes
<1>2. ChainShape(Load(disk[n])) /\ Executable(Load(disk[n]))
  <2>1. IsFiniteSet(disk[n].blocks) /\ \A b \in disk[n].blocks : b.id \in BlockIds
    BY DEF IInv, Shapes, OnDisk
  <2>2. QED
    BY <1>1, <2>1, LoadShape
<1>3. /\ chain'[n] = Load(disk[n]) /\ \A m \in Nodes \ {n} : chain'[m] = chain[m]
      /\ Domains'
  BY <1>1 DEF IInv, Domains
<1>4. OnDisk' = OnDisk /\ Waiting(n) = {} /\ \A m \in Nodes : Waiting(m)' = Waiting(m)
  BY <1>1 DEF OnDisk, Waiting
<1>5. \A m \in Nodes : ~up'[m] => ~up[m] \/ m = n
  BY DEF Restart
<1>6. Shapes'
  BY <1>1, <1>2, <1>3, <1>4, <1>5 DEF IInv, Shapes
<1>7. AnnouncedIsSaved' /\ OneBlockPerHeight'
  BY <1>1, <1>4 DEF IInv, AnnouncedIsSaved, OneBlockPerHeight, SameLength
<1>8. QED
  BY <1>2, <1>3, <1>6, <1>7 DEF IInv

\* Every step keeps the invariant.
LEMMA StepHolds == IInv /\ [Next]_vars => IInv'
<1> SUFFICES ASSUME IInv, [Next]_vars PROVE IInv'
  OBVIOUS
<1>1. CASE UNCHANGED vars
  BY <1>1 DEF vars, IInv, Domains, Shapes, AnnouncedIsSaved, OneBlockPerHeight, OnDisk, Waiting
<1>2. CASE Next
  <2>1. PICK n \in Nodes :
           \/ \E b \in Inputs : SubmitBundle(n, b)
           \/ MakeBlock(n)
           \/ \E job \in saving[n] : Save(n, job) \/ SaveFails(n, job)
           \/ \E m \in notices[n] : SyncBlock(n, m) \/ EndSync(n, m)
           \/ Crash(n)
           \/ Restart(n)
    BY <1>2 DEF Next
  <2>2. QED
    BY <2>1, SubmitStep, MakeStep, SaveStep, DropStep, SyncStep, CrashStep, RestartStep
<1>3. QED
  BY <1>1, <1>2

\* IInv holds in every reachable state.
LEMMA Invariance == Spec => []IInv
  BY InitHolds, StepHolds, PTL DEF Spec

\* What waits in a pool is its account's next bundle and its only one, whatever
\* the order of submissions, blocks, crashes and restarts: preview_block, which
\* checks neither, builds blocks that apply_block accepts.
THEOREM PoolsStayExecutable == Spec => []PoolExecutable
<1>1. IInv => PoolExecutable
  BY DEF IInv, Executable, PoolExecutable
<1>2. QED
  BY <1>1, Invariance, PTL

\* Two stores never hold different blocks of one height, also when a driver
\* crashed between building a block and save_applied_block.
THEOREM StoresNeverDisagree == Spec => []StoresAgree
<1>1. IInv => StoresAgree
  BY DEF IInv, OneBlockPerHeight, SameLength, OnDisk, StoresAgree
<1>2. QED
  BY <1>1, Invariance, PTL

-----------------------------------------------------------------------------
(* The replay of a store *)

\* Any numbers there are have a least one.
LEMMA Least ==
    ASSUME NEW T, T \subseteq Nat, T # {}
    PROVE  \E m \in T : \A k \in T : m <= k
<1> DEFINE R == OpToRel(<, Nat)
<1>1. IsWellFoundedOn(R, Nat)
  BY NatLessThanWellFounded
<1>2. \A i, j \in Nat : i < j => <<i, j>> \in R
  BY DEF OpToRel
<1> HIDE DEF R
<1>3. PICK m \in T : \A k \in T : <<k, m>> \notin R
  BY <1>1, WFMin
<1>4. ASSUME NEW k \in T PROVE m <= k
  <2>1. k \in Nat /\ m \in Nat
    OBVIOUS
  <2>2. ~(k < m)
    BY <1>2, <1>3, <2>1
  <2>3. QED
    BY <2>1, <2>2
<1>5. QED
  BY <1>4

\* What the recursion of load_chain_state computes from the first n blocks.
Follows(f, d, n) ==
    f = [i \in 0..n |-> IF i = 0 THEN EmptyChain ELSE Advance(f[i - 1], StoredAt(d, i))]

LEMMA FollowsExists ==
    ASSUME NEW d, NEW n \in Nat
    PROVE  \E f : Follows(f, d, n)
<1> DEFINE T == {k \in Nat : ~\E f : Follows(f, d, k)}
<1>1. SUFFICES ASSUME T # {} PROVE FALSE
  OBVIOUS
<1>2. PICK m \in T : \A k \in T : m <= k
  <2> HIDE DEF T
  <2>1. T \subseteq Nat
    BY DEF T
  <2>2. QED
    BY <1>1, <2>1, Least
<1>3. m \in Nat /\ ~\E f : Follows(f, d, m)
  OBVIOUS
<1>4. CASE m = 0
  <2> DEFINE f == [i \in 0..0 |-> EmptyChain]
  <2>1. f = [i \in 0..0 |-> IF i = 0 THEN EmptyChain ELSE Advance(f[i - 1], StoredAt(d, i))]
    OBVIOUS
  <2>2. Follows(f, d, m)
    BY <1>4, <2>1 DEF Follows
  <2>3. QED
    BY <1>3, <2>2
<1>5. CASE m # 0
  <2>1. m - 1 \in Nat /\ m - 1 \notin T
    BY <1>2, <1>3, <1>5
  <2>2. PICK f : Follows(f, d, m - 1)
    BY <2>1
  <2> DEFINE g == [i \in 0..m |-> IF i = m THEN Advance(f[m - 1], StoredAt(d, m)) ELSE f[i]]
  <2>3. \A i \in 0..(m - 1) : g[i] = f[i] /\ f[i] = IF i = 0 THEN EmptyChain ELSE Advance(f[i - 1], StoredAt(d, i))
    BY <2>2, <1>3 DEF Follows
  <2>4. g[m] = Advance(g[m - 1], StoredAt(d, m))
    BY <2>3, <2>1, <1>3, <1>5
  <2>5. \A i \in 0..m : g[i] = IF i = 0 THEN EmptyChain ELSE Advance(g[i - 1], StoredAt(d, i))
    <3> TAKE i \in 0..m
    <3>1. CASE i = m
      BY <3>1, <2>4, <1>5
    <3>2. CASE i # m
      <4>1. i \in 0..(m - 1) /\ (i # 0 => i - 1 \in 0..(m - 1))
        BY <3>2, <1>3
      <4> HIDE DEF g
      <4>2. QED
        BY <4>1, <2>3
    <3>3. QED
      BY <3>1, <3>2
  <2>6. g = [i \in 0..m |-> g[i]]
    OBVIOUS
  <2> HIDE DEF g
  <2>7. Follows(g, d, m)
    BY <2>5, <2>6 DEF Follows
  <2>8. QED
    BY <1>3, <2>7
<1>6. QED
  BY <1>4, <1>5

LEMMA ReplayFollows ==
    ASSUME NEW d, Cardinality(d.blocks) \in Nat
    PROVE  Follows(Replay(d), d, Cardinality(d.blocks))
<1> DEFINE n == Cardinality(d.blocks)
<1>1. Replay(d) = CHOOSE f : f = [i \in 0..n |-> IF i = 0 THEN EmptyChain ELSE Advance(f[i - 1], StoredAt(d, i))]
  BY DEF Replay
<1>2. \E f : f = [i \in 0..n |-> IF i = 0 THEN EmptyChain ELSE Advance(f[i - 1], StoredAt(d, i))]
  BY FollowsExists DEF Follows
<1>3. QED
  BY <1>1, <1>2, Zenon DEF Follows

-----------------------------------------------------------------------------
(* The receipts of a chain *)

\* The receipts of all its blocks.
Hist(c) == UNION {ReceiptsOf(c.blocks[h]) : h \in 1..Height(c)}

\* A receipt points to the bundle before its own.
Linked(rows) ==
    \A r \in rows :
        /\ r.prev.seq = r.seq - 1
        /\ \A s \in rows : s.sender = r.sender /\ s.seq = r.seq - 1 => r.prev.block = s.block

\* The leaves are those of the last receipts.
LeavesLead(c) ==
    \A r \in Hist(c) :
        /\ Len(r.block) \in 1..Height(c)
        /\ r.seq <= c.leaves[r.sender].seq
        /\ r.seq = c.leaves[r.sender].seq => r.block = c.leaves[r.sender].block

\* The cache has the receipts of the last Window blocks, with their batches.
CacheOK(c) ==
    /\ c.receipts \subseteq Hist(c)
    /\ \A r \in c.receipts : r.block \in c.batches
    /\ \A h \in 1..Height(c) : h > Height(c) - Window => ReceiptsOf(c.blocks[h]) \subseteq c.receipts

Accounted(c) == Linked(Hist(c)) /\ LeavesLead(c) /\ CacheOK(c)

\* The rows of a store are of the blocks in it.
RowsOK(d) ==
    /\ d.receipts \subseteq UNION {ReceiptsOf(b) : b \in d.blocks}
    /\ \A r \in d.receipts : r.block \in d.batches
    /\ Linked(d.receipts)

\* What a running node has saved or will save is in its chain.
OnChain(n) ==
    up[n] => \A b \in disk[n].blocks \cup Waiting(n) :
                 Len(b.id) \in 1..Height(chain[n]) /\ b = chain[n].blocks[Len(b.id)]

ReceiptState ==
    /\ \A n \in Nodes : Accounted(chain[n]) /\ RowsOK(disk[n]) /\ OnChain(n)

-----------------------------------------------------------------------------
(* What a restart finds *)

\* The cache has nothing else.
Windowed(c) ==
    /\ c.receipts = {r \in Hist(c) : Len(r.block) > Height(c) - Window}
    /\ c.batches = {c.blocks[h].id : h \in {k \in 1..Height(c) : k > Height(c) - Window}}

Bare(c) == [c EXCEPT !.pool = {}]

\* A store whose replay has the same rows.
Sound(d) ==
    /\ Loadable(d)
    /\ Load(d).receipts = d.receipts /\ Load(d).batches = d.batches
    /\ Windowed(Load(d))

Filled(blk) == blk.entries # {}

Behind(n) ==
    up[n] => \/ saving[n] = {} /\ Bare(chain[n]) = Load(disk[n])
             \/ \E job \in saving[n] :
                   /\ saving[n] = {job}
                   /\ Applicable(Load(disk[n]), job.block) /\ Filled(job.block)
                   /\ Bare(chain[n]) = Advance(Load(disk[n]), job.block)

ReloadState ==
    /\ \A b \in OnDisk : Filled(b)
    /\ \A n \in Nodes :
          /\ Sound(disk[n]) /\ Behind(n)
          /\ Mode = "legacy" => \A b \in chain[n].pool : b.expiry >= MaxHeight

\* A block that continues a chain.
Continues(c, blk) ==
    /\ blk \in Blocks
    /\ Len(blk.id) = Height(c) + 1
    /\ \A e \in blk.entries : /\ e.prev = c.leaves[e.bundle.sender]
                              /\ e.bundle.seq = c.leaves[e.bundle.sender].seq + 1

-----------------------------------------------------------------------------
(* A chain that takes a block *)

\* Receipts carry the fields of their entry (_build_receipts).
LEMMA ReceiptFields ==
    ASSUME NEW blk, NEW r \in ReceiptsOf(blk)
    PROVE  \E e \in blk.entries :
              /\ r.sender = e.bundle.sender /\ r.seq = e.bundle.seq
              /\ r.block = blk.id /\ r.prev = e.prev
BY DEF ReceiptsOf

LEMMA ReceiptsTyped ==
    ASSUME NEW blk \in Blocks
    PROVE  ReceiptsOf(blk) \subseteq Receipts
<1> SUFFICES ASSUME NEW e \in blk.entries
             PROVE  [sender |-> e.bundle.sender, seq |-> e.bundle.seq, block |-> blk.id,
                     prev |-> e.prev] \in Receipts
  BY DEF ReceiptsOf
<1>1. e \in [bundle : Bundles, prev : Refs \cup {NoRef}] /\ blk.id \in BlockIds
  BY DEF Blocks
<1>2. QED
  BY <1>1 DEF Receipts, Bundles

LEMMA BundlesTyped ==
    ASSUME NEW blk \in Blocks
    PROVE  BundlesOf(blk) \subseteq Bundles
<1>1. blk.entries \subseteq [bundle : Bundles, prev : Refs \cup {NoRef}]
  BY DEF Blocks
<1>2. QED
  BY <1>1 DEF BundlesOf

LEMMA LeavesTyped ==
    ASSUME NEW leaves \in Leaves, NEW id \in BlockIds, NEW B \in SUBSET Bundles
    PROVE  LeavesAfter(leaves, id, B) \in Leaves
<1>1. ASSUME NEW a \in Accounts
      PROVE  (IF \E b \in B : b.sender = a
              THEN LET b == CHOOSE b \in B : b.sender = a
                   IN  [seq |-> b.seq, block |-> id, body |-> b.body]
              ELSE leaves[a]) \in Refs \cup {NoRef}
  <2>1. CASE \E b \in B : b.sender = a
    <3> DEFINE b == CHOOSE x \in B : x.sender = a
    <3>1. b \in B
      BY <2>1
    <3>2. b.seq \in Nat \ {0} /\ b.body \in Bodies
      <4> HIDE DEF b
      <4>1. QED
        BY <3>1 DEF Bundles
    <3>3. [seq |-> b.seq, block |-> id, body |-> b.body] \in Refs
      <4> HIDE DEF b
      <4>1. QED
        BY <3>2 DEF Refs
    <3>4. QED
      BY <2>1, <3>3
  <2>2. CASE ~\E b \in B : b.sender = a
    BY <2>2 DEF Leaves
  <2>3. QED
    BY <2>1, <2>2
<1>2. QED
  BY <1>1 DEF LeavesAfter, Leaves

LEMMA AdvanceTyped ==
    ASSUME NEW c \in Chains, NEW blk \in Blocks
    PROVE  Advance(c, blk) \in Chains
<1>1. /\ c.blocks \in Seq(Blocks) /\ c.leaves \in Leaves /\ c.receipts \subseteq Receipts
      /\ c.batches \subseteq BlockIds /\ c.pool \subseteq Bundles /\ blk.id \in BlockIds
  BY DEF Chains, Blocks
<1>2. Append(c.blocks, blk) \in Seq(Blocks)
  BY <1>1
<1>3. LeavesAfter(c.leaves, blk.id, BundlesOf(blk)) \in Leaves
  BY <1>1, BundlesTyped, LeavesTyped
<1>4. Cached(c.receipts, blk) \subseteq Receipts
  BY <1>1, ReceiptsTyped DEF Cached, Replacing
<1>5. BatchesAfter(c.batches, Cached(c.receipts, blk), blk) \subseteq BlockIds
  BY <1>1 DEF BatchesAfter
<1>6. Unfinalized(c.pool, BundlesOf(blk)) \subseteq Bundles
  BY <1>1 DEF Unfinalized
<1>7. QED
  BY <1>2, <1>3, <1>4, <1>5, <1>6 DEF Advance, Chains

LEMMA AdvanceFields ==
    ASSUME NEW c \in Chains, NEW blk \in Blocks
    PROVE  /\ Height(c) \in Nat
           /\ Height(Advance(c, blk)) = Height(c) + 1
           /\ \A h \in 1..Height(c) : Advance(c, blk).blocks[h] = c.blocks[h]
           /\ Advance(c, blk).blocks[Height(c) + 1] = blk
           /\ Hist(Advance(c, blk)) = Hist(c) \cup ReceiptsOf(blk)
<1> DEFINE d == Advance(c, blk)
<1>1. c.blocks \in Seq(Blocks) /\ d.blocks = Append(c.blocks, blk)
  BY DEF Chains, Advance
<1> HIDE DEF d
<1>2. Height(c) \in Nat /\ Height(d) = Height(c) + 1
  BY <1>1 DEF Height
<1>3. \A h \in 1..Height(c) : d.blocks[h] = c.blocks[h]
  BY <1>1 DEF Height
<1>4. d.blocks[Height(c) + 1] = blk
  BY <1>1 DEF Height
<1>5. 1..Height(d) = 1..Height(c) \cup {Height(c) + 1}
  BY <1>2
<1>6. Hist(d) = Hist(c) \cup ReceiptsOf(blk)
  BY <1>3, <1>4, <1>5 DEF Hist
<1>7. QED
  BY <1>2, <1>3, <1>4, <1>6 DEF d

\* The leaf of a sender moves to its bundle in the block, the others stay.
LEMMA LeafMoves ==
    ASSUME NEW c \in Chains, NEW blk, Continues(c, blk), NEW a \in Accounts
    PROVE  LET d == Advance(c, blk)
           IN  /\ c.leaves[a].seq \in Nat
               /\ (\E b \in BundlesOf(blk) : b.sender = a) =>
                      d.leaves[a].seq = c.leaves[a].seq + 1 /\ d.leaves[a].block = blk.id
               /\ (\A b \in BundlesOf(blk) : b.sender # a) => d.leaves[a] = c.leaves[a]
<1> DEFINE d == Advance(c, blk)
<1>1. d.leaves = LeavesAfter(c.leaves, blk.id, BundlesOf(blk))
  BY DEF Advance
<1>2. c.leaves[a] \in Refs \cup {NoRef}
  BY DEF Chains, Leaves
<1>3. c.leaves[a].seq \in Nat
  BY <1>2 DEF Refs, NoRef
<1>4. \A b \in BundlesOf(blk) : b.sender = a => b.seq = c.leaves[a].seq + 1
  BY DEF Continues, BundlesOf
<1> HIDE DEF d
<1>5. CASE \E b \in BundlesOf(blk) : b.sender = a
  <2> DEFINE b == CHOOSE x \in BundlesOf(blk) : x.sender = a
  <2>1. b \in BundlesOf(blk) /\ b.sender = a
    BY <1>5
  <2>2. d.leaves[a] = [seq |-> b.seq, block |-> blk.id, body |-> b.body]
    BY <1>1, <1>5 DEF LeavesAfter
  <2> HIDE DEF b
  <2>3. QED
    BY <1>3, <1>4, <1>5, <2>1, <2>2 DEF d
<1>6. CASE \A b \in BundlesOf(blk) : b.sender # a
  BY <1>1, <1>3, <1>6 DEF LeavesAfter, d
<1>7. QED
  BY <1>5, <1>6

\* The receipts of a block that continues a chain are one further than its leaves.
LEMMA NewReceipts ==
    ASSUME NEW c \in Chains, NEW blk, Continues(c, blk), NEW r \in ReceiptsOf(blk)
    PROVE  /\ r \in Receipts /\ r.sender \in Accounts /\ r.block = blk.id
           /\ r.prev = c.leaves[r.sender]
           /\ r.seq = c.leaves[r.sender].seq + 1
           /\ Advance(c, blk).leaves[r.sender].seq = r.seq
           /\ Advance(c, blk).leaves[r.sender].block = r.block
<1>1. PICK e \in blk.entries : /\ r.sender = e.bundle.sender /\ r.seq = e.bundle.seq
                               /\ r.block = blk.id /\ r.prev = e.prev
  BY ReceiptFields
<1>2. r \in Receipts /\ r.sender \in Accounts
  BY ReceiptsTyped DEF Continues, Receipts
<1>3. e.bundle \in BundlesOf(blk)
  BY DEF BundlesOf
<1>4. r.prev = c.leaves[r.sender] /\ r.seq = c.leaves[r.sender].seq + 1
  BY <1>1 DEF Continues
<1>5. /\ Advance(c, blk).leaves[r.sender].seq = c.leaves[r.sender].seq + 1
      /\ Advance(c, blk).leaves[r.sender].block = blk.id
  BY <1>1, <1>2, <1>3, LeafMoves
<1>6. QED
  BY <1>1, <1>2, <1>4, <1>5

LEMMA HistTyped ==
    ASSUME NEW c \in Chains
    PROVE  Hist(c) \subseteq Receipts
<1>1. \A h \in 1..Height(c) : c.blocks[h] \in Blocks
  BY DEF Chains, Height
<1>2. QED
  BY <1>1, ReceiptsTyped DEF Hist

LEMMA AdvanceLinked ==
    ASSUME NEW c \in Chains, NEW blk, Continues(c, blk), Linked(Hist(c)), LeavesLead(c)
    PROVE  Linked(Hist(Advance(c, blk))) /\ LeavesLead(Advance(c, blk))
<1> DEFINE d == Advance(c, blk)
<1>0. blk \in Blocks
  BY DEF Continues
<1>1. Hist(d) = Hist(c) \cup ReceiptsOf(blk) /\ Height(d) = Height(c) + 1 /\ Height(c) \in Nat
  BY <1>0, AdvanceFields
<1>2. \A r \in Hist(c) : r \in Receipts /\ r.sender \in Accounts /\ r.seq \in Nat
  BY HistTyped DEF Receipts
<1>3. \A r \in Hist(c) : /\ Len(r.block) \in 1..Height(c)
                         /\ r.seq <= c.leaves[r.sender].seq
                         /\ r.seq = c.leaves[r.sender].seq => r.block = c.leaves[r.sender].block
  BY DEF LeavesLead
<1>4. \A r \in ReceiptsOf(blk) :
         /\ r.sender \in Accounts /\ r.block = blk.id /\ r.prev = c.leaves[r.sender]
         /\ r.seq = c.leaves[r.sender].seq + 1
         /\ d.leaves[r.sender].seq = r.seq /\ d.leaves[r.sender].block = r.block
  BY NewReceipts
<1>5. \A a \in Accounts :
         /\ c.leaves[a].seq \in Nat
         /\ (\E b \in BundlesOf(blk) : b.sender = a) =>
                d.leaves[a].seq = c.leaves[a].seq + 1 /\ d.leaves[a].block = blk.id
         /\ (\A b \in BundlesOf(blk) : b.sender # a) => d.leaves[a] = c.leaves[a]
  BY LeafMoves
<1> HIDE DEF d
<1>6. LeavesLead(d)
  <2> SUFFICES ASSUME NEW r \in Hist(d)
               PROVE  /\ Len(r.block) \in 1..Height(d)
                      /\ r.seq <= d.leaves[r.sender].seq
                      /\ r.seq = d.leaves[r.sender].seq => r.block = d.leaves[r.sender].block
    BY DEF LeavesLead
  <2>1. CASE r \in ReceiptsOf(blk)
    <3>1. Len(r.block) = Height(c) + 1
      BY <1>4, <2>1 DEF Continues
    <3>2. r.seq \in Nat
      BY <1>4, <1>5, <2>1
    <3>3. QED
      BY <1>1, <1>4, <2>1, <3>1, <3>2
  <2>2. CASE r \in Hist(c)
    <3>1. r.sender \in Accounts /\ r.seq \in Nat /\ c.leaves[r.sender].seq \in Nat
      BY <1>2, <1>5, <2>2
    <3>2. /\ Len(r.block) \in 1..Height(c) /\ r.seq <= c.leaves[r.sender].seq
          /\ r.seq = c.leaves[r.sender].seq => r.block = c.leaves[r.sender].block
      BY <1>3, <2>2
    <3>3. Len(r.block) \in 1..Height(d)
      BY <1>1, <3>2
    <3>4. CASE \E b \in BundlesOf(blk) : b.sender = r.sender
      <4>1. d.leaves[r.sender].seq = c.leaves[r.sender].seq + 1
        BY <1>5, <3>1, <3>4
      <4>2. QED
        BY <3>1, <3>2, <3>3, <4>1
    <3>5. CASE \A b \in BundlesOf(blk) : b.sender # r.sender
      <4>1. d.leaves[r.sender] = c.leaves[r.sender]
        BY <1>5, <3>1, <3>5
      <4>2. QED
        BY <3>2, <3>3, <4>1
    <3>6. QED
      BY <3>4, <3>5
  <2>3. QED
    BY <1>1, <2>1, <2>2
<1>7. Linked(Hist(d))
  <2>1. ASSUME NEW r \in Hist(d) PROVE r.prev.seq = r.seq - 1
    <3>1. CASE r \in Hist(c)
      BY <3>1 DEF Linked
    <3>2. CASE r \in ReceiptsOf(blk)
      <4>1. r.prev = c.leaves[r.sender] /\ r.seq = c.leaves[r.sender].seq + 1 /\ c.leaves[r.sender].seq \in Nat
        BY <1>4, <1>5, <3>2
      <4>2. QED
        BY <4>1
    <3>3. QED
      BY <1>1, <3>1, <3>2
  <2>2. ASSUME NEW r \in Hist(d), NEW s \in Hist(d), s.sender = r.sender, s.seq = r.seq - 1
        PROVE  r.prev.block = s.block
    <3>1. CASE r \in Hist(c) /\ s \in Hist(c)
      BY <2>2, <3>1 DEF Linked
    <3>2. CASE r \in ReceiptsOf(blk) /\ s \in Hist(c)
      <4>1. r.prev = c.leaves[r.sender] /\ r.seq = c.leaves[r.sender].seq + 1 /\ c.leaves[r.sender].seq \in Nat
        BY <1>4, <1>5, <3>2
      <4>2. s.seq = c.leaves[s.sender].seq
        BY <2>2, <4>1
      <4>3. QED
        BY <1>3, <2>2, <3>2, <4>1, <4>2
    <3>3. CASE s \in ReceiptsOf(blk)
      <4>1. s.seq = c.leaves[s.sender].seq + 1 /\ c.leaves[s.sender].seq \in Nat
        BY <1>4, <1>5, <3>3
      <4>2. r.sender \in Accounts /\ r.seq \in Nat /\ r.seq <= c.leaves[r.sender].seq + 1
        <5>1. CASE r \in Hist(c)
          BY <1>2, <1>3, <1>5, <5>1
        <5>2. CASE r \in ReceiptsOf(blk)
          BY <1>4, <1>5, <5>2
        <5>3. QED
          BY <1>1, <5>1, <5>2
      <4>3. QED
        BY <2>2, <4>1, <4>2
    <3>4. QED
      BY <1>1, <3>1, <3>2, <3>3
  <2>3. QED
    BY <2>1, <2>2 DEF Linked
<1>8. QED
  BY <1>6, <1>7 DEF d

-----------------------------------------------------------------------------
(* The receipt cache *)

\* Heights above h and up to k are at most k - h.
LEMMA HeightsAbove ==
    ASSUME NEW h \in Nat, NEW k \in Nat, h <= k, NEW S, S \subseteq (h + 1)..k
    PROVE  Cardinality(S) \in Nat /\ Cardinality(S) <= k - h
<1>1. IsFiniteSet((h + 1)..k) /\ Cardinality((h + 1)..k) = k - h
  <2>1. h + 1 \in Int /\ k \in Int
    OBVIOUS
  <2>2. /\ IsFiniteSet((h + 1)..k)
        /\ Cardinality((h + 1)..k) = IF h + 1 > k THEN 0 ELSE k - (h + 1) + 1
    BY <2>1, FS_Interval
  <2>3. QED
    BY <2>2
<1>2. IsFiniteSet(S) /\ Cardinality(S) <= Cardinality((h + 1)..k)
  BY <1>1, FS_Subset
<1>3. QED
  BY <1>1, <1>2, FS_CardinalityType

\* A block's receipts do not replace those there are.
LEMMA NothingReplaced ==
    ASSUME NEW c \in Chains, NEW blk, Continues(c, blk), LeavesLead(c), NEW rows, rows \subseteq Hist(c)
    PROVE  Replacing(rows, ReceiptsOf(blk)) = rows \cup ReceiptsOf(blk)
<1>1. ASSUME NEW r \in rows, NEW x \in ReceiptsOf(blk)
      PROVE  ~(x.sender = r.sender /\ x.seq = r.seq)
  <2>1. r.seq <= c.leaves[r.sender].seq
    BY <1>1 DEF LeavesLead
  <2>2. x.sender \in Accounts /\ x.seq = c.leaves[x.sender].seq + 1
    BY <1>1, NewReceipts
  <2>3. c.leaves[x.sender].seq \in Nat
    BY <2>2, LeafMoves
  <2>4. QED
    BY <2>1, <2>2, <2>3
<1>2. QED
  BY <1>1 DEF Replacing

\* The cache of the last Window heights that have receipts has those of the last
\* Window heights.
LEMMA RecentRows ==
    ASSUME NEW c \in Chains, NEW blk, Continues(c, blk), LeavesLead(c), c.receipts \subseteq Hist(c)
    PROVE  LET all == c.receipts \cup ReceiptsOf(blk)
           IN  /\ Advance(c, blk).receipts = {r \in all : Recent(all, r)}
               /\ \A r \in all : Len(r.block) \in 1..(Height(c) + 1)
               /\ \A r \in all : Len(r.block) > Height(c) + 1 - Window => Recent(all, r)
<1> DEFINE all == c.receipts \cup ReceiptsOf(blk)
<1>1. Len(blk.id) = Height(c) + 1 /\ Height(c) \in Nat
  BY AdvanceFields DEF Continues
<1>2. Replacing(c.receipts, ReceiptsOf(blk)) = all
  BY NothingReplaced
<1>3. Advance(c, blk).receipts = {r \in all : Recent(all, r)}
  BY <1>2 DEF Advance, Cached
<1>4. \A r \in ReceiptsOf(blk) : r.block = blk.id
  BY NewReceipts
<1>5. \A r \in Hist(c) : Len(r.block) \in 1..Height(c)
  BY DEF LeavesLead
<1>6. \A r \in all : Len(r.block) \in 1..(Height(c) + 1)
  BY <1>1, <1>4, <1>5
<1>7. ASSUME NEW r \in all, Len(r.block) > Height(c) + 1 - Window
      PROVE  Recent(all, r)
  <2> DEFINE S == {h \in {Len(x.block) : x \in all} : h > Len(r.block)}
  <2>1. S \subseteq (Len(r.block) + 1)..(Height(c) + 1)
    BY <1>6, <1>7
  <2>2. PICK l \in Nat : l = Len(r.block)
    BY <1>6, <1>7
  <2>3. PICK k \in Nat : k = Height(c) + 1
    BY <1>1
  <2>4. l <= k /\ k - l < Window
    <3>1. Len(r.block) \in 1..(Height(c) + 1)
      BY <1>6, <1>7
    <3>2. l \in 1..k
      BY <3>1, <2>2, <2>3
    <3>3. l > k - Window
      BY <1>1, <1>7, <2>2, <2>3, WindowAssumption
    <3>4. QED
      BY <3>2, <3>3, WindowAssumption
  <2>5. S \subseteq (l + 1)..k
    BY <2>1, <2>2, <2>3
  <2> HIDE DEF S
  <2>6. Cardinality(S) \in Nat /\ Cardinality(S) <= k - l
    BY <2>4, <2>5, HeightsAbove
  <2>7. Cardinality(S) < Window
    BY <2>4, <2>6, WindowAssumption
  <2>8. QED
    BY <2>7 DEF Recent, S
<1>8. QED
  BY <1>3, <1>6, <1>7

LEMMA AdvanceCache ==
    ASSUME NEW c \in Chains, ChainShape(c), NEW blk, Continues(c, blk), LeavesLead(c), CacheOK(c)
    PROVE  CacheOK(Advance(c, blk))
<1> DEFINE d == Advance(c, blk)
           all == c.receipts \cup ReceiptsOf(blk)
<1>0. blk \in Blocks /\ Len(blk.id) = Height(c) + 1
  BY DEF Continues
<1>1. /\ Hist(d) = Hist(c) \cup ReceiptsOf(blk) /\ Height(d) = Height(c) + 1 /\ Height(c) \in Nat
      /\ \A h \in 1..Height(c) : d.blocks[h] = c.blocks[h]
      /\ d.blocks[Height(c) + 1] = blk
  BY <1>0, AdvanceFields
<1>2. c.receipts \subseteq Hist(c)
  BY DEF CacheOK
<1>3. /\ d.receipts = {r \in all : Recent(all, r)}
      /\ \A r \in all : Len(r.block) > Height(c) + 1 - Window => Recent(all, r)
  BY <1>2, RecentRows
<1>4. d.receipts \subseteq all
  BY <1>3
<1>5. d.batches = {id \in c.batches : \E r \in d.receipts : Len(r.block) = Len(id)} \cup {blk.id}
  BY DEF Advance, BatchesAfter
<1>6. \A r \in ReceiptsOf(blk) : r.block = blk.id
  BY NewReceipts
<1>7. ASSUME NEW r \in all, Len(r.block) > Height(c) + 1 - Window
      PROVE  r \in d.receipts
  BY <1>3, <1>7
<1> HIDE DEF d
<1>8. d.receipts \subseteq Hist(d)
  BY <1>1, <1>2, <1>4
<1>9. \A r \in d.receipts : r.block \in d.batches
  <2> TAKE r \in d.receipts
  <2>1. CASE r \in ReceiptsOf(blk)
    BY <1>5, <1>6, <2>1
  <2>2. CASE r \in c.receipts
    BY <1>5, <2>2 DEF CacheOK
  <2>3. QED
    BY <1>4, <2>1, <2>2
<1>10. ASSUME NEW h \in 1..Height(d), h > Height(d) - Window
       PROVE  ReceiptsOf(d.blocks[h]) \subseteq d.receipts
  <2>1. CASE h = Height(c) + 1
    <3>1. d.blocks[h] = blk
      BY <1>1, <2>1
    <3>2. \A r \in ReceiptsOf(blk) : r \in all /\ Len(r.block) > Height(c) + 1 - Window
      BY <1>0, <1>1, <1>6, WindowAssumption
    <3>3. QED
      BY <1>7, <3>1, <3>2
  <2>2. CASE h \in 1..Height(c)
    <3>1. d.blocks[h] = c.blocks[h] /\ h > Height(c) - Window
      BY <1>1, <1>10, <2>2, WindowAssumption
    <3>2. ReceiptsOf(c.blocks[h]) \subseteq c.receipts
      BY <2>2, <3>1 DEF CacheOK
    <3>3. Len(c.blocks[h].id) = h
      BY <2>2 DEF ChainShape, Height
    <3>4. \A r \in ReceiptsOf(c.blocks[h]) : Len(r.block) = h
      BY <3>3, ReceiptFields
    <3>5. h > Height(c) + 1 - Window
      BY <1>1, <1>10, WindowAssumption
    <3>6. \A r \in ReceiptsOf(c.blocks[h]) : r \in all /\ Len(r.block) > Height(c) + 1 - Window
      BY <3>2, <3>4, <3>5
    <3>7. QED
      BY <1>7, <3>1, <3>6
  <2>3. QED
    BY <1>1, <2>1, <2>2
<1>11. QED
  BY <1>8, <1>9, <1>10 DEF CacheOK, d

-----------------------------------------------------------------------------
(* The blocks there are *)

\* preview_block continues the chain.
LEMMA PreviewContinues ==
    ASSUME NEW c \in Chains, ChainShape(c), Executable(c)
    PROVE  Continues(c, NextBlock(c))
<1> DEFINE blk == NextBlock(c)
           entry(b) == [bundle |-> b, prev |-> c.leaves[b.sender]]
<1>1. blk.id \in BlockIds /\ Len(blk.id) = Height(c) + 1
  BY NextBlockShape
<1>2. blk = [id |-> blk.id, entries |-> {entry(b) : b \in c.pool},
             root |-> LeavesAfter(c.leaves, blk.id, c.pool)]
  BY DEF NextBlock
<1>3. c.pool \subseteq Bundles /\ c.leaves \in Leaves
  BY DEF Chains
<1>4. LeavesAfter(c.leaves, blk.id, c.pool) \in Leaves
  <2> HIDE DEF blk
  <2>1. QED
    BY <1>1, <1>3, LeavesTyped
<1>5. \A b \in c.pool : /\ entry(b) \in [bundle : Bundles, prev : Refs \cup {NoRef}]
                        /\ entry(b).bundle = b /\ entry(b).prev = c.leaves[b.sender]
  BY <1>3 DEF Leaves, Bundles
<1> HIDE DEF entry
<1>6. blk.entries = {entry(b) : b \in c.pool}
  BY <1>2
<1>7. blk \in Blocks
  <2> HIDE DEF blk
  <2>1. {entry(b) : b \in c.pool} \in SUBSET [bundle : Bundles, prev : Refs \cup {NoRef}]
    BY <1>5
  <2>2. QED
    BY <1>1, <1>2, <1>4, <2>1 DEF Blocks
<1>8. \A e \in blk.entries : /\ e.prev = c.leaves[e.bundle.sender]
                             /\ e.bundle.seq = c.leaves[e.bundle.sender].seq + 1
  BY <1>5, <1>6 DEF Executable
<1> HIDE DEF blk
<1>9. QED
  BY <1>1, <1>7, <1>8 DEF Continues, blk

\* apply_block accepts only what continues the chain.
LEMMA ApplicableContinues ==
    ASSUME NEW c, NEW blk \in Blocks, Applicable(c, blk)
    PROVE  Continues(c, blk)
BY DEF Applicable, Continues

LEMMA EmptyAccounted == EmptyChain \in Chains /\ ChainShape(EmptyChain) /\ Accounted(EmptyChain)
<1>1. <<>> \in Seq(Blocks) /\ <<>> \in Seq({}) /\ Len(<<>>) = 0 /\ 1..0 = {}
  OBVIOUS
<1>2. [a \in Accounts |-> NoRef] \in Leaves
  BY DEF Leaves
<1>3. EmptyChain \in Chains
  BY <1>1, <1>2 DEF EmptyChain, Chains
<1>4. ChainShape(EmptyChain)
  BY <1>1 DEF EmptyChain, ChainShape, IsSequence
<1>5. Height(EmptyChain) = 0 /\ Hist(EmptyChain) = {} /\ EmptyChain.receipts = {}
  BY <1>1 DEF EmptyChain, Height, Hist
<1>6. Accounted(EmptyChain)
  BY <1>1, <1>5 DEF Accounted, Linked, LeavesLead, CacheOK
<1>7. QED
  BY <1>3, <1>4, <1>6

LEMMA AdvanceAccounted ==
    ASSUME NEW c \in Chains, ChainShape(c), Accounted(c), NEW blk, Continues(c, blk)
    PROVE  /\ Advance(c, blk) \in Chains /\ ChainShape(Advance(c, blk))
           /\ Accounted(Advance(c, blk))
<1>1. blk \in Blocks /\ Len(blk.id) = Height(c) + 1 /\ blk.id \in BlockIds
  BY DEF Continues, Blocks
<1>2. Advance(c, blk) \in Chains
  BY <1>1, AdvanceTyped
<1>3. ChainShape(Advance(c, blk))
  BY <1>1, AdvanceShape
<1>4. Linked(Hist(Advance(c, blk))) /\ LeavesLead(Advance(c, blk))
  BY AdvanceLinked DEF Accounted
<1>5. CacheOK(Advance(c, blk))
  BY AdvanceCache DEF Accounted
<1>6. QED
  BY <1>2, <1>3, <1>4, <1>5 DEF Accounted

-----------------------------------------------------------------------------
(* What a store loads *)

\* A block in a store whose heights are unique is the one of its height.
LEMMA StoredIs ==
    ASSUME NEW d, SameLength(d.blocks, d.blocks), NEW b \in d.blocks
    PROVE  StoredAt(d, Len(b.id)) = b
<1> DEFINE x == CHOOSE x \in d.blocks : Len(x.id) = Len(b.id)
<1>1. x \in d.blocks /\ Len(x.id) = Len(b.id)
  OBVIOUS
<1>2. x = b
  <2> HIDE DEF x
  <2>1. QED
    BY <1>1 DEF SameLength
<1>3. QED
  BY <1>2 DEF StoredAt

\* The state after the first k blocks.
Stage(c, d, k) ==
    /\ c \in Chains /\ ChainShape(c) /\ Accounted(c)
    /\ Height(c) = k /\ c.pool = {}
    /\ \A h \in 1..k : c.blocks[h] = StoredAt(d, h)

LEMMA ReplayStages ==
    ASSUME NEW d \in Disks, IsFiniteSet(d.blocks), Loadable(d)
    PROVE  \A k \in 0..Cardinality(d.blocks) : Stage(Replay(d)[k], d, k)
<1> DEFINE n == Cardinality(d.blocks)
           f == Replay(d)
           T == {k \in 0..n : ~Stage(f[k], d, k)}
<1>1. n \in Nat
  BY FS_CardinalityType
<1>2. Follows(f, d, n)
  BY <1>1, ReplayFollows
<1>3. \A h \in 1..n : StoredAt(d, h) \in Blocks /\ Applicable(f[h - 1], StoredAt(d, h))
  <2> TAKE h \in 1..n
  <2>1. h \in {Len(b.id) : b \in d.blocks}
    BY DEF Loadable
  <2>2. \E b \in d.blocks : Len(b.id) = h
    BY <2>1
  <2>3. StoredAt(d, h) \in d.blocks
    BY <2>2 DEF StoredAt
  <2>4. StoredAt(d, h) \in Blocks
    BY <2>3 DEF Disks
  <2>5. QED
    BY <2>4 DEF Loadable
<1> HIDE DEF f, n
<1>4. f[0] = EmptyChain /\ \A i \in 1..n : f[i] = Advance(f[i - 1], StoredAt(d, i))
  BY <1>1, <1>2 DEF Follows
<1>5. SUFFICES ASSUME T # {} PROVE FALSE
  BY DEF f, n
<1>6. PICK m \in T : \A k \in T : m <= k
  <2>1. T \subseteq Nat
    BY <1>1
  <2> HIDE DEF T
  <2>2. QED
    BY <1>5, <2>1, Least
<1>7. m \in 0..n /\ ~Stage(f[m], d, m)
  OBVIOUS
<1>8. m # 0
  <2>1. Stage(EmptyChain, d, 0)
    <3>1. Height(EmptyChain) = 0 /\ EmptyChain.pool = {}
      BY DEF EmptyChain, Height
    <3>2. QED
      BY <3>1, EmptyAccounted DEF Stage
  <2>2. QED
    BY <1>4, <1>7, <2>1
<1>9. m - 1 \in 0..n /\ m - 1 \notin T /\ m \in 1..n
  BY <1>1, <1>6, <1>7, <1>8
<1>10. Stage(f[m - 1], d, m - 1)
  BY <1>9
<1> DEFINE c == f[m - 1]
           blk == StoredAt(d, m)
<1>11. f[m] = Advance(c, blk) /\ blk \in Blocks /\ Applicable(c, blk)
  BY <1>3, <1>4, <1>9
<1> HIDE DEF c, blk, T
<1>12. c \in Chains /\ ChainShape(c) /\ Accounted(c) /\ Height(c) = m - 1 /\ c.pool = {}
       /\ \A h \in 1..(m - 1) : c.blocks[h] = StoredAt(d, h)
  BY <1>10 DEF Stage, c
<1>13. Continues(c, blk)
  BY <1>11, ApplicableContinues
<1>14. f[m] \in Chains /\ ChainShape(f[m]) /\ Accounted(f[m])
  BY <1>11, <1>12, <1>13, AdvanceAccounted
<1>15. /\ Height(f[m]) = Height(c) + 1 /\ \A h \in 1..Height(c) : f[m].blocks[h] = c.blocks[h]
       /\ f[m].blocks[Height(c) + 1] = blk
  BY <1>11, <1>12, AdvanceFields
<1>16. f[m].pool = {}
  BY <1>11, <1>12 DEF Advance, Unfinalized
<1>17. \A h \in 1..m : f[m].blocks[h] = StoredAt(d, h)
  <2> TAKE h \in 1..m
  <2>1. CASE h \in 1..(m - 1)
    BY <2>1, <1>12, <1>15
  <2>2. CASE h = m
    <3>1. f[m].blocks[m] = blk
      BY <1>7, <1>12, <1>15
    <3>2. QED
      BY <2>2, <3>1 DEF blk
  <2>3. QED
    BY <2>1, <2>2, <1>7
<1>18. Height(f[m]) = m
  BY <1>7, <1>12, <1>15
<1>19. QED
  BY <1>7, <1>14, <1>16, <1>17, <1>18 DEF Stage

\* load_chain_state gives the last of these.
LEMMA LoadIsReplay ==
    ASSUME NEW d \in Disks, IsFiniteSet(d.blocks), Loadable(d)
    PROVE  /\ Load(d) = Replay(d)[Cardinality(d.blocks)]
           /\ Stage(Load(d), d, Cardinality(d.blocks))
<1> DEFINE n == Cardinality(d.blocks)
           c == Replay(d)[n]
<1>1. n \in Nat
  BY FS_CardinalityType
<1>2. Stage(c, d, n)
  BY <1>1, ReplayStages
<1>3. Load(d) = [blocks |-> [h \in 1..n |-> StoredAt(d, h)], leaves |-> c.leaves,
                 receipts |-> c.receipts, batches |-> c.batches, pool |-> {}]
  BY DEF Load
<1> HIDE DEF c, n
<1>4. c.blocks = [h \in 1..n |-> StoredAt(d, h)]
  <2>1. c.blocks \in Seq(Blocks) /\ Len(c.blocks) = n
    BY <1>2 DEF Stage, Chains, Height
  <2>2. c.blocks = [h \in 1..n |-> c.blocks[h]]
    BY <2>1
  <2>3. QED
    BY <1>2, <2>2 DEF Stage
<1>5. c = [blocks |-> c.blocks, leaves |-> c.leaves, receipts |-> c.receipts,
           batches |-> c.batches, pool |-> c.pool]
  BY <1>2 DEF Stage, Chains
<1>6. Load(d) = c
  BY <1>2, <1>3, <1>4, <1>5 DEF Stage
<1>7. QED
  BY <1>2, <1>6 DEF c, n

-----------------------------------------------------------------------------
(* The receipts of all nodes *)

\* Only the pool is different.
LEMMA PoolApart ==
    ASSUME NEW c, NEW d, d.blocks = c.blocks, d.leaves = c.leaves, d.receipts = c.receipts,
           d.batches = c.batches
    PROVE  Height(d) = Height(c) /\ Hist(d) = Hist(c) /\ (Accounted(c) => Accounted(d))
<1>1. Height(d) = Height(c) /\ Hist(d) = Hist(c)
  BY DEF Height, Hist
<1>2. QED
  BY <1>1 DEF Accounted, LeavesLead, CacheOK

\* Some of a chain's receipts link as all of them do.
LEMMA SomeLinked ==
    ASSUME NEW X, NEW Y, X \subseteq Y, Linked(Y)
    PROVE  Linked(X)
BY DEF Linked

LEMMA ReceiptInit == Init => TypeOK /\ ReceiptState
<1> SUFFICES ASSUME Init PROVE TypeOK /\ ReceiptState
  OBVIOUS
<1>1. EmptyChain \in Chains /\ Accounted(EmptyChain)
  BY EmptyAccounted
<1>2. EmptyDisk \in Disks /\ RowsOK(EmptyDisk) /\ EmptyDisk.blocks = {}
  BY DEF EmptyDisk, Disks, RowsOK, Linked, BlockIds
<1>3. TypeOK
  BY <1>1, <1>2, NodesAssumption DEF Init, TypeOK
<1>4. \A n \in Nodes : Waiting(n) = {}
  BY DEF Init, Waiting
<1>5. ReceiptState
  BY <1>1, <1>2, <1>4 DEF Init, ReceiptState, OnChain
<1>6. QED
  BY <1>3, <1>5

LEMMA ReceiptSubmit ==
    ASSUME IInv, TypeOK, ReceiptState, NEW n \in Nodes, NEW b \in Inputs, SubmitBundle(n, b)
    PROVE  TypeOK' /\ ReceiptState'
<1>1. b \in Bundles
  <2>1. 1..MaxHeight \subseteq Nat \ {0} /\ Expiries \subseteq Nat /\ Fees \subseteq Nat
    BY NodesAssumption
  <2>2. b \in [sender : Accounts, seq : 1..MaxHeight, body : Bodies,
               expiry : Expiries, fee : Fees]
    BY DEF Inputs
  <2>3. QED
    BY <2>1, <2>2 DEF Bundles
<1> DEFINE c == chain[n]
           d == Submit(c, b)
<1>2. c \in Chains /\ chain \in [Nodes -> Chains]
  BY DEF TypeOK
<1>3. /\ d.blocks = c.blocks /\ d.leaves = c.leaves /\ d.receipts = c.receipts
      /\ d.batches = c.batches /\ d \in Chains
  BY <1>1, <1>2 DEF Submit, Chains
<1>4. chain' = [chain EXCEPT ![n] = d] /\ UNCHANGED <<up, disk, saving, notices, crashes, saveFailures>>
  BY DEF SubmitBundle
<1> HIDE DEF d
<1>5. TypeOK'
  BY <1>2, <1>3, <1>4 DEF TypeOK
<1>6. \A m \in Nodes : /\ chain'[m].blocks = chain[m].blocks /\ chain'[m].leaves = chain[m].leaves
                       /\ chain'[m].receipts = chain[m].receipts
                       /\ chain'[m].batches = chain[m].batches
  BY <1>2, <1>3, <1>4
<1>7. \A m \in Nodes : /\ Height(chain'[m]) = Height(chain[m])
                       /\ Accounted(chain[m]) => Accounted(chain'[m])
  BY <1>6, PoolApart
<1>8. \A m \in Nodes : Waiting(m)' = Waiting(m)
  BY <1>4 DEF Waiting
<1>9. ReceiptState'
  BY <1>4, <1>6, <1>7, <1>8 DEF ReceiptState, OnChain
<1>10. QED
  BY <1>5, <1>9

LEMMA ReceiptTake ==
    ASSUME IInv, TypeOK, ReceiptState, NEW n \in Nodes, NEW blk, NEW own \in BOOLEAN,
           Continues(chain[n], blk),
           chain' = [chain EXCEPT ![n] = Advance(chain[n], blk)],
           saving' = [saving EXCEPT ![n] = saving[n] \cup {[block |-> blk, own |-> own]}],
           UNCHANGED <<up, disk, notices, crashes, saveFailures>>
    PROVE  TypeOK' /\ ReceiptState'
<1> DEFINE c == chain[n]
           d == Advance(c, blk)
<1>1. c \in Chains /\ ChainShape(c) /\ Accounted(c) /\ blk \in Blocks /\ Len(blk.id) = Height(c) + 1
  BY DEF TypeOK, IInv, Shapes, ReceiptState, Continues
<1>2. d \in Chains /\ Accounted(d)
  BY <1>1, AdvanceAccounted
<1>3. /\ Height(c) \in Nat /\ Height(d) = Height(c) + 1
      /\ \A h \in 1..Height(c) : d.blocks[h] = c.blocks[h]
      /\ d.blocks[Height(c) + 1] = blk
  BY <1>1, AdvanceFields
<1> HIDE DEF d
<1>4. chain' = [chain EXCEPT ![n] = d]
  BY DEF d
<1>5. PICK job \in Jobs : job.block = blk /\ saving' = [saving EXCEPT ![n] = saving[n] \cup {job}]
  <2>1. [block |-> blk, own |-> own] \in Jobs /\ [block |-> blk, own |-> own].block = blk
    BY <1>1 DEF Jobs
  <2>2. QED
    BY <2>1
<1>6. TypeOK'
  BY <1>2, <1>4, <1>5 DEF TypeOK
<1>7. /\ chain'[n] = d /\ \A m \in Nodes \ {n} : chain'[m] = chain[m]
      /\ Waiting(n)' = Waiting(n) \cup {blk}
      /\ \A m \in Nodes \ {n} : Waiting(m)' = Waiting(m)
  BY <1>4, <1>5 DEF TypeOK, Waiting
<1>8. OnChain(n)'
  <2> SUFFICES ASSUME up'[n], NEW b \in disk'[n].blocks \cup Waiting(n)'
               PROVE  Len(b.id) \in 1..Height(d) /\ b = d.blocks[Len(b.id)]
    BY <1>7 DEF OnChain
  <2>1. CASE b = blk
    BY <2>1, <1>1, <1>3
  <2>2. CASE b \in disk[n].blocks \cup Waiting(n)
    <3>1. Len(b.id) \in 1..Height(c) /\ b = c.blocks[Len(b.id)]
      BY <2>2 DEF ReceiptState, OnChain
    <3>2. QED
      BY <3>1, <1>3
  <2>3. QED
    BY <2>1, <2>2, <1>7
<1>9. \A m \in Nodes \ {n} : OnChain(m)'
  BY <1>7 DEF ReceiptState, OnChain
<1>10. ReceiptState'
  BY <1>2, <1>7, <1>8, <1>9 DEF ReceiptState
<1>11. QED
  BY <1>6, <1>10

LEMMA ReceiptMake ==
    ASSUME IInv, TypeOK, ReceiptState, NEW n \in Nodes, MakeBlock(n)
    PROVE  TypeOK' /\ ReceiptState'
<1> DEFINE blk == NextBlock(chain[n])
<1>1. Continues(chain[n], blk)
  BY PreviewContinues DEF TypeOK, IInv, Shapes
<1>2. /\ chain' = [chain EXCEPT ![n] = Advance(chain[n], blk)]
      /\ saving' = [saving EXCEPT ![n] = saving[n] \cup {[block |-> blk, own |-> TRUE]}]
      /\ UNCHANGED <<up, disk, notices, crashes, saveFailures>>
  BY DEF MakeBlock
<1> HIDE DEF blk
<1>3. QED
  BY <1>1, <1>2, ReceiptTake

LEMMA ReceiptSync ==
    ASSUME IInv, TypeOK, ReceiptState, NEW n \in Nodes, NEW m \in notices[n], SyncBlock(n, m)
    PROVE  TypeOK' /\ ReceiptState'
<1>1. PICK blk \in Obtainable(n, m) :
         /\ Applicable(chain[n], blk)
         /\ chain' = [chain EXCEPT ![n] = Advance(chain[n], blk)]
         /\ saving' = [saving EXCEPT ![n] = saving[n] \cup {[block |-> blk, own |-> FALSE]}]
  BY DEF SyncBlock
<1>2. m.from \in Nodes /\ m.block \in Blocks
  BY DEF TypeOK, Notices
<1>3. blk \in Blocks
  BY <1>2 DEF TypeOK, Obtainable, Disks
<1>4. Continues(chain[n], blk)
  BY <1>1, <1>3, ApplicableContinues
<1>5. UNCHANGED <<up, disk, notices, crashes, saveFailures>>
  BY DEF SyncBlock
<1>6. QED
  BY <1>1, <1>4, <1>5, ReceiptTake

\* save_applied_block keeps the rows of the blocks in the store.
LEMMA SaveRows ==
    ASSUME NEW d \in Disks, RowsOK(d), NEW blk \in Blocks,
           NEW c, Linked(Hist(c)),
           \A b \in d.blocks \cup {blk} : ReceiptsOf(b) \subseteq Hist(c)
    PROVE  SaveBlock(d, blk) \in Disks /\ RowsOK(SaveBlock(d, blk))
<1> DEFINE e == SaveBlock(d, blk)
<1>1. /\ e.blocks = d.blocks \cup {blk} /\ e.last = blk.id
      /\ e.receipts = {r \in Replacing(d.receipts, ReceiptsOf(blk)) : InStoreWindow(r.block, blk.id)}
      /\ e.batches = {id \in d.batches \cup {blk.id} : InStoreWindow(id, blk.id)}
      /\ e = [blocks |-> e.blocks, receipts |-> e.receipts, batches |-> e.batches, last |-> e.last]
  BY DEF SaveBlock
<1> HIDE DEF e
<1>2. e.receipts \subseteq d.receipts \cup ReceiptsOf(blk)
  BY <1>1 DEF Replacing
<1>3. e.receipts \subseteq Receipts
  BY <1>2, ReceiptsTyped DEF Disks
<1>4. e \in Disks
  <2>1. e.blocks \in SUBSET Blocks /\ e.batches \in SUBSET BlockIds /\ e.last \in BlockIds
    BY <1>1 DEF Disks, Blocks
  <2>2. QED
    BY <1>1, <1>3, <2>1 DEF Disks
<1>5. e.receipts \subseteq UNION {ReceiptsOf(b) : b \in e.blocks}
  BY <1>1, <1>2 DEF RowsOK
<1>6. \A r \in e.receipts : r.block \in e.batches
  <2> TAKE r \in e.receipts
  <2>1. r.block \in d.batches \cup {blk.id}
    BY <1>2, ReceiptFields DEF RowsOK
  <2>2. QED
    BY <1>1, <2>1
<1>7. Linked(e.receipts)
  <2>1. e.receipts \subseteq Hist(c)
    BY <1>1, <1>5
  <2>2. QED
    BY <2>1, SomeLinked
<1>8. QED
  BY <1>4, <1>5, <1>6, <1>7 DEF RowsOK, e

LEMMA ReceiptSave ==
    ASSUME IInv, TypeOK, ReceiptState, NEW n \in Nodes, NEW job \in saving[n], Save(n, job)
    PROVE  TypeOK' /\ ReceiptState'
<1> DEFINE blk == job.block
           d == SaveBlock(disk[n], blk)
           c == chain[n]
<1>1. /\ up[n] /\ disk' = [disk EXCEPT ![n] = d]
      /\ saving' = [saving EXCEPT ![n] = saving[n] \ {job}]
      /\ UNCHANGED <<up, chain, crashes, saveFailures>>
  BY DEF Save
<1>2. PICK reached \in (IF job.own THEN Reached(n) ELSE {{}}) :
         notices' = [m \in Nodes |->
              IF m \in reached
              THEN notices[m] \cup {[from |-> n, block |-> blk]}
              ELSE notices[m]]
  BY DEF Save
<1>3. job \in Jobs /\ blk \in Blocks /\ disk[n] \in Disks
  BY DEF TypeOK, Jobs
<1>4. \A b \in disk[n].blocks \cup {blk} : Len(b.id) \in 1..Height(c) /\ b = c.blocks[Len(b.id)]
  BY <1>1 DEF ReceiptState, OnChain, Waiting
<1>5. \A b \in disk[n].blocks \cup {blk} : ReceiptsOf(b) \subseteq Hist(c)
  BY <1>4 DEF Hist
<1>6. d \in Disks /\ RowsOK(d)
  BY <1>3, <1>5, SaveRows DEF ReceiptState, Accounted
<1>7. d.blocks = disk[n].blocks \cup {blk}
  BY DEF SaveBlock
<1> HIDE DEF d
<1>8. notices' \in [Nodes -> SUBSET Notices]
  <2>1. [from |-> n, block |-> blk] \in Notices
    BY <1>3 DEF Notices
  <2>2. \A m \in Nodes : notices[m] \in SUBSET Notices
    BY DEF TypeOK
  <2>3. QED
    BY <1>2, <2>1, <2>2
<1>9. TypeOK'
  BY <1>1, <1>6, <1>8 DEF TypeOK
<1>10. \A m \in Nodes : Waiting(m)' \subseteq Waiting(m)
  BY <1>1 DEF TypeOK, Waiting
<1>11. disk'[n] = d /\ \A m \in Nodes \ {n} : disk'[m] = disk[m]
  BY <1>1 DEF TypeOK
<1>12. OnChain(n)'
  BY <1>1, <1>4, <1>7, <1>10, <1>11 DEF ReceiptState, OnChain
<1>13. \A m \in Nodes \ {n} : OnChain(m)'
  BY <1>1, <1>10, <1>11 DEF ReceiptState, OnChain
<1>14. ReceiptState'
  BY <1>1, <1>6, <1>11, <1>12, <1>13 DEF ReceiptState
<1>15. QED
  BY <1>9, <1>14

LEMMA ReceiptDrop ==
    ASSUME IInv, TypeOK, ReceiptState, NEW n \in Nodes,
           \/ \E job \in saving[n] : SaveFails(n, job)
           \/ \E m \in notices[n] : EndSync(n, m)
    PROVE  TypeOK' /\ ReceiptState'
<1>1. /\ UNCHANGED <<up, chain, disk, crashes>>
      /\ saving' \in [Nodes -> SUBSET Jobs] /\ notices' \in [Nodes -> SUBSET Notices]
      /\ \A m \in Nodes : saving'[m] \subseteq saving[m]
  BY DEF TypeOK, SaveFails, EndSync
<1>2. saveFailures' \in 0..MaxSaveFailures
  BY NodesAssumption DEF TypeOK, SaveFails, EndSync
<1>3. TypeOK'
  BY <1>1, <1>2 DEF TypeOK
<1>4. \A m \in Nodes : Waiting(m)' \subseteq Waiting(m)
  BY <1>1 DEF Waiting
<1>5. ReceiptState'
  BY <1>1, <1>4 DEF ReceiptState, OnChain
<1>6. QED
  BY <1>3, <1>5

LEMMA ReceiptCrash ==
    ASSUME IInv, TypeOK, ReceiptState, NEW n \in Nodes, Crash(n)
    PROVE  TypeOK' /\ ReceiptState'
<1>1. /\ chain' = [chain EXCEPT ![n] = EmptyChain] /\ up' = [up EXCEPT ![n] = FALSE]
      /\ saving' = [saving EXCEPT ![n] = {}] /\ notices' = [notices EXCEPT ![n] = {}]
      /\ UNCHANGED <<disk, saveFailures>> /\ crashes' = crashes + 1 /\ crashes < MaxCrashes
  BY DEF Crash
<1>2. EmptyChain \in Chains /\ Accounted(EmptyChain)
  BY EmptyAccounted
<1>3. crashes' \in 0..MaxCrashes
  BY <1>1, NodesAssumption DEF TypeOK
<1>4. TypeOK'
  BY <1>1, <1>2, <1>3 DEF TypeOK
<1>5. /\ chain'[n] = EmptyChain /\ ~up'[n]
      /\ \A m \in Nodes \ {n} : chain'[m] = chain[m] /\ up'[m] = up[m] /\ Waiting(m)' = Waiting(m)
  BY <1>1 DEF TypeOK, Waiting
<1>6. ReceiptState'
  BY <1>1, <1>2, <1>5 DEF ReceiptState, OnChain
<1>7. QED
  BY <1>4, <1>6

LEMMA ReceiptRestart ==
    ASSUME IInv, TypeOK, ReceiptState, NEW n \in Nodes, Restart(n)
    PROVE  TypeOK' /\ ReceiptState'
<1> DEFINE d == disk[n]
           c == Load(d)
<1>1. /\ chain' = [chain EXCEPT ![n] = c] /\ up' = [up EXCEPT ![n] = TRUE]
      /\ UNCHANGED <<disk, saving, notices, crashes, saveFailures>>
      /\ Loadable(d) /\ ~up[n]
  BY DEF Restart
<1>2. d \in Disks /\ IsFiniteSet(d.blocks) /\ saving[n] = {}
  BY <1>1 DEF TypeOK, IInv, Shapes
<1>3. Stage(c, d, Cardinality(d.blocks))
  BY <1>1, <1>2, LoadIsReplay
<1>4. SameLength(d.blocks, d.blocks)
  BY DEF IInv, OneBlockPerHeight, SameLength, OnDisk
<1>5. \A b \in d.blocks : Len(b.id) \in 1..Cardinality(d.blocks) /\ StoredAt(d, Len(b.id)) = b
  BY <1>1, <1>4, StoredIs DEF Loadable
<1> HIDE DEF c
<1>6. \A b \in d.blocks : Len(b.id) \in 1..Height(c) /\ b = c.blocks[Len(b.id)]
  BY <1>3, <1>5 DEF Stage
<1>7. c \in Chains /\ Accounted(c)
  BY <1>3 DEF Stage
<1>8. TypeOK'
  BY <1>1, <1>7 DEF TypeOK
<1>9. /\ chain'[n] = c /\ \A m \in Nodes \ {n} : chain'[m] = chain[m] /\ up'[m] = up[m]
      /\ Waiting(n)' = {} /\ \A m \in Nodes \ {n} : Waiting(m)' = Waiting(m)
  BY <1>1, <1>2 DEF TypeOK, Waiting
<1>10. OnChain(n)'
  BY <1>1, <1>6, <1>9 DEF OnChain
<1>11. \A m \in Nodes \ {n} : OnChain(m)'
  BY <1>1, <1>9 DEF ReceiptState, OnChain
<1>12. ReceiptState'
  BY <1>1, <1>7, <1>9, <1>10, <1>11 DEF ReceiptState
<1>13. QED
  BY <1>8, <1>12

LEMMA ReceiptNext == IInv /\ TypeOK /\ ReceiptState /\ [Next]_vars => TypeOK' /\ ReceiptState'
<1> SUFFICES ASSUME IInv, TypeOK, ReceiptState, [Next]_vars PROVE TypeOK' /\ ReceiptState'
  OBVIOUS
<1>1. CASE UNCHANGED vars
  <2>1. \A n \in Nodes : Waiting(n)' = Waiting(n)
    BY <1>1 DEF vars, Waiting
  <2>2. TypeOK'
    BY <1>1 DEF vars, TypeOK
  <2>3. ReceiptState'
    BY <1>1, <2>1 DEF vars, ReceiptState, OnChain
  <2>4. QED
    BY <2>2, <2>3
<1>2. CASE Next
  <2>1. PICK n \in Nodes :
           \/ \E b \in Inputs : SubmitBundle(n, b)
           \/ MakeBlock(n)
           \/ \E job \in saving[n] : Save(n, job) \/ SaveFails(n, job)
           \/ \E m \in notices[n] : SyncBlock(n, m) \/ EndSync(n, m)
           \/ Crash(n)
           \/ Restart(n)
    BY <1>2 DEF Next
  <2>2. QED
    BY <2>1, ReceiptSubmit, ReceiptMake, ReceiptSave, ReceiptDrop, ReceiptSync, ReceiptCrash,
       ReceiptRestart
<1>3. QED
  BY <1>1, <1>2

LEMMA ReceiptsHold == Spec => [](IInv /\ TypeOK /\ ReceiptState)
<1>1. IInv /\ TypeOK /\ ReceiptState /\ [Next]_vars => (IInv /\ TypeOK /\ ReceiptState)'
  BY StepHolds, ReceiptNext
<1>2. Init => IInv /\ TypeOK /\ ReceiptState
  BY InitHolds, ReceiptInit
<1>3. QED
  BY <1>1, <1>2, PTL DEF Spec

\* Chains, stores, blocks to save and announcements stay well-formed, also what a
\* restarted node computes from its store.
THEOREM TypesHold == Spec => []TypeOK
BY ReceiptsHold, PTL

\* The receipt of an account's bundle points to the receipt before it, in every
\* cache and every store, whatever is pruned, saved out of order, lost or reloaded:
\* what on_receipt_confirmed checks.
THEOREM ReceiptsPointBack == Spec => []ReceiptsChain
<1>1. ReceiptState => ReceiptsChain
  <2> SUFFICES ASSUME ReceiptState, NEW n \in Nodes, NEW rows \in {chain[n].receipts, disk[n].receipts}
               PROVE  Linked(rows)
    BY DEF ReceiptsChain, Linked
  <2>1. Linked(chain[n].receipts)
    BY SomeLinked DEF ReceiptState, Accounted, CacheOK
  <2>2. Linked(disk[n].receipts)
    BY DEF ReceiptState, RowsOK
  <2>3. QED
    BY <2>1, <2>2
<1>2. QED
  BY <1>1, ReceiptsHold, PTL

\* A running node serves the receipt of every bundle of its last Window blocks,
\* each receipt it serves with its proof batch: ReceiptCache counts heights that
\* have receipts and save_applied_block counts blocks, and neither forgets more
\* than it may.
THEOREM ReceiptsAreServed == Spec => []ReceiptsServed
<1>1. ReceiptState => ReceiptsServed
  <2> SUFFICES ASSUME ReceiptState, NEW n \in Nodes, up[n]
               PROVE  /\ \A r \in chain[n].receipts \cup disk[n].receipts :
                            r.block \in chain[n].batches \cup disk[n].batches
                      /\ \A h \in 1..Height(chain[n]) : h > Height(chain[n]) - Window =>
                            \A b \in BundlesOf(chain[n].blocks[h]) :
                                \E r \in Served(n, b.sender, b.seq) : r.block = chain[n].blocks[h].id
    BY DEF ReceiptsServed
  <2>1. CacheOK(chain[n]) /\ RowsOK(disk[n])
    BY DEF ReceiptState, Accounted
  <2>2. \A r \in chain[n].receipts \cup disk[n].receipts :
           r.block \in chain[n].batches \cup disk[n].batches
    BY <2>1 DEF CacheOK, RowsOK
  <2>3. ASSUME NEW h \in 1..Height(chain[n]), h > Height(chain[n]) - Window,
               NEW b \in BundlesOf(chain[n].blocks[h])
        PROVE  \E r \in Served(n, b.sender, b.seq) : r.block = chain[n].blocks[h].id
    <3>1. PICK r \in ReceiptsOf(chain[n].blocks[h]) :
             r.sender = b.sender /\ r.seq = b.seq /\ r.block = chain[n].blocks[h].id
      <4>1. PICK e \in chain[n].blocks[h].entries : e.bundle = b
        BY <2>3 DEF BundlesOf
      <4> DEFINE r == [sender |-> e.bundle.sender, seq |-> e.bundle.seq,
                       block |-> chain[n].blocks[h].id, prev |-> e.prev]
      <4>2. r \in ReceiptsOf(chain[n].blocks[h])
        BY DEF ReceiptsOf
      <4>3. r.sender = b.sender /\ r.seq = b.seq /\ r.block = chain[n].blocks[h].id
        BY <4>1
      <4> HIDE DEF r
      <4>4. QED
        BY <4>2, <4>3
    <3>2. r \in chain[n].receipts
      BY <2>1, <2>3 DEF CacheOK
    <3>3. r \in Served(n, b.sender, b.seq)
      BY <3>1, <3>2 DEF Served
    <3>4. QED
      BY <3>1, <3>3
  <2>4. QED
    BY <2>2, <2>3
<1>2. QED
  BY <1>1, ReceiptsHold, PTL

-----------------------------------------------------------------------------
(* Cache and store keep the same rows *)

\* When every block has receipts, the last Window heights that have some are the
\* last Window heights.
LEMMA AdvanceWindowed ==
    ASSUME NEW c \in Chains, ChainShape(c), Accounted(c), Windowed(c),
           \A h \in 1..Height(c) : Filled(c.blocks[h]),
           NEW blk, Continues(c, blk), Filled(blk)
    PROVE  Windowed(Advance(c, blk))
<1> DEFINE d == Advance(c, blk)
           all == c.receipts \cup ReceiptsOf(blk)
<1>1. /\ Hist(d) = Hist(c) \cup ReceiptsOf(blk) /\ Height(d) = Height(c) + 1 /\ Height(c) \in Nat
      /\ \A h \in 1..Height(c) : d.blocks[h] = c.blocks[h]
      /\ d.blocks[Height(c) + 1] = blk
  BY AdvanceFields DEF Continues
<1>2. /\ d.receipts = {r \in all : Recent(all, r)}
      /\ \A r \in all : Len(r.block) \in 1..(Height(c) + 1)
      /\ \A r \in all : Len(r.block) > Height(c) + 1 - Window => Recent(all, r)
  BY RecentRows DEF Accounted, CacheOK
<1>3. d.batches = {id \in c.batches : \E r \in d.receipts : Len(r.block) = Len(id)} \cup {blk.id}
  BY DEF Advance, BatchesAfter
<1>4. \A r \in ReceiptsOf(blk) : r.block = blk.id
  BY NewReceipts
<1>5. Len(blk.id) = Height(c) + 1
  BY DEF Continues
<1>6. \A h \in 1..Height(c) : /\ Len(c.blocks[h].id) = h
                              /\ \A r \in ReceiptsOf(c.blocks[h]) : Len(r.block) = h
  <2>1. \A h \in 1..Height(c) : Len(c.blocks[h].id) = h
    BY DEF ChainShape, Height
  <2>2. QED
    BY <2>1, ReceiptFields
<1>7. \A b : Filled(b) => ReceiptsOf(b) # {}
  BY DEF Filled, ReceiptsOf
<1>8. \A h \in 1..(Height(c) + 1) : h > Height(c) - Window => \E r \in all : Len(r.block) = h
  <2> TAKE h \in 1..(Height(c) + 1)
  <2> HAVE h > Height(c) - Window
  <2>1. CASE h = Height(c) + 1
    BY <2>1, <1>4, <1>5, <1>7
  <2>2. CASE h \in 1..Height(c)
    <3>1. PICK r \in ReceiptsOf(c.blocks[h]) : Len(r.block) = h
      BY <2>2, <1>6, <1>7
    <3>2. r \in c.receipts
      BY <2>2, <3>1 DEF Accounted, CacheOK
    <3>3. QED
      BY <3>1, <3>2
  <2>3. QED
    BY <2>1, <2>2, <1>1
<1>9. ASSUME NEW r \in all, Recent(all, r)
      PROVE  Len(r.block) > Height(c) + 1 - Window
  <2> SUFFICES ASSUME ~(Len(r.block) > Height(c) + 1 - Window) PROVE FALSE
    OBVIOUS
  <2>1. Len(r.block) \in 1..(Height(c) + 1)
    BY <1>2, <1>9
  <2>2. r \in c.receipts
    BY <1>1, <1>4, <1>5, <1>9, WindowAssumption
  <2>3. Len(r.block) > Height(c) - Window
    BY <2>2 DEF Windowed
  <2>4. PICK l \in Nat : l = Len(r.block)
    BY <2>1
  <2>5. PICK k \in Nat : k = Height(c) + 1
    BY <1>1
  <2>6. l + Window = k /\ l >= 1
    BY <2>1, <2>3, <2>4, <2>5, <1>1, WindowAssumption
  <2> DEFINE S == {h \in {Len(x.block) : x \in all} : h > Len(r.block)}
  <2>7. S = (l + 1)..k
    <3>1. S \subseteq (l + 1)..k
      BY <1>2, <2>4, <2>5
    <3>2. ASSUME NEW h \in (l + 1)..k PROVE h \in S
      <4>1. h \in 1..(Height(c) + 1) /\ h > Height(c) - Window /\ h > Len(r.block)
        BY <2>4, <2>5, <2>6, <1>1, WindowAssumption
      <4>2. PICK x \in all : Len(x.block) = h
        BY <4>1, <1>8
      <4>3. QED
        BY <4>1, <4>2
    <3> HIDE DEF S
    <3>3. QED
      BY <3>1, <3>2
  <2> HIDE DEF S
  <2>8. Cardinality(S) = Window
    <3>1. l + 1 \in Int /\ k \in Int /\ ~(l + 1 > k) /\ k - (l + 1) + 1 = Window
      BY <2>6, WindowAssumption
    <3>2. Cardinality((l + 1)..k) = k - (l + 1) + 1
      BY <3>1, FS_Interval
    <3>3. QED
      BY <2>7, <3>1, <3>2
  <2>9. Cardinality(S) < Window
    BY <1>9 DEF Recent, S
  <2>10. QED
    BY <2>8, <2>9, WindowAssumption
<1>10. d.receipts = {r \in all : Len(r.block) > Height(c) + 1 - Window}
  BY <1>2, <1>9
<1> HIDE DEF d
<1>11. d.receipts = {r \in Hist(d) : Len(r.block) > Height(d) - Window}
  <2>1. c.receipts = {r \in Hist(c) : Len(r.block) > Height(c) - Window}
    BY DEF Windowed
  <2>2. \A r \in Hist(c) : Len(r.block) \in Nat
    BY DEF Accounted, LeavesLead
  <2>3. \A r \in Hist(c) : Len(r.block) > Height(c) + 1 - Window => Len(r.block) > Height(c) - Window
    BY <2>2, <1>1, WindowAssumption
  <2>4. c.receipts \subseteq Hist(c)
    BY <2>1
  <2>5. PICK m : m = Height(c) + 1 - Window
    OBVIOUS
  <2>6. Height(d) - Window = m
    BY <1>1, <2>5, WindowAssumption
  <2>7. d.receipts = {r \in all : Len(r.block) > m}
    BY <1>10, <2>5
  <2>8. \A r \in Hist(c) : Len(r.block) > m => r \in c.receipts
    BY <2>1, <2>3, <2>5
  <2>9. d.receipts = {r \in Hist(d) : Len(r.block) > m}
    BY <1>1, <2>4, <2>7, <2>8
  <2>10. QED
    BY <2>6, <2>9
<1>12. d.batches = {d.blocks[h].id : h \in {k \in 1..Height(d) : k > Height(d) - Window}}
  <2>1. c.batches = {c.blocks[h].id : h \in {k \in 1..Height(c) : k > Height(c) - Window}}
    BY DEF Windowed
  <2>2. ASSUME NEW h \in 1..Height(c), h > Height(c) - Window
        PROVE  (\E r \in d.receipts : Len(r.block) = Len(c.blocks[h].id)) <=> h > Height(d) - Window
    <3>1. Len(c.blocks[h].id) = h /\ h \in 1..(Height(c) + 1)
      BY <1>1, <1>6
    <3>2. PICK r \in all : Len(r.block) = h
      BY <1>8, <2>2, <3>1
    <3>3. PICK m : m = Height(c) + 1 - Window
      OBVIOUS
    <3>4. Height(d) - Window = m
      BY <1>1, <3>3, WindowAssumption
    <3>5. d.receipts = {q \in all : Len(q.block) > m}
      BY <1>10, <3>3
    <3>6. QED
      BY <3>1, <3>2, <3>4, <3>5
  <2>3. ASSUME NEW id \in d.batches
        PROVE  \E h \in 1..Height(d) : h > Height(d) - Window /\ id = d.blocks[h].id
    <3>1. CASE id = blk.id
      BY <3>1, <1>1, WindowAssumption
    <3>2. CASE id \in c.batches /\ \E r \in d.receipts : Len(r.block) = Len(id)
      <4>1. PICK h \in 1..Height(c) : h > Height(c) - Window /\ id = c.blocks[h].id
        BY <2>1, <3>2
      <4>2. h > Height(d) - Window
        BY <2>2, <3>2, <4>1
      <4>3. QED
        BY <1>1, <4>1, <4>2
    <3>3. QED
      BY <1>3, <3>1, <3>2
  <2>4. ASSUME NEW h \in 1..Height(d), h > Height(d) - Window
        PROVE  d.blocks[h].id \in d.batches
    <3>1. CASE h = Height(c) + 1
      BY <3>1, <1>1, <1>3
    <3>2. CASE h \in 1..Height(c)
      <4>1. h > Height(c) - Window
        BY <1>1, <2>4, <3>2, WindowAssumption
      <4>2. c.blocks[h].id \in c.batches
        BY <2>1, <3>2, <4>1
      <4>3. \E r \in d.receipts : Len(r.block) = Len(c.blocks[h].id)
        BY <2>2, <2>4, <3>2, <4>1
      <4>4. QED
        BY <1>1, <1>3, <3>2, <4>2, <4>3
    <3>3. QED
      BY <1>1, <3>1, <3>2
  <2>5. QED
    BY <2>3, <2>4
<1>13. QED
  BY <1>11, <1>12 DEF Windowed, d

\* A replay of more blocks begins with the replay of the blocks before.
LEMMA ReplaysAgree ==
    ASSUME NEW f, NEW d, NEW n \in Nat, Follows(f, d, n),
           NEW g, NEW e, NEW m \in Nat, Follows(g, e, m), n <= m,
           \A h \in 1..n : StoredAt(e, h) = StoredAt(d, h)
    PROVE  \A k \in 0..n : g[k] = f[k]
<1> DEFINE T == {k \in 0..n : g[k] # f[k]}
<1>1. SUFFICES ASSUME T # {} PROVE FALSE
  OBVIOUS
<1>2. PICK k \in T : \A i \in T : k <= i
  <2>1. T \subseteq Nat
    OBVIOUS
  <2> HIDE DEF T
  <2>2. QED
    BY <1>1, <2>1, Least
<1>3. k \in 0..n /\ k \in 0..m /\ g[k] # f[k]
  OBVIOUS
<1>4. /\ f[k] = IF k = 0 THEN EmptyChain ELSE Advance(f[k - 1], StoredAt(d, k))
      /\ g[k] = IF k = 0 THEN EmptyChain ELSE Advance(g[k - 1], StoredAt(e, k))
  BY <1>3 DEF Follows
<1>5. k # 0
  BY <1>3, <1>4
<1>6. k - 1 \in 0..n /\ k - 1 \notin T /\ k \in 1..n
  BY <1>2, <1>3, <1>5
<1>7. g[k - 1] = f[k - 1] /\ StoredAt(e, k) = StoredAt(d, k)
  BY <1>6
<1>8. QED
  BY <1>3, <1>4, <1>5, <1>7

\* A saved block replays on top of the others.
LEMMA SaveReplays ==
    ASSUME NEW d \in Disks, IsFiniteSet(d.blocks), Loadable(d), SameLength(d.blocks, d.blocks),
           NEW blk \in Blocks, Applicable(Load(d), blk),
           NEW e \in Disks, e.blocks = d.blocks \cup {blk}, e.last = blk.id
    PROVE  /\ Loadable(e) /\ Load(e) = Advance(Load(d), blk)
<1> DEFINE n == Cardinality(d.blocks)
           c == Load(d)
           f == Replay(d)
           g == Replay(e)
<1>1. n \in Nat
  BY FS_CardinalityType
<1>2. c = f[n] /\ Stage(c, d, n)
  BY LoadIsReplay
<1>3. {Len(b.id) : b \in d.blocks} = 1..n
  BY DEF Loadable
<1>4. Applicable(c, blk) /\ c \in Chains /\ ChainShape(c) /\ Height(c) = n /\ c.pool = {}
  BY <1>2 DEF Stage
<1>5. Follows(f, d, n)
  BY <1>1, ReplayFollows
<1>6. \A h \in 1..n : Applicable(f[h - 1], StoredAt(d, h))
  BY DEF Loadable
<1> HIDE DEF c, f
<1>7. Len(blk.id) = n + 1
  BY <1>4 DEF Applicable
<1>8. blk \notin d.blocks /\ \A b \in d.blocks : Len(b.id) # Len(blk.id)
  <2>1. \A b \in d.blocks : Len(b.id) \in 1..n
    BY <1>3
  <2>2. \A b \in d.blocks : Len(b.id) # n + 1
    BY <1>1, <2>1
  <2>3. QED
    BY <1>7, <2>2
<1>9. IsFiniteSet(e.blocks) /\ Cardinality(e.blocks) = n + 1
  BY <1>8, FS_AddElement
<1> HIDE DEF n
<1>10. SameLength(e.blocks, e.blocks)
  BY <1>8 DEF SameLength
<1>11. StoredAt(e, n + 1) = blk
  BY <1>7, <1>10, StoredIs
<1>12. \A h \in 1..n : StoredAt(e, h) = StoredAt(d, h)
  <2> TAKE h \in 1..n
  <2>1. PICK b \in d.blocks : Len(b.id) = h
    BY <1>3
  <2>2. b \in e.blocks
    OBVIOUS
  <2>3. StoredAt(d, Len(b.id)) = b
    BY StoredIs
  <2>4. StoredAt(e, Len(b.id)) = b
    BY <1>10, <2>2, StoredIs
  <2>5. QED
    BY <2>1, <2>3, <2>4
<1>13. Follows(g, e, n + 1)
  <2>1. Cardinality(e.blocks) \in Nat
    BY <1>1, <1>9
  <2>2. Follows(Replay(e), e, Cardinality(e.blocks))
    BY <2>1, ReplayFollows
  <2>3. QED
    BY <1>9, <2>2
<1> HIDE DEF g
<1>14. \A k \in 0..n : g[k] = f[k]
  <2>1. n + 1 \in Nat /\ n <= n + 1
    BY <1>1
  <2>2. QED
    BY <1>1, <1>5, <1>12, <1>13, <2>1, ReplaysAgree
<1>15. g[n + 1] = Advance(c, blk)
  <2>1. n + 1 \in 0..(n + 1) /\ n + 1 # 0 /\ (n + 1) - 1 = n /\ n \in 0..n
    BY <1>1
  <2>2. g[n + 1] = IF n + 1 = 0 THEN EmptyChain ELSE Advance(g[(n + 1) - 1], StoredAt(e, n + 1))
    BY <1>13, <2>1 DEF Follows
  <2>3. g[n] = c
    BY <1>2, <1>14, <2>1
  <2>4. QED
    BY <1>11, <2>1, <2>2, <2>3
<1>16. \A h \in 1..(n + 1) : Applicable(g[h - 1], StoredAt(e, h))
  <2> TAKE h \in 1..(n + 1)
  <2>1. CASE h \in 1..n
    <3>1. h - 1 \in 0..n
      BY <1>1, <2>1
    <3>2. QED
      BY <1>6, <1>12, <1>14, <2>1, <3>1
  <2>2. CASE h = n + 1
    <3>1. h - 1 = n /\ n \in 0..n
      BY <1>1, <2>2
    <3>2. QED
      BY <1>2, <1>4, <1>11, <1>14, <2>2, <3>1
  <2>3. QED
    BY <1>1, <2>1, <2>2
<1>17. {Len(b.id) : b \in e.blocks} = 1..(n + 1)
  <2>1. {Len(b.id) : b \in e.blocks} = {Len(b.id) : b \in d.blocks} \cup {Len(blk.id)}
    OBVIOUS
  <2>2. 1..(n + 1) = 1..n \cup {n + 1}
    BY <1>1
  <2>3. QED
    BY <1>3, <1>7, <2>1, <2>2
<1>18. Tip(g[n + 1]) = e.last
  <2>1. Advance(c, blk).blocks = Append(c.blocks, blk)
    BY DEF Advance
  <2>2. c.blocks \in Seq(Blocks)
    BY <1>4 DEF Chains
  <2>3. Append(c.blocks, blk) # <<>> /\ Append(c.blocks, blk)[Len(Append(c.blocks, blk))] = blk
    BY <2>2
  <2>4. Tip(Advance(c, blk)) = blk.id
    BY <2>1, <2>3 DEF Tip
  <2>5. QED
    BY <1>15, <2>4
<1>19. Loadable(e)
  BY <1>9, <1>16, <1>17, <1>18 DEF Loadable, g
<1>20. Load(e) = Replay(e)[Cardinality(e.blocks)]
  BY <1>9, <1>19, LoadIsReplay
<1>21. QED
  BY <1>9, <1>15, <1>19, <1>20 DEF c, g

\* save_applied_block keeps the rows that the cache of the same chain keeps.
LEMMA SaveKeepsRows ==
    ASSUME NEW c \in Chains, ChainShape(c), Accounted(c), Windowed(c),
           NEW blk, Continues(c, blk), Windowed(Advance(c, blk)),
           NEW d, d.receipts = c.receipts, d.batches = c.batches
    PROVE  /\ SaveBlock(d, blk).receipts = Advance(c, blk).receipts
           /\ SaveBlock(d, blk).batches = Advance(c, blk).batches
<1> DEFINE a == Advance(c, blk)
           e == SaveBlock(d, blk)
<1>1. /\ Hist(a) = Hist(c) \cup ReceiptsOf(blk) /\ Height(a) = Height(c) + 1 /\ Height(c) \in Nat
      /\ \A h \in 1..Height(c) : a.blocks[h] = c.blocks[h]
      /\ a.blocks[Height(c) + 1] = blk /\ Len(blk.id) = Height(c) + 1
  BY AdvanceFields DEF Continues
<1>2. PICK m \in Int : m = Height(c) + 1 - Window
  BY <1>1, WindowAssumption
<1>3. Height(a) - Window = m /\ Len(blk.id) - Window = m
  BY <1>1, <1>2, WindowAssumption
<1>4. /\ a.receipts = {r \in Hist(a) : Len(r.block) > m}
      /\ a.batches = {a.blocks[h].id : h \in {k \in 1..Height(a) : k > m}}
  BY <1>3 DEF Windowed
<1>5. /\ c.receipts = {r \in Hist(c) : Len(r.block) > Height(c) - Window}
      /\ c.batches = {c.blocks[h].id : h \in {k \in 1..Height(c) : k > Height(c) - Window}}
  BY DEF Windowed
<1>6. \A r \in Hist(c) : Len(r.block) > m => r \in c.receipts
  <2>1. \A r \in Hist(c) : Len(r.block) \in Nat
    BY DEF Accounted, LeavesLead
  <2>2. \A l \in Nat : l > m => l > Height(c) - Window
    BY <1>1, <1>2, WindowAssumption
  <2>3. QED
    BY <1>5, <2>1, <2>2
<1>7. Replacing(d.receipts, ReceiptsOf(blk)) = c.receipts \cup ReceiptsOf(blk)
  BY <1>5, NothingReplaced DEF Accounted
<1>8. e.receipts = {r \in Replacing(d.receipts, ReceiptsOf(blk)) : Len(r.block) > m}
  BY <1>3 DEF SaveBlock, InStoreWindow
<1>9. e.batches = {id \in c.batches \cup {blk.id} : Len(id) > m}
  BY <1>3 DEF SaveBlock, InStoreWindow
<1> HIDE DEF a, e
<1>10. e.receipts = a.receipts
  BY <1>1, <1>4, <1>5, <1>6, <1>7, <1>8
<1>11. \A h \in 1..Height(c) : Len(c.blocks[h].id) = h
  BY DEF ChainShape, Height
<1>12. ASSUME NEW id \in e.batches PROVE id \in a.batches
  <2>1. Len(id) > m
    BY <1>9
  <2>2. CASE id = blk.id
    <3>1. Height(c) + 1 \in {k \in 1..Height(a) : k > m}
      BY <1>1, <2>1, <2>2
    <3>2. QED
      BY <1>1, <1>4, <2>2, <3>1
  <2>3. CASE id \in c.batches
    <3>1. PICK h \in 1..Height(c) : id = c.blocks[h].id
      BY <1>5, <2>3
    <3>2. h \in {k \in 1..Height(a) : k > m}
      BY <1>1, <1>11, <2>1, <3>1
    <3>3. id = a.blocks[h].id
      BY <1>1, <3>1
    <3>4. QED
      BY <1>4, <3>2, <3>3
  <2>4. QED
    BY <1>9, <2>2, <2>3
<1>13. ASSUME NEW id \in a.batches PROVE id \in e.batches
  <2>1. PICK h \in 1..Height(a) : h > m /\ id = a.blocks[h].id
    BY <1>4
  <2>2. CASE h = Height(c) + 1
    <3>1. id = blk.id /\ Len(id) > m
      BY <1>1, <2>1, <2>2
    <3>2. QED
      BY <1>9, <3>1
  <2>3. CASE h \in 1..Height(c)
    <3>1. id = c.blocks[h].id /\ Len(id) = h
      BY <1>1, <1>11, <2>1, <2>3
    <3>2. h > Height(c) - Window
      BY <1>1, <1>2, <2>1, <2>3, WindowAssumption
    <3>3. id \in c.batches
      BY <1>5, <2>3, <3>1, <3>2
    <3>4. QED
      BY <1>9, <2>1, <3>1, <3>3
  <2>4. QED
    BY <1>1, <2>2, <2>3
<1>14. e.batches = a.batches
  BY <1>12, <1>13
<1>15. QED
  BY <1>10, <1>14 DEF a, e

\* A store takes the block that applies on top of what it loads.
LEMMA SaveIsSound ==
    ASSUME NEW d \in Disks, IsFiniteSet(d.blocks), SameLength(d.blocks, d.blocks), Sound(d),
           \A b \in d.blocks : Filled(b),
           NEW blk \in Blocks, Applicable(Load(d), blk), Filled(blk), SaveBlock(d, blk) \in Disks
    PROVE  Sound(SaveBlock(d, blk)) /\ Load(SaveBlock(d, blk)) = Advance(Load(d), blk)
<1> DEFINE n == Cardinality(d.blocks)
           c == Load(d)
           e == SaveBlock(d, blk)
<1>1. Stage(c, d, n) /\ n \in Nat
  BY LoadIsReplay, FS_CardinalityType DEF Sound
<1>2. /\ Loadable(d) /\ c.receipts = d.receipts /\ c.batches = d.batches /\ Windowed(c)
  BY DEF Sound
<1>3. \A h \in 1..n : StoredAt(d, h) \in d.blocks
  <2> TAKE h \in 1..n
  <2>1. h \in {Len(b.id) : b \in d.blocks}
    BY <1>2 DEF Loadable
  <2>2. \E b \in d.blocks : Len(b.id) = h
    BY <2>1
  <2>3. QED
    BY <2>2 DEF StoredAt
<1>4. e.blocks = d.blocks \cup {blk} /\ e.last = blk.id /\ e \in Disks
  BY DEF SaveBlock
<1> HIDE DEF c, n
<1>5. c \in Chains /\ ChainShape(c) /\ Accounted(c) /\ \A h \in 1..Height(c) : Filled(c.blocks[h])
  BY <1>1, <1>3 DEF Stage
<1>6. Continues(c, blk)
  BY ApplicableContinues DEF c
<1>7. Windowed(Advance(c, blk))
  BY <1>2, <1>5, <1>6, AdvanceWindowed
<1>8. e.receipts = Advance(c, blk).receipts /\ e.batches = Advance(c, blk).batches
  BY <1>2, <1>5, <1>6, <1>7, SaveKeepsRows
<1> HIDE DEF e
<1>9. Loadable(e) /\ Load(e) = Advance(c, blk)
  BY <1>2, <1>4, SaveReplays DEF c
<1>10. Sound(e)
  BY <1>7, <1>8, <1>9 DEF Sound
<1>11. QED
  BY <1>9, <1>10 DEF c, e

-----------------------------------------------------------------------------
(* A node between two operations *)

\* What apply_block looks at is not the pool.
LEMMA BareChain ==
    ASSUME NEW c \in Chains, NEW blk
    PROVE  /\ Bare(c) \in Chains
           /\ Bare(c).receipts = c.receipts /\ Bare(c).batches = c.batches
           /\ Applicable(c, blk) => Applicable(Bare(c), blk)
           /\ Bare(Advance(c, blk)) = Advance(Bare(c), blk)
<1> DEFINE d == Bare(c)
<1>1. /\ d.blocks = c.blocks /\ d.leaves = c.leaves /\ d.receipts = c.receipts
      /\ d.batches = c.batches /\ d.pool = {} /\ d \in Chains
  BY DEF Bare, Chains
<1> HIDE DEF d
<1>2. Applicable(c, blk) => Applicable(d, blk)
  BY <1>1 DEF Applicable, Height, Tip
<1>3. Unfinalized(d.pool, BundlesOf(blk)) = {}
  BY <1>1 DEF Unfinalized
<1>4. Bare(Advance(c, blk)) = Advance(d, blk)
  <2> DEFINE new(x, l, r, t, p) == [blocks |-> x, leaves |-> l, receipts |-> r, batches |-> t, pool |-> p]
  <2>1. \A x, l, r, t, p : [new(x, l, r, t, p) EXCEPT !.pool = {}] = new(x, l, r, t, {})
    OBVIOUS
  <2>2. PICK x, l, r, t :
           /\ Advance(c, blk) = new(x, l, r, t, Unfinalized(c.pool, BundlesOf(blk)))
           /\ Advance(d, blk) = new(x, l, r, t, {})
    BY <1>1, <1>3 DEF Advance
  <2> HIDE DEF new
  <2>3. QED
    BY <2>1, <2>2 DEF Bare
<1>5. QED
  BY <1>1, <1>2, <1>4 DEF d

LEMMA AppendAndCut ==
    ASSUME NEW S, NEW t \in Seq(S), NEW x \in S
    PROVE  SubSeq(Append(t, x), 1, Len(t)) = t /\ Append(t, x)[Len(t) + 1] = x
<1>1. PICK q, k : q = Append(t, x) /\ k = Len(t)
  OBVIOUS
<1>2. q \in Seq(S) /\ Len(q) = k + 1 /\ q[k + 1] = x /\ k \in Nat /\ \A i \in 1..k : q[i] = t[i]
  BY <1>1
<1>3. \A i \in 1..k : q[i] \in S
  BY <1>1, <1>2
<1>4. SubSeq(q, 1, k) \in Seq(S) /\ Len(SubSeq(q, 1, k)) = k /\ \A i \in 1..k : SubSeq(q, 1, k)[i] = q[i]
  <2>1. 1 \in Int /\ k \in Int
    BY <1>2
  <2>2. /\ SubSeq(q, 1, k) \in Seq(S)
        /\ Len(SubSeq(q, 1, k)) = IF 1 <= k THEN k - 1 + 1 ELSE 0
        /\ \A i \in 1..(k - 1 + 1) : SubSeq(q, 1, k)[i] = q[1 + i - 1]
    BY <1>3, <2>1, SubSeqProperties
  <2>3. k - 1 + 1 = k /\ \A i \in 1..k : 1 + i - 1 = i
    BY <1>2
  <2>4. QED
    BY <1>2, <2>2, <2>3
<1>5. SubSeq(q, 1, k) = t
  BY <1>1, <1>2, <1>4
<1>6. QED
  BY <1>1, <1>2, <1>5

\* apply_block accepts the block of an executable pool in which nothing expires
\* (build_block on the driver, apply_block on its peers).
LEMMA PreviewApplies ==
    ASSUME NEW c \in Chains, ChainShape(c), Executable(c), \A b \in c.pool : b.expiry >= Height(c) + 1
    PROVE  Applicable(c, NextBlock(c))
<1> DEFINE blk == NextBlock(c)
           entry(b) == [bundle |-> b, prev |-> c.leaves[b.sender]]
<1>1. Tip(c) \in BlockIds /\ Len(Tip(c)) = Height(c) /\ Height(c) \in Nat
  BY TipShape
<1>2. /\ blk.id = Append(Tip(c), Content(c.pool))
      /\ blk.entries = {entry(b) : b \in c.pool}
      /\ blk.root = LeavesAfter(c.leaves, blk.id, c.pool)
  BY DEF NextBlock
<1>3. BundlesOf(blk) = c.pool /\ Len(blk.id) = Height(c) + 1
  BY NextBlockShape
<1>4. \A b \in c.pool : entry(b).bundle = b /\ entry(b).prev = c.leaves[b.sender]
  OBVIOUS
<1> HIDE DEF blk, entry
<1>5. SubSeq(blk.id, 1, Height(c)) = Tip(c) /\ blk.id[Len(blk.id)] = Content(c.pool)
  <2>1. Content(c.pool) \in SUBSET (Accounts \X Bodies)
    BY DEF Content, ChainShape, Bundles
  <2>2. PICK S, t, x : S = SUBSET (Accounts \X Bodies) /\ t = Tip(c) /\ x = Content(c.pool)
    OBVIOUS
  <2>3. t \in Seq(S) /\ x \in S /\ Len(t) = Height(c)
    BY <1>1, <2>1, <2>2 DEF BlockIds
  <2>4. SubSeq(Append(t, x), 1, Len(t)) = t /\ Append(t, x)[Len(t) + 1] = x
    BY <2>3, AppendAndCut
  <2>5. QED
    BY <1>2, <1>3, <2>2, <2>3, <2>4
<1>6. \A e \in blk.entries : /\ e.bundle \in c.pool /\ e = entry(e.bundle)
                             /\ e.prev = c.leaves[e.bundle.sender]
  BY <1>2, <1>4
<1>7. \A d, e \in blk.entries : d.bundle.sender = e.bundle.sender => d = e
  <2>1. \A d, e \in blk.entries : d.bundle.sender = e.bundle.sender => d.bundle = e.bundle
    BY <1>6 DEF Executable
  <2>2. QED
    BY <1>6, <2>1
<1>8. \A e \in blk.entries : /\ e.bundle.expiry >= Len(blk.id)
                             /\ e.prev = c.leaves[e.bundle.sender]
                             /\ e.bundle.seq = c.leaves[e.bundle.sender].seq + 1
  BY <1>3, <1>6 DEF Executable
<1>9. QED
  BY <1>2, <1>3, <1>5, <1>7, <1>8 DEF Applicable, blk

\* One handler thread, no failing save, and no bundle that a driver of the legacy
\* mode would build into a block after its expiry.
ReloadAssumption ==
    /\ Threads = 1 /\ MaxSaveFailures = 0
    /\ Mode = "legacy" => \A x \in Expiries : x >= MaxHeight

\* An empty store.
LEMMA EmptyIsSound == Sound(EmptyDisk) /\ Load(EmptyDisk) = EmptyChain
<1> DEFINE d == EmptyDisk
<1>1. d.blocks = {} /\ d.last = <<>> /\ d.receipts = {} /\ d.batches = {} /\ d \in Disks
  BY DEF EmptyDisk, Disks, BlockIds
<1>2. IsFiniteSet(d.blocks) /\ Cardinality(d.blocks) = 0
  BY <1>1, FS_EmptySet
<1> HIDE DEF d
<1>3. Replay(d)[0] = EmptyChain
  <2>1. Follows(Replay(d), d, 0)
    BY <1>2, ReplayFollows
  <2>2. QED
    BY <2>1 DEF Follows
<1>4. Tip(EmptyChain) = <<>> /\ Height(EmptyChain) = 0 /\ Hist(EmptyChain) = {} /\ 1..0 = {}
  BY DEF EmptyChain, Tip, Height, Hist
<1>5. Loadable(d)
  BY <1>1, <1>2, <1>3, <1>4 DEF Loadable
<1>6. Load(d) = EmptyChain
  BY <1>1, <1>2, <1>3, <1>5, LoadIsReplay
<1>7. Windowed(EmptyChain)
  <2>1. EmptyChain.receipts = {} /\ EmptyChain.batches = {}
    BY DEF EmptyChain
  <2>2. {k \in 1..Height(EmptyChain) : k > Height(EmptyChain) - Window} = {}
    BY <1>4
  <2>3. QED
    BY <1>4, <2>1, <2>2 DEF Windowed
<1>8. Sound(d)
  BY <1>1, <1>5, <1>6, <1>7 DEF Sound, EmptyChain
<1>9. QED
  BY <1>6, <1>8 DEF d

LEMMA ReloadInit == Init => ReloadState
<1> SUFFICES ASSUME Init PROVE ReloadState
  OBVIOUS
<1>1. \A n \in Nodes : /\ disk[n] = EmptyDisk /\ chain[n] = EmptyChain /\ saving[n] = {}
  BY DEF Init
<1>2. EmptyDisk.blocks = {} /\ EmptyChain.pool = {} /\ Bare(EmptyChain) = EmptyChain
  <2>1. EmptyDisk.blocks = {} /\ EmptyChain.pool = {}
    BY DEF EmptyDisk, EmptyChain
  <2>2. \A c \in Chains : c.pool = {} => Bare(c) = c
    BY DEF Bare, Chains
  <2>3. QED
    BY <2>1, <2>2, EmptyAccounted
<1>3. \A n \in Nodes : Sound(disk[n]) /\ Behind(n)
  BY <1>1, <1>2, EmptyIsSound DEF Behind
<1>4. QED
  BY <1>1, <1>2, <1>3 DEF ReloadState, OnDisk

LEMMA ReloadSubmit ==
    ASSUME ReloadAssumption, IInv, TypeOK, ReloadState, NEW n \in Nodes, NEW b \in Inputs,
           SubmitBundle(n, b)
    PROVE  ReloadState'
<1> DEFINE d == Submit(chain[n], b)
<1>1. chain' = [chain EXCEPT ![n] = d] /\ UNCHANGED <<up, disk, saving>>
  BY DEF SubmitBundle
<1>2. Bare(d) = Bare(chain[n]) /\ d.pool \subseteq chain[n].pool \cup {b}
  <2>1. chain[n] \in Chains
    BY DEF TypeOK
  <2>2. QED
    BY <2>1 DEF Submit, Bare, Chains
<1>3. b.expiry \in Expiries
  BY DEF Inputs
<1> HIDE DEF d
<1>4. chain'[n] = d /\ \A m \in Nodes \ {n} : chain'[m] = chain[m]
  BY <1>1 DEF TypeOK
<1>5. \A m \in Nodes : Bare(chain'[m]) = Bare(chain[m])
  BY <1>2, <1>4
<1>6. \A m \in Nodes : Behind(m)'
  BY <1>1, <1>5 DEF ReloadState, Behind
<1>7. Mode = "legacy" => \A m \in Nodes : \A x \in chain'[m].pool : x.expiry >= MaxHeight
  <2> SUFFICES ASSUME Mode = "legacy", NEW m \in Nodes, NEW x \in chain'[m].pool
               PROVE  x.expiry >= MaxHeight
    OBVIOUS
  <2>1. x = b \/ x \in chain[m].pool
    BY <1>2, <1>4
  <2>2. QED
    BY <1>3, <2>1 DEF ReloadState, ReloadAssumption
<1>8. OnDisk' = OnDisk
  BY <1>1 DEF OnDisk
<1>9. QED
  BY <1>1, <1>6, <1>7, <1>8 DEF ReloadState

\* A node whose memory is what its store loads takes a block that applies.
LEMMA ReloadTake ==
    ASSUME ReloadAssumption, IInv, TypeOK, ReloadState, NEW n \in Nodes, Free(n),
           NEW blk, NEW own, Applicable(chain[n], blk), Filled(blk),
           chain' = [chain EXCEPT ![n] = Advance(chain[n], blk)],
           saving' = [saving EXCEPT ![n] = saving[n] \cup {[block |-> blk, own |-> own]}],
           UNCHANGED <<up, disk>>
    PROVE  ReloadState'
<1> DEFINE c == chain[n]
           d == Advance(c, blk)
<1>1. saving[n] = {} /\ Bare(c) = Load(disk[n])
  <2>1. \A job : Cardinality({job}) = 1
    BY FS_Singleton
  <2>2. PICK k : k = Cardinality(saving[n])
    OBVIOUS
  <2>3. up[n] /\ k < 1
    BY <2>2 DEF Free, ReloadAssumption
  <2>4. ASSUME NEW job, saving[n] = {job} PROVE FALSE
    <3>1. k = 1
      BY <2>1, <2>2, <2>4
    <3>2. QED
      BY <2>3, <3>1
  <2>5. QED
    BY <2>3, <2>4 DEF ReloadState, Behind
<1>2. c \in Chains
  BY DEF TypeOK
<1>3. Applicable(Load(disk[n]), blk) /\ Bare(d) = Advance(Load(disk[n]), blk)
  BY <1>1, <1>2, BareChain
<1>4. d.pool \subseteq c.pool
  BY DEF Advance, Unfinalized
<1> HIDE DEF d
<1>5. chain' = [chain EXCEPT ![n] = d]
  BY DEF d
<1>6. PICK job : job.block = blk /\ saving' = [saving EXCEPT ![n] = {job}]
  <2>1. [block |-> blk, own |-> own].block = blk
    OBVIOUS
  <2>2. QED
    BY <1>1, <2>1
<1>7. /\ chain'[n] = d /\ \A m \in Nodes \ {n} : chain'[m] = chain[m]
      /\ saving'[n] = {job} /\ \A m \in Nodes \ {n} : saving'[m] = saving[m]
  BY <1>5, <1>6 DEF TypeOK
<1>8. Behind(n)'
  BY <1>3, <1>6, <1>7 DEF Behind
<1>9. \A m \in Nodes \ {n} : Behind(m)'
  BY <1>7 DEF ReloadState, Behind
<1>10. \A m \in Nodes : chain'[m].pool \subseteq chain[m].pool
  BY <1>4, <1>7
<1>11. OnDisk' = OnDisk
  BY DEF OnDisk
<1>12. QED
  BY <1>8, <1>9, <1>10, <1>11 DEF ReloadState

\* A driver builds a block that a restarted node will accept.
LEMMA ReloadMake ==
    ASSUME ReloadAssumption, IInv, TypeOK, ReloadState, NEW n \in Nodes, MakeBlock(n)
    PROVE  ReloadState'
<1> DEFINE c == chain[n]
           blk == NextBlock(c)
<1>1. c \in Chains /\ ChainShape(c) /\ Executable(c)
  BY DEF TypeOK, IInv, Shapes
<1>2. Applicable(c, blk)
  <2>1. CASE Mode = "mvp"
    BY <2>1 DEF MakeBlock
  <2>2. CASE Mode = "legacy"
    <3>1. Height(c) \in Nat /\ Height(c) < MaxHeight /\ MaxHeight \in Nat
      BY <1>1, TipShape, NodesAssumption DEF MakeBlock
    <3>2. \A b \in c.pool : b.expiry \in Nat /\ b.expiry >= MaxHeight
      BY <1>1, <2>2 DEF ReloadState, ChainShape, Bundles
    <3>3. \A b \in c.pool : b.expiry >= Height(c) + 1
      BY <3>1, <3>2
    <3>4. QED
      BY <1>1, <3>3, PreviewApplies
  <2>3. QED
    BY <2>1, <2>2, NodesAssumption
<1>3. Filled(blk)
  <2>1. BundlesOf(blk) = c.pool /\ c.pool # {}
    BY <1>1, NextBlockShape DEF MakeBlock
  <2>2. QED
    BY <2>1 DEF BundlesOf, Filled
<1>4. /\ Free(n) /\ chain' = [chain EXCEPT ![n] = Advance(chain[n], blk)]
      /\ saving' = [saving EXCEPT ![n] = saving[n] \cup {[block |-> blk, own |-> TRUE]}]
      /\ UNCHANGED <<up, disk>>
  BY DEF MakeBlock
<1> HIDE DEF blk
<1>5. QED
  BY <1>2, <1>3, <1>4, ReloadTake

LEMMA ReloadSync ==
    ASSUME ReloadAssumption, IInv, TypeOK, ReloadState, NEW n \in Nodes, NEW m \in notices[n],
           SyncBlock(n, m)
    PROVE  ReloadState'
<1>1. PICK blk \in Obtainable(n, m) :
         /\ Applicable(chain[n], blk)
         /\ chain' = [chain EXCEPT ![n] = Advance(chain[n], blk)]
         /\ saving' = [saving EXCEPT ![n] = saving[n] \cup {[block |-> blk, own |-> FALSE]}]
  BY DEF SyncBlock
<1>2. m.from \in Nodes /\ m.block \in OnDisk
  BY DEF IInv, AnnouncedIsSaved
<1>3. Filled(blk)
  BY <1>2 DEF ReloadState, Obtainable, OnDisk
<1>4. Free(n) /\ UNCHANGED <<up, disk>>
  BY DEF SyncBlock
<1>5. QED
  BY <1>1, <1>3, <1>4, ReloadTake

\* With the block saved, the store has what the memory has.
LEMMA ReloadSave ==
    ASSUME IInv, TypeOK, TypeOK', ReloadState, NEW n \in Nodes, NEW job \in saving[n], Save(n, job)
    PROVE  ReloadState'
<1> DEFINE d == disk[n]
           blk == job.block
           e == SaveBlock(d, blk)
<1>1. /\ up[n] /\ disk' = [disk EXCEPT ![n] = e]
      /\ saving' = [saving EXCEPT ![n] = saving[n] \ {job}] /\ UNCHANGED <<up, chain>>
  BY DEF Save
<1>2. /\ saving[n] = {job} /\ Applicable(Load(d), blk) /\ Filled(blk)
      /\ Bare(chain[n]) = Advance(Load(d), blk)
  BY <1>1 DEF ReloadState, Behind
<1>3. /\ disk'[n] = e /\ \A m \in Nodes \ {n} : disk'[m] = disk[m]
      /\ saving'[n] = {} /\ \A m \in Nodes \ {n} : saving'[m] = saving[m]
  <2>1. saving[n] \ {job} = {}
    BY <1>2
  <2>2. QED
    BY <1>1, <2>1 DEF TypeOK
<1>4. d \in Disks /\ e \in Disks /\ blk \in Blocks
  BY <1>3 DEF TypeOK, Jobs
<1>5. IsFiniteSet(d.blocks) /\ SameLength(d.blocks, d.blocks) /\ \A b \in d.blocks : Filled(b)
  BY DEF IInv, Shapes, OneBlockPerHeight, SameLength, OnDisk, ReloadState
<1>6. Sound(d)
  BY DEF ReloadState
<1>7. Sound(e) /\ Load(e) = Advance(Load(d), blk)
  BY <1>2, <1>4, <1>5, <1>6, SaveIsSound
<1>8. e.blocks = d.blocks \cup {blk}
  BY DEF SaveBlock
<1> HIDE DEF e
<1>9. Behind(n)'
  BY <1>1, <1>2, <1>3, <1>7 DEF Behind
<1>10. \A m \in Nodes \ {n} : Behind(m)' /\ Sound(disk'[m])
  BY <1>1, <1>3 DEF ReloadState, Behind
<1>11. \A b \in OnDisk' : Filled(b)
  BY <1>2, <1>3, <1>8 DEF ReloadState, OnDisk
<1>12. QED
  BY <1>1, <1>3, <1>7, <1>9, <1>10, <1>11 DEF ReloadState

LEMMA ReloadDrop ==
    ASSUME ReloadAssumption, TypeOK, ReloadState, NEW n \in Nodes,
           \/ \E job \in saving[n] : SaveFails(n, job)
           \/ \E m \in notices[n] : EndSync(n, m)
    PROVE  ReloadState'
<1>1. ~\E job \in saving[n] : SaveFails(n, job)
  BY DEF SaveFails, TypeOK, ReloadAssumption
<1>2. UNCHANGED <<up, chain, disk, saving>>
  BY <1>1 DEF EndSync
<1>3. QED
  BY <1>2 DEF ReloadState, OnDisk, Behind

LEMMA ReloadCrash ==
    ASSUME TypeOK, ReloadState, NEW n \in Nodes, Crash(n)
    PROVE  ReloadState'
<1>1. /\ chain' = [chain EXCEPT ![n] = EmptyChain] /\ up' = [up EXCEPT ![n] = FALSE]
      /\ saving' = [saving EXCEPT ![n] = {}] /\ UNCHANGED disk
  BY DEF Crash
<1>2. /\ chain'[n] = EmptyChain /\ ~up'[n]
      /\ \A m \in Nodes \ {n} : chain'[m] = chain[m] /\ up'[m] = up[m] /\ saving'[m] = saving[m]
  BY <1>1 DEF TypeOK
<1>3. EmptyChain.pool = {}
  BY DEF EmptyChain
<1>4. \A m \in Nodes : Behind(m)'
  BY <1>1, <1>2 DEF ReloadState, Behind
<1>5. OnDisk' = OnDisk
  BY <1>1 DEF OnDisk
<1>6. \A m \in Nodes : chain'[m].pool \subseteq chain[m].pool
  BY <1>2, <1>3
<1>7. QED
  BY <1>1, <1>4, <1>5, <1>6 DEF ReloadState

LEMMA ReloadRestart ==
    ASSUME IInv, TypeOK, ReloadState, NEW n \in Nodes, Restart(n)
    PROVE  ReloadState'
<1>1. /\ chain' = [chain EXCEPT ![n] = Load(disk[n])] /\ up' = [up EXCEPT ![n] = TRUE]
      /\ UNCHANGED <<disk, saving>> /\ ~up[n]
  BY DEF Restart
<1>2. saving[n] = {}
  BY <1>1 DEF IInv, Shapes
<1>3. Load(disk[n]).pool = {} /\ Bare(Load(disk[n])) = Load(disk[n])
  <2>1. PICK x, l, r, t :
           Load(disk[n]) = [blocks |-> x, leaves |-> l, receipts |-> r, batches |-> t, pool |-> {}]
    BY DEF Load
  <2>2. QED
    BY <2>1 DEF Bare
<1>4. /\ chain'[n] = Load(disk[n])
      /\ \A m \in Nodes \ {n} : chain'[m] = chain[m] /\ up'[m] = up[m]
  BY <1>1 DEF TypeOK
<1>5. Behind(n)'
  BY <1>1, <1>2, <1>3, <1>4 DEF Behind
<1>6. \A m \in Nodes \ {n} : Behind(m)'
  BY <1>1, <1>4 DEF ReloadState, Behind
<1>7. OnDisk' = OnDisk
  BY <1>1 DEF OnDisk
<1>8. \A m \in Nodes : chain'[m].pool \subseteq chain[m].pool
  BY <1>3, <1>4
<1>9. QED
  BY <1>1, <1>5, <1>6, <1>7, <1>8 DEF ReloadState

LEMMA ReloadNext ==
    ASSUME ReloadAssumption, IInv, TypeOK, TypeOK', ReloadState, [Next]_vars
    PROVE  ReloadState'
<1>1. CASE UNCHANGED vars
  BY <1>1 DEF vars, ReloadState, OnDisk, Behind
<1>2. CASE Next
  <2>1. PICK n \in Nodes :
           \/ \E b \in Inputs : SubmitBundle(n, b)
           \/ MakeBlock(n)
           \/ \E job \in saving[n] : Save(n, job) \/ SaveFails(n, job)
           \/ \E m \in notices[n] : SyncBlock(n, m) \/ EndSync(n, m)
           \/ Crash(n)
           \/ Restart(n)
    BY <1>2 DEF Next
  <2>2. QED
    BY <2>1, ReloadSubmit, ReloadMake, ReloadSave, ReloadDrop, ReloadSync, ReloadCrash, ReloadRestart
<1>3. QED
  BY <1>1, <1>2

\* With one handler thread and no failing save, a node between two operations has
\* in memory what load_chain_state gives it back, receipts and proof batches
\* included, and no crash leaves a store that load_chain_state rejects: build_block
\* and apply_block, which check different things, make the same chain, and the
\* cache's window of heights with receipts is the store's window of heights.
THEOREM RestartsChangeNothing ==
    ReloadAssumption => (Spec => [](RestartChangesNothing /\ CanReload))
<1> SUFFICES ASSUME ReloadAssumption PROVE Spec => [](RestartChangesNothing /\ CanReload)
  OBVIOUS
<1>1. IInv /\ TypeOK /\ ReloadState => RestartChangesNothing /\ CanReload
  <2> SUFFICES ASSUME TypeOK, ReloadState PROVE RestartChangesNothing /\ CanReload
    OBVIOUS
  <2>1. CanReload
    BY DEF ReloadState, Sound, CanReload
  <2>2. ASSUME NEW n \in Nodes, up[n], saving[n] = {}
        PROVE  /\ Loadable(disk[n]) /\ Load(disk[n]) = Bare(chain[n])
               /\ disk[n].receipts = chain[n].receipts /\ disk[n].batches = chain[n].batches
    <3>1. Bare(chain[n]) = Load(disk[n]) /\ Sound(disk[n])
      BY <2>2 DEF ReloadState, Behind
    <3>2. chain[n] \in Chains
      BY DEF TypeOK
    <3>3. Bare(chain[n]).receipts = chain[n].receipts /\ Bare(chain[n]).batches = chain[n].batches
      BY <3>2, BareChain
    <3>4. QED
      BY <3>1, <3>3 DEF Sound
  <2>3. RestartChangesNothing
    BY <2>2 DEF RestartChangesNothing, Bare
  <2>4. QED
    BY <2>1, <2>3
<1>2. ReloadState /\ IInv /\ TypeOK /\ TypeOK' /\ [Next]_vars => ReloadState'
  BY ReloadNext
<1>3. Init => ReloadState
  BY ReloadInit
<1>4. QED
  BY <1>1, <1>2, <1>3, ReceiptsHold, PTL DEF Spec

-----------------------------------------------------------------------------
(* The accounts' histories *)

\* Every bundle of a chain's blocks.
Confirmed(c) == UNION {BundlesOf(c.blocks[h]) : h \in 1..Height(c)}

\* Each account's bundles are numbered up to its leaf, one of each number.
InOrder(c) ==
    /\ \A b \in Confirmed(c) : b \in Bundles /\ b.seq \in 1..c.leaves[b.sender].seq
    /\ \A b, x \in Confirmed(c) : b.sender = x.sender /\ b.seq = x.seq => b = x
    /\ \A a \in Accounts : \A i \in 1..c.leaves[a].seq :
          \E b \in Confirmed(c) : b.sender = a /\ b.seq = i

From(B, a) == {b \in B : b.sender = a}

\* History, for the bundles of one store.
Line(B, a) ==
    [i \in 1..Cardinality(From(B, a)) |->
        IF \E b \in From(B, a) : b.seq = i
        THEN LET b == CHOOSE b \in From(B, a) : b.seq = i IN <<b.seq, b.body>>
        ELSE <<0, "none">>]

BundlesIn(d) == UNION {BundlesOf(blk) : blk \in d.blocks}

\* Among finitely many numbers one is the greatest.
LEMMA Greatest ==
    ASSUME NEW N, IsFiniteSet(N), N # {}, NEW f, \A n \in N : f[n] \in Nat
    PROVE  \E n \in N : \A m \in N : f[m] <= f[n]
<1> DEFINE Bad(S) == S # {} /\ ~\E n \in S : \A m \in S : f[m] <= f[n]
           T == {Cardinality(S) : S \in {X \in SUBSET N : Bad(X)}}
<1>1. \A S \in SUBSET N : IsFiniteSet(S) /\ Cardinality(S) \in Nat
  BY FS_Subset, FS_CardinalityType
<1>2. SUFFICES ASSUME Bad(N) PROVE FALSE
  OBVIOUS
<1> HIDE DEF Bad
<1>3. T \subseteq Nat /\ T # {}
  BY <1>1, <1>2
<1>4. PICK k \in T : \A i \in T : k <= i
  <2> HIDE DEF T
  <2>1. QED
    BY <1>3, Least
<1>5. PICK S \in SUBSET N : Bad(S) /\ k = Cardinality(S)
  BY <1>4
<1>6. PICK x : x \in S
  BY <1>5 DEF Bad
<1>7. PICK R : R = S \ {x}
  OBVIOUS
<1>8. R \in SUBSET N /\ Cardinality(R) = k - 1
  BY <1>1, <1>5, <1>6, <1>7, FS_RemoveElement
<1>9. ~Bad(R)
  <2>1. k \in Nat
    BY <1>1, <1>5
  <2>2. k - 1 \notin T
    <3> HIDE DEF T
    <3>1. QED
      BY <1>4, <2>1
  <2>3. QED
    BY <1>8, <2>2
<1>10. \A m \in S : f[m] \in Nat
  OBVIOUS
<1>11. CASE R = {}
  <2>1. \A m \in S : m = x
    BY <1>7, <1>11
  <2>2. \A m \in S : f[m] <= f[x]
    BY <1>6, <1>10, <2>1
  <2>3. QED
    BY <1>5, <1>6, <2>2 DEF Bad
<1>12. CASE R # {}
  <2>1. PICK n \in R : \A m \in R : f[m] <= f[n]
    BY <1>9, <1>12 DEF Bad
  <2>2. f[n] \in Nat /\ f[x] \in Nat /\ n \in S /\ \A m \in S : m \in R \/ m = x
    BY <1>6, <1>7, <1>10
  <2>3. CASE f[x] <= f[n]
    BY <1>5, <2>1, <2>2, <2>3 DEF Bad
  <2>4. CASE ~(f[x] <= f[n])
    <3>1. \A m \in R : f[m] <= f[x]
      BY <1>7, <1>10, <2>1, <2>2, <2>4
    <3>2. \A m \in S : f[m] <= f[x]
      BY <2>2, <3>1
    <3>3. QED
      BY <1>5, <1>6, <3>2 DEF Bad
  <2>5. QED
    BY <2>3, <2>4
<1>13. QED
  BY <1>11, <1>12

\* A block that applies carries each account one bundle further.
LEMMA AdvanceInOrder ==
    ASSUME NEW c \in Chains, InOrder(c), NEW blk \in Blocks, Applicable(c, blk)
    PROVE  /\ InOrder(Advance(c, blk))
           /\ Confirmed(Advance(c, blk)) = Confirmed(c) \cup BundlesOf(blk)
<1> DEFINE d == Advance(c, blk)
           B == BundlesOf(blk)
<1>1. /\ Height(c) \in Nat /\ Height(d) = Height(c) + 1
      /\ \A h \in 1..Height(c) : d.blocks[h] = c.blocks[h]
      /\ d.blocks[Height(c) + 1] = blk
  BY AdvanceFields
<1>2. Continues(c, blk)
  BY ApplicableContinues
<1>3. \A a \in Accounts : /\ c.leaves[a].seq \in Nat
                          /\ (\E b \in B : b.sender = a) => d.leaves[a].seq = c.leaves[a].seq + 1
                          /\ (\A b \in B : b.sender # a) => d.leaves[a] = c.leaves[a]
  BY <1>2, LeafMoves
<1>4. B \subseteq Bundles /\ \A b \in B : b.sender \in Accounts /\ b.seq = c.leaves[b.sender].seq + 1
  <2>1. B \subseteq Bundles
    BY BundlesTyped
  <2>2. \A b \in B : b.seq = c.leaves[b.sender].seq + 1
    BY DEF Applicable, BundlesOf
  <2>3. QED
    BY <2>1, <2>2 DEF Bundles
<1>5. \A b, x \in B : b.sender = x.sender => b = x
  BY DEF Applicable, BundlesOf
<1> HIDE DEF d, B
<1>6. Confirmed(d) = Confirmed(c) \cup B
  <2>1. 1..Height(d) = 1..Height(c) \cup {Height(c) + 1}
    BY <1>1
  <2>2. QED
    BY <1>1, <2>1 DEF Confirmed, B
<1>7. \A b \in Confirmed(c) : b \in Bundles /\ b.sender \in Accounts /\ b.seq \in 1..c.leaves[b.sender].seq
  BY DEF InOrder, Bundles
<1>8. \A a \in Accounts : d.leaves[a].seq = c.leaves[a].seq \/ d.leaves[a].seq = c.leaves[a].seq + 1
  BY <1>3
<1>9. \A b \in Confirmed(d) : b \in Bundles /\ b.seq \in 1..d.leaves[b.sender].seq
  <2> TAKE b \in Confirmed(d)
  <2>1. CASE b \in Confirmed(c)
    BY <2>1, <1>3, <1>7, <1>8
  <2>2. CASE b \in B
    BY <2>2, <1>3, <1>4
  <2>3. QED
    BY <1>6, <2>1, <2>2
<1>10. \A b, x \in Confirmed(d) : b.sender = x.sender /\ b.seq = x.seq => b = x
  <2>1. ASSUME NEW b \in Confirmed(c), NEW x \in B, b.sender = x.sender, b.seq = x.seq
        PROVE  FALSE
    <3>1. b.seq \in 1..c.leaves[x.sender].seq /\ c.leaves[x.sender].seq \in Nat
          /\ x.seq = c.leaves[x.sender].seq + 1
      BY <1>3, <1>4, <1>7, <2>1
    <3>2. QED
      BY <2>1, <3>1
  <2>2. \A b, x \in Confirmed(c) : b.sender = x.sender /\ b.seq = x.seq => b = x
    BY DEF InOrder
  <2>3. QED
    BY <1>5, <1>6, <2>1, <2>2
<1>11. \A a \in Accounts : \A i \in 1..d.leaves[a].seq :
          \E b \in Confirmed(d) : b.sender = a /\ b.seq = i
  <2> TAKE a \in Accounts
  <2> TAKE i \in 1..d.leaves[a].seq
  <2>1. CASE i \in 1..c.leaves[a].seq
    BY <2>1, <1>6 DEF InOrder
  <2>2. CASE i \notin 1..c.leaves[a].seq
    <3>1. PICK b \in B : b.sender = a
      BY <1>3, <2>2
    <3>2. d.leaves[a].seq = c.leaves[a].seq + 1 /\ b.seq = c.leaves[a].seq + 1
      BY <1>3, <1>4, <3>1
    <3>3. i = b.seq
      BY <1>3, <2>2, <3>2
    <3>4. QED
      BY <1>6, <3>1, <3>3
  <2>3. QED
    BY <2>1, <2>2
<1>12. QED
  BY <1>6, <1>9, <1>10, <1>11 DEF InOrder, d, B

LEMMA EmptyInOrder == InOrder(EmptyChain) /\ Confirmed(EmptyChain) = {}
<1>1. Height(EmptyChain) = 0 /\ 1..0 = {}
  BY DEF EmptyChain, Height
<1>2. Confirmed(EmptyChain) = {}
  BY <1>1 DEF Confirmed
<1>3. \A a \in Accounts : EmptyChain.leaves[a].seq = 0
  BY DEF EmptyChain, NoRef
<1>4. QED
  BY <1>1, <1>2, <1>3 DEF InOrder

\* A store that loads holds each account's bundles up to its leaf.
LEMMA ReplayInOrder ==
    ASSUME NEW d \in Disks, IsFiniteSet(d.blocks), Loadable(d), SameLength(d.blocks, d.blocks)
    PROVE  InOrder(Load(d)) /\ Confirmed(Load(d)) = BundlesIn(d)
<1> DEFINE n == Cardinality(d.blocks)
           f == Replay(d)
           T == {k \in 0..n : ~InOrder(f[k])}
<1>1. n \in Nat
  BY FS_CardinalityType
<1>2. Follows(f, d, n)
  BY <1>1, ReplayFollows
<1>3. \A k \in 0..n : Stage(f[k], d, k)
  BY ReplayStages
<1>4. {Len(b.id) : b \in d.blocks} = 1..n /\ \A h \in 1..n : Applicable(f[h - 1], StoredAt(d, h))
  BY DEF Loadable
<1>5. Load(d) = f[n] /\ Stage(Load(d), d, n)
  BY LoadIsReplay
<1>6. \A h \in 1..n : StoredAt(d, h) \in d.blocks
  <2> TAKE h \in 1..n
  <2>1. \E b \in d.blocks : Len(b.id) = h
    BY <1>4
  <2>2. QED
    BY <2>1 DEF StoredAt
<1>7. d.blocks \subseteq Blocks
  BY DEF Disks
<1> HIDE DEF f, n
<1>8. f[0] = EmptyChain /\ \A i \in 1..n : f[i] = Advance(f[i - 1], StoredAt(d, i))
  BY <1>1, <1>2 DEF Follows
<1>9. T = {}
  <2> SUFFICES ASSUME T # {} PROVE FALSE
    OBVIOUS
  <2>1. PICK m \in T : \A k \in T : m <= k
    <3>1. T \subseteq Nat
      BY <1>1
    <3> HIDE DEF T
    <3>2. QED
      BY <3>1, Least
  <2>2. m \in 0..n /\ ~InOrder(f[m])
    OBVIOUS
  <2>3. m # 0
    BY <1>8, <2>2, EmptyInOrder
  <2>4. m - 1 \in 0..n /\ m - 1 \notin T /\ m \in 1..n
    BY <1>1, <2>1, <2>2, <2>3
  <2>5. PICK c, blk : c = f[m - 1] /\ blk = StoredAt(d, m)
    OBVIOUS
  <2>6. InOrder(c) /\ c \in Chains /\ blk \in Blocks /\ Applicable(c, blk)
    BY <1>3, <1>4, <1>6, <1>7, <2>4, <2>5 DEF Stage
  <2>7. f[m] = Advance(c, blk)
    BY <1>8, <2>4, <2>5
  <2>8. QED
    BY <2>2, <2>6, <2>7, AdvanceInOrder
<1>10. InOrder(Load(d))
  <2>1. n \in 0..n /\ n \notin T
    BY <1>1, <1>9
  <2>2. QED
    BY <1>5, <2>1
<1>11. Confirmed(Load(d)) = BundlesIn(d)
  <2> DEFINE c == Load(d)
  <2>1. Height(c) = n /\ \A h \in 1..n : c.blocks[h] = StoredAt(d, h)
    BY <1>5 DEF Stage
  <2> HIDE DEF c
  <2>2. \A b \in d.blocks : Len(b.id) \in 1..n /\ StoredAt(d, Len(b.id)) = b
    BY <1>4, StoredIs
  <2>3. Confirmed(c) = UNION {BundlesOf(StoredAt(d, h)) : h \in 1..n}
    BY <2>1 DEF Confirmed
  <2>4. UNION {BundlesOf(StoredAt(d, h)) : h \in 1..n} = UNION {BundlesOf(b) : b \in d.blocks}
    BY <1>6, <2>2
  <2>5. QED
    BY <2>3, <2>4 DEF BundlesIn, c
<1>12. QED
  BY <1>10, <1>11

\* An account has as many confirmed bundles as its leaf says.
LEMMA Counting ==
    ASSUME NEW c, InOrder(c), NEW a \in Accounts, c.leaves[a].seq \in Nat
    PROVE  Cardinality(From(Confirmed(c), a)) = c.leaves[a].seq
<1> DEFINE n == c.leaves[a].seq
           X == From(Confirmed(c), a)
           f == [i \in 1..n |-> CHOOSE b \in X : b.seq = i]
<1>1. \A i \in 1..n : \E b \in X : b.seq = i
  BY DEF InOrder, From
<1>2. \A i \in 1..n : f[i] \in X /\ f[i].seq = i
  BY <1>1
<1>3. \A b \in X : b.seq \in 1..n
  BY DEF InOrder, From
<1>4. \A b, x \in X : b.seq = x.seq => b = x
  BY DEF InOrder, From
<1>5. f \in [1..n -> X] /\ DOMAIN f = 1..n
  BY <1>2
<1> HIDE DEF f, X
<1>6. f \in Bijection(1..n, X)
  <2>1. \A i, j \in 1..n : f[i] = f[j] => i = j
    BY <1>2
  <2>2. \A b \in X : \E i \in 1..n : f[i] = b
    BY <1>2, <1>3, <1>4
  <2>3. QED
    BY <1>5, <2>1, <2>2 DEF Bijection, Injection, Surjection, IsInjective
<1>7. ExistsBijection(1..n, X)
  BY <1>6 DEF ExistsBijection
<1>8. IsFiniteSet(1..n) /\ Cardinality(1..n) = n
  <2>1. 1 \in Int /\ n \in Int /\ n \in Nat
    OBVIOUS
  <2>2. IsFiniteSet(1..n) /\ Cardinality(1..n) = IF 1 > n THEN 0 ELSE n - 1 + 1
    BY <2>1, FS_Interval
  <2>3. QED
    BY <2>1, <2>2
<1>9. QED
  BY <1>7, <1>8, FS_Bijection DEF X

\* The number and the body of the bundle there is of a number.
Entry(X, i) ==
    IF \E b \in X : b.seq = i
    THEN LET b == CHOOSE b \in X : b.seq = i IN <<b.seq, b.body>>
    ELSE <<0, "none">>

LEMMA EntryIs ==
    ASSUME NEW X, \A x, y \in X : x.seq = y.seq => x = y, NEW b \in X
    PROVE  Entry(X, b.seq) = <<b.seq, b.body>>
<1> DEFINE c == CHOOSE x \in X : x.seq = b.seq
<1>1. c \in X /\ c.seq = b.seq
  OBVIOUS
<1>2. Entry(X, b.seq) = <<c.seq, c.body>>
  BY DEF Entry
<1> HIDE DEF c
<1>3. c = b
  BY <1>1
<1>4. QED
  BY <1>2, <1>3

\* An account's line is one entry longer when a block has a bundle of it, and the
\* same when not.
LEMMA LineGrows ==
    ASSUME NEW c \in Chains, InOrder(c), NEW blk \in Blocks, Applicable(c, blk), NEW a \in Accounts,
           NEW B, B = Confirmed(c), NEW D, D = BundlesOf(blk)
    PROVE  /\ (\A b \in D : b.sender # a) => Line(B \cup D, a) = Line(B, a)
           /\ \A b \in D : b.sender = a =>
                  Line(B \cup D, a) = Append(Line(B, a), <<Len(Line(B, a)) + 1, b.body>>)
<1>1. ASSUME \A b \in D : b.sender # a
      PROVE  Line(B \cup D, a) = Line(B, a)
  <2>1. From(B \cup D, a) = From(B, a)
    BY <1>1 DEF From
  <2>2. QED
    BY <2>1 DEF Line
<1>2. ASSUME NEW b \in D, b.sender = a
      PROVE  Line(B \cup D, a) = Append(Line(B, a), <<Len(Line(B, a)) + 1, b.body>>)
  <2> DEFINE d == Advance(c, blk)
  <2>1. Continues(c, blk)
    BY ApplicableContinues
  <2>2. PICK n \in Nat : n = c.leaves[a].seq
    BY <2>1, LeafMoves
  <2>3. d.leaves[a].seq = n + 1
    BY <1>2, <2>1, <2>2, LeafMoves
  <2>4. b.seq = n + 1 /\ b \in Bundles
    <3>1. b.seq = c.leaves[b.sender].seq + 1
      BY DEF Applicable, BundlesOf
    <3>2. QED
      BY <1>2, <2>2, <3>1, BundlesTyped
  <2>5. InOrder(d) /\ Confirmed(d) = B \cup D
    BY AdvanceInOrder
  <2> HIDE DEF d
  <2>6. PICK X, Y : X = From(B, a) /\ Y = From(B \cup D, a)
    OBVIOUS
  <2>7. Cardinality(X) = n
    BY <2>2, <2>6, Counting
  <2>8. Cardinality(Y) = n + 1
    <3>1. d.leaves[a].seq \in Nat
      BY <2>3
    <3>2. QED
      BY <2>3, <2>5, <2>6, <3>1, Counting
  <2>9. /\ \A x, y \in X : x.seq = y.seq => x = y
        /\ \A x, y \in Y : x.seq = y.seq => x = y
        /\ \A i \in 1..n : \E x \in X : x.seq = i
        /\ X \subseteq Y /\ b \in Y /\ X \subseteq Bundles
    BY <1>2, <2>2, <2>5, <2>6 DEF InOrder, From
  <2>10. ASSUME NEW i \in 1..n
         PROVE  Entry(X, i) = Entry(Y, i) /\ Entry(X, i) \in Nat \X Bodies
    <3>1. PICK x \in X : x.seq = i
      BY <2>9
    <3>2. Entry(X, x.seq) = <<x.seq, x.body>>
      BY <2>9, EntryIs
    <3>3. x \in Y
      BY <2>9
    <3>4. Entry(Y, x.seq) = <<x.seq, x.body>>
      BY <2>9, <3>3, EntryIs
    <3>5. x.seq \in Nat /\ x.body \in Bodies
      BY <2>9 DEF Bundles
    <3>6. QED
      BY <3>1, <3>2, <3>4, <3>5
  <2>11. Entry(Y, n + 1) = <<n + 1, b.body>> /\ <<n + 1, b.body>> \in Nat \X Bodies
    <3>1. Entry(Y, b.seq) = <<b.seq, b.body>>
      BY <2>9, EntryIs
    <3>2. QED
      BY <2>4, <3>1 DEF Bundles
  <2>12. Line(B, a) = [i \in 1..n |-> Entry(X, i)]
    BY <2>6, <2>7 DEF Line, Entry
  <2>13. Line(B \cup D, a) = [i \in 1..(n + 1) |-> Entry(Y, i)]
    BY <2>6, <2>8 DEF Line, Entry
  <2>14. PICK s, t, x : s = Line(B, a) /\ t = Line(B \cup D, a) /\ x = <<n + 1, b.body>>
    OBVIOUS
  <2>15. s \in Seq(Nat \X Bodies) /\ Len(s) = n /\ \A i \in 1..n : s[i] = Entry(X, i)
    BY <2>10, <2>12, <2>14
  <2>16. t \in Seq(Nat \X Bodies) /\ Len(t) = n + 1 /\ t[n + 1] = x /\ \A i \in 1..n : t[i] = s[i]
    <3>1. \A i \in 1..(n + 1) : t[i] = Entry(Y, i) /\ (i \in 1..n \/ i = n + 1)
      BY <2>13, <2>14
    <3>2. \A i \in 1..(n + 1) : t[i] \in Nat \X Bodies
      BY <2>10, <2>11, <3>1
    <3>3. t = [i \in 1..(n + 1) |-> t[i]]
      BY <2>13, <2>14
    <3>4. t \in Seq(Nat \X Bodies) /\ Len(t) = n + 1
      BY <3>2, <3>3
    <3>5. t[n + 1] = x
      <4>1. n + 1 \in 1..(n + 1)
        OBVIOUS
      <4>2. t[n + 1] = Entry(Y, n + 1)
        BY <3>1, <4>1
      <4>3. QED
        BY <2>11, <2>14, <4>2
    <3>6. ASSUME NEW i \in 1..n PROVE t[i] = s[i]
      <4>1. i \in 1..(n + 1)
        OBVIOUS
      <4>2. t[i] = Entry(Y, i) /\ s[i] = Entry(X, i)
        BY <2>15, <3>1, <4>1
      <4>3. QED
        BY <2>10, <4>2
    <3>7. QED
      BY <3>4, <3>5, <3>6
  <2>17. t = Append(s, x)
    <3>1. x \in Nat \X Bodies
      BY <2>11, <2>14
    <3>2. Append(s, x) \in Seq(Nat \X Bodies) /\ Len(Append(s, x)) = n + 1 /\ Append(s, x)[n + 1] = x
          /\ \A i \in 1..n : Append(s, x)[i] = s[i]
      BY <2>15, <3>1
    <3>3. \A i \in 1..(n + 1) : t[i] = Append(s, x)[i]
      BY <2>16, <3>2
    <3>4. QED
      BY <2>16, <3>2, <3>3
  <2>18. QED
    BY <2>14, <2>15, <2>17
<1>3. QED
  BY <1>1, <1>2

\* Stores of one length that agree are the same.
LEMMA SameStore ==
    ASSUME NEW d, NEW e, Loadable(d), Loadable(e), SameLength(d.blocks, e.blocks),
           Cardinality(d.blocks) = Cardinality(e.blocks)
    PROVE  d.blocks = e.blocks
<1>1. {Len(b.id) : b \in d.blocks} = {Len(b.id) : b \in e.blocks}
  BY DEF Loadable
<1>2. \A b \in d.blocks : \E x \in e.blocks : Len(x.id) = Len(b.id)
  BY <1>1
<1>3. \A x \in e.blocks : \E b \in d.blocks : Len(x.id) = Len(b.id)
  BY <1>1
<1>4. \A b \in d.blocks : b \in e.blocks
  BY <1>2 DEF SameLength
<1>5. \A x \in e.blocks : x \in d.blocks
  BY <1>3 DEF SameLength
<1>6. QED
  BY <1>4, <1>5

\* The store that History looks at is as long as any.
LEMMA FurthestIs ==
    ASSUME IInv
    PROVE  /\ Furthest \in Nodes
           /\ \A m \in Nodes : /\ Cardinality(disk[m].blocks) \in Nat
                               /\ Cardinality(disk[m].blocks) <= Cardinality(disk[Furthest].blocks)
<1> DEFINE f == [n \in Nodes |-> Cardinality(disk[n].blocks)]
<1>1. \A n \in Nodes : f[n] \in Nat /\ f[n] = Cardinality(disk[n].blocks)
  BY FS_CardinalityType DEF IInv, Shapes
<1> HIDE DEF f
<1>2. PICK n \in Nodes : \A m \in Nodes : f[m] <= f[n]
  BY <1>1, NodesAssumption, Greatest
<1>3. \E k \in Nodes : \A m \in Nodes : Cardinality(disk[m].blocks) <= Cardinality(disk[k].blocks)
  BY <1>1, <1>2
<1>4. QED
  BY <1>1, <1>3 DEF Furthest

LEMMA HistoryIs == History = [a \in Accounts |-> Line(BundlesIn(disk[Furthest]), a)]
<1>1. \A a : ConfirmedBundles(a) = From(BundlesIn(disk[Furthest]), a)
  BY DEF ConfirmedBundles, From, BundlesIn
<1>2. QED
  BY <1>1 DEF History, Line

\* Stores as long as the furthest one hold the same bundles.
LEMMA HistoryOf ==
    ASSUME IInv, ReloadState, NEW n \in Nodes,
           Cardinality(disk[n].blocks) = Cardinality(disk[Furthest].blocks)
    PROVE  History = [a \in Accounts |-> Line(BundlesIn(disk[n]), a)]
<1>1. PICK k \in Nodes : k = Furthest
  BY FurthestIs
<1>2. Loadable(disk[n]) /\ Loadable(disk[k])
  BY DEF ReloadState, Sound
<1>3. SameLength(disk[n].blocks, disk[k].blocks)
  BY DEF IInv, OneBlockPerHeight, SameLength, OnDisk
<1>4. disk[n].blocks = disk[k].blocks
  BY <1>1, <1>2, <1>3, SameStore
<1>5. QED
  BY <1>1, <1>4, HistoryIs DEF BundlesIn

\* What History is, now and in the next state.
HistoryFacts ==
    /\ Furthest \in Nodes
    /\ \A m \in Nodes : /\ Cardinality(disk[m].blocks) \in Nat
                        /\ Cardinality(disk[m].blocks) <= Cardinality(disk[Furthest].blocks)
    /\ \A n \in Nodes : Cardinality(disk[n].blocks) = Cardinality(disk[Furthest].blocks) =>
                            History = [a \in Accounts |-> Line(BundlesIn(disk[n]), a)]

LEMMA HistoryFactsHold == IInv /\ ReloadState => HistoryFacts
BY FurthestIs, HistoryOf DEF HistoryFacts

\* The block on the longest store makes every history one bundle longer at most.
LEMMA LedgerSave ==
    ASSUME IInv, TypeOK, ReloadState, HistoryFacts, HistoryFacts',
           NEW n \in Nodes, NEW job \in saving[n], Save(n, job)
    PROVE  [L!Next]_History
<1> DEFINE d == disk[n]
           blk == job.block
           e == SaveBlock(d, blk)
           c == Load(d)
           B == Confirmed(c)
           D == BundlesOf(blk)
<1>1. /\ up[n] /\ disk' = [disk EXCEPT ![n] = e] /\ CanSave(d, blk)
  BY DEF Save
<1>2. disk'[n] = e /\ \A m \in Nodes \ {n} : disk'[m] = disk[m]
  BY <1>1 DEF TypeOK
<1>3. e.blocks = d.blocks \cup {blk} /\ blk \notin d.blocks
  BY <1>1 DEF SaveBlock, CanSave
<1>4. IsFiniteSet(d.blocks) /\ SameLength(d.blocks, d.blocks) /\ Loadable(d)
  BY DEF IInv, Shapes, OneBlockPerHeight, SameLength, OnDisk, ReloadState, Sound
<1>5. Cardinality(e.blocks) = Cardinality(d.blocks) + 1
  BY <1>3, <1>4, FS_AddElement
<1>6. d \in Disks /\ blk \in Blocks /\ Applicable(c, blk)
  BY <1>1 DEF TypeOK, Jobs, ReloadState, Behind
<1>7. c \in Chains /\ InOrder(c) /\ B = BundlesIn(d)
  BY <1>4, <1>6, LoadIsReplay, ReplayInOrder DEF Stage
<1>8. BundlesIn(e) = B \cup D
  BY <1>3, <1>7 DEF BundlesIn
<1>9. D \subseteq Bundles /\ \A b, x \in D : b.sender = x.sender => b = x
  BY <1>6, BundlesTyped DEF Applicable, BundlesOf
<1> HIDE DEF d, e, c, B, D
<1>10. PICK k \in Nat : k = Cardinality(disk[Furthest].blocks)
  BY DEF HistoryFacts
<1>11. PICK f \in Nodes, g \in Nodes : f = Furthest /\ g = Furthest'
  BY DEF HistoryFacts
<1>12. /\ \A m \in Nodes : Cardinality(disk[m].blocks) \in Nat /\ Cardinality(disk[m].blocks) <= k
       /\ \A m \in Nodes : Cardinality(disk'[m].blocks) \in Nat
                           /\ Cardinality(disk'[m].blocks) <= Cardinality(disk'[g].blocks)
       /\ \A m \in Nodes : Cardinality(disk[m].blocks) = k =>
              History = [a \in Accounts |-> Line(BundlesIn(disk[m]), a)]
       /\ \A m \in Nodes : Cardinality(disk'[m].blocks) = Cardinality(disk'[g].blocks) =>
              History' = [a \in Accounts |-> Line(BundlesIn(disk'[m]), a)]
  BY <1>10, <1>11 DEF HistoryFacts
<1>13. CASE Cardinality(d.blocks) = k
  <2>1. Cardinality(disk'[n].blocks) = Cardinality(disk'[g].blocks)
    <3>1. Cardinality(disk'[n].blocks) = k + 1
      BY <1>2, <1>5, <1>13
    <3>2. CASE g = n
      BY <3>2
    <3>3. CASE g # n
      <4>1. Cardinality(disk'[g].blocks) <= k /\ Cardinality(disk'[g].blocks) \in Nat
        BY <1>2, <1>12, <3>3
      <4>2. k + 1 <= Cardinality(disk'[g].blocks)
        BY <1>12, <3>1
      <4>3. QED
        BY <4>1, <4>2
    <3>4. QED
      BY <3>2, <3>3
  <2>2. History' = [a \in Accounts |-> Line(B \cup D, a)]
    BY <1>2, <1>8, <1>12, <2>1
  <2>3. History = [a \in Accounts |-> Line(B, a)]
    BY <1>7, <1>12, <1>13 DEF d
  <2> DEFINE senders == {b.sender : b \in D}
             one(a) == CHOOSE b \in D : b.sender = a
             body == [a \in senders |-> one(a).body]
  <2>4. \A a \in senders : one(a) \in D /\ one(a).sender = a
    OBVIOUS
  <2> HIDE DEF one
  <2>5. senders \in SUBSET Accounts /\ body \in [senders -> Bodies]
    BY <1>9, <2>4 DEF Bundles
  <2>6. ASSUME NEW a \in Accounts
        PROVE  Line(B \cup D, a) =
                   IF a \in senders THEN Append(Line(B, a), <<Len(Line(B, a)) + 1, body[a]>>)
                   ELSE Line(B, a)
    <3>1. /\ (\A b \in D : b.sender # a) => Line(B \cup D, a) = Line(B, a)
          /\ \A b \in D : b.sender = a =>
                 Line(B \cup D, a) = Append(Line(B, a), <<Len(Line(B, a)) + 1, b.body>>)
      BY <1>6, <1>7, LineGrows DEF B, D
    <3>2. CASE a \in senders
      <4>1. one(a) \in D /\ one(a).sender = a /\ body[a] = one(a).body
        BY <2>4, <3>2
      <4> HIDE DEF body
      <4>2. QED
        BY <3>1, <3>2, <4>1
    <3>3. CASE a \notin senders
      BY <3>1, <3>3
    <3>4. QED
      BY <3>2, <3>3
  <2> HIDE DEF senders, body
  <2>7. History' = [a \in Accounts |->
            IF a \in senders THEN Append(History[a], <<Len(History[a]) + 1, body[a]>>)
            ELSE History[a]]
    BY <2>2, <2>3, <2>6
  <2>8. L!Confirm(senders)
    BY <2>5, <2>7 DEF L!Confirm
  <2>9. QED
    BY <2>5, <2>8 DEF L!Next
<1>14. CASE Cardinality(d.blocks) # k
  <2>1. Cardinality(d.blocks) < k /\ f # n
    BY <1>10, <1>11, <1>12, <1>14 DEF d
  <2>2. \A m \in Nodes : Cardinality(disk'[m].blocks) <= k
    <3> TAKE m \in Nodes
    <3>1. CASE m = n
      BY <1>2, <1>5, <1>12, <2>1, <3>1 DEF d
    <3>2. CASE m # n
      BY <1>2, <1>12, <3>2
    <3>3. QED
      BY <3>1, <3>2
  <2>3. disk'[f] = disk[f] /\ Cardinality(disk[f].blocks) = k
    BY <1>2, <1>10, <1>11, <2>1
  <2>4. Cardinality(disk'[f].blocks) = Cardinality(disk'[g].blocks)
    BY <1>12, <2>2, <2>3
  <2>5. History' = [a \in Accounts |-> Line(BundlesIn(disk'[f]), a)]
    BY <1>12, <2>4
  <2>6. History = [a \in Accounts |-> Line(BundlesIn(disk[f]), a)]
    BY <1>12, <2>3
  <2>7. QED
    BY <2>3, <2>5, <2>6
<1>15. QED
  BY <1>13, <1>14

\* A step that leaves the stores alone leaves the histories.
LEMMA HistoryStays ==
    ASSUME disk' = disk
    PROVE  History' = History
BY DEF History, ConfirmedBundles, Furthest

LEMMA LedgerNext ==
    ASSUME IInv, TypeOK, ReloadState, HistoryFacts, HistoryFacts', [Next]_vars
    PROVE  [L!Next]_History
<1>1. CASE \E n \in Nodes : \E job \in saving[n] : Save(n, job)
  BY <1>1, LedgerSave
<1>2. CASE ~\E n \in Nodes : \E job \in saving[n] : Save(n, job)
  <2>1. disk' = disk
    <3>1. CASE UNCHANGED vars
      BY <3>1 DEF vars
    <3>2. CASE Next
      BY <1>2, <3>2 DEF Next, SubmitBundle, MakeBlock, SaveFails, SyncBlock, EndSync, Crash, Restart
    <3>3. QED
      BY <3>1, <3>2
  <2>2. QED
    BY <2>1, HistoryStays
<1>3. QED
  BY <1>1, <1>2

LEMMA LedgerInit == Init /\ HistoryFacts => L!Init
<1> SUFFICES ASSUME Init, HistoryFacts PROVE L!Init
  OBVIOUS
<1>1. BundlesIn(disk[Furthest]) = {}
  BY DEF Init, HistoryFacts, BundlesIn, EmptyDisk
<1>2. \A a : From({}, a) = {} /\ Cardinality({}) = 0
  BY FS_EmptySet DEF From
<1>3. \A a : Line({}, a) = <<>>
  <2>1. [i \in 1..0 |-> Entry({}, i)] = <<>>
    OBVIOUS
  <2>2. \A a : Line({}, a) = [i \in 1..0 |-> Entry({}, i)]
    BY <1>2, Zenon DEF Line, Entry
  <2>3. QED
    BY <2>1, <2>2
<1>4. History = [a \in Accounts |-> <<>>]
  BY <1>1, <1>3, HistoryIs
<1>5. QED
  BY <1>4 DEF L!Init

\* The nodes together keep one ledger (Ledger): whichever store is furthest, every
\* account's confirmed bundles are numbered from one without gap or repetition, and
\* a save adds one bundle to some accounts' histories, whatever crashes between a
\* block's announcement and its peers' saves.
THEOREM ImplementsLedger == ReloadAssumption => (Spec => LedgerSpec)
<1> SUFFICES ASSUME ReloadAssumption PROVE Spec => LedgerSpec
  OBVIOUS
<1>1. ReloadState /\ IInv /\ TypeOK /\ TypeOK' /\ [Next]_vars => ReloadState'
  BY ReloadNext
<1>2. Init => ReloadState
  BY ReloadInit
<1>3. IInv /\ TypeOK /\ ReloadState /\ HistoryFacts /\ HistoryFacts' /\ [Next]_vars => [L!Next]_History
  BY LedgerNext
<1>4. QED
  BY <1>1, <1>2, <1>3, LedgerInit, HistoryFactsHold, ReceiptsHold, PTL DEF Spec, LedgerSpec, L!Spec

====
