----------------------------- MODULE Commitments -----------------------------
(***************************************************************************)
(* What hashes stand for: the state tree and its proofs (EZ_V2/smt.py), as *)
(* receipts carry and compact them, the root of a block's entries          *)
(* (merkle_root in EZ_V2/chain.py), the claim set of a bundle              *)
(* (EZ_V2/claim_set.py), and the Merkle tree of a V1 block                 *)
(* (EZ_V1/EZ_Units).  A hash is the term it was computed from.  A          *)
(* behaviour grows one of the inputs, which are checked at every size.     *)
(***************************************************************************)
EXTENDS Naturals, Sequences, FiniteSets, Functions, SequencesExt

CONSTANTS
    Depth,      \* of the state tree (256 in the code)
    Keys,       \* keys that are set, among 0..2^Depth-1
    Hashes,     \* the values under a key
    Contents,   \* the leaves of the other trees
    MaxLeaves,  \* bound
    LastUnit,   \* claim sets are of the units 1..LastUnit
    MaxRanges   \* bound

VARIABLES
    items,   \* _values of a state tree
    leaves,  \* the entries of a block
    claims   \* the ranges a bundle spends

commitVars == <<items, leaves, claims>>

EmptyLeaf == <<"empty">>
Leaf(k, v) == <<"leaf", k, v>>
Node(left, right) == <<"node", left, right>>

-----------------------------------------------------------------------------
(* The sparse Merkle tree *)

AllKeys == 0..(2^Depth - 1)
Bit(k, i) == (k \div 2^i) % 2

RECURSIVE Default(_)
Default(level) ==
    IF level = 0 THEN EmptyLeaf ELSE Node(Default(level - 1), Default(level - 1))

\* The items below the node of that level and prefix.
Under(f, level, prefix) == Restrict(f, {k \in DOMAIN f : k \div 2^level = prefix})

\* _split_items and _subtree_hash; level counts from the leaves.
RECURSIVE Subtree(_, _)
Subtree(f, level) ==
    LET half(bit) == Restrict(f, {k \in DOMAIN f : Bit(k, level - 1) = bit})
    IN  IF DOMAIN f = {} THEN Default(level)
        ELSE IF level = 0 THEN LET k == CHOOSE k \in DOMAIN f : TRUE IN Leaf(k, f[k])
        ELSE Node(Subtree(half(0), level - 1), Subtree(half(1), level - 1))

Root(f) == Subtree(f, Depth)

\* _sibling_prefix_for_level
SiblingPrefix(k, level) ==
    LET prefix == k \div 2^level IN IF prefix % 2 = 0 THEN prefix + 1 ELSE prefix - 1

SiblingHash(f, k, level) == Subtree(Under(f, level, SiblingPrefix(k, level)), level)

\* prove: siblings from the leaf up.
Prove(f, k) ==
    [siblings |-> [l \in 1..Depth |-> SiblingHash(f, k, l - 1)],
     existence |-> k \in DOMAIN f]

\* BUG: the siblings are taken from the root down.
VerifyTopDown(root, k, v, proof) ==
    LET up[l \in 0..Depth] ==
            IF l = 0 THEN IF proof.existence THEN Leaf(k, v) ELSE EmptyLeaf
            ELSE IF Bit(k, Depth - l) = 0 THEN Node(up[l - 1], proof.siblings[l])
            ELSE Node(proof.siblings[l], up[l - 1])
    IN  up[Depth] = root

\* verify_proof; the value counts only in a proof of existence.
Verify(root, k, v, proof) ==
    LET up[l \in 0..Depth] ==
            IF l = 0 THEN IF proof.existence THEN Leaf(k, v) ELSE EmptyLeaf
            ELSE IF Bit(k, l - 1) = 0 THEN Node(up[l - 1], proof.siblings[l])
            ELSE Node(proof.siblings[l], up[l - 1])
    IN  up[Depth] = root

\* build_multiproof: the siblings of all keys, each node once.
BuildMultiproof(f, ks) ==
    LET nodes == {<<l, SiblingPrefix(k, l)>> : k \in ks, l \in 0..(Depth - 1)}
    IN  [keys |-> ks, nodes |-> [n \in nodes |-> Subtree(Under(f, n[1], n[2]), n[1])]]

\* BUG: nodes are told apart by their prefix without its length.
MaterializeByPrefix(m, k) ==
    [siblings |-> [l \in 1..Depth |->
        LET same == {n \in DOMAIN m.nodes : n[2] = SiblingPrefix(k, l - 1)}
        IN  IF same = {} THEN Default(l - 1) ELSE m.nodes[CHOOSE n \in same : TRUE]],
     existence |-> k \in m.keys]

\* materialize_proof
Materialize(m, k) ==
    [siblings |-> [l \in 1..Depth |->
        LET n == <<l - 1, SiblingPrefix(k, l - 1)>>
        IN  IF n \in DOMAIN m.nodes THEN m.nodes[n] ELSE Default(l - 1)],
     existence |-> k \in m.keys]

\* _compact_receipt_with_batch: what is stored of a receipt's proof ...
Compacted(f, ks, k) ==
    IF Materialize(BuildMultiproof(f, ks), k) = Prove(f, k)
    THEN [batch |-> TRUE, proof |-> {}] ELSE [batch |-> FALSE, proof |-> {Prove(f, k)}]

\* ... and _materialize_receipt_with_lookup: what is read again.
Read(stored, f, ks, k) ==
    IF stored.batch THEN Materialize(BuildMultiproof(f, ks), k)
    ELSE CHOOSE p \in stored.proof : TRUE

-----------------------------------------------------------------------------
(* Merkle roots and trees of lists *)

\* merkle_root: pairs, level by level; the last of an odd level is its own partner.
RECURSIVE MerkleRoot(_)
MerkleRoot(level) ==
    CASE Len(level) = 0 -> EmptyLeaf
      [] Len(level) = 1 -> level[1]
      [] OTHER ->
            MerkleRoot([i \in 1..((Len(level) + 1) \div 2) |->
                Node(level[2 * i - 1],
                     IF 2 * i <= Len(level) THEN level[2 * i] ELSE level[2 * i - 1])])

\* build_tree, one round: pairs from the front, an odd node goes behind them.
Merged(level) ==
    LET n == Len(level)
    IN  [i \in 1..(n \div 2) |->
            LET a == level[2 * i - 1] b == level[2 * i]
            IN  [hash |-> Node(a.hash, b.hash), of |-> a.of \cup b.of]] \o
        SubSeq(level, n + 1 - (n % 2), n)

\* The rounds of build_tree, the leaves first.
RECURSIVE Rounds(_)
Rounds(level) == IF Len(level) <= 1 THEN <<level>> ELSE <<level>> \o Rounds(Merged(level))

TreeOf(s) == Rounds([i \in 1..Len(s) |-> [hash |-> Leaf(0, s[i]), of |-> {i}]])

TreeRoot(t) == t[Len(t)][1].hash

\* prf_list of a leaf: its hash, then the sibling and the parent in each round
\* in which it has one.
ProofPath(t, i) ==
    LET at(r) == CHOOSE j \in 1..Len(t[r]) : i \in t[r][j].of
        step(r) ==
            LET j == at(r) IN
            IF j % 2 = 1 /\ j = Len(t[r]) THEN <<>>
            ELSE <<t[r][IF j % 2 = 1 THEN j + 1 ELSE j - 1].hash, t[r + 1][at(r + 1)].hash>>
        path[r \in 1..Len(t)] ==
            IF r = 1 THEN <<t[1][i].hash>> ELSE path[r - 1] \o step(r - 1)
    IN  path[Len(t)]

\* BUG: the sibling is always taken for the right one.
CheckInOrder(content, root, path) ==
    /\ path # <<>> /\ Len(path) % 2 = 1
    /\ path[1] = Leaf(0, content) /\ path[Len(path)] = root
    /\ \A i \in 1..(Len(path) \div 2) :
          path[2 * i + 1] = Node(path[2 * i - 1], path[2 * i])

\* check_prf: the pair may be in either order.
CheckProof(content, root, path) ==
    /\ path # <<>> /\ Len(path) % 2 = 1
    /\ path[1] = Leaf(0, content) /\ path[Len(path)] = root
    /\ \A i \in 1..(Len(path) \div 2) :
          path[2 * i + 1] \in {Node(path[2 * i - 1], path[2 * i]),
                               Node(path[2 * i], path[2 * i - 1])}

-----------------------------------------------------------------------------
(* Claim sets *)

Spans == {r \in [begin : 1..LastUnit, end : 1..LastUnit] : r.begin <= r.end}

Before(r, s) == r.begin < s.begin \/ (r.begin = s.begin /\ r.end <= s.end)

\* BUG: a range inside the one before it cuts that one short.
JoinedToLast(merged, r) ==
    LET last == merged[Len(merged)]
    IN  IF merged # <<>> /\ r.begin <= last.end + 1
        THEN [merged EXCEPT ![Len(merged)].end = r.end]
        ELSE Append(merged, r)

Joined(merged, r) ==
    LET last == merged[Len(merged)]
    IN  IF merged # <<>> /\ r.begin <= last.end + 1
        THEN [merged EXCEPT ![Len(merged)].end = IF @ < r.end THEN r.end ELSE @]
        ELSE Append(merged, r)

\* build_claim_range_set
ClaimRangeSet(rs) == FoldLeft(Joined, <<>>, SortSeq(rs, Before))

\* claim_range_set_intersects
Intersects(claimed, r) ==
    \E i \in 1..Len(claimed) : claimed[i].begin <= r.end /\ r.begin <= claimed[i].end

-----------------------------------------------------------------------------
Init == items = [k \in {} |-> 0] /\ leaves = <<>> /\ claims = <<>>

\* SparseMerkleTree.set
Set(k, v) ==
    /\ leaves = <<>> /\ claims = <<>>
    /\ items' = [j \in DOMAIN items \cup {k} |-> IF j = k THEN v ELSE items[j]]
    /\ UNCHANGED <<leaves, claims>>

Entry(c) ==
    /\ DOMAIN items = {} /\ claims = <<>> /\ Len(leaves) < MaxLeaves
    /\ leaves' = Append(leaves, c)
    /\ UNCHANGED <<items, claims>>

Claim(r) ==
    /\ DOMAIN items = {} /\ leaves = <<>> /\ Len(claims) < MaxRanges
    /\ claims' = Append(claims, r)
    /\ UNCHANGED <<items, leaves>>

Next ==
    \/ \E k \in Keys, v \in Hashes : Set(k, v)
    \/ \E c \in Contents : Entry(c)
    \/ \E r \in Spans : Claim(r)

Spec == Init /\ [][Next]_commitVars

-----------------------------------------------------------------------------
(* A proof shows what is under its key, nothing else, and only under its   *)
(* root: after one more set it is stale.                                   *)
ProofsShowTheTree ==
    LET root == Root(items) IN
    /\ \A k \in AllKeys, v \in Hashes :
          Verify(root, k, v, Prove(items, k)) <=> (k \in DOMAIN items => items[k] = v)
    /\ \A k \in DOMAIN items, j \in Keys, v \in Hashes :
          Verify(Root([i \in DOMAIN items \cup {j} |-> IF i = j THEN v ELSE items[i]]),
                 k, items[k], Prove(items, k))
              <=> j \in DOMAIN items /\ items[j] = v

\* The receipts of a block are stored with one proof for all of them, and each
\* is read as it was made.
ReceiptsReadAsMade ==
    \A ks \in SUBSET DOMAIN items : \A k \in ks :
        /\ Read(Compacted(items, ks, k), items, ks, k) = Prove(items, k)
        /\ Compacted(items, ks, k).batch

Distinct(s) == Cardinality(ToSet(s)) = Len(s)

\* Two blocks whose entries differ have different roots, whatever the odd levels
\* duplicate: the entries of a block have different senders.
RootsTellEntriesApart ==
    Distinct(leaves) =>
        \A n \in 0..MaxLeaves : \A s \in [1..n -> Contents] :
            Distinct(s) /\ MerkleRoot([i \in 1..n |-> Leaf(0, s[i])])
                           = MerkleRoot([i \in 1..Len(leaves) |-> Leaf(0, leaves[i])])
                => s = leaves

\* Every proof a V1 block hands out is accepted, for its own content only.
PathsAreAccepted ==
    leaves # <<>> =>
        LET t == TreeOf(leaves) IN
        \A i \in 1..Len(leaves), c \in Contents :
            CheckProof(c, TreeRoot(t), ProofPath(t, i)) <=> c = leaves[i]

\* A claim set covers what its bundle spends, in apart and ordered ranges, so
\* that it is the same for every order and cut of them.
ClaimsCoverSpends ==
    LET set == ClaimRangeSet(claims)
        units(s) == UNION {s[i].begin..s[i].end : i \in 1..Len(s)}
    IN  /\ units(set) = units(claims)
        /\ \A i \in 2..Len(set) : set[i - 1].end + 1 < set[i].begin
        /\ \A r \in Spans : Intersects(set, r) <=> (r.begin..r.end) \cap units(claims) # {}

\* Hashes stand for what they were made of (smt.py, chain.py, claim_set.py,
\* consensus_store.py, MerkleTree.py, MerkleProof.py).
CommitmentsSound ==
    /\ ProofsShowTheTree /\ ReceiptsReadAsMade
    /\ RootsTellEntriesApart /\ PathsAreAccepted /\ ClaimsCoverSpends

=============================================================================
