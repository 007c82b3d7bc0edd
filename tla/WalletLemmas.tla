----------------------------- MODULE WalletLemmas -----------------------------
(***************************************************************************)
(* Lemmas about one account's wallet (WalletStore): which numbers it uses, *)
(* what each operation does to its records, and what their witnesses say.  *)
(* They serve both the account hosts and the wallets of a local node.      *)
(***************************************************************************)
EXTENDS WalletStore, FiniteSetTheorems, WellFoundedInduction, TLAPS

-----------------------------------------------------------------------------
(* Numbers *)

\* Any numbers there are have a least one.
LEMMA Least ==
    ASSUME NEW T, T \subseteq Nat, T # {}
    PROVE  \E m \in T : \A k \in T : m <= k
<1> DEFINE R == OpToRel(<, Nat)
<1>1. IsWellFoundedOn(R, Nat)
  BY NatLessThanWellFounded
<1>2. \A i, j \in Nat : i < j => <<i, j>> \in R
  BY DEF OpToRel
<1> HIDE DEF R
<1>3. PICK m \in T : \A k \in T : <<k, m>> \notin R
  BY <1>1, WFMin
<1>4. ASSUME NEW k \in T PROVE m <= k
  <2>1. k \in Nat /\ m \in Nat
    OBVIOUS
  <2>2. ~(k < m)
    BY <1>2, <1>3, <2>1
  <2>3. QED
    BY <2>1, <2>2
<1>5. QED
  BY <1>4

\* Numbers that are bounded have a greatest one.
LEMMA Greatest ==
    ASSUME NEW T, T \subseteq Nat, T # {}, NEW n \in Nat, \A k \in T : k <= n
    PROVE  \E m \in T : \A k \in T : k <= m
<1> DEFINE U == {n - k : k \in T}
<1>0. \A k \in T : n - k \in Nat
  OBVIOUS
<1>1. U \subseteq Nat /\ U # {}
  BY <1>0
<1>2. PICK m \in U : \A k \in U : m <= k
  <2> HIDE DEF U
  <2>1. QED
    BY <1>1, Least
<1>3. PICK g \in T : m = n - g
  BY <1>2
<1>4. \A k \in T : n - g <= n - k
  BY <1>2, <1>3
<1>5. QED
  BY <1>4

\* next_sequence is at most one more than any number in use.
LEMMA NextSequenceBound ==
    ASSUME NEW s \in Stores, NEW n \in Nat,
           \A u \in s.receipts : u.bundle.seq <= n,
           \A b \in s.pending : b.seq <= n
    PROVE  NextSequence(s) \in 1..(n + 1)
<1> DEFINE used == ReceiptSeqs(s) \cup Seqs(s.pending)
<1>1. used \subseteq Nat /\ \A k \in used : k <= n
  BY DEF Stores, ReceiptSeqs, Seqs, ConfirmedUnits, Bundles
<1> HIDE DEF used
<1>2. CASE used = {}
  BY <1>2 DEF NextSequence, used
<1>3. CASE used # {}
  <2>1. \E m \in used : \A k \in used : k <= m
    BY <1>1, <1>3, Greatest
  <2> DEFINE top == CHOOSE m \in used : \A k \in used : k <= m
  <2>2. top \in used
    BY <2>1
  <2>3. NextSequence(s) = 1 + top
    BY <1>3 DEF NextSequence, used
  <2>4. top \in Nat /\ top <= n
    BY <1>1, <2>2
  <2> HIDE DEF top
  <2>5. QED
    BY <2>3, <2>4
<1>4. QED
  BY <1>2, <1>3

\* It is in no receipt and in no pending row.
LEMMA NextSequenceAbove ==
    ASSUME NEW s \in Stores, NEW n \in Nat,
           \A u \in s.receipts : u.bundle.seq <= n,
           \A b \in s.pending : b.seq <= n
    PROVE  NextSequence(s) \notin ReceiptSeqs(s) \cup Seqs(s.pending)
<1> DEFINE used == ReceiptSeqs(s) \cup Seqs(s.pending)
<1>1. used \subseteq Nat /\ \A k \in used : k <= n
  BY DEF Stores, ReceiptSeqs, Seqs, ConfirmedUnits, Bundles
<1> HIDE DEF used
<1>2. CASE used = {}
  BY <1>2 DEF used
<1>3. CASE used # {}
  <2>1. \E m \in used : \A k \in used : k <= m
    BY <1>1, <1>3, Greatest
  <2> DEFINE top == CHOOSE m \in used : \A k \in used : k <= m
  <2>2. top \in used /\ \A k \in used : k <= top
    BY <2>1
  <2>3. NextSequence(s) = 1 + top
    BY <1>3 DEF NextSequence, used
  <2> HIDE DEF top
  <2>4. NextSequence(s) \notin used
    BY <1>1, <2>2, <2>3
  <2>5. QED
    BY <2>4 DEF used
<1>4. QED
  BY <1>2, <1>3

\* With nothing pending it follows the receipts.
LEMMA NextSequenceFollows ==
    ASSUME NEW s \in Stores, s.pending = {}, NEW k \in Nat, ReceiptSeqs(s) = 1..k
    PROVE  NextSequence(s) = k + 1
<1>1. ReceiptSeqs(s) \cup Seqs(s.pending) = 1..k
  BY DEF Seqs
<1>2. CASE k = 0
  BY <1>1, <1>2 DEF NextSequence
<1>3. CASE k # 0
  <2>1. k \in 1..k /\ 1..k # {}
    BY <1>3
  <2>2. (CHOOSE m \in 1..k : \A i \in 1..k : i <= m) = k
    BY <2>1
  <2>3. QED
    BY <1>1, <2>1, <2>2 DEF NextSequence
<1>4. QED
  BY <1>2, <1>3

-----------------------------------------------------------------------------
(* Values *)

UnitsOf(S) == UNION {r.value : r \in S}

\* No unit twice.
Apart(S) == \A r, q \in S : r # q => r.value \cap q.value = {}

Clean(values) == \A v, w \in values : v # w => v \cap w = {}

LEMMA RangeFacts ==
    ASSUME NEW v \in Ranges
    PROVE  v # {} /\ v \subseteq Units /\ Units \subseteq Nat
BY GenesisAssumption DEF Ranges, Units

\* Ranges that overlap make one range.
LEMMA RangesJoin ==
    ASSUME NEW v \in Ranges, NEW w \in Ranges, v \cap w # {}
    PROVE  v \cup w \in Ranges
<1>1. PICK i \in Units, j \in Units : v = i..j
  BY DEF Ranges
<1>2. PICK k \in Units, l \in Units : w = k..l
  BY DEF Ranges
<1>3. PICK x : x \in v /\ x \in w
  OBVIOUS
<1>4. Units \subseteq Nat
  BY RangeFacts
<1> DEFINE m == IF i <= k THEN i ELSE k
           n == IF j <= l THEN l ELSE j
<1>5. m \in Units /\ n \in Units /\ v \cup w = m..n
  BY <1>1, <1>2, <1>3, <1>4
<1>6. v \cup w # {}
  BY <1>3
<1> HIDE DEF m, n
<1>7. m..n \in Ranges
  BY <1>5, <1>6 DEF Ranges
<1>8. QED
  BY <1>5, <1>7

\* The maximal intervals of a set are apart.
LEMMA IntervalsApart ==
    ASSUME NEW S
    PROVE  /\ Intervals(S) \subseteq Ranges
           /\ \A I \in Intervals(S) : I \subseteq S
           /\ Clean(Intervals(S))
<1>1. Intervals(S) \subseteq Ranges /\ \A I \in Intervals(S) : I \subseteq S
  BY DEF Intervals
<1>2. ASSUME NEW I \in Intervals(S), NEW J \in Intervals(S), I \cap J # {}
      PROVE  I = J
  <2>1. I \cup J \in Ranges /\ I \cup J \subseteq S
    BY <1>1, <1>2, RangesJoin
  <2>2. I \cup J = I
    BY <2>1 DEF Intervals
  <2>3. I \cup J = J
    BY <2>1 DEF Intervals
  <2>4. QED
    BY <2>2, <2>3
<1>3. QED
  BY <1>1, <1>2 DEF Clean

\* Cutting a range gives ranges inside it that are apart.
LEMMA PartitionFacts ==
    ASSUME NEW range \in Ranges, NEW targets \in SUBSET Ranges, Clean(targets),
           \A v \in targets : v \subseteq range
    PROVE  /\ Partition(range, targets) \subseteq Ranges
           /\ \A v \in Partition(range, targets) : v \subseteq range
           /\ Clean(Partition(range, targets))
<1> DEFINE rest == range \ UNION targets
<1>1. /\ Intervals(rest) \subseteq Ranges
      /\ \A I \in Intervals(rest) : I \subseteq rest
      /\ Clean(Intervals(rest))
  BY IntervalsApart
<1>2. Partition(range, targets) = targets \cup Intervals(rest)
  BY DEF Partition
<1>3. \A v \in targets : v \cap rest = {}
  OBVIOUS
<1>4. \A I \in Intervals(rest) : I \subseteq range
  BY <1>1
<1> HIDE DEF rest
<1>5. QED
  BY <1>1, <1>2, <1>3, <1>4 DEF Clean

\* Every value comes from a record that covers it.
LEMMA SourceCovers ==
    ASSUME NEW X, NEW v, \E r \in Spendable(X) : v \subseteq r.value
    PROVE  SourceOf(X, v) \in Spendable(X) /\ v \subseteq SourceOf(X, v).value
BY DEF SourceOf

\* What select_payment_ranges picks lies in spendable records, and no two of the
\* picked ranges overlap when the records do not.
LEMMA SelectionFacts ==
    ASSUME NEW X \in SUBSET Records, NEW values \in Selections(X)
    PROVE  /\ values \subseteq Ranges
           /\ \A v \in values : \E r \in Spendable(X) : v \subseteq r.value
           /\ Apart(Spendable(X)) => Clean(values)
<1>1. Spendable(X) \subseteq Records /\ \A r \in Spendable(X) : r.value \in Ranges
  BY DEF Spendable, Records
<1>2. CASE \E whole \in SUBSET Spendable(X) : values = {r.value : r \in whole}
  <2>1. PICK whole \in SUBSET Spendable(X) : values = {r.value : r \in whole}
    BY <1>2
  <2>2. QED
    BY <2>1, <1>1 DEF Apart, Clean
<1>3. CASE \E whole \in SUBSET Spendable(X) :
             \E v \in UNION {Prefixes(r.value) : r \in Spendable(X) \ whole} :
                values = {r.value : r \in whole} \cup {v}
  <2>0. PICK whole \in SUBSET Spendable(X) :
             \E v \in UNION {Prefixes(r.value) : r \in Spendable(X) \ whole} :
                values = {r.value : r \in whole} \cup {v}
    BY <1>3
  <2>q. PICK q \in Spendable(X) \ whole :
             \E v \in Prefixes(q.value) : values = {r.value : r \in whole} \cup {v}
    BY <2>0
  <2>1. PICK v \in Prefixes(q.value) : values = {r.value : r \in whole} \cup {v}
    BY <2>q
  <2>2. v \in Ranges /\ v \subseteq q.value
    BY DEF Prefixes
  <2>3. Apart(Spendable(X)) => \A r \in whole : r.value \cap v = {}
    BY <2>2 DEF Apart
  <2>4. QED
    BY <2>1, <2>2, <2>3, <1>1 DEF Apart, Clean
<1>4. QED
  BY <1>2, <1>3 DEF Selections

-----------------------------------------------------------------------------
(* Building a bundle *)

\* The records build_bundle cuts, and a piece of one.
Touched(X, b) == {SourceOf(X, v) : v \in b.values}

Piece(r, v, b) == [r EXCEPT !.by = b.sender, !.n = b.n, !.value = v, !.status = "pending"]

PiecesOf(X, r, b) == Partition(r.value, {w \in b.values : SourceOf(X, w) = r})

LEMMA PendingRecords ==
    ASSUME NEW X, NEW b
    PROVE  RecordsWithPending(X, b) =
              (X \ Touched(X, b)) \cup
              UNION {{Piece(r, v, b) : v \in PiecesOf(X, r, b)} : r \in Touched(X, b)}
BY DEF RecordsWithPending, Touched, Piece, PiecesOf

LEMMA PieceFacts ==
    ASSUME NEW r \in Records, NEW v \in Ranges, NEW b \in Bundles
    PROVE  /\ Piece(r, v, b) \in Records
           /\ IsPieceOf(Piece(r, v, b), b)
           /\ Piece(r, v, b).value = v
           /\ Piece(r, v, b).status = "pending"
           /\ Piece(r, v, b).chain = r.chain
           /\ Piece(r, v, b).acquired = r.acquired
BY DEF Piece, Records, Bundles, IsPieceOf, Statuses

\* A piece lies in the record it is cut from.
LEMMA PiecesInside ==
    ASSUME NEW X \in SUBSET Records, NEW b \in Bundles,
           \A v \in b.values : \E r \in Spendable(X) : v \subseteq r.value
    PROVE  /\ Touched(X, b) \subseteq Spendable(X)
           /\ \A r \in Touched(X, b) : \A v \in PiecesOf(X, r, b) :
                 v \in Ranges /\ v \subseteq r.value
<1>1. ASSUME NEW v \in b.values
      PROVE  SourceOf(X, v) \in Spendable(X) /\ v \subseteq SourceOf(X, v).value
  BY SourceCovers
<1>2. Touched(X, b) \subseteq Spendable(X)
  BY <1>1 DEF Touched
<1>3. ASSUME NEW r \in Touched(X, b), NEW v \in PiecesOf(X, r, b)
      PROVE  v \in Ranges /\ v \subseteq r.value
  <2> DEFINE targets == {w \in b.values : SourceOf(X, w) = r}
  <2>1. targets \subseteq Ranges /\ \A w \in targets : w \subseteq r.value
    BY <1>1 DEF Bundles
  <2>2. v \in targets \cup Intervals(r.value \ UNION targets)
    BY DEF PiecesOf, Partition
  <2>3. QED
    BY <2>1, <2>2, IntervalsApart
<1>4. QED
  BY <1>2, <1>3

LEMMA PendingRecordsType ==
    ASSUME NEW X \in SUBSET Records, NEW b \in Bundles,
           \A v \in b.values : \E r \in Spendable(X) : v \subseteq r.value
    PROVE  RecordsWithPending(X, b) \in SUBSET Records
<1>1. /\ Touched(X, b) \subseteq Records
      /\ \A r \in Touched(X, b) : \A v \in PiecesOf(X, r, b) : v \in Ranges
  BY PiecesInside DEF Spendable
<1>2. QED
  BY <1>1, PendingRecords, PieceFacts

\* The records build_bundle leaves: each value of the bundle is a piece, the
\* pieces are locked and keep what the record they come from says, and everything
\* else was there before.
LEMMA Cuts ==
    ASSUME NEW X \in SUBSET Records, NEW b \in Bundles,
           \A v \in b.values : \E r \in Spendable(X) : v \subseteq r.value,
           \A r \in X : ~IsPieceOf(r, b),
           NEW Y, Y = RecordsWithPending(X, b)
    PROVE  /\ \A v \in b.values : \E q \in Y : IsPieceOf(q, b) /\ q.value = v
           /\ \A q \in Y : IsPieceOf(q, b) =>
                 /\ q.status = "pending"
                 /\ \E r \in Touched(X, b) : \E v \in PiecesOf(X, r, b) : q = Piece(r, v, b)
                 /\ \E r \in Spendable(X) : /\ q.value \subseteq r.value
                                            /\ q.chain = r.chain /\ q.acquired = r.acquired
           /\ \A q \in Y : IsPieceOf(q, b) \/ q \in X \ Touched(X, b)
<1>1. /\ Touched(X, b) \subseteq Spendable(X) /\ Touched(X, b) \subseteq X
      /\ \A r \in Touched(X, b) : \A v \in PiecesOf(X, r, b) :
            v \in Ranges /\ v \subseteq r.value /\ r \in Records
  BY PiecesInside DEF Spendable
<1>2. Y = (X \ Touched(X, b)) \cup
          UNION {{Piece(r, v, b) : v \in PiecesOf(X, r, b)} : r \in Touched(X, b)}
  BY PendingRecords
<1>3. ASSUME NEW v \in b.values
      PROVE  \E q \in Y : IsPieceOf(q, b) /\ q.value = v
  <2> DEFINE r == SourceOf(X, v)
  <2>1. r \in Touched(X, b) /\ v \in PiecesOf(X, r, b)
    BY DEF Touched, PiecesOf, Partition
  <2> HIDE DEF r
  <2>2. Piece(r, v, b) \in Y
    BY <1>2, <2>1
  <2>3. QED
    BY <1>1, <2>1, <2>2, PieceFacts
<1>4. ASSUME NEW q \in Y, IsPieceOf(q, b)
      PROVE  \E r \in Touched(X, b) : \E v \in PiecesOf(X, r, b) : q = Piece(r, v, b)
  BY <1>2, <1>4
<1>5. ASSUME NEW q \in Y, ~IsPieceOf(q, b)
      PROVE  q \in X \ Touched(X, b)
  BY <1>1, <1>2, <1>5, PieceFacts
<1>6. \A q \in Y : IsPieceOf(q, b) =>
         /\ q.status = "pending"
         /\ \E r \in Spendable(X) : /\ q.value \subseteq r.value
                                    /\ q.chain = r.chain /\ q.acquired = r.acquired
  BY <1>1, <1>4, PieceFacts
<1>7. QED
  BY <1>3, <1>4, <1>5, <1>6

\* No unit is in two of the records that are spendable or were just cut.
LEMMA Cutting ==
    ASSUME NEW X \in SUBSET Records, NEW b \in Bundles,
           \A v \in b.values : \E r \in Spendable(X) : v \subseteq r.value,
           Apart(Spendable(X)), Clean(b.values),
           \A r \in X : ~IsPieceOf(r, b),
           NEW Y, Y = RecordsWithPending(X, b)
    PROVE  Apart({q \in Y : IsPieceOf(q, b) \/ q.status = "spendable"})
<1>1. /\ Touched(X, b) \subseteq Spendable(X) /\ Touched(X, b) \subseteq X
      /\ \A r \in Touched(X, b) : \A v \in PiecesOf(X, r, b) :
            v \in Ranges /\ v \subseteq r.value /\ r \in Records
  BY PiecesInside DEF Spendable
<1>4. ASSUME NEW q \in Y, IsPieceOf(q, b)
      PROVE  \E r \in Touched(X, b) : \E v \in PiecesOf(X, r, b) : q = Piece(r, v, b)
  BY <1>4, Cuts
<1>5. ASSUME NEW q \in Y, ~IsPieceOf(q, b)
      PROVE  q \in X \ Touched(X, b)
  BY <1>5, Cuts
<1>6. ASSUME NEW q \in Y, NEW p \in Y, IsPieceOf(q, b), IsPieceOf(p, b), q # p
      PROVE  q.value \cap p.value = {}
  <2>1. PICK r \in Touched(X, b) : \E v \in PiecesOf(X, r, b) : q = Piece(r, v, b)
    BY <1>4, <1>6
  <2>2. PICK v \in PiecesOf(X, r, b) : q = Piece(r, v, b)
    BY <2>1
  <2>3. PICK s \in Touched(X, b) : \E w \in PiecesOf(X, s, b) : p = Piece(s, w, b)
    BY <1>4, <1>6
  <2>4. PICK w \in PiecesOf(X, s, b) : p = Piece(s, w, b)
    BY <2>3
  <2>5. q.value = v /\ p.value = w /\ v \subseteq r.value /\ w \subseteq s.value
    BY <1>1, <2>2, <2>4, PieceFacts
  <2>6. CASE r # s
    BY <1>1, <2>5, <2>6 DEF Apart
  <2>7. CASE r = s
    <3> DEFINE targets == {x \in b.values : SourceOf(X, x) = r}
    <3>1. targets \in SUBSET Ranges /\ Clean(targets)
      BY DEF Bundles, Clean
    <3>2. \A x \in targets : x \subseteq r.value
      BY SourceCovers
    <3>3. r.value \in Ranges
      BY <1>1 DEF Records
    <3> HIDE DEF targets
    <3>4. Clean(Partition(r.value, targets))
      BY <3>1, <3>2, <3>3, PartitionFacts
    <3>5. v # w
      BY <1>6, <2>2, <2>4, <2>7
    <3>6. QED
      BY <2>5, <2>7, <3>4, <3>5 DEF PiecesOf, Clean, targets
  <2>8. QED
    BY <2>6, <2>7
<1>7. ASSUME NEW q \in Y, NEW p \in Y, IsPieceOf(q, b), ~IsPieceOf(p, b), p.status = "spendable"
      PROVE  q.value \cap p.value = {}
  <2>1. PICK r \in Touched(X, b) : \E v \in PiecesOf(X, r, b) : q = Piece(r, v, b)
    BY <1>4, <1>7
  <2>2. q.value \subseteq r.value
    BY <1>1, <2>1, PieceFacts
  <2>3. p \in Spendable(X) /\ p # r
    BY <1>5, <1>7 DEF Spendable
  <2>4. QED
    BY <1>1, <2>2, <2>3 DEF Apart
<1>8. ASSUME NEW q \in Y, NEW p \in Y, ~IsPieceOf(q, b), ~IsPieceOf(p, b), q # p,
             q.status = "spendable", p.status = "spendable"
      PROVE  q.value \cap p.value = {}
  BY <1>5, <1>8 DEF Apart, Spendable
<1>9. QED
  BY <1>6, <1>7, <1>8 DEF Apart

-----------------------------------------------------------------------------
(* Marking a receipt missing, rolling a bundle back, applying a receipt *)

\* The same piece of the same attempt, whatever its status and its chain.
SamePiece(q, r) ==
    q.by = r.by /\ q.n = r.n /\ q.value = r.value /\ q.acquired = r.acquired

LEMMA MissingRecords ==
    ASSUME NEW X \in SUBSET Records, NEW b, NEW Y, Y = RecordsWithMissing(X, b)
    PROVE  /\ Y \in SUBSET Records
           /\ \A q \in Y : \E r \in X :
                 /\ SamePiece(q, r) /\ q.chain = r.chain
                 /\ q.status = IF IsPieceOf(r, b) /\ r.status = "pending" THEN "missing" ELSE r.status
           /\ \A r \in X : \E q \in Y :
                 /\ SamePiece(q, r) /\ q.chain = r.chain
                 /\ q.status = IF IsPieceOf(r, b) /\ r.status = "pending" THEN "missing" ELSE r.status
<1> DEFINE f(r) == IF IsPieceOf(r, b) /\ r.status = "pending" THEN [r EXCEPT !.status = "missing"] ELSE r
<1>1. Y = {f(r) : r \in X}
  BY DEF RecordsWithMissing
<1>2. ASSUME NEW r \in X
      PROVE  /\ f(r) \in Records /\ SamePiece(f(r), r) /\ f(r).chain = r.chain
             /\ f(r).status = IF IsPieceOf(r, b) /\ r.status = "pending" THEN "missing" ELSE r.status
  BY DEF Records, Statuses, SamePiece
<1> HIDE DEF f
<1>3. QED
  BY <1>1, <1>2

LEMMA RolledBackRecords ==
    ASSUME NEW X \in SUBSET Records, NEW b, NEW Y, Y = RecordsRolledBack(X, b)
    PROVE  /\ Y \in SUBSET Records
           /\ \A q \in Y : \E r \in X :
                 /\ SamePiece(q, r) /\ q.chain = r.chain
                 /\ q.status = IF IsPieceOf(r, b) THEN "spendable" ELSE r.status
           /\ \A r \in X : \E q \in Y :
                 /\ SamePiece(q, r) /\ q.chain = r.chain
                 /\ q.status = IF IsPieceOf(r, b) THEN "spendable" ELSE r.status
<1> DEFINE f(r) == IF IsPieceOf(r, b) THEN [r EXCEPT !.status = "spendable"] ELSE r
<1>1. Y = {f(r) : r \in X}
  BY DEF RecordsRolledBack
<1>2. ASSUME NEW r \in X
      PROVE  /\ f(r) \in Records /\ SamePiece(f(r), r) /\ f(r).chain = r.chain
             /\ f(r).status = IF IsPieceOf(r, b) THEN "spendable" ELSE r.status
  BY DEF Records, Statuses, SamePiece
<1> HIDE DEF f
<1>3. QED
  BY <1>1, <1>2

\* A record before and after a receipt.
LEMMA ConfirmedOne ==
    ASSUME NEW r \in Records, NEW u \in ConfirmedUnits, NEW q, q = ConfirmedRecord(r, u)
    PROVE  /\ q \in Records /\ SamePiece(q, r)
           /\ \/ q = r /\ r.status = "archived"
              \/ q = r /\ ~IsPieceOf(r, u.bundle) /\ (r.status = "pending" \/ r.acquired >= u.height)
              \/ /\ r.status # "archived" /\ q.chain = <<u>> \o r.chain
                 /\ \/ IsPieceOf(r, u.bundle) /\ r.value \in u.bundle.values /\ q.status = "archived"
                    \/ IsPieceOf(r, u.bundle) /\ r.value \notin u.bundle.values /\ q.status = "spendable"
                    \/ /\ ~IsPieceOf(r, u.bundle) /\ q.status = "spendable"
                       /\ r.status \in {"spendable", "missing"} /\ ~(r.acquired >= u.height)
<1>1. <<u>> \o r.chain \in Seq(ConfirmedUnits)
  BY DEF Records
<1>2. CASE r.status = "archived"
  BY <1>2 DEF ConfirmedRecord, SamePiece
<1>3. CASE r.status # "archived" /\ IsPieceOf(r, u.bundle)
  BY <1>1, <1>3 DEF ConfirmedRecord, SamePiece, Records, Statuses, IsPieceOf
<1>4. CASE r.status # "archived" /\ ~IsPieceOf(r, u.bundle) /\ (r.status = "pending" \/ r.acquired >= u.height)
  BY <1>4 DEF ConfirmedRecord, SamePiece
<1>5. CASE r.status # "archived" /\ ~IsPieceOf(r, u.bundle) /\ ~(r.status = "pending" \/ r.acquired >= u.height)
  BY <1>1, <1>5 DEF ConfirmedRecord, SamePiece, Records, Statuses
<1>6. QED
  BY <1>2, <1>3, <1>4, <1>5

LEMMA ConfirmedRecords ==
    ASSUME NEW X \in SUBSET Records, NEW u \in ConfirmedUnits, NEW Y, Y = RecordsConfirmed(X, u)
    PROVE  /\ Y \in SUBSET Records
           /\ \A q \in Y : \E r \in X : q = ConfirmedRecord(r, u)
           /\ \A r \in X : ConfirmedRecord(r, u) \in Y
BY ConfirmedOne DEF RecordsConfirmed

\* A record after a receipt, and what it was before.
LEMMA ConfirmedCases ==
    ASSUME NEW X \in SUBSET Records, NEW u \in ConfirmedUnits, NEW Y, Y = RecordsConfirmed(X, u)
    PROVE  \A q \in Y : \E r \in X :
              /\ q = ConfirmedRecord(r, u) /\ SamePiece(q, r)
              /\ \/ q = r /\ r.status = "archived"
                 \/ q = r /\ ~IsPieceOf(r, u.bundle)
                 \/ /\ r.status # "archived" /\ q.chain = <<u>> \o r.chain
                    /\ \/ IsPieceOf(r, u.bundle) /\ r.value \in u.bundle.values /\ q.status = "archived"
                       \/ IsPieceOf(r, u.bundle) /\ r.value \notin u.bundle.values /\ q.status = "spendable"
                       \/ /\ ~IsPieceOf(r, u.bundle) /\ q.status = "spendable"
                          /\ r.status \in {"spendable", "missing"}
<1>1. ASSUME NEW q \in Y PROVE \E r \in X : r \in Records /\ q = ConfirmedRecord(r, u)
  BY ConfirmedRecords
<1>2. QED
  BY <1>1, ConfirmedOne

LEMMA ReceivedType ==
    ASSUME NEW p \in Packages, Valid(p)
    PROVE  /\ ReceivedRecord(p) \in Records
           /\ Head(p.chain) \in ConfirmedUnits
<1>1. Head(p.chain) \in ConfirmedUnits
  BY DEF Packages, Valid
<1>2. QED
  BY <1>1 DEF ReceivedRecord, Records, Packages, Statuses, ConfirmedUnits, Bundles

LEMMA PackagesType ==
    ASSUME NEW X \in SUBSET Records, NEW u \in ConfirmedUnits
    PROVE  PackagesOf(X, u) \in SUBSET Packages
<1>1. ASSUME NEW r \in X
      PROVE  [bundle |-> u.bundle, value |-> r.value, acquired |-> r.acquired, chain |-> r.chain]
                \in Packages
  BY DEF Records, Packages, ConfirmedUnits
<1>2. QED
  BY <1>1 DEF PackagesOf

LEMMA ApplyType ==
    ASSUME NEW s \in Stores, NEW w \in Transactions
    PROVE  Apply(s, w) \in Stores
BY DEF Apply, Stores, Transactions

-----------------------------------------------------------------------------
(* The records of a bundle *)

\* Each value of the bundle is a record.
Split(X, b) == \A v \in b.values : \E r \in X : IsPieceOf(r, b) /\ r.value = v

Locked(X, b) == \A r \in X : IsPieceOf(r, b) => r.status \in {"pending", "missing"}

\* The records that are spendable, or will be when the bundles H are resolved.
Live(X, H) ==
    {r \in X : \/ r.status = "spendable"
               \/ r.status \in {"pending", "missing"} /\ \E b \in H : IsPieceOf(r, b)}

\* Those that the bundles P pay out.
Paid(X, P) == {r \in X : \E b \in P : IsPieceOf(r, b) /\ r.value \in b.values}

\* The newest receipts in the witnesses of some records.
HeadsOf(X) == {Head(r.chain) : r \in {q \in X : q.chain # <<>>}}

\* _on_receipt sends one package for each value that a bundle pays out.
LEMMA PackagesOnce ==
    ASSUME NEW X \in SUBSET Records, NEW u \in ConfirmedUnits, NEW b, b = u.bundle,
           Apart(Live(X, {b})), u \notin HeadsOf(X),
           NEW Y, Y = RecordsConfirmed(X, u)
    PROVE  /\ \A p \in PackagesOf(Y, u) : p.bundle = b /\ p.value \in b.values
           /\ \A p, q \in PackagesOf(Y, u) : p.value = q.value => p = q
<1>1. ASSUME NEW p \in PackagesOf(Y, u)
      PROVE  \E r \in Live(X, {b}) :
                /\ r.value = p.value
                /\ p = [bundle |-> u.bundle, value |-> ConfirmedRecord(r, u).value,
                        acquired |-> ConfirmedRecord(r, u).acquired, chain |-> ConfirmedRecord(r, u).chain]
  <2>1. PICK x \in Y : /\ x.status = "archived" /\ x.value \in u.bundle.values
                       /\ x.chain # <<>> /\ Head(x.chain) = u
                       /\ p = [bundle |-> u.bundle, value |-> x.value, acquired |-> x.acquired, chain |-> x.chain]
    BY DEF PackagesOf
  <2>2. x \notin X
    BY <2>1 DEF HeadsOf
  <2>3. PICK r \in X :
           /\ x = ConfirmedRecord(r, u) /\ SamePiece(x, r)
           /\ r.status # "archived" /\ IsPieceOf(r, u.bundle)
    <3>1. \A z \in Y : \E r \in X :
             /\ z = ConfirmedRecord(r, u) /\ SamePiece(z, r)
             /\ \/ z = r /\ r.status = "archived"
                \/ z = r /\ ~IsPieceOf(r, u.bundle)
                \/ /\ r.status # "archived" /\ z.chain = <<u>> \o r.chain
                   /\ \/ IsPieceOf(r, u.bundle) /\ r.value \in u.bundle.values /\ z.status = "archived"
                      \/ IsPieceOf(r, u.bundle) /\ r.value \notin u.bundle.values /\ z.status = "spendable"
                      \/ /\ ~IsPieceOf(r, u.bundle) /\ z.status = "spendable"
                         /\ r.status \in {"spendable", "missing"}
      BY ConfirmedCases
    <3>2. QED
      BY <2>1, <2>2, <3>1
  <2>4. r \in Live(X, {b})
    BY <2>3 DEF Live, Records, Statuses
  <2>5. r.value = p.value
    BY <2>1, <2>3 DEF SamePiece
  <2>6. QED
    BY <2>1, <2>3, <2>4, <2>5
<1>2. \A p \in PackagesOf(Y, u) : p.bundle = b /\ p.value \in b.values
  BY DEF PackagesOf
<1>3. ASSUME NEW p \in PackagesOf(Y, u), NEW q \in PackagesOf(Y, u), p.value = q.value
      PROVE  p = q
  <2>1. PICK r \in Live(X, {b}) :
                /\ r.value = p.value
                /\ p = [bundle |-> u.bundle, value |-> ConfirmedRecord(r, u).value,
                        acquired |-> ConfirmedRecord(r, u).acquired, chain |-> ConfirmedRecord(r, u).chain]
    BY <1>1
  <2>2. PICK t \in Live(X, {b}) :
                /\ t.value = q.value
                /\ q = [bundle |-> u.bundle, value |-> ConfirmedRecord(t, u).value,
                        acquired |-> ConfirmedRecord(t, u).acquired, chain |-> ConfirmedRecord(t, u).chain]
    BY <1>1
  <2>3. r.value = t.value /\ r \in Records
    BY <1>3, <2>1, <2>2 DEF Live
  <2>4. r.value # {}
    BY <2>3, RangeFacts DEF Records
  <2>5. r = t
    BY <2>3, <2>4 DEF Apart
  <2>6. QED
    BY <2>1, <2>2, <2>5
<1>4. QED
  BY <1>2, <1>3

-----------------------------------------------------------------------------
(* Witnesses *)

\* The witness of a record: receipts of its owner, one after the other, up to the
\* n-th while the record is not paid out, none of which spends its value, and all
\* of which came after it was acquired.
Linked(r, C, n) ==
    /\ \A i \in 1..Len(r.chain) : r.chain[i] \in C /\ r.chain[i].bundle.seq \in 1..n
    /\ \A i \in 2..Len(r.chain) :
          /\ r.chain[i - 1].bundle.seq = r.chain[i].bundle.seq + 1
          /\ \A v \in r.chain[i].bundle.values : v \cap r.value = {}
    /\ r.chain # <<>> => r.chain[Len(r.chain)].height > r.acquired
    /\ r.chain # <<>> /\ r.status # "archived" =>
          /\ r.chain[1].bundle.seq = n
          /\ \A v \in r.chain[1].bundle.values : v \cap r.value = {}

\* A record is older than the block of the bundle it was cut for.
Aged(r, C, height) ==
    /\ r.acquired <= height
    /\ r.status # "archived" => \A u \in C : IsPieceOf(r, u.bundle) => r.acquired < u.height

Witnessed(X, C, n, height) == \A r \in X : Linked(r, C, n) /\ Aged(r, C, height)

\* The witness of a record is also one for a part of its value.
LEMMA LinkedPart ==
    ASSUME NEW r, NEW q, NEW C, NEW n, Linked(r, C, n),
           q.chain = r.chain, q.acquired = r.acquired, q.value \subseteq r.value,
           r.status = "archived" => q.status = "archived"
    PROVE  Linked(q, C, n)
<1>1. /\ \A i \in 1..Len(q.chain) : q.chain[i] \in C /\ q.chain[i].bundle.seq \in 1..n
      /\ q.chain # <<>> => q.chain[Len(q.chain)].height > q.acquired
  BY DEF Linked
<1>2. \A i \in 2..Len(q.chain) :
         /\ q.chain[i - 1].bundle.seq = q.chain[i].bundle.seq + 1
         /\ \A v \in q.chain[i].bundle.values : v \cap q.value = {}
  BY DEF Linked
<1>3. q.chain # <<>> /\ q.status # "archived" =>
         /\ q.chain[1].bundle.seq = n
         /\ \A v \in q.chain[1].bundle.values : v \cap q.value = {}
  BY DEF Linked
<1>4. QED
  BY <1>1, <1>2, <1>3 DEF Linked

\* More receipts, and a chain that has grown.
LEMMA WitnessedMore ==
    ASSUME NEW X, NEW C, NEW n, NEW h \in Nat, Witnessed(X, C, n, h),
           NEW D, C \subseteq D, NEW g \in Nat, g >= h,
           \A r \in X : r.acquired \in Nat,
           \A u \in D : u \in C \/ (u.height > h /\ u.height \in Nat)
    PROVE  Witnessed(X, D, n, g)
<1> SUFFICES ASSUME NEW r \in X
             PROVE  Linked(r, D, n) /\ Aged(r, D, g)
  BY DEF Witnessed
<1>1. Linked(r, C, n) /\ Aged(r, C, h)
  BY DEF Witnessed
<1>2. Linked(r, D, n)
  BY <1>1 DEF Linked
<1>3. r.acquired <= g /\ \A u \in D : u \notin C => r.acquired < u.height
  BY <1>1 DEF Aged
<1>4. Aged(r, D, g)
  BY <1>1, <1>3 DEF Aged
<1>5. QED
  BY <1>2, <1>4

\* Records that are marked missing or rolled back.
LEMMA WitnessedMarked ==
    ASSUME NEW X, NEW C, NEW n, NEW h, Witnessed(X, C, n, h), NEW Y,
           \A q \in Y : \E r \in X : /\ SamePiece(q, r) /\ q.chain = r.chain
                                     /\ r.status = "archived" => q.status = "archived"
    PROVE  Witnessed(Y, C, n, h)
<1> SUFFICES ASSUME NEW q \in Y
             PROVE  Linked(q, C, n) /\ Aged(q, C, h)
  BY DEF Witnessed
<1>1. PICK r \in X : /\ SamePiece(q, r) /\ q.chain = r.chain
                     /\ r.status = "archived" => q.status = "archived"
  OBVIOUS
<1>2. Linked(r, C, n) /\ Aged(r, C, h)
  BY DEF Witnessed
<1>3. q.acquired = r.acquired /\ q.value \subseteq r.value
  BY <1>1 DEF SamePiece
<1>4. Linked(q, C, n)
  BY <1>1, <1>2, <1>3, LinkedPart
<1>5. Aged(q, C, h)
  BY <1>1, <1>2 DEF Aged, SamePiece, IsPieceOf
<1>6. QED
  BY <1>4, <1>5

\* Records cut for a bundle that is not confirmed.
LEMMA WitnessedCut ==
    ASSUME NEW X \in SUBSET Records, NEW C, NEW n, NEW h, Witnessed(X, C, n, h),
           NEW b \in Bundles,
           \A v \in b.values : \E r \in Spendable(X) : v \subseteq r.value,
           \A r \in X : ~IsPieceOf(r, b),
           \A u \in C : u.bundle.sender # b.sender \/ u.bundle.n # b.n,
           NEW Y, Y = RecordsWithPending(X, b)
    PROVE  Witnessed(Y, C, n, h)
<1>1. ASSUME NEW q \in Y, ~IsPieceOf(q, b)
      PROVE  q \in X
  <2>1. q \in X \ Touched(X, b)
    BY <1>1, Cuts
  <2>2. QED
    BY <2>1
<1>2. ASSUME NEW q \in Y, IsPieceOf(q, b)
      PROVE  Linked(q, C, n) /\ Aged(q, C, h)
  <2>1. \E r \in Spendable(X) : q.value \subseteq r.value /\ q.chain = r.chain /\ q.acquired = r.acquired
    BY <1>2, Cuts
  <2>2. PICK r \in Spendable(X) : q.value \subseteq r.value /\ q.chain = r.chain /\ q.acquired = r.acquired
    BY <2>1
  <2>3. r \in X /\ r.status # "archived"
    BY DEF Spendable
  <2>4. Linked(r, C, n) /\ Aged(r, C, h)
    BY <2>3 DEF Witnessed
  <2>5. Linked(q, C, n)
    BY <2>2, <2>3, <2>4, LinkedPart
  <2>6. \A u \in C : ~IsPieceOf(q, u.bundle)
    BY <1>2 DEF IsPieceOf
  <2>7. Aged(q, C, h)
    BY <2>2, <2>4, <2>6 DEF Aged
  <2>8. QED
    BY <2>5, <2>7
<1>3. QED
  BY <1>1, <1>2 DEF Witnessed

\* A record that comes in with a package.
LEMMA WitnessedReceived ==
    ASSUME NEW X, NEW C, NEW n, NEW h, Witnessed(X, C, n, h),
           NEW r, r.chain = <<>>, r.acquired <= h, \A u \in C : u.bundle.sender # r.by
    PROVE  Witnessed(X \cup {r}, C, n, h)
<1>1. Linked(r, C, n)
  BY DEF Linked
<1>2. Aged(r, C, h)
  BY DEF Aged, IsPieceOf
<1>3. QED
  BY <1>1, <1>2 DEF Witnessed

LEMMA Prepended ==
    ASSUME NEW S, NEW c \in Seq(S), NEW u \in S, NEW d, d = <<u>> \o c
    PROVE  /\ d \in Seq(S) /\ d # <<>> /\ Len(d) = Len(c) + 1 /\ Len(c) \in Nat
           /\ d[1] = u /\ Head(d) = u
           /\ \A i \in 2..Len(d) : d[i] = c[i - 1] /\ i - 1 \in 1..Len(c)
           /\ c = <<>> => d[Len(d)] = u
           /\ c # <<>> => d[Len(d)] = c[Len(c)] /\ Len(c) \in 1..Len(c)
<1>1. d \in Seq(S) /\ Len(d) = Len(c) + 1 /\ Len(c) \in Nat /\ d[1] = u
  OBVIOUS
<1>2. d # <<>> /\ Head(d) = u
  BY <1>1
<1>3. \A i \in 2..Len(d) : d[i] = c[i - 1] /\ i - 1 \in 1..Len(c)
  BY <1>1
<1>4. c = <<>> => d[Len(d)] = u
  BY <1>1
<1>5. c # <<>> => Len(c) \in 1..Len(c) /\ Len(d) \in 2..Len(d) /\ Len(d) - 1 = Len(c)
  BY <1>1
<1>6. c # <<>> => d[Len(d)] = c[Len(c)]
  BY <1>3, <1>5
<1>7. QED
  BY <1>1, <1>2, <1>3, <1>4, <1>5, <1>6

\* A receipt makes the witness of a record one longer.
LEMMA LinkedOn ==
    ASSUME NEW r \in Records, NEW C \in SUBSET ConfirmedUnits, NEW n \in Nat, Linked(r, C, n),
           r.status # "archived",
           NEW u \in C, u.bundle.seq = n + 1, r.acquired < u.height,
           NEW q, q.chain = <<u>> \o r.chain, q.value = r.value, q.acquired = r.acquired,
           q.status # "archived" => \A v \in u.bundle.values : v \cap q.value = {}
    PROVE  Linked(q, C, n + 1)
<1> DEFINE c == r.chain
           d == q.chain
<1>1. c \in Seq(ConfirmedUnits) /\ u \in ConfirmedUnits /\ d = <<u>> \o c
  BY DEF Records
<1>2. \A i \in 1..Len(c) : c[i] \in C /\ c[i].bundle.seq \in 1..n
  BY DEF Linked
<1>3. \A i \in 2..Len(c) :
         /\ c[i - 1].bundle.seq = c[i].bundle.seq + 1
         /\ \A v \in c[i].bundle.values : v \cap r.value = {}
  BY DEF Linked
<1>4. c # <<>> => c[Len(c)].height > r.acquired
  BY DEF Linked
<1>5. c # <<>> => c[1].bundle.seq = n /\ \A v \in c[1].bundle.values : v \cap r.value = {}
  BY DEF Linked
<1> HIDE DEF c, d
<1>6. /\ d # <<>> /\ Len(d) = Len(c) + 1 /\ Len(c) \in Nat
      /\ d[1] = u
      /\ \A i \in 2..Len(d) : d[i] = c[i - 1] /\ i - 1 \in 1..Len(c)
      /\ c = <<>> => d[Len(d)] = u
      /\ c # <<>> => d[Len(d)] = c[Len(c)]
  BY <1>1, Prepended
<1>7. ASSUME NEW i \in 1..Len(d)
      PROVE  d[i] \in C /\ d[i].bundle.seq \in 1..(n + 1)
  <2>1. CASE i = 1
    BY <1>6, <2>1
  <2>2. CASE i # 1
    <3>1. i \in 2..Len(d)
      BY <1>6, <1>7, <2>2
    <3>2. d[i] = c[i - 1] /\ i - 1 \in 1..Len(c)
      BY <1>6, <3>1
    <3>3. c[i - 1] \in C /\ c[i - 1].bundle.seq \in 1..n
      BY <1>2, <3>2
    <3>4. QED
      BY <3>2, <3>3
  <2>3. QED
    BY <2>1, <2>2
<1>8. ASSUME NEW i \in 2..Len(d)
      PROVE  /\ d[i - 1].bundle.seq = d[i].bundle.seq + 1
             /\ \A v \in d[i].bundle.values : v \cap r.value = {}
  <2>1. d[i] = c[i - 1] /\ i - 1 \in 1..Len(c)
    BY <1>6
  <2>2. CASE i = 2
    <3>1. c # <<>> /\ d[i] = c[1] /\ d[i - 1] = u
      BY <1>6, <2>1, <2>2
    <3>2. QED
      BY <1>5, <3>1
  <2>3. CASE i # 2
    <3>1. i - 1 \in 2..Len(d) /\ i - 1 \in 2..Len(c)
      BY <1>6, <2>1, <2>3
    <3>2. d[i - 1] = c[(i - 1) - 1]
      BY <1>6, <3>1
    <3>3. /\ c[(i - 1) - 1].bundle.seq = c[i - 1].bundle.seq + 1
          /\ \A v \in c[i - 1].bundle.values : v \cap r.value = {}
      BY <1>3, <3>1
    <3>4. QED
      BY <2>1, <3>2, <3>3
  <2>4. QED
    BY <2>2, <2>3
<1>9. d[Len(d)].height > r.acquired
  BY <1>4, <1>6, <1>1 DEF Records, ConfirmedUnits
<1>10. q.status # "archived" =>
          /\ d[1].bundle.seq = n + 1
          /\ \A v \in d[1].bundle.values : v \cap q.value = {}
  BY <1>6
<1>11. QED
  BY <1>7, <1>8, <1>9, <1>10 DEF Linked, d

\* A record that a receipt leaves alone.
LEMMA LinkedOff ==
    ASSUME NEW r \in Records, NEW C \in SUBSET ConfirmedUnits, NEW n \in Nat, Linked(r, C, n),
           \A v, w \in C : v.bundle.seq < w.bundle.seq => v.height < w.height,
           NEW u \in C, u.bundle.seq = n + 1,
           r.status = "archived" \/ r.acquired >= u.height
    PROVE  Linked(r, C, n + 1)
<1>1. \A i \in 1..Len(r.chain) : r.chain[i] \in C /\ r.chain[i].bundle.seq \in 1..(n + 1)
  BY DEF Linked
<1>2. \A i \in 2..Len(r.chain) :
          /\ r.chain[i - 1].bundle.seq = r.chain[i].bundle.seq + 1
          /\ \A v \in r.chain[i].bundle.values : v \cap r.value = {}
  BY DEF Linked
<1>3. r.chain # <<>> => r.chain[Len(r.chain)].height > r.acquired
  BY DEF Linked
<1>4. r.chain # <<>> => r.status = "archived"
  <2>1. SUFFICES ASSUME r.chain # <<>>, r.acquired >= u.height PROVE FALSE
    OBVIOUS
  <2>2. PICK w : w = r.chain[Len(r.chain)]
    OBVIOUS
  <2>3. Len(r.chain) \in 1..Len(r.chain)
    BY <2>1 DEF Records
  <2>4. w \in C /\ w.bundle.seq \in 1..n
    BY <2>2, <2>3 DEF Linked
  <2>5. w.bundle.seq < u.bundle.seq
    BY <2>4
  <2>6. w.height < u.height
    BY <2>4, <2>5
  <2>7. w.height > r.acquired
    BY <1>3, <2>1, <2>2
  <2>8. w.height \in Nat /\ u.height \in Nat /\ r.acquired \in Nat
    BY <2>4 DEF ConfirmedUnits, Records
  <2>9. QED
    BY <2>1, <2>6, <2>7, <2>8
<1>5. QED
  BY <1>1, <1>2, <1>3, <1>4 DEF Linked

\* A wallet whose pending bundle b gets its receipt u next.
Ripe(X, C, n, h, u, b) ==
    /\ X \in SUBSET Records /\ C \in SUBSET ConfirmedUnits /\ n \in Nat
    /\ Witnessed(X, C, n, h)
    /\ \A v, w \in C : v.bundle.seq < w.bundle.seq => v.height < w.height
    /\ u \in C /\ u.bundle.seq = n + 1 /\ b = u.bundle
    /\ Apart(Live(X, {b})) /\ Split(X, b) /\ Locked(X, b)
    /\ \A r \in X : r.status \in {"pending", "missing"} => IsPieceOf(r, b)

\* The receipt of the pending bundle: every witness goes on, and the packages for
\* what it pays out are accepted.
LEMMA WitnessedConfirmed ==
    ASSUME NEW X, NEW C, NEW n, NEW h, NEW u, NEW b, Ripe(X, C, n, h, u, b),
           NEW Y, Y = RecordsConfirmed(X, u)
    PROVE  /\ Witnessed(Y, C, n + 1, h)
           /\ \A p \in PackagesOf(Y, u) : Valid(p) /\ p.chain[1] = u
<1> /\ X \in SUBSET Records /\ C \in SUBSET ConfirmedUnits /\ n \in Nat
    /\ u \in C /\ u.bundle.seq = n + 1 /\ b = u.bundle
  BY DEF Ripe
<1> /\ Witnessed(X, C, n, h) /\ Apart(Live(X, {b})) /\ Split(X, b) /\ Locked(X, b)
    /\ \A v, w \in C : v.bundle.seq < w.bundle.seq => v.height < w.height
    /\ \A r \in X : r.status \in {"pending", "missing"} => IsPieceOf(r, b)
  BY DEF Ripe
<1>1. u \in ConfirmedUnits /\ b.values \subseteq Ranges
  BY DEF ConfirmedUnits, Bundles
<1>2. \A v \in b.values : \E t \in Live(X, {b}) : IsPieceOf(t, b) /\ t.value = v
  BY DEF Split, Locked, Live
<1>3. ASSUME NEW r \in Live(X, {b}), NEW v \in b.values, ~IsPieceOf(r, b) \/ r.value # v
      PROVE  v \cap r.value = {}
  <2>1. PICK t \in Live(X, {b}) : IsPieceOf(t, b) /\ t.value = v
    BY <1>2
  <2>2. t # r
    BY <1>3, <2>1
  <2>3. QED
    BY <2>1, <2>2 DEF Apart
<1>4. ASSUME NEW q \in Y
      PROVE  \E r \in X :
                /\ r \in Records /\ SamePiece(q, r) /\ Linked(r, C, n) /\ Aged(r, C, h)
                /\ \/ q = r /\ r.status = "archived"
                   \/ q = r /\ r.acquired >= u.height
                   \/ /\ r.status # "archived" /\ q.chain = <<u>> \o r.chain
                      /\ r \in Live(X, {b})
                      /\ \/ IsPieceOf(r, b) /\ r.value \in b.values /\ q.status = "archived"
                         \/ IsPieceOf(r, b) /\ r.value \notin b.values
                         \/ ~IsPieceOf(r, b) /\ ~(r.acquired >= u.height)
  <2>1. PICK r \in X : q = ConfirmedRecord(r, u)
    BY DEF RecordsConfirmed
  <2>2. r \in Records
    OBVIOUS
  <2>3. Linked(r, C, n) /\ Aged(r, C, h)
    BY DEF Witnessed
  <2>4. /\ SamePiece(q, r)
        /\ \/ q = r /\ r.status = "archived"
           \/ q = r /\ ~IsPieceOf(r, u.bundle) /\ (r.status = "pending" \/ r.acquired >= u.height)
           \/ /\ r.status # "archived" /\ q.chain = <<u>> \o r.chain
              /\ \/ IsPieceOf(r, u.bundle) /\ r.value \in u.bundle.values /\ q.status = "archived"
                 \/ IsPieceOf(r, u.bundle) /\ r.value \notin u.bundle.values /\ q.status = "spendable"
                 \/ /\ ~IsPieceOf(r, u.bundle) /\ q.status = "spendable"
                    /\ r.status \in {"spendable", "missing"} /\ ~(r.acquired >= u.height)
    BY <1>1, <2>1, <2>2, ConfirmedOne
  <2>5. r.status # "archived" => r \in Live(X, {b})
    BY <2>2 DEF Live, Records, Statuses
  <2>6. ~IsPieceOf(r, b) => r.status # "pending"
    OBVIOUS
  <2>7. QED
    BY <2>2, <2>3, <2>4, <2>5, <2>6
<1>5. ASSUME NEW q \in Y, NEW r \in X, r \in Records, SamePiece(q, r), Linked(r, C, n), Aged(r, C, h),
             r.status # "archived", q.chain = <<u>> \o r.chain, r \in Live(X, {b}),
             \/ IsPieceOf(r, b) /\ r.value \in b.values /\ q.status = "archived"
             \/ IsPieceOf(r, b) /\ r.value \notin b.values
             \/ ~IsPieceOf(r, b) /\ ~(r.acquired >= u.height)
      PROVE  Linked(q, C, n + 1)
  <2>1. q.value = r.value /\ q.acquired = r.acquired
    BY <1>5 DEF SamePiece
  <2>2. r.acquired < u.height
    <3>1. CASE IsPieceOf(r, b)
      BY <1>5, <3>1 DEF Aged
    <3>2. CASE ~(r.acquired >= u.height)
      BY <1>1, <1>5, <3>2 DEF Records, ConfirmedUnits
    <3>3. QED
      BY <1>5, <3>1, <3>2
  <2>3. q.status # "archived" => \A v \in u.bundle.values : v \cap q.value = {}
    BY <1>3, <1>5, <2>1
  <2>4. q.chain = <<u>> \o r.chain /\ r.status # "archived" /\ Linked(r, C, n)
    BY <1>5
  <2>5. QED
    BY <2>1, <2>2, <2>3, <2>4, LinkedOn
<1>6. ASSUME NEW q \in Y
      PROVE  Linked(q, C, n + 1) /\ Aged(q, C, h)
  <2>1. PICK r \in X :
                /\ r \in Records /\ SamePiece(q, r) /\ Linked(r, C, n) /\ Aged(r, C, h)
                /\ \/ q = r /\ r.status = "archived"
                   \/ q = r /\ r.acquired >= u.height
                   \/ /\ r.status # "archived" /\ q.chain = <<u>> \o r.chain
                      /\ r \in Live(X, {b})
                      /\ \/ IsPieceOf(r, b) /\ r.value \in b.values /\ q.status = "archived"
                         \/ IsPieceOf(r, b) /\ r.value \notin b.values
                         \/ ~IsPieceOf(r, b) /\ ~(r.acquired >= u.height)
    BY <1>4
  <2>2. CASE q = r /\ (r.status = "archived" \/ r.acquired >= u.height)
    <3>1. Linked(r, C, n)
      BY <2>1
    <3>2. Linked(r, C, n + 1)
      BY <2>2, <3>1, LinkedOff
    <3>3. QED
      BY <2>1, <2>2, <3>2
  <2>3. CASE r.status # "archived" /\ q.chain = <<u>> \o r.chain
    <3>1. CASE r \in Live(X, {b}) /\
               \/ IsPieceOf(r, b) /\ r.value \in b.values /\ q.status = "archived"
               \/ IsPieceOf(r, b) /\ r.value \notin b.values
               \/ ~IsPieceOf(r, b) /\ ~(r.acquired >= u.height)
      <4>1. Linked(q, C, n + 1)
        BY <1>5, <2>1, <2>3, <3>1
      <4>2. Aged(q, C, h)
        BY <2>1, <2>3 DEF Aged, SamePiece, IsPieceOf
      <4>3. QED
        BY <4>1, <4>2
    <3>2. QED
      BY <2>1, <2>2, <2>3, <3>1
  <2>4. QED
    BY <2>1, <2>2, <2>3
<1>7. Witnessed(Y, C, n + 1, h)
  BY <1>6 DEF Witnessed
<1>8. ASSUME NEW p \in PackagesOf(Y, u)
      PROVE  Valid(p) /\ p.chain[1] = u
  <2>1. PICK x \in Y : /\ x.status = "archived" /\ x.value \in u.bundle.values
                       /\ x.chain # <<>> /\ Head(x.chain) = u
                       /\ p = [bundle |-> u.bundle, value |-> x.value, acquired |-> x.acquired, chain |-> x.chain]
    BY DEF PackagesOf
  <2>2. PICK r \in X :
                /\ r \in Records /\ SamePiece(x, r) /\ Linked(r, C, n)
                /\ \/ x = r
                   \/ x.chain = <<u>> \o r.chain /\ r \in Live(X, {b})
    BY <1>4
  <2>3. Linked(x, C, n + 1)
    BY <1>6
  <2>4. x.chain \in Seq(ConfirmedUnits)
    <3>1. r.chain \in Seq(ConfirmedUnits)
      BY <2>2 DEF Records
    <3>2. x.chain = <<u>> \o r.chain => x.chain \in Seq(ConfirmedUnits)
      BY <1>1, <3>1, Prepended
    <3>3. QED
      BY <2>2, <3>1, <3>2
  <2>5. x.chain[1] = u /\ Len(x.chain) \in Nat /\ 1 \in 1..Len(x.chain)
    BY <2>1, <2>4
  <2>6. x # r
    <3>1. SUFFICES ASSUME x = r PROVE FALSE
      OBVIOUS
    <3>2. r.chain[1].bundle.seq \in 1..n
      BY <2>2, <2>5, <3>1 DEF Linked
    <3>3. QED
      BY <2>5, <3>1, <3>2
  <2>7. r \in Live(X, {b})
    BY <2>2, <2>6
  <2>8. \A v \in b.values : v # x.value => v \cap x.value = {}
    BY <1>3, <2>2, <2>7 DEF SamePiece
  <2>9. p.bundle = b /\ p.value = x.value /\ p.acquired = x.acquired /\ p.chain = x.chain
    BY <2>1
  <2>10. /\ p.chain # <<>> /\ Head(p.chain).bundle = p.bundle /\ p.value \in p.bundle.values
         /\ \A v \in p.bundle.values \ {p.value} : v \cap p.value = {}
    BY <2>1, <2>8, <2>9
  <2>11. /\ \A i \in 2..Len(p.chain) :
               /\ p.chain[i - 1].bundle.seq = p.chain[i].bundle.seq + 1
               /\ \A v \in p.chain[i].bundle.values : v \cap p.value = {}
         /\ p.chain[Len(p.chain)].height > p.acquired
    BY <2>1, <2>3, <2>9 DEF Linked
  <2>12. Valid(p)
    BY <2>10, <2>11 DEF Valid
  <2>13. QED
    BY <2>5, <2>9, <2>12
<1>9. QED
  BY <1>7, <1>8

=============================================================================
