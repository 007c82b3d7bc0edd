---------------------------- MODULE LocalNetProofs ----------------------------
(***************************************************************************)
(* The wallets of a local node, for any accounts, any genesis allocation   *)
(* and any bounds: what they offer to spend is theirs by the chain, their  *)
(* locks match their pending bundles, and no unit is ever lost between a   *)
(* block, its receipts and the packages.                                   *)
(*                                                                         *)
(* The invariant says of each wallet what it keeps, measured by the chain  *)
(* (Good), then that packages are accepted once and from those that their  *)
(* senders can make (Deliveries), and that what is still to be delivered   *)
(* belongs to who is to get it (DueState).  Good is a predicate of one     *)
(* wallet, so that a block that also hands out its receipts is two steps   *)
(* of it.                                                                  *)
(***************************************************************************)
EXTENDS LocalNet, WalletLemmas

-----------------------------------------------------------------------------
(* One wallet *)

\* The receipts C that the chain has for account a, k of them in blocks up to h:
\* one bundle after the other.
Chained(a, C, k, h) ==
    /\ IsFiniteSet(C) /\ k = Cardinality(C) /\ k \in Nat /\ h \in Nat
    /\ C \in SUBSET ConfirmedUnits
    /\ {u.bundle.seq : u \in C} = 1..k
    /\ \A u, w \in C : u.bundle.seq = w.bundle.seq => u = w
    /\ \A u, w \in C : u.bundle.seq < w.bundle.seq => u.height < w.height
    /\ \A u \in C : /\ u.bundle.sender = a /\ u.bundle.to # a
                    /\ u.bundle.n = u.bundle.seq /\ u.height <= h

\* The records a wallet can still use, now or later.
Active(X) == {r \in X : r.status # "archived"}

\* A wallet that has built n bundles has the receipts of the chain but that of
\* the pending bundle, which is its last.
Lined(s, a, n, C, k) ==
    /\ s.receipts = {u \in C : u.bundle \notin s.pending} /\ s.confirmed = s.receipts
    /\ \A b \in s.pending :
          /\ b.sender = a /\ b.to # a /\ b.n = n /\ b.seq = n
          /\ \/ n = k + 1 /\ \A u \in C : u.bundle # b
             \/ n = k /\ \E u \in C : u.bundle = b
    /\ \A b, c \in s.pending : b = c
    /\ s.pending = {} => n = k

\* Pieces are cut for bundles that were built, and locked while theirs is pending.
Locks(s, a, n) ==
    /\ \A r \in s.records : r.by = a => r.n <= n
    /\ \A r \in s.records : r.status \in {"pending", "missing"} => \E b \in s.pending : IsPieceOf(r, b)
    /\ \A b \in s.pending : Split(s.records, b) /\ Locked(s.records, b)

\* The pending bundles that are in a block.
Due(s, C) == {b \in s.pending : \E u \in C : u.bundle = b}

\* The units W of the account, each in one record, but for what is being paid.
Money(s, C, W) ==
    /\ Apart(Active(s.records))
    /\ UnitsOf(Active(s.records) \ Paid(s.records, Due(s, C))) = W

\* For each value that a bundle paid there is one package, which is valid.
Delivers(X, u) ==
    /\ \A v \in u.bundle.values : \E p \in PackagesOf(X, u) : p.value = v /\ Valid(p)
    /\ \A p, q \in PackagesOf(X, u) : p.value = q.value => p = q

\* The number of its receipts.
Stored(s, n) == IF s.pending = {} THEN n ELSE n - 1

Good(s, a, n, C, k, W, h) ==
    /\ s \in Stores /\ n \in Nat
    /\ Lined(s, a, n, C, k)
    /\ Locks(s, a, n)
    /\ Money(s, C, W)
    /\ \A u \in s.confirmed : Delivers(s.records, u)
    /\ Witnessed(s.records, C, Stored(s, n), h)

\* Before the first block.
LEMMA GoodFirst ==
    ASSUME NEW a \in Accounts, NEW W, W = UNION Genesis[a]
    PROVE  Chained(a, {}, 0, 0) /\ Good(FirstStore(a), a, 0, {}, 0, W, 0)
<1>1. Chained(a, {}, 0, 0)
  BY FS_EmptySet DEF Chained
<1>2. PICK s : s = FirstStore(a)
  OBVIOUS
<1> DEFINE r(v) == [by |-> a, n |-> 0, value |-> v, status |-> "spendable", acquired |-> 0,
                    chain |-> <<>>]
<1>3. /\ s.records = {r(v) : v \in Genesis[a]}
      /\ s.pending = {} /\ s.receipts = {} /\ s.confirmed = {} /\ s.accepted = {}
  BY <1>2 DEF FirstStore
<1>4. Genesis[a] \subseteq Ranges
  BY GenesisAssumption
<1>5. \A v : /\ r(v).by = a /\ r(v).n = 0 /\ r(v).status = "spendable" /\ r(v).acquired = 0
             /\ r(v).chain = <<>> /\ r(v).value = v
             /\ v \in Ranges => r(v) \in Records
  <2>1. <<>> \in Seq(ConfirmedUnits)
    OBVIOUS
  <2>2. QED
    BY <2>1 DEF Records, Statuses
<1> HIDE DEF r
<1>6. /\ \A q \in s.records : /\ q.by = a /\ q.n = 0 /\ q.status = "spendable" /\ q.acquired = 0
                              /\ q.chain = <<>> /\ q.value \in Genesis[a] /\ q = r(q.value)
      /\ \A v \in Genesis[a] : \E q \in s.records : q.value = v
  BY <1>3, <1>5
<1>7. s \in Stores
  <2>1. s.records \subseteq Records
    BY <1>3, <1>4, <1>5
  <2>2. QED
    BY <1>2, <1>3, <2>1 DEF FirstStore, Stores
<1>8. Lined(s, a, 0, {}, 0) /\ Stored(s, 0) = 0
  BY <1>3 DEF Lined, Stored
<1>9. Locks(s, a, 0)
  BY <1>3, <1>6 DEF Locks
<1>10. Money(s, {}, W)
  <2>1. Active(s.records) = s.records /\ Paid(s.records, Due(s, {})) = {}
    BY <1>6 DEF Active, Paid, Due
  <2>2. Apart(s.records)
    <3>1. \A q, p \in s.records : q.value \cap p.value # {} => q.value = p.value
      BY <1>6, LocalAssumption
    <3>2. QED
      BY <1>6, <3>1 DEF Apart
  <2>3. UnitsOf(s.records) = W
    BY <1>6 DEF UnitsOf
  <2>4. QED
    BY <2>1, <2>2, <2>3 DEF Money
<1>11. Witnessed(s.records, {}, 0, 0)
  BY <1>6 DEF Witnessed, Linked, Aged
<1>12. QED
  BY <1>1, <1>2, <1>3, <1>7, <1>8, <1>9, <1>10, <1>11 DEF Good

-----------------------------------------------------------------------------
(* Building a bundle *)

\* Every unit of a set lies in one of its maximal intervals.
LEMMA IntervalsCover ==
    ASSUME NEW S \in SUBSET Units, NEW x \in S
    PROVE  \E I \in Intervals(S) : x \in I
<1>1. Units \subseteq Nat /\ LastUnit \in Nat /\ x \in Units /\ \A y \in Units : y <= LastUnit
  BY GenesisAssumption DEF Units
<1> DEFINE T == {m \in Units : m <= x /\ m..x \subseteq S}
           U == {n \in Units : x <= n /\ x..n \subseteq S}
<1>2. x \in T /\ x \in U /\ T \subseteq Nat /\ U \subseteq Nat /\ \A n \in U : n <= LastUnit
  <2>1. x..x = {x} /\ x <= x
    BY <1>1
  <2>2. QED
    BY <1>1, <2>1
<1>3. \E m \in T : \A k \in T : m <= k
  <2> HIDE DEF T
  <2>1. QED
    BY <1>2, Least
<1>4. \E n \in U : \A k \in U : k <= n
  <2> HIDE DEF U
  <2>1. QED
    BY <1>1, <1>2, Greatest
<1>5. PICK m \in T : \A k \in T : m <= k
  BY <1>3
<1>6. PICK n \in U : \A k \in U : k <= n
  BY <1>4
<1>7. m..n \subseteq S /\ x \in m..n /\ m..n \in Ranges
  <2>1. m \in Nat /\ n \in Nat /\ x \in Nat /\ m <= x /\ x <= n
    BY <1>1
  <2>2. \A y \in m..n : y \in m..x \/ y \in x..n
    BY <2>1
  <2>3. x \in m..n
    BY <2>1
  <2>4. QED
    BY <2>2, <2>3 DEF Ranges
<1>8. ASSUME NEW J \in Ranges, m..n \subseteq J, J \subseteq S
      PROVE  J = m..n
  <2>1. PICK i \in Units, j \in Units : J = i..j
    BY DEF Ranges
  <2>2. i \in Nat /\ j \in Nat /\ m \in Nat /\ n \in Nat /\ m <= x /\ x <= n /\ x \in Nat
    BY <1>1
  <2>3. m \in i..j /\ n \in i..j
    BY <1>8, <2>1, <2>2
  <2>4. i..x \subseteq i..j /\ x..j \subseteq i..j /\ i <= x /\ x <= j
    BY <2>2, <2>3
  <2>5. i \in T /\ j \in U
    BY <1>8, <2>1, <2>4
  <2>6. m <= i /\ j <= n
    BY <1>5, <1>6, <2>5
  <2>7. i = m /\ j = n
    BY <2>2, <2>3, <2>6
  <2>8. QED
    BY <2>1, <2>7
<1>9. m..n \in Intervals(S)
  <2>1. PICK I : I = m..n
    OBVIOUS
  <2>2. I \in Ranges /\ I \subseteq S /\ \A J \in Ranges : I \subseteq J /\ J \subseteq S => J = I
    BY <1>7, <1>8, <2>1
  <2>3. I \in Intervals(S)
    BY <2>2 DEF Intervals
  <2>4. QED
    BY <2>1, <2>3
<1>10. QED
  BY <1>7, <1>9

\* Cutting records loses no unit, and adds none.
LEMMA CutsCover ==
    ASSUME NEW X \in SUBSET Records, NEW b \in Bundles,
           \A v \in b.values : \E r \in Spendable(X) : v \subseteq r.value,
           \A r \in X : ~IsPieceOf(r, b),
           NEW Y, Y = RecordsWithPending(X, b)
    PROVE  /\ UnitsOf(Active(Y)) = UnitsOf(Active(X))
           /\ \A q \in Y : q.status = "archived" <=> q \in X /\ q.status = "archived"
           /\ \A q \in X : q.status = "archived" => q \in Y
<1>1. /\ Touched(X, b) \subseteq Spendable(X) /\ Touched(X, b) \subseteq X
      /\ \A r \in Touched(X, b) : \A v \in PiecesOf(X, r, b) :
            v \in Ranges /\ v \subseteq r.value /\ r \in Records
  BY PiecesInside DEF Spendable
<1>2. Y = (X \ Touched(X, b)) \cup
          UNION {{Piece(r, v, b) : v \in PiecesOf(X, r, b)} : r \in Touched(X, b)}
  BY PendingRecords
<1>3. \A q \in Y : IsPieceOf(q, b) =>
         q.status = "pending" /\ \E r \in Spendable(X) : q.value \subseteq r.value
  BY Cuts
<1>4. \A q \in Y : IsPieceOf(q, b) \/ q \in X \ Touched(X, b)
  BY Cuts
<1>5. \A q \in X : q.status = "archived" => q \in Y
  BY <1>1, <1>2 DEF Spendable
<1>6. \A q \in Y : q.status = "archived" => q \in X
  BY <1>3, <1>4
<1>7. ASSUME NEW q \in Active(Y)
      PROVE  \E r \in Active(X) : q.value \subseteq r.value
  <2>1. q \in Y /\ q.status # "archived"
    BY DEF Active
  <2>2. CASE IsPieceOf(q, b)
    BY <1>3, <2>1, <2>2 DEF Active, Spendable
  <2>3. CASE ~IsPieceOf(q, b)
    BY <1>4, <2>1, <2>3 DEF Active
  <2>4. QED
    BY <2>2, <2>3
<1>8. ASSUME NEW r \in Active(X), NEW x \in r.value
      PROVE  \E q \in Active(Y) : x \in q.value
  <2>1. r \in X /\ r.status # "archived" /\ r \in Records
    BY DEF Active
  <2>2. CASE r \notin Touched(X, b)
    BY <1>2, <2>1, <2>2 DEF Active
  <2>3. CASE r \in Touched(X, b)
    <3> DEFINE targets == {w \in b.values : SourceOf(X, w) = r}
               rest == r.value \ UNION targets
    <3>1. PiecesOf(X, r, b) = targets \cup Intervals(rest)
      BY DEF PiecesOf, Partition
    <3>2. r.value \subseteq Units
      BY <2>1, RangeFacts DEF Records
    <3>3. rest \in SUBSET Units /\ (x \in rest \/ \E v \in targets : x \in v)
      BY <3>2
    <3> HIDE DEF targets, rest
    <3>4. PICK v \in PiecesOf(X, r, b) : x \in v
      BY <3>1, <3>3, IntervalsCover
    <3>5. Piece(r, v, b) \in Y
      BY <1>2, <2>3, <3>4
    <3>6. Piece(r, v, b).value = v /\ Piece(r, v, b).status = "pending"
      BY <1>1, <2>1, <2>3, PieceFacts
    <3>7. QED
      BY <3>4, <3>5, <3>6 DEF Active
  <2>4. QED
    BY <2>2, <2>3
<1>9. UnitsOf(Active(Y)) = UnitsOf(Active(X))
  BY <1>7, <1>8 DEF UnitsOf
<1>10. QED
  BY <1>5, <1>6, <1>9

\* Packages are made of archived records.
LEMMA SamePackages ==
    ASSUME NEW X, NEW Y, NEW u,
           \A q : q \in Y /\ q.status = "archived" <=> q \in X /\ q.status = "archived"
    PROVE  PackagesOf(Y, u) = PackagesOf(X, u)
<1> DEFINE Z(S) == {x \in S : /\ x.status = "archived"
                              /\ x.value \in u.bundle.values
                              /\ x.chain # <<>> /\ Head(x.chain) = u}
<1>1. Z(Y) = Z(X)
  OBVIOUS
<1>2. /\ PackagesOf(Y, u) = {[bundle |-> u.bundle, value |-> r.value, acquired |-> r.acquired, chain |-> r.chain] : r \in Z(Y)}
      /\ PackagesOf(X, u) = {[bundle |-> u.bundle, value |-> r.value, acquired |-> r.acquired, chain |-> r.chain] : r \in Z(X)}
  BY DEF PackagesOf
<1>3. QED
  BY <1>1, <1>2

\* What the wallet of a keeps when it builds, loses sight of or confirms a bundle.
Keeps(s, t) == t.accepted = s.accepted /\ \A u : PackagesOf(t.records, u) = PackagesOf(s.records, u)

\* The bundle b that a builds after n others, and its wallet t then.
NextBundle(s, a, n, to, values, b) ==
    b = [sender |-> a, n |-> n + 1, seq |-> NextSequence(s), to |-> to, values |-> values]

Books(s, b, t) == t = [s EXCEPT !.pending = {b}, !.records = RecordsWithPending(s.records, b)]

LEMMA GoodBuilt ==
    ASSUME NEW a \in Accounts, NEW n, NEW C, NEW k, NEW W, NEW h,
           NEW s, Good(s, a, n, C, k, W, h), Chained(a, C, k, h), s.pending = {},
           NEW to \in Accounts \ {a}, NEW values \in Selections(s.records),
           NEW b, NextBundle(s, a, n, to, values, b), NEW t, Books(s, b, t)
    PROVE  /\ b \in Bundles /\ b.seq = k + 1 /\ \A u \in C : u.bundle # b
           /\ Good(t, a, n + 1, C, k, W, h) /\ Keeps(s, t)
<1>1. PICK X, Y : X = s.records /\ Y = RecordsWithPending(X, b)
  OBVIOUS
<1>2. s \in Stores /\ n \in Nat /\ X \in SUBSET Records
  BY <1>1 DEF Good, Stores
<1>3. k = n /\ s.receipts = C /\ s.confirmed = C
  BY DEF Good, Lined
<1>4. NextSequence(s) = n + 1
  <2>1. ReceiptSeqs(s) = 1..k
    BY <1>3 DEF ReceiptSeqs, Chained
  <2>2. QED
    BY <1>2, <1>3, <2>1, NextSequenceFollows
<1>5. /\ values \subseteq Ranges
      /\ \A v \in values : \E r \in Spendable(X) : v \subseteq r.value
      /\ Apart(Spendable(X)) => Clean(values)
  BY <1>1, <1>2, SelectionFacts
<1>6. /\ b \in Bundles /\ b.sender = a /\ b.to = to /\ b.n = n + 1 /\ b.seq = n + 1 /\ b.values = values
  BY <1>2, <1>4, <1>5 DEF NextBundle, Bundles
<1>7. \A r \in X : ~IsPieceOf(r, b)
  BY <1>1, <1>2, <1>6 DEF Good, Locks, IsPieceOf, Records
<1>8. \A u \in C : u.bundle.n \in 1..n
  BY <1>3 DEF Chained
<1>9. \A u \in C : u.bundle # b /\ u.bundle.n # b.n
  BY <1>2, <1>6, <1>8
<1>10. \A v \in b.values : \E r \in Spendable(X) : v \subseteq r.value
  BY <1>5, <1>6
<1>11. /\ t.pending = {b} /\ t.records = Y /\ t.receipts = C /\ t.confirmed = C
       /\ t.accepted = s.accepted
  BY <1>1, <1>2, <1>3 DEF Books, Stores
<1>12. Y \in SUBSET Records
  BY <1>1, <1>2, <1>6, <1>10, PendingRecordsType
<1>13. t \in Stores
  BY <1>1, <1>2, <1>6, <1>12 DEF Books, Stores
<1>14. /\ \A v \in b.values : \E q \in Y : IsPieceOf(q, b) /\ q.value = v
       /\ \A q \in Y : IsPieceOf(q, b) => q.status = "pending"
       /\ \A q \in Y : IsPieceOf(q, b) \/ q \in X
  <2>1. X \in SUBSET Records /\ b \in Bundles
    BY <1>2, <1>6
  <2>2. Y = RecordsWithPending(X, b)
    BY <1>1
  <2>3. QED
    BY <1>7, <1>10, <2>1, <2>2, Cuts
<1>15. \A r \in X : r.status \notin {"pending", "missing"}
  BY <1>1 DEF Good, Locks
<1>16. Lined(t, a, n + 1, C, k)
  BY <1>3, <1>6, <1>9, <1>11 DEF Lined
<1>17. Locks(t, a, n + 1)
  <2>1. ASSUME NEW r \in Y, r.by = a
        PROVE  r.n <= n + 1
    <3>1. CASE IsPieceOf(r, b)
      BY <1>2, <1>6, <3>1 DEF IsPieceOf
    <3>2. CASE r \in X
      BY <1>1, <1>2, <2>1, <3>2 DEF Good, Locks, Records
    <3>3. QED
      BY <1>14, <3>1, <3>2
  <2>2. \A r \in Y : r.status \in {"pending", "missing"} => IsPieceOf(r, b)
    BY <1>14, <1>15
  <2>3. Split(Y, b) /\ Locked(Y, b)
    BY <1>14 DEF Split, Locked
  <2>4. QED
    BY <1>11, <2>1, <2>2, <2>3 DEF Locks
<1>18. /\ UnitsOf(Active(Y)) = UnitsOf(Active(X))
       /\ \A q \in Y : q.status = "archived" <=> q \in X /\ q.status = "archived"
       /\ \A q \in X : q.status = "archived" => q \in Y
  <2>1. X \in SUBSET Records /\ b \in Bundles
    BY <1>2, <1>6
  <2>2. Y = RecordsWithPending(X, b)
    BY <1>1
  <2>3. QED
    BY <1>7, <1>10, <2>1, <2>2, CutsCover
<1>19. Money(t, C, W)
  <2>1. Apart(Active(X)) /\ UnitsOf(Active(X) \ Paid(X, Due(s, C))) = W
    BY <1>1 DEF Good, Money
  <2>2. Due(s, C) = {} /\ Due(t, C) = {}
    BY <1>9, <1>11 DEF Due
  <2>3. Paid(X, {}) = {} /\ Paid(Y, {}) = {}
    BY DEF Paid
  <2>4. UnitsOf(Active(X)) = W
    BY <2>1, <2>2, <2>3
  <2>5. Apart(Spendable(X))
    BY <2>1 DEF Apart, Spendable, Active
  <2>6. Clean(b.values)
    BY <1>5, <1>6, <2>5
  <2>7. Apart({q \in Y : IsPieceOf(q, b) \/ q.status = "spendable"})
    BY <1>1, <1>2, <1>6, <1>7, <1>10, <2>5, <2>6, Cutting
  <2>8. \A q \in Active(Y) : q \in Y /\ (IsPieceOf(q, b) \/ q.status = "spendable")
    <3>1. ASSUME NEW q \in Active(Y), q \in X
          PROVE  q.status = "spendable"
      BY <1>2, <1>15, <3>1 DEF Active, Records, Statuses
    <3>2. QED
      BY <1>14, <3>1 DEF Active
  <2>9. Apart(Active(Y))
    BY <2>7, <2>8 DEF Apart
  <2>10. UnitsOf(Active(Y) \ Paid(Y, Due(t, C))) = W
    BY <1>18, <2>2, <2>3, <2>4
  <2>11. QED
    BY <1>11, <2>9, <2>10 DEF Money
<1>20. \A u : PackagesOf(Y, u) = PackagesOf(X, u)
  BY <1>18, SamePackages
<1>21. \A u \in t.confirmed : Delivers(Y, u)
  <2>1. \A u \in C : Delivers(X, u)
    BY <1>1, <1>3 DEF Good
  <2>2. QED
    BY <1>11, <1>20, <2>1 DEF Delivers
<1>22. Witnessed(Y, C, Stored(t, n + 1), h)
  <2>1. Stored(t, n + 1) = n /\ Stored(s, n) = n
    BY <1>2, <1>11 DEF Stored
  <2>2. Witnessed(X, C, n, h)
    BY <1>1, <2>1 DEF Good
  <2>3. \A u \in C : u.bundle.sender # b.sender \/ u.bundle.n # b.n
    BY <1>9
  <2>4. Witnessed(Y, C, n, h)
    BY <1>1, <1>2, <1>6, <1>7, <1>10, <2>2, <2>3, WitnessedCut
  <2>5. QED
    BY <2>1, <2>4
<1>23. Good(t, a, n + 1, C, k, W, h)
  BY <1>2, <1>11, <1>13, <1>16, <1>17, <1>19, <1>21, <1>22 DEF Good
<1>24. QED
  BY <1>1, <1>3, <1>6, <1>9, <1>11, <1>20, <1>23 DEF Keeps

-----------------------------------------------------------------------------
(* Marking a receipt missing *)

\* Records that are rewritten with their values are of the same units.
LEMMA Rewritten ==
    ASSUME NEW Z, NEW f, \A r \in Z : f[r].value = r.value, NEW A, A = {f[r] : r \in Z}
    PROVE  UnitsOf(A) = UnitsOf(Z) /\ (Apart(Z) => Apart(A))
<1>1. UnitsOf(A) = UnitsOf(Z)
  BY DEF UnitsOf
<1>2. ASSUME Apart(Z), NEW p \in A, NEW q \in A, p # q
      PROVE  p.value \cap q.value = {}
  <2>1. PICK r \in Z : p = f[r]
    OBVIOUS
  <2>2. PICK z \in Z : q = f[z]
    OBVIOUS
  <2>3. r # z
    BY <1>2, <2>1, <2>2
  <2>4. QED
    BY <1>2, <2>1, <2>2, <2>3 DEF Apart
<1>3. QED
  BY <1>1, <1>2 DEF Apart

LEMMA GoodMarked ==
    ASSUME NEW a \in Accounts, NEW n, NEW C, NEW k, NEW W, NEW h,
           NEW s, Good(s, a, n, C, k, W, h), NEW b \in s.pending,
           NEW t, t = [s EXCEPT !.records = RecordsWithMissing(s.records, b)]
    PROVE  Good(t, a, n, C, k, W, h) /\ Keeps(s, t) /\ t.pending = s.pending
<1>1. PICK X, Y : X = s.records /\ Y = RecordsWithMissing(X, b)
  OBVIOUS
<1>2. s \in Stores /\ n \in Nat /\ X \in SUBSET Records
  BY <1>1 DEF Good, Stores
<1> DEFINE f == [r \in X |-> IF IsPieceOf(r, b) /\ r.status = "pending"
                             THEN [r EXCEPT !.status = "missing"] ELSE r]
<1>3. Y = {f[r] : r \in X}
  BY <1>1 DEF RecordsWithMissing
<1>4. \A r \in X : /\ f[r] \in Records /\ SamePiece(f[r], r) /\ f[r].chain = r.chain
                   /\ \/ f[r] = r
                      \/ r.status = "pending" /\ f[r].status = "missing" /\ IsPieceOf(r, b)
  BY <1>2 DEF Records, Statuses, SamePiece
<1> HIDE DEF f
<1>5. /\ t.records = Y /\ t.pending = s.pending /\ t.receipts = s.receipts
      /\ t.confirmed = s.confirmed /\ t.accepted = s.accepted
  BY <1>1, <1>2 DEF Stores
<1>6. t \in Stores
  <2>1. Y \in SUBSET Records
    BY <1>3, <1>4
  <2>2. QED
    BY <1>1, <1>2, <2>1 DEF Stores
<1>7. Lined(t, a, n, C, k)
  BY <1>5 DEF Good, Lined
<1>8. Locks(t, a, n)
  <2>1. /\ \A r \in X : r.by = a => r.n <= n
        /\ \A r \in X : r.status \in {"pending", "missing"} => \E d \in s.pending : IsPieceOf(r, d)
        /\ \A d \in s.pending : Split(X, d) /\ Locked(X, d)
    BY <1>1 DEF Good, Locks
  <2>2. \A q \in Y : q.by = a => q.n <= n
    BY <1>3, <1>4, <2>1 DEF SamePiece
  <2>3. \A q \in Y : q.status \in {"pending", "missing"} => \E d \in s.pending : IsPieceOf(q, d)
    BY <1>3, <1>4, <2>1 DEF SamePiece, IsPieceOf
  <2>4. ASSUME NEW d \in s.pending
        PROVE  Split(Y, d) /\ Locked(Y, d)
    <3>1. Split(X, d) /\ Locked(X, d)
      BY <2>1
    <3>2. Split(Y, d)
      BY <1>3, <1>4, <3>1 DEF Split, SamePiece, IsPieceOf
    <3>3. Locked(Y, d)
      BY <1>3, <1>4, <3>1 DEF Locked, SamePiece, IsPieceOf
    <3>4. QED
      BY <3>2, <3>3
  <2>5. QED
    BY <1>5, <2>2, <2>3, <2>4 DEF Locks
<1>9. Money(t, C, W)
  <2>1. PICK S : S = Due(s, C) /\ S = Due(t, C)
    BY <1>5 DEF Due
  <2>2. Apart(Active(X)) /\ UnitsOf(Active(X) \ Paid(X, S)) = W
    BY <1>1, <2>1 DEF Good, Money
  <2>3. Active(Y) = {f[r] : r \in Active(X)}
    BY <1>3, <1>4 DEF Active
  <2>4. \A r \in X : f[r] \in Paid(Y, S) <=> r \in Paid(X, S)
    BY <1>3, <1>4 DEF Paid, SamePiece, IsPieceOf
  <2>5. Active(Y) \ Paid(Y, S) = {f[r] : r \in Active(X) \ Paid(X, S)}
    <3>1. Active(X) \subseteq X
      BY DEF Active
    <3>2. QED
      BY <2>3, <2>4, <3>1
  <2>6. \A r \in Active(X) : f[r].value = r.value
    BY <1>4 DEF Active, SamePiece
  <2>7. Apart(Active(Y))
    BY <2>2, <2>3, <2>6, Rewritten
  <2>8. UnitsOf(Active(Y) \ Paid(Y, S)) = UnitsOf(Active(X) \ Paid(X, S))
    <3>1. \A r \in Active(X) \ Paid(X, S) : f[r].value = r.value
      BY <2>6
    <3>2. QED
      BY <2>5, <3>1, Rewritten
  <2>9. QED
    BY <1>5, <2>1, <2>2, <2>7, <2>8 DEF Money
<1>10. \A q : q \in Y /\ q.status = "archived" <=> q \in X /\ q.status = "archived"
  BY <1>3, <1>4
<1>11. \A u : PackagesOf(Y, u) = PackagesOf(X, u)
  BY <1>10, SamePackages
<1>12. \A u \in t.confirmed : Delivers(Y, u)
  BY <1>1, <1>5, <1>11 DEF Good, Delivers
<1>13. Witnessed(Y, C, Stored(t, n), h)
  <2>1. PICK m : m = Stored(s, n) /\ m = Stored(t, n)
    BY <1>5 DEF Stored
  <2>2. Witnessed(X, C, m, h)
    BY <1>1, <2>1 DEF Good
  <2>3. \A q \in Y : \E r \in X : /\ SamePiece(q, r) /\ q.chain = r.chain
                                  /\ r.status = "archived" => q.status = "archived"
    BY <1>3, <1>4
  <2>4. Witnessed(Y, C, m, h)
    BY <2>2, <2>3, WitnessedMarked
  <2>5. QED
    BY <2>1, <2>4
<1>14. QED
  BY <1>1, <1>2, <1>5, <1>6, <1>7, <1>8, <1>9, <1>11, <1>12, <1>13 DEF Good, Keeps

-----------------------------------------------------------------------------
(* Applying a receipt *)

\* The wallet t after the receipt u.
Receipted(s, u, t) ==
    t = [s EXCEPT !.receipts = {w \in @ : w.bundle.seq # u.bundle.seq} \cup {u},
                  !.confirmed = @ \cup {u},
                  !.pending = {x \in @ : x.seq # u.bundle.seq},
                  !.records = RecordsConfirmed(s.records, u)]

\* It can deliver what s can.
Moves(s, t) ==
    /\ t.accepted = s.accepted /\ s.confirmed \subseteq t.confirmed
    /\ \A w \in s.confirmed : PackagesOf(t.records, w) = PackagesOf(s.records, w)

LEMMA GoodConfirmed ==
    ASSUME NEW a \in Accounts, NEW n, NEW C, NEW k, NEW W, NEW h,
           NEW s, Good(s, a, n, C, k, W, h), Chained(a, C, k, h), NEW u \in C, u.bundle \in s.pending,
           NEW t, Receipted(s, u, t)
    PROVE  Good(t, a, n, C, k, W, h) /\ Moves(s, t) /\ t.pending = {}
<1>1. PICK X, Y, b : X = s.records /\ Y = RecordsConfirmed(X, u) /\ b = u.bundle
  OBVIOUS
<1>2. /\ s \in Stores /\ n \in Nat /\ X \in SUBSET Records /\ u \in ConfirmedUnits
      /\ C \in SUBSET ConfirmedUnits /\ b \in Bundles
  BY <1>1 DEF Good, Stores, Chained
<1>3. s.pending = {b} /\ b.n = n /\ b.seq = n /\ n = k /\ b.sender = a /\ n \in Nat \ {0}
  <2>1. b \in s.pending
    BY <1>1
  <2>2. b.n = n /\ b.seq = n /\ b.sender = a /\ \A c \in s.pending : b = c
    BY <2>1 DEF Good, Lined
  <2>3. n = k
    BY <1>1, <2>1 DEF Good, Lined
  <2>4. QED
    BY <1>2, <2>1, <2>2, <2>3 DEF Bundles
<1>4. \A w \in C : w.bundle = b <=> w = u
  BY <1>1 DEF Chained
<1>5. \A w \in C : w.bundle.seq = n <=> w = u
  BY <1>1, <1>3 DEF Chained
<1>6. s.receipts = C \ {u} /\ s.confirmed = C \ {u}
  BY <1>3, <1>4 DEF Good, Lined
<1>7. /\ t.records = Y /\ t.pending = {} /\ t.receipts = C /\ t.confirmed = C
      /\ t.accepted = s.accepted
  <2>1. /\ t.records = Y /\ t.pending = {x \in s.pending : x.seq # b.seq}
        /\ t.receipts = {w \in s.receipts : w.bundle.seq # b.seq} \cup {u}
        /\ t.confirmed = s.confirmed \cup {u} /\ t.accepted = s.accepted
    BY <1>1, <1>2 DEF Stores, Receipted
  <2>2. {w \in s.receipts : w.bundle.seq # b.seq} = C \ {u}
    BY <1>3, <1>5, <1>6
  <2>3. QED
    BY <1>3, <1>6, <2>1, <2>2
<1>8. Stored(s, n) = n - 1 /\ Stored(t, n) = n
  BY <1>3, <1>7 DEF Stored
<1>9. /\ Split(X, b) /\ Locked(X, b)
      /\ \A r \in X : r.status \in {"pending", "missing"} => IsPieceOf(r, b)
      /\ \A r \in X : r.by = a => r.n <= n
  BY <1>1, <1>3 DEF Good, Locks
<1>10. Due(s, C) = {b} /\ Due(t, C) = {}
  BY <1>1, <1>3, <1>7 DEF Due
<1>11. Apart(Active(X)) /\ UnitsOf(Active(X) \ Paid(X, {b})) = W
  BY <1>1, <1>10 DEF Good, Money
<1>12. Apart(Live(X, {b}))
  BY <1>11 DEF Apart, Live, Active
<1>13. Witnessed(X, C, n - 1, h)
  BY <1>1, <1>8 DEF Good
<1>14. /\ Witnessed(Y, C, n, h)
       /\ \A p \in PackagesOf(Y, u) : Valid(p) /\ p.chain[1] = u
  <2>1. PICK m \in Nat : m = n - 1 /\ u.bundle.seq = m + 1 /\ n = m + 1
    BY <1>1, <1>3
  <2>2. \A v, w \in C : v.bundle.seq < w.bundle.seq => v.height < w.height
    BY DEF Chained
  <2>3. Witnessed(X, C, m, h)
    BY <1>13, <2>1
  <2>4. \A r \in X : r.status \in {"pending", "missing"} => IsPieceOf(r, b)
    BY <1>9
  <2>5. Split(X, b) /\ Locked(X, b)
    BY <1>9
  <2>6. X \in SUBSET Records /\ C \in SUBSET ConfirmedUnits /\ Y = RecordsConfirmed(X, u)
    BY <1>1, <1>2
  <2>7. Ripe(X, C, m, h, u, b)
    BY <1>1, <1>12, <2>1, <2>2, <2>3, <2>4, <2>5, <2>6 DEF Ripe
  <2>8. Witnessed(Y, C, m + 1, h) /\ \A p \in PackagesOf(Y, u) : Valid(p) /\ p.chain[1] = u
    BY <2>6, <2>7, WitnessedConfirmed
  <2>9. QED
    BY <2>1, <2>8
<1> DEFINE f == [r \in X |-> ConfirmedRecord(r, u)]
<1>15. Y = {f[r] : r \in X}
  BY <1>1 DEF RecordsConfirmed
<1>16. \A r \in X : /\ f[r] \in Records /\ SamePiece(f[r], r)
                    /\ \/ f[r] = r /\ r.status = "archived"
                       \/ f[r] = r /\ ~IsPieceOf(r, b) /\ r.status = "spendable"
                       \/ /\ r.status # "archived" /\ f[r].chain = <<u>> \o r.chain
                          /\ \/ IsPieceOf(r, b) /\ r.value \in b.values /\ f[r].status = "archived"
                             \/ IsPieceOf(r, b) /\ r.value \notin b.values /\ f[r].status = "spendable"
                             \/ ~IsPieceOf(r, b) /\ f[r].status = "spendable"
  <2>1. SUFFICES ASSUME NEW r \in X
                 PROVE  /\ f[r] \in Records /\ SamePiece(f[r], r)
                        /\ \/ f[r] = r /\ r.status = "archived"
                           \/ f[r] = r /\ ~IsPieceOf(r, b) /\ r.status = "spendable"
                           \/ /\ r.status # "archived" /\ f[r].chain = <<u>> \o r.chain
                              /\ \/ IsPieceOf(r, b) /\ r.value \in b.values /\ f[r].status = "archived"
                                 \/ IsPieceOf(r, b) /\ r.value \notin b.values /\ f[r].status = "spendable"
                                 \/ ~IsPieceOf(r, b) /\ f[r].status = "spendable"
    OBVIOUS
  <2>2. r \in Records /\ f[r] = ConfirmedRecord(r, u)
    BY <1>2
  <2> HIDE DEF f
  <2>3. /\ f[r] \in Records /\ SamePiece(f[r], r)
        /\ \/ f[r] = r /\ r.status = "archived"
           \/ f[r] = r /\ ~IsPieceOf(r, b) /\ (r.status = "pending" \/ r.acquired >= u.height)
           \/ /\ r.status # "archived" /\ f[r].chain = <<u>> \o r.chain
              /\ \/ IsPieceOf(r, b) /\ r.value \in b.values /\ f[r].status = "archived"
                 \/ IsPieceOf(r, b) /\ r.value \notin b.values /\ f[r].status = "spendable"
                 \/ ~IsPieceOf(r, b) /\ f[r].status = "spendable"
    BY <1>1, <1>2, <2>2, ConfirmedOne
  <2>4. ~IsPieceOf(r, b) => r.status \in {"spendable", "archived"}
    BY <1>9, <2>2 DEF Records, Statuses
  <2>5. QED
    BY <2>3, <2>4
<1> HIDE DEF f
<1>17. t \in Stores
  <2>1. Y \in SUBSET Records
    BY <1>15, <1>16
  <2>2. s.accepted \in SUBSET Packages
    BY <1>2 DEF Stores
  <2>3. DOMAIN t = {"records", "pending", "receipts", "confirmed", "accepted"} /\ t = [s EXCEPT !.receipts = C, !.confirmed = C, !.pending = {}, !.records = Y]
    BY <1>1, <1>2, <1>7 DEF Stores, Receipted
  <2>4. QED
    BY <1>2, <2>1, <2>3 DEF Stores
<1>18. Lined(t, a, n, C, k)
  BY <1>3, <1>7 DEF Lined
<1>19. Locks(t, a, n)
  <2>1. \A q \in Y : q.by = a => q.n <= n
    BY <1>9, <1>15, <1>16 DEF SamePiece
  <2>2. \A q \in Y : q.status \notin {"pending", "missing"}
    BY <1>15, <1>16
  <2>3. QED
    BY <1>7, <2>1, <2>2 DEF Locks
<1>20. Money(t, C, W)
  <2>1. Active(Y) = {f[r] : r \in Active(X) \ Paid(X, {b})}
    <3>1. \A r \in X : f[r].status # "archived" <=> r \in Active(X) \ Paid(X, {b})
      BY <1>16 DEF Active, Paid
    <3>2. Active(X) \subseteq X
      BY DEF Active
    <3>3. QED
      BY <1>15, <3>1, <3>2 DEF Active
  <2>2. \A r \in Active(X) \ Paid(X, {b}) : f[r].value = r.value
    BY <1>16 DEF Active, SamePiece
  <2>3. Apart(Active(X) \ Paid(X, {b}))
    BY <1>11 DEF Apart
  <2>4. UnitsOf(Active(Y)) = W /\ Apart(Active(Y))
    <3>1. PICK Z, A : Z = Active(X) \ Paid(X, {b}) /\ A = Active(Y)
      OBVIOUS
    <3>2. A = {f[r] : r \in Z} /\ \A r \in Z : f[r].value = r.value
      BY <2>1, <2>2, <3>1
    <3>3. UnitsOf(A) = UnitsOf(Z) /\ (Apart(Z) => Apart(A))
      BY <3>2, Rewritten
    <3>4. QED
      BY <1>11, <2>3, <3>1, <3>3
  <2>5. Active(Y) \ Paid(Y, Due(t, C)) = Active(Y)
    BY <1>10 DEF Paid
  <2>6. QED
    BY <1>7, <2>4, <2>5 DEF Money
<1>21. ASSUME NEW w \in C \ {u}
       PROVE  PackagesOf(Y, w) = PackagesOf(X, w)
  <2> DEFINE Z(S) == {x \in S : /\ x.status = "archived"
                                /\ x.value \in w.bundle.values
                                /\ x.chain # <<>> /\ Head(x.chain) = w}
  <2>1. \A r \in X : r.chain \in Seq(ConfirmedUnits)
    BY <1>2 DEF Records
  <2>2. \A r \in X : f[r].status = "archived" /\ Head(f[r].chain) = w => f[r] = r
    BY <1>2, <1>16, <2>1, Prepended
  <2>3. \A r \in X : r.status = "archived" => f[r] = r
    BY <1>16
  <2>4. Z(Y) = Z(X)
    BY <1>15, <2>2, <2>3
  <2>5. /\ PackagesOf(Y, w) = {[bundle |-> w.bundle, value |-> r.value, acquired |-> r.acquired, chain |-> r.chain] : r \in Z(Y)}
        /\ PackagesOf(X, w) = {[bundle |-> w.bundle, value |-> r.value, acquired |-> r.acquired, chain |-> r.chain] : r \in Z(X)}
    BY DEF PackagesOf
  <2>6. QED
    BY <2>4, <2>5
<1>22. Delivers(Y, u)
  <2>1. u \notin HeadsOf(X)
    <3>1. SUFFICES ASSUME NEW r \in X, r.chain # <<>>, Head(r.chain) = u
                   PROVE  FALSE
      BY DEF HeadsOf
    <3>2. r.chain \in Seq(ConfirmedUnits)
      BY <1>2 DEF Records
    <3>3. r.chain[1] = u /\ 1 \in 1..Len(r.chain)
      BY <3>1, <3>2
    <3>4. u.bundle.seq \in 1..(n - 1)
      BY <1>13, <3>3 DEF Witnessed, Linked
    <3>5. QED
      BY <1>1, <1>3, <3>4
  <2>2. \A p, q \in PackagesOf(Y, u) : p.value = q.value => p = q
    BY <1>1, <1>2, <1>12, <2>1, PackagesOnce
  <2>3. ASSUME NEW v \in b.values
        PROVE  \E p \in PackagesOf(Y, u) : p.value = v
    <3>1. PICK r \in X : IsPieceOf(r, b) /\ r.value = v
      BY <1>9 DEF Split
    <3>2. r.status # "archived"
      BY <1>9, <3>1 DEF Locked
    <3>3. f[r].status = "archived" /\ f[r].value = v /\ f[r].chain = <<u>> \o r.chain /\ f[r] \in Y
      BY <1>15, <1>16, <3>1, <3>2 DEF SamePiece
    <3>4. f[r].chain # <<>> /\ Head(f[r].chain) = u
      <4>1. r.chain \in Seq(ConfirmedUnits)
        BY <1>2 DEF Records
      <4>2. QED
        BY <1>2, <3>3, <4>1, Prepended
    <3>5. PICK q \in Y : q = f[r]
      BY <3>3
    <3>6. [bundle |-> u.bundle, value |-> q.value, acquired |-> q.acquired, chain |-> q.chain] \in PackagesOf(Y, u)
      BY <1>1, <3>3, <3>4, <3>5 DEF PackagesOf
    <3>7. QED
      BY <3>3, <3>5, <3>6
  <2>4. QED
    BY <1>1, <1>14, <2>2, <2>3 DEF Delivers
<1>23. \A w \in t.confirmed : Delivers(Y, w)
  <2>1. \A w \in C \ {u} : Delivers(X, w)
    BY <1>1, <1>6 DEF Good
  <2>2. \A w \in C \ {u} : Delivers(Y, w)
    BY <1>21, <2>1 DEF Delivers
  <2>3. QED
    BY <1>7, <1>22, <2>2
<1>24. Witnessed(Y, C, Stored(t, n), h)
  BY <1>8, <1>14
<1>25. Good(t, a, n, C, k, W, h)
  BY <1>2, <1>7, <1>17, <1>18, <1>19, <1>20, <1>23, <1>24 DEF Good
<1>26. QED
  BY <1>1, <1>6, <1>7, <1>21, <1>25 DEF Moves

-----------------------------------------------------------------------------
(* All transactions of an operation *)

\* The stores f that the writes ws to the store s go through.
Steps(f, s, ws, n) == f = [i \in 0..n |-> IF i = 0 THEN s ELSE Apply(f[i - 1], ws[i])]

LEMMA DoneSteps ==
    ASSUME NEW s, NEW ws, NEW n \in Nat, n = Len(ws),
           NEW f, Steps(f, s, ws, n), \A g : Steps(g, s, ws, n) => g = f
    PROVE  Done(s, ws) = f[n]
<1>1. (CHOOSE g : g = [i \in 0..n |-> IF i = 0 THEN s ELSE Apply(g[i - 1], ws[i])]) = f
  BY DEF Steps
<1>2. QED
  BY <1>1 DEF Done

LEMMA DoneOne ==
    ASSUME NEW s, NEW w
    PROVE  Done(s, <<w>>) = Apply(s, w)
<1> DEFINE ws == <<w>>
           f == [i \in 0..1 |-> IF i = 0 THEN s ELSE Apply(s, w)]
<1>1. Len(ws) = 1 /\ ws[1] = w
  OBVIOUS
<1>2. f[0] = s /\ f[1] = Apply(s, w)
  OBVIOUS
<1>3. \A i \in 0..1 : i = 0 \/ (i = 1 /\ i - 1 = 0)
  OBVIOUS
<1>4. Steps(f, s, ws, 1)
  BY <1>1, <1>2, <1>3 DEF Steps
<1>5. ASSUME NEW g, Steps(g, s, ws, 1)
      PROVE  g = f
  <2>1. g[0] = s
    BY <1>5 DEF Steps
  <2>2. g[1] = Apply(g[0], ws[1])
    BY <1>3, <1>5 DEF Steps
  <2>3. \A i \in 0..1 : g[i] = f[i]
    BY <1>1, <1>2, <1>3, <2>1, <2>2
  <2>4. DOMAIN g = 0..1 /\ DOMAIN f = 0..1
    BY <1>5 DEF Steps
  <2>5. g = [i \in 0..1 |-> g[i]] /\ f = [i \in 0..1 |-> f[i]]
    BY <1>5 DEF Steps
  <2>6. QED
    BY <2>3, <2>5
<1> HIDE DEF f, ws
<1>6. Done(s, ws) = f[1]
  BY <1>1, <1>4, <1>5, DoneSteps
<1>7. QED
  BY <1>2, <1>6 DEF ws

LEMMA DoneTwo ==
    ASSUME NEW s, NEW v, NEW w
    PROVE  Done(s, <<v, w>>) = Apply(Apply(s, v), w)
<1> DEFINE ws == <<v, w>>
           f == [i \in 0..2 |-> IF i = 0 THEN s ELSE IF i = 1 THEN Apply(s, v)
                                ELSE Apply(Apply(s, v), w)]
<1>1. Len(ws) = 2 /\ ws[1] = v /\ ws[2] = w
  OBVIOUS
<1>2. f[0] = s /\ f[1] = Apply(f[0], ws[1]) /\ f[2] = Apply(f[1], ws[2])
  OBVIOUS
<1>3. \A i \in 0..2 : i = 0 \/ (i = 1 /\ i - 1 = 0) \/ (i = 2 /\ i - 1 = 1)
  OBVIOUS
<1>4. f[2] = Apply(Apply(s, v), w)
  OBVIOUS
<1>5. Steps(f, s, ws, 2)
  <2>1. f = [i \in 0..2 |-> f[i]]
    OBVIOUS
  <2> HIDE DEF f, ws
  <2>2. \A i \in 0..2 : f[i] = IF i = 0 THEN s ELSE Apply(f[i - 1], ws[i])
    BY <1>2, <1>3
  <2>3. QED
    BY <2>1, <2>2 DEF Steps
<1>6. ASSUME NEW g, Steps(g, s, ws, 2)
      PROVE  g = f
  <2>1. g[0] = s
    BY <1>6 DEF Steps
  <2>2. g[1] = Apply(g[0], ws[1]) /\ g[2] = Apply(g[1], ws[2])
    BY <1>3, <1>6 DEF Steps
  <2>3. g = [i \in 0..2 |-> g[i]] /\ f = [i \in 0..2 |-> f[i]]
    BY <1>6 DEF Steps
  <2> HIDE DEF f, ws
  <2>4. \A i \in 0..2 : g[i] = f[i]
    BY <1>2, <1>3, <2>1, <2>2
  <2>5. QED
    BY <2>3, <2>4
<1> HIDE DEF f, ws
<1>7. Done(s, ws) = f[2]
  BY <1>1, <1>5, <1>6, DoneSteps
<1>8. QED
  BY <1>4, <1>7 DEF ws

LEMMA DoneFour ==
    ASSUME NEW s, NEW v, NEW w, NEW x, NEW y
    PROVE  Done(s, <<v, w, x, y>>) = Apply(Apply(Apply(Apply(s, v), w), x), y)
<1> DEFINE ws == <<v, w, x, y>>
           f == [i \in 0..4 |-> IF i = 0 THEN s
                                ELSE IF i = 1 THEN Apply(s, v)
                                ELSE IF i = 2 THEN Apply(Apply(s, v), w)
                                ELSE IF i = 3 THEN Apply(Apply(Apply(s, v), w), x)
                                ELSE Apply(Apply(Apply(Apply(s, v), w), x), y)]
<1>1. Len(ws) = 4 /\ ws[1] = v /\ ws[2] = w /\ ws[3] = x /\ ws[4] = y
  OBVIOUS
<1>2. /\ f[0] = s /\ f[1] = Apply(f[0], ws[1]) /\ f[2] = Apply(f[1], ws[2])
      /\ f[3] = Apply(f[2], ws[3]) /\ f[4] = Apply(f[3], ws[4])
  OBVIOUS
<1>3. \A i \in 0..4 : \/ i = 0 \/ (i = 1 /\ i - 1 = 0) \/ (i = 2 /\ i - 1 = 1)
                      \/ (i = 3 /\ i - 1 = 2) \/ (i = 4 /\ i - 1 = 3)
  OBVIOUS
<1>4. f[4] = Apply(Apply(Apply(Apply(s, v), w), x), y)
  OBVIOUS
<1>5. Steps(f, s, ws, 4)
  <2>1. f = [i \in 0..4 |-> f[i]]
    OBVIOUS
  <2> HIDE DEF f, ws
  <2>2. \A i \in 0..4 : f[i] = IF i = 0 THEN s ELSE Apply(f[i - 1], ws[i])
    BY <1>2, <1>3
  <2>3. QED
    BY <2>1, <2>2 DEF Steps
<1>6. ASSUME NEW g, Steps(g, s, ws, 4)
      PROVE  g = f
  <2>1. g[0] = s
    BY <1>6 DEF Steps
  <2>2. /\ g[1] = Apply(g[0], ws[1]) /\ g[2] = Apply(g[1], ws[2])
        /\ g[3] = Apply(g[2], ws[3]) /\ g[4] = Apply(g[3], ws[4])
    BY <1>3, <1>6 DEF Steps
  <2>3. g = [i \in 0..4 |-> g[i]] /\ f = [i \in 0..4 |-> f[i]]
    BY <1>6 DEF Steps
  <2> HIDE DEF f, ws
  <2>4. \A i \in 0..4 : g[i] = f[i]
    BY <1>2, <1>3, <2>1, <2>2
  <2>5. QED
    BY <2>3, <2>4
<1> HIDE DEF f, ws
<1>7. Done(s, ws) = f[4]
  BY <1>1, <1>5, <1>6, DoneSteps
<1>8. QED
  BY <1>4, <1>7 DEF ws

LEMMA BuildDone ==
    ASSUME NEW s \in Stores, NEW b, s.pending = {}
    PROVE  Done(s, BuildWrites(s, b)) =
              [s EXCEPT !.pending = {b}, !.records = RecordsWithPending(s.records, b)]
<1> DEFINE v == [table |-> "pending", row |-> b]
           w == [table |-> "records", rows |-> RecordsWithPending(s.records, b)]
<1>1. Done(s, <<v, w>>) = Apply(Apply(s, v), w)
  <2> HIDE DEF v, w
  <2>1. QED
    BY DoneTwo
<1>2. PICK t : t = [s EXCEPT !.pending = {b}]
  OBVIOUS
<1>3. Apply(s, v) = t
  BY <1>2 DEF Apply
<1>4. Apply(t, w) = [t EXCEPT !.records = RecordsWithPending(s.records, b)]
  BY DEF Apply
<1>5. BuildWrites(s, b) = <<v, w>>
  BY DEF BuildWrites
<1>6. QED
  BY <1>1, <1>2, <1>3, <1>4, <1>5

LEMMA MissingDone ==
    ASSUME NEW s \in Stores, NEW b
    PROVE  Done(s, MissingWrites(s, b)) = [s EXCEPT !.records = RecordsWithMissing(s.records, b)]
<1> DEFINE w == [table |-> "records", rows |-> RecordsWithMissing(s.records, b)]
<1>1. Done(s, <<w>>) = Apply(s, w)
  <2> HIDE DEF w
  <2>1. QED
    BY DoneOne
<1>2. QED
  BY <1>1 DEF MissingWrites, Apply

LEMMA ConfirmDone ==
    ASSUME NEW s \in Stores, NEW u
    PROVE  Done(s, ConfirmWrites(s, u)) =
              [s EXCEPT !.receipts = {w \in @ : w.bundle.seq # u.bundle.seq} \cup {u},
                        !.confirmed = @ \cup {u},
                        !.pending = {x \in @ : x.seq # u.bundle.seq},
                        !.records = RecordsConfirmed(s.records, u)]
<1> DEFINE v == [table |-> "receipts", row |-> u]
           w == [table |-> "confirmed", row |-> u]
           x == [table |-> "unpending", row |-> u.bundle]
           y == [table |-> "records", rows |-> RecordsConfirmed(s.records, u)]
<1>1. Done(s, <<v, w, x, y>>) = Apply(Apply(Apply(Apply(s, v), w), x), y)
  <2> HIDE DEF v, w, x, y
  <2>1. QED
    BY DoneFour
<1>2. PICK p : p = [s EXCEPT !.receipts = {z \in s.receipts : z.bundle.seq # u.bundle.seq} \cup {u}]
  OBVIOUS
<1>3. Apply(s, v) = p
  BY <1>2 DEF Apply
<1>4. PICK q : q = [p EXCEPT !.confirmed = s.confirmed \cup {u}]
  OBVIOUS
<1>5. p.confirmed = s.confirmed /\ Apply(p, w) = [p EXCEPT !.confirmed = p.confirmed \cup {u}]
  BY <1>2 DEF Apply, Stores
<1>6. PICK r : r = [q EXCEPT !.pending = {z \in s.pending : z.seq # u.bundle.seq}]
  OBVIOUS
<1>7. q.pending = s.pending /\ Apply(q, x) = [q EXCEPT !.pending = {z \in q.pending : z.seq # u.bundle.seq}]
  BY <1>2, <1>4 DEF Apply, Stores
<1>8. Apply(r, y) = [r EXCEPT !.records = RecordsConfirmed(s.records, u)]
  BY DEF Apply
<1>9. ConfirmWrites(s, u) = <<v, w, x, y>>
  BY DEF ConfirmWrites
<1>10. Done(s, ConfirmWrites(s, u)) = [r EXCEPT !.records = RecordsConfirmed(s.records, u)]
  <2> HIDE DEF v, w, x, y
  <2>1. Apply(p, w) = q
    BY <1>4, <1>5
  <2>2. Apply(q, x) = r
    BY <1>6, <1>7
  <2>3. QED
    BY <1>1, <1>3, <1>8, <1>9, <2>1, <2>2
<1>11. QED
  BY <1>2, <1>4, <1>6, <1>10 DEF Stores

LEMMA ReceiveDone ==
    ASSUME NEW s \in Stores, NEW p
    PROVE  Done(s, ReceiveWrites(s, p)) =
              [s EXCEPT !.records = @ \cup {ReceivedRecord(p)}, !.accepted = @ \cup {p}]
<1> DEFINE v == [table |-> "records", rows |-> s.records \cup {ReceivedRecord(p)}]
           w == [table |-> "accepted", row |-> p]
<1>1. Done(s, <<v, w>>) = Apply(Apply(s, v), w)
  <2> HIDE DEF v, w
  <2>1. QED
    BY DoneTwo
<1>2. PICK t : t = [s EXCEPT !.records = s.records \cup {ReceivedRecord(p)}]
  OBVIOUS
<1>3. Apply(s, v) = t
  BY <1>2 DEF Apply
<1>4. t.accepted = s.accepted /\ Apply(t, w) = [t EXCEPT !.accepted = t.accepted \cup {p}]
  BY <1>2 DEF Apply, Stores
<1>5. ReceiveWrites(s, p) = <<v, w>>
  BY DEF ReceiveWrites
<1>6. QED
  BY <1>1, <1>2, <1>3, <1>4, <1>5

-----------------------------------------------------------------------------
(* A block *)

\* What the pending bundle of a wallet spends, when no block has it.
LEMMA PendingSpends ==
    ASSUME NEW a, NEW n, NEW C, NEW k, NEW W, NEW h,
           NEW s, Good(s, a, n, C, k, W, h), NEW b \in s.pending, \A u \in C : u.bundle # b
    PROVE  /\ b \in Bundles /\ b.sender = a /\ b.to # a /\ b.seq = k + 1 /\ b.n = n /\ n = k + 1
           /\ s.pending = {b} /\ Due(s, C) = {}
           /\ UnitsOf(Active(s.records)) = W
           /\ \A v \in b.values : \E r \in Active(s.records) : IsPieceOf(r, b) /\ r.value = v
           /\ Clean(b.values) /\ UNION b.values \subseteq W
<1>1. /\ b \in Bundles /\ b.sender = a /\ b.to # a /\ b.n = n /\ b.seq = n /\ n = k + 1
      /\ s.pending = {b}
  BY DEF Good, Lined, Stores
<1>2. Due(s, C) = {}
  BY <1>1 DEF Due
<1>3. Apart(Active(s.records)) /\ UnitsOf(Active(s.records)) = W
  <2>1. Paid(s.records, {}) = {}
    BY DEF Paid
  <2>2. QED
    BY <1>2, <2>1 DEF Good, Money
<1>4. \A v \in b.values : \E r \in Active(s.records) : IsPieceOf(r, b) /\ r.value = v
  BY DEF Good, Locks, Split, Locked, Active
<1>5. Clean(b.values)
  BY <1>3, <1>4 DEF Clean, Apart
<1>6. UNION b.values \subseteq W
  BY <1>3, <1>4 DEF UnitsOf
<1>7. QED
  BY <1>1, <1>2, <1>3, <1>4, <1>5, <1>6

LEMMA GoodQuiet ==
    ASSUME NEW a, NEW n, NEW C, NEW k, NEW W, NEW h,
           NEW s, Good(s, a, n, C, k, W, h), Chained(a, C, k, h)
    PROVE  Chained(a, C, k, h + 1) /\ Good(s, a, n, C, k, W, h + 1)
<1>1. PICK g : g = h + 1
  OBVIOUS
<1>2. h \in Nat /\ g \in Nat /\ g >= h
  BY <1>1 DEF Chained
<1>3. \A u \in C : u.height \in Nat /\ u.height <= h
  BY DEF Chained, ConfirmedUnits
<1>4. Chained(a, C, k, g)
  <2>1. \A u \in C : u.height <= g
    BY <1>2, <1>3
  <2>2. QED
    BY <1>2, <2>1 DEF Chained
<1>5. PICK X, m : X = s.records /\ m = Stored(s, n)
  OBVIOUS
<1>6. \A r \in X : r.acquired \in Nat
  BY <1>5 DEF Good, Stores, Records
<1>7. Witnessed(X, C, m, h)
  BY <1>5 DEF Good
<1>8. Witnessed(X, C, m, g)
  BY <1>2, <1>6, <1>7, WitnessedMore
<1>9. Good(s, a, n, C, k, W, g)
  BY <1>5, <1>8 DEF Good
<1>10. QED
  BY <1>1, <1>4, <1>9

LEMMA GoodPaid ==
    ASSUME NEW a, NEW n, NEW C, NEW k, NEW W, NEW h,
           NEW s, Good(s, a, n, C, k, W, h), Chained(a, C, k, h), NEW b \in s.pending, \A w \in C : w.bundle # b,
           NEW u, u = [bundle |-> b, height |-> h + 1]
    PROVE  /\ Chained(a, C \cup {u}, k + 1, h + 1)
           /\ Good(s, a, n, C \cup {u}, k + 1, W \ UNION b.values, h + 1)
<1>1. PICK D, X, l, g : D = C \cup {u} /\ X = s.records /\ l = k + 1 /\ g = h + 1
  OBVIOUS
<1>2. /\ b \in Bundles /\ b.sender = a /\ b.to # a /\ b.seq = l /\ b.n = n /\ n = l
      /\ s.pending = {b} /\ Due(s, C) = {} /\ UnitsOf(Active(X)) = W
      /\ \A v \in b.values : \E r \in Active(X) : IsPieceOf(r, b) /\ r.value = v
  BY <1>1, PendingSpends
<1>3. h \in Nat /\ k \in Nat /\ g \in Nat /\ g >= h /\ g > h /\ l \in Nat /\ g \in Nat \ {0}
  BY <1>1 DEF Chained
<1>4. u.bundle = b /\ u.height = g /\ u \in ConfirmedUnits
  BY <1>1, <1>2, <1>3 DEF ConfirmedUnits
<1>5. \A w \in C : w.bundle.seq \in 1..k /\ w.height \in Nat /\ w.height <= h
  BY DEF Chained, ConfirmedUnits
<1>6. u \notin C
  BY <1>4
<1>7. Chained(a, D, l, g)
  <2>1. IsFiniteSet(D) /\ Cardinality(D) = l
    BY <1>1, <1>6, FS_AddElement DEF Chained
  <2>2. {w.bundle.seq : w \in D} = 1..l
    <3>1. {w.bundle.seq : w \in D} = 1..k \cup {l}
      BY <1>1, <1>2, <1>4 DEF Chained
    <3>2. 1..k \cup {l} = 1..l
      BY <1>1, <1>3
    <3>3. QED
      BY <3>1, <3>2
  <2>3. \A v, w \in D : v.bundle.seq = w.bundle.seq => v = w
    <3>1. \A v, w \in C : v.bundle.seq = w.bundle.seq => v = w
      BY DEF Chained
    <3>2. \A w \in C : w.bundle.seq # l
      BY <1>1, <1>3, <1>5
    <3>3. QED
      BY <1>1, <1>2, <1>4, <3>1, <3>2
  <2>4. \A v, w \in D : v.bundle.seq < w.bundle.seq => v.height < w.height
    <3>1. \A v, w \in C : v.bundle.seq < w.bundle.seq => v.height < w.height
      BY DEF Chained
    <3>2. \A w \in C : ~(l < w.bundle.seq) /\ w.height < g
      BY <1>1, <1>3, <1>5
    <3>3. ~(l < l)
      BY <1>3
    <3>4. QED
      BY <1>1, <1>2, <1>4, <3>1, <3>2, <3>3
  <2>5. \A w \in D : /\ w.bundle.sender = a /\ w.bundle.to # a
                     /\ w.bundle.n = w.bundle.seq /\ w.height <= g
    <3>1. \A w \in C : w.height <= g
      BY <1>3, <1>5
    <3>2. u.height <= g
      BY <1>3, <1>4
    <3>3. QED
      BY <1>1, <1>2, <1>4, <3>1, <3>2 DEF Chained
  <2>6. D \in SUBSET ConfirmedUnits
    BY <1>1, <1>4 DEF Chained
  <2>7. QED
    BY <1>3, <2>1, <2>2, <2>3, <2>4, <2>5, <2>6 DEF Chained
<1>8. Lined(s, a, n, D, l)
  <2>1. {w \in D : w.bundle \notin s.pending} = {w \in C : w.bundle \notin s.pending}
    BY <1>1, <1>2, <1>4
  <2>2. s.receipts = {w \in C : w.bundle \notin s.pending} /\ s.confirmed = s.receipts
    BY DEF Good, Lined
  <2>3. \E w \in D : w.bundle = b
    BY <1>1, <1>4
  <2>4. QED
    BY <1>2, <2>1, <2>2, <2>3 DEF Lined
<1>9. Money(s, D, W \ UNION b.values)
  <2>1. Due(s, D) = {b}
    BY <1>1, <1>2, <1>4 DEF Due
  <2>2. Apart(Active(X))
    BY <1>1 DEF Good, Money
  <2>3. PICK A, Q : A = Active(X) /\ Q = Paid(X, {b})
    OBVIOUS
  <2>4. \A r \in A : r \in Q <=> IsPieceOf(r, b) /\ r.value \in b.values
    BY <2>3 DEF Active, Paid
  <2>5. UnitsOf(A \ Q) \subseteq W
    BY <1>2, <2>3 DEF UnitsOf
  <2>6. ASSUME NEW r \in A \ Q, NEW v \in b.values
        PROVE  r.value \cap v = {}
    <3>1. PICK q \in A : IsPieceOf(q, b) /\ q.value = v
      BY <1>2, <2>3
    <3>2. q # r
      BY <2>4, <2>6, <3>1
    <3>3. QED
      BY <2>2, <2>3, <2>6, <3>1, <3>2 DEF Apart
  <2>7. ASSUME NEW x \in W, x \notin UNION b.values
        PROVE  x \in UnitsOf(A \ Q)
    <3>1. PICK r \in A : x \in r.value
      BY <1>2, <2>3 DEF UnitsOf
    <3>2. r \notin Q
      BY <2>4, <2>7, <3>1
    <3>3. QED
      BY <3>1, <3>2 DEF UnitsOf
  <2>8. UnitsOf(A \ Q) = W \ UNION b.values
    BY <2>5, <2>6, <2>7 DEF UnitsOf
  <2>9. QED
    BY <1>1, <2>1, <2>2, <2>3, <2>8 DEF Money
<1>10. Witnessed(X, D, Stored(s, n), g)
  <2>1. PICK m : m = Stored(s, n)
    OBVIOUS
  <2>2. Witnessed(X, C, m, h)
    BY <1>1, <2>1 DEF Good
  <2>3. \A r \in X : r.acquired \in Nat
    BY <1>1 DEF Good, Stores, Records
  <2>4. C \subseteq D /\ \A w \in D : w \in C \/ (w.height > h /\ w.height \in Nat)
    BY <1>1, <1>3, <1>4
  <2>5. Witnessed(X, D, m, g)
    BY <1>3, <2>2, <2>3, <2>4, WitnessedMore
  <2>6. QED
    BY <2>1, <2>5
<1>11. Good(s, a, n, D, l, W \ UNION b.values, g)
  BY <1>1, <1>8, <1>9, <1>10 DEF Good
<1>12. QED
  BY <1>1, <1>7, <1>11

-----------------------------------------------------------------------------
(* A package that comes in *)

TakesIn(s, p, t) == t = [s EXCEPT !.records = @ \cup {ReceivedRecord(p)}, !.accepted = @ \cup {p}]

LEMMA GoodReceived ==
    ASSUME NEW a, NEW n, NEW C, NEW k, NEW W, NEW h,
           NEW s, Good(s, a, n, C, k, W, h), Chained(a, C, k, h),
           NEW p \in Packages, Valid(p), p.bundle.sender # a, Head(p.chain).height <= h,
           p.value \cap W = {}, \A b \in Due(s, C) : \A v \in b.values : v \cap p.value = {},
           NEW t, TakesIn(s, p, t)
    PROVE  /\ Good(t, a, n, C, k, W \cup p.value, h)
           /\ t.pending = s.pending /\ t.confirmed = s.confirmed /\ t.accepted = s.accepted \cup {p}
           /\ \A u : PackagesOf(t.records, u) = PackagesOf(s.records, u)
<1>1. PICK X, Y, q : X = s.records /\ q = ReceivedRecord(p) /\ Y = X \cup {q}
  OBVIOUS
<1>2. /\ q \in Records /\ q.by = p.bundle.sender /\ q.value = p.value /\ q.status = "spendable"
      /\ q.acquired <= h /\ q.chain = <<>>
  BY <1>1, ReceivedType DEF ReceivedRecord
<1>3. /\ t.records = Y /\ t.pending = s.pending /\ t.receipts = s.receipts
      /\ t.confirmed = s.confirmed /\ t.accepted = s.accepted \cup {p} /\ t \in Stores
  <2>1. PICK A : A = s.accepted \cup {p}
    OBVIOUS
  <2>2. t = [s EXCEPT !.records = Y, !.accepted = A]
    BY <1>1, <2>1 DEF Good, Stores, TakesIn
  <2>3. s \in Stores /\ Y \in SUBSET Records /\ A \in SUBSET Packages
    BY <1>1, <1>2, <2>1 DEF Good, Stores
  <2>4. QED
    BY <2>1, <2>2, <2>3 DEF Stores
<1>4. Lined(t, a, n, C, k) /\ Stored(t, n) = Stored(s, n) /\ Due(t, C) = Due(s, C)
  BY <1>3 DEF Good, Lined, Stored, Due
<1>5. \A b \in s.pending : b.sender = a /\ ~IsPieceOf(q, b)
  BY <1>2 DEF Good, Lined, IsPieceOf
<1>6. Locks(t, a, n)
  <2>1. /\ \A r \in X : r.by = a => r.n <= n
        /\ \A r \in X : r.status \in {"pending", "missing"} => \E b \in s.pending : IsPieceOf(r, b)
        /\ \A b \in s.pending : Split(X, b) /\ Locked(X, b)
    BY <1>1 DEF Good, Locks
  <2>2. \A b \in s.pending : Split(Y, b) /\ Locked(Y, b)
    BY <1>1, <1>5, <2>1 DEF Split, Locked
  <2>3. QED
    BY <1>1, <1>2, <1>3, <2>1, <2>2 DEF Locks
<1>7. Money(t, C, W \cup p.value)
  <2>1. PICK A, Q, S : A = Active(X) /\ Q = Paid(X, S) /\ S = Due(s, C)
    OBVIOUS
  <2>2. Apart(A) /\ UnitsOf(A \ Q) = W
    BY <1>1, <2>1 DEF Good, Money
  <2>3. Active(Y) = A \cup {q}
    BY <1>1, <1>2, <2>1 DEF Active
  <2>4. S \subseteq s.pending
    BY <2>1 DEF Due
  <2>5. Paid(Y, S) = Q
    BY <1>1, <1>5, <2>1, <2>4 DEF Paid
  <2>6. ASSUME NEW r \in A
        PROVE  r.value \cap q.value = {}
    <3>1. CASE r \in Q
      BY <1>2, <2>1, <3>1 DEF Paid
    <3>2. CASE r \notin Q
      BY <1>2, <2>2, <2>6, <3>2 DEF UnitsOf
    <3>3. QED
      BY <3>1, <3>2
  <2>7. Apart(A \cup {q})
    BY <2>2, <2>6 DEF Apart
  <2>8. q \notin Q
    BY <1>5, <2>1, <2>4 DEF Paid
  <2>9. UnitsOf((A \cup {q}) \ Q) = W \cup p.value
    <3>1. (A \cup {q}) \ Q = (A \ Q) \cup {q}
      BY <2>8
    <3>2. UnitsOf((A \ Q) \cup {q}) = UnitsOf(A \ Q) \cup q.value
      BY DEF UnitsOf
    <3>3. QED
      BY <1>2, <2>2, <3>1, <3>2
  <2>10. QED
    BY <1>3, <1>4, <2>1, <2>3, <2>5, <2>7, <2>9 DEF Money
<1>8. \A u : PackagesOf(Y, u) = PackagesOf(X, u)
  <2>1. \A r : r \in Y /\ r.status = "archived" <=> r \in X /\ r.status = "archived"
    BY <1>1, <1>2
  <2>2. QED
    BY <2>1, SamePackages
<1>9. \A u \in t.confirmed : Delivers(Y, u)
  BY <1>1, <1>3, <1>8 DEF Good, Delivers
<1>10. Witnessed(Y, C, Stored(t, n), h)
  <2>1. PICK m : m = Stored(s, n)
    OBVIOUS
  <2>2. Witnessed(X, C, m, h)
    BY <1>1, <2>1 DEF Good
  <2>3. \A u \in C : u.bundle.sender # q.by
    BY <1>2 DEF Chained
  <2>4. Witnessed(X \cup {q}, C, m, h)
    BY <1>2, <2>2, <2>3, WitnessedReceived
  <2>5. QED
    BY <1>1, <1>4, <2>1, <2>4
<1>11. n \in Nat
  BY DEF Good
<1>12. Good(t, a, n, C, k, W \cup p.value, h)
  BY <1>3, <1>4, <1>6, <1>7, <1>9, <1>10, <1>11 DEF Good
<1>13. QED
  BY <1>1, <1>3, <1>8, <1>12

-----------------------------------------------------------------------------
(* The node *)

Owned(a) == {x \in P!Allocated : P!OwnerOf(x) = a}

\* The values of a bundle that their receiver has not got yet.
Outstanding(b) ==
    {v \in b.values : ~\E p \in store[b.to].accepted : p.bundle = b /\ p.value = v}

PaidTo(a) == {b \in P!Confirmed : b.to = a}

DueUnits(a) == UNION {UNION Outstanding(b) : b \in PaidTo(a)}

\* What the wallet of a has, if nothing is lost.
Purse(a) == Owned(a) \ DueUnits(a)

WalletOK(a) ==
    /\ Chained(a, P!ReceiptsFor(a), P!ConfirmedSeq(a), Len(blocks))
    /\ Good(store[a], a, built[a], P!ReceiptsFor(a), P!ConfirmedSeq(a), Purse(a), Len(blocks))

Typed ==
    /\ store \in [Accounts -> Stores] /\ built \in [Accounts -> Nat]
    /\ pool \in SUBSET Bundles /\ blocks \in Seq(SUBSET Bundles)

\* The pool holds what wallets have pending and no block has.
PoolState ==
    \A b \in pool : b \in store[b.sender].pending /\ \A u \in P!ReceiptsFor(b.sender) : u.bundle # b

\* What is to be delivered belongs to who gets it, each unit once.
DueState ==
    \A a \in Accounts :
        /\ DueUnits(a) \subseteq Owned(a)
        /\ \A b, d \in PaidTo(a) : \A v \in Outstanding(b), w \in Outstanding(d) :
              b # d \/ v # w => v \cap w = {}

\* What was delivered is what the sender can make.
Deliveries ==
    \A c \in Accounts : \A q \in store[c].accepted :
        q.bundle.to = c /\ q \in Exportable(q.bundle.sender)

Inv == Typed /\ (\A a \in Accounts : WalletOK(a)) /\ PoolState /\ DueState /\ Deliveries

LEMMA SameChain ==
    ASSUME blocks' = blocks
    PROVE  /\ P!Confirmed' = P!Confirmed
           /\ \A c : /\ P!ReceiptsFor(c)' = P!ReceiptsFor(c)
                     /\ P!ConfirmedSeq(c)' = P!ConfirmedSeq(c)
                     /\ Owned(c)' = Owned(c) /\ PaidTo(c)' = PaidTo(c)
<1>1. P!Confirmed' = P!Confirmed
  BY DEF P!Confirmed
<1>2. \A c : P!ReceiptsFor(c)' = P!ReceiptsFor(c)
  BY DEF P!ReceiptsFor
<1>3. \A c : P!ConfirmedSeq(c)' = P!ConfirmedSeq(c)
  BY <1>2 DEF P!ConfirmedSeq
<1>4. \A x : P!OwnerOf(x)' = P!OwnerOf(x)
  BY DEF P!OwnerOf
<1>5. \A c : Owned(c)' = Owned(c)
  BY <1>4 DEF Owned
<1>6. QED
  BY <1>1, <1>2, <1>3, <1>5 DEF PaidTo

\* A bundle in a block is one its sender's receipts are of.
LEMMA ConfirmedHave ==
    ASSUME Typed, NEW b
    PROVE  /\ b \in P!Confirmed => \E u \in P!ReceiptsFor(b.sender) : u.bundle = b
           /\ b \in P!Confirmed => b \in Bundles /\ b.sender \in Accounts /\ b.to \in Accounts
           /\ \A a : \A u \in P!ReceiptsFor(a) : u.bundle \in P!Confirmed /\ u.bundle.sender = a
<1>1. ASSUME b \in P!Confirmed
      PROVE  \E u \in P!ReceiptsFor(b.sender) : u.bundle = b
  <2>1. PICK h \in 1..Len(blocks) : b \in blocks[h]
    BY <1>1 DEF P!Confirmed
  <2>2. [bundle |-> b, height |-> h] \in P!ReceiptsFor(b.sender)
    BY <2>1 DEF P!ReceiptsFor
  <2>3. QED
    BY <2>2
<1>2. ASSUME b \in P!Confirmed
      PROVE  b \in Bundles /\ b.sender \in Accounts /\ b.to \in Accounts
  BY <1>2 DEF Typed, P!Confirmed, Bundles
<1>3. ASSUME NEW a, NEW u \in P!ReceiptsFor(a)
      PROVE  u.bundle \in P!Confirmed /\ u.bundle.sender = a
  BY DEF P!ReceiptsFor, P!Confirmed
<1>4. QED
  BY <1>1, <1>2, <1>3

\* A wallet that keeps what it has received and what it can deliver.
Delivering(c) ==
    /\ store'[c].accepted = store[c].accepted
    /\ store[c].confirmed \subseteq store'[c].confirmed
    /\ \A u \in store[c].confirmed :
          PackagesOf(store'[c].records, u) = PackagesOf(store[c].records, u)

LEMMA StillDelivered ==
    ASSUME Typed, Deliveries, \A c \in Accounts : Delivering(c)
    PROVE  /\ Deliveries'
           /\ \A b : b.to \in Accounts => Outstanding(b)' = Outstanding(b)
<1>1. \A c \in Accounts : Exportable(c) \subseteq Exportable(c)'
  BY DEF Delivering, Exportable
<1>2. ASSUME NEW c \in Accounts, NEW q \in store'[c].accepted
      PROVE  q.bundle.to = c /\ q \in Exportable(q.bundle.sender)'
  <2>1. q \in store[c].accepted
    BY DEF Delivering
  <2>2. q.bundle.to = c /\ q \in Exportable(q.bundle.sender)
    BY <2>1 DEF Deliveries
  <2>3. q.bundle.sender \in Accounts
    BY <2>1 DEF Typed, Stores, Packages, Bundles
  <2>4. QED
    BY <1>1, <2>2, <2>3
<1>3. ASSUME NEW b, b.to \in Accounts
      PROVE  Outstanding(b)' = Outstanding(b)
  BY <1>3 DEF Delivering, Outstanding
<1>4. QED
  BY <1>2, <1>3 DEF Deliveries

\* Without a block, nothing is due or paid anew.
LEMMA StillDue ==
    ASSUME Inv, blocks' = blocks, \A c \in Accounts : Delivering(c)
    PROVE  /\ DueState' /\ Deliveries'
           /\ \A c \in Accounts : Purse(c)' = Purse(c)
<1>1. \A c : Owned(c)' = Owned(c) /\ PaidTo(c)' = PaidTo(c)
  BY SameChain
<1>2. Deliveries' /\ \A b : b.to \in Accounts => Outstanding(b)' = Outstanding(b)
  BY StillDelivered DEF Inv
<1>3. \A c \in Accounts : \A b \in PaidTo(c) : Outstanding(b)' = Outstanding(b)
  BY <1>2 DEF PaidTo
<1>4. \A c \in Accounts : DueUnits(c)' = DueUnits(c)
  BY <1>1, <1>3 DEF DueUnits
<1>5. \A c \in Accounts : Purse(c)' = Purse(c)
  BY <1>1, <1>4 DEF Purse
<1>6. DueState'
  BY <1>1, <1>3, <1>4 DEF DueState, Inv
<1>7. QED
  BY <1>2, <1>5, <1>6

\* One wallet does something of its own.
LEMMA WalletStep ==
    ASSUME Inv, blocks' = blocks, NEW a \in Accounts,
           \A c \in Accounts \ {a} : store'[c] = store[c] /\ built'[c] = built[c],
           Good(store'[a], a, built'[a], P!ReceiptsFor(a), P!ConfirmedSeq(a), Purse(a), Len(blocks)),
           Delivering(a), Typed', PoolState'
    PROVE  Inv'
<1>1. \A c \in Accounts : Delivering(c)
  BY DEF Delivering
<1>2. DueState' /\ Deliveries' /\ \A c \in Accounts : Purse(c)' = Purse(c)
  BY <1>1, StillDue
<1>3. \A c : P!ReceiptsFor(c)' = P!ReceiptsFor(c) /\ P!ConfirmedSeq(c)' = P!ConfirmedSeq(c)
  BY SameChain
<1>4. ASSUME NEW c \in Accounts
      PROVE  WalletOK(c)'
  <2>1. Chained(c, P!ReceiptsFor(c), P!ConfirmedSeq(c), Len(blocks))
    BY DEF Inv, WalletOK
  <2>2. Good(store'[c], c, built'[c], P!ReceiptsFor(c), P!ConfirmedSeq(c), Purse(c), Len(blocks))
    BY DEF Inv, WalletOK
  <2>3. Purse(c)' = Purse(c) /\ P!ReceiptsFor(c)' = P!ReceiptsFor(c) /\ P!ConfirmedSeq(c)' = P!ConfirmedSeq(c)
    BY <1>2, <1>3
  <2>4. QED
    BY <2>1, <2>2, <2>3 DEF WalletOK
<1>5. QED
  BY <1>2, <1>4 DEF Inv

-----------------------------------------------------------------------------
(* The steps of the node *)

LEMMA InvPay ==
    ASSUME Inv, NEW a \in Accounts, NEW to \in Accounts \ {a},
           NEW values \in Selections(store[a].records), SubmitPayment(a, to, values)
    PROVE  Inv'
<1> DEFINE c == [sender |-> a, n |-> built[a] + 1, seq |-> NextSequence(store[a]),
                 to |-> to, values |-> values]
<1>1. PICK s, n, b, t : /\ s = store[a] /\ n = built[a] /\ b = c
                        /\ t = [s EXCEPT !.pending = {b}, !.records = RecordsWithPending(s.records, b)]
  OBVIOUS
<1>2. PICK C, k, W, h : /\ C = P!ReceiptsFor(a) /\ k = P!ConfirmedSeq(a) /\ W = Purse(a)
                        /\ h = Len(blocks)
  OBVIOUS
<1>3. s \in Stores /\ n \in Nat /\ store \in [Accounts -> Stores] /\ built \in [Accounts -> Nat]
  BY <1>1 DEF Inv, Typed
<1>4. Chained(a, C, k, h) /\ Good(s, a, n, C, k, W, h)
  BY <1>1, <1>2 DEF Inv, WalletOK
<1>5. /\ s.pending = {} /\ blocks' = blocks
      /\ built' = [built EXCEPT ![a] = n + 1]
      /\ store' = [store EXCEPT ![a] = Done(s, BuildWrites(s, b))]
      /\ pool' = pool \/ pool' = pool \cup {b}
  BY <1>1 DEF SubmitPayment
<1>6. Done(s, BuildWrites(s, b)) = t
  BY <1>1, <1>3, <1>5, BuildDone
<1>7. store'[a] = t /\ built'[a] = n + 1
  BY <1>3, <1>5, <1>6
<1>8. \A d \in Accounts \ {a} : store'[d] = store[d] /\ built'[d] = built[d]
  BY <1>3, <1>5
<1>9. NextBundle(s, a, n, to, values, b) /\ Books(s, b, t) /\ b.sender = a
  BY <1>1 DEF NextBundle, Books
<1>10. values \in Selections(s.records)
  BY <1>1
<1> HIDE DEF c
<1>11. /\ b \in Bundles /\ \A u \in C : u.bundle # b
       /\ Good(t, a, n + 1, C, k, W, h) /\ Keeps(s, t)
  <2>1. Chained(a, C, k, h)
    BY <1>4
  <2>2. Good(s, a, n, C, k, W, h) /\ s.pending = {}
    BY <1>4, <1>5
  <2>3. NextBundle(s, a, n, to, values, b)
    BY <1>9
  <2>4. Books(s, b, t)
    BY <1>9
  <2>5. QED
    BY <1>10, <2>1, <2>2, <2>3, <2>4, GoodBuilt
<1>12. b.sender = a /\ t.pending = {b} /\ t.confirmed = s.confirmed
  BY <1>1, <1>3, <1>9 DEF Stores
<1>13. Delivering(a)
  BY <1>1, <1>7, <1>11, <1>12 DEF Delivering, Keeps
<1>14. Typed'
  <2>1. t \in Stores /\ n + 1 \in Nat
    BY <1>3, <1>11 DEF Good
  <2>2. pool' \in SUBSET Bundles
    BY <1>5, <1>11 DEF Inv, Typed
  <2>3. store' \in [Accounts -> Stores] /\ built' \in [Accounts -> Nat]
    BY <1>3, <1>5, <1>6, <2>1
  <2>4. QED
    BY <1>5, <2>2, <2>3 DEF Inv, Typed
<1>15. PoolState'
  <2>1. \A e : P!ReceiptsFor(e)' = P!ReceiptsFor(e)
    BY <1>5, SameChain
  <2>2. ASSUME NEW d \in pool
        PROVE  d \in store'[d.sender].pending /\ \A u \in P!ReceiptsFor(d.sender) : u.bundle # d
    <3>1. d \in store[d.sender].pending /\ \A u \in P!ReceiptsFor(d.sender) : u.bundle # d
      BY DEF Inv, PoolState
    <3>2. d.sender \in Accounts \ {a}
      BY <1>1, <1>5, <3>1 DEF Inv, Typed, Bundles
    <3>3. QED
      BY <1>8, <3>1, <3>2
  <2>3. b \in store'[b.sender].pending /\ \A u \in P!ReceiptsFor(b.sender) : u.bundle # b
    BY <1>2, <1>7, <1>11, <1>12
  <2>4. \A d \in pool' : d \in pool \/ d = b
    BY <1>5
  <2>5. QED
    BY <2>1, <2>2, <2>3, <2>4 DEF PoolState
<1>16. Good(store'[a], a, built'[a], P!ReceiptsFor(a), P!ConfirmedSeq(a), Purse(a), Len(blocks))
  BY <1>2, <1>7, <1>11
<1>17. QED
  BY <1>5, <1>8, <1>13, <1>14, <1>15, <1>16, WalletStep

\* Steps that leave the wallets alone.
LEMMA InvQuiet ==
    ASSUME Inv, UNCHANGED <<store, built, blocks>>,
           \A b \in pool' : /\ b \in Bundles /\ b \in store[b.sender].pending
                            /\ \A u \in P!ReceiptsFor(b.sender) : u.bundle # b
    PROVE  Inv'
<1>1. \A c : P!ReceiptsFor(c)' = P!ReceiptsFor(c) /\ P!ConfirmedSeq(c)' = P!ConfirmedSeq(c)
  BY SameChain
<1>2. \A c \in Accounts : Delivering(c)
  BY DEF Delivering
<1>3. DueState' /\ Deliveries' /\ \A c \in Accounts : Purse(c)' = Purse(c)
  BY <1>2, StillDue
<1>4. \A c \in Accounts : WalletOK(c)'
  BY <1>1, <1>3 DEF Inv, WalletOK
<1>5. PoolState'
  BY <1>1 DEF PoolState
<1>6. pool' \in SUBSET Bundles
  OBVIOUS
<1>7. QED
  BY <1>3, <1>4, <1>5, <1>6 DEF Inv, Typed

LEMMA InvPool ==
    ASSUME Inv
    PROVE  \A b \in pool : /\ b \in Bundles /\ b \in store[b.sender].pending
                           /\ \A u \in P!ReceiptsFor(b.sender) : u.bundle # b
BY DEF Inv, Typed, PoolState

LEMMA InvAgain ==
    ASSUME Inv, NEW a \in Accounts, NEW b \in store[a].pending, SubmitAgain(b)
    PROVE  Inv'
<1>1. PICK s, n, C, k, W, h :
          /\ s = store[a] /\ n = built[a] /\ C = P!ReceiptsFor(a) /\ k = P!ConfirmedSeq(a)
          /\ W = Purse(a) /\ h = Len(blocks)
  OBVIOUS
<1>2. Chained(a, C, k, h) /\ Good(s, a, n, C, k, W, h) /\ b \in s.pending
  BY <1>1 DEF Inv, WalletOK
<1>3. b \in Bundles /\ b.sender = a
  BY <1>2 DEF Good, Stores, Lined
<1>4. b.seq = k + 1 /\ pool' = pool \cup {b} /\ UNCHANGED <<store, built, blocks>>
  BY <1>1, <1>3 DEF SubmitAgain, P!Takes
<1>5. \A u \in C : u.bundle # b
  <2>1. k \in Nat /\ \A u \in C : u.bundle.seq \in 1..k
    BY <1>2 DEF Chained
  <2>2. QED
    BY <1>4, <2>1
<1>6. \A c \in pool' : /\ c \in Bundles /\ c \in store[c.sender].pending
                       /\ \A u \in P!ReceiptsFor(c.sender) : u.bundle # c
  <2>1. /\ b \in store[b.sender].pending /\ \A u \in P!ReceiptsFor(b.sender) : u.bundle # b
    BY <1>1, <1>3, <1>5
  <2>2. QED
    BY <1>3, <1>4, <2>1, InvPool
<1>7. QED
  BY <1>4, <1>6, InvQuiet

\* A wallet after a receipt that the node has, wanted or not.
LEMMA GoodAfter ==
    ASSUME NEW a \in Accounts, NEW n, NEW C, NEW k, NEW W, NEW h,
           NEW s, Good(s, a, n, C, k, W, h), Chained(a, C, k, h), NEW u \in C, NEW t, t = Confirmed(s, u)
    PROVE  Good(t, a, n, C, k, W, h) /\ Moves(s, t) /\ (t = s \/ (u.bundle \in s.pending /\ t.pending = {}))
<1>1. CASE AcceptsReceipt(s, u)
  <2>1. u.bundle \in s.pending /\ s \in Stores
    BY <1>1 DEF AcceptsReceipt, Good
  <2>2. Receipted(s, u, t)
    BY <1>1, <2>1, ConfirmDone DEF Confirmed, Receipted
  <2>3. QED
    BY <2>1, <2>2, GoodConfirmed
<1>2. CASE ~AcceptsReceipt(s, u)
  BY <1>2 DEF Confirmed, Moves
<1>3. QED
  BY <1>1, <1>2

LEMMA InvSync ==
    ASSUME Inv, NEW a \in Accounts, SyncWalletReceipts(a)
    PROVE  Inv'
<1>1. PICK s, n, C, k, W, h :
          /\ s = store[a] /\ n = built[a] /\ C = P!ReceiptsFor(a) /\ k = P!ConfirmedSeq(a)
          /\ W = Purse(a) /\ h = Len(blocks)
  OBVIOUS
<1>2. Chained(a, C, k, h) /\ Good(s, a, n, C, k, W, h)
  BY <1>1 DEF Inv, WalletOK
<1>3. s \in Stores /\ n \in Nat /\ store \in [Accounts -> Stores]
  BY <1>1 DEF Inv, Typed
<1>4. UNCHANGED <<built, pool, blocks>>
  BY DEF SyncWalletReceipts
<1>5. PICK b \in s.pending :
         LET known == {u \in C : u.bundle.seq = b.seq /\ Cached(u.height)}
         IN  store' = [store EXCEPT ![a] =
                 IF known = {} THEN Done(s, MissingWrites(s, b))
                 ELSE Confirmed(s, CHOOSE u \in known : TRUE)]
  BY <1>1 DEF SyncWalletReceipts
<1>6. PICK t : t = store'[a]
  OBVIOUS
<1>7. t = Done(s, MissingWrites(s, b)) \/ \E u \in C : t = Confirmed(s, u)
  BY <1>1, <1>3, <1>5, <1>6
<1>8. \A d \in Accounts \ {a} : store'[d] = store[d] /\ built'[d] = built[d]
  BY <1>3, <1>4, <1>5
<1>9. /\ Good(t, a, n, C, k, W, h)
      /\ Moves(s, t)
      /\ \/ t.pending = s.pending
         \/ t.pending = {} /\ \E u \in C : u.bundle \in s.pending
  <2>1. CASE t = Done(s, MissingWrites(s, b))
    <3>1. t = [s EXCEPT !.records = RecordsWithMissing(s.records, b)]
      BY <1>3, <2>1, MissingDone
    <3>2. Good(t, a, n, C, k, W, h) /\ Keeps(s, t) /\ t.pending = s.pending
      BY <1>2, <3>1, GoodMarked
    <3>3. t.confirmed = s.confirmed
      BY <1>3, <3>1 DEF Stores
    <3>4. QED
      BY <3>2, <3>3 DEF Keeps, Moves
  <2>2. CASE \E u \in C : t = Confirmed(s, u)
    <3>1. PICK u \in C : t = Confirmed(s, u)
      BY <2>2
    <3>2. Chained(a, C, k, h)
      BY <1>2
    <3>3. Good(s, a, n, C, k, W, h)
      BY <1>2
    <3>4. u \in C /\ t = Confirmed(s, u)
      BY <3>1
    <3>5. /\ Good(t, a, n, C, k, W, h) /\ Moves(s, t)
          /\ t = s \/ (u.bundle \in s.pending /\ t.pending = {})
      BY <3>2, <3>3, <3>4, GoodAfter
    <3>6. QED
      BY <3>1, <3>5
  <2>3. QED
    BY <1>7, <2>1, <2>2
<1>10. Delivering(a)
  BY <1>1, <1>6, <1>9 DEF Delivering, Moves
<1>11. Typed'
  <2>1. store' = [store EXCEPT ![a] = t]
    BY <1>3, <1>5, <1>6
  <2>2. t \in Stores
    BY <1>9 DEF Good
  <2>3. store' \in [Accounts -> Stores]
    BY <1>3, <2>1, <2>2
  <2>4. QED
    BY <1>4, <2>3 DEF Inv, Typed
<1>12. PoolState'
  <2>1. \A e : P!ReceiptsFor(e)' = P!ReceiptsFor(e)
    BY <1>4, SameChain
  <2>2. ASSUME NEW d \in pool
        PROVE  d \in store'[d.sender].pending
    <3>1. d \in Bundles /\ d \in store[d.sender].pending /\ \A u \in P!ReceiptsFor(d.sender) : u.bundle # d
      BY InvPool
    <3>2. CASE d.sender = a
      <4>1. \A c \in s.pending : c = d
        BY <1>1, <1>2, <3>1, <3>2 DEF Good, Lined
      <4>2. t.pending = s.pending
        BY <1>1, <1>9, <3>1, <3>2, <4>1
      <4>3. QED
        BY <1>1, <1>6, <3>1, <3>2, <4>2
    <3>3. CASE d.sender # a
      BY <1>8, <3>1, <3>3 DEF Bundles
    <3>4. QED
      BY <3>2, <3>3
  <2>3. QED
    BY <1>4, <2>1, <2>2 DEF Inv, PoolState
<1>13. Good(store'[a], a, built'[a], P!ReceiptsFor(a), P!ConfirmedSeq(a), Purse(a), Len(blocks))
  BY <1>1, <1>4, <1>6, <1>9
<1>14. QED
  BY <1>4, <1>8, <1>10, <1>11, <1>12, <1>13, WalletStep

\* Nobody has got anything of a bundle that is pending.
LEMMA PendingOutstanding ==
    ASSUME Inv, NEW a \in Accounts, NEW b \in store[a].pending
    PROVE  b.sender = a /\ b.to \in Accounts /\ b.to # a /\ Outstanding(b) = b.values
<1>1. PICK s, n, C, k, W, h :
          /\ s = store[a] /\ n = built[a] /\ C = P!ReceiptsFor(a) /\ k = P!ConfirmedSeq(a)
          /\ W = Purse(a) /\ h = Len(blocks)
  OBVIOUS
<1>2. Good(s, a, n, C, k, W, h) /\ b \in s.pending
  BY <1>1 DEF Inv, WalletOK
<1>3. b \in Bundles /\ b.sender = a /\ b.to # a /\ b.to \in Accounts
  BY <1>2 DEF Good, Stores, Lined, Bundles
<1>4. \A u \in s.confirmed : u.bundle # b
  BY <1>2 DEF Good, Lined
<1>5. ASSUME NEW p \in store[b.to].accepted, p.bundle = b
      PROVE  FALSE
  <2>1. p \in Exportable(a)
    BY <1>3, <1>5 DEF Inv, Deliveries
  <2>2. PICK u \in store[a].confirmed : p \in PackagesOf(store[a].records, u)
    BY <2>1 DEF Exportable
  <2>3. p.bundle = u.bundle
    BY <2>2 DEF PackagesOf
  <2>4. QED
    BY <1>1, <1>4, <1>5, <2>2, <2>3
<1>6. QED
  BY <1>3, <1>5 DEF Outstanding

\* A package and its bundle.
LEMMA ExportFacts ==
    ASSUME Inv, NEW a \in Accounts, NEW p \in Exportable(a)
    PROVE  \E u \in P!ReceiptsFor(a) :
              /\ u \in store[a].confirmed /\ u.bundle = p.bundle
              /\ u.bundle.sender = a /\ u.bundle.to # a /\ u.bundle.to \in Accounts
              /\ u.bundle \in P!Confirmed
              /\ p \in PackagesOf(store[a].records, u) /\ Delivers(store[a].records, u)
              /\ p \in Packages /\ p.value \in u.bundle.values
              /\ p.chain # <<>> /\ Head(p.chain) = u /\ u.height <= Len(blocks)
<1>1. PICK s, n, C, k, W, h :
          /\ s = store[a] /\ n = built[a] /\ C = P!ReceiptsFor(a) /\ k = P!ConfirmedSeq(a)
          /\ W = Purse(a) /\ h = Len(blocks)
  OBVIOUS
<1>2. Good(s, a, n, C, k, W, h) /\ Chained(a, C, k, h)
  BY <1>1 DEF Inv, WalletOK
<1>3. PICK u \in s.confirmed : p \in PackagesOf(s.records, u)
  BY <1>1 DEF Exportable
<1>4. u \in C /\ Delivers(s.records, u)
  BY <1>2, <1>3 DEF Good, Lined
<1>5. u \in ConfirmedUnits /\ u.bundle.sender = a /\ u.bundle.to # a /\ u.height <= h
  BY <1>2, <1>4 DEF Chained
<1>6. s.records \in SUBSET Records
  BY <1>2 DEF Good, Stores
<1>7. p \in Packages
  BY <1>3, <1>5, <1>6, PackagesType
<1>8. p.bundle = u.bundle /\ p.value \in u.bundle.values /\ p.chain # <<>> /\ Head(p.chain) = u
  BY <1>3 DEF PackagesOf
<1>9. u.bundle \in P!Confirmed
  BY <1>1, <1>4, ConfirmedHave DEF Inv
<1>10. u.bundle.to \in Accounts
  BY <1>5 DEF ConfirmedUnits, Bundles
<1>11. QED
  BY <1>1, <1>3, <1>4, <1>5, <1>7, <1>8, <1>9, <1>10

\* One package for a value of a bundle.
LEMMA OneExport ==
    ASSUME Inv, NEW a \in Accounts, NEW p \in Exportable(a), NEW q \in Exportable(a),
           p.bundle = q.bundle, p.value = q.value
    PROVE  p = q
<1>1. PICK u \in P!ReceiptsFor(a) : u.bundle = p.bundle /\ p \in PackagesOf(store[a].records, u)
                                    /\ Delivers(store[a].records, u)
  BY ExportFacts
<1>2. PICK w \in P!ReceiptsFor(a) : w.bundle = q.bundle /\ q \in PackagesOf(store[a].records, w)
  BY ExportFacts
<1>3. \A v, x \in P!ReceiptsFor(a) : v.bundle.seq = x.bundle.seq => v = x
  BY DEF Inv, WalletOK, Chained
<1>4. u = w
  BY <1>1, <1>2, <1>3
<1>5. QED
  BY <1>1, <1>2, <1>4 DEF Delivers

LEMMA InvDeliver ==
    ASSUME Inv, NEW a \in Accounts, NEW p \in Exportable(a), DeliverTransferPackage(a, p)
    PROVE  Inv'
<1>1. PICK u \in P!ReceiptsFor(a) :
          /\ u.bundle = p.bundle
          /\ u.bundle.sender = a /\ u.bundle.to # a /\ u.bundle.to \in Accounts
          /\ u.bundle \in P!Confirmed
          /\ p \in Packages /\ p.value \in u.bundle.values
          /\ Head(p.chain) = u /\ u.height <= Len(blocks)
  BY ExportFacts
<1>2. PICK b, c : b = p.bundle /\ c = b.to
  OBVIOUS
<1>3. c \in Accounts /\ c # a /\ b.sender = a /\ b \in P!Confirmed /\ b \in PaidTo(c) /\ p.value \in b.values
  BY <1>1, <1>2 DEF PaidTo
<1>4. PICK s, n, C, k, W, h :
          /\ s = store[c] /\ n = built[c] /\ C = P!ReceiptsFor(c) /\ k = P!ConfirmedSeq(c)
          /\ W = Purse(c) /\ h = Len(blocks)
  OBVIOUS
<1>5. Good(s, c, n, C, k, W, h) /\ Chained(c, C, k, h) /\ s \in Stores
  BY <1>3, <1>4 DEF Inv, WalletOK, Good
<1>6. p \notin s.accepted /\ Valid(p) /\ UNCHANGED <<built, pool, blocks>>
  BY <1>2, <1>4 DEF DeliverTransferPackage
<1>7. store' = [store EXCEPT ![c] = Done(s, ReceiveWrites(s, p))]
  BY <1>2, <1>4 DEF DeliverTransferPackage
<1>8. PICK t : t = store'[c]
  OBVIOUS
<1>9. store \in [Accounts -> Stores]
  BY DEF Inv, Typed
<1>10. TakesIn(s, p, t) /\ \A d \in Accounts \ {c} : store'[d] = store[d]
  BY <1>3, <1>5, <1>7, <1>8, <1>9, ReceiveDone DEF TakesIn
<1>11. p.value \in Outstanding(b)
  <2>1. ASSUME NEW q \in store[b.to].accepted, q.bundle = b, q.value = p.value
        PROVE  FALSE
    <3>1. q \in Exportable(a)
      BY <1>2, <1>3, <2>1 DEF Inv, Deliveries
    <3>2. q = p
      BY <1>2, <2>1, <3>1, OneExport
    <3>3. QED
      BY <1>2, <1>4, <1>6, <2>1, <3>2
  <2>2. QED
    BY <1>3, <2>1 DEF Outstanding
<1>12. p.value \subseteq DueUnits(c) /\ DueUnits(c) \subseteq Owned(c)
  BY <1>3, <1>11 DEF DueUnits, Inv, DueState
<1>13. p.value \cap W = {}
  BY <1>4, <1>12 DEF Purse
<1>14. ASSUME NEW d \in Due(s, C), NEW v \in d.values
       PROVE  v \cap p.value = {}
  <2>1. d \in s.pending /\ \E w \in C : w.bundle = d
    BY DEF Due
  <2>2. d.to \in Accounts /\ d.to # c /\ Outstanding(d) = d.values
    BY <1>3, <1>4, <2>1, PendingOutstanding
  <2>3. d \in P!Confirmed
    BY <1>4, <2>1, ConfirmedHave DEF Inv
  <2>4. v \subseteq DueUnits(d.to)
    BY <2>2, <2>3 DEF DueUnits, PaidTo
  <2>5. v \subseteq Owned(d.to)
    BY <2>2, <2>4 DEF Inv, DueState
  <2>6. Owned(d.to) \cap Owned(c) = {}
    BY <2>2 DEF Owned
  <2>7. QED
    BY <1>12, <2>5, <2>6
<1>15. /\ Good(t, c, n, C, k, W \cup p.value, h)
       /\ t.pending = s.pending /\ t.confirmed = s.confirmed /\ t.accepted = s.accepted \cup {p}
       /\ \A w : PackagesOf(t.records, w) = PackagesOf(s.records, w)
  <2>1. p \in Packages /\ Valid(p) /\ p.bundle.sender # c /\ Head(p.chain).height <= h
    BY <1>1, <1>2, <1>3, <1>4, <1>6
  <2>2. Good(s, c, n, C, k, W, h) /\ Chained(c, C, k, h)
    BY <1>5
  <2>3. \A d \in Due(s, C) : \A v \in d.values : v \cap p.value = {}
    BY <1>14
  <2>4. TakesIn(s, p, t)
    BY <1>10
  <2>5. QED
    BY <1>13, <2>1, <2>2, <2>3, <2>4, GoodReceived
<1>16. \A d : /\ P!ReceiptsFor(d)' = P!ReceiptsFor(d) /\ P!ConfirmedSeq(d)' = P!ConfirmedSeq(d)
              /\ Owned(d)' = Owned(d) /\ PaidTo(d)' = PaidTo(d)
  BY <1>6, SameChain
<1>17. \A d \in Accounts : Exportable(d)' = Exportable(d)
  BY <1>4, <1>8, <1>10, <1>15 DEF Exportable
<1>18. \A d \in Accounts : \A q \in store'[d].accepted : q \in store[d].accepted \/ (q = p /\ d = c)
  BY <1>4, <1>8, <1>10, <1>15
<1>19. \A d \in Accounts : \A q \in store[d].accepted : q \in store'[d].accepted
  BY <1>4, <1>8, <1>10, <1>15
<1>20. ASSUME NEW d, d.to \in Accounts
       PROVE  Outstanding(d)' = {v \in Outstanding(d) : ~(d = b /\ v = p.value)}
  <2>1. ASSUME NEW v \in d.values
        PROVE  (\E q \in store'[d.to].accepted : q.bundle = d /\ q.value = v) <=>
               (d = b /\ v = p.value) \/ \E q \in store[d.to].accepted : q.bundle = d /\ q.value = v
    <3>1. p \in store'[c].accepted
      BY <1>8, <1>15
    <3>2. QED
      BY <1>2, <1>18, <1>19, <1>20, <3>1
  <2>2. QED
    BY <2>1 DEF Outstanding
<1>21. \A d \in Accounts : \A e \in PaidTo(d) :
          Outstanding(e)' = {v \in Outstanding(e) : ~(e = b /\ v = p.value)}
  BY <1>20 DEF PaidTo
<1>22. DueState'
  <2>1. \A d \in Accounts : DueUnits(d)' \subseteq DueUnits(d)
    BY <1>16, <1>21 DEF DueUnits
  <2>2. QED
    BY <1>16, <1>21, <2>1 DEF DueState, Inv
<1>23. DueUnits(c)' = DueUnits(c) \ p.value
  <2>1. \A e \in PaidTo(c) : \A v \in Outstanding(e) : e # b \/ v # p.value => v \cap p.value = {}
    BY <1>3, <1>11 DEF Inv, DueState
  <2>2. ASSUME NEW x \in DueUnits(c)'
        PROVE  x \in DueUnits(c) \ p.value
    <3>1. PICK e \in PaidTo(c) : \E v \in Outstanding(e)' : x \in v
      BY <1>16 DEF DueUnits
    <3>2. PICK v \in Outstanding(e) : x \in v /\ ~(e = b /\ v = p.value)
      BY <1>3, <1>21, <3>1
    <3>3. QED
      BY <2>1, <3>1, <3>2 DEF DueUnits
  <2>3. ASSUME NEW x \in DueUnits(c), x \notin p.value
        PROVE  x \in DueUnits(c)'
    <3>1. PICK e \in PaidTo(c) : \E v \in Outstanding(e) : x \in v
      BY DEF DueUnits
    <3>2. PICK v \in Outstanding(e) : x \in v
      BY <3>1
    <3>3. v \in Outstanding(e)'
      BY <1>3, <1>21, <2>3, <3>2
    <3>4. QED
      BY <1>16, <3>2, <3>3 DEF DueUnits
  <2>4. QED
    BY <2>2, <2>3
<1>24. Purse(c)' = W \cup p.value
  BY <1>4, <1>12, <1>16, <1>23 DEF Purse
<1>25. ASSUME NEW d \in Accounts \ {c}
       PROVE  Purse(d)' = Purse(d)
  <2>1. \A e \in PaidTo(d) : Outstanding(e)' = Outstanding(e)
    BY <1>2, <1>21 DEF PaidTo
  <2>2. DueUnits(d)' = DueUnits(d)
    BY <1>16, <2>1 DEF DueUnits
  <2>3. QED
    BY <1>16, <2>2 DEF Purse
<1>26. ASSUME NEW d \in Accounts
       PROVE  WalletOK(d)'
  <2>1. CASE d = c
    <3>1. Good(store'[c], c, built'[c], C, k, Purse(c)', h)
      BY <1>4, <1>6, <1>8, <1>15, <1>24
    <3>2. P!ReceiptsFor(c)' = C /\ P!ConfirmedSeq(c)' = k /\ Len(blocks)' = h
      BY <1>4, <1>6, <1>16
    <3>3. QED
      BY <1>5, <2>1, <3>1, <3>2 DEF WalletOK
  <2>2. CASE d # c
    <3>1. store'[d] = store[d] /\ built' = built /\ blocks' = blocks /\ Purse(d)' = Purse(d)
      BY <1>6, <1>10, <1>25, <2>2
    <3>2. P!ReceiptsFor(d)' = P!ReceiptsFor(d) /\ P!ConfirmedSeq(d)' = P!ConfirmedSeq(d)
      BY <1>16
    <3>3. QED
      BY <3>1, <3>2 DEF Inv, WalletOK
  <2>3. QED
    BY <2>1, <2>2
<1>27. Typed'
  <2>1. t \in Stores
    BY <1>15 DEF Good
  <2>2. store' = [store EXCEPT ![c] = t]
    BY <1>3, <1>7, <1>8, <1>9
  <2>3. store' \in [Accounts -> Stores]
    BY <1>9, <2>1, <2>2
  <2>4. QED
    BY <1>6, <2>3 DEF Inv, Typed
<1>28. PoolState'
  <2>1. \A d \in Accounts : store'[d].pending = store[d].pending
    BY <1>4, <1>8, <1>10, <1>15
  <2>2. \A d \in pool : d.sender \in Accounts
    BY DEF Inv, Typed, Bundles
  <2>3. QED
    BY <1>6, <1>16, <2>1, <2>2 DEF PoolState, Inv
<1>29. Deliveries'
  <2>1. ASSUME NEW d \in Accounts, NEW q \in store'[d].accepted
        PROVE  q.bundle.to = d /\ q \in Exportable(q.bundle.sender)'
    <3>1. q.bundle.to = d /\ q \in Exportable(q.bundle.sender) /\ q.bundle.sender \in Accounts
      <4>1. CASE q \in store[d].accepted
        BY <4>1 DEF Inv, Deliveries, Typed, Stores, Packages, Bundles
      <4>2. CASE q = p /\ d = c
        BY <1>2, <1>3, <4>2
      <4>3. QED
        BY <1>18, <4>1, <4>2
    <3>2. QED
      BY <1>17, <3>1
  <2>2. QED
    BY <2>1 DEF Deliveries
<1>30. QED
  BY <1>22, <1>26, <1>27, <1>28, <1>29 DEF Inv

-----------------------------------------------------------------------------
(* A block *)

NewReceipts(a) == {[bundle |-> b, height |-> Len(blocks) + 1] : b \in {x \in pool : x.sender = a}}

\* What a block adds to the chain.
LEMMA BlockFacts ==
    ASSUME Typed, blocks' = Append(blocks, pool)
    PROVE  /\ blocks' \in Seq(SUBSET Bundles)
           /\ Len(blocks') = Len(blocks) + 1 /\ Len(blocks) \in Nat
           /\ \A h \in 1..Len(blocks) : blocks'[h] = blocks[h]
           /\ blocks'[Len(blocks) + 1] = pool
           /\ P!Confirmed' = P!Confirmed \cup pool
           /\ \A a : P!ReceiptsFor(a)' = P!ReceiptsFor(a) \cup NewReceipts(a)
<1>1. /\ blocks' \in Seq(SUBSET Bundles)
      /\ Len(blocks') = Len(blocks) + 1 /\ Len(blocks) \in Nat
      /\ \A h \in 1..Len(blocks) : blocks'[h] = blocks[h]
      /\ blocks'[Len(blocks) + 1] = pool
  BY DEF Typed
<1>2. /\ \A h \in 1..Len(blocks') : h \in 1..Len(blocks) \/ h = Len(blocks) + 1
      /\ 1..Len(blocks) \subseteq 1..Len(blocks') /\ Len(blocks) + 1 \in 1..Len(blocks')
  BY <1>1
<1>3. P!Confirmed' = P!Confirmed \cup pool
  BY <1>1, <1>2 DEF P!Confirmed
<1>4. ASSUME NEW a
      PROVE  P!ReceiptsFor(a)' = P!ReceiptsFor(a) \cup NewReceipts(a)
  <2> DEFINE R(f, h) == {[bundle |-> b, height |-> h] : b \in {x \in f[h] : x.sender = a}}
  <2>1. \A h \in 1..Len(blocks) : R(blocks', h) = R(blocks, h)
    BY <1>1
  <2>2. R(blocks', Len(blocks) + 1) = NewReceipts(a)
    BY <1>1 DEF NewReceipts
  <2>3. /\ P!ReceiptsFor(a) = UNION {R(blocks, h) : h \in 1..Len(blocks)}
        /\ P!ReceiptsFor(a)' = UNION {R(blocks', h) : h \in 1..Len(blocks')}
    BY DEF P!ReceiptsFor
  <2> HIDE DEF R
  <2>4. QED
    BY <1>2, <2>1, <2>2, <2>3
<1>5. QED
  BY <1>1, <1>3, <1>4

Spenders(x) == {h \in 1..Len(blocks) : \E b \in blocks[h] : x \in UNION b.values}

Latest(T) == CHOOSE h \in T : \A g \in T : g <= h

\* Who a unit belonged to at the start.
FirstOwner(x) ==
    LET start == {a \in Accounts : x \in UNION Genesis[a]}
    IN  IF start # {} THEN CHOOSE a \in start : TRUE ELSE "nobody"

LEMMA OwnerCases ==
    ASSUME NEW x
    PROVE  P!OwnerOf(x) = IF Spenders(x) # {}
                          THEN (CHOOSE b \in blocks[Latest(Spenders(x))] : x \in UNION b.values).to
                          ELSE FirstOwner(x)
BY DEF P!OwnerOf, Spenders, Latest, FirstOwner

LEMMA OwnerCasesNext ==
    ASSUME NEW x
    PROVE  P!OwnerOf(x)' = IF Spenders(x)' # {}
                           THEN (CHOOSE b \in blocks'[Latest(Spenders(x)')] : x \in UNION b.values).to
                           ELSE FirstOwner(x)
BY DEF P!OwnerOf, Spenders, Latest, FirstOwner

LEMMA LatestIn ==
    ASSUME NEW S, NEW L \in Nat, S \subseteq 1..L, S # {}
    PROVE  Latest(S) \in S
<1>1. S \subseteq Nat /\ \A g \in S : g <= L
  OBVIOUS
<1>2. \E m \in S : \A g \in S : g <= m
  BY <1>1, Greatest
<1>3. QED
  BY <1>2 DEF Latest

LEMMA OwnerMoves ==
    ASSUME Typed, blocks' = Append(blocks, pool), NEW x
    PROVE  /\ (\A b \in pool : x \notin UNION b.values) => P!OwnerOf(x)' = P!OwnerOf(x)
           /\ \A b \in pool : /\ x \in UNION b.values
                              /\ \A c \in pool : x \in UNION c.values => c = b
                              => P!OwnerOf(x)' = b.to
<1>1. /\ Len(blocks') = Len(blocks) + 1 /\ Len(blocks) \in Nat
      /\ \A h \in 1..Len(blocks) : blocks'[h] = blocks[h]
      /\ blocks'[Len(blocks) + 1] = pool
  BY BlockFacts
<1>2. PICK S, T, L : S = Spenders(x) /\ T = Spenders(x)' /\ L = Len(blocks)
  OBVIOUS
<1>3. S \subseteq 1..L /\ L \in Nat
  BY <1>1, <1>2 DEF Spenders
<1>4. T = S \cup {h \in {L + 1} : \E b \in pool : x \in UNION b.values}
  <2>1. \A h : h \in 1..(L + 1) <=> h \in 1..L \/ h = L + 1
    BY <1>3
  <2>2. T = {h \in 1..(L + 1) : \E b \in blocks'[h] : x \in UNION b.values}
    BY <1>1, <1>2 DEF Spenders
  <2>3. S = {h \in 1..L : \E b \in blocks'[h] : x \in UNION b.values}
    BY <1>1, <1>2 DEF Spenders
  <2>4. blocks'[L + 1] = pool
    BY <1>1, <1>2
  <2>5. QED
    BY <2>1, <2>2, <2>3, <2>4
<1>5. ASSUME \A b \in pool : x \notin UNION b.values
      PROVE  P!OwnerOf(x)' = P!OwnerOf(x)
  <2>1. T = S
    BY <1>4, <1>5
  <2>2. CASE S = {}
    BY <1>2, <2>1, <2>2, OwnerCases, OwnerCasesNext
  <2>3. CASE S # {}
    <3>1. Latest(S) \in S
      BY <1>3, <2>3, LatestIn
    <3>2. blocks'[Latest(S)] = blocks[Latest(S)]
      BY <1>1, <1>2, <1>3, <3>1
    <3>3. PICK B : B = blocks[Latest(S)]
      OBVIOUS
    <3>4. P!OwnerOf(x) = (CHOOSE b \in B : x \in UNION b.values).to
      BY <1>2, <2>3, <3>3, OwnerCases
    <3>5. blocks'[Latest(T)] = B /\ T # {}
      BY <2>1, <2>3, <3>2, <3>3
    <3>6. P!OwnerOf(x)' = (CHOOSE b \in B : x \in UNION b.values).to
      BY <1>2, <3>5, OwnerCasesNext
    <3>7. QED
      BY <3>4, <3>6
  <2>4. QED
    BY <2>2, <2>3
<1>6. ASSUME NEW b \in pool, x \in UNION b.values, \A c \in pool : x \in UNION c.values => c = b
      PROVE  P!OwnerOf(x)' = b.to
  <2>1. T = S \cup {L + 1}
    BY <1>4, <1>6
  <2>2. Latest(T) = L + 1
    <3>1. \A g \in T : g <= L + 1 /\ (L + 1 <= g => g = L + 1)
      BY <1>3, <2>1
    <3>2. L + 1 \in T
      BY <2>1
    <3>3. QED
      BY <3>1, <3>2 DEF Latest
  <2>3. (CHOOSE c \in pool : x \in UNION c.values) = b
    BY <1>6
  <2>4. blocks'[Latest(T)] = pool /\ T # {}
    BY <1>1, <1>2, <2>1, <2>2
  <2>5. QED
    BY <1>2, <2>3, <2>4, OwnerCasesNext
<1>7. QED
  BY <1>5, <1>6

\* The bundles in the pool spend what their senders own, and no two of them the
\* same.
LEMMA PoolSpends ==
    ASSUME Inv, NEW b \in pool
    PROVE  /\ b \in Bundles /\ b.sender \in Accounts /\ b.to \in Accounts /\ b.to # b.sender
           /\ b \in store[b.sender].pending /\ \A c \in store[b.sender].pending : c = b
           /\ \A u \in P!ReceiptsFor(b.sender) : u.bundle # b
           /\ Clean(b.values) /\ Outstanding(b) = b.values
           /\ UNION b.values \subseteq Purse(b.sender) /\ UNION b.values \subseteq Owned(b.sender)
           /\ \A c \in pool : (UNION b.values) \cap (UNION c.values) # {} => c = b
<1>1. ASSUME NEW d \in pool
      PROVE  /\ d \in Bundles /\ d.sender \in Accounts /\ d.to \in Accounts /\ d.to # d.sender
             /\ d \in store[d.sender].pending /\ store[d.sender].pending = {d}
             /\ \A u \in P!ReceiptsFor(d.sender) : u.bundle # d
             /\ Clean(d.values) /\ Outstanding(d) = d.values
             /\ UNION d.values \subseteq Purse(d.sender) /\ UNION d.values \subseteq Owned(d.sender)
  <2>1. /\ d \in Bundles /\ d \in store[d.sender].pending
        /\ \A u \in P!ReceiptsFor(d.sender) : u.bundle # d
    BY InvPool
  <2>2. PICK a : a = d.sender
    OBVIOUS
  <2>3. a \in Accounts
    BY <2>1, <2>2 DEF Bundles
  <2>4. d.to \in Accounts /\ d.to # a /\ Outstanding(d) = d.values
    BY <2>1, <2>2, <2>3, PendingOutstanding
  <2>5. PICK s, n, C, k, W, h :
            /\ s = store[a] /\ n = built[a] /\ C = P!ReceiptsFor(a) /\ k = P!ConfirmedSeq(a)
            /\ W = Purse(a) /\ h = Len(blocks)
    OBVIOUS
  <2>6. Good(s, a, n, C, k, W, h)
    BY <2>3, <2>5 DEF Inv, WalletOK
  <2>7. d \in s.pending /\ \A u \in C : u.bundle # d
    BY <2>1, <2>2, <2>5
  <2>8. s.pending = {d} /\ Clean(d.values) /\ UNION d.values \subseteq W
    BY <2>6, <2>7, PendingSpends
  <2>9. W \subseteq Owned(a)
    BY <2>5 DEF Purse
  <2>10. QED
    BY <2>1, <2>2, <2>3, <2>4, <2>5, <2>8, <2>9
<1>2. ASSUME NEW c \in pool, NEW x \in UNION b.values, x \in UNION c.values
      PROVE  c = b
  <2>1. x \in Owned(b.sender) /\ x \in Owned(c.sender)
    BY <1>1, <1>2
  <2>2. b.sender = c.sender
    BY <2>1 DEF Owned
  <2>3. QED
    BY <1>1, <2>2
<1>3. QED
  BY <1>1, <1>2

\* A block gives its bundles' values to their receivers.
LEMMA BlockOwners ==
    ASSUME Inv, blocks' = Append(blocks, pool)
    PROVE  /\ \A b \in pool : \A x \in UNION b.values :
                 P!OwnerOf(x) = b.sender /\ x \in P!Allocated /\ P!OwnerOf(x)' = b.to
           /\ \A x : (\A b \in pool : x \notin UNION b.values) => P!OwnerOf(x)' = P!OwnerOf(x)
           /\ P!Allocated' = P!Allocated
<1>1. Typed
  BY DEF Inv
<1>2. ASSUME NEW b \in pool, NEW x \in UNION b.values
      PROVE  P!OwnerOf(x) = b.sender /\ x \in P!Allocated /\ P!OwnerOf(x)' = b.to
  <2>1. x \in Owned(b.sender)
    BY PoolSpends
  <2>2. \A c \in pool : x \in UNION c.values => c = b
    BY PoolSpends
  <2>3. QED
    BY <1>1, <2>1, <2>2, OwnerMoves DEF Owned
<1>3. P!Allocated' = P!Allocated
  BY DEF P!Allocated
<1>4. QED
  BY <1>1, <1>2, <1>3, OwnerMoves

\* What the bundles of a in the pool spend.
Spent(a) == UNION {UNION b.values : b \in {x \in pool : x.sender = a}}

\* Units that are due are in nobody's bundle, and what an account has and does
\* not give stays in its purse.
LEMMA BlockDue ==
    ASSUME Inv, blocks' = Append(blocks, pool), \A c \in Accounts : Delivering(c)
    PROVE  DueState' /\ \A a \in Accounts : Purse(a)' = Purse(a) \ Spent(a)
<1>1. P!Confirmed' = P!Confirmed \cup pool
  BY BlockFacts DEF Inv
<1>2. \A a : PaidTo(a)' = PaidTo(a) \cup {b \in pool : b.to = a}
  BY <1>1 DEF PaidTo
<1>3. \A b : b.to \in Accounts => Outstanding(b)' = Outstanding(b) /\ Outstanding(b) \subseteq b.values
  BY StillDelivered DEF Inv, Outstanding
<1>4. /\ \A b \in pool : \A x \in UNION b.values :
            P!OwnerOf(x) = b.sender /\ x \in P!Allocated /\ P!OwnerOf(x)' = b.to
      /\ \A x : (\A b \in pool : x \notin UNION b.values) => P!OwnerOf(x)' = P!OwnerOf(x)
      /\ P!Allocated' = P!Allocated
  BY BlockOwners
<1>5. ASSUME NEW a \in Accounts, NEW x \in DueUnits(a)
      PROVE  (\A b \in pool : x \notin UNION b.values) /\ x \in Owned(a)'
  <2>1. x \in Owned(a)
    BY DEF Inv, DueState
  <2>2. ASSUME NEW b \in pool, x \in UNION b.values
        PROVE  FALSE
    <3>1. x \in Purse(b.sender) /\ P!OwnerOf(x) = b.sender
      BY <1>4, <2>2, PoolSpends
    <3>2. b.sender = a
      BY <2>1, <3>1 DEF Owned
    <3>3. QED
      BY <1>5, <3>1, <3>2 DEF Purse
  <2>3. P!OwnerOf(x)' = P!OwnerOf(x)
    BY <1>4, <2>2
  <2>4. QED
    BY <1>4, <2>1, <2>2, <2>3 DEF Owned
<1>6. \A a \in Accounts : \A b \in pool : b.to = a => UNION b.values \subseteq Owned(a)'
  BY <1>4 DEF Owned
<1>7. ASSUME NEW a \in Accounts
      PROVE  /\ DueUnits(a)' \subseteq Owned(a)'
             /\ \A b, d \in PaidTo(a)' : \A v \in Outstanding(b)', w \in Outstanding(d)' :
                   b # d \/ v # w => v \cap w = {}
             /\ DueUnits(a)' = DueUnits(a) \cup UNION {UNION b.values : b \in {x \in pool : x.to = a}}
  <2>1. \A b \in PaidTo(a)' :
           /\ b \in PaidTo(a) \/ (b \in pool /\ b.to = a)
           /\ Outstanding(b)' = Outstanding(b) /\ Outstanding(b) \subseteq b.values
    BY <1>2, <1>3 DEF PaidTo
  <2>2. \A b \in pool : Outstanding(b) = b.values
    BY PoolSpends
  <2>3. DueUnits(a)' = DueUnits(a) \cup UNION {UNION b.values : b \in {x \in pool : x.to = a}}
    BY <1>2, <2>1, <2>2 DEF DueUnits
  <2>4. DueUnits(a)' \subseteq Owned(a)'
    BY <1>5, <1>6, <2>3
  <2>5. ASSUME NEW b \in PaidTo(a), NEW v \in Outstanding(b), NEW d \in pool, NEW w \in d.values
        PROVE  v \cap w = {}
    <3>1. v \subseteq DueUnits(a)
      BY DEF DueUnits
    <3>2. \A x \in v : x \notin UNION d.values
      BY <1>5, <3>1
    <3>3. QED
      BY <3>2
  <2>6. ASSUME NEW b \in pool, NEW v \in b.values, NEW d \in pool, NEW w \in d.values,
               b # d \/ v # w
        PROVE  v \cap w = {}
    <3>1. CASE b # d
      <4>1. (UNION b.values) \cap (UNION d.values) = {}
        BY <3>1, PoolSpends
      <4>2. QED
        BY <4>1
    <3>2. CASE b = d
      <4>1. Clean(b.values)
        BY PoolSpends
      <4>2. QED
        BY <2>6, <3>2, <4>1 DEF Clean
    <3>3. QED
      BY <3>1, <3>2
  <2>7. ASSUME NEW b \in PaidTo(a)', NEW d \in PaidTo(a)', NEW v \in Outstanding(b)',
               NEW w \in Outstanding(d)', b # d \/ v # w
        PROVE  v \cap w = {}
    <3>1. /\ v \in Outstanding(b) /\ v \in b.values /\ w \in Outstanding(d) /\ w \in d.values
          /\ b \in PaidTo(a) \/ b \in pool
          /\ d \in PaidTo(a) \/ d \in pool
      BY <2>1
    <3>2. CASE b \in PaidTo(a) /\ d \in PaidTo(a)
      BY <2>7, <3>1, <3>2 DEF DueState, Inv
    <3>3. CASE b \in PaidTo(a) /\ d \in pool
      BY <2>5, <3>1, <3>3
    <3>4. CASE b \in pool /\ d \in PaidTo(a)
      <4>1. w \cap v = {}
        BY <2>5, <3>1, <3>4
      <4>2. QED
        BY <4>1
    <3>5. CASE b \in pool /\ d \in pool
      BY <2>6, <2>7, <3>1, <3>5
    <3>6. QED
      BY <3>1, <3>2, <3>3, <3>4, <3>5
  <2>8. QED
    BY <2>3, <2>4, <2>7
<1>8. DueState'
  BY <1>7 DEF DueState
<1>9. ASSUME NEW a \in Accounts
      PROVE  Purse(a)' = Purse(a) \ Spent(a)
  <2>1. ASSUME NEW x \in Purse(a), x \notin Spent(a)
        PROVE  x \in Purse(a)'
    <3>1. x \in Owned(a) /\ x \notin DueUnits(a)
      BY DEF Purse
    <3>2. ASSUME NEW b \in pool, x \in UNION b.values
          PROVE  FALSE
      <4>1. b.sender = a
        BY <1>4, <3>1, <3>2 DEF Owned
      <4>2. QED
        BY <2>1, <3>2, <4>1 DEF Spent
    <3>3. x \in Owned(a)'
      BY <1>4, <3>1, <3>2 DEF Owned
    <3>4. x \notin DueUnits(a)'
      BY <1>7, <3>1, <3>2
    <3>5. QED
      BY <3>3, <3>4 DEF Purse
  <2>2. ASSUME NEW x \in Purse(a)'
        PROVE  x \in Purse(a) /\ x \notin Spent(a)
    <3>1. x \in Owned(a)' /\ x \notin DueUnits(a)'
      BY DEF Purse
    <3>2. ASSUME NEW b \in pool, x \in UNION b.values
          PROVE  FALSE
      <4>1. b.to = a
        BY <1>4, <3>1, <3>2 DEF Owned
      <4>2. QED
        BY <1>7, <3>1, <3>2, <4>1
    <3>3. x \in Owned(a) /\ x \notin DueUnits(a)
      BY <1>4, <1>7, <3>1, <3>2 DEF Owned
    <3>4. QED
      BY <3>2, <3>3 DEF Purse, Spent
  <2>3. QED
    BY <2>1, <2>2
<1>10. QED
  BY <1>8, <1>9

\* A wallet when its bundle comes into a block, and its receipt at once or later.
LEMMA BlockWallet ==
    ASSUME Inv, ProduceBlock, NEW a \in Accounts
    PROVE  /\ Chained(a, P!ReceiptsFor(a)', P!ConfirmedSeq(a)', Len(blocks) + 1)
           /\ Good(store'[a], a, built[a], P!ReceiptsFor(a)', P!ConfirmedSeq(a)',
                   Purse(a) \ Spent(a), Len(blocks) + 1)
           /\ Moves(store[a], store'[a])
<1>1. PICK s, n, C, k, W, h :
          /\ s = store[a] /\ n = built[a] /\ C = P!ReceiptsFor(a) /\ k = P!ConfirmedSeq(a)
          /\ W = Purse(a) /\ h = Len(blocks)
  OBVIOUS
<1>2. Good(s, a, n, C, k, W, h) /\ Chained(a, C, k, h)
  BY <1>1 DEF Inv, WalletOK
<1>3. PICK own, t, D : own = NewReceipts(a) /\ t = store'[a] /\ D = P!ReceiptsFor(a)'
  OBVIOUS
<1>4. D = C \cup own /\ P!ConfirmedSeq(a)' = Cardinality(D)
  BY <1>1, <1>3, BlockFacts DEF Inv, ProduceBlock, P!ConfirmedSeq, P!Cardinality, Cardinality
<1>5. t = IF own # {} /\ Receives(a) THEN Confirmed(s, CHOOSE u \in own : TRUE) ELSE s
  BY <1>1, <1>3 DEF ProduceBlock, NewReceipts
<1>6. CASE \A b \in pool : b.sender # a
  <2>1. own = {} /\ Spent(a) = {}
    BY <1>3, <1>6 DEF NewReceipts, Spent
  <2>2. t = s /\ D = C /\ Cardinality(D) = k
    BY <1>2, <1>4, <1>5, <2>1 DEF Chained
  <2>3. Chained(a, C, k, h + 1) /\ Good(s, a, n, C, k, W, h + 1)
    BY <1>2, GoodQuiet
  <2>4. Moves(s, t)
    BY <2>2 DEF Moves
  <2>5. Purse(a) \ Spent(a) = W
    BY <1>1, <2>1
  <2>6. QED
    BY <1>1, <1>3, <1>4, <2>2, <2>3, <2>4, <2>5
<1>7. CASE \E b \in pool : b.sender = a
  <2>1. PICK b \in pool : b.sender = a
    BY <1>7
  <2>2. /\ b \in s.pending /\ \A c \in pool : c.sender = a => c = b
        /\ \A w \in C : w.bundle # b
    BY <1>1, <2>1, PoolSpends
  <2>3. PICK u : u = [bundle |-> b, height |-> h + 1]
    OBVIOUS
  <2>4. {x \in pool : x.sender = a} = {b}
    BY <2>1, <2>2
  <2>5. own = {u} /\ Spent(a) = UNION b.values
    BY <1>1, <1>3, <2>3, <2>4 DEF NewReceipts, Spent
  <2>6. b \in s.pending /\ \A w \in C : w.bundle # b
    BY <2>2
  <2>7. PICK V, l, g : V = W \ UNION b.values /\ l = k + 1 /\ g = h + 1
    OBVIOUS
  <2>8. Chained(a, D, l, g) /\ Good(s, a, n, D, l, V, g)
    <3>1. Chained(a, C \cup {u}, k + 1, h + 1) /\ Good(s, a, n, C \cup {u}, k + 1, W \ UNION b.values, h + 1)
      BY <1>2, <2>3, <2>6, GoodPaid
    <3>2. QED
      BY <1>4, <2>5, <2>7, <3>1
  <2>9. Cardinality(D) = l
    BY <2>8 DEF Chained
  <2>10. Good(t, a, n, D, l, V, g) /\ Moves(s, t)
    <3>1. CASE Receives(a)
      <4>1. t = Confirmed(s, u) /\ u \in D
        BY <1>4, <1>5, <2>5, <3>1
      <4>2. Chained(a, D, l, g)
        BY <2>8
      <4>3. Good(s, a, n, D, l, V, g)
        BY <2>8
      <4>4. QED
        BY <4>1, <4>2, <4>3, GoodAfter
    <3>2. CASE ~Receives(a)
      <4>1. t = s
        BY <1>5, <3>2
      <4>2. QED
        BY <2>8, <4>1 DEF Moves
    <3>3. QED
      BY <3>1, <3>2
  <2>11. QED
    BY <1>1, <1>3, <1>4, <2>5, <2>7, <2>8, <2>9, <2>10
<1>8. QED
  BY <1>6, <1>7

LEMMA InvBlock ==
    ASSUME Inv, ProduceBlock
    PROVE  Inv'
<1>1. pool' = {} /\ built' = built /\ blocks' = Append(blocks, pool)
  BY DEF ProduceBlock
<1>2. \A c \in Accounts : Delivering(c)
  BY BlockWallet DEF Moves, Delivering
<1>3. DueState' /\ \A a \in Accounts : Purse(a)' = Purse(a) \ Spent(a)
  BY <1>1, <1>2, BlockDue
<1>4. Deliveries'
  BY <1>2, StillDelivered DEF Inv
<1>5. blocks' \in Seq(SUBSET Bundles) /\ Len(blocks') = Len(blocks) + 1
  BY <1>1, BlockFacts DEF Inv
<1>6. ASSUME NEW a \in Accounts
      PROVE  WalletOK(a)'
  <2>1. /\ Chained(a, P!ReceiptsFor(a)', P!ConfirmedSeq(a)', Len(blocks) + 1)
        /\ Good(store'[a], a, built[a], P!ReceiptsFor(a)', P!ConfirmedSeq(a)',
                Purse(a) \ Spent(a), Len(blocks) + 1)
    BY BlockWallet
  <2>2. /\ Chained(a, P!ReceiptsFor(a)', P!ConfirmedSeq(a)', Len(blocks'))
        /\ Good(store'[a], a, built'[a], P!ReceiptsFor(a)', P!ConfirmedSeq(a)',
                Purse(a)', Len(blocks'))
    BY <1>1, <1>3, <1>5, <2>1
  <2>3. QED
    BY <2>2 DEF WalletOK
<1>7. PoolState'
  BY <1>1 DEF PoolState
<1>8. Typed'
  <2>1. \A a \in Accounts : store'[a] \in Stores
    BY <1>6 DEF WalletOK, Good
  <2>2. \E f : store' = [a \in Accounts |-> f[a]]
    <3>1. store' = [a \in Accounts |-> store'[a]]
      BY DEF ProduceBlock
    <3>2. QED
      BY <3>1
  <2>3. store' \in [Accounts -> Stores]
    BY <2>1, <2>2
  <2>4. QED
    BY <1>1, <1>5, <2>3 DEF Typed, Inv
<1>9. QED
  BY <1>3, <1>4, <1>6, <1>7, <1>8 DEF Inv

-----------------------------------------------------------------------------
(* The node keeps the invariant *)

LEMMA InvInit == LocalInit => Inv
<1> SUFFICES ASSUME LocalInit
             PROVE  Inv
  OBVIOUS
<1>1. /\ blocks = <<>> /\ Len(blocks) = 0 /\ 1..Len(blocks) = {} /\ pool = {}
      /\ store = [a \in Accounts |-> FirstStore(a)] /\ built = [a \in Accounts |-> 0]
  BY DEF LocalInit
<1>2. P!Confirmed = {} /\ \A a : P!ReceiptsFor(a) = {} /\ P!ConfirmedSeq(a) = 0
  <2>1. P!Confirmed = {} /\ \A a : P!ReceiptsFor(a) = {}
    BY <1>1 DEF P!Confirmed, P!ReceiptsFor
  <2>2. QED
    BY <2>1, FS_EmptySet DEF P!ConfirmedSeq, P!Cardinality, Cardinality
<1>3. ASSUME NEW x
      PROVE  P!OwnerOf(x) = FirstOwner(x)
  <2>1. Spenders(x) = {}
    BY <1>1 DEF Spenders
  <2>2. QED
    BY <2>1, OwnerCases
<1>4. ASSUME NEW a \in Accounts, NEW x \in UNION Genesis[a]
      PROVE  FirstOwner(x) = a
  <2>1. {c \in Accounts : x \in UNION Genesis[c]} = {a}
    BY LocalAssumption
  <2>2. QED
    BY <2>1 DEF FirstOwner
<1>5. \A a \in Accounts : PaidTo(a) = {} /\ DueUnits(a) = {}
  BY <1>2 DEF PaidTo, DueUnits
<1>6. ASSUME NEW a \in Accounts
      PROVE  Purse(a) = UNION Genesis[a]
  <2>1. UNION Genesis[a] \subseteq Owned(a)
    BY <1>3, <1>4 DEF Owned, P!Allocated
  <2>2. ASSUME NEW x \in Owned(a)
        PROVE  x \in UNION Genesis[a]
    <3>1. PICK c \in Accounts : x \in UNION Genesis[c]
      BY DEF Owned, P!Allocated
    <3>2. c = a
      BY <1>3, <1>4, <3>1 DEF Owned
    <3>3. QED
      BY <3>1, <3>2
  <2>3. QED
    BY <1>5, <2>1, <2>2 DEF Purse
<1>7. ASSUME NEW a \in Accounts
      PROVE  Chained(a, {}, 0, 0) /\ Good(store[a], a, built[a], {}, 0, Purse(a), 0)
  BY <1>1, <1>6, GoodFirst
<1>8. \A a \in Accounts : WalletOK(a)
  BY <1>1, <1>2, <1>7 DEF WalletOK
<1>9. Typed
  <2>1. \A a \in Accounts : store[a] \in Stores
    BY <1>7 DEF Good
  <2>2. QED
    BY <1>1, <2>1 DEF Typed
<1>10. \A a \in Accounts : store[a].accepted = {}
  BY <1>1 DEF FirstStore
<1>11. QED
  BY <1>1, <1>5, <1>8, <1>9, <1>10 DEF Inv, PoolState, DueState, Deliveries

LEMMA InvNext == Inv /\ [LocalNext]_localVars => Inv'
<1> SUFFICES ASSUME Inv, [LocalNext]_localVars
             PROVE  Inv'
  OBVIOUS
<1>1. ASSUME NEW a \in Accounts, NEW to \in Accounts \ {a},
             NEW values \in Selections(store[a].records) \ {{}}, SubmitPayment(a, to, values)
      PROVE  Inv'
  BY <1>1, InvPay
<1>2. ASSUME NEW a \in Accounts, NEW b \in store[a].pending, SubmitAgain(b)
      PROVE  Inv'
  BY <1>2, InvAgain
<1>3. ASSUME NEW a \in Accounts, SyncWalletReceipts(a)
      PROVE  Inv'
  BY <1>3, InvSync
<1>4. ASSUME NEW a \in Accounts, NEW p \in Exportable(a), DeliverTransferPackage(a, p)
      PROVE  Inv'
  BY <1>4, InvDeliver
<1>5. ASSUME NEW a \in Accounts, UnregisterWallet(a) \/ RegisterWallet(a)
      PROVE  Inv'
  <2>1. UNCHANGED <<store, built, blocks>> /\ pool' = pool
    BY <1>5 DEF UnregisterWallet, RegisterWallet
  <2>2. QED
    BY <2>1, InvPool, InvQuiet
<1>6. CASE ProduceBlock
  BY <1>6, InvBlock
<1>7. CASE RestartConsensus
  <2>1. UNCHANGED <<store, built, blocks>> /\ pool' = {}
    BY <1>7 DEF RestartConsensus
  <2>2. QED
    BY <2>1, InvQuiet
<1>8. CASE UNCHANGED localVars
  <2>1. UNCHANGED <<store, built, blocks>> /\ pool' = pool
    BY <1>8 DEF localVars
  <2>2. QED
    BY <2>1, InvPool, InvQuiet
<1>9. QED
  BY <1>1, <1>2, <1>3, <1>4, <1>5, <1>6, <1>7, <1>8 DEF LocalNext

-----------------------------------------------------------------------------
(* What it shows *)

\* Nothing that is being paid can be spent.
LEMMA SpendableInPurse ==
    ASSUME Inv, NEW a \in Accounts, NEW r \in Spendable(store[a].records)
    PROVE  r.value \subseteq Purse(a)
<1>1. PICK s, n, C, k, W, h :
          /\ s = store[a] /\ n = built[a] /\ C = P!ReceiptsFor(a) /\ k = P!ConfirmedSeq(a)
          /\ W = Purse(a) /\ h = Len(blocks)
  OBVIOUS
<1>2. Good(s, a, n, C, k, W, h)
  BY <1>1 DEF Inv, WalletOK
<1>3. r \in s.records /\ r.status = "spendable" /\ r \in Active(s.records)
  BY <1>1 DEF Spendable, Active
<1>4. r \notin Paid(s.records, Due(s, C))
  BY <1>2, <1>3 DEF Good, Locks, Locked, Paid, Due
<1>5. r.value \subseteq W
  BY <1>2, <1>3, <1>4 DEF Good, Money, UnitsOf
<1>6. QED
  BY <1>1, <1>5

\* A unit that is not on its way is in a record of its owner.
LEMMA PurseAtHand ==
    ASSUME Inv, NEW o \in Accounts, NEW x \in Purse(o)
    PROVE  \E r \in store[o].records : x \in r.value /\ r.status # "archived"
<1>1. PICK s, n, C, k, W, h :
          /\ s = store[o] /\ n = built[o] /\ C = P!ReceiptsFor(o) /\ k = P!ConfirmedSeq(o)
          /\ W = Purse(o) /\ h = Len(blocks)
  OBVIOUS
<1>2. Good(s, o, n, C, k, W, h)
  BY <1>1 DEF Inv, WalletOK
<1>3. \E r \in Active(s.records) : x \in r.value
  BY <1>1, <1>2 DEF Good, Money, UnitsOf
<1>4. QED
  BY <1>1, <1>3 DEF Active

\* One that is on its way is in a pending bundle, or in a package its sender can make.
LEMMA DueAtHand ==
    ASSUME Inv, NEW o \in Accounts, NEW x \in DueUnits(o)
    PROVE  \/ \E a \in Accounts : \E p \in Exportable(a) :
                 p.bundle.to = o /\ x \in p.value /\ Valid(p) /\ p \notin store[o].accepted
           \/ \E a \in Accounts : \E b \in store[a].pending :
                 /\ b.to = o /\ x \in UNION b.values
                 /\ \E w \in P!ReceiptsFor(a) : w.bundle = b
<1>1. PICK b \in PaidTo(o) : x \in UNION Outstanding(b)
  BY DEF DueUnits
<1>2. PICK v \in Outstanding(b) : x \in v
  BY <1>1
<1>3. v \in b.values /\ b.to = o /\ b \in P!Confirmed
  BY <1>1, <1>2 DEF Outstanding, PaidTo
<1>4. PICK a : a = b.sender
  OBVIOUS
<1>5. a \in Accounts /\ \E u \in P!ReceiptsFor(a) : u.bundle = b
  BY <1>3, <1>4, ConfirmedHave DEF Inv
<1>6. PICK u \in P!ReceiptsFor(a) : u.bundle = b
  BY <1>5
<1>7. PICK s, n, C, k, W, h :
          /\ s = store[a] /\ n = built[a] /\ C = P!ReceiptsFor(a) /\ k = P!ConfirmedSeq(a)
          /\ W = Purse(a) /\ h = Len(blocks)
  OBVIOUS
<1>8. Good(s, a, n, C, k, W, h)
  BY <1>5, <1>7 DEF Inv, WalletOK
<1>9. CASE b \in s.pending
  BY <1>2, <1>3, <1>5, <1>6, <1>7, <1>9
<1>10. CASE b \notin s.pending
  <2>1. u \in s.confirmed
    BY <1>6, <1>7, <1>8, <1>10 DEF Good, Lined
  <2>2. PICK p \in PackagesOf(s.records, u) : p.value = v /\ Valid(p)
    BY <1>3, <1>6, <1>8, <2>1 DEF Good, Delivers
  <2>3. p \in Exportable(a)
    BY <1>7, <2>1, <2>2 DEF Exportable
  <2>4. p.bundle = b
    BY <1>6, <2>2 DEF PackagesOf
  <2>5. p \notin store[o].accepted
    BY <1>2, <1>3, <2>2, <2>4 DEF Outstanding
  <2>6. QED
    BY <1>2, <1>3, <1>5, <2>2, <2>3, <2>4, <2>5
<1>11. QED
  BY <1>9, <1>10

\* Every unit of the genesis belongs to an account.
LEMMA UnitsHaveOwners ==
    ASSUME Inv, NEW x \in P!Allocated
    PROVE  P!OwnerOf(x) \in Accounts
<1>1. CASE Spenders(x) # {}
  <2>1. blocks \in Seq(SUBSET Bundles) /\ Len(blocks) \in Nat /\ Spenders(x) \subseteq 1..Len(blocks)
    BY DEF Inv, Typed, Spenders
  <2>2. PICK h : h = Latest(Spenders(x))
    OBVIOUS
  <2>3. h \in Spenders(x)
    BY <1>1, <2>1, <2>2, LatestIn
  <2>4. h \in 1..Len(blocks) /\ \E b \in blocks[h] : x \in UNION b.values
    BY <2>3 DEF Spenders
  <2>5. \A b \in blocks[h] : b.to \in Accounts
    BY <2>1, <2>4 DEF Bundles
  <2>6. P!OwnerOf(x) = (CHOOSE b \in blocks[h] : x \in UNION b.values).to
    BY <1>1, <2>2, OwnerCases
  <2>7. QED
    BY <2>4, <2>5, <2>6
<1>2. CASE Spenders(x) = {}
  <2>1. P!OwnerOf(x) = FirstOwner(x)
    BY <1>2, OwnerCases
  <2>2. {a \in Accounts : x \in UNION Genesis[a]} # {}
    BY DEF P!Allocated
  <2>3. QED
    BY <2>1, <2>2 DEF FirstOwner
<1>3. QED
  BY <1>1, <1>2

LEMMA InvSound == Inv => LocalSound
<1> SUFFICES ASSUME Inv
             PROVE  LocalSound
  OBVIOUS
<1>1. P!SpendableIsOwned
  <2>1. \A a \in Accounts : \A r \in Spendable(store[a].records) : \A u \in r.value : P!OwnerOf(u) = a
    BY SpendableInPurse DEF Purse, Owned
  <2>2. QED
    BY <2>1 DEF P!SpendableIsOwned, P!Spendable, Spendable
<1>2. ASSUME NEW a \in Accounts
      PROVE  /\ Locks(store[a], a, built[a])
             /\ Lined(store[a], a, built[a], P!ReceiptsFor(a), P!ConfirmedSeq(a))
             /\ Chained(a, P!ReceiptsFor(a), P!ConfirmedSeq(a), Len(blocks))
             /\ store[a] \in Stores
  BY DEF Inv, WalletOK, Good
<1>3. P!LocksMatchPending
  BY <1>2 DEF P!LocksMatchPending, Locks, Split, Locked, P!IsPieceOf, IsPieceOf
<1>4. ASSUME NEW a \in Accounts, NEW b \in store[a].pending
      PROVE  b.seq \notin ReceiptSeqs(store[a])
  <2>1. PICK s, n, C, k : s = store[a] /\ n = built[a] /\ C = P!ReceiptsFor(a) /\ k = P!ConfirmedSeq(a)
    OBVIOUS
  <2>2. Lined(s, a, n, C, k) /\ Chained(a, C, k, Len(blocks)) /\ b \in s.pending
    BY <1>2, <2>1
  <2>3. ASSUME NEW u \in s.receipts, u.bundle.seq = b.seq
        PROVE  FALSE
    <3>1. u \in C /\ u.bundle \notin s.pending
      BY <2>2 DEF Lined
    <3>2. k \in Nat /\ u.bundle.seq \in 1..k
      BY <2>2, <3>1 DEF Chained
    <3>3. PICK w \in C : w.bundle = b
      BY <2>2, <2>3, <3>2 DEF Lined
    <3>4. u = w
      BY <2>2, <2>3, <3>1, <3>3 DEF Chained
    <3>5. QED
      BY <2>2, <3>1, <3>3, <3>4
  <2>4. QED
    BY <2>1, <2>3 DEF ReceiptSeqs
<1>5. P!PendingAwaitsReceipt
  BY <1>4 DEF P!PendingAwaitsReceipt, P!ReceiptSeqs, ReceiptSeqs
<1>6. ASSUME NEW a \in Accounts, store[a].pending = {}
      PROVE  NextSequence(store[a]) = P!ConfirmedSeq(a) + 1
  <2>1. PICK s, n, C, k : s = store[a] /\ n = built[a] /\ C = P!ReceiptsFor(a) /\ k = P!ConfirmedSeq(a)
    OBVIOUS
  <2>2. Lined(s, a, n, C, k) /\ Chained(a, C, k, Len(blocks)) /\ s \in Stores /\ s.pending = {}
    BY <1>2, <1>6, <2>1
  <2>3. s.receipts = C
    BY <2>2 DEF Lined
  <2>4. k \in Nat /\ ReceiptSeqs(s) = 1..k
    BY <2>2, <2>3 DEF Chained, ReceiptSeqs
  <2>5. NextSequence(s) = k + 1
    BY <2>2, <2>4, NextSequenceFollows
  <2>6. QED
    BY <2>1, <2>5
<1>7. P!NextBundleExecutable
  BY <1>6 DEF P!NextBundleExecutable, P!NextSequence, NextSequence, P!ReceiptSeqs, ReceiptSeqs,
              P!Seqs, Seqs
<1>8. ASSUME NEW u \in P!Allocated
      PROVE  AtHand(u, Any)
  <2>1. PICK o : o = P!OwnerOf(u)
    OBVIOUS
  <2>2. o \in Accounts /\ u \in Owned(o)
    BY <2>1, UnitsHaveOwners DEF Owned
  <2>3. \/ \E r \in store[o].records : u \in r.value /\ r.status # "archived"
        \/ \E a \in Accounts : \E p \in Exportable(a) :
              p.bundle.to = o /\ u \in p.value /\ Valid(p) /\ p \notin store[o].accepted
        \/ \E a \in Accounts : \E b \in store[a].pending :
              /\ b.to = o /\ u \in UNION b.values
              /\ \E w \in P!ReceiptsFor(a) : w.bundle = b
    BY <2>2, PurseAtHand, DueAtHand DEF Purse
  <2>4. QED
    BY <2>1, <2>3 DEF AtHand, Any
<1>9. QED
  BY <1>1, <1>3, <1>5, <1>7, <1>8 DEF LocalSound

\* The wallets in the process of a node keep their promises through restarts of
\* the node, late registrations and repeated deliveries: what they offer to
\* spend is theirs, their locks match what is pending, their next bundle can be
\* executed, and no unit is lost (runtime_v2.py).
THEOREM WalletsOfANodeSound == LocalSpec => []LocalSound
<1>1. LocalInit => Inv
  BY InvInit
<1>2. Inv /\ [LocalNext]_localVars => Inv'
  BY InvNext
<1>3. Inv => LocalSound
  BY InvSound
<1>4. QED
  BY <1>1, <1>2, <1>3, PTL DEF LocalSpec

=============================================================================
