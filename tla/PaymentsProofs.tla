---------------------------- MODULE PaymentsProofs ----------------------------
(***************************************************************************)
(* Theorems about the account hosts of Payments.tla, for any accounts, any *)
(* genesis allocation and any bounds.                                      *)
(***************************************************************************)
EXTENDS Payments, WalletLemmas

(***************************************************************************)
(* What a handler that commits its transactions one after the other leaves *)
(* behind in its account's wallet.                                         *)
(***************************************************************************)

-----------------------------------------------------------------------------
(* Types *)

\* A bundle of account a among its first n: its sequence number is not above its
\* own number, and it pays someone else.
Fits(b, a, n) == b.sender = a /\ b.seq <= b.n /\ b.n <= n /\ b.to # a

\* A wallet's records, of which the pieces the account cut itself are numbered.
Cut(X, a, n) == \A r \in X : r.by = a => r.n <= n

\* What a transaction writes, by number.
WriteFits(w, a, n) ==
    /\ w.table = "pending" => Fits(w.row, a, n)
    /\ w.table = "receipts" => Fits(w.row.bundle, a, n)
    /\ w.table = "records" => Cut(w.rows, a, n)

JobFits(job, a, n) ==
    /\ \A i \in 1..Len(job.writes) : WriteFits(job.writes[i], a, n)
    /\ \A b \in job.submit : Fits(b, a, n)
    /\ \A p \in job.deliver : p.bundle.to # p.bundle.sender

StoreFits(s, a, n) ==
    /\ \A b \in s.pending : Fits(b, a, n)
    /\ \A u \in s.receipts : Fits(u.bundle, a, n)
    /\ Cut(s.records, a, n)

\* Every bundle is one of its sender's attempts so far.
Numbered ==
    /\ \A b \in submissions \cup pool \cup Confirmed : Fits(b, b.sender, attempts[b.sender])
    /\ \A a \in Accounts :
          /\ StoreFits(store[a], a, attempts[a])
          /\ \A job \in jobs[a] : JobFits(job, a, attempts[a])
          /\ \A u \in receiptsTo[a] : Fits(u.bundle, a, attempts[a])
          /\ \A p \in packagesTo[a] : p.bundle.to = a /\ p.bundle.to # p.bundle.sender

Typed == TypeOK /\ Numbered

\* Nothing outgrows its number when attempts only grow.
LEMMA FitsGrows ==
    ASSUME NEW a \in Accounts, NEW n \in Nat, NEW m \in Nat, n <= m
    PROVE  /\ \A b \in Bundles : Fits(b, a, n) => Fits(b, a, m)
           /\ \A X \in SUBSET Records : Cut(X, a, n) => Cut(X, a, m)
           /\ \A s \in Stores : StoreFits(s, a, n) => StoreFits(s, a, m)
           /\ \A job \in Jobs : JobFits(job, a, n) => JobFits(job, a, m)
<1>1. \A b \in Bundles : Fits(b, a, n) => Fits(b, a, m)
  BY DEF Fits, Bundles
<1>2. \A X \in SUBSET Records : Cut(X, a, n) => Cut(X, a, m)
  BY DEF Cut, Records
<1>3. \A w \in Transactions : WriteFits(w, a, n) => WriteFits(w, a, m)
  BY <1>1, <1>2 DEF Transactions, WriteFits, ConfirmedUnits
<1>4. \A s \in Stores : StoreFits(s, a, n) => StoreFits(s, a, m)
  BY <1>1, <1>2 DEF StoreFits, Stores, ConfirmedUnits
<1>5. \A job \in Jobs : JobFits(job, a, n) => JobFits(job, a, m)
  BY <1>1, <1>3 DEF JobFits, Jobs
<1>6. QED
  BY <1>1, <1>2, <1>4, <1>5

\* Writing a table keeps the store's numbers.
LEMMA ApplyFits ==
    ASSUME NEW a \in Accounts, NEW n \in Nat, NEW s \in Stores, NEW w \in Transactions,
           StoreFits(s, a, n), WriteFits(w, a, n)
    PROVE  StoreFits(Apply(s, w), a, n)
BY DEF StoreFits, WriteFits, Apply, Stores, Transactions

-----------------------------------------------------------------------------
(* The jobs that the handlers start *)

\* A handler with one, two or four transactions.
LEMMA JobType ==
    ASSUME NEW W \in Seq(Transactions), NEW S \in SUBSET Bundles, NEW D \in SUBSET Packages
    PROVE  [writes |-> W, submit |-> S, deliver |-> D] \in Jobs
BY DEF Jobs

LEMMA JobOfOne ==
    ASSUME NEW x \in Transactions, NEW S \in SUBSET Bundles, NEW D \in SUBSET Packages,
           NEW job, job = [writes |-> <<x>>, submit |-> S, deliver |-> D]
    PROVE  /\ job \in Jobs /\ job.submit = S /\ job.deliver = D
           /\ Len(job.writes) = 1 /\ job.writes[1] = x
<1>1. <<x>> \in Seq(Transactions)
  OBVIOUS
<1>2. job \in Jobs
  BY <1>1, JobType
<1>3. QED
  BY <1>2

LEMMA JobOfTwo ==
    ASSUME NEW x \in Transactions, NEW y \in Transactions,
           NEW S \in SUBSET Bundles, NEW D \in SUBSET Packages,
           NEW job, job = [writes |-> <<x, y>>, submit |-> S, deliver |-> D]
    PROVE  /\ job \in Jobs /\ job.submit = S /\ job.deliver = D
           /\ Len(job.writes) = 2 /\ job.writes[1] = x /\ job.writes[2] = y
<1>1. <<x, y>> \in Seq(Transactions)
  OBVIOUS
<1>2. job \in Jobs
  BY <1>1, JobType
<1>3. QED
  BY <1>2

LEMMA JobOfFour ==
    ASSUME NEW x \in Transactions, NEW y \in Transactions,
           NEW z \in Transactions, NEW w \in Transactions,
           NEW S \in SUBSET Bundles, NEW D \in SUBSET Packages,
           NEW job, job = [writes |-> <<x, y, z, w>>, submit |-> S, deliver |-> D]
    PROVE  /\ job \in Jobs /\ job.submit = S /\ job.deliver = D
           /\ Len(job.writes) = 4
           /\ job.writes[1] = x /\ job.writes[2] = y /\ job.writes[3] = z /\ job.writes[4] = w
<1>1. <<x, y, z, w>> \in Seq(Transactions)
  OBVIOUS
<1>2. job \in Jobs
  BY <1>1, JobType
<1>3. QED
  BY <1>2

LEMMA BuildJob ==
    ASSUME NEW a \in Accounts, NEW n \in Nat, NEW s \in Stores, StoreFits(s, a, n),
           NEW to \in Accounts \ {a}, NEW values \in Selections(s.records),
           NEW b, b = [sender |-> a, n |-> n + 1, seq |-> NextSequence(s), to |-> to,
                       values |-> values],
           NEW job, job = [writes |-> BuildWrites(s, b), submit |-> {b}, deliver |-> {}]
    PROVE  b \in Bundles /\ job \in Jobs /\ JobFits(job, a, n + 1)
<1>1. s.records \in SUBSET Records
  BY DEF Stores
<1>2. /\ values \subseteq Ranges
      /\ \A v \in values : \E r \in Spendable(s.records) : v \subseteq r.value
  BY <1>1, SelectionFacts
<1>3. NextSequence(s) \in 1..(n + 1)
  <2>1. /\ \A u \in s.receipts : u.bundle.seq <= n
        /\ \A c \in s.pending : c.seq <= n
    BY DEF StoreFits, Fits, Stores, ConfirmedUnits, Bundles
  <2>2. QED
    BY <2>1, NextSequenceBound
<1>4. b \in Bundles /\ Fits(b, a, n + 1) /\ b.values = values
  BY <1>2, <1>3 DEF Bundles, Fits
<1>a. \A v \in b.values : \E r \in Spendable(s.records) : v \subseteq r.value
  BY <1>2, <1>4
<1> DEFINE Y == RecordsWithPending(s.records, b)
<1>5. Y \in SUBSET Records
  BY <1>1, <1>4, <1>a, PendingRecordsType
<1>6. Cut(Y, a, n + 1)
  <2>1. ASSUME NEW r \in Y, r.by = a
        PROVE  r.n <= n + 1
    <3>1. CASE r \in s.records
      BY <1>1, <2>1, <3>1 DEF StoreFits, Cut, Records
    <3>2. CASE \E q \in Touched(s.records, b) : \E v \in PiecesOf(s.records, q, b) : r = Piece(q, v, b)
      <4>1. PICK q \in Touched(s.records, b) : \E v \in PiecesOf(s.records, q, b) : r = Piece(q, v, b)
        BY <3>2
      <4>2. PICK v \in PiecesOf(s.records, q, b) : r = Piece(q, v, b)
        BY <4>1
      <4>3. q \in Records /\ v \in Ranges
        <5>1. /\ Touched(s.records, b) \subseteq Spendable(s.records)
              /\ \A r_1 \in Touched(s.records, b) : \A v_1 \in PiecesOf(s.records, r_1, b) : v_1 \in Ranges
          BY <1>1, <1>4, <1>a, PiecesInside
        <5>2. QED
          BY <1>1, <5>1 DEF Spendable
      <4>4. IsPieceOf(r, b)
        BY <1>4, <4>2, <4>3, PieceFacts
      <4>5. QED
        BY <4>4 DEF IsPieceOf
    <3>3. QED
      BY <3>1, <3>2, PendingRecords
  <2>2. QED
    BY <2>1 DEF Cut
<1> DEFINE x == [table |-> "pending", row |-> b]
           y == [table |-> "records", rows |-> Y]
<1>7. job = [writes |-> <<x, y>>, submit |-> {b}, deliver |-> {}]
  BY DEF BuildWrites
<1>8. x \in Transactions /\ y \in Transactions
  BY <1>4, <1>5 DEF Transactions
<1>9. WriteFits(x, a, n + 1) /\ WriteFits(y, a, n + 1)
  BY <1>4, <1>6 DEF WriteFits
<1> HIDE DEF x, y
<1>10. job \in Jobs
  BY <1>4, <1>7, <1>8, JobOfTwo
<1>11. JobFits(job, a, n + 1)
  BY <1>4, <1>7, <1>8, <1>9, JobOfTwo DEF JobFits
<1>12. QED
  BY <1>4, <1>10, <1>11

LEMMA RollbackJob ==
    ASSUME NEW a \in Accounts, NEW n \in Nat, NEW s \in Stores, StoreFits(s, a, n),
           NEW b \in s.pending, NEW job, job = Only(RollbackWrites(s, b))
    PROVE  job \in Jobs /\ JobFits(job, a, n)
<1>1. s.records \in SUBSET Records /\ b \in Bundles
  BY DEF Stores
<1> DEFINE Y == RecordsRolledBack(s.records, b)
           x == [table |-> "unpending", row |-> b]
           y == [table |-> "records", rows |-> Y]
<1>2. Y \in SUBSET Records
  BY <1>1, RolledBackRecords
<1>3. Cut(Y, a, n)
  BY <1>1, RolledBackRecords DEF StoreFits, Cut, SamePiece
<1>4. job = [writes |-> <<x, y>>, submit |-> {}, deliver |-> {}]
  BY DEF Only, RollbackWrites
<1>5. x \in Transactions /\ y \in Transactions
  BY <1>1, <1>2 DEF Transactions
<1>6. WriteFits(x, a, n) /\ WriteFits(y, a, n)
  BY <1>3 DEF WriteFits
<1> HIDE DEF x, y
<1>7. job \in Jobs
  BY <1>4, <1>5, JobOfTwo
<1>8. JobFits(job, a, n)
  BY <1>4, <1>5, <1>6, JobOfTwo DEF JobFits
<1>9. QED
  BY <1>7, <1>8

LEMMA MissingJob ==
    ASSUME NEW a \in Accounts, NEW n \in Nat, NEW s \in Stores, StoreFits(s, a, n),
           NEW b \in s.pending, NEW job, job = Only(MissingWrites(s, b))
    PROVE  job \in Jobs /\ JobFits(job, a, n)
<1>1. s.records \in SUBSET Records /\ b \in Bundles
  BY DEF Stores
<1> DEFINE Y == RecordsWithMissing(s.records, b)
           y == [table |-> "records", rows |-> Y]
<1>2. Y \in SUBSET Records
  BY <1>1, MissingRecords
<1>3. Cut(Y, a, n)
  BY <1>1, MissingRecords DEF StoreFits, Cut, SamePiece
<1>4. job = [writes |-> <<y>>, submit |-> {}, deliver |-> {}]
  BY DEF Only, MissingWrites
<1>5. y \in Transactions
  BY <1>2 DEF Transactions
<1>6. WriteFits(y, a, n)
  BY <1>3 DEF WriteFits
<1> HIDE DEF y
<1>7. job \in Jobs
  BY <1>4, <1>5, JobOfOne
<1>8. JobFits(job, a, n)
  BY <1>4, <1>5, <1>6, JobOfOne DEF JobFits
<1>9. QED
  BY <1>7, <1>8

LEMMA ConfirmJob ==
    ASSUME NEW a \in Accounts, NEW n \in Nat, NEW s \in Stores, StoreFits(s, a, n),
           NEW u \in ConfirmedUnits, u.bundle \in s.pending, Fits(u.bundle, a, n),
           NEW D, D = PackagesOf(RecordsConfirmed(s.records, u), u),
           NEW job, job = [writes |-> ConfirmWrites(s, u), submit |-> {}, deliver |-> D]
    PROVE  job \in Jobs /\ JobFits(job, a, n)
<1>1. s.records \in SUBSET Records /\ u.bundle \in Bundles
  BY DEF Stores
<1> DEFINE Y == RecordsConfirmed(s.records, u)
           x == [table |-> "receipts", row |-> u]
           y == [table |-> "confirmed", row |-> u]
           z == [table |-> "unpending", row |-> u.bundle]
           w == [table |-> "records", rows |-> Y]
<1>2. Y \in SUBSET Records
  BY <1>1, ConfirmedRecords
<1>3. Cut(Y, a, n)
  <2>1. \A q \in Y : \E r \in s.records : q = ConfirmedRecord(r, u)
    BY DEF RecordsConfirmed
  <2>2. \A r \in s.records : SamePiece(ConfirmedRecord(r, u), r)
    BY <1>1, ConfirmedOne
  <2>3. QED
    BY <2>1, <2>2 DEF StoreFits, Cut, SamePiece
<1>4. job = [writes |-> <<x, y, z, w>>, submit |-> {}, deliver |-> D]
  BY DEF ConfirmWrites
<1>5. x \in Transactions /\ y \in Transactions /\ z \in Transactions /\ w \in Transactions
  BY <1>1, <1>2 DEF Transactions
<1>6. WriteFits(x, a, n) /\ WriteFits(y, a, n) /\ WriteFits(z, a, n) /\ WriteFits(w, a, n)
  BY <1>3 DEF WriteFits
<1>7. D \in SUBSET Packages /\ \A p \in D : p.bundle.to # p.bundle.sender
  <2>1. D \in SUBSET Packages
    BY <1>2, PackagesType
  <2>2. \A p \in D : p.bundle = u.bundle
    BY DEF PackagesOf
  <2>3. QED
    BY <2>1, <2>2 DEF Fits
<1> HIDE DEF x, y, z, w
<1>8. job \in Jobs
  BY <1>4, <1>5, <1>7, JobOfFour
<1>9. JobFits(job, a, n)
  <2>1. \A i \in 1..Len(job.writes) : WriteFits(job.writes[i], a, n)
    BY <1>4, <1>5, <1>6, JobOfFour
  <2>2. QED
    BY <1>4, <1>7, <2>1 DEF JobFits
<1>10. QED
  BY <1>8, <1>9

LEMMA ReceiveJob ==
    ASSUME NEW a \in Accounts, NEW n \in Nat, NEW s \in Stores, StoreFits(s, a, n),
           NEW p \in Packages, Valid(p), p.bundle.sender # a,
           NEW job, job = Only(ReceiveWrites(s, p))
    PROVE  job \in Jobs /\ JobFits(job, a, n)
<1>1. s.records \in SUBSET Records
  BY DEF Stores
<1> DEFINE Y == s.records \cup {ReceivedRecord(p)}
           x == [table |-> "records", rows |-> Y]
           y == [table |-> "accepted", row |-> p]
<1>2. Y \in SUBSET Records
  BY <1>1, ReceivedType
<1>3. Cut(Y, a, n)
  BY DEF StoreFits, Cut, ReceivedRecord
<1>4. job = [writes |-> <<x, y>>, submit |-> {}, deliver |-> {}]
  BY DEF Only, ReceiveWrites
<1>5. x \in Transactions /\ y \in Transactions
  BY <1>2 DEF Transactions
<1>6. WriteFits(x, a, n) /\ WriteFits(y, a, n)
  BY <1>3 DEF WriteFits
<1> HIDE DEF x, y
<1>7. job \in Jobs
  BY <1>4, <1>5, JobOfTwo
<1>8. JobFits(job, a, n)
  BY <1>4, <1>5, <1>6, JobOfTwo DEF JobFits
<1>9. QED
  BY <1>7, <1>8

-----------------------------------------------------------------------------
(* Every step keeps the types *)

\* The account whose handler takes a step, and the others.
LEMMA NumberedStep ==
    ASSUME Typed, NEW a \in Accounts,
           UNCHANGED <<submissions, pool, blocks>>, attempts' = attempts,
           \A c \in Accounts \ {a} : /\ store'[c] = store[c] /\ jobs'[c] = jobs[c]
                                     /\ receiptsTo'[c] = receiptsTo[c]
                                     /\ packagesTo'[c] = packagesTo[c],
           StoreFits(store'[a], a, attempts[a]),
           \A job \in jobs'[a] : JobFits(job, a, attempts[a]),
           \A u \in receiptsTo'[a] : Fits(u.bundle, a, attempts[a]),
           packagesTo'[a] \subseteq packagesTo[a]
    PROVE  Numbered'
<1>1. Confirmed' = Confirmed
  BY DEF Confirmed
<1>2. \A b \in (submissions \cup pool \cup Confirmed)' : Fits(b, b.sender, attempts'[b.sender])
  BY <1>1 DEF Typed, Numbered
<1>3. \A c \in Accounts :
         /\ StoreFits(store'[c], c, attempts'[c])
         /\ \A job \in jobs'[c] : JobFits(job, c, attempts'[c])
         /\ \A u \in receiptsTo'[c] : Fits(u.bundle, c, attempts'[c])
         /\ \A p \in packagesTo'[c] : p.bundle.to = c /\ p.bundle.to # p.bundle.sender
  BY DEF Typed, Numbered
<1>4. QED
  BY <1>2, <1>3 DEF Numbered

\* Starting a handler that fits.
LEMMA StartsFits ==
    ASSUME Typed, NEW a \in Accounts, NEW job, Starts(a, job),
           job \in Jobs, JobFits(job, a, attempts[a])
    PROVE  /\ jobs' \in [Accounts -> SUBSET Jobs]
           /\ \A c \in Accounts \ {a} : jobs'[c] = jobs[c]
           /\ \A k \in jobs'[a] : JobFits(k, a, attempts[a])
BY DEF Typed, TypeOK, Numbered, Starts

LEMMA BuildTyped ==
    ASSUME Typed, NEW a \in Accounts, NEW to \in Accounts \ {a},
           NEW values \in Selections(store[a].records), Build(a, to, values)
    PROVE  Typed'
<1> DEFINE n == attempts[a]
           b == [sender |-> a, n |-> n + 1, seq |-> NextSequence(store[a]),
                 to |-> to, values |-> values]
           job == [writes |-> BuildWrites(store[a], b), submit |-> {b}, deliver |-> {}]
<1>1. /\ n \in Nat /\ n < MaxAttempts /\ store[a] \in Stores /\ StoreFits(store[a], a, n)
      /\ MaxAttempts \in Nat /\ attempts \in [Accounts -> 0..MaxAttempts]
      /\ jobs \in [Accounts -> SUBSET Jobs]
  BY PaymentsAssumption DEF Typed, TypeOK, Numbered, Build
<1>2. job \in Jobs /\ JobFits(job, a, n + 1)
  <2>1. /\ b = [sender |-> a, n |-> n + 1, seq |-> NextSequence(store[a]),
                 to |-> to, values |-> values]
        /\ job = [writes |-> BuildWrites(store[a], b), submit |-> {b}, deliver |-> {}]
    OBVIOUS
  <2> HIDE DEF n, b, job
  <2>2. QED
    BY <1>1, <2>1, BuildJob
<1>3. /\ jobs' = [jobs EXCEPT ![a] = @ \cup {job}]
      /\ attempts' = [attempts EXCEPT ![a] = n + 1]
      /\ UNCHANGED <<up, store, call, submissions, pool, blocks, receiptsTo, packagesTo,
                     crashes, timeouts, misses>>
  BY DEF Build, Starts, consensus, mail, faults
<1> HIDE DEF n, b, job
<1>4. attempts' \in [Accounts -> 0..MaxAttempts] /\ jobs' \in [Accounts -> SUBSET Jobs]
  BY <1>1, <1>2, <1>3
<1>5. TypeOK'
  BY <1>3, <1>4 DEF Typed, TypeOK
<1>6. \A c \in Accounts : attempts[c] \in Nat /\ attempts'[c] \in Nat /\ attempts[c] <= attempts'[c]
  BY <1>1, <1>3 DEF n
<1>7. Confirmed' = Confirmed
  BY <1>3 DEF Confirmed
<1>8. submissions \cup pool \cup Confirmed \subseteq Bundles
  BY DEF Typed, TypeOK, Confirmed
<1>9. \A d \in (submissions \cup pool \cup Confirmed)' : Fits(d, d.sender, attempts'[d.sender])
  <2>1. ASSUME NEW d \in submissions \cup pool \cup Confirmed
        PROVE  Fits(d, d.sender, attempts'[d.sender])
    <3>1. d \in Bundles /\ d.sender \in Accounts /\ Fits(d, d.sender, attempts[d.sender])
      BY <1>8 DEF Typed, Numbered, Bundles
    <3>2. QED
      BY <1>6, <3>1, FitsGrows
  <2>2. QED
    BY <1>3, <1>7, <2>1
<1>10. ASSUME NEW c \in Accounts
       PROVE  /\ StoreFits(store'[c], c, attempts'[c])
              /\ \A k \in jobs'[c] : JobFits(k, c, attempts'[c])
              /\ \A u \in receiptsTo'[c] : Fits(u.bundle, c, attempts'[c])
              /\ \A p \in packagesTo'[c] : p.bundle.to = c /\ p.bundle.to # p.bundle.sender
  <2>1. store[c] \in Stores /\ StoreFits(store[c], c, attempts[c])
    BY DEF Typed, TypeOK, Numbered
  <2>2. \A k \in jobs[c] : k \in Jobs /\ JobFits(k, c, attempts[c])
    BY DEF Typed, TypeOK, Numbered
  <2>3. \A u \in receiptsTo[c] : u.bundle \in Bundles /\ Fits(u.bundle, c, attempts[c])
    BY DEF Typed, TypeOK, Numbered, ConfirmedUnits
  <2>4. \A k \in jobs'[c] : JobFits(k, c, attempts'[c])
    <3>1. \A k \in jobs[c] : JobFits(k, c, attempts'[c])
      BY <1>6, <2>2, FitsGrows
    <3>2. QED
      BY <1>1, <1>2, <1>3, <3>1
  <2>5. StoreFits(store'[c], c, attempts'[c])
    BY <1>3, <1>6, <2>1, FitsGrows
  <2>6. \A u \in receiptsTo'[c] : Fits(u.bundle, c, attempts'[c])
    BY <1>3, <1>6, <2>3, FitsGrows
  <2>7. QED
    BY <1>3, <2>4, <2>5, <2>6 DEF Typed, Numbered
<1>11. Numbered'
  BY <1>9, <1>10 DEF Numbered
<1>12. QED
  BY <1>5, <1>11 DEF Typed

\* The next transaction of a job, and the job without it.
LEMMA NextWrite ==
    ASSUME NEW job \in Jobs, job.writes # <<>>,
           NEW rest, rest = [job EXCEPT !.writes = Tail(@)]
    PROVE  /\ Head(job.writes) \in Transactions /\ Head(job.writes) = job.writes[1]
           /\ Len(job.writes) \in Nat \ {0}
           /\ rest \in Jobs /\ rest.submit = job.submit /\ rest.deliver = job.deliver
           /\ Len(rest.writes) = Len(job.writes) - 1
           /\ \A i \in 1..Len(rest.writes) :
                 i + 1 \in 1..Len(job.writes) /\ rest.writes[i] = job.writes[i + 1]
<1> DEFINE w == job.writes
<1>1. w \in Seq(Transactions) /\ w # <<>>
  BY DEF Jobs
<1>2. rest.writes = Tail(w) /\ rest.submit = job.submit /\ rest.deliver = job.deliver /\ rest \in Jobs
  <2>1. Tail(w) \in Seq(Transactions)
    BY <1>1
  <2>2. QED
    BY <2>1 DEF Jobs
<1> HIDE DEF w
<1>3. /\ Head(w) \in Transactions /\ Head(w) = w[1] /\ Len(w) \in Nat \ {0}
      /\ Len(Tail(w)) = Len(w) - 1
      /\ \A i \in 1..Len(Tail(w)) : i + 1 \in 1..Len(w) /\ Tail(w)[i] = w[i + 1]
  BY <1>1
<1>4. QED
  BY <1>2, <1>3 DEF w

LEMMA WriteTyped ==
    ASSUME Typed, NEW a \in Accounts, NEW job \in jobs[a], Write(a, job)
    PROVE  Typed'
<1> DEFINE rest == [job EXCEPT !.writes = Tail(@)]
           w == Head(job.writes)
<1>1. /\ job \in Jobs /\ JobFits(job, a, attempts[a])
      /\ store[a] \in Stores /\ StoreFits(store[a], a, attempts[a]) /\ attempts[a] \in Nat
  BY DEF Typed, TypeOK, Numbered
<1>2. /\ w \in Transactions /\ w = job.writes[1] /\ Len(job.writes) \in Nat \ {0}
      /\ rest \in Jobs /\ rest.submit = job.submit /\ rest.deliver = job.deliver
      /\ \A i \in 1..Len(rest.writes) :
            i + 1 \in 1..Len(job.writes) /\ rest.writes[i] = job.writes[i + 1]
  BY <1>1, NextWrite DEF Write
<1>3. WriteFits(w, a, attempts[a]) /\ JobFits(rest, a, attempts[a])
  <2> HIDE DEF rest, w
  <2>1. WriteFits(w, a, attempts[a])
    BY <1>1, <1>2 DEF JobFits
  <2>2. \A i \in 1..Len(rest.writes) : WriteFits(rest.writes[i], a, attempts[a])
    BY <1>1, <1>2 DEF JobFits
  <2>3. QED
    BY <1>1, <1>2, <2>1, <2>2 DEF JobFits
<1>4. /\ store' = [store EXCEPT ![a] = Apply(store[a], w)]
      /\ jobs' = [jobs EXCEPT ![a] = (@ \ {job}) \cup {rest}]
      /\ UNCHANGED <<up, call, attempts, submissions, pool, blocks, receiptsTo, packagesTo,
                     crashes, timeouts, misses>>
  BY DEF Write, consensus, mail, faults
<1> HIDE DEF rest, w
<1>5. Apply(store[a], w) \in Stores /\ StoreFits(Apply(store[a], w), a, attempts[a])
  BY <1>1, <1>2, <1>3, ApplyType, ApplyFits
<1>6. TypeOK'
  <2>1. store' \in [Accounts -> Stores]
    BY <1>4, <1>5 DEF Typed, TypeOK
  <2>2. jobs' \in [Accounts -> SUBSET Jobs]
    BY <1>2, <1>4 DEF Typed, TypeOK
  <2>3. QED
    BY <1>4, <2>1, <2>2 DEF Typed, TypeOK
<1>7. /\ store'[a] = Apply(store[a], w)
      /\ jobs'[a] = (jobs[a] \ {job}) \cup {rest}
      /\ \A c \in Accounts \ {a} : store'[c] = store[c] /\ jobs'[c] = jobs[c]
  BY <1>4 DEF Typed, TypeOK
<1>8. \A k \in jobs'[a] : JobFits(k, a, attempts[a])
  BY <1>3, <1>7 DEF Typed, Numbered
<1>9. \A u \in receiptsTo'[a] : Fits(u.bundle, a, attempts[a])
  BY <1>4 DEF Typed, Numbered
<1>10. Numbered'
  BY <1>4, <1>5, <1>7, <1>8, <1>9, NumberedStep
<1>11. QED
  BY <1>6, <1>10 DEF Typed

LEMMA FinishTyped ==
    ASSUME Typed, NEW a \in Accounts, NEW job \in jobs[a], Finish(a, job)
    PROVE  Typed'
<1>1. job \in Jobs /\ JobFits(job, a, attempts[a])
  BY DEF Typed, TypeOK, Numbered
<1>2. job.submit \subseteq Bundles /\ job.deliver \subseteq Packages
  BY <1>1 DEF Jobs
<1>3. TypeOK'
  <2>1. jobs' \in [Accounts -> SUBSET Jobs] /\ submissions' \in SUBSET Bundles
    BY <1>2 DEF Finish, Typed, TypeOK
  <2>2. packagesTo' \in [Accounts -> SUBSET Packages]
    BY <1>2 DEF Finish, Typed, TypeOK
  <2>3. call' \in [Accounts -> Calls]
    <3>1. CASE job.submit = {}
      BY <3>1 DEF Finish, Typed, TypeOK
    <3>2. CASE job.submit # {}
      <4> DEFINE b == CHOOSE b \in job.submit : TRUE
      <4>1. b \in Bundles
        BY <1>2, <3>2
      <4> HIDE DEF b
      <4>2. [state |-> "sent", bundle |-> b] \in Calls
        BY <4>1 DEF Calls
      <4>3. call' = [call EXCEPT ![a] = [state |-> "sent", bundle |-> b]]
        BY <3>2 DEF Finish, b
      <4>4. QED
        BY <4>2, <4>3 DEF Typed, TypeOK
    <3>3. QED
      BY <3>1, <3>2
  <2>4. QED
    BY <2>1, <2>2, <2>3 DEF Finish, Typed, TypeOK, consensus, faults
<1>4. Confirmed' = Confirmed
  BY DEF Finish, consensus, Confirmed
<1>5. \A b \in (submissions \cup pool \cup Confirmed)' : Fits(b, b.sender, attempts'[b.sender])
  <2>1. \A b \in job.submit : Fits(b, b.sender, attempts[b.sender])
    BY <1>1 DEF JobFits, Fits
  <2>2. QED
    BY <1>4, <2>1 DEF Finish, consensus, Typed, Numbered
<1>6. ASSUME NEW c \in Accounts
      PROVE  /\ StoreFits(store'[c], c, attempts'[c])
             /\ \A k \in jobs'[c] : JobFits(k, c, attempts'[c])
             /\ \A u \in receiptsTo'[c] : Fits(u.bundle, c, attempts'[c])
             /\ \A p \in packagesTo'[c] : p.bundle.to = c /\ p.bundle.to # p.bundle.sender
  <2>1. store'[c] = store[c] /\ attempts'[c] = attempts[c] /\ receiptsTo'[c] = receiptsTo[c]
    BY DEF Finish
  <2>2. jobs'[c] \subseteq jobs[c]
    BY DEF Finish, Typed, TypeOK
  <2>3. packagesTo'[c] \subseteq packagesTo[c] \cup {p \in job.deliver : p.bundle.to = c}
    BY DEF Finish
  <2>4. \A p \in job.deliver : p.bundle.to # p.bundle.sender
    BY <1>1 DEF JobFits
  <2>5. QED
    BY <2>1, <2>2, <2>3, <2>4 DEF Typed, Numbered
<1>7. Numbered'
  BY <1>5, <1>6 DEF Numbered
<1>8. QED
  BY <1>3, <1>7 DEF Typed

\* A handler that starts and otherwise changes calls, faults and mail at most.
LEMMA StartTyped ==
    ASSUME Typed, NEW a \in Accounts, NEW job, Starts(a, job),
           job \in Jobs, JobFits(job, a, attempts[a]),
           UNCHANGED <<up, store, attempts, submissions, pool, blocks>>,
           call' \in [Accounts -> Calls],
           receiptsTo' = receiptsTo \/ \E u : receiptsTo' = [receiptsTo EXCEPT ![a] = @ \ {u}],
           packagesTo' = packagesTo \/ \E p : packagesTo' = [packagesTo EXCEPT ![a] = @ \ {p}],
           crashes' = crashes, timeouts' \in 0..MaxTimeouts, misses' \in 0..MaxMisses
    PROVE  Typed'
<1>1. /\ jobs' \in [Accounts -> SUBSET Jobs]
      /\ \A c \in Accounts \ {a} : jobs'[c] = jobs[c]
      /\ \A k \in jobs'[a] : JobFits(k, a, attempts[a])
  BY StartsFits
<1>2. /\ receiptsTo' \in [Accounts -> SUBSET ConfirmedUnits]
      /\ \A c \in Accounts \ {a} : receiptsTo'[c] = receiptsTo[c]
      /\ receiptsTo'[a] \subseteq receiptsTo[a]
  BY DEF Typed, TypeOK
<1>3. /\ packagesTo' \in [Accounts -> SUBSET Packages]
      /\ \A c \in Accounts \ {a} : packagesTo'[c] = packagesTo[c]
      /\ packagesTo'[a] \subseteq packagesTo[a]
  BY DEF Typed, TypeOK
<1>4. TypeOK'
  BY <1>1, <1>2, <1>3 DEF Typed, TypeOK
<1>5. /\ StoreFits(store'[a], a, attempts[a])
      /\ \A u \in receiptsTo'[a] : Fits(u.bundle, a, attempts[a])
      /\ attempts' = attempts
  BY <1>2 DEF Typed, Numbered
<1>6. Numbered'
  BY <1>1, <1>2, <1>3, <1>5, NumberedStep
<1>7. QED
  BY <1>4, <1>6 DEF Typed

\* A step that starts no handler and touches neither stores nor bundles.
LEMMA QuietTyped ==
    ASSUME Typed, NEW a \in Accounts,
           UNCHANGED <<store, attempts, submissions, pool, blocks>>,
           up' \in [Accounts -> BOOLEAN],
           jobs' = jobs \/ jobs' = [jobs EXCEPT ![a] = {}],
           call' \in [Accounts -> Calls],
           /\ receiptsTo' \in [Accounts -> SUBSET ConfirmedUnits]
           /\ \A c \in Accounts \ {a} : receiptsTo'[c] = receiptsTo[c]
           /\ \A u \in receiptsTo'[a] : Fits(u.bundle, a, attempts[a]),
           /\ packagesTo' \in [Accounts -> SUBSET Packages]
           /\ \A c \in Accounts \ {a} : packagesTo'[c] = packagesTo[c]
           /\ packagesTo'[a] \subseteq packagesTo[a],
           crashes' \in 0..MaxCrashes, timeouts' \in 0..MaxTimeouts, misses' = misses
    PROVE  Typed'
<1>1. /\ jobs' \in [Accounts -> SUBSET Jobs]
      /\ \A c \in Accounts \ {a} : jobs'[c] = jobs[c]
      /\ jobs'[a] \subseteq jobs[a]
  BY DEF Typed, TypeOK
<1>2. TypeOK'
  BY <1>1 DEF Typed, TypeOK
<1>3. /\ StoreFits(store'[a], a, attempts[a])
      /\ \A k \in jobs'[a] : JobFits(k, a, attempts[a])
  BY <1>1 DEF Typed, Numbered
<1>4. Numbered'
  BY <1>1, <1>3, NumberedStep
<1>5. QED
  BY <1>2, <1>4 DEF Typed

LEMMA Receipt ==
    ASSUME Typed, NEW a \in Accounts, NEW u \in ReceiptsFor(a)
    PROVE  u \in ConfirmedUnits /\ Fits(u.bundle, a, attempts[a]) /\ u.bundle \in Confirmed
<1>1. PICK h \in 1..Len(blocks) : \E b \in blocks[h] : b.sender = a /\ u = [bundle |-> b, height |-> h]
  BY DEF ReceiptsFor
<1>2. PICK b \in blocks[h] : b.sender = a /\ u = [bundle |-> b, height |-> h]
  BY <1>1
<1>3. b \in Confirmed /\ b \in Bundles /\ h \in Nat \ {0}
  BY DEF Confirmed, Typed, TypeOK
<1>4. Fits(b, b.sender, attempts[b.sender])
  BY <1>3 DEF Typed, Numbered
<1>5. QED
  BY <1>2, <1>3, <1>4 DEF ConfirmedUnits

LEMMA AnswerTyped ==
    ASSUME Typed, NEW a \in Accounts, Answer(a)
    PROVE  Typed'
<1>1. /\ call' \in [Accounts -> Calls]
      /\ UNCHANGED <<up, store, attempts, submissions, pool, blocks, receiptsTo, packagesTo,
                     crashes, timeouts, misses>>
      /\ timeouts \in 0..MaxTimeouts /\ misses \in 0..MaxMisses /\ crashes \in 0..MaxCrashes
  BY DEF Answer, Typed, TypeOK, Calls, consensus, mail, faults
<1>2. CASE jobs' = jobs
  BY <1>1, <1>2, QuietTyped DEF Typed, TypeOK, Numbered
<1>3. CASE /\ call[a].bundle \in store[a].pending
           /\ Starts(a, Only(RollbackWrites(store[a], call[a].bundle)))
  <2>1. store[a] \in Stores /\ StoreFits(store[a], a, attempts[a]) /\ attempts[a] \in Nat
    BY DEF Typed, TypeOK, Numbered
  <2> DEFINE job == Only(RollbackWrites(store[a], call[a].bundle))
  <2>2. job \in Jobs /\ JobFits(job, a, attempts[a])
    BY <1>3, <2>1, RollbackJob
  <2> HIDE DEF job
  <2>3. QED
    BY <1>1, <1>3, <2>2, StartTyped DEF job
<1>4. QED
  BY <1>2, <1>3 DEF Answer

LEMMA TimeoutTyped ==
    ASSUME Typed, NEW a \in Accounts, Timeout(a)
    PROVE  Typed'
<1>1. /\ call' \in [Accounts -> Calls]
      /\ UNCHANGED <<up, store, attempts, submissions, pool, blocks, receiptsTo, packagesTo,
                     crashes, misses>>
      /\ timeouts' \in 0..MaxTimeouts /\ misses \in 0..MaxMisses /\ crashes \in 0..MaxCrashes
  BY PaymentsAssumption DEF Timeout, Typed, TypeOK, Calls, consensus, mail
<1>2. CASE jobs' = jobs
  BY <1>1, <1>2, QuietTyped DEF Typed, TypeOK, Numbered
<1>3. CASE /\ call[a].bundle \in store[a].pending
           /\ Starts(a, Only(RollbackWrites(store[a], call[a].bundle)))
  <2>1. store[a] \in Stores /\ StoreFits(store[a], a, attempts[a]) /\ attempts[a] \in Nat
    BY DEF Typed, TypeOK, Numbered
  <2> DEFINE job == Only(RollbackWrites(store[a], call[a].bundle))
  <2>2. job \in Jobs /\ JobFits(job, a, attempts[a])
    BY <1>3, <2>1, RollbackJob
  <2> HIDE DEF job
  <2>3. QED
    BY <1>1, <1>3, <2>2, StartTyped DEF job
<1>4. QED
  BY <1>2, <1>3 DEF Timeout

LEMMA TakeReceiptTyped ==
    ASSUME Typed, NEW a \in Accounts, NEW u \in receiptsTo[a], TakeReceipt(a, u)
    PROVE  Typed'
<1>1. /\ UNCHANGED <<up, store, call, attempts, submissions, pool, blocks, packagesTo,
                     crashes, timeouts, misses>>
      /\ receiptsTo' = [receiptsTo EXCEPT ![a] = @ \ {u}]
      /\ timeouts \in 0..MaxTimeouts /\ misses \in 0..MaxMisses /\ crashes \in 0..MaxCrashes
      /\ call \in [Accounts -> Calls] /\ up \in [Accounts -> BOOLEAN]
      /\ packagesTo \in [Accounts -> SUBSET Packages]
  BY DEF TakeReceipt, Typed, TypeOK, consensus, mail, faults
<1>2. /\ receiptsTo' \in [Accounts -> SUBSET ConfirmedUnits]
      /\ \A c \in Accounts \ {a} : receiptsTo'[c] = receiptsTo[c]
      /\ \A v \in receiptsTo'[a] : Fits(v.bundle, a, attempts[a])
  BY <1>1 DEF Typed, TypeOK, Numbered
<1>3. CASE jobs' = jobs
  BY <1>1, <1>2, <1>3, QuietTyped
<1>4. CASE /\ AcceptsReceipt(store[a], u)
           /\ Starts(a, [writes |-> ConfirmWrites(store[a], u), submit |-> {},
                         deliver |-> PackagesOf(RecordsConfirmed(store[a].records, u), u)])
  <2>1. store[a] \in Stores /\ StoreFits(store[a], a, attempts[a]) /\ attempts[a] \in Nat
    BY DEF Typed, TypeOK, Numbered
  <2>2. u \in ConfirmedUnits /\ u.bundle \in store[a].pending /\ Fits(u.bundle, a, attempts[a])
    BY <1>4 DEF Typed, TypeOK, Numbered, AcceptsReceipt
  <2> DEFINE D == PackagesOf(RecordsConfirmed(store[a].records, u), u)
             job == [writes |-> ConfirmWrites(store[a], u), submit |-> {}, deliver |-> D]
  <2>3. job = [writes |-> ConfirmWrites(store[a], u), submit |-> {}, deliver |-> D]
    OBVIOUS
  <2>4. Starts(a, job)
    BY <1>4
  <2>5. job \in Jobs /\ JobFits(job, a, attempts[a])
    <3> HIDE DEF job
    <3>1. QED
      BY <2>1, <2>2, <2>3, ConfirmJob
  <2> HIDE DEF job, D
  <2>6. QED
    BY <1>1, <2>4, <2>5, StartTyped
<1>5. QED
  BY <1>3, <1>4 DEF TakeReceipt

LEMMA TakePackageTyped ==
    ASSUME Typed, NEW a \in Accounts, NEW p \in packagesTo[a], TakePackage(a, p)
    PROVE  Typed'
<1>1. /\ UNCHANGED <<up, store, call, attempts, submissions, pool, blocks, receiptsTo,
                     crashes, timeouts, misses>>
      /\ packagesTo' = [packagesTo EXCEPT ![a] = @ \ {p}]
      /\ timeouts \in 0..MaxTimeouts /\ misses \in 0..MaxMisses /\ crashes \in 0..MaxCrashes
      /\ call \in [Accounts -> Calls] /\ up \in [Accounts -> BOOLEAN]
      /\ receiptsTo \in [Accounts -> SUBSET ConfirmedUnits]
      /\ \A v \in receiptsTo[a] : Fits(v.bundle, a, attempts[a])
  BY DEF TakePackage, Typed, TypeOK, Numbered, consensus, mail, faults
<1>2. /\ packagesTo' \in [Accounts -> SUBSET Packages]
      /\ \A c \in Accounts \ {a} : packagesTo'[c] = packagesTo[c]
      /\ packagesTo'[a] \subseteq packagesTo[a]
  BY <1>1 DEF Typed, TypeOK
<1>3. CASE jobs' = jobs
  BY <1>1, <1>2, <1>3, QuietTyped
<1>4. CASE Valid(p) /\ Starts(a, Only(ReceiveWrites(store[a], p)))
  <2>1. store[a] \in Stores /\ StoreFits(store[a], a, attempts[a]) /\ attempts[a] \in Nat
    BY DEF Typed, TypeOK, Numbered
  <2>2. p \in Packages /\ p.bundle.sender # a
    BY DEF Typed, TypeOK, Numbered
  <2> DEFINE job == Only(ReceiveWrites(store[a], p))
  <2>3. job \in Jobs /\ JobFits(job, a, attempts[a])
    BY <1>4, <2>1, <2>2, ReceiveJob
  <2> HIDE DEF job
  <2>4. QED
    BY <1>1, <1>4, <2>3, StartTyped DEF job
<1>5. QED
  BY <1>3, <1>4 DEF TakePackage

LEMMA PullTyped ==
    ASSUME Typed, NEW a \in Accounts, NEW b \in store[a].pending, Pull(a, b)
    PROVE  Typed'
<1>1. PICK u \in ReceiptsFor(a) : receiptsTo' = [receiptsTo EXCEPT ![a] = @ \cup {u}]
  BY DEF Pull
<1>2. u \in ConfirmedUnits /\ Fits(u.bundle, a, attempts[a])
  BY Receipt
<1>3. /\ receiptsTo' \in [Accounts -> SUBSET ConfirmedUnits]
      /\ \A c \in Accounts \ {a} : receiptsTo'[c] = receiptsTo[c]
      /\ \A v \in receiptsTo'[a] : Fits(v.bundle, a, attempts[a])
  BY <1>1, <1>2 DEF Typed, TypeOK, Numbered
<1>4. UNCHANGED <<up, store, jobs, call, attempts, submissions, pool, blocks, packagesTo,
                  crashes, timeouts, misses>>
  BY DEF Pull, consensus, faults
<1>5. QED
  BY <1>3, <1>4, QuietTyped DEF Typed, TypeOK

LEMMA PullMissedTyped ==
    ASSUME Typed, NEW a \in Accounts, NEW b \in store[a].pending, PullMissed(a, b)
    PROVE  Typed'
<1>1. store[a] \in Stores /\ StoreFits(store[a], a, attempts[a]) /\ attempts[a] \in Nat
  BY DEF Typed, TypeOK, Numbered
<1> DEFINE job == Only(MissingWrites(store[a], b))
<1>2. job \in Jobs /\ JobFits(job, a, attempts[a])
  BY <1>1, MissingJob
<1>3. Starts(a, job)
  BY DEF PullMissed
<1> HIDE DEF job
<1>4. /\ UNCHANGED <<up, store, call, attempts, submissions, pool, blocks, receiptsTo, packagesTo,
                     crashes, timeouts>>
      /\ timeouts \in 0..MaxTimeouts /\ misses' \in 0..MaxMisses /\ call \in [Accounts -> Calls]
  BY PaymentsAssumption DEF PullMissed, Typed, TypeOK, consensus, mail
<1>5. QED
  BY <1>2, <1>3, <1>4, StartTyped

LEMMA CrashTyped ==
    ASSUME Typed, NEW a \in Accounts, Crash(a)
    PROVE  Typed'
<1>1. /\ UNCHANGED <<store, attempts, submissions, pool, blocks, timeouts, misses>>
      /\ up' \in [Accounts -> BOOLEAN] /\ call' \in [Accounts -> Calls]
      /\ jobs' = [jobs EXCEPT ![a] = {}]
      /\ crashes' \in 0..MaxCrashes /\ timeouts' \in 0..MaxTimeouts
  BY PaymentsAssumption DEF Crash, Typed, TypeOK, Calls, consensus
<1>2. /\ receiptsTo' \in [Accounts -> SUBSET ConfirmedUnits]
      /\ \A c \in Accounts \ {a} : receiptsTo'[c] = receiptsTo[c]
      /\ receiptsTo'[a] = {}
      /\ packagesTo' \in [Accounts -> SUBSET Packages]
      /\ \A c \in Accounts \ {a} : packagesTo'[c] = packagesTo[c]
      /\ packagesTo'[a] = {}
  BY DEF Crash, Typed, TypeOK
<1>3. QED
  BY <1>1, <1>2, QuietTyped

LEMMA RestartTyped ==
    ASSUME Typed, NEW a \in Accounts, Restart(a)
    PROVE  Typed'
<1>1. /\ UNCHANGED <<store, jobs, call, attempts, submissions, pool, blocks, receiptsTo, packagesTo,
                     crashes, timeouts, misses>>
      /\ up' \in [Accounts -> BOOLEAN]
  BY DEF Restart, Typed, TypeOK, consensus, mail, faults
<1>2. QED
  BY <1>1, QuietTyped DEF Typed, TypeOK, Numbered

LEMMA ArriveTyped ==
    ASSUME Typed, NEW b \in submissions, Arrive(b)
    PROVE  Typed'
<1>1. /\ UNCHANGED <<up, store, jobs, attempts, blocks, receiptsTo, packagesTo,
                     crashes, timeouts, misses>>
      /\ submissions' \subseteq submissions
      /\ pool' \subseteq pool \cup {b} /\ b \in Bundles
  BY DEF Arrive, Typed, TypeOK, mail, faults
<1>2. call' \in [Accounts -> Calls]
  <2>1. [state |-> IF Takes(b) THEN "accepted" ELSE "refused", bundle |-> b] \in Calls
    BY <1>1 DEF Calls
  <2> DEFINE answer == [state |-> IF Takes(b) THEN "accepted" ELSE "refused", bundle |-> b]
  <2>2. call' = [a \in Accounts |-> IF call[a] = [state |-> "sent", bundle |-> b] THEN answer ELSE call[a]]
    BY DEF Arrive
  <2> HIDE DEF answer
  <2>3. QED
    BY <2>1, <2>2 DEF Typed, TypeOK, answer
<1>3. TypeOK'
  BY <1>1, <1>2 DEF Typed, TypeOK
<1>4. Confirmed' = Confirmed
  BY <1>1 DEF Confirmed
<1>5. Numbered'
  BY <1>1, <1>4 DEF Typed, Numbered
<1>6. QED
  BY <1>3, <1>5 DEF Typed

\* The receipts a block brings an account.
NewReceipts(a) == {[bundle |-> b, height |-> Len(blocks) + 1] : b \in {x \in pool : x.sender = a}}

\* What a block adds to the chain.
LEMMA CommitFacts ==
    ASSUME TypeOK, Commit
    PROVE  /\ blocks' \in Seq(SUBSET Bundles)
           /\ Len(blocks') = Len(blocks) + 1 /\ Len(blocks) \in Nat
           /\ \A h \in 1..Len(blocks) : blocks'[h] = blocks[h]
           /\ blocks'[Len(blocks) + 1] = pool
           /\ Confirmed' = Confirmed \cup pool
           /\ \A a \in Accounts : ReceiptsFor(a)' = ReceiptsFor(a) \cup NewReceipts(a)
<1>1. blocks \in Seq(SUBSET Bundles) /\ pool \in SUBSET Bundles /\ blocks' = Append(blocks, pool)
  BY DEF TypeOK, Commit
<1>2. /\ blocks' \in Seq(SUBSET Bundles)
      /\ Len(blocks') = Len(blocks) + 1 /\ Len(blocks) \in Nat
      /\ \A h \in 1..Len(blocks) : blocks'[h] = blocks[h]
      /\ blocks'[Len(blocks) + 1] = pool
  BY <1>1
<1>3. Confirmed' = Confirmed \cup pool
  <2>1. \A h \in 1..Len(blocks') : h \in 1..Len(blocks) \/ h = Len(blocks) + 1
    BY <1>2
  <2>2. 1..Len(blocks) \subseteq 1..Len(blocks') /\ Len(blocks) + 1 \in 1..Len(blocks')
    BY <1>2
  <2>3. QED
    BY <1>2, <2>1, <2>2 DEF Confirmed
<1>4. ASSUME NEW a \in Accounts
      PROVE  ReceiptsFor(a)' = ReceiptsFor(a) \cup NewReceipts(a)
  <2> DEFINE R(f, h) == {[bundle |-> b, height |-> h] : b \in {x \in f[h] : x.sender = a}}
  <2>1. \A h \in 1..Len(blocks') : h \in 1..Len(blocks) \/ h = Len(blocks) + 1
    BY <1>2
  <2>2. 1..Len(blocks) \subseteq 1..Len(blocks') /\ Len(blocks) + 1 \in 1..Len(blocks')
    BY <1>2
  <2>3. \A h \in 1..Len(blocks) : R(blocks', h) = R(blocks, h)
    BY <1>2
  <2>4. R(blocks', Len(blocks) + 1) = NewReceipts(a)
    BY <1>2 DEF NewReceipts
  <2>5. /\ ReceiptsFor(a) = UNION {R(blocks, h) : h \in 1..Len(blocks)}
        /\ ReceiptsFor(a)' = UNION {R(blocks', h) : h \in 1..Len(blocks')}
    BY DEF ReceiptsFor
  <2> HIDE DEF R
  <2>6. QED
    BY <2>1, <2>2, <2>3, <2>4, <2>5
<1>5. QED
  BY <1>2, <1>3, <1>4

LEMMA CommitTyped ==
    ASSUME Typed, Commit
    PROVE  Typed'
<1>1. UNCHANGED <<up, store, jobs, call, attempts, submissions, packagesTo, crashes, timeouts, misses>>
  BY DEF Commit, faults
<1>2. pool' = {} /\ pool \in SUBSET Bundles
  BY DEF Commit, Typed, TypeOK
<1>3. /\ blocks' \in Seq(SUBSET Bundles) /\ Len(blocks) \in Nat
      /\ Confirmed' = Confirmed \cup pool
  BY CommitFacts DEF Typed
<1>4. \A a \in Accounts : receiptsTo'[a] \subseteq receiptsTo[a] \cup NewReceipts(a)
  BY DEF Commit, NewReceipts
<1>5. ASSUME NEW a \in Accounts, NEW u \in NewReceipts(a)
      PROVE  u \in ConfirmedUnits /\ Fits(u.bundle, a, attempts[a])
  <2>1. PICK b \in pool : b.sender = a /\ u = [bundle |-> b, height |-> Len(blocks) + 1]
    BY DEF NewReceipts
  <2>2. b \in Bundles /\ Fits(b, b.sender, attempts[b.sender]) /\ Len(blocks) + 1 \in Nat \ {0}
    BY <1>2, <1>3 DEF Typed, Numbered
  <2>3. QED
    BY <2>1, <2>2 DEF ConfirmedUnits
<1>6. receiptsTo' \in [Accounts -> SUBSET ConfirmedUnits]
  <2>1. \A a \in Accounts : receiptsTo'[a] \in SUBSET ConfirmedUnits
    BY <1>4, <1>5 DEF Typed, TypeOK
  <2>2. \E f : receiptsTo' = [a \in Accounts |-> f[a]]
    <3>1. receiptsTo' = [a \in Accounts |-> receiptsTo'[a]]
      BY DEF Commit
    <3>2. QED
      BY <3>1
  <2>3. QED
    BY <2>1, <2>2
<1>7. TypeOK'
  BY <1>1, <1>2, <1>3, <1>6 DEF Typed, TypeOK
<1>8. \A b \in (submissions \cup pool \cup Confirmed)' : Fits(b, b.sender, attempts'[b.sender])
  BY <1>1, <1>2, <1>3 DEF Typed, Numbered
<1>9. \A a \in Accounts : \A u \in receiptsTo'[a] : Fits(u.bundle, a, attempts[a])
  BY <1>4, <1>5 DEF Typed, Numbered
<1>10. Numbered'
  BY <1>1, <1>8, <1>9 DEF Typed, Numbered
<1>11. QED
  BY <1>7, <1>10 DEF Typed

LEMMA InitTyped == Init => Typed
<1> SUFFICES ASSUME Init PROVE Typed
  OBVIOUS
<1>1. \A a \in Accounts : FirstStore(a) \in Stores /\ StoreFits(FirstStore(a), a, 0)
  <2> TAKE a \in Accounts
  <2>1. \A v \in Genesis[a] :
           [by |-> a, n |-> 0, value |-> v, status |-> "spendable", acquired |-> 0,
            chain |-> <<>>] \in Records
    BY GenesisAssumption DEF Records, Statuses
  <2>2. FirstStore(a).records \in SUBSET Records
    BY <2>1 DEF FirstStore
  <2>3. QED
    BY <2>2 DEF FirstStore, Stores, StoreFits, Cut
<1>2. TypeOK
  BY <1>1, PaymentsAssumption DEF Init, TypeOK, Calls
<1>3. Confirmed = {}
  BY DEF Init, Confirmed
<1>4. Numbered
  BY <1>1, <1>3 DEF Init, Numbered
<1>5. QED
  BY <1>2, <1>4 DEF Typed

LEMMA NextTyped == Typed /\ [Next]_vars => Typed'
<1> SUFFICES ASSUME Typed, [Next]_vars PROVE Typed'
  OBVIOUS
<1>1. ASSUME NEW a \in Accounts, NEW to \in Accounts \ {a},
             NEW values \in Selections(store[a].records) \ {{}}, Build(a, to, values)
      PROVE  Typed'
  BY <1>1, BuildTyped
<1>2. ASSUME NEW a \in Accounts, NEW job \in jobs[a], Write(a, job) \/ Finish(a, job)
      PROVE  Typed'
  BY <1>2, WriteTyped, FinishTyped
<1>3. ASSUME NEW a \in Accounts, Answer(a) \/ Timeout(a) \/ Crash(a) \/ Restart(a)
      PROVE  Typed'
  BY <1>3, AnswerTyped, TimeoutTyped, CrashTyped, RestartTyped
<1>4. ASSUME NEW a \in Accounts, NEW u \in receiptsTo[a], TakeReceipt(a, u)
      PROVE  Typed'
  BY <1>4, TakeReceiptTyped
<1>5. ASSUME NEW a \in Accounts, NEW p \in packagesTo[a], TakePackage(a, p)
      PROVE  Typed'
  BY <1>5, TakePackageTyped
<1>6. ASSUME NEW a \in Accounts, NEW b \in store[a].pending, Pull(a, b) \/ PullMissed(a, b)
      PROVE  Typed'
  BY <1>6, PullTyped, PullMissedTyped
<1>7. ASSUME NEW b \in submissions, Arrive(b)
      PROVE  Typed'
  BY <1>7, ArriveTyped
<1>8. CASE Commit
  BY <1>8, CommitTyped
<1>9. CASE UNCHANGED vars
  BY <1>9 DEF vars, consensus, mail, faults, Typed, TypeOK, Numbered, Confirmed
<1>10. QED
  BY <1>1, <1>2, <1>3, <1>4, <1>5, <1>6, <1>7, <1>8, <1>9 DEF Next

\* Whatever the hosts do, their rows, handlers and mail stay well-formed: ranges
\* that build_bundle cuts are ranges, and a sequence number that next_sequence
\* gives is a positive number, because no sequence number in use is above the
\* number of bundles built.
THEOREM TypeInvariant == Spec => []TypeOK
<1>1. Typed => TypeOK
  BY DEF Typed
<1>2. QED
  BY <1>1, InitTyped, NextTyped, PTL DEF Spec

-----------------------------------------------------------------------------
(* One handler at a time.                                                  *)
(*                                                                         *)
(* What a wallet's rows say while a handler is between two transactions,   *)
(* for a store s and the set J of the handlers at work.                    *)

ToSubmit(J) == UNION {job.submit : job \in J}

\* The bundles whose values the wallet has set aside.
Held(s, J) == s.pending \cup ToSubmit(J)

\* The records there are, and those a handler has computed and will write.
RowsOf(job) ==
    {job.writes[i].rows : i \in {j \in 1..Len(job.writes) : job.writes[j].table = "records"}}

NewRows(J) == UNION {RowsOf(job) : job \in J}

Rows(s, J) == {s.records} \cup NewRows(J)

\* What the handler leaves when it is done.
FinalRows(s, J) == IF NewRows(J) = {} THEN {s.records} ELSE NewRows(J)

Unpends(job) == \E i \in 1..Len(job.writes) : job.writes[i].table = "unpending"

FinalPending(s, J) == IF \E job \in J : Unpends(job) THEN {} ELSE Held(s, J)

FinalReceipts(s, J) ==
    ReceiptSeqs(s) \cup {job.writes[1].row.bundle.seq : job \in {j \in J : Len(j.writes) = 4}}

\* submit_payment after build_bundle has computed its rows.
Building(job, s) ==
    /\ job.deliver = {}
    /\ \E b \in job.submit :
          /\ job.submit = {b}
          /\ \/ /\ Len(job.writes) = 2
                /\ job.writes[1].table = "pending" /\ job.writes[1].row = b
                /\ job.writes[2].table = "records"
                /\ s.pending = {} /\ Split(job.writes[2].rows, b)
             \/ /\ Len(job.writes) = 1
                /\ job.writes[1].table = "records"
                /\ s.pending = {b} /\ Split(job.writes[1].rows, b)
             \/ /\ Len(job.writes) = 0
                /\ s.pending = {b} /\ Split(s.records, b)

\* A handler that ends with the records: a receipt, a rollback, a mark.
Releasing(job, s) ==
    /\ job.submit = {}
    /\ \/ /\ Len(job.writes) = 4
          /\ job.writes[1].table = "receipts" /\ job.writes[2].table = "confirmed"
          /\ job.writes[3].table = "unpending" /\ job.writes[4].table = "records"
          /\ job.writes[3].row = job.writes[1].row.bundle /\ s.pending = {job.writes[3].row}
       \/ /\ Len(job.writes) = 3
          /\ job.writes[1].table = "confirmed"
          /\ job.writes[2].table = "unpending" /\ job.writes[3].table = "records"
          /\ s.pending = {job.writes[2].row}
       \/ /\ Len(job.writes) = 2
          /\ job.writes[1].table = "unpending" /\ job.writes[2].table = "records"
          /\ s.pending = {job.writes[1].row}
       \/ /\ Len(job.writes) = 1
          /\ job.writes[1].table = "records"
       \/ Len(job.writes) = 0

\* receive_transfer
Receiving(job) ==
    /\ job.submit = {} /\ job.deliver = {}
    /\ \/ /\ Len(job.writes) = 2
          /\ job.writes[1].table = "records" /\ job.writes[2].table = "accepted"
       \/ Len(job.writes) = 1 /\ job.writes[1].table = "accepted"

Stage(job, s) == Building(job, s) \/ Releasing(job, s) \/ Receiving(job)

\* At most one bundle is set aside and its pieces are locked.
LocalOK(s, J) ==
    /\ \A j, k \in J : j = k
    /\ \A job \in J : Stage(job, s)
    /\ \A b, c \in Held(s, J) : b = c
    /\ \A b \in Held(s, J) : Locked(s.records, b)
    /\ \A b \in FinalPending(s, J) : \A X \in FinalRows(s, J) : Locked(X, b)

\* What is locked belongs to a pending bundle that still awaits its receipt.
Settled(s, J) ==
    /\ \A X \in FinalRows(s, J) :
          /\ \A r \in X : r.status \in {"pending", "missing"} =>
                \E b \in FinalPending(s, J) : IsPieceOf(r, b)
          /\ \A b \in FinalPending(s, J) : Split(X, b)
    /\ \A b \in FinalPending(s, J) : b.seq \notin FinalReceipts(s, J)

LEMMA NoHandler ==
    ASSUME NEW s
    PROVE  /\ ToSubmit({}) = {} /\ Held(s, {}) = s.pending /\ NewRows({}) = {}
           /\ Rows(s, {}) = {s.records} /\ FinalRows(s, {}) = {s.records}
           /\ FinalPending(s, {}) = s.pending /\ FinalReceipts(s, {}) = ReceiptSeqs(s)
BY DEF ToSubmit, Held, NewRows, Rows, FinalRows, FinalPending, FinalReceipts

LEMMA OneHandler ==
    ASSUME NEW s, NEW job
    PROVE  /\ ToSubmit({job}) = job.submit /\ Held(s, {job}) = s.pending \cup job.submit
           /\ NewRows({job}) = RowsOf(job)
           /\ Rows(s, {job}) = {s.records} \cup RowsOf(job)
           /\ FinalRows(s, {job}) = IF RowsOf(job) = {} THEN {s.records} ELSE RowsOf(job)
           /\ FinalPending(s, {job}) = IF Unpends(job) THEN {} ELSE s.pending \cup job.submit
           /\ FinalReceipts(s, {job}) =
                 ReceiptSeqs(s) \cup (IF Len(job.writes) = 4 THEN {job.writes[1].row.bundle.seq} ELSE {})
<1>1. /\ ToSubmit({job}) = job.submit /\ Held(s, {job}) = s.pending \cup job.submit
      /\ NewRows({job}) = RowsOf(job)
  BY DEF ToSubmit, Held, NewRows
<1>2. {j \in {job} : Len(j.writes) = 4} = IF Len(job.writes) = 4 THEN {job} ELSE {}
  OBVIOUS
<1>3. FinalReceipts(s, {job}) =
         ReceiptSeqs(s) \cup (IF Len(job.writes) = 4 THEN {job.writes[1].row.bundle.seq} ELSE {})
  BY <1>2 DEF FinalReceipts
<1>4. QED
  BY <1>1, <1>3 DEF Rows, FinalRows, FinalPending

\* The tables of a handler at work, in the order in which it writes them.
LEMMA StageTables ==
    ASSUME NEW s, NEW job, Stage(job, s)
    PROVE  \/ /\ Len(job.writes) = 4 /\ Releasing(job, s) /\ Unpends(job)
              /\ job.writes[1].table = "receipts" /\ job.writes[2].table = "confirmed"
              /\ job.writes[3].table = "unpending" /\ job.writes[4].table = "records"
              /\ RowsOf(job) = {job.writes[4].rows}
           \/ /\ Len(job.writes) = 3 /\ Releasing(job, s) /\ Unpends(job)
              /\ job.writes[1].table = "confirmed"
              /\ job.writes[2].table = "unpending" /\ job.writes[3].table = "records"
              /\ RowsOf(job) = {job.writes[3].rows}
           \/ /\ Len(job.writes) = 2 /\ Releasing(job, s) /\ Unpends(job)
              /\ job.writes[1].table = "unpending" /\ job.writes[2].table = "records"
              /\ RowsOf(job) = {job.writes[2].rows}
           \/ /\ Len(job.writes) = 2 /\ Building(job, s) /\ ~Unpends(job)
              /\ job.writes[1].table = "pending" /\ job.writes[2].table = "records"
              /\ RowsOf(job) = {job.writes[2].rows}
           \/ /\ Len(job.writes) = 2 /\ Receiving(job) /\ ~Unpends(job)
              /\ job.writes[1].table = "records" /\ job.writes[2].table = "accepted"
              /\ RowsOf(job) = {job.writes[1].rows}
           \/ /\ Len(job.writes) = 1 /\ (Building(job, s) \/ Releasing(job, s)) /\ ~Unpends(job)
              /\ job.writes[1].table = "records"
              /\ RowsOf(job) = {job.writes[1].rows}
           \/ /\ Len(job.writes) = 1 /\ Receiving(job) /\ ~Unpends(job)
              /\ job.writes[1].table = "accepted"
              /\ RowsOf(job) = {}
           \/ /\ Len(job.writes) = 0 /\ (Building(job, s) \/ Releasing(job, s)) /\ ~Unpends(job)
              /\ RowsOf(job) = {}
<1>1. CASE Len(job.writes) = 4
  BY <1>1 DEF Stage, Building, Releasing, Receiving, Unpends, RowsOf
<1>2. CASE Len(job.writes) = 3
  BY <1>2 DEF Stage, Building, Releasing, Receiving, Unpends, RowsOf
<1>3. CASE Len(job.writes) = 2
  BY <1>3 DEF Stage, Building, Releasing, Receiving, Unpends, RowsOf
<1>4. CASE Len(job.writes) = 1
  BY <1>4 DEF Stage, Building, Releasing, Receiving, Unpends, RowsOf
<1>5. CASE Len(job.writes) = 0
  BY <1>5 DEF Stage, Building, Releasing, Receiving, Unpends, RowsOf
<1>6. QED
  BY <1>1, <1>2, <1>3, <1>4, <1>5 DEF Stage, Building, Releasing, Receiving

\* What one transaction makes of the tables.
Effect(s, w, t) ==
    /\ w.table = "records" => t.records = w.rows /\ t.pending = s.pending /\ t.receipts = s.receipts
    /\ w.table = "pending" => /\ t.records = s.records /\ t.receipts = s.receipts
                              /\ t.pending = {b \in s.pending : b.seq # w.row.seq} \cup {w.row}
    /\ w.table = "unpending" => /\ t.records = s.records /\ t.receipts = s.receipts
                                /\ t.pending = {b \in s.pending : b.seq # w.row.seq}
    /\ w.table = "receipts" =>
          /\ t.records = s.records /\ t.pending = s.pending
          /\ t.receipts = {u \in s.receipts : u.bundle.seq # w.row.bundle.seq} \cup {w.row}
    /\ w.table \in {"confirmed", "accepted"} =>
          t.records = s.records /\ t.pending = s.pending /\ t.receipts = s.receipts

LEMMA Applied ==
    ASSUME NEW s \in Stores, NEW w \in Transactions
    PROVE  Effect(s, w, Apply(s, w))
BY DEF Apply, Stores, Effect

\* A transaction takes nothing back of what its handler leaves in the end.
Progress(s, job, t, rest) ==
    /\ Held(t, {rest}) \subseteq Held(s, {job})
    /\ t.records \in Rows(s, {job}) /\ RowsOf(rest) \subseteq RowsOf(job)
    /\ FinalRows(t, {rest}) = FinalRows(s, {job})
    /\ FinalPending(t, {rest}) = FinalPending(s, {job})
    /\ FinalReceipts(t, {rest}) = FinalReceipts(s, {job})
    /\ t.records # s.records => /\ Held(t, {rest}) = FinalPending(s, {job})
                                /\ t.records \in FinalRows(s, {job})

\* A transaction that leaves the records alone, and one that writes them.
LEMMA OtherWrite ==
    ASSUME NEW s, NEW job, NEW t, NEW rest,
           rest.submit = job.submit, t.records = s.records, RowsOf(rest) = RowsOf(job),
           \/ t.pending \cup rest.submit = s.pending \cup job.submit /\ (Unpends(rest) <=> Unpends(job))
           \/ t.pending \cup rest.submit = {} /\ Unpends(job),
           \/ ReceiptSeqs(t) = ReceiptSeqs(s) /\ Len(job.writes) # 4 /\ Len(rest.writes) # 4
           \/ /\ ReceiptSeqs(t) = ReceiptSeqs(s) \cup {job.writes[1].row.bundle.seq}
              /\ Len(job.writes) = 4 /\ Len(rest.writes) # 4
    PROVE  Progress(s, job, t, rest)
<1>1. /\ Held(s, {job}) = s.pending \cup job.submit
      /\ FinalRows(s, {job}) = (IF RowsOf(job) = {} THEN {s.records} ELSE RowsOf(job))
      /\ Rows(s, {job}) = {s.records} \cup RowsOf(job)
      /\ FinalPending(s, {job}) = (IF Unpends(job) THEN {} ELSE s.pending \cup job.submit)
      /\ FinalReceipts(s, {job}) =
            ReceiptSeqs(s) \cup (IF Len(job.writes) = 4 THEN {job.writes[1].row.bundle.seq} ELSE {})
  BY OneHandler
<1>2. /\ Held(t, {rest}) = t.pending \cup rest.submit
      /\ FinalRows(t, {rest}) = (IF RowsOf(rest) = {} THEN {t.records} ELSE RowsOf(rest))
      /\ FinalPending(t, {rest}) = (IF Unpends(rest) THEN {} ELSE t.pending \cup rest.submit)
      /\ FinalReceipts(t, {rest}) =
            ReceiptSeqs(t) \cup (IF Len(rest.writes) = 4 THEN {rest.writes[1].row.bundle.seq} ELSE {})
  BY OneHandler
<1>3. Held(t, {rest}) \subseteq Held(s, {job}) /\ FinalPending(t, {rest}) = FinalPending(s, {job})
  BY <1>1, <1>2
<1>4. FinalRows(t, {rest}) = FinalRows(s, {job}) /\ t.records \in Rows(s, {job})
  BY <1>1, <1>2
<1>5. FinalReceipts(t, {rest}) = FinalReceipts(s, {job})
  BY <1>1, <1>2
<1>6. QED
  BY <1>3, <1>4, <1>5 DEF Progress

LEMMA RecordsWrite ==
    ASSUME NEW s, NEW job, NEW t, NEW rest,
           rest.submit = job.submit, RowsOf(job) = {t.records}, RowsOf(rest) = {},
           t.pending = s.pending, ~Unpends(rest), ~Unpends(job),
           ReceiptSeqs(t) = ReceiptSeqs(s), Len(job.writes) # 4, Len(rest.writes) # 4
    PROVE  Progress(s, job, t, rest)
<1>1. /\ Held(s, {job}) = s.pending \cup job.submit
      /\ FinalRows(s, {job}) = (IF RowsOf(job) = {} THEN {s.records} ELSE RowsOf(job))
      /\ Rows(s, {job}) = {s.records} \cup RowsOf(job)
      /\ FinalPending(s, {job}) = (IF Unpends(job) THEN {} ELSE s.pending \cup job.submit)
      /\ FinalReceipts(s, {job}) =
            ReceiptSeqs(s) \cup (IF Len(job.writes) = 4 THEN {job.writes[1].row.bundle.seq} ELSE {})
  BY OneHandler
<1>2. /\ Held(t, {rest}) = t.pending \cup rest.submit
      /\ FinalRows(t, {rest}) = (IF RowsOf(rest) = {} THEN {t.records} ELSE RowsOf(rest))
      /\ FinalPending(t, {rest}) = (IF Unpends(rest) THEN {} ELSE t.pending \cup rest.submit)
      /\ FinalReceipts(t, {rest}) =
            ReceiptSeqs(t) \cup (IF Len(rest.writes) = 4 THEN {rest.writes[1].row.bundle.seq} ELSE {})
  BY OneHandler
<1>3. /\ Held(t, {rest}) = Held(s, {job}) /\ FinalPending(t, {rest}) = FinalPending(s, {job})
      /\ Held(t, {rest}) = FinalPending(s, {job})
  BY <1>1, <1>2
<1>4. /\ FinalRows(t, {rest}) = FinalRows(s, {job}) /\ t.records \in Rows(s, {job})
      /\ t.records \in FinalRows(s, {job})
  BY <1>1, <1>2
<1>5. FinalReceipts(t, {rest}) = FinalReceipts(s, {job})
  BY <1>1, <1>2
<1>6. QED
  BY <1>3, <1>4, <1>5 DEF Progress

\* The records among the transactions left, read off their tables.
LEMMA RowsLeft ==
    ASSUME NEW job
    PROVE  /\ Len(job.writes) = 0 => RowsOf(job) = {} /\ ~Unpends(job)
           /\ Len(job.writes) = 1 /\ job.writes[1].table = "records" =>
                 RowsOf(job) = {job.writes[1].rows} /\ ~Unpends(job)
           /\ Len(job.writes) = 1 /\ job.writes[1].table = "accepted" =>
                 RowsOf(job) = {} /\ ~Unpends(job)
           /\ Len(job.writes) = 2 /\ job.writes[1].table = "unpending"
              /\ job.writes[2].table = "records" =>
                 RowsOf(job) = {job.writes[2].rows} /\ Unpends(job)
           /\ Len(job.writes) = 3 /\ job.writes[1].table = "confirmed"
              /\ job.writes[2].table = "unpending" /\ job.writes[3].table = "records" =>
                 RowsOf(job) = {job.writes[3].rows} /\ Unpends(job)
           /\ Len(job.writes) = 4 /\ job.writes[1].table = "receipts"
              /\ job.writes[2].table = "confirmed" /\ job.writes[3].table = "unpending"
              /\ job.writes[4].table = "records" =>
                 RowsOf(job) = {job.writes[4].rows} /\ Unpends(job)
           /\ Len(job.writes) = 2 /\ job.writes[1].table = "pending"
              /\ job.writes[2].table = "records" =>
                 RowsOf(job) = {job.writes[2].rows} /\ ~Unpends(job)
           /\ Len(job.writes) = 2 /\ job.writes[1].table = "records"
              /\ job.writes[2].table = "accepted" =>
                 RowsOf(job) = {job.writes[1].rows} /\ ~Unpends(job)
BY DEF RowsOf, Unpends

\* Each transaction brings its handler to its next stage.
LEMMA StageStep ==
    ASSUME NEW s, NEW job, Stage(job, s), NEW rest, NEW t,
           rest.submit = job.submit, rest.deliver = job.deliver,
           Len(job.writes) # 0, Len(rest.writes) = Len(job.writes) - 1,
           Len(job.writes) > 1 => rest.writes[1] = job.writes[2],
           Len(job.writes) > 2 => rest.writes[2] = job.writes[3],
           Len(job.writes) > 3 => rest.writes[3] = job.writes[4],
           Effect(s, job.writes[1], t)
    PROVE  Stage(rest, t) /\ Progress(s, job, t, rest)
<1> DEFINE w == job.writes
<1>1. t.receipts = s.receipts => ReceiptSeqs(t) = ReceiptSeqs(s)
  BY DEF ReceiptSeqs
<1>2. CASE /\ Len(w) = 4 /\ Releasing(job, s) /\ Unpends(job)
           /\ w[1].table = "receipts" /\ w[2].table = "confirmed"
           /\ w[3].table = "unpending" /\ w[4].table = "records"
           /\ RowsOf(job) = {w[4].rows}
  <2>1. /\ t.pending = s.pending /\ t.records = s.records
        /\ ReceiptSeqs(t) = ReceiptSeqs(s) \cup {w[1].row.bundle.seq}
    BY <1>2 DEF Effect, ReceiptSeqs
  <2>2. Releasing(rest, t) /\ Len(rest.writes) = 3
    BY <1>2, <2>1 DEF Releasing
  <2>3. Unpends(rest) /\ RowsOf(rest) = {w[4].rows}
    BY <1>2, RowsLeft
  <2>4. Progress(s, job, t, rest)
    BY <1>2, <2>1, <2>2, <2>3, OtherWrite
  <2>5. QED
    BY <2>2, <2>4 DEF Stage
<1>3. CASE /\ Len(w) = 3 /\ Releasing(job, s) /\ Unpends(job)
           /\ w[1].table = "confirmed"
           /\ w[2].table = "unpending" /\ w[3].table = "records"
           /\ RowsOf(job) = {w[3].rows}
  <2>1. t.pending = s.pending /\ t.records = s.records /\ ReceiptSeqs(t) = ReceiptSeqs(s)
    BY <1>1, <1>3 DEF Effect
  <2>2. Releasing(rest, t) /\ Len(rest.writes) = 2
    BY <1>3, <2>1 DEF Releasing
  <2>3. Unpends(rest) /\ RowsOf(rest) = {w[3].rows}
    BY <1>3, RowsLeft
  <2>4. Progress(s, job, t, rest)
    BY <1>3, <2>1, <2>2, <2>3, OtherWrite
  <2>5. QED
    BY <2>2, <2>4 DEF Stage
<1>4. CASE /\ Len(w) = 2 /\ Releasing(job, s) /\ Unpends(job)
           /\ w[1].table = "unpending" /\ w[2].table = "records"
           /\ RowsOf(job) = {w[2].rows}
  <2>1. t.records = s.records /\ ReceiptSeqs(t) = ReceiptSeqs(s)
    BY <1>1, <1>4 DEF Effect
  <2>2. s.pending = {w[1].row} /\ job.submit = {}
    BY <1>4 DEF Releasing
  <2>3. t.pending = {}
    BY <1>4, <2>2 DEF Effect
  <2>4. Releasing(rest, t) /\ Len(rest.writes) = 1
    BY <1>4, <2>2 DEF Releasing
  <2>5. RowsOf(rest) = {w[2].rows}
    BY <1>4, RowsLeft
  <2>6. Progress(s, job, t, rest)
    BY <1>4, <2>1, <2>2, <2>3, <2>4, <2>5, OtherWrite
  <2>7. QED
    BY <2>4, <2>6 DEF Stage
<1>5. CASE /\ Len(w) = 2 /\ Building(job, s) /\ ~Unpends(job)
           /\ w[1].table = "pending" /\ w[2].table = "records"
           /\ RowsOf(job) = {w[2].rows}
  <2>1. PICK b \in job.submit : job.submit = {b} /\ w[1].row = b /\ s.pending = {} /\ Split(w[2].rows, b)
    BY <1>5 DEF Building
  <2>2. t.pending = {b} /\ t.records = s.records /\ ReceiptSeqs(t) = ReceiptSeqs(s)
    BY <1>1, <1>5, <2>1 DEF Effect
  <2>3. Building(rest, t) /\ Len(rest.writes) = 1
    BY <1>5, <2>1, <2>2 DEF Building
  <2>4. ~Unpends(rest) /\ RowsOf(rest) = {w[2].rows}
    BY <1>5, RowsLeft
  <2>5. t.pending \cup rest.submit = s.pending \cup job.submit
    BY <2>1, <2>2
  <2>6. Progress(s, job, t, rest)
    BY <1>5, <2>2, <2>3, <2>4, <2>5, OtherWrite
  <2>7. QED
    BY <2>3, <2>6 DEF Stage
<1>6. CASE /\ Len(w) = 2 /\ Receiving(job) /\ ~Unpends(job)
           /\ w[1].table = "records" /\ w[2].table = "accepted"
           /\ RowsOf(job) = {w[1].rows}
  <2>1. t.records = w[1].rows /\ t.pending = s.pending /\ ReceiptSeqs(t) = ReceiptSeqs(s)
    BY <1>1, <1>6 DEF Effect
  <2>2. Receiving(rest) /\ Len(rest.writes) = 1
    BY <1>6 DEF Receiving
  <2>3. ~Unpends(rest) /\ RowsOf(rest) = {}
    BY <1>6, RowsLeft
  <2>4. Progress(s, job, t, rest)
    BY <1>6, <2>1, <2>2, <2>3, RecordsWrite
  <2>5. QED
    BY <2>2, <2>4 DEF Stage
<1>7. CASE /\ Len(w) = 1 /\ (Building(job, s) \/ Releasing(job, s)) /\ ~Unpends(job)
           /\ w[1].table = "records"
           /\ RowsOf(job) = {w[1].rows}
  <2>1. t.records = w[1].rows /\ t.pending = s.pending /\ ReceiptSeqs(t) = ReceiptSeqs(s)
    BY <1>1, <1>7 DEF Effect
  <2>2. (Building(rest, t) \/ Releasing(rest, t)) /\ Len(rest.writes) = 0
    BY <1>7, <2>1 DEF Building, Releasing
  <2>3. ~Unpends(rest) /\ RowsOf(rest) = {}
    BY <2>2, RowsLeft
  <2>4. Progress(s, job, t, rest)
    <3>1. RowsOf(job) = {t.records} /\ Len(w) # 4 /\ Len(rest.writes) # 4 /\ ~Unpends(job)
      BY <1>7, <2>1, <2>2
    <3>2. QED
      BY <2>1, <2>3, <3>1, RecordsWrite
  <2>5. QED
    BY <2>2, <2>4 DEF Stage
<1>8. CASE /\ Len(w) = 1 /\ Receiving(job) /\ ~Unpends(job)
           /\ w[1].table = "accepted"
           /\ RowsOf(job) = {}
  <2>1. t.records = s.records /\ t.pending = s.pending /\ ReceiptSeqs(t) = ReceiptSeqs(s)
    BY <1>1, <1>8 DEF Effect
  <2>2. Releasing(rest, t) /\ Len(rest.writes) = 0
    BY <1>8 DEF Receiving, Releasing
  <2>3. ~Unpends(rest) /\ RowsOf(rest) = {}
    BY <2>2, RowsLeft
  <2>4. Progress(s, job, t, rest)
    <3>1. RowsOf(rest) = RowsOf(job) /\ Len(w) # 4 /\ Len(rest.writes) # 4 /\ ~Unpends(job)
      BY <1>8, <2>2, <2>3
    <3>2. t.pending \cup rest.submit = s.pending \cup job.submit
      BY <2>1
    <3>3. QED
      BY <2>1, <2>3, <3>1, <3>2, OtherWrite
  <2>5. QED
    BY <2>2, <2>4 DEF Stage
<1>9. QED
  <2> HIDE DEF w
  <2>1. QED
    BY <1>2, <1>3, <1>4, <1>5, <1>6, <1>7, <1>8, StageTables DEF w

LEMMA StageWrite ==
    ASSUME NEW s \in Stores, NEW job \in Jobs, Stage(job, s), job.writes # <<>>,
           NEW rest, rest = [job EXCEPT !.writes = Tail(@)],
           NEW t, t = Apply(s, Head(job.writes))
    PROVE  Stage(rest, t) /\ Progress(s, job, t, rest)
<1>1. /\ Head(job.writes) \in Transactions /\ Head(job.writes) = job.writes[1]
      /\ Len(job.writes) \in Nat \ {0}
      /\ rest.submit = job.submit /\ rest.deliver = job.deliver
      /\ Len(rest.writes) = Len(job.writes) - 1
      /\ \A i \in 1..Len(rest.writes) : rest.writes[i] = job.writes[i + 1]
  BY NextWrite
<1>2. Effect(s, job.writes[1], t)
  BY <1>1, Applied
<1>3. /\ Len(job.writes) > 1 => rest.writes[1] = job.writes[2]
      /\ Len(job.writes) > 2 => rest.writes[2] = job.writes[3]
      /\ Len(job.writes) > 3 => rest.writes[3] = job.writes[4]
      /\ Len(job.writes) # 0
  BY <1>1
<1>4. QED
  BY <1>1, <1>2, <1>3, StageStep

-----------------------------------------------------------------------------
(* What a wallet's handler does to its rows *)

Sound(s, J) == LocalOK(s, J) /\ (MidCrash \/ Settled(s, J))

\* With a wallet that has one handler or none, what it holds is read off it.
LEMMA Alone ==
    ASSUME NEW s, NEW J, LocalOK(s, J), NEW job \in J
    PROVE  J = {job}
BY DEF LocalOK

LEMMA LocalWrite ==
    ASSUME NEW s \in Stores, NEW job \in Jobs, job.writes # <<>>, Sound(s, {job}),
           NEW rest, rest = [job EXCEPT !.writes = Tail(@)],
           NEW t, t = Apply(s, Head(job.writes))
    PROVE  Sound(t, {rest}) /\ Progress(s, job, t, rest)
<1>1. Stage(job, s)
  BY DEF Sound, LocalOK
<1>2. Stage(rest, t) /\ Progress(s, job, t, rest)
  BY <1>1, StageWrite
<1>3. /\ \A b, c \in Held(t, {rest}) : b = c
      /\ \A b \in FinalPending(t, {rest}) : \A X \in FinalRows(t, {rest}) : Locked(X, b)
  BY <1>2 DEF Sound, LocalOK, Progress
<1>4. ASSUME NEW b \in Held(t, {rest})
      PROVE  Locked(t.records, b)
  <2>1. CASE t.records = s.records
    BY <1>2, <2>1 DEF Sound, LocalOK, Progress
  <2>2. CASE t.records # s.records
    BY <1>2, <2>2 DEF Sound, LocalOK, Progress
  <2>3. QED
    BY <2>1, <2>2
<1>5. LocalOK(t, {rest})
  BY <1>2, <1>3, <1>4 DEF LocalOK
<1>6. Settled(s, {job}) => Settled(t, {rest})
  BY <1>2 DEF Settled, Progress
<1>7. QED
  BY <1>2, <1>5, <1>6 DEF Sound

LEMMA LocalFinish ==
    ASSUME NEW s, NEW job, Len(job.writes) = 0, Sound(s, {job})
    PROVE  Sound(s, {}) /\ Held(s, {}) = Held(s, {job}) /\ Rows(s, {}) = Rows(s, {job})
<1>1. Stage(job, s)
  BY DEF Sound, LocalOK
<1>2. s.pending \cup job.submit = s.pending
  BY <1>1 DEF Stage, Building, Releasing, Receiving
<1>3. RowsOf(job) = {} /\ ~Unpends(job)
  BY RowsLeft
<1>4. /\ Held(s, {job}) = s.pending \cup job.submit
      /\ FinalRows(s, {job}) = (IF RowsOf(job) = {} THEN {s.records} ELSE RowsOf(job))
      /\ Rows(s, {job}) = {s.records} \cup RowsOf(job)
      /\ FinalPending(s, {job}) = (IF Unpends(job) THEN {} ELSE s.pending \cup job.submit)
      /\ FinalReceipts(s, {job}) =
            ReceiptSeqs(s) \cup (IF Len(job.writes) = 4 THEN {job.writes[1].row.bundle.seq} ELSE {})
  BY OneHandler
<1>5. /\ Held(s, {}) = s.pending /\ Rows(s, {}) = {s.records} /\ FinalRows(s, {}) = {s.records}
      /\ FinalPending(s, {}) = s.pending /\ FinalReceipts(s, {}) = ReceiptSeqs(s)
  BY NoHandler
<1>6. /\ Held(s, {}) = Held(s, {job}) /\ Rows(s, {}) = Rows(s, {job})
      /\ FinalRows(s, {}) = FinalRows(s, {job})
      /\ FinalPending(s, {}) = FinalPending(s, {job}) /\ FinalReceipts(s, {}) = FinalReceipts(s, {job})
  <2>1. FinalRows(s, {job}) = {s.records} /\ Rows(s, {job}) = {s.records}
    BY <1>3, <1>4
  <2>2. FinalPending(s, {job}) = s.pending /\ Held(s, {job}) = s.pending
    BY <1>2, <1>3, <1>4
  <2>3. FinalReceipts(s, {job}) = ReceiptSeqs(s)
    BY <1>4
  <2>4. QED
    BY <1>5, <2>1, <2>2, <2>3
<1>7. LocalOK(s, {})
  BY <1>6 DEF Sound, LocalOK
<1>8. Settled(s, {job}) => Settled(s, {})
  BY <1>6 DEF Settled
<1>9. QED
  BY <1>6, <1>7, <1>8 DEF Sound

\* A crash: the handler is gone and what it has not written with it.
LEMMA LocalCrash ==
    ASSUME NEW s, NEW J, Sound(s, J), MidCrash \/ J = {}
    PROVE  Sound(s, {}) /\ Held(s, {}) \subseteq Held(s, J) /\ Rows(s, {}) \subseteq Rows(s, J)
<1>1. Held(s, {}) = s.pending /\ Rows(s, {}) = {s.records} /\ FinalRows(s, {}) = {s.records}
      /\ FinalPending(s, {}) = s.pending
  BY NoHandler
<1>2. Held(s, {}) \subseteq Held(s, J) /\ Rows(s, {}) \subseteq Rows(s, J)
  BY <1>1 DEF Held, Rows
<1>3. LocalOK(s, {})
  BY <1>1, <1>2 DEF Sound, LocalOK
<1>4. QED
  BY <1>2, <1>3 DEF Sound

\* What is still pending when a handler that starts is done, and what its records
\* then say of it.
Leaves(s, job) == IF Unpends(job) THEN {} ELSE s.pending \cup job.submit

Kept(X, s, P) ==
    /\ \A r \in X : r.status \in {"pending", "missing"} => \E b \in P : IsPieceOf(r, b)
    /\ \A b \in P : Split(X, b) /\ b.seq \notin ReceiptSeqs(s)

\* A handler that starts.
LEMMA LocalStart ==
    ASSUME NEW s, Sound(s, {}), NEW job, Stage(job, s), NEW X, RowsOf(job) = {X},
           \A b, c \in s.pending \cup job.submit : b = c,
           \A b \in job.submit : Locked(s.records, b),
           \A b \in Leaves(s, job) : Locked(X, b),
           MidCrash \/ Kept(X, s, Leaves(s, job)),
           Len(job.writes) = 4 => Leaves(s, job) = {}
    PROVE  Sound(s, {job}) /\ Held(s, {job}) = s.pending \cup job.submit
           /\ Rows(s, {job}) = {s.records, X}
<1>1. /\ Held(s, {job}) = s.pending \cup job.submit
      /\ FinalRows(s, {job}) = (IF RowsOf(job) = {} THEN {s.records} ELSE RowsOf(job))
      /\ Rows(s, {job}) = {s.records} \cup RowsOf(job)
      /\ FinalPending(s, {job}) = (IF Unpends(job) THEN {} ELSE s.pending \cup job.submit)
      /\ FinalReceipts(s, {job}) =
            ReceiptSeqs(s) \cup (IF Len(job.writes) = 4 THEN {job.writes[1].row.bundle.seq} ELSE {})
  BY OneHandler
<1>2. /\ FinalRows(s, {job}) = {X} /\ Rows(s, {job}) = {s.records, X}
      /\ FinalPending(s, {job}) = Leaves(s, job)
  BY <1>1 DEF Leaves
<1>3. \A b \in s.pending : Locked(s.records, b)
  BY NoHandler DEF Sound, LocalOK
<1>4. LocalOK(s, {job})
  BY <1>1, <1>2, <1>3 DEF LocalOK
<1>5. \A b \in Leaves(s, job) : b.seq \notin ReceiptSeqs(s) => b.seq \notin FinalReceipts(s, {job})
  BY <1>1
<1>6. ~MidCrash => Settled(s, {job})
  BY <1>2, <1>5 DEF Settled, Kept
<1>7. QED
  BY <1>1, <1>2, <1>4, <1>6 DEF Sound

\* The handlers that start, by what they are to write and to send.
Builds(job, b, Y) ==
    /\ job.submit = {b} /\ job.deliver = {} /\ Len(job.writes) = 2
    /\ job.writes[1].table = "pending" /\ job.writes[1].row = b
    /\ job.writes[2].table = "records" /\ job.writes[2].rows = Y

RollsBack(job, b, Y) ==
    /\ job.submit = {} /\ job.deliver = {} /\ Len(job.writes) = 2
    /\ job.writes[1].table = "unpending" /\ job.writes[1].row = b
    /\ job.writes[2].table = "records" /\ job.writes[2].rows = Y

Marks(job, Y) ==
    /\ job.submit = {} /\ job.deliver = {} /\ Len(job.writes) = 1
    /\ job.writes[1].table = "records" /\ job.writes[1].rows = Y

Confirms(job, u, Y, D) ==
    /\ job.submit = {} /\ job.deliver = D /\ Len(job.writes) = 4
    /\ job.writes[1].table = "receipts" /\ job.writes[1].row = u
    /\ job.writes[2].table = "confirmed" /\ job.writes[2].row = u
    /\ job.writes[3].table = "unpending" /\ job.writes[3].row = u.bundle
    /\ job.writes[4].table = "records" /\ job.writes[4].rows = Y

Receives(job, p, Y) ==
    /\ job.submit = {} /\ job.deliver = {} /\ Len(job.writes) = 2
    /\ job.writes[1].table = "records" /\ job.writes[1].rows = Y
    /\ job.writes[2].table = "accepted" /\ job.writes[2].row = p

LEMMA Shapes ==
    ASSUME NEW s
    PROVE  /\ \A b : Builds([writes |-> BuildWrites(s, b), submit |-> {b}, deliver |-> {}],
                            b, RecordsWithPending(s.records, b))
           /\ \A b : RollsBack(Only(RollbackWrites(s, b)), b, RecordsRolledBack(s.records, b))
           /\ \A b : Marks(Only(MissingWrites(s, b)), RecordsWithMissing(s.records, b))
           /\ \A u, D : Confirms([writes |-> ConfirmWrites(s, u), submit |-> {}, deliver |-> D],
                                 u, RecordsConfirmed(s.records, u), D)
           /\ \A p : Receives(Only(ReceiveWrites(s, p)), p, s.records \cup {ReceivedRecord(p)})
<1>1. \A b : Builds([writes |-> BuildWrites(s, b), submit |-> {b}, deliver |-> {}],
                    b, RecordsWithPending(s.records, b))
  BY DEF Builds, BuildWrites
<1>2. \A b : RollsBack(Only(RollbackWrites(s, b)), b, RecordsRolledBack(s.records, b))
  BY DEF RollsBack, RollbackWrites, Only
<1>3. \A b : Marks(Only(MissingWrites(s, b)), RecordsWithMissing(s.records, b))
  BY DEF Marks, MissingWrites, Only
<1>4. \A u, D : Confirms([writes |-> ConfirmWrites(s, u), submit |-> {}, deliver |-> D],
                         u, RecordsConfirmed(s.records, u), D)
  BY DEF Confirms, ConfirmWrites
<1>5. \A p : Receives(Only(ReceiveWrites(s, p)), p, s.records \cup {ReceivedRecord(p)})
  BY DEF Receives, ReceiveWrites, Only
<1>6. QED
  BY <1>1, <1>2, <1>3, <1>4, <1>5

\* build_bundle
LEMMA LocalBuild ==
    ASSUME NEW a \in Accounts, NEW n \in Nat, NEW s \in Stores, StoreFits(s, a, n),
           Sound(s, {}), s.pending = {},
           NEW b \in Bundles, b.sender = a, b.n = n + 1, b.seq = NextSequence(s),
           \A v \in b.values : \E r \in Spendable(s.records) : v \subseteq r.value,
           NEW Y, Y = RecordsWithPending(s.records, b), NEW job, Builds(job, b, Y)
    PROVE  /\ Sound(s, {job}) /\ Held(s, {job}) = {b} /\ Rows(s, {job}) = {s.records, Y}
           /\ Building(job, s) /\ ~Unpends(job)
           /\ \A r \in s.records : ~IsPieceOf(r, b)
<1>1. s.records \in SUBSET Records
  BY DEF Stores
<1>2. \A r \in s.records : ~IsPieceOf(r, b)
  BY <1>1 DEF StoreFits, Cut, IsPieceOf, Records
<1>3. /\ \A v \in b.values : \E q \in Y : IsPieceOf(q, b) /\ q.value = v
      /\ \A q \in Y : IsPieceOf(q, b) => q.status = "pending"
      /\ \A q \in Y : IsPieceOf(q, b) \/ q \in s.records
  BY <1>1, <1>2, Cuts
<1>4. Building(job, s)
  BY <1>3 DEF Building, Split, Builds
<1>5. RowsOf(job) = {Y} /\ ~Unpends(job)
  BY RowsLeft DEF Builds
<1>6. b.seq \notin ReceiptSeqs(s)
  <2>1. \A u \in s.receipts : u.bundle.seq <= n
    BY DEF StoreFits, Fits, Stores, ConfirmedUnits, Bundles
  <2>2. QED
    BY <2>1, NextSequenceAbove
<1>7. MidCrash \/ \A r \in s.records : r.status \notin {"pending", "missing"}
  BY NoHandler DEF Sound, Settled
<1>8. Leaves(s, job) = {b} /\ s.pending \cup job.submit = {b}
  BY <1>5 DEF Leaves, Builds
<1>9. Locked(s.records, b) /\ Locked(Y, b)
  BY <1>2, <1>3 DEF Locked
<1>10. MidCrash \/ Kept(Y, s, {b})
  BY <1>3, <1>6, <1>7 DEF Kept, Split
<1>11. Sound(s, {job}) /\ Held(s, {job}) = {b} /\ Rows(s, {job}) = {s.records, Y}
  <2>1. Stage(job, s)
    BY <1>4 DEF Stage
  <2>2. Len(job.writes) # 4 /\ job.submit = {b}
    BY DEF Builds
  <2>3. /\ \A c, d \in s.pending \cup job.submit : c = d
        /\ \A c \in job.submit : Locked(s.records, c)
        /\ \A c \in Leaves(s, job) : Locked(Y, c)
        /\ MidCrash \/ Kept(Y, s, Leaves(s, job))
        /\ Len(job.writes) = 4 => Leaves(s, job) = {}
    BY <1>8, <1>9, <1>10, <2>2
  <2>4. RowsOf(job) = {Y}
    BY <1>5
  <2>5. Sound(s, {job}) /\ Held(s, {job}) = s.pending \cup job.submit /\ Rows(s, {job}) = {s.records, Y}
    BY <2>1, <2>3, <2>4, LocalStart
  <2>6. QED
    BY <1>8, <2>5
<1>12. QED
  BY <1>2, <1>4, <1>5, <1>11

\* rollback_pending_bundle
LEMMA LocalRollback ==
    ASSUME NEW s \in Stores, Sound(s, {}), NEW b \in s.pending,
           NEW Y, Y = RecordsRolledBack(s.records, b), NEW job, RollsBack(job, b, Y)
    PROVE  /\ Sound(s, {job}) /\ Held(s, {job}) = s.pending /\ Rows(s, {job}) = {s.records, Y}
           /\ Releasing(job, s) /\ Unpends(job)
<1>1. s.records \in SUBSET Records
  BY DEF Stores
<1>2. s.pending = {b}
  BY NoHandler DEF Sound, LocalOK
<1>3. Releasing(job, s)
  BY <1>2 DEF Releasing, RollsBack
<1>4. RowsOf(job) = {Y} /\ Unpends(job)
  BY RowsLeft DEF RollsBack
<1>5. MidCrash \/ \A r \in s.records : r.status \in {"pending", "missing"} => IsPieceOf(r, b)
  BY <1>2, NoHandler DEF Sound, Settled
<1>6. MidCrash \/ Kept(Y, s, {})
  BY <1>1, <1>5, RolledBackRecords DEF Kept
<1>7. Leaves(s, job) = {} /\ s.pending \cup job.submit = {b} /\ job.submit = {}
  BY <1>2, <1>4 DEF Leaves, RollsBack
<1>8. Sound(s, {job}) /\ Held(s, {job}) = {b} /\ Rows(s, {job}) = {s.records, Y}
  <2>1. Stage(job, s)
    BY <1>3 DEF Stage
  <2>2. /\ \A c, d \in s.pending \cup job.submit : c = d
        /\ \A c \in job.submit : Locked(s.records, c)
        /\ \A c \in Leaves(s, job) : Locked(Y, c)
        /\ MidCrash \/ Kept(Y, s, Leaves(s, job))
        /\ Len(job.writes) = 4 => Leaves(s, job) = {}
    BY <1>6, <1>7
  <2>3. RowsOf(job) = {Y}
    BY <1>4
  <2>4. Sound(s, {job}) /\ Held(s, {job}) = s.pending \cup job.submit /\ Rows(s, {job}) = {s.records, Y}
    BY <2>1, <2>2, <2>3, LocalStart
  <2>5. QED
    BY <1>7, <2>4
<1>9. QED
  BY <1>2, <1>3, <1>4, <1>8

\* mark_receipt_missing
LEMMA LocalMissing ==
    ASSUME NEW s \in Stores, Sound(s, {}), NEW b \in s.pending,
           NEW Y, Y = RecordsWithMissing(s.records, b), NEW job, Marks(job, Y)
    PROVE  /\ Sound(s, {job}) /\ Held(s, {job}) = s.pending /\ Rows(s, {job}) = {s.records, Y}
           /\ Releasing(job, s) /\ ~Unpends(job)
<1>1. s.records \in SUBSET Records
  BY DEF Stores
<1>2. s.pending = {b}
  BY NoHandler DEF Sound, LocalOK
<1>3. Releasing(job, s)
  BY DEF Releasing, Marks
<1>4. RowsOf(job) = {Y} /\ ~Unpends(job)
  BY RowsLeft DEF Marks
<1>5. MidCrash \/ /\ \A r \in s.records : r.status \in {"pending", "missing"} => IsPieceOf(r, b)
                  /\ Split(s.records, b) /\ b.seq \notin ReceiptSeqs(s)
  BY <1>2, NoHandler DEF Sound, Settled
<1>6. Locked(s.records, b)
  BY <1>2, NoHandler DEF Sound, LocalOK
<1>7. \A q \in Y : \E r \in s.records :
         /\ SamePiece(q, r) /\ (IsPieceOf(q, b) <=> IsPieceOf(r, b))
         /\ q.status \in {"pending", "missing"} => r.status \in {"pending", "missing"}
         /\ r.status \in {"pending", "missing"} => q.status \in {"pending", "missing"}
  BY <1>1, MissingRecords DEF SamePiece, IsPieceOf
<1>8. \A r \in s.records : \E q \in Y : SamePiece(q, r)
  BY <1>1, MissingRecords
<1>9. Locked(Y, b)
  BY <1>6, <1>7 DEF Locked
<1>10. MidCrash \/ Kept(Y, s, {b})
  BY <1>5, <1>7, <1>8 DEF Kept, Split, SamePiece, IsPieceOf
<1>11. Leaves(s, job) = {b} /\ s.pending \cup job.submit = {b} /\ job.submit = {}
  BY <1>2, <1>4 DEF Leaves, Marks
<1>12. Sound(s, {job}) /\ Held(s, {job}) = {b} /\ Rows(s, {job}) = {s.records, Y}
  <2>1. Stage(job, s)
    BY <1>3 DEF Stage
  <2>2. Len(job.writes) # 4
    BY DEF Marks
  <2>3. /\ \A c, d \in s.pending \cup job.submit : c = d
        /\ \A c \in job.submit : Locked(s.records, c)
        /\ \A c \in Leaves(s, job) : Locked(Y, c)
        /\ MidCrash \/ Kept(Y, s, Leaves(s, job))
        /\ Len(job.writes) = 4 => Leaves(s, job) = {}
    BY <1>9, <1>10, <1>11, <2>2
  <2>4. RowsOf(job) = {Y}
    BY <1>4
  <2>5. Sound(s, {job}) /\ Held(s, {job}) = s.pending \cup job.submit /\ Rows(s, {job}) = {s.records, Y}
    BY <2>1, <2>3, <2>4, LocalStart
  <2>6. QED
    BY <1>11, <2>5
<1>13. QED
  BY <1>2, <1>3, <1>4, <1>12

\* on_receipt_confirmed
LEMMA LocalConfirm ==
    ASSUME NEW s \in Stores, Sound(s, {}), NEW u \in ConfirmedUnits, u.bundle \in s.pending,
           NEW Y, Y = RecordsConfirmed(s.records, u), NEW D, NEW job, Confirms(job, u, Y, D)
    PROVE  /\ Sound(s, {job}) /\ Held(s, {job}) = s.pending /\ Rows(s, {job}) = {s.records, Y}
           /\ Releasing(job, s) /\ Unpends(job)
<1> DEFINE b == u.bundle
<1>1. s.records \in SUBSET Records
  BY DEF Stores
<1>2. s.pending = {b}
  BY NoHandler DEF Sound, LocalOK
<1>3. Releasing(job, s)
  BY <1>2 DEF Releasing, Confirms
<1>4. RowsOf(job) = {Y} /\ Unpends(job)
  BY RowsLeft DEF Confirms
<1>5. MidCrash \/ \A r \in s.records : r.status \in {"pending", "missing"} => IsPieceOf(r, b)
  BY <1>2, NoHandler DEF Sound, Settled
<1>6. MidCrash \/ Kept(Y, s, {})
  <2>1. ASSUME NEW q \in Y, ~MidCrash
        PROVE  q.status \notin {"pending", "missing"}
    <3>1. PICK r \in s.records : q = ConfirmedRecord(r, u)
      BY <1>1, ConfirmedRecords
    <3>2. r \in Records /\ (r.status \in {"pending", "missing"} => IsPieceOf(r, b))
      BY <1>1, <1>5, <2>1
    <3>3. r.status \in Statuses
      BY <3>2 DEF Records
    <3>4. QED
      BY <3>1, <3>2, <3>3, ConfirmedOne DEF Statuses
  <2>2. QED
    BY <2>1 DEF Kept
<1>7. Leaves(s, job) = {} /\ s.pending \cup job.submit = {b} /\ job.submit = {}
  BY <1>2, <1>4 DEF Leaves, Confirms
<1>8. Sound(s, {job}) /\ Held(s, {job}) = {b} /\ Rows(s, {job}) = {s.records, Y}
  <2>1. Stage(job, s)
    BY <1>3 DEF Stage
  <2>2. /\ \A c, d \in s.pending \cup job.submit : c = d
        /\ \A c \in job.submit : Locked(s.records, c)
        /\ \A c \in Leaves(s, job) : Locked(Y, c)
        /\ MidCrash \/ Kept(Y, s, Leaves(s, job))
        /\ Len(job.writes) = 4 => Leaves(s, job) = {}
    BY <1>6, <1>7
  <2>3. RowsOf(job) = {Y}
    BY <1>4
  <2>4. Sound(s, {job}) /\ Held(s, {job}) = s.pending \cup job.submit /\ Rows(s, {job}) = {s.records, Y}
    BY <2>1, <2>2, <2>3, LocalStart
  <2>5. QED
    BY <1>7, <2>4
<1>9. QED
  BY <1>2, <1>3, <1>4, <1>8

\* receive_transfer
LEMMA LocalReceive ==
    ASSUME NEW a \in Accounts, NEW n, NEW s \in Stores, StoreFits(s, a, n),
           Sound(s, {}), NEW p, p.bundle.sender # a,
           NEW Y, Y = s.records \cup {ReceivedRecord(p)}, NEW job, Receives(job, p, Y)
    PROVE  /\ Sound(s, {job}) /\ Held(s, {job}) = s.pending /\ Rows(s, {job}) = {s.records, Y}
           /\ Receiving(job) /\ ~Unpends(job)
<1>1. Receiving(job)
  BY DEF Receiving, Receives
<1>2. RowsOf(job) = {Y} /\ ~Unpends(job)
  BY RowsLeft DEF Receives
<1>3. /\ \A b, c \in s.pending : b = c
      /\ \A b \in s.pending : Locked(s.records, b)
      /\ MidCrash \/ Kept(s.records, s, s.pending)
  BY NoHandler DEF Sound, LocalOK, Settled, Kept
<1>4. /\ \A b \in s.pending : ~IsPieceOf(ReceivedRecord(p), b)
      /\ ReceivedRecord(p).status = "spendable"
  BY DEF StoreFits, Fits, IsPieceOf, ReceivedRecord
<1>5. \A b \in s.pending : Locked(Y, b)
  BY <1>3, <1>4 DEF Locked
<1>6. MidCrash \/ Kept(Y, s, s.pending)
  BY <1>3, <1>4 DEF Kept, Split
<1>7. Leaves(s, job) = s.pending /\ s.pending \cup job.submit = s.pending /\ job.submit = {}
  BY <1>2 DEF Leaves, Receives
<1>8. QED
  <2>1. Stage(job, s)
    BY <1>1 DEF Stage
  <2>2. Len(job.writes) # 4
    BY DEF Receives
  <2>3. /\ \A c, d \in s.pending \cup job.submit : c = d
        /\ \A c \in job.submit : Locked(s.records, c)
        /\ \A c \in Leaves(s, job) : Locked(Y, c)
        /\ MidCrash \/ Kept(Y, s, Leaves(s, job))
        /\ Len(job.writes) = 4 => Leaves(s, job) = {}
    BY <1>3, <1>5, <1>6, <1>7, <2>2
  <2>4. RowsOf(job) = {Y}
    BY <1>2
  <2>5. Sound(s, {job}) /\ Held(s, {job}) = s.pending \cup job.submit /\ Rows(s, {job}) = {s.records, Y}
    BY <2>1, <2>3, <2>4, LocalStart
  <2>6. QED
    BY <1>1, <1>2, <1>7, <2>5

-----------------------------------------------------------------------------
(* With one handler at a time, what each action starts *)

LocalState == \A a \in Accounts : Sound(store[a], jobs[a]) /\ (up[a] \/ jobs[a] = {})

\* The handler of the action is the only one of its host.
Begins(a, job) ==
    /\ up[a] /\ jobs[a] = {} /\ job \in Jobs
    /\ jobs'[a] = {job}
    /\ \A c \in Accounts \ {a} : jobs'[c] = jobs[c]

LEMMA Types ==
    ASSUME Typed, NEW a \in Accounts
    PROVE  /\ store[a] \in Stores /\ jobs[a] \in SUBSET Jobs
           /\ StoreFits(store[a], a, attempts[a]) /\ attempts[a] \in Nat
           /\ \A job \in jobs[a] : JobFits(job, a, attempts[a])
           /\ receiptsTo[a] \in SUBSET ConfirmedUnits /\ packagesTo[a] \in SUBSET Packages
           /\ \A u \in receiptsTo[a] : Fits(u.bundle, a, attempts[a])
           /\ \A p \in packagesTo[a] : p.bundle.to = a /\ p.bundle.to # p.bundle.sender
BY DEF Typed, TypeOK, Numbered

LEMMA FreeIsIdle ==
    ASSUME Threads = 1, LocalState, NEW a \in Accounts, Free(a)
    PROVE  up[a] /\ jobs[a] = {} /\ Sound(store[a], {})
<1>1. \A j, k \in jobs[a] : j = k
  BY DEF LocalState, Sound, LocalOK
<1>2. ASSUME NEW job \in jobs[a]
      PROVE  FALSE
  <2>1. jobs[a] = {job}
    BY <1>1
  <2>2. Cardinality({job}) = 1
    BY FS_Singleton
  <2>3. QED
    BY <2>1, <2>2 DEF Free
<1>3. jobs[a] = {}
  BY <1>2
<1>4. QED
  BY <1>3 DEF Free, LocalState

LEMMA StartsBegins ==
    ASSUME Typed, Threads = 1, LocalState, NEW a \in Accounts, Free(a), NEW job \in Jobs, Starts(a, job)
    PROVE  Begins(a, job)
<1>1. up[a] /\ jobs[a] = {}
  BY FreeIsIdle
<1>2. jobs \in [Accounts -> SUBSET Jobs]
  BY DEF Typed, TypeOK
<1>3. QED
  BY <1>1, <1>2 DEF Begins, Starts

LEMMA BuildStarts ==
    ASSUME Typed, Threads = 1, LocalState, NEW a \in Accounts, NEW to \in Accounts \ {a},
           NEW values \in Selections(store[a].records), Build(a, to, values)
    PROVE  \E b, job :
              /\ b \in Bundles /\ b.sender = a /\ b.n = attempts[a] + 1 /\ b.seq = NextSequence(store[a])
              /\ b.to = to /\ b.values = values
              /\ \A v \in values : v \in Ranges /\ \E r \in Spendable(store[a].records) : v \subseteq r.value
              /\ Builds(job, b, RecordsWithPending(store[a].records, b))
              /\ Begins(a, job)
<1> DEFINE s == store[a]
           b == [sender |-> a, n |-> attempts[a] + 1, seq |-> NextSequence(s), to |-> to,
                 values |-> values]
           job == [writes |-> BuildWrites(s, b), submit |-> {b}, deliver |-> {}]
<1>1. s \in Stores /\ StoreFits(s, a, attempts[a]) /\ attempts[a] \in Nat
  BY Types
<1>2. b \in Bundles /\ job \in Jobs
  BY <1>1, BuildJob
<1>3. Builds(job, b, RecordsWithPending(s.records, b))
  BY Shapes
<1>4. Free(a) /\ Starts(a, job)
  BY DEF Build
<1>5. \A v \in values : v \in Ranges /\ \E r \in Spendable(s.records) : v \subseteq r.value
  BY <1>1, SelectionFacts DEF Stores
<1>6. b.sender = a /\ b.n = attempts[a] + 1 /\ b.seq = NextSequence(s) /\ b.to = to /\ b.values = values
  OBVIOUS
<1> HIDE DEF b, job
<1>7. Begins(a, job)
  BY <1>2, <1>4, StartsBegins
<1>8. QED
  BY <1>2, <1>3, <1>5, <1>6, <1>7

LEMMA RollbackStarts ==
    ASSUME Typed, Threads = 1, LocalState, NEW a \in Accounts, Free(a), NEW b \in store[a].pending,
           Starts(a, Only(RollbackWrites(store[a], b)))
    PROVE  \E job : RollsBack(job, b, RecordsRolledBack(store[a].records, b)) /\ Begins(a, job)
<1> DEFINE job == Only(RollbackWrites(store[a], b))
<1>1. RollsBack(job, b, RecordsRolledBack(store[a].records, b))
  BY Shapes
<1>2. job \in Jobs
  BY Types, RollbackJob
<1> HIDE DEF job
<1>3. Begins(a, job)
  BY <1>2, StartsBegins DEF job
<1>4. QED
  BY <1>1, <1>3

LEMMA MissingStarts ==
    ASSUME Typed, Threads = 1, LocalState, NEW a \in Accounts, Free(a), NEW b \in store[a].pending,
           Starts(a, Only(MissingWrites(store[a], b)))
    PROVE  \E job : Marks(job, RecordsWithMissing(store[a].records, b)) /\ Begins(a, job)
<1> DEFINE job == Only(MissingWrites(store[a], b))
<1>1. Marks(job, RecordsWithMissing(store[a].records, b))
  BY Shapes
<1>2. job \in Jobs
  BY Types, MissingJob
<1> HIDE DEF job
<1>3. Begins(a, job)
  BY <1>2, StartsBegins DEF job
<1>4. QED
  BY <1>1, <1>3

LEMMA ConfirmStarts ==
    ASSUME Typed, Threads = 1, LocalState, NEW a \in Accounts, Free(a),
           NEW u \in ConfirmedUnits, u.bundle \in store[a].pending, Fits(u.bundle, a, attempts[a]),
           NEW D, D = PackagesOf(RecordsConfirmed(store[a].records, u), u),
           Starts(a, [writes |-> ConfirmWrites(store[a], u), submit |-> {}, deliver |-> D])
    PROVE  \E job : Confirms(job, u, RecordsConfirmed(store[a].records, u), D) /\ Begins(a, job)
<1> DEFINE job == [writes |-> ConfirmWrites(store[a], u), submit |-> {}, deliver |-> D]
<1>1. Confirms(job, u, RecordsConfirmed(store[a].records, u), D)
  BY Shapes
<1>2. job \in Jobs
  <2>1. store[a] \in Stores /\ StoreFits(store[a], a, attempts[a]) /\ attempts[a] \in Nat
    BY Types
  <2>2. job = [writes |-> ConfirmWrites(store[a], u), submit |-> {}, deliver |-> D]
    OBVIOUS
  <2> HIDE DEF job
  <2>3. QED
    BY <2>1, <2>2, ConfirmJob
<1>3. Starts(a, job)
  OBVIOUS
<1> HIDE DEF job
<1>4. Begins(a, job)
  BY <1>2, <1>3, StartsBegins
<1>5. QED
  BY <1>1, <1>4

LEMMA ReceiveStarts ==
    ASSUME Typed, Threads = 1, LocalState, NEW a \in Accounts, Free(a),
           NEW p \in packagesTo[a], Valid(p), Starts(a, Only(ReceiveWrites(store[a], p)))
    PROVE  \E job : Receives(job, p, store[a].records \cup {ReceivedRecord(p)}) /\ Begins(a, job)
<1> DEFINE job == Only(ReceiveWrites(store[a], p))
<1>1. Receives(job, p, store[a].records \cup {ReceivedRecord(p)})
  BY Shapes
<1>2. job \in Jobs
  <2>1. store[a] \in Stores /\ StoreFits(store[a], a, attempts[a]) /\ attempts[a] \in Nat
        /\ p \in Packages /\ p.bundle.sender # a
    BY Types
  <2>2. job = Only(ReceiveWrites(store[a], p))
    OBVIOUS
  <2> HIDE DEF job
  <2>3. QED
    BY <2>1, <2>2, ReceiveJob
<1> HIDE DEF job
<1>3. Begins(a, job)
  BY <1>2, StartsBegins DEF job
<1>4. QED
  BY <1>1, <1>3

LEMMA WriteMoves ==
    ASSUME Typed, LocalState, NEW a \in Accounts, NEW job \in jobs[a], Write(a, job)
    PROVE  \E rest \in Jobs, t \in Stores :
              /\ job \in Jobs /\ job.writes # <<>>
              /\ rest = [job EXCEPT !.writes = Tail(@)] /\ t = Apply(store[a], Head(job.writes))
              /\ up[a] /\ jobs[a] = {job} /\ jobs'[a] = {rest} /\ store'[a] = t
              /\ \A c \in Accounts \ {a} : jobs'[c] = jobs[c] /\ store'[c] = store[c]
<1> DEFINE rest == [job EXCEPT !.writes = Tail(@)]
           t == Apply(store[a], Head(job.writes))
<1>1. job \in Jobs /\ job.writes # <<>> /\ store[a] \in Stores
  BY Types DEF Write
<1>2. rest \in Jobs /\ Head(job.writes) \in Transactions
  BY <1>1, NextWrite
<1>3. t \in Stores
  BY <1>1, <1>2, ApplyType
<1>4. jobs[a] = {job} /\ up[a]
  BY Alone DEF LocalState, Sound
<1>5. /\ store' = [store EXCEPT ![a] = t]
      /\ jobs' = [jobs EXCEPT ![a] = (@ \ {job}) \cup {rest}]
      /\ jobs \in [Accounts -> SUBSET Jobs] /\ store \in [Accounts -> Stores]
  BY DEF Write, Typed, TypeOK
<1> HIDE DEF rest, t
<1>6. /\ jobs'[a] = {rest} /\ store'[a] = t
      /\ \A c \in Accounts \ {a} : jobs'[c] = jobs[c] /\ store'[c] = store[c]
  BY <1>4, <1>5
<1>7. QED
  BY <1>1, <1>2, <1>3, <1>4, <1>6 DEF rest, t

LEMMA FinishMoves ==
    ASSUME Typed, LocalState, NEW a \in Accounts, NEW job \in jobs[a], Finish(a, job)
    PROVE  /\ job \in Jobs /\ Len(job.writes) = 0
           /\ up[a] /\ jobs[a] = {job} /\ jobs'[a] = {}
           /\ \A c \in Accounts \ {a} : jobs'[c] = jobs[c]
<1>1. jobs[a] = {job} /\ up[a]
  BY Alone DEF LocalState, Sound
<1>2. job \in Jobs /\ jobs \in [Accounts -> SUBSET Jobs]
  BY Types DEF Typed, TypeOK
<1>3. jobs' = [jobs EXCEPT ![a] = @ \ {job}] /\ job.writes = <<>>
  BY DEF Finish
<1>4. QED
  BY <1>1, <1>2, <1>3

-----------------------------------------------------------------------------
(* A wallet between two handlers *)

LEMMA LocalStep ==
    ASSUME LocalState, NEW a \in Accounts,
           \A c \in Accounts \ {a} : store'[c] = store[c] /\ jobs'[c] = jobs[c] /\ up'[c] = up[c],
           Sound(store'[a], jobs'[a]), up'[a] \/ jobs'[a] = {}
    PROVE  LocalState'
<1> SUFFICES ASSUME NEW c \in Accounts
             PROVE  Sound(store'[c], jobs'[c]) /\ (up'[c] \/ jobs'[c] = {})
  BY DEF LocalState, Sound
<1>1. CASE c = a
  BY <1>1
<1>2. CASE c # a
  BY <1>2 DEF LocalState
<1>3. QED
  BY <1>1, <1>2

\* Whatever starts a handler leaves the host's tables alone.
LEMMA LocalBegins ==
    ASSUME LocalState, NEW a \in Accounts, NEW job, Begins(a, job), store' = store, up' = up,
           Sound(store[a], {job})
    PROVE  LocalState'
BY LocalStep DEF Begins

LEMMA LocalStays ==
    ASSUME LocalState, UNCHANGED <<store, jobs, up>>
    PROVE  LocalState'
BY DEF LocalState, Sound

LEMMA LocalInit == Init => LocalState
<1> SUFFICES ASSUME Init, NEW a \in Accounts
             PROVE  Sound(store[a], jobs[a]) /\ up[a]
  BY DEF LocalState
<1>1. jobs[a] = {} /\ up[a] /\ store[a] = FirstStore(a)
  BY DEF Init
<1>2. /\ store[a].pending = {}
      /\ \A r \in store[a].records : r.status = "spendable"
  BY <1>1 DEF FirstStore
<1>3. LocalOK(store[a], {}) /\ Settled(store[a], {})
  BY <1>2, NoHandler DEF LocalOK, Settled
<1>4. QED
  BY <1>1, <1>3 DEF Sound

LEMMA LocalRollsBack ==
    ASSUME Typed, Threads = 1, LocalState, NEW a \in Accounts, Free(a), store' = store, up' = up,
           NEW b \in store[a].pending, Starts(a, Only(RollbackWrites(store[a], b)))
    PROVE  LocalState'
<1>1. PICK job : RollsBack(job, b, RecordsRolledBack(store[a].records, b)) /\ Begins(a, job)
  BY RollbackStarts
<1>2. Sound(store[a], {}) /\ store[a] \in Stores
  BY FreeIsIdle, Types
<1>3. Sound(store[a], {job})
  BY <1>1, <1>2, LocalRollback
<1>4. QED
  BY <1>1, <1>3, LocalBegins

LEMMA LocalNext == Threads = 1 /\ Typed /\ LocalState /\ [Next]_vars => LocalState'
<1> SUFFICES ASSUME Threads = 1, Typed, LocalState, [Next]_vars
             PROVE  LocalState'
  OBVIOUS
<1>1. ASSUME NEW a \in Accounts, NEW to \in Accounts \ {a},
             NEW values \in Selections(store[a].records) \ {{}}, Build(a, to, values)
      PROVE  LocalState'
  <2>1. PICK b, job :
              /\ b \in Bundles /\ b.sender = a /\ b.n = attempts[a] + 1 /\ b.seq = NextSequence(store[a])
              /\ b.to = to /\ b.values = values
              /\ \A v \in values : v \in Ranges /\ \E r \in Spendable(store[a].records) : v \subseteq r.value
              /\ Builds(job, b, RecordsWithPending(store[a].records, b))
              /\ Begins(a, job)
    BY <1>1, BuildStarts
  <2>2. /\ Sound(store[a], {}) /\ store[a] \in Stores /\ store[a].pending = {}
        /\ StoreFits(store[a], a, attempts[a]) /\ attempts[a] \in Nat
        /\ store' = store /\ up' = up
    BY <1>1, FreeIsIdle, Types DEF Build
  <2>3. Sound(store[a], {job})
    <3> DEFINE Y == RecordsWithPending(store[a].records, b)
    <3>1. \A v \in b.values : \E r \in Spendable(store[a].records) : v \subseteq r.value
      BY <2>1
    <3>2. Builds(job, b, Y) /\ b.sender = a /\ b.n = attempts[a] + 1 /\ b.seq = NextSequence(store[a])
      BY <2>1
    <3>3. PICK s, n : s = store[a] /\ n = attempts[a]
      OBVIOUS
    <3>4. /\ s \in Stores /\ b \in Bundles /\ n \in Nat /\ StoreFits(s, a, n) /\ Sound(s, {}) /\ s.pending = {}
          /\ \A v \in b.values : \E r \in Spendable(s.records) : v \subseteq r.value
          /\ b.sender = a /\ b.n = n + 1 /\ b.seq = NextSequence(s)
          /\ Builds(job, b, RecordsWithPending(s.records, b))
      BY <2>1, <2>2, <3>1, <3>2, <3>3
    <3>5. Sound(s, {job})
      BY <3>4, LocalBuild
    <3>6. QED
      BY <3>3, <3>5
  <2>4. QED
    BY <2>1, <2>2, <2>3, LocalBegins
<1>2. ASSUME NEW a \in Accounts, NEW job \in jobs[a], Write(a, job)
      PROVE  LocalState'
  <2>1. PICK rest \in Jobs, t \in Stores :
              /\ job \in Jobs /\ job.writes # <<>>
              /\ rest = [job EXCEPT !.writes = Tail(@)] /\ t = Apply(store[a], Head(job.writes))
              /\ up[a] /\ jobs[a] = {job} /\ jobs'[a] = {rest} /\ store'[a] = t
              /\ \A c \in Accounts \ {a} : jobs'[c] = jobs[c] /\ store'[c] = store[c]
    BY <1>2, WriteMoves
  <2>2. Sound(store[a], {job}) /\ store[a] \in Stores /\ up' = up
    BY <1>2, <2>1, Types DEF LocalState, Write
  <2>3. Sound(t, {rest})
    BY <2>1, <2>2, LocalWrite
  <2>4. QED
    BY <2>1, <2>2, <2>3, LocalStep
<1>3. ASSUME NEW a \in Accounts, NEW job \in jobs[a], Finish(a, job)
      PROVE  LocalState'
  <2>1. /\ job \in Jobs /\ Len(job.writes) = 0
        /\ up[a] /\ jobs[a] = {job} /\ jobs'[a] = {}
        /\ \A c \in Accounts \ {a} : jobs'[c] = jobs[c]
    BY <1>3, FinishMoves
  <2>2. Sound(store[a], {job}) /\ store' = store /\ up' = up
    BY <1>3, <2>1 DEF LocalState, Finish
  <2>3. Sound(store[a], {})
    BY <2>1, <2>2, LocalFinish
  <2>4. QED
    BY <2>1, <2>2, <2>3, LocalStep
<1>4. ASSUME NEW a \in Accounts, Answer(a)
      PROVE  LocalState'
  BY <1>4, LocalRollsBack, LocalStays DEF Answer
<1>5. ASSUME NEW a \in Accounts, Timeout(a)
      PROVE  LocalState'
  BY <1>5, LocalRollsBack, LocalStays DEF Timeout
<1>6. ASSUME NEW a \in Accounts, NEW u \in receiptsTo[a], TakeReceipt(a, u)
      PROVE  LocalState'
  <2>1. Free(a) /\ store' = store /\ up' = up
    BY <1>6 DEF TakeReceipt
  <2>2. CASE jobs' = jobs
    BY <2>1, <2>2, LocalStays
  <2> DEFINE D == PackagesOf(RecordsConfirmed(store[a].records, u), u)
  <2>3. CASE /\ u.bundle \in store[a].pending
             /\ Starts(a, [writes |-> ConfirmWrites(store[a], u), submit |-> {}, deliver |-> D])
    <3>1. u \in ConfirmedUnits /\ Fits(u.bundle, a, attempts[a]) /\ store[a] \in Stores
      BY Types
    <3> HIDE DEF D
    <3>2. D = PackagesOf(RecordsConfirmed(store[a].records, u), u)
      BY DEF D
    <3>3. PICK job : Confirms(job, u, RecordsConfirmed(store[a].records, u), D) /\ Begins(a, job)
      BY <2>1, <2>3, <3>1, <3>2, ConfirmStarts
    <3>4. Sound(store[a], {job})
      BY <2>1, <2>3, <3>1, <3>3, FreeIsIdle, LocalConfirm
    <3>5. QED
      BY <2>1, <3>3, <3>4, LocalBegins
  <2>4. QED
    BY <1>6, <2>2, <2>3 DEF TakeReceipt, AcceptsReceipt
<1>7. ASSUME NEW a \in Accounts, NEW p \in packagesTo[a], TakePackage(a, p)
      PROVE  LocalState'
  <2>1. Free(a) /\ store' = store /\ up' = up
    BY <1>7 DEF TakePackage
  <2>2. CASE jobs' = jobs
    BY <2>1, <2>2, LocalStays
  <2>3. CASE Valid(p) /\ Starts(a, Only(ReceiveWrites(store[a], p)))
    <3>1. /\ StoreFits(store[a], a, attempts[a]) /\ store[a] \in Stores /\ attempts[a] \in Nat
          /\ p.bundle.sender # a
      BY Types
    <3>2. PICK job : Receives(job, p, store[a].records \cup {ReceivedRecord(p)}) /\ Begins(a, job)
      BY <2>1, <2>3, ReceiveStarts
    <3>3. Sound(store[a], {job})
      BY <2>1, <3>1, <3>2, FreeIsIdle, LocalReceive
    <3>4. QED
      BY <2>1, <3>2, <3>3, LocalBegins
  <2>4. QED
    BY <1>7, <2>2, <2>3 DEF TakePackage
<1>8. ASSUME NEW a \in Accounts, NEW b \in store[a].pending, PullMissed(a, b)
      PROVE  LocalState'
  <2>1. Free(a) /\ store' = store /\ up' = up /\ Starts(a, Only(MissingWrites(store[a], b)))
    BY <1>8 DEF PullMissed
  <2>2. PICK job : Marks(job, RecordsWithMissing(store[a].records, b)) /\ Begins(a, job)
    BY <2>1, MissingStarts
  <2>3. Sound(store[a], {job})
    BY <2>1, <2>2, FreeIsIdle, Types, LocalMissing
  <2>4. QED
    BY <2>1, <2>2, <2>3, LocalBegins
<1>9. ASSUME NEW a \in Accounts, Crash(a)
      PROVE  LocalState'
  <2>1. /\ store' = store /\ up' = [up EXCEPT ![a] = FALSE] /\ jobs' = [jobs EXCEPT ![a] = {}]
        /\ MidCrash \/ jobs[a] = {}
        /\ up \in [Accounts -> BOOLEAN] /\ jobs \in [Accounts -> SUBSET Jobs]
    BY <1>9 DEF Crash, Typed, TypeOK
  <2>2. Sound(store[a], {})
    BY <2>1, LocalCrash DEF LocalState
  <2>3. QED
    BY <2>1, <2>2, LocalStep
<1>10. ASSUME NEW a \in Accounts, Restart(a)
       PROVE  LocalState'
  <2>1. /\ store' = store /\ up' = [up EXCEPT ![a] = TRUE] /\ jobs' = jobs
        /\ up \in [Accounts -> BOOLEAN]
    BY <1>10 DEF Restart, Typed, TypeOK
  <2>2. Sound(store[a], jobs[a])
    BY DEF LocalState
  <2>3. QED
    BY <2>1, <2>2, LocalStep
<1>11. ASSUME NEW a \in Accounts, NEW b \in store[a].pending, Pull(a, b)
       PROVE  LocalState'
  BY <1>11, LocalStays DEF Pull
<1>12. ASSUME NEW b \in submissions, Arrive(b)
       PROVE  LocalState'
  BY <1>12, LocalStays DEF Arrive
<1>13. CASE Commit \/ UNCHANGED vars
  BY <1>13, LocalStays DEF Commit, vars
<1>14. QED
  BY <1>1, <1>2, <1>3, <1>4, <1>5, <1>6, <1>7, <1>8, <1>9, <1>10, <1>11, <1>12, <1>13 DEF Next

\* A wallet between two handlers: every locked value belongs to the pending row
\* and the pending row's pieces are locked.  on_receipt_confirmed commits in four
\* transactions and build_bundle in two, so this is for hosts with one handler
\* at a time that no crash cuts short.
THEOREM LocksFollowPending ==
    ASSUME Threads = 1, MidCrash = FALSE
    PROVE  Spec => []LocksMatchPending
<1>1. LocalState => LocksMatchPending
  <2> SUFFICES ASSUME LocalState, NEW a \in Accounts, Idle(a)
               PROVE  /\ \A r \in store[a].records : r.status \in {"pending", "missing"} =>
                            \E b \in store[a].pending : IsPieceOf(r, b)
                      /\ \A b \in store[a].pending :
                            /\ \A v \in b.values :
                                  \E r \in store[a].records : IsPieceOf(r, b) /\ r.value = v
                            /\ \A r \in store[a].records :
                                  IsPieceOf(r, b) => r.status \in {"pending", "missing"}
    BY DEF LocksMatchPending
  <2>1. LocalOK(store[a], {}) /\ Settled(store[a], {})
    BY DEF LocalState, Sound, Idle
  <2>2. QED
    BY <2>1, NoHandler DEF LocalOK, Settled, Split, Locked
<1>2. Init => Typed /\ LocalState
  BY InitTyped, LocalInit
<1>3. Typed /\ LocalState /\ [Next]_vars => Typed' /\ LocalState'
  BY NextTyped, LocalNext
<1>4. QED
  BY <1>1, <1>2, <1>3, PTL DEF Spec

\* A pending row's receipt is still to come: the handler that stores the receipt
\* deletes the row before it ends.  Under the same conditions.
THEOREM PendingRowsAwaitReceipts ==
    ASSUME Threads = 1, MidCrash = FALSE
    PROVE  Spec => []PendingAwaitsReceipt
<1>1. LocalState => PendingAwaitsReceipt
  <2> SUFFICES ASSUME LocalState, NEW a \in Accounts, Idle(a), NEW b \in store[a].pending
               PROVE  b.seq \notin ReceiptSeqs(store[a])
    BY DEF PendingAwaitsReceipt
  <2>1. Settled(store[a], {})
    BY DEF LocalState, Sound, Idle
  <2>2. QED
    BY <2>1, NoHandler DEF Settled
<1>2. Init => Typed /\ LocalState
  BY InitTyped, LocalInit
<1>3. Typed /\ LocalState /\ [Next]_vars => Typed' /\ LocalState'
  BY NextTyped, LocalNext
<1>4. QED
  BY <1>1, <1>2, <1>3, PTL DEF Spec

===============================================================================
