--------------------------- MODULE OwnershipProofs ----------------------------
(***************************************************************************)
(* Theorems about what the account hosts of Payments.tla own: the chain of *)
(* confirmed bundles, who still has to hear of which, and the value ranges *)
(* that wallets spend; then what a host can do with what it owns.          *)
(***************************************************************************)
EXTENDS PaymentsProofs

-----------------------------------------------------------------------------
(* The consensus hosts: one chain of bundles for each account *)

ChainOK(a) ==
    /\ IsFiniteSet(ReceiptsFor(a))
    /\ {u.bundle.seq : u \in ReceiptsFor(a)} = 1..ConfirmedSeq(a)
    /\ \A u, w \in ReceiptsFor(a) : u.bundle.seq = w.bundle.seq => u = w

\* The pool holds each account's next bundle and no other.
PoolOK ==
    /\ \A b \in pool : b.seq = ConfirmedSeq(b.sender) + 1
    /\ \A b, c \in pool : b.sender = c.sender => b = c

ChainState == PoolOK /\ \A a \in Accounts : ChainOK(a)

LEMMA SeqIsNat ==
    ASSUME NEW a \in Accounts, ChainOK(a)
    PROVE  ConfirmedSeq(a) \in Nat
BY FS_CardinalityType DEF ChainOK, ConfirmedSeq

LEMMA ChainInit == Init => ChainState
<1> SUFFICES ASSUME Init PROVE ChainState
  OBVIOUS
<1>1. ASSUME NEW a \in Accounts
      PROVE  ChainOK(a)
  <2>1. ReceiptsFor(a) = {}
    BY DEF Init, ReceiptsFor
  <2>2. ConfirmedSeq(a) = 0 /\ IsFiniteSet(ReceiptsFor(a))
    BY <2>1, FS_EmptySet DEF ConfirmedSeq
  <2>3. QED
    BY <2>1, <2>2 DEF ChainOK
<1>2. PoolOK
  BY DEF Init, PoolOK
<1>3. QED
  BY <1>1, <1>2 DEF ChainState

LEMMA ChainStays ==
    ASSUME ChainState, UNCHANGED <<pool, blocks>>
    PROVE  ChainState'
BY DEF ChainState, ChainOK, PoolOK, ConfirmedSeq, ReceiptsFor

\* What a block does for one account.
LEMMA CommitOne ==
    ASSUME Typed, ChainState, Commit, NEW a \in Accounts
    PROVE  \/ /\ \A b \in pool : b.sender # a
              /\ ReceiptsFor(a)' = ReceiptsFor(a) /\ ConfirmedSeq(a)' = ConfirmedSeq(a)
           \/ \E b \in pool :
                 /\ b.sender = a /\ \A c \in pool : c.sender = a => c = b
                 /\ b.seq = ConfirmedSeq(a) + 1
                 /\ ReceiptsFor(a)' = ReceiptsFor(a) \cup {[bundle |-> b, height |-> Len(blocks) + 1]}
                 /\ [bundle |-> b, height |-> Len(blocks) + 1] \notin ReceiptsFor(a)
                 /\ ConfirmedSeq(a)' = ConfirmedSeq(a) + 1
<1>1. ReceiptsFor(a)' = ReceiptsFor(a) \cup NewReceipts(a)
  BY CommitFacts DEF Typed
<1>2. ASSUME \A b \in pool : b.sender # a
      PROVE  ReceiptsFor(a)' = ReceiptsFor(a) /\ ConfirmedSeq(a)' = ConfirmedSeq(a)
  BY <1>1, <1>2 DEF NewReceipts, ConfirmedSeq
<1>3. ASSUME NEW b \in pool, b.sender = a
      PROVE  /\ \A c \in pool : c.sender = a => c = b
             /\ b.seq = ConfirmedSeq(a) + 1
             /\ ReceiptsFor(a)' = ReceiptsFor(a) \cup {[bundle |-> b, height |-> Len(blocks) + 1]}
             /\ [bundle |-> b, height |-> Len(blocks) + 1] \notin ReceiptsFor(a)
             /\ ConfirmedSeq(a)' = ConfirmedSeq(a) + 1
  <2> DEFINE u == [bundle |-> b, height |-> Len(blocks) + 1]
  <2>1. (\A c \in pool : c.sender = a => c = b) /\ b.seq = ConfirmedSeq(a) + 1
    BY <1>3 DEF ChainState, PoolOK
  <2>2. {x \in pool : x.sender = a} = {b}
    BY <1>3, <2>1
  <2>3. NewReceipts(a) = {u}
    BY <2>2 DEF NewReceipts
  <2>4. u \notin ReceiptsFor(a)
    <3>1. SUFFICES ASSUME u \in ReceiptsFor(a) PROVE FALSE
      OBVIOUS
    <3>2. u.bundle.seq \in 1..ConfirmedSeq(a)
      BY <3>1 DEF ChainState, ChainOK
    <3>3. ConfirmedSeq(a) \in Nat
      BY SeqIsNat DEF ChainState
    <3>4. QED
      BY <2>1, <3>2, <3>3
  <2>5. ReceiptsFor(a)' = ReceiptsFor(a) \cup {u}
    BY <1>1, <2>3
  <2> HIDE DEF u
  <2>6. ConfirmedSeq(a)' = ConfirmedSeq(a) + 1
    BY <2>4, <2>5, FS_AddElement DEF ConfirmedSeq, ChainState, ChainOK
  <2>7. QED
    BY <2>1, <2>4, <2>5, <2>6 DEF u
<1>4. QED
  BY <1>2, <1>3

LEMMA ChainCommit ==
    ASSUME Typed, ChainState, Commit
    PROVE  ChainState'
<1>1. ASSUME NEW a \in Accounts
      PROVE  ChainOK(a)'
  <2>1. CASE ReceiptsFor(a)' = ReceiptsFor(a) /\ ConfirmedSeq(a)' = ConfirmedSeq(a)
    BY <2>1 DEF ChainState, ChainOK
  <2>2. CASE \E b \in pool :
                /\ b.seq = ConfirmedSeq(a) + 1
                /\ ReceiptsFor(a)' = ReceiptsFor(a) \cup {[bundle |-> b, height |-> Len(blocks) + 1]}
                /\ ConfirmedSeq(a)' = ConfirmedSeq(a) + 1
    <3>1. PICK b \in pool :
                /\ b.seq = ConfirmedSeq(a) + 1
                /\ ReceiptsFor(a)' = ReceiptsFor(a) \cup {[bundle |-> b, height |-> Len(blocks) + 1]}
                /\ ConfirmedSeq(a)' = ConfirmedSeq(a) + 1
      BY <2>2
    <3> DEFINE u == [bundle |-> b, height |-> Len(blocks) + 1]
               k == ConfirmedSeq(a)
               R == ReceiptsFor(a)
    <3>2. /\ IsFiniteSet(R) /\ {w.bundle.seq : w \in R} = 1..k
          /\ \A v, w \in R : v.bundle.seq = w.bundle.seq => v = w
          /\ k \in Nat
      BY SeqIsNat DEF ChainState, ChainOK
    <3>3. u.bundle.seq = k + 1 /\ ReceiptsFor(a)' = R \cup {u} /\ ConfirmedSeq(a)' = k + 1
      BY <3>1
    <3> HIDE DEF u, k, R
    <3>4. IsFiniteSet(R \cup {u})
      BY <3>2, FS_AddElement
    <3>5. {w.bundle.seq : w \in R \cup {u}} = 1..(k + 1)
      <4>1. {w.bundle.seq : w \in R \cup {u}} = 1..k \cup {k + 1}
        BY <3>2, <3>3
      <4>2. 1..k \cup {k + 1} = 1..(k + 1)
        BY <3>2
      <4>3. QED
        BY <4>1, <4>2
    <3>6. \A v, w \in R \cup {u} : v.bundle.seq = w.bundle.seq => v = w
      <4>1. \A w \in R : w.bundle.seq \in 1..k
        BY <3>2
      <4>2. k + 1 \notin 1..k
        BY <3>2
      <4>3. QED
        BY <3>2, <3>3, <4>1, <4>2
    <3>7. QED
      BY <3>3, <3>4, <3>5, <3>6 DEF ChainOK
  <2>3. QED
    BY <2>1, <2>2, CommitOne
<1>2. PoolOK'
  BY DEF Commit, PoolOK
<1>3. QED
  BY <1>1, <1>2 DEF ChainState

LEMMA ChainArrive ==
    ASSUME ChainState, NEW b \in submissions, Arrive(b)
    PROVE  ChainState'
<1>1. blocks' = blocks
  BY DEF Arrive
<1>2. \A a \in Accounts : ReceiptsFor(a)' = ReceiptsFor(a) /\ ConfirmedSeq(a)' = ConfirmedSeq(a)
  BY <1>1 DEF ReceiptsFor, ConfirmedSeq
<1>3. \A a : ConfirmedSeq(a)' = ConfirmedSeq(a)
  BY <1>1 DEF ReceiptsFor, ConfirmedSeq
<1>4. PoolOK'
  BY <1>3 DEF Arrive, Takes, PoolOK, ChainState
<1>5. QED
  BY <1>2, <1>4 DEF ChainState, ChainOK

\* The account hosts' own steps leave the pool and the chain alone.
LEMMA HostSteps ==
    ASSUME [Next]_vars, ~Commit, \A b \in submissions : ~Arrive(b)
    PROVE  UNCHANGED <<pool, blocks>>
BY DEF Next, vars, consensus, Build, Write, Finish, Answer, Timeout, TakeReceipt, TakePackage,
       Pull, PullMissed, Crash, Restart

LEMMA ChainNext == Typed /\ ChainState /\ [Next]_vars => ChainState'
BY HostSteps, ChainStays, ChainArrive, ChainCommit

-----------------------------------------------------------------------------
(* Whose bundles are where *)

Known == submissions \cup pool \cup Confirmed

OwnQueue(a) == {b \in submissions \cup pool : b.sender = a}

\* A bundle that build_bundle is still writing is nowhere else.
SubmitOK == \A a \in Accounts : \A job \in jobs[a] : job.submit \cap Known = {}

\* The bundles of an account that a receipt may be for.
OwnBundles(a) ==
    Held(store[a], jobs[a]) \cup OwnQueue(a) \cup {u.bundle : u \in ReceiptsFor(a)}

\* The receipt a handler is about to store.
Writing(job) == IF Len(job.writes) = 4 THEN {job.writes[1].row} ELSE {}

\* Receipts are stored once, from those there are.
AckOK(s, J, C, rt) ==
    /\ s.receipts \subseteq C /\ rt \subseteq C /\ s.receipts \cap rt = {}
    /\ HeadsOf(s.records) \subseteq s.receipts
    /\ \A job \in J :
          /\ Writing(job) \subseteq C \ (rt \cup s.receipts)
          /\ \A X \in RowsOf(job) : HeadsOf(X) \subseteq s.receipts \cup Writing(job)

\* The receipts stored are the first of the chain, and no bundle of the account
\* is further than the next.
SeqsOK(s, B) ==
    \E k \in Nat : ReceiptSeqs(s) = 1..k /\ \A b \in B : b.seq <= k + 1

AckState ==
    \A a \in Accounts :
        /\ AckOK(store[a], jobs[a], ReceiptsFor(a), receiptsTo[a])
        /\ SeqsOK(store[a], OwnBundles(a))

LEMMA HeadsKept ==
    ASSUME NEW X \in SUBSET Records
    PROVE  /\ \A b : HeadsOf(RecordsWithMissing(X, b)) \subseteq HeadsOf(X)
           /\ \A b : HeadsOf(RecordsRolledBack(X, b)) \subseteq HeadsOf(X)
           /\ \A u \in ConfirmedUnits : HeadsOf(RecordsConfirmed(X, u)) \subseteq HeadsOf(X) \cup {u}
           /\ \A p : HeadsOf(X \cup {ReceivedRecord(p)}) \subseteq HeadsOf(X)
<1>1. ASSUME NEW b PROVE HeadsOf(RecordsWithMissing(X, b)) \subseteq HeadsOf(X)
  BY MissingRecords DEF HeadsOf
<1>2. ASSUME NEW b PROVE HeadsOf(RecordsRolledBack(X, b)) \subseteq HeadsOf(X)
  BY RolledBackRecords DEF HeadsOf
<1>3. ASSUME NEW u \in ConfirmedUnits
      PROVE  HeadsOf(RecordsConfirmed(X, u)) \subseteq HeadsOf(X) \cup {u}
  <2>1. ASSUME NEW q \in RecordsConfirmed(X, u), q.chain # <<>>
        PROVE  Head(q.chain) = u \/ \E r \in X : q.chain = r.chain
    <3>1. PICK r \in X : q = ConfirmedRecord(r, u)
      BY DEF RecordsConfirmed
    <3>2. q = r \/ q.chain = <<u>> \o r.chain
      BY <3>1, ConfirmedOne
    <3>3. r.chain \in Seq(ConfirmedUnits)
      BY DEF Records
    <3>4. Head(<<u>> \o r.chain) = u
      BY <3>3
    <3>5. QED
      BY <3>2, <3>4
  <2>2. QED
    BY <2>1 DEF HeadsOf
<1>4. ASSUME NEW p PROVE HeadsOf(X \cup {ReceivedRecord(p)}) \subseteq HeadsOf(X)
  BY DEF HeadsOf, ReceivedRecord
<1>5. QED
  BY <1>1, <1>2, <1>3, <1>4

LEMMA HeadsCut ==
    ASSUME NEW X \in SUBSET Records, NEW b \in Bundles,
           \A v \in b.values : \E r \in Spendable(X) : v \subseteq r.value,
           \A r \in X : ~IsPieceOf(r, b)
    PROVE  HeadsOf(RecordsWithPending(X, b)) \subseteq HeadsOf(X)
<1> DEFINE Y == RecordsWithPending(X, b)
<1>1. Y = RecordsWithPending(X, b)
  OBVIOUS
<1> HIDE DEF Y
<1>2. ASSUME NEW q \in Y
      PROVE  \E r \in X : q.chain = r.chain
  <2>1. /\ IsPieceOf(q, b) => \E r \in Spendable(X) : q.chain = r.chain
        /\ IsPieceOf(q, b) \/ q \in X
    BY <1>1, Cuts
  <2>2. QED
    BY <2>1 DEF Spendable
<1>3. QED
  BY <1>1, <1>2 DEF HeadsOf

\* Receipts are told apart by their sequence numbers.
LEMMA OneReceiptEach ==
    ASSUME NEW s, NEW C, NEW u \in C, s.receipts \subseteq C,
           \A v, w \in C : v.bundle.seq = w.bundle.seq => v = w
    PROVE  u.bundle.seq \in ReceiptSeqs(s) <=> u \in s.receipts
BY DEF ReceiptSeqs

\* Only the handler that takes a receipt has four transactions, of which that is
\* the first.
LEMMA StageLength ==
    ASSUME NEW s, NEW job, Stage(job, s)
    PROVE  /\ Len(job.writes) \in 0..4
           /\ Len(job.writes) = 4 => /\ job.writes[1].table = "receipts"
                                     /\ Unpends(job) /\ job.submit = {}
                                     /\ s.pending = {job.writes[1].row.bundle}
           /\ Len(job.writes) \notin {0, 4} =>
                 job.writes[1].table \in {"confirmed", "unpending", "pending", "records", "accepted"}
<1>1. Len(job.writes) \in {0, 1, 2, 3, 4}
  BY DEF Stage, Building, Releasing, Receiving
<1>2. CASE Len(job.writes) = 4
  BY <1>2 DEF Stage, Building, Releasing, Receiving, Unpends
<1>3. CASE Len(job.writes) \notin {0, 4}
  <2>1. job.writes[1].table \in {"confirmed", "unpending", "pending", "records", "accepted"}
    BY <1>3 DEF Stage, Building, Releasing, Receiving
  <2>2. QED
    BY <1>1, <1>3, <2>1
<1>4. CASE Len(job.writes) = 0
  BY <1>4
<1>5. QED
  BY <1>2, <1>3, <1>4

LEMMA AckWrite ==
    ASSUME NEW s, NEW job, NEW t, NEW rest, NEW C, NEW rt, NEW B,
           AckOK(s, {job}, C, rt), SeqsOK(s, B),
           \A v, w \in C : v.bundle.seq = w.bundle.seq => v = w,
           \A u \in C : u.bundle \in B, \A b \in B : b.seq \in Nat \ {0},
           Stage(job, s), Effect(s, job.writes[1], t), Progress(s, job, t, rest),
           Len(job.writes) # 0, Len(rest.writes) = Len(job.writes) - 1
    PROVE  AckOK(t, {rest}, C, rt) /\ SeqsOK(t, B)
<1>1. /\ t.records \in {s.records} \cup RowsOf(job) /\ RowsOf(rest) \subseteq RowsOf(job)
  BY OneHandler DEF Progress
<1>2. CASE Len(job.writes) = 4
  <2> DEFINE u == job.writes[1].row
  <2>1. job.writes[1].table = "receipts"
    BY <1>2, StageLength
  <2>2. /\ t.records = s.records
        /\ t.receipts = {x \in s.receipts : x.bundle.seq # u.bundle.seq} \cup {u}
    BY <2>1 DEF Effect
  <2>3. u \in C \ (rt \cup s.receipts) /\ s.receipts \subseteq C
    BY <1>2 DEF AckOK, Writing
  <2>4. t.receipts = s.receipts \cup {u}
    BY <2>2, <2>3
  <2>5. Writing(rest) = {} /\ Writing(job) = {u}
    BY <1>2 DEF Writing
  <2>6. AckOK(t, {rest}, C, rt)
    BY <1>1, <2>2, <2>3, <2>4, <2>5 DEF AckOK
  <2>7. PICK k \in Nat : ReceiptSeqs(s) = 1..k /\ \A b \in B : b.seq <= k + 1
    BY DEF SeqsOK
  <2>8. u.bundle.seq \notin 1..k
    BY <2>3, <2>7, OneReceiptEach
  <2>9. ReceiptSeqs(t) = ReceiptSeqs(s) \cup {u.bundle.seq}
    BY <2>4 DEF ReceiptSeqs
  <2>10. u.bundle.seq = k + 1
    BY <2>3, <2>7, <2>8
  <2>11. ReceiptSeqs(t) = 1..(k + 1) /\ k + 1 \in Nat
    BY <2>7, <2>9, <2>10
  <2>12. \A b \in B : b.seq <= (k + 1) + 1
    BY <2>7
  <2>13. SeqsOK(t, B)
    BY <2>11, <2>12 DEF SeqsOK
  <2>14. QED
    BY <2>6, <2>13
<1>3. CASE Len(job.writes) # 4
  <2>1. t.receipts = s.receipts
    BY <1>3, StageLength DEF Effect
  <2>2. Writing(rest) = {} /\ Writing(job) = {}
    BY <1>3, StageLength DEF Writing
  <2>3. AckOK(t, {rest}, C, rt)
    BY <1>1, <2>1, <2>2 DEF AckOK
  <2>4. QED
    BY <2>1, <2>3 DEF SeqsOK, ReceiptSeqs
<1>4. QED
  BY <1>2, <1>3

LEMMA AckStarts ==
    ASSUME NEW s, NEW C, NEW rt, AckOK(s, {}, C, rt), NEW job, NEW Y, RowsOf(job) = {Y},
           HeadsOf(Y) \subseteq s.receipts \cup Writing(job),
           NEW rest, rest \subseteq rt, Writing(job) \subseteq C \ (rest \cup s.receipts)
    PROVE  AckOK(s, {job}, C, rest)
BY DEF AckOK

LEMMA AckDrops ==
    ASSUME NEW s, NEW J, NEW C, NEW rt, AckOK(s, J, C, rt), NEW rest, rest \subseteq rt
    PROVE  AckOK(s, {}, C, rest)
BY DEF AckOK

\* More receipts on the chain and on their way.
LEMMA AckGrows ==
    ASSUME NEW s, NEW J, NEW C, NEW rt, AckOK(s, J, C, rt),
           NEW D, C \subseteq D, NEW more, more \subseteq D,
           \A u \in more : u \in rt \/ (u \notin s.receipts /\ \A job \in J : u \notin Writing(job))
    PROVE  AckOK(s, J, D, more)
BY DEF AckOK

LEMMA SeqsFewer ==
    ASSUME NEW s, NEW B, SeqsOK(s, B), NEW D, D \subseteq B
    PROVE  SeqsOK(s, D)
BY DEF SeqsOK

-----------------------------------------------------------------------------
(* Step by step *)

Base == Typed /\ LocalState /\ ChainState /\ SubmitOK /\ AckState

\* The chain does not change, and only the wallet of a.
LEMMA AckStep ==
    ASSUME AckState, NEW a \in Accounts, blocks' = blocks,
           \A c \in Accounts \ {a} :
               /\ store'[c] = store[c] /\ jobs'[c] = jobs[c] /\ receiptsTo'[c] = receiptsTo[c]
               /\ OwnQueue(c)' \subseteq OwnQueue(c),
           AckOK(store'[a], jobs'[a], ReceiptsFor(a), receiptsTo'[a]),
           SeqsOK(store'[a], OwnBundles(a)')
    PROVE  AckState'
<1> SUFFICES ASSUME NEW c \in Accounts
             PROVE  /\ AckOK(store'[c], jobs'[c], ReceiptsFor(c)', receiptsTo'[c])
                    /\ SeqsOK(store'[c], OwnBundles(c)')
  BY DEF AckState, AckOK, SeqsOK
<1>1. ReceiptsFor(c)' = ReceiptsFor(c)
  BY DEF ReceiptsFor
<1>2. CASE c = a
  BY <1>1, <1>2
<1>3. CASE c # a
  <2>1. OwnBundles(c)' \subseteq OwnBundles(c)
    BY <1>1, <1>3 DEF OwnBundles, Held, ToSubmit
  <2>2. store'[c] = store[c] /\ jobs'[c] = jobs[c] /\ receiptsTo'[c] = receiptsTo[c]
    BY <1>3
  <2>3. QED
    BY <1>1, <2>1, <2>2, SeqsFewer DEF AckState
<1>4. QED
  BY <1>2, <1>3

LEMMA SubmitStep ==
    ASSUME SubmitOK, NEW a \in Accounts,
           \A c \in Accounts \ {a} : jobs'[c] = jobs[c],
           \A job \in jobs'[a] : job.submit \cap Known' = {},
           \A b \in Known' : b \in Known \/ \A c \in Accounts \ {a} : \A job \in jobs[c] : b \notin job.submit
    PROVE  SubmitOK'
<1> SUFFICES ASSUME NEW c \in Accounts, NEW job \in jobs'[c]
             PROVE  job.submit \cap Known' = {}
  BY DEF SubmitOK
<1>1. CASE c = a
  BY <1>1
<1>2. CASE c # a
  BY <1>2 DEF SubmitOK
<1>3. QED
  BY <1>1, <1>2

\* A handler that starts and submits nothing.
LEMMA BaseBegins ==
    ASSUME Base, NEW a \in Accounts, NEW job, Begins(a, job),
           job.submit = {}, NEW Y, RowsOf(job) = {Y},
           HeadsOf(Y) \subseteq HeadsOf(store[a].records) \cup Writing(job),
           UNCHANGED <<store, submissions, pool, blocks>>,
           \A c \in Accounts \ {a} : receiptsTo'[c] = receiptsTo[c],
           receiptsTo'[a] \subseteq receiptsTo[a],
           Writing(job) \subseteq ReceiptsFor(a) \ (receiptsTo'[a] \cup store[a].receipts)
    PROVE  SubmitOK' /\ AckState'
<1>1. Known' = Known /\ \A c : OwnQueue(c)' = OwnQueue(c) /\ ReceiptsFor(c)' = ReceiptsFor(c)
  BY DEF Known, OwnQueue, Confirmed, ReceiptsFor
<1>2. SubmitOK'
  <2>1. \A k \in jobs'[a] : k.submit \cap Known' = {}
    BY DEF Begins
  <2>2. QED
    BY <1>1, <2>1, SubmitStep DEF Begins, Base
<1>3. AckOK(store[a], {}, ReceiptsFor(a), receiptsTo[a]) /\ SeqsOK(store[a], OwnBundles(a))
  BY DEF Base, AckState, Begins
<1>4. HeadsOf(store[a].records) \subseteq store[a].receipts
  BY <1>3 DEF AckOK
<1>5. HeadsOf(Y) \subseteq store[a].receipts \cup Writing(job)
  BY <1>4
<1>6. AckOK(store[a], {job}, ReceiptsFor(a), receiptsTo'[a])
  BY <1>3, <1>5, AckStarts
<1>7. OwnBundles(a)' = OwnBundles(a)
  <2>1. Held(store[a], {job}) = store[a].pending \cup job.submit /\ Held(store[a], {}) = store[a].pending
    BY OneHandler, NoHandler
  <2>2. jobs[a] = {} /\ jobs'[a] = {job} /\ store' = store
    BY DEF Begins
  <2>3. Held(store[a], jobs[a])' = Held(store[a], jobs[a])
    BY <2>1, <2>2
  <2>4. QED
    BY <1>1, <2>3 DEF OwnBundles
<1>8. AckState'
  BY <1>1, <1>3, <1>6, <1>7, AckStep DEF Begins, Base
<1>9. QED
  BY <1>2, <1>8

\* A step that neither adds a bundle nor touches a wallet.
LEMMA BaseStays ==
    ASSUME Base, UNCHANGED <<store, jobs, blocks, receiptsTo>>, Known' \subseteq Known,
           \A c \in Accounts : OwnQueue(c)' \subseteq OwnQueue(c)
    PROVE  SubmitOK' /\ AckState'
<1>1. \A c \in Accounts : OwnBundles(c)' \subseteq OwnBundles(c) /\ ReceiptsFor(c)' = ReceiptsFor(c)
  BY DEF ReceiptsFor, OwnBundles, Held, ToSubmit
<1>2. SubmitOK'
  BY DEF Base, SubmitOK
<1>3. ASSUME NEW c \in Accounts
      PROVE  /\ AckOK(store'[c], jobs'[c], ReceiptsFor(c)', receiptsTo'[c])
             /\ SeqsOK(store'[c], OwnBundles(c)')
  <2>1. AckOK(store[c], jobs[c], ReceiptsFor(c), receiptsTo[c]) /\ SeqsOK(store[c], OwnBundles(c))
    BY DEF Base, AckState
  <2>2. SeqsOK(store[c], OwnBundles(c)')
    BY <1>1, <2>1, SeqsFewer
  <2>3. QED
    BY <1>1, <2>1, <2>2
<1>4. QED
  BY <1>2, <1>3 DEF AckState, AckOK, SeqsOK

LEMMA BaseQuiet ==
    ASSUME Base, UNCHANGED <<store, jobs, submissions, pool, blocks, receiptsTo>>
    PROVE  SubmitOK' /\ AckState'
BY BaseStays DEF Known, OwnQueue, Confirmed

LEMMA BaseBuild ==
    ASSUME Threads = 1, Base, NEW a \in Accounts, NEW to \in Accounts \ {a},
           NEW values \in Selections(store[a].records), Build(a, to, values)
    PROVE  SubmitOK' /\ AckState'
<1> DEFINE s == store[a]
<1>1. PICK b, job :
              /\ b \in Bundles /\ b.sender = a /\ b.n = attempts[a] + 1 /\ b.seq = NextSequence(s)
              /\ b.to = to /\ b.values = values
              /\ \A v \in values : v \in Ranges /\ \E r \in Spendable(s.records) : v \subseteq r.value
              /\ Builds(job, b, RecordsWithPending(s.records, b))
              /\ Begins(a, job)
  BY BuildStarts DEF Base
<1>2. UNCHANGED <<store, submissions, pool, blocks, receiptsTo>> /\ s.pending = {} /\ Free(a)
  BY DEF Build, consensus, mail
<1>3. Known' = Known /\ \A c : OwnQueue(c)' = OwnQueue(c) /\ ReceiptsFor(c)' = ReceiptsFor(c)
  BY <1>2 DEF Known, OwnQueue, Confirmed, ReceiptsFor
<1>4. /\ s \in Stores /\ attempts[a] \in Nat /\ StoreFits(s, a, attempts[a])
      /\ Sound(s, {}) /\ jobs[a] = {}
  BY <1>2, Types, FreeIsIdle DEF Base
<1>5. b \notin Known
  <2>1. \A x \in Known : x.sender = a => x.n <= attempts[a]
    BY DEF Known, Base, Typed, Numbered, Fits
  <2>2. QED
    BY <1>1, <1>4, <2>1
<1>6. jobs'[a] = {job} /\ job.submit = {b} /\ Len(job.writes) = 2
  BY <1>1 DEF Begins, Builds
<1>7. SubmitOK'
  <2>1. \A k \in jobs'[a] : k.submit \cap Known' = {}
    BY <1>3, <1>5, <1>6
  <2>2. \A c \in Accounts \ {a} : jobs'[c] = jobs[c]
    BY <1>1 DEF Begins
  <2>3. QED
    BY <1>3, <2>1, <2>2, SubmitStep DEF Base
<1>8. AckOK(s, {}, ReceiptsFor(a), receiptsTo[a]) /\ SeqsOK(s, OwnBundles(a))
  BY <1>4 DEF Base, AckState
<1>9. AckOK(s, {job}, ReceiptsFor(a), receiptsTo[a])
  <2> DEFINE Y == RecordsWithPending(s.records, b)
  <2>1. b \in Bundles /\ \A v \in b.values : \E r \in Spendable(s.records) : v \subseteq r.value
    BY <1>1
  <2>2. \A r \in s.records : ~IsPieceOf(r, b)
    BY <1>1, <1>4 DEF StoreFits, Cut, IsPieceOf, Stores, Records
  <2>3. HeadsOf(Y) \subseteq HeadsOf(s.records)
    BY <1>4, <2>1, <2>2, HeadsCut DEF Stores
  <2>4. RowsOf(job) = {Y} /\ Writing(job) = {}
    BY <1>1, <1>6, RowsLeft DEF Builds, Writing
  <2>5. HeadsOf(s.records) \subseteq s.receipts
    BY <1>8 DEF AckOK
  <2> HIDE DEF s, Y
  <2>6. QED
    BY <1>8, <2>3, <2>4, <2>5, AckStarts
<1>10. SeqsOK(s, OwnBundles(a)')
  <2>1. OwnBundles(a)' = OwnBundles(a) \cup {b}
    <3>1. Held(store[a], {job}) = store[a].pending \cup job.submit /\ Held(store[a], {}) = store[a].pending
      BY OneHandler, NoHandler
    <3>2. Held(store[a], jobs[a])' = Held(store[a], jobs[a]) \cup {b}
      BY <1>2, <1>4, <1>6, <3>1
    <3>3. QED
      BY <1>3, <3>2 DEF OwnBundles
  <2>2. PICK k \in Nat : ReceiptSeqs(s) = 1..k /\ \A x \in OwnBundles(a) : x.seq <= k + 1
    BY <1>8 DEF SeqsOK
  <2>3. b.seq = k + 1
    BY <1>1, <1>2, <1>4, <2>2, NextSequenceFollows
  <2>4. QED
    BY <2>1, <2>2, <2>3 DEF SeqsOK
<1>11. AckState'
  <2>1. AckOK(store'[a], jobs'[a], ReceiptsFor(a), receiptsTo'[a]) /\ SeqsOK(store'[a], OwnBundles(a)')
    BY <1>2, <1>6, <1>9, <1>10
  <2>2. QED
    BY <1>1, <1>2, <1>3, <2>1, AckStep DEF Begins, Base
<1>12. QED
  BY <1>7, <1>11

LEMMA OwnBundlesType ==
    ASSUME Typed, NEW a \in Accounts
    PROVE  OwnBundles(a) \in SUBSET Bundles /\ \A b \in OwnBundles(a) : b.seq \in Nat \ {0}
<1>1. store[a].pending \subseteq Bundles /\ \A job \in jobs[a] : job.submit \subseteq Bundles
  BY Types DEF Stores, Jobs
<1>2. OwnQueue(a) \subseteq Bundles
  BY DEF OwnQueue, Typed, TypeOK
<1>3. \A u \in ReceiptsFor(a) : u.bundle \in Bundles
  BY Receipt DEF ConfirmedUnits
<1>4. \A b \in Bundles : b.seq \in Nat \ {0}
  BY DEF Bundles
<1>5. QED
  BY <1>1, <1>2, <1>3, <1>4 DEF OwnBundles, Held, ToSubmit

LEMMA BaseWrite ==
    ASSUME Base, NEW a \in Accounts, NEW job \in jobs[a], Write(a, job)
    PROVE  SubmitOK' /\ AckState'
<1>1. PICK rest \in Jobs, t \in Stores :
            /\ job \in Jobs /\ job.writes # <<>>
            /\ rest = [job EXCEPT !.writes = Tail(@)] /\ t = Apply(store[a], Head(job.writes))
            /\ up[a] /\ jobs[a] = {job} /\ jobs'[a] = {rest} /\ store'[a] = t
            /\ \A c \in Accounts \ {a} : jobs'[c] = jobs[c] /\ store'[c] = store[c]
  BY WriteMoves DEF Base
<1>2. UNCHANGED <<submissions, pool, blocks, receiptsTo>>
  BY DEF Write, consensus, mail
<1>3. PICK s : s = store[a]
  OBVIOUS
<1>4. s \in Stores /\ Sound(s, {job}) /\ Stage(job, s)
  BY <1>1, <1>3, Types DEF Base, LocalState, Sound, LocalOK
<1>5. Progress(s, job, t, rest)
  BY <1>1, <1>3, <1>4, LocalWrite
<1>6. /\ Head(job.writes) \in Transactions /\ Head(job.writes) = job.writes[1]
      /\ Len(job.writes) \in Nat \ {0} /\ Len(rest.writes) = Len(job.writes) - 1
      /\ rest.submit = job.submit
  BY <1>1, NextWrite
<1>7. Effect(s, job.writes[1], t)
  BY <1>1, <1>3, <1>4, <1>6, Applied
<1>8. PICK C, rt, B : C = ReceiptsFor(a) /\ rt = receiptsTo[a] /\ B = OwnBundles(a)
  OBVIOUS
<1>9. /\ AckOK(s, {job}, C, rt) /\ SeqsOK(s, B)
      /\ \A v, w \in C : v.bundle.seq = w.bundle.seq => v = w
  BY <1>1, <1>3, <1>8 DEF Base, AckState, ChainState, ChainOK
<1>10. \A u \in C : u.bundle \in B
  BY <1>8 DEF OwnBundles
<1>11. \A b \in B : b.seq \in Nat \ {0}
  BY <1>8, OwnBundlesType DEF Base
<1>12. Len(job.writes) # 0
  BY <1>6
<1>13. Len(rest.writes) = Len(job.writes) - 1
  BY <1>6
<1>14. AckOK(t, {rest}, C, rt) /\ SeqsOK(t, B)
  BY <1>4, <1>5, <1>7, <1>9, <1>10, <1>11, <1>12, <1>13, AckWrite
<1>15. Known' = Known /\ \A c : OwnQueue(c)' = OwnQueue(c) /\ ReceiptsFor(c)' = ReceiptsFor(c)
  BY <1>2 DEF Known, OwnQueue, Confirmed, ReceiptsFor
<1>16. OwnBundles(a)' \subseteq B
  <2>1. Held(t, {rest}) \subseteq Held(s, {job})
    BY <1>5 DEF Progress
  <2>2. Held(store[a], jobs[a])' \subseteq Held(store[a], jobs[a])
    BY <1>1, <1>3, <2>1
  <2>3. QED
    BY <1>8, <1>15, <2>2 DEF OwnBundles
<1>17. SeqsOK(t, OwnBundles(a)')
  BY <1>14, <1>16, SeqsFewer
<1>18. AckOK(store'[a], jobs'[a], ReceiptsFor(a), receiptsTo'[a]) /\ SeqsOK(store'[a], OwnBundles(a)')
  BY <1>1, <1>2, <1>8, <1>14, <1>17
<1>19. AckState'
  BY <1>1, <1>2, <1>15, <1>18, AckStep DEF Base
<1>20. SubmitOK'
  <2>1. \A k \in jobs'[a] : k.submit \cap Known' = {}
    BY <1>1, <1>6, <1>15 DEF Base, SubmitOK
  <2>2. QED
    BY <1>1, <1>15, <2>1, SubmitStep DEF Base
<1>21. QED
  BY <1>19, <1>20

LEMMA BaseFinish ==
    ASSUME Base, NEW a \in Accounts, NEW job \in jobs[a], Finish(a, job)
    PROVE  SubmitOK' /\ AckState'
<1>1. /\ job \in Jobs /\ Len(job.writes) = 0
      /\ up[a] /\ jobs[a] = {job} /\ jobs'[a] = {}
      /\ \A c \in Accounts \ {a} : jobs'[c] = jobs[c]
  BY FinishMoves DEF Base
<1>2. UNCHANGED <<store, pool, blocks, receiptsTo>> /\ submissions' = submissions \cup job.submit
  BY DEF Finish, consensus
<1>3. \A b \in job.submit : b.sender = a
  BY Types DEF Base, JobFits, Fits
<1>4. /\ Known' = Known \cup job.submit
      /\ \A c : ReceiptsFor(c)' = ReceiptsFor(c)
      /\ \A c \in Accounts \ {a} : OwnQueue(c)' = OwnQueue(c)
      /\ OwnQueue(a)' = OwnQueue(a) \cup job.submit
  BY <1>2, <1>3 DEF Known, Confirmed, ReceiptsFor, OwnQueue
<1>5. OwnBundles(a)' \subseteq OwnBundles(a)
  <2>1. Held(store[a], {job}) = store[a].pending \cup job.submit /\ Held(store[a], {}) = store[a].pending
    BY OneHandler, NoHandler
  <2>2. Held(store[a], jobs[a]) = store[a].pending \cup job.submit /\ Held(store[a], jobs[a])' = store[a].pending
    BY <1>1, <1>2, <2>1
  <2>3. QED
    BY <1>4, <2>2 DEF OwnBundles
<1>6. AckOK(store[a], jobs[a], ReceiptsFor(a), receiptsTo[a]) /\ SeqsOK(store[a], OwnBundles(a))
  BY DEF Base, AckState
<1>7. AckOK(store[a], {}, ReceiptsFor(a), receiptsTo[a]) /\ SeqsOK(store[a], OwnBundles(a)')
  BY <1>5, <1>6, AckDrops, SeqsFewer
<1>8. AckOK(store'[a], jobs'[a], ReceiptsFor(a), receiptsTo'[a]) /\ SeqsOK(store'[a], OwnBundles(a)')
  BY <1>1, <1>2, <1>7
<1>9. AckState'
  BY <1>1, <1>2, <1>4, <1>8, AckStep DEF Base
<1>10. SubmitOK'
  <2>1. ASSUME NEW c \in Accounts \ {a}, NEW k \in jobs[c], NEW b \in k.submit
        PROVE  b.sender = c
    BY Types DEF Base, JobFits, Fits
  <2>2. \A b \in Known' : b \in Known \/ \A c \in Accounts \ {a} : \A k \in jobs[c] : b \notin k.submit
    BY <1>3, <1>4, <2>1
  <2>3. QED
    BY <1>1, <2>2, SubmitStep DEF Base
<1>11. QED
  BY <1>9, <1>10

\* A handler that starts and writes no receipt.
LEMMA BaseOther ==
    ASSUME Base, NEW a \in Accounts, NEW job, Begins(a, job), job.submit = {},
           Len(job.writes) # 4, NEW Y, RowsOf(job) = {Y},
           HeadsOf(Y) \subseteq HeadsOf(store[a].records),
           UNCHANGED <<store, submissions, pool, blocks, receiptsTo>>
    PROVE  SubmitOK' /\ AckState'
<1>1. Writing(job) = {}
  BY DEF Writing
<1>2. QED
  BY <1>1, BaseBegins

LEMMA BaseRollsBack ==
    ASSUME Threads = 1, Base, NEW a \in Accounts, Free(a), NEW b \in store[a].pending,
           UNCHANGED <<store, submissions, pool, blocks, receiptsTo>>,
           Starts(a, Only(RollbackWrites(store[a], b)))
    PROVE  SubmitOK' /\ AckState'
<1> DEFINE Y == RecordsRolledBack(store[a].records, b)
<1>1. PICK job : RollsBack(job, b, Y) /\ Begins(a, job)
  BY RollbackStarts DEF Base
<1>2. RowsOf(job) = {Y} /\ job.submit = {} /\ Len(job.writes) # 4
  BY <1>1, RowsLeft DEF RollsBack
<1>3. HeadsOf(Y) \subseteq HeadsOf(store[a].records)
  BY Types, HeadsKept DEF Base, Stores
<1>4. QED
  BY <1>1, <1>2, <1>3, BaseOther

LEMMA BaseMissing ==
    ASSUME Threads = 1, Base, NEW a \in Accounts, NEW b \in store[a].pending, PullMissed(a, b)
    PROVE  SubmitOK' /\ AckState'
<1> DEFINE Y == RecordsWithMissing(store[a].records, b)
<1>1. /\ UNCHANGED <<store, submissions, pool, blocks, receiptsTo>>
      /\ Free(a) /\ Starts(a, Only(MissingWrites(store[a], b)))
  BY DEF PullMissed, consensus, mail
<1>2. PICK job : Marks(job, Y) /\ Begins(a, job)
  BY <1>1, MissingStarts DEF Base
<1>3. RowsOf(job) = {Y} /\ job.submit = {} /\ Len(job.writes) # 4
  BY <1>2, RowsLeft DEF Marks
<1>4. HeadsOf(Y) \subseteq HeadsOf(store[a].records)
  BY Types, HeadsKept DEF Base, Stores
<1>5. QED
  BY <1>1, <1>2, <1>3, <1>4, BaseOther

\* A handler takes a receipt.
LEMMA BaseConfirm ==
    ASSUME Threads = 1, Base, NEW a \in Accounts, NEW u \in receiptsTo[a], TakeReceipt(a, u)
    PROVE  SubmitOK' /\ AckState'
<1>1. /\ UNCHANGED <<store, submissions, pool, blocks>> /\ Free(a)
      /\ receiptsTo'[a] = receiptsTo[a] \ {u}
      /\ \A c \in Accounts \ {a} : receiptsTo'[c] = receiptsTo[c]
  BY DEF TakeReceipt, consensus, Base, Typed, TypeOK
<1>2. CASE jobs' = jobs
  <2>1. /\ Known' = Known /\ \A c : OwnQueue(c)' = OwnQueue(c) /\ ReceiptsFor(c)' = ReceiptsFor(c)
        /\ OwnBundles(a)' = OwnBundles(a)
    BY <1>1, <1>2 DEF Known, OwnQueue, Confirmed, ReceiptsFor, OwnBundles, Held, ToSubmit
  <2>2. SubmitOK'
    BY <1>2, <2>1 DEF Base, SubmitOK
  <2>3. AckOK(store[a], jobs[a], ReceiptsFor(a), receiptsTo[a]) /\ SeqsOK(store[a], OwnBundles(a))
    BY DEF Base, AckState
  <2>4. AckOK(store[a], {}, ReceiptsFor(a), receiptsTo'[a])
    BY <1>1, <2>3, AckDrops
  <2>5. jobs[a] = {}
    BY <1>1, FreeIsIdle DEF Base
  <2>6. AckOK(store'[a], jobs'[a], ReceiptsFor(a), receiptsTo'[a]) /\ SeqsOK(store'[a], OwnBundles(a)')
    BY <1>1, <1>2, <2>1, <2>3, <2>4, <2>5
  <2>7. AckState'
    BY <1>1, <1>2, <2>1, <2>6, AckStep DEF Base
  <2>8. QED
    BY <2>2, <2>7
<1> DEFINE Y == RecordsConfirmed(store[a].records, u)
           D == PackagesOf(Y, u)
<1>3. CASE /\ u.bundle \in store[a].pending
           /\ Starts(a, [writes |-> ConfirmWrites(store[a], u), submit |-> {}, deliver |-> D])
  <2>1. u \in ConfirmedUnits /\ Fits(u.bundle, a, attempts[a]) /\ store[a].records \in SUBSET Records
    BY Types DEF Base, Stores
  <2>2. PICK job : Confirms(job, u, Y, D) /\ Begins(a, job)
    BY <1>1, <1>3, <2>1, ConfirmStarts DEF Base
  <2>3. RowsOf(job) = {Y} /\ job.submit = {} /\ Writing(job) = {u}
    BY <2>2, RowsLeft DEF Confirms, Writing
  <2>4. HeadsOf(Y) \subseteq HeadsOf(store[a].records) \cup Writing(job)
    BY <2>1, <2>3, HeadsKept
  <2>5. AckOK(store[a], jobs[a], ReceiptsFor(a), receiptsTo[a])
    BY DEF Base, AckState
  <2>6. /\ receiptsTo'[a] \subseteq receiptsTo[a]
        /\ Writing(job) \subseteq ReceiptsFor(a) \ (receiptsTo'[a] \cup store[a].receipts)
    BY <1>1, <2>3, <2>5 DEF AckOK
  <2> HIDE DEF Y
  <2>7. QED
    BY <1>1, <2>2, <2>3, <2>4, <2>6, BaseBegins
<1>4. QED
  BY <1>2, <1>3 DEF TakeReceipt, AcceptsReceipt

LEMMA BaseReceive ==
    ASSUME Threads = 1, Base, NEW a \in Accounts, NEW p \in packagesTo[a], TakePackage(a, p)
    PROVE  SubmitOK' /\ AckState'
<1> DEFINE Y == store[a].records \cup {ReceivedRecord(p)}
<1>1. UNCHANGED <<store, submissions, pool, blocks, receiptsTo>> /\ Free(a)
  BY DEF TakePackage, consensus
<1>2. CASE jobs' = jobs
  BY <1>1, <1>2, BaseQuiet
<1>3. CASE Valid(p) /\ Starts(a, Only(ReceiveWrites(store[a], p)))
  <2>1. PICK job : Receives(job, p, Y) /\ Begins(a, job)
    BY <1>1, <1>3, ReceiveStarts DEF Base
  <2>2. RowsOf(job) = {Y} /\ job.submit = {} /\ Len(job.writes) # 4
    <3>1. /\ job.submit = {} /\ Len(job.writes) = 2
          /\ job.writes[1].table = "records" /\ job.writes[2].table = "accepted"
          /\ job.writes[1].rows = Y
      BY <2>1 DEF Receives
    <3> HIDE DEF Y
    <3>2. QED
      BY <3>1, RowsLeft
  <2>3. HeadsOf(Y) \subseteq HeadsOf(store[a].records)
    BY Types, HeadsKept DEF Base, Stores
  <2> HIDE DEF Y
  <2>4. QED
    BY <1>1, <2>1, <2>2, <2>3, BaseOther
<1>4. QED
  BY <1>2, <1>3 DEF TakePackage

\* A receipt is asked for: the wallet does not have it yet.
LEMMA BasePull ==
    ASSUME Threads = 1, Base, NEW a \in Accounts, NEW b \in store[a].pending, Pull(a, b)
    PROVE  SubmitOK' /\ AckState'
<1>1. /\ UNCHANGED <<store, jobs, submissions, pool, blocks>> /\ jobs[a] = {}
      /\ \A c \in Accounts \ {a} : receiptsTo'[c] = receiptsTo[c]
  BY FreeIsIdle DEF Pull, consensus, Base, Typed, TypeOK
<1>2. PICK u \in ReceiptsFor(a) : /\ u.bundle.seq \notin ReceiptSeqs(store[a])
                                  /\ receiptsTo'[a] = receiptsTo[a] \cup {u}
  BY DEF Pull, Base, Typed, TypeOK
<1>3. /\ Known' = Known /\ \A c : OwnQueue(c)' = OwnQueue(c) /\ ReceiptsFor(c)' = ReceiptsFor(c)
      /\ OwnBundles(a)' = OwnBundles(a)
  BY <1>1 DEF Known, OwnQueue, Confirmed, ReceiptsFor, OwnBundles, Held, ToSubmit
<1>4. SubmitOK'
  BY <1>1, <1>3 DEF Base, SubmitOK
<1>5. AckOK(store[a], {}, ReceiptsFor(a), receiptsTo[a]) /\ SeqsOK(store[a], OwnBundles(a))
  BY <1>1 DEF Base, AckState
<1>6. u \notin store[a].receipts
  BY <1>2 DEF ReceiptSeqs
<1>7. receiptsTo'[a] \subseteq ReceiptsFor(a)
  BY <1>2, <1>5 DEF AckOK
<1>8. AckOK(store[a], {}, ReceiptsFor(a), receiptsTo'[a])
  BY <1>2, <1>5, <1>6, <1>7, AckGrows
<1>9. AckOK(store'[a], jobs'[a], ReceiptsFor(a), receiptsTo'[a]) /\ SeqsOK(store'[a], OwnBundles(a)')
  BY <1>1, <1>3, <1>5, <1>8
<1>10. AckState'
  BY <1>1, <1>3, <1>9, AckStep DEF Base
<1>11. QED
  BY <1>4, <1>10

LEMMA BaseCrash ==
    ASSUME Base, NEW a \in Accounts, Crash(a)
    PROVE  SubmitOK' /\ AckState'
<1>1. /\ UNCHANGED <<store, submissions, pool, blocks>> /\ jobs'[a] = {} /\ receiptsTo'[a] = {}
      /\ \A c \in Accounts \ {a} : receiptsTo'[c] = receiptsTo[c] /\ jobs'[c] = jobs[c]
  BY DEF Crash, consensus, Base, Typed, TypeOK
<1>2. Known' = Known /\ \A c : OwnQueue(c)' = OwnQueue(c) /\ ReceiptsFor(c)' = ReceiptsFor(c)
  BY <1>1 DEF Known, OwnQueue, Confirmed, ReceiptsFor
<1>3. OwnBundles(a)' \subseteq OwnBundles(a)
  <2>1. Held(store[a], jobs[a])' \subseteq Held(store[a], jobs[a])
    BY <1>1 DEF Held, ToSubmit
  <2>2. QED
    BY <1>2, <2>1 DEF OwnBundles
<1>4. AckOK(store[a], jobs[a], ReceiptsFor(a), receiptsTo[a]) /\ SeqsOK(store[a], OwnBundles(a))
  BY DEF Base, AckState
<1>5. AckOK(store[a], {}, ReceiptsFor(a), {}) /\ SeqsOK(store[a], OwnBundles(a)')
  BY <1>3, <1>4, AckDrops, SeqsFewer
<1>6. AckOK(store'[a], jobs'[a], ReceiptsFor(a), receiptsTo'[a]) /\ SeqsOK(store'[a], OwnBundles(a)')
  BY <1>1, <1>5
<1>7. AckState'
  BY <1>1, <1>2, <1>6, AckStep DEF Base
<1>8. SubmitOK'
  BY <1>1, <1>2, SubmitStep DEF Base
<1>9. QED
  BY <1>7, <1>8

LEMMA BaseArrive ==
    ASSUME Base, NEW b \in submissions, Arrive(b)
    PROVE  SubmitOK' /\ AckState'
<1>1. /\ UNCHANGED <<store, jobs, blocks, receiptsTo>>
      /\ submissions' \subseteq submissions /\ pool' \subseteq pool \cup {b}
  BY DEF Arrive, mail
<1>2. Known' \subseteq Known /\ \A c \in Accounts : OwnQueue(c)' \subseteq OwnQueue(c)
  BY <1>1 DEF Known, OwnQueue, Confirmed
<1>3. QED
  BY <1>1, <1>2, BaseStays

\* The receipts of a block are in no wallet and no handler has them.
LEMMA BaseCommit ==
    ASSUME Base, Commit
    PROVE  SubmitOK' /\ AckState'
<1>1. /\ UNCHANGED <<store, jobs, submissions>> /\ pool' = {} /\ TypeOK
      /\ Confirmed' = Confirmed \cup pool
      /\ \A c \in Accounts : ReceiptsFor(c)' = ReceiptsFor(c) \cup NewReceipts(c)
  BY CommitFacts DEF Commit, Base, Typed
<1>2. \A c \in Accounts : receiptsTo'[c] \subseteq receiptsTo[c] \cup NewReceipts(c)
  BY DEF Commit, NewReceipts
<1>3. SubmitOK'
  BY <1>1 DEF Known, Base, SubmitOK
<1>4. ASSUME NEW c \in Accounts
      PROVE  /\ AckOK(store'[c], jobs'[c], ReceiptsFor(c)', receiptsTo'[c])
             /\ SeqsOK(store'[c], OwnBundles(c)')
  <2>1. AckOK(store[c], jobs[c], ReceiptsFor(c), receiptsTo[c]) /\ SeqsOK(store[c], OwnBundles(c))
    BY DEF Base, AckState
  <2>2. \A u \in NewReceipts(c) : u \notin ReceiptsFor(c)
    <3>1. CASE \A b \in pool : b.sender # c
      BY <3>1 DEF NewReceipts
    <3>2. CASE \E b \in pool : /\ b.sender = c /\ \A x \in pool : x.sender = c => x = b
                               /\ [bundle |-> b, height |-> Len(blocks) + 1] \notin ReceiptsFor(c)
      BY <3>2 DEF NewReceipts
    <3>3. QED
      BY <3>1, <3>2, CommitOne DEF Base
  <2>3. receiptsTo[c] \subseteq ReceiptsFor(c) /\ ReceiptsFor(c) \subseteq ReceiptsFor(c)'
    BY <1>1, <2>1 DEF AckOK
  <2>4. receiptsTo'[c] \subseteq ReceiptsFor(c)'
    BY <1>1, <1>2, <2>3
  <2>5. \A u \in receiptsTo'[c] :
            u \in receiptsTo[c] \/ (u \notin store[c].receipts /\ \A job \in jobs[c] : u \notin Writing(job))
    BY <1>2, <2>1, <2>2 DEF AckOK
  <2>6. AckOK(store[c], jobs[c], ReceiptsFor(c)', receiptsTo'[c])
    BY <2>1, <2>3, <2>4, <2>5, AckGrows
  <2>7. OwnBundles(c)' \subseteq OwnBundles(c)
    <3>1. {u.bundle : u \in NewReceipts(c)} \subseteq OwnQueue(c)
      BY DEF NewReceipts, OwnQueue
    <3>2. OwnQueue(c)' \subseteq OwnQueue(c)
      BY <1>1 DEF OwnQueue
    <3>3. Held(store[c], jobs[c])' = Held(store[c], jobs[c])
      BY <1>1
    <3>4. QED
      BY <1>1, <3>1, <3>2, <3>3 DEF OwnBundles
  <2>8. SeqsOK(store[c], OwnBundles(c)')
    BY <2>1, <2>7, SeqsFewer
  <2>9. QED
    BY <1>1, <2>6, <2>8
<1>5. QED
  BY <1>3, <1>4 DEF AckState, AckOK, SeqsOK

LEMMA BaseInit == Init => Base
<1> SUFFICES ASSUME Init PROVE Base
  OBVIOUS
<1>1. Typed /\ LocalState /\ ChainState
  BY InitTyped, LocalInit, ChainInit
<1>2. SubmitOK
  BY DEF Init, SubmitOK
<1>3. ASSUME NEW a \in Accounts
      PROVE  /\ AckOK(store[a], jobs[a], ReceiptsFor(a), receiptsTo[a])
             /\ SeqsOK(store[a], OwnBundles(a))
  <2>1. /\ jobs[a] = {} /\ receiptsTo[a] = {} /\ ReceiptsFor(a) = {} /\ OwnQueue(a) = {}
        /\ store[a].receipts = {} /\ store[a].pending = {}
        /\ \A r \in store[a].records : r.chain = <<>>
    BY DEF Init, ReceiptsFor, OwnQueue, FirstStore
  <2>2. AckOK(store[a], jobs[a], ReceiptsFor(a), receiptsTo[a])
    BY <2>1 DEF AckOK, HeadsOf
  <2>3. OwnBundles(a) = {} /\ ReceiptSeqs(store[a]) = 1..0
    BY <2>1 DEF OwnBundles, Held, ToSubmit, ReceiptSeqs
  <2>4. QED
    BY <2>2, <2>3 DEF SeqsOK
<1>4. QED
  BY <1>1, <1>2, <1>3 DEF Base, AckState

LEMMA BaseNext == Threads = 1 /\ Base /\ [Next]_vars => Base'
<1> SUFFICES ASSUME Threads = 1, Base, [Next]_vars
             PROVE  SubmitOK' /\ AckState'
  BY NextTyped, LocalNext, ChainNext DEF Base
<1>1. ASSUME NEW a \in Accounts, NEW to \in Accounts \ {a},
             NEW values \in Selections(store[a].records) \ {{}}, Build(a, to, values)
      PROVE  SubmitOK' /\ AckState'
  BY <1>1, BaseBuild
<1>2. ASSUME NEW a \in Accounts, NEW job \in jobs[a], Write(a, job) \/ Finish(a, job)
      PROVE  SubmitOK' /\ AckState'
  BY <1>2, BaseWrite, BaseFinish
<1>3. ASSUME NEW a \in Accounts, Answer(a) \/ Timeout(a)
      PROVE  SubmitOK' /\ AckState'
  <2>1. UNCHANGED <<store, submissions, pool, blocks, receiptsTo>>
    BY <1>3 DEF Answer, Timeout, consensus, mail
  <2>2. \/ jobs' = jobs
        \/ /\ Free(a) /\ call[a].bundle \in store[a].pending
           /\ Starts(a, Only(RollbackWrites(store[a], call[a].bundle)))
    BY <1>3 DEF Answer, Timeout
  <2>3. QED
    BY <2>1, <2>2, BaseRollsBack, BaseQuiet
<1>4. ASSUME NEW a \in Accounts, NEW u \in receiptsTo[a], TakeReceipt(a, u)
      PROVE  SubmitOK' /\ AckState'
  BY <1>4, BaseConfirm
<1>5. ASSUME NEW a \in Accounts, NEW p \in packagesTo[a], TakePackage(a, p)
      PROVE  SubmitOK' /\ AckState'
  BY <1>5, BaseReceive
<1>6. ASSUME NEW a \in Accounts, NEW b \in store[a].pending, Pull(a, b) \/ PullMissed(a, b)
      PROVE  SubmitOK' /\ AckState'
  BY <1>6, BasePull, BaseMissing
<1>7. ASSUME NEW a \in Accounts, Crash(a)
      PROVE  SubmitOK' /\ AckState'
  BY <1>7, BaseCrash
<1>8. ASSUME NEW a \in Accounts, Restart(a)
      PROVE  SubmitOK' /\ AckState'
  BY <1>8, BaseQuiet DEF Restart, consensus, mail
<1>9. ASSUME NEW b \in submissions, Arrive(b)
      PROVE  SubmitOK' /\ AckState'
  BY <1>9, BaseArrive
<1>10. CASE Commit
  BY <1>10, BaseCommit
<1>11. CASE UNCHANGED vars
  BY <1>11, BaseQuiet DEF vars, consensus, mail
<1>12. QED
  BY <1>1, <1>2, <1>3, <1>4, <1>5, <1>6, <1>7, <1>8, <1>9, <1>10, <1>11 DEF Next

\* A wallet's receipts are an initial part of its account's chain, and nothing it
\* has pending, is building or has on its way leaves a gap behind them.
HistoryIsPrefix ==
    \A a \in Accounts :
        /\ store[a].receipts \subseteq ReceiptsFor(a)
        /\ \E k \in Nat : /\ ReceiptSeqs(store[a]) = 1..k
                          /\ \A b \in OwnBundles(a) : b.seq <= k + 1

\* A wallet follows the chain without gaps: on_receipt_confirmed stores the
\* receipt after the last, of a block that is there, and build_bundle numbers what
\* comes next, through crashes between any two transactions, late submissions,
\* rollbacks of bundles that consensus has and receipts marked missing.
THEOREM HistoriesHaveNoGaps ==
    ASSUME Threads = 1
    PROVE  Spec => []HistoryIsPrefix
<1>1. Base => HistoryIsPrefix
  BY DEF Base, AckState, AckOK, SeqsOK, HistoryIsPrefix
<1>2. Base /\ [Next]_vars => Base'
  BY BaseNext
<1>3. QED
  BY <1>1, <1>2, BaseInit, PTL DEF Spec

-----------------------------------------------------------------------------
(* What handlers may release *)

\* The values of a bundle whose receipt is stored, or about to be, stay locked
\* when its row goes: only a receipt's own handler deletes the row.
Withholds(job, s) ==
    Unpends(job) =>
        \A b \in s.pending : (\E u \in s.receipts \cup Writing(job) : u.bundle = b) =>
            \A X \in RowsOf(job) : \A r \in X :
                IsPieceOf(r, b) /\ r.value \in b.values => r.status # "spendable"

\* The receipt of a submission that is waited for, or being built, is not stored.
Unanswered(s, J, c) ==
    /\ \A job \in J : \A b \in job.submit : b.seq \notin ReceiptSeqs(s)
    /\ c # NoCall => \A b \in FinalPending(s, J) : b = c.bundle => b.seq \notin FinalReceipts(s, J)

NothingMissing(s, J) == \A X \in Rows(s, J) : \A r \in X : r.status # "missing"

Releases(s, J, c) ==
    /\ MaxMisses = 0 => NothingMissing(s, J)
    /\ \A job \in J : Withholds(job, s)
    /\ Unanswered(s, J, c)

ReleaseState == \A a \in Accounts : Releases(store[a], jobs[a], call[a])

LEMMA ReleasesStep ==
    ASSUME ReleaseState, NEW a \in Accounts,
           \A c \in Accounts \ {a} : store'[c] = store[c] /\ jobs'[c] = jobs[c] /\ call'[c] = call[c],
           Releases(store'[a], jobs'[a], call'[a])
    PROVE  ReleaseState'
<1> SUFFICES ASSUME NEW c \in Accounts
             PROVE  Releases(store'[c], jobs'[c], call'[c])
  BY DEF ReleaseState, Releases, NothingMissing, Withholds, Unanswered
<1>1. CASE c = a
  BY <1>1
<1>2. CASE c # a
  <2>1. Releases(store[c], jobs[c], call[c]) /\ store'[c] = store[c] /\ jobs'[c] = jobs[c] /\ call'[c] = call[c]
    BY <1>2 DEF ReleaseState
  <2>2. QED
    BY <2>1
<1>3. QED
  BY <1>1, <1>2

\* The answer is another, or nobody waits for it any more.
LEMMA ReleasesSame ==
    ASSUME NEW s, NEW J, NEW c, Releases(s, J, c), NEW d,
           d # NoCall => c # NoCall /\ d.bundle = c.bundle
    PROVE  Releases(s, J, d)
BY DEF Releases, Unanswered

LEMMA ReleasesBegins ==
    ASSUME NEW s, NEW c, Releases(s, {}, c), NEW job, NEW X, RowsOf(job) = {X},
           MaxMisses = 0 => \A r \in X : r.status # "missing",
           Withholds(job, s), \A b \in job.submit : b.seq \notin ReceiptSeqs(s),
           c # NoCall => job.submit = {}, Len(job.writes) = 4 => Unpends(job)
    PROVE  Releases(s, {job}, c)
<1>1. MaxMisses = 0 => NothingMissing(s, {job})
  BY NoHandler, OneHandler DEF Releases, NothingMissing
<1>2. /\ FinalPending(s, {}) = s.pending /\ FinalReceipts(s, {}) = ReceiptSeqs(s)
      /\ FinalPending(s, {job}) = IF Unpends(job) THEN {} ELSE s.pending \cup job.submit
      /\ FinalReceipts(s, {job}) =
            ReceiptSeqs(s) \cup (IF Len(job.writes) = 4 THEN {job.writes[1].row.bundle.seq} ELSE {})
  BY NoHandler, OneHandler
<1>3. ASSUME c # NoCall, NEW b \in FinalPending(s, {job}), b = c.bundle
      PROVE  b.seq \notin FinalReceipts(s, {job})
  <2>1. ~Unpends(job) /\ b \in s.pending /\ Len(job.writes) # 4
    BY <1>2, <1>3
  <2>2. b.seq \notin FinalReceipts(s, {})
    BY <1>2, <1>3, <2>1 DEF Releases, Unanswered
  <2>3. QED
    BY <1>2, <2>1, <2>2
<1>4. Unanswered(s, {job}, c)
  BY <1>3 DEF Unanswered
<1>5. QED
  BY <1>1, <1>4 DEF Releases

\* What one transaction of a handler at work may do.
LEMMA WriteFacts ==
    ASSUME NEW s, NEW job, NEW t, NEW rest, Stage(job, s), Stage(rest, t),
           Effect(s, job.writes[1], t), rest.submit = job.submit, rest.deliver = job.deliver,
           Len(job.writes) # 0, Len(rest.writes) = Len(job.writes) - 1,
           Len(job.writes) > 1 => rest.writes[1] = job.writes[2]
    PROVE  /\ Unpends(rest) => Unpends(job) /\ t.pending = s.pending
           /\ Len(job.writes) = 4 => /\ Unpends(job) /\ Unpends(rest) /\ t.pending = s.pending
                                     /\ job.submit = {}
           /\ Len(job.writes) # 4 => t.receipts = s.receipts /\ Writing(job) = {}
           /\ t.receipts \subseteq s.receipts \cup Writing(job)
           /\ Writing(rest) = {}
           /\ Unpends(job) => job.submit = {}
           /\ Unpends(job) /\ ~Unpends(rest) => /\ t.pending = {} /\ t.records = s.records
                                                /\ t.receipts = s.receipts /\ Writing(job) = {}
                                                /\ Len(job.writes) = 2
           /\ ~Unpends(job) => \/ t.pending = s.pending
                               \/ s.pending = {} /\ t.pending = job.submit /\ job.deliver = {}
<1> DEFINE n == Len(job.writes)
<1>1. n \in 1..4 /\ Len(rest.writes) = n - 1
  BY StageLength
<1>2. CASE n = 4
  <2>1. /\ job.writes[1].table = "receipts" /\ Unpends(job) /\ job.submit = {}
    BY <1>2, StageLength
  <2>2. Len(rest.writes) = 3
    BY <1>1, <1>2
  <2>3. Unpends(rest)
    BY <2>2, StageTables
  <2>4. t.pending = s.pending /\ t.receipts \subseteq s.receipts \cup {job.writes[1].row}
    BY <2>1 DEF Effect
  <2>5. Writing(job) = {job.writes[1].row} /\ Writing(rest) = {}
    BY <1>2, <2>2 DEF Writing
  <2> HIDE DEF n
  <2>6. QED
    BY <1>2, <2>1, <2>3, <2>4, <2>5 DEF n
<1>3. CASE n = 3
  <2>1. /\ job.writes[1].table = "confirmed" /\ Unpends(job) /\ Releasing(job, s)
        /\ job.writes[2].table = "unpending"
    BY <1>3, StageTables
  <2>2. Len(rest.writes) = 2 /\ rest.writes[1].table = "unpending"
    BY <1>1, <1>3, <2>1
  <2>3. Unpends(rest)
    BY <2>2, StageTables
  <2>4. t.pending = s.pending /\ t.receipts = s.receipts
    BY <2>1 DEF Effect
  <2>5. job.submit = {} /\ Writing(job) = {} /\ Writing(rest) = {}
    BY <1>3, <2>1, <2>2 DEF Releasing, Writing
  <2> HIDE DEF n
  <2>6. QED
    BY <1>3, <2>1, <2>3, <2>4, <2>5 DEF n
<1>4. CASE n = 2
  <2>1. Len(rest.writes) = 1
    BY <1>1, <1>4
  <2>2. ~Unpends(rest)
    BY <2>1, StageTables
  <2>3. Writing(job) = {} /\ Writing(rest) = {}
    BY <1>4, <2>1 DEF Writing
  <2>4. \/ /\ job.writes[1].table = "unpending" /\ Unpends(job) /\ Releasing(job, s)
        \/ /\ job.writes[1].table = "pending" /\ ~Unpends(job) /\ Building(job, s)
        \/ /\ job.writes[1].table = "records" /\ ~Unpends(job)
    BY <1>4, StageTables
  <2>5. CASE job.writes[1].table = "unpending" /\ Unpends(job) /\ Releasing(job, s)
    <3>1. s.pending = {job.writes[1].row} /\ job.submit = {}
      BY <1>4, <2>5 DEF Releasing
    <3>2. t.records = s.records /\ t.receipts = s.receipts /\ t.pending = {}
      BY <2>5, <3>1 DEF Effect
    <3> HIDE DEF n
    <3>3. QED
      BY <1>4, <2>2, <2>3, <2>5, <3>1, <3>2 DEF n
  <2>6. CASE job.writes[1].table = "pending" /\ ~Unpends(job) /\ Building(job, s)
    <3>1. /\ s.pending = {} /\ job.deliver = {} /\ job.submit = {job.writes[1].row}
      BY <1>4, <2>6 DEF Building
    <3>2. t.receipts = s.receipts /\ t.pending = {job.writes[1].row}
      BY <2>6, <3>1 DEF Effect
    <3> HIDE DEF n
    <3>3. QED
      BY <1>4, <2>2, <2>3, <2>6, <3>1, <3>2 DEF n
  <2>7. CASE job.writes[1].table = "records" /\ ~Unpends(job)
    <3>1. t.receipts = s.receipts /\ t.pending = s.pending
      BY <2>7 DEF Effect
    <3> HIDE DEF n
    <3>2. QED
      BY <1>4, <2>2, <2>3, <2>7, <3>1 DEF n
  <2>8. QED
    BY <2>4, <2>5, <2>6, <2>7
<1>5. CASE n = 1
  <2>1. Len(rest.writes) = 0
    BY <1>1, <1>5
  <2>2. ~Unpends(rest)
    BY <2>1, StageTables
  <2>3. Writing(job) = {} /\ Writing(rest) = {}
    BY <1>5, <2>1 DEF Writing
  <2>4. job.writes[1].table \in {"records", "accepted"} /\ ~Unpends(job)
    BY <1>5, StageTables
  <2>5. t.receipts = s.receipts /\ t.pending = s.pending
    BY <2>4 DEF Effect
  <2> HIDE DEF n
  <2>6. QED
    BY <1>5, <2>2, <2>3, <2>4, <2>5 DEF n
<1>6. QED
  BY <1>1, <1>2, <1>3, <1>4, <1>5

LEMMA ReleasesWrite ==
    ASSUME NEW s, NEW job, NEW t, NEW rest, NEW c, Releases(s, {job}, c),
           Stage(job, s), Stage(rest, t),
           Effect(s, job.writes[1], t), rest.submit = job.submit, rest.deliver = job.deliver,
           Len(job.writes) # 0, Len(rest.writes) = Len(job.writes) - 1,
           Len(job.writes) > 1 => rest.writes[1] = job.writes[2],
           Progress(s, job, t, rest)
    PROVE  Releases(t, {rest}, c)
<1>1. /\ Rows(t, {rest}) = {t.records} \cup RowsOf(rest)
      /\ Rows(s, {job}) = {s.records} \cup RowsOf(job)
  BY OneHandler
<1>2. MaxMisses = 0 => NothingMissing(t, {rest})
  BY <1>1 DEF Releases, NothingMissing, Progress
<1>3. Withholds(rest, t)
  <2>1. SUFFICES ASSUME Unpends(rest) PROVE Withholds(rest, t)
    BY DEF Withholds
  <2>2. Unpends(job) /\ t.pending = s.pending
    BY <2>1, WriteFacts
  <2>3. t.receipts \cup Writing(rest) \subseteq s.receipts \cup Writing(job)
    BY WriteFacts
  <2>4. RowsOf(rest) \subseteq RowsOf(job) /\ Withholds(job, s)
    BY DEF Progress, Releases
  <2>5. QED
    BY <2>2, <2>3, <2>4 DEF Withholds
<1>4. \A b \in rest.submit : b.seq \notin ReceiptSeqs(t)
  <2>1. SUFFICES ASSUME job.submit # {} PROVE t.receipts = s.receipts
    BY DEF Releases, Unanswered, ReceiptSeqs
  <2>2. QED
    BY <2>1, WriteFacts
<1>5. Unanswered(t, {rest}, c)
  BY <1>4 DEF Unanswered, Releases, Progress
<1>6. QED
  BY <1>2, <1>3, <1>5 DEF Releases

\* The handler is done, or the host is down.
LEMMA ReleasesDrops ==
    ASSUME NEW s, NEW J, NEW c, Releases(s, J, c)
    PROVE  /\ Releases(s, {}, NoCall)
           /\ \A job : J = {job} /\ Len(job.writes) = 0 =>
                 /\ job.submit = {} => Releases(s, {}, c)
                 /\ \A d : (\E b \in job.submit : d.bundle = b) => Releases(s, {}, d)
<1>1. MaxMisses = 0 => NothingMissing(s, {})
  BY NoHandler DEF Releases, NothingMissing, Rows
<1>2. FinalPending(s, {}) = s.pending /\ FinalReceipts(s, {}) = ReceiptSeqs(s)
  BY NoHandler
<1>3. Releases(s, {}, NoCall)
  BY <1>1 DEF Releases, Unanswered
<1>4. ASSUME NEW job, J = {job}, Len(job.writes) = 0
      PROVE  /\ job.submit = {} => Releases(s, {}, c)
             /\ \A d : (\E b \in job.submit : d.bundle = b) => Releases(s, {}, d)
  <2>1. FinalPending(s, J) = s.pending \cup job.submit /\ FinalReceipts(s, J) = ReceiptSeqs(s)
    <3>1. ~Unpends(job)
      BY <1>4, RowsLeft
    <3>2. /\ FinalPending(s, {job}) = IF Unpends(job) THEN {} ELSE s.pending \cup job.submit
          /\ FinalReceipts(s, {job}) =
                ReceiptSeqs(s) \cup (IF Len(job.writes) = 4 THEN {job.writes[1].row.bundle.seq} ELSE {})
      BY OneHandler
    <3>3. FinalPending(s, {job}) = s.pending \cup job.submit /\ FinalReceipts(s, {job}) = ReceiptSeqs(s)
      <4>1. Len(job.writes) # 4
        BY <1>4
      <4>2. QED
        BY <3>1, <3>2, <4>1
    <3>4. J = {job}
      BY <1>4
    <3>5. QED
      BY <3>3, <3>4
  <2>2. job.submit = {} => Releases(s, {}, c)
    BY <1>1, <1>2, <2>1 DEF Releases, Unanswered
  <2>3. ASSUME NEW d, NEW b \in job.submit, d.bundle = b
        PROVE  Releases(s, {}, d)
    BY <1>1, <1>2, <1>4, <2>3 DEF Releases, Unanswered
  <2>4. QED
    BY <2>2, <2>3
<1>5. QED
  BY <1>3, <1>4

\* The next transaction of the only handler of a host.
LEMMA WriteStep ==
    ASSUME Base, NEW a \in Accounts, NEW job \in jobs[a], Write(a, job)
    PROVE  /\ UNCHANGED <<up, call, attempts, submissions, pool, blocks, receiptsTo, packagesTo>>
           /\ \A c \in Accounts \ {a} : jobs'[c] = jobs[c] /\ store'[c] = store[c]
           /\ \E rest, t :
                 /\ jobs[a] = {job} /\ jobs'[a] = {rest} /\ store'[a] = t
                 /\ Stage(job, store[a]) /\ Stage(rest, t)
                 /\ Effect(store[a], job.writes[1], t) /\ Progress(store[a], job, t, rest)
                 /\ rest.submit = job.submit /\ rest.deliver = job.deliver
                 /\ Len(job.writes) # 0 /\ Len(rest.writes) = Len(job.writes) - 1
                 /\ Len(job.writes) > 1 => rest.writes[1] = job.writes[2]
<1>1. PICK rest \in Jobs, t \in Stores :
            /\ job \in Jobs /\ job.writes # <<>>
            /\ rest = [job EXCEPT !.writes = Tail(@)] /\ t = Apply(store[a], Head(job.writes))
            /\ up[a] /\ jobs[a] = {job} /\ jobs'[a] = {rest} /\ store'[a] = t
            /\ \A c \in Accounts \ {a} : jobs'[c] = jobs[c] /\ store'[c] = store[c]
  BY WriteMoves DEF Base
<1>2. PICK s : s = store[a]
  OBVIOUS
<1>3. s \in Stores /\ Sound(s, {job}) /\ Stage(job, s)
  BY <1>1, <1>2, Types DEF Base, LocalState, Sound, LocalOK
<1>4. Stage(rest, t) /\ Progress(s, job, t, rest)
  BY <1>1, <1>2, <1>3, StageWrite
<1>5. /\ Head(job.writes) \in Transactions /\ Head(job.writes) = job.writes[1]
      /\ Len(job.writes) \in Nat \ {0} /\ Len(rest.writes) = Len(job.writes) - 1
      /\ rest.submit = job.submit /\ rest.deliver = job.deliver
      /\ \A i \in 1..Len(rest.writes) : rest.writes[i] = job.writes[i + 1]
  BY <1>1, NextWrite
<1>6. Effect(s, job.writes[1], t)
  BY <1>1, <1>2, <1>3, <1>5, Applied
<1>7. Len(job.writes) # 0 /\ (Len(job.writes) > 1 => rest.writes[1] = job.writes[2])
  <2>1. Len(job.writes) > 1 => 1 \in 1..Len(rest.writes)
    BY <1>5
  <2>2. QED
    BY <1>5, <2>1
<1>8. UNCHANGED <<up, call, attempts, submissions, pool, blocks, receiptsTo, packagesTo>>
  BY DEF Write, consensus, mail
<1>9. /\ jobs[a] = {job} /\ jobs'[a] = {rest} /\ store'[a] = t
      /\ Stage(job, store[a]) /\ Stage(rest, t)
      /\ Effect(store[a], job.writes[1], t) /\ Progress(store[a], job, t, rest)
      /\ rest.submit = job.submit /\ rest.deliver = job.deliver
      /\ Len(job.writes) # 0 /\ Len(rest.writes) = Len(job.writes) - 1
      /\ Len(job.writes) > 1 => rest.writes[1] = job.writes[2]
  BY <1>1, <1>2, <1>3, <1>4, <1>5, <1>6, <1>7
<1>10. QED
  BY <1>1, <1>8, <1>9

LEMMA ReleaseBegins ==
    ASSUME ReleaseState, NEW a \in Accounts, NEW job, Begins(a, job), store' = store,
           \A c \in Accounts \ {a} : call'[c] = call[c], call'[a] \in {call[a], NoCall},
           NEW X, RowsOf(job) = {X},
           \/ MaxMisses # 0
           \/ \E r \in store[a].records : r.status = "missing"
           \/ \A r \in X : r.status # "missing",
           Withholds(job, store[a]), \A b \in job.submit : b.seq \notin ReceiptSeqs(store[a]),
           call'[a] # NoCall => job.submit = {}, Len(job.writes) = 4 => Unpends(job)
    PROVE  ReleaseState'
<1>1. Releases(store[a], {}, call[a]) /\ jobs'[a] = {job}
  BY DEF ReleaseState, Begins
<1>2. PICK s, d : s = store[a] /\ d = call'[a]
  OBVIOUS
<1>3. Releases(s, {}, d)
  BY <1>1, <1>2, ReleasesSame
<1>4. MaxMisses = 0 => \A r \in X : r.status # "missing"
  BY <1>2, <1>3 DEF Releases, NothingMissing, Rows
<1>5. Withholds(job, s) /\ \A b \in job.submit : b.seq \notin ReceiptSeqs(s)
  BY <1>2
<1>6. d # NoCall => job.submit = {}
  BY <1>2
<1>7. Releases(s, {job}, d)
  BY <1>3, <1>4, <1>5, <1>6, ReleasesBegins
<1>8. Releases(store'[a], jobs'[a], call'[a])
  BY <1>1, <1>2, <1>7
<1>9. QED
  BY <1>8, ReleasesStep DEF Begins

LEMMA ReleaseStays ==
    ASSUME ReleaseState, UNCHANGED <<store, jobs>>,
           \A c \in Accounts : call'[c] # NoCall => call[c] # NoCall /\ call'[c].bundle = call[c].bundle
    PROVE  ReleaseState'
<1> SUFFICES ASSUME NEW c \in Accounts
             PROVE  Releases(store'[c], jobs'[c], call'[c])
  BY DEF ReleaseState, Releases, NothingMissing, Withholds, Unanswered
<1>1. Releases(store[c], jobs[c], call[c])
  BY DEF ReleaseState
<1>2. PICK s, J, d, e : s = store[c] /\ J = jobs[c] /\ d = call[c] /\ e = call'[c]
  OBVIOUS
<1>3. Releases(s, J, e)
  BY <1>1, <1>2, ReleasesSame
<1>4. QED
  BY <1>2, <1>3

\* A wallet with a handler that is yet to start holds one bundle at most.
LEMMA OnePending ==
    ASSUME LocalState, NEW a \in Accounts, NEW b \in store[a].pending
    PROVE  store[a].pending = {b} /\ Locked(store[a].records, b)
BY DEF LocalState, Sound, LocalOK, Held

LEMMA ReleaseRollsBack ==
    ASSUME Threads = 1, Base, ReleaseState, NEW a \in Accounts, Free(a), NEW b \in store[a].pending,
           call[a] # NoCall, b = call[a].bundle, store' = store,
           call' = [call EXCEPT ![a] = NoCall],
           Starts(a, Only(RollbackWrites(store[a], b)))
    PROVE  ReleaseState'
<1> DEFINE Y == RecordsRolledBack(store[a].records, b)
<1>1. PICK job : RollsBack(job, b, Y) /\ Begins(a, job)
  BY RollbackStarts DEF Base
<1>2. RowsOf(job) = {Y} /\ job.submit = {} /\ Len(job.writes) = 2
  BY <1>1, RowsLeft DEF RollsBack
<1>3. call'[a] = NoCall /\ \A c \in Accounts \ {a} : call'[c] = call[c]
  BY DEF Base, Typed, TypeOK
<1>4. b.seq \notin ReceiptSeqs(store[a])
  <2>1. Unanswered(store[a], {}, call[a])
    BY <1>1 DEF ReleaseState, Releases, Begins
  <2>2. FinalPending(store[a], {}) = store[a].pending /\ FinalReceipts(store[a], {}) = ReceiptSeqs(store[a])
    BY NoHandler
  <2>3. QED
    BY <2>1, <2>2 DEF Unanswered
<1>5. Withholds(job, store[a])
  <2>1. store[a].pending = {b} /\ Writing(job) = {}
    BY <1>2, OnePending DEF Base, Writing
  <2>2. \A u \in store[a].receipts : u.bundle # b
    BY <1>4 DEF ReceiptSeqs
  <2>3. QED
    BY <2>1, <2>2 DEF Withholds
<1>6. \A q \in Y : q.status = "missing" => \E r \in store[a].records : r.status = "missing"
  BY Types, RolledBackRecords DEF Base, Stores
<1> HIDE DEF Y
<1>7. \/ \E r \in store[a].records : r.status = "missing"
      \/ \A q \in Y : q.status # "missing"
  BY <1>6
<1>8. Begins(a, job) /\ call'[a] \in {call[a], NoCall} /\ \A s \in job.submit : s.seq \notin ReceiptSeqs(store[a])
  BY <1>1, <1>2, <1>3
<1>9. (call'[a] # NoCall => job.submit = {}) /\ (Len(job.writes) = 4 => Unpends(job))
  BY <1>2, <1>3
<1>10. RowsOf(job) = {Y}
  BY <1>2
<1>11. QED
  BY <1>3, <1>5, <1>7, <1>8, <1>9, <1>10, ReleaseBegins

LEMMA ReleaseBuild ==
    ASSUME Threads = 1, Base, ReleaseState, NEW a \in Accounts, NEW to \in Accounts \ {a},
           NEW values \in Selections(store[a].records), Build(a, to, values)
    PROVE  ReleaseState'
<1>1. PICK b, job :
              /\ b \in Bundles /\ b.sender = a /\ b.n = attempts[a] + 1 /\ b.seq = NextSequence(store[a])
              /\ b.to = to /\ b.values = values
              /\ \A v \in values : v \in Ranges /\ \E r \in Spendable(store[a].records) : v \subseteq r.value
              /\ Builds(job, b, RecordsWithPending(store[a].records, b))
              /\ Begins(a, job)
  BY BuildStarts DEF Base
<1> DEFINE Y == RecordsWithPending(store[a].records, b)
<1>2. RowsOf(job) = {Y} /\ job.submit = {b} /\ Len(job.writes) = 2 /\ ~Unpends(job)
  BY <1>1, RowsLeft DEF Builds
<1>3. store' = store /\ call' = call /\ call[a] = NoCall /\ store[a].pending = {}
  BY DEF Build
<1>4. b.seq \notin ReceiptSeqs(store[a])
  <2>1. SeqsOK(store[a], OwnBundles(a)) /\ store[a] \in Stores
    BY Types DEF Base, AckState
  <2>2. PICK k \in Nat : ReceiptSeqs(store[a]) = 1..k
    BY <2>1 DEF SeqsOK
  <2>3. b.seq = k + 1
    BY <1>1, <1>3, <2>1, <2>2, NextSequenceFollows
  <2>4. QED
    BY <2>2, <2>3
<1>5. \A q \in Y : q.status = "missing" => \E r \in store[a].records : r.status = "missing"
  <2>1. PICK X : X = store[a].records
    OBVIOUS
  <2>2. X \in SUBSET Records /\ \A v \in b.values : \E r \in Spendable(X) : v \subseteq r.value
    BY <1>1, <2>1, Types DEF Base, Stores
  <2>3. \A r \in X : ~IsPieceOf(r, b)
    BY <1>1, <2>1, Types DEF Base, StoreFits, Cut, IsPieceOf, Stores, Records
  <2>4. b \in Bundles
    BY <1>1
  <2>5. Y = RecordsWithPending(X, b)
    BY <2>1
  <2> HIDE DEF Y
  <2>6. \A q \in Y : (IsPieceOf(q, b) => q.status = "pending") /\ (IsPieceOf(q, b) \/ q \in X)
    BY <2>2, <2>3, <2>4, <2>5, Cuts
  <2>7. QED
    BY <2>1, <2>6
<1>6. Withholds(job, store[a])
  BY <1>2 DEF Withholds
<1> HIDE DEF Y
<1>7. QED
  BY <1>1, <1>2, <1>3, <1>4, <1>5, <1>6, ReleaseBegins

LEMMA ReleaseWrite ==
    ASSUME Base, ReleaseState, NEW a \in Accounts, NEW job \in jobs[a], Write(a, job)
    PROVE  ReleaseState'
<1>1. /\ call' = call
      /\ \A c \in Accounts \ {a} : jobs'[c] = jobs[c] /\ store'[c] = store[c]
  BY WriteStep
<1>2. PICK rest, t :
         /\ jobs[a] = {job} /\ jobs'[a] = {rest} /\ store'[a] = t
         /\ Stage(job, store[a]) /\ Stage(rest, t)
         /\ Effect(store[a], job.writes[1], t) /\ Progress(store[a], job, t, rest)
         /\ rest.submit = job.submit /\ rest.deliver = job.deliver
         /\ Len(job.writes) # 0 /\ Len(rest.writes) = Len(job.writes) - 1
         /\ Len(job.writes) > 1 => rest.writes[1] = job.writes[2]
  BY WriteStep
<1>3. Releases(store[a], {job}, call[a])
  BY <1>2 DEF ReleaseState
<1>4. Releases(t, {rest}, call[a])
  BY <1>2, <1>3, ReleasesWrite
<1>5. Releases(store'[a], jobs'[a], call'[a])
  BY <1>1, <1>2, <1>4
<1>6. QED
  BY <1>1, <1>5, ReleasesStep

LEMMA ReleaseFinish ==
    ASSUME Base, ReleaseState, NEW a \in Accounts, NEW job \in jobs[a], Finish(a, job)
    PROVE  ReleaseState'
<1>1. /\ job \in Jobs /\ Len(job.writes) = 0 /\ jobs[a] = {job} /\ jobs'[a] = {}
      /\ \A c \in Accounts \ {a} : jobs'[c] = jobs[c]
  BY FinishMoves DEF Base
<1>2. store' = store /\ \A c \in Accounts \ {a} : call'[c] = call[c]
  BY DEF Finish, Base, Typed, TypeOK
<1>3. \/ job.submit = {} /\ call' = call
      \/ \E b \in job.submit : call'[a].bundle = b
  BY DEF Finish, Base, Typed, TypeOK
<1>4. Releases(store[a], jobs[a], call[a])
  BY DEF ReleaseState
<1>5. Releases(store[a], {}, call'[a])
  <2>1. CASE job.submit = {} /\ call' = call
    BY <1>1, <1>4, <2>1, ReleasesDrops
  <2>2. CASE \E b \in job.submit : call'[a].bundle = b
    BY <1>1, <1>4, <2>2, ReleasesDrops
  <2>3. QED
    BY <1>3, <2>1, <2>2
<1>6. Releases(store'[a], jobs'[a], call'[a])
  BY <1>1, <1>2, <1>5
<1>7. QED
  BY <1>1, <1>2, <1>6, ReleasesStep

LEMMA ReleaseMissing ==
    ASSUME Threads = 1, Base, ReleaseState, NEW a \in Accounts, NEW b \in store[a].pending,
           PullMissed(a, b)
    PROVE  ReleaseState'
<1> DEFINE Y == RecordsWithMissing(store[a].records, b)
<1>1. /\ store' = store /\ call' = call /\ Free(a) /\ Starts(a, Only(MissingWrites(store[a], b)))
      /\ MaxMisses # 0
  BY DEF PullMissed, Base, Typed, TypeOK
<1>2. PICK job : Marks(job, Y) /\ Begins(a, job)
  BY <1>1, MissingStarts DEF Base
<1>3. RowsOf(job) = {Y} /\ job.submit = {} /\ Len(job.writes) = 1 /\ ~Unpends(job)
  BY <1>2, RowsLeft DEF Marks
<1>4. Withholds(job, store[a])
  BY <1>3 DEF Withholds
<1> HIDE DEF Y
<1>5. QED
  BY <1>1, <1>2, <1>3, <1>4, ReleaseBegins

LEMMA ReleaseConfirm ==
    ASSUME Threads = 1, Base, ReleaseState, NEW a \in Accounts, NEW u \in receiptsTo[a],
           TakeReceipt(a, u)
    PROVE  ReleaseState'
<1>1. store' = store /\ call' = call /\ Free(a)
  BY DEF TakeReceipt
<1>2. CASE jobs' = jobs
  BY <1>1, <1>2, ReleaseStays
<1> DEFINE Y == RecordsConfirmed(store[a].records, u)
           D == PackagesOf(Y, u)
<1>3. CASE /\ u.bundle \in store[a].pending
           /\ Starts(a, [writes |-> ConfirmWrites(store[a], u), submit |-> {}, deliver |-> D])
  <2>1. u \in ConfirmedUnits /\ Fits(u.bundle, a, attempts[a]) /\ store[a].records \in SUBSET Records
    BY Types DEF Base, Stores
  <2>2. PICK job : Confirms(job, u, Y, D) /\ Begins(a, job)
    BY <1>1, <1>3, <2>1, ConfirmStarts DEF Base
  <2>3. RowsOf(job) = {Y} /\ job.submit = {} /\ Unpends(job)
    BY <2>2, RowsLeft DEF Confirms
  <2>4. store[a].pending = {u.bundle}
    BY <1>3, OnePending DEF Base
  <2>5. ASSUME NEW q \in Y
        PROVE  /\ IsPieceOf(q, u.bundle) /\ q.value \in u.bundle.values => q.status # "spendable"
                  \/ \E r \in store[a].records : r.status = "spendable" /\ IsPieceOf(r, u.bundle)
               /\ q.status = "missing" => \E r \in store[a].records : r.status = "missing"
    <3>1. PICK X : X = store[a].records
      OBVIOUS
    <3>2. X \in SUBSET Records /\ u \in ConfirmedUnits /\ Y = RecordsConfirmed(X, u)
      BY <2>1, <3>1
    <3> HIDE DEF Y
    <3>3. \A x \in Y : \E r \in X :
              /\ x = ConfirmedRecord(r, u) /\ SamePiece(x, r)
              /\ \/ x = r /\ r.status = "archived"
                 \/ x = r /\ ~IsPieceOf(r, u.bundle)
                 \/ /\ r.status # "archived" /\ x.chain = <<u>> \o r.chain
                    /\ \/ IsPieceOf(r, u.bundle) /\ r.value \in u.bundle.values /\ x.status = "archived"
                       \/ IsPieceOf(r, u.bundle) /\ r.value \notin u.bundle.values /\ x.status = "spendable"
                       \/ /\ ~IsPieceOf(r, u.bundle) /\ x.status = "spendable"
                          /\ r.status \in {"spendable", "missing"}
      BY <3>2, ConfirmedCases
    <3>4. PICK r \in store[a].records :
             /\ SamePiece(q, r)
             /\ \/ q = r /\ r.status = "archived"
                \/ q = r /\ ~IsPieceOf(r, u.bundle)
                \/ IsPieceOf(r, u.bundle) /\ r.value \in u.bundle.values /\ q.status = "archived"
                \/ IsPieceOf(r, u.bundle) /\ r.value \notin u.bundle.values /\ q.status = "spendable"
                \/ ~IsPieceOf(r, u.bundle) /\ q.status = "spendable" /\ r.status \in {"spendable", "missing"}
      BY <3>1, <3>3
    <3>5. QED
      BY <3>4 DEF SamePiece, IsPieceOf
  <2>6. Withholds(job, store[a])
    <3>1. \A r \in store[a].records : IsPieceOf(r, u.bundle) => r.status \in {"pending", "missing"}
      BY <1>3, OnePending DEF Base, Locked
    <3> HIDE DEF Y
    <3>2. QED
      BY <2>3, <2>4, <2>5, <3>1 DEF Withholds
  <2> HIDE DEF Y
  <2>7. QED
    BY <1>1, <2>2, <2>3, <2>5, <2>6, ReleaseBegins
<1>4. QED
  BY <1>2, <1>3 DEF TakeReceipt, AcceptsReceipt

LEMMA ReleaseReceive ==
    ASSUME Threads = 1, Base, ReleaseState, NEW a \in Accounts, NEW p \in packagesTo[a],
           TakePackage(a, p)
    PROVE  ReleaseState'
<1> DEFINE Y == store[a].records \cup {ReceivedRecord(p)}
<1>1. store' = store /\ call' = call /\ Free(a)
  BY DEF TakePackage
<1>2. CASE jobs' = jobs
  BY <1>1, <1>2, ReleaseStays
<1>3. CASE Valid(p) /\ Starts(a, Only(ReceiveWrites(store[a], p)))
  <2>1. PICK job : Receives(job, p, Y) /\ Begins(a, job)
    BY <1>1, <1>3, ReceiveStarts DEF Base
  <2>2. \A q \in Y : q.status = "missing" => \E r \in store[a].records : r.status = "missing"
    BY DEF ReceivedRecord
  <2>3. /\ job.submit = {} /\ Len(job.writes) = 2
        /\ job.writes[1].table = "records" /\ job.writes[2].table = "accepted"
        /\ job.writes[1].rows = Y
    BY <2>1 DEF Receives
  <2> HIDE DEF Y
  <2>4. RowsOf(job) = {Y} /\ ~Unpends(job)
    BY <2>3, RowsLeft
  <2>5. Withholds(job, store[a])
    BY <2>4 DEF Withholds
  <2>6. QED
    BY <1>1, <2>1, <2>2, <2>3, <2>4, <2>5, ReleaseBegins
<1>4. QED
  BY <1>2, <1>3 DEF TakePackage

LEMMA ReleaseNext == Threads = 1 /\ Base /\ ReleaseState /\ [Next]_vars => ReleaseState'
<1> SUFFICES ASSUME Threads = 1, Base, ReleaseState, [Next]_vars
             PROVE  ReleaseState'
  OBVIOUS
<1>1. ASSUME NEW a \in Accounts, NEW to \in Accounts \ {a},
             NEW values \in Selections(store[a].records) \ {{}}, Build(a, to, values)
      PROVE  ReleaseState'
  BY <1>1, ReleaseBuild
<1>2. ASSUME NEW a \in Accounts, NEW job \in jobs[a], Write(a, job) \/ Finish(a, job)
      PROVE  ReleaseState'
  BY <1>2, ReleaseWrite, ReleaseFinish
<1>3. ASSUME NEW a \in Accounts, Answer(a) \/ Timeout(a)
      PROVE  ReleaseState'
  <2>1. store' = store /\ call' = [call EXCEPT ![a] = NoCall] /\ call[a] # NoCall
    BY <1>3 DEF Answer, Timeout
  <2>2. \/ jobs' = jobs
        \/ /\ Free(a) /\ call[a].bundle \in store[a].pending
           /\ Starts(a, Only(RollbackWrites(store[a], call[a].bundle)))
    BY <1>3 DEF Answer, Timeout
  <2>3. \A c \in Accounts : call'[c] # NoCall => call'[c] = call[c]
    BY <2>1 DEF Base, Typed, TypeOK
  <2>4. QED
    BY <2>1, <2>2, <2>3, ReleaseRollsBack, ReleaseStays
<1>4. ASSUME NEW a \in Accounts, NEW u \in receiptsTo[a], TakeReceipt(a, u)
      PROVE  ReleaseState'
  BY <1>4, ReleaseConfirm
<1>5. ASSUME NEW a \in Accounts, NEW p \in packagesTo[a], TakePackage(a, p)
      PROVE  ReleaseState'
  BY <1>5, ReleaseReceive
<1>6. ASSUME NEW a \in Accounts, NEW b \in store[a].pending, PullMissed(a, b)
      PROVE  ReleaseState'
  BY <1>6, ReleaseMissing
<1>7. ASSUME NEW a \in Accounts, Crash(a)
      PROVE  ReleaseState'
  <2>1. /\ store' = store /\ jobs'[a] = {} /\ call'[a] = NoCall
        /\ \A c \in Accounts \ {a} : jobs'[c] = jobs[c] /\ call'[c] = call[c]
    BY <1>7 DEF Crash, Base, Typed, TypeOK
  <2>2. Releases(store[a], jobs[a], call[a])
    BY DEF ReleaseState
  <2>3. Releases(store[a], {}, NoCall)
    BY <2>2, ReleasesDrops
  <2>4. QED
    BY <2>1, <2>3, ReleasesStep
<1>8. ASSUME NEW b \in submissions, Arrive(b)
      PROVE  ReleaseState'
  <2>1. UNCHANGED <<store, jobs>>
    BY <1>8 DEF Arrive
  <2>2. \A c \in Accounts : call'[c] # NoCall => call[c] # NoCall /\ call'[c].bundle = call[c].bundle
    BY <1>8 DEF Arrive, NoCall
  <2>3. QED
    BY <2>1, <2>2, ReleaseStays
<1>9. ASSUME NEW a \in Accounts, NEW b \in store[a].pending, Pull(a, b) \/ Restart(a)
      PROVE  ReleaseState'
  BY <1>9, ReleaseStays DEF Pull, Restart
<1>10. ASSUME NEW a \in Accounts, Restart(a)
      PROVE  ReleaseState'
  BY <1>10, ReleaseStays DEF Restart
<1>11. CASE Commit \/ UNCHANGED vars
  BY <1>11, ReleaseStays DEF Commit, vars
<1>12. QED
  BY <1>1, <1>2, <1>3, <1>4, <1>5, <1>6, <1>7, <1>8, <1>9, <1>10, <1>11 DEF Next

LEMMA ReleaseInit == Init => ReleaseState
<1> SUFFICES ASSUME Init, NEW a \in Accounts
             PROVE  Releases(store[a], jobs[a], call[a])
  BY DEF ReleaseState
<1>1. /\ jobs[a] = {} /\ call[a] = NoCall
      /\ \A r \in store[a].records : r.status = "spendable"
  BY DEF Init, FirstStore
<1>2. Rows(store[a], {}) = {store[a].records}
  BY NoHandler
<1>3. QED
  BY <1>1, <1>2 DEF Releases, NothingMissing, Unanswered

-----------------------------------------------------------------------------
(* Who owns what *)

\* Wallets that let go of a bundle the chain has: after a timeout.
Lost(a) ==
    \E u \in ReceiptsFor(a) : u \notin store[a].receipts /\ u.bundle \notin store[a].pending

Owned(a) == {x \in Allocated : OwnerOf(x) = a}

\* The values of a confirmed bundle that their receiver has still to hear of.
Outstanding(b) ==
    {v \in b.values :
        \/ b \in store[b.sender].pending
        \/ \E job \in jobs[b.sender] : \E p \in job.deliver : p.bundle = b /\ p.value = v
        \/ \E p \in packagesTo[b.to] : p.bundle = b /\ p.value = v}

PaidTo(a) == {b \in Confirmed : b.to = a}

DueUnits(a) == UNION {UNION Outstanding(b) : b \in PaidTo(a)}

\* What a wallet that has let go of nothing may have in its records.
Purse(a) == Owned(a) \ DueUnits(a)

\* The bundles the next block could take.
Queued(a) == {b \in OwnQueue(a) \cup ToSubmit(jobs[a]) : b.seq = ConfirmedSeq(a) + 1}

Waiting(a) == store[a].pending \cap OwnQueue(a) \cap Queued(a)

\* Records X that set the bundles H aside, of which P are confirmed and Q wait.
Holds(X, H, P, Q, units) ==
    /\ UnitsOf(Live(X, H) \ Paid(X, P)) \subseteq units
    /\ Apart(Live(X, H))
    /\ \A b \in Q : \A v \in b.values : \E r \in Live(X, H) : IsPieceOf(r, b) /\ r.value = v

HoldState ==
    \A a \in Accounts : ~Lost(a) => \A X \in Rows(store[a], jobs[a]) :
        Holds(X, Held(store[a], jobs[a]), store[a].pending \cap Confirmed, Waiting(a), Purse(a))

DueState ==
    \A a \in Accounts :
        /\ DueUnits(a) \subseteq Owned(a)
        /\ \A b, d \in PaidTo(a) : \A v \in Outstanding(b), w \in Outstanding(d) :
              b # d \/ v # w => v \cap w = {}

QueueState ==
    \A a \in Accounts : \A b \in Queued(a) : Clean(b.values) /\ UNION b.values \subseteq Purse(a)

\* Packages that a handler has prepared.
Prepared(job, a) ==
    /\ \A p \in job.deliver :
          /\ p.bundle \in Confirmed /\ p.bundle.sender = a /\ p.value \in p.bundle.values
          /\ p.bundle \in store[a].pending <=> Unpends(job)
    /\ \A p, q \in job.deliver : p.bundle = q.bundle /\ (p.value = q.value => p = q)

\* Packages on their way.
Sent(a) ==
    /\ \A p \in packagesTo[a] :
          /\ p.bundle \in Confirmed /\ p.bundle.to = a /\ p.value \in p.bundle.values
          /\ p.bundle \notin store[p.bundle.sender].pending
          /\ \A job \in jobs[p.bundle.sender] : \A q \in job.deliver : q.bundle # p.bundle
    /\ \A p, q \in packagesTo[a] : p.bundle = q.bundle /\ p.value = q.value => p = q

PackageState == \A a \in Accounts : Sent(a) /\ \A job \in jobs[a] : Prepared(job, a)

Shares == HoldState /\ DueState /\ QueueState /\ PackageState

-----------------------------------------------------------------------------
(* A wallet's records and its purse *)

\* Nothing new is set aside or waits, and what was paid out still is.
LEMMA HoldsLess ==
    ASSUME NEW X, NEW H, NEW P, NEW Q, NEW W, Holds(X, H, P, Q, W),
           NEW I, I \subseteq H, NEW R, NEW S, S \subseteq Q \cap I, NEW N, W \subseteq N,
           \A r \in Live(X, I) : r \in Paid(X, P) => r \in Paid(X, R)
    PROVE  Holds(X, I, R, S, N)
<1>1. Live(X, I) \subseteq Live(X, H)
  BY DEF Live
<1>2. UnitsOf(Live(X, I) \ Paid(X, R)) \subseteq N
  BY <1>1 DEF Holds, UnitsOf
<1>3. Apart(Live(X, I))
  BY <1>1 DEF Holds, Apart
<1>4. ASSUME NEW b \in S, NEW v \in b.values
      PROVE  \E r \in Live(X, I) : IsPieceOf(r, b) /\ r.value = v
  <2>1. PICK r \in Live(X, H) : IsPieceOf(r, b) /\ r.value = v
    BY DEF Holds
  <2>2. r \in Live(X, I)
    BY <2>1 DEF Live
  <2>3. QED
    BY <2>1, <2>2
<1>5. QED
  BY <1>2, <1>3, <1>4 DEF Holds

\* Records that are rewritten one by one, and none of which becomes live.
LEMMA HoldsMapped ==
    ASSUME NEW X, NEW H, NEW P, NEW Q, NEW W, Holds(X, H, P, Q, W),
           NEW f, NEW Y, Y = {f[r] : r \in X}, \A r \in X : SamePiece(f[r], r),
           \A r \in X : f[r] \in Live(Y, H) => r \in Live(X, H),
           NEW S, S \subseteq Q,
           \A b \in S : \A r \in Live(X, H) : IsPieceOf(r, b) => f[r] \in Live(Y, H)
    PROVE  Holds(Y, H, P, S, W)
<1>1. \A q \in Live(Y, H) : \E r \in Live(X, H) : q = f[r] /\ r \in X
  BY DEF Live
<1>2. ASSUME NEW q \in Live(Y, H) \ Paid(Y, P)
      PROVE  q.value \subseteq W
  <2>1. PICK r \in Live(X, H) : q = f[r] /\ r \in X
    BY <1>1
  <2>2. SamePiece(q, r)
    BY <2>1
  <2>3. q \in Y
    BY DEF Live
  <2>4. r \notin Paid(X, P)
    BY <2>2, <2>3 DEF Paid, SamePiece, IsPieceOf
  <2>5. r.value \subseteq W
    BY <2>1, <2>4 DEF Holds, UnitsOf
  <2>6. QED
    BY <2>2, <2>5 DEF SamePiece
<1>3. ASSUME NEW p \in Live(Y, H), NEW q \in Live(Y, H), p # q
      PROVE  p.value \cap q.value = {}
  <2>1. PICK r \in Live(X, H) : p = f[r] /\ r \in X
    BY <1>1
  <2>2. PICK s \in Live(X, H) : q = f[s] /\ s \in X
    BY <1>1
  <2>3. r # s
    BY <1>3, <2>1, <2>2
  <2>4. r.value \cap s.value = {}
    BY <2>3 DEF Holds, Apart
  <2>5. p.value = r.value /\ q.value = s.value
    BY <2>1, <2>2 DEF SamePiece
  <2>6. QED
    BY <2>4, <2>5
<1>4. ASSUME NEW b \in S, NEW v \in b.values
      PROVE  \E q \in Live(Y, H) : IsPieceOf(q, b) /\ q.value = v
  <2>1. PICK r \in Live(X, H) : IsPieceOf(r, b) /\ r.value = v
    BY DEF Holds
  <2>2. f[r] \in Live(Y, H) /\ r \in X
    BY <2>1 DEF Live
  <2>3. IsPieceOf(f[r], b) /\ f[r].value = v
    BY <2>1, <2>2 DEF SamePiece, IsPieceOf
  <2>4. QED
    BY <2>2, <2>3
<1>5. UnitsOf(Live(Y, H) \ Paid(Y, P)) \subseteq W
  BY <1>2 DEF UnitsOf
<1>6. Apart(Live(Y, H))
  BY <1>3 DEF Apart
<1>7. QED
  BY <1>4, <1>5, <1>6 DEF Holds

\* build_bundle, before and after the records are written.
LEMMA HoldsBuilt ==
    ASSUME NEW X \in SUBSET Records, NEW b \in Bundles, NEW W, Holds(X, {}, {}, {}, W),
           \A v \in b.values : v \in Ranges /\ \E r \in Spendable(X) : v \subseteq r.value,
           Apart(Spendable(X)) => Clean(b.values), \A r \in X : ~IsPieceOf(r, b),
           NEW Y, Y = RecordsWithPending(X, b)
    PROVE  /\ Holds(X, {b}, {}, {}, W) /\ Holds(Y, {b}, {}, {}, W)
           /\ Clean(b.values) /\ UNION b.values \subseteq W
<1>1. /\ Live(X, {}) = Spendable(X) /\ Live(X, {b}) = Spendable(X)
      /\ Paid(X, {}) = {} /\ Paid(Y, {}) = {}
  BY DEF Live, Spendable, Paid
<1>2. Apart(Spendable(X)) /\ \A r \in Spendable(X) : r.value \subseteq W
  BY <1>1 DEF Holds, UnitsOf
<1>3. Holds(X, {b}, {}, {}, W)
  BY <1>1 DEF Holds
<1>4. \A v \in b.values : \E r \in Spendable(X) : v \subseteq r.value
  OBVIOUS
<1>5. Clean(b.values)
  BY <1>2
<1>6. /\ \A q \in Y : IsPieceOf(q, b) => \E r \in Spendable(X) : q.value \subseteq r.value
      /\ \A q \in Y : IsPieceOf(q, b) \/ q \in X \ Touched(X, b)
  BY <1>4, Cuts
<1>7. Live(Y, {b}) \subseteq {q \in Y : IsPieceOf(q, b) \/ q.status = "spendable"}
  BY DEF Live
<1>8. Apart({q \in Y : IsPieceOf(q, b) \/ q.status = "spendable"})
  BY <1>2, <1>4, <1>5, Cutting
<1>9. ASSUME NEW q \in Live(Y, {b})
      PROVE  q.value \subseteq W
  <2>1. q \in Y /\ (IsPieceOf(q, b) \/ q.status = "spendable")
    BY <1>7
  <2>2. CASE IsPieceOf(q, b)
    BY <1>2, <1>6, <2>1, <2>2
  <2>3. CASE ~IsPieceOf(q, b)
    <3>1. q \in Spendable(X)
      BY <1>6, <2>1, <2>3 DEF Spendable
    <3>2. QED
      BY <1>2, <3>1
  <2>4. QED
    BY <2>2, <2>3
<1>10. Apart(Live(Y, {b}))
  BY <1>7, <1>8 DEF Apart
<1>11. Holds(Y, {b}, {}, {}, W)
  <2>1. UnitsOf(Live(Y, {b}) \ Paid(Y, {})) \subseteq W
    <3>1. PICK L, R : L = Live(Y, {b}) /\ R = Paid(Y, {})
      OBVIOUS
    <3>2. \A q \in L \ R : q.value \subseteq W
      BY <1>9, <3>1
    <3>3. UnitsOf(L \ R) \subseteq W
      BY <3>2 DEF UnitsOf
    <3>4. QED
      BY <3>1, <3>3
  <2>2. QED
    BY <1>10, <2>1 DEF Holds
<1>12. UNION b.values \subseteq W
  BY <1>2, <1>4
<1>13. QED
  BY <1>3, <1>5, <1>11, <1>12

\* receive_transfer: the record that comes in is of units that nobody else's
\* records here are of.
LEMMA HoldsReceived ==
    ASSUME NEW X, NEW H, NEW P, NEW Q, NEW W, Holds(X, H, P, Q, W), NEW q, q.status = "spendable",
           NEW N, W \subseteq N, q.value \subseteq N, q.value \cap W = {},
           \A r \in Paid(X, P) : r.value \cap q.value = {},
           NEW Y, Y = X \cup {q}
    PROVE  Holds(Y, H, P, Q, N)
<1>1. Live(Y, H) = Live(X, H) \cup {q}
  BY DEF Live
<1>2. \A r \in Live(X, H) : r.value \cap q.value = {}
  <2>1. SUFFICES ASSUME NEW r \in Live(X, H), r \notin Paid(X, P)
                 PROVE  r.value \cap q.value = {}
    OBVIOUS
  <2>2. r.value \subseteq W
    BY <2>1 DEF Holds, UnitsOf
  <2>3. QED
    BY <2>2
<1>3. Apart(Live(Y, H))
  BY <1>1, <1>2 DEF Holds, Apart
<1>4. ASSUME NEW r \in Live(Y, H), r \notin Paid(Y, P)
      PROVE  r.value \subseteq N
  <2>1. CASE r = q
    BY <2>1
  <2>2. CASE r # q
    <3>1. r \in Live(X, H) /\ r \notin Paid(X, P)
      BY <1>1, <1>4, <2>2 DEF Paid, Live
    <3>2. QED
      BY <3>1 DEF Holds, UnitsOf
  <2>3. QED
    BY <2>1, <2>2
<1>5. UnitsOf(Live(Y, H) \ Paid(Y, P)) \subseteq N
  <2> DEFINE S == Live(Y, H) \ Paid(Y, P)
  <2>1. \A r \in S : r.value \subseteq N
    BY <1>4
  <2> HIDE DEF S
  <2>2. UnitsOf(S) \subseteq N
    BY <2>1 DEF UnitsOf
  <2>3. QED
    BY <2>2 DEF S
<1>6. QED
  BY <1>1, <1>3, <1>5 DEF Holds

\* A block confirms the bundle that waits.
LEMMA HoldsPaidOut ==
    ASSUME NEW X, NEW H, NEW P, NEW Q, NEW W, Holds(X, H, P, Q, W), NEW b \in Q,
           NEW N, W \ UNION b.values \subseteq N
    PROVE  Holds(X, H, P \cup {b}, {}, N)
<1>1. ASSUME NEW q \in Live(X, H), q \notin Paid(X, P \cup {b})
      PROVE  q.value \subseteq N
  <2>1. q \notin Paid(X, P)
    BY <1>1 DEF Paid
  <2>2. q.value \subseteq W
    BY <2>1 DEF Holds, UnitsOf
  <2>3. ASSUME NEW v \in b.values
        PROVE  q.value \cap v = {}
    <3>1. PICK r \in Live(X, H) : IsPieceOf(r, b) /\ r.value = v
      BY DEF Holds
    <3>2. r \in Paid(X, P \cup {b})
      BY <3>1 DEF Paid, Live
    <3>3. QED
      BY <1>1, <3>1, <3>2 DEF Holds, Apart
  <2>4. QED
    BY <2>2, <2>3
<1>2. UnitsOf(Live(X, H) \ Paid(X, P \cup {b})) \subseteq N
  BY <1>1 DEF UnitsOf
<1>3. Apart(Live(X, H))
  BY DEF Holds
<1>4. QED
  BY <1>2, <1>3 DEF Holds

-----------------------------------------------------------------------------
(* Steps of one wallet *)

LEMMA OwnedKept ==
    ASSUME blocks' = blocks
    PROVE  /\ Confirmed' = Confirmed
           /\ \A c : /\ ReceiptsFor(c)' = ReceiptsFor(c) /\ ConfirmedSeq(c)' = ConfirmedSeq(c)
                     /\ Owned(c)' = Owned(c) /\ PaidTo(c)' = PaidTo(c)
<1>1. Confirmed' = Confirmed
  BY DEF Confirmed
<1>2. \A c : ReceiptsFor(c)' = ReceiptsFor(c)
  BY DEF ReceiptsFor
<1>3. \A c : ConfirmedSeq(c)' = ConfirmedSeq(c)
  BY <1>2 DEF ConfirmedSeq
<1>4. \A x : OwnerOf(x)' = OwnerOf(x)
  BY DEF OwnerOf
<1>5. \A c : Owned(c)' = Owned(c)
  BY <1>4 DEF Owned
<1>6. QED
  BY <1>1, <1>2, <1>3, <1>5 DEF PaidTo

\* A step of account a's host: nothing is outstanding that was not before.
Keeps(a) ==
    /\ blocks' = blocks
    /\ \A c \in Accounts \ {a} :
          store'[c] = store[c] /\ jobs'[c] = jobs[c] /\ OwnQueue(c)' \subseteq OwnQueue(c)
    /\ store'[a].pending \cap Confirmed \subseteq store[a].pending
    /\ \A job \in jobs'[a] : \A p \in job.deliver :
          p.bundle \in store[a].pending \/ \E k \in jobs[a] : p \in k.deliver
    /\ \A c \in Accounts : \A p \in packagesTo'[c] :
          p \in packagesTo[c] \/ \E k \in jobs[a] : p \in k.deliver

LEMMA ConfirmedType ==
    ASSUME Typed
    PROVE  \A b \in Confirmed : b \in Bundles /\ b.sender \in Accounts /\ b.to \in Accounts /\ b.to # b.sender
<1>1. Confirmed \subseteq Bundles
  BY DEF Typed, TypeOK, Confirmed
<1>2. \A b \in Confirmed : b.to # b.sender
  BY DEF Typed, Numbered, Fits
<1>3. QED
  BY <1>1, <1>2 DEF Bundles

LEMMA OutstandingKept ==
    ASSUME Typed, PackageState, NEW a \in Accounts, Keeps(a), NEW b \in Confirmed
    PROVE  Outstanding(b)' \subseteq Outstanding(b)
<1>1. b.sender \in Accounts /\ b.to \in Accounts
  BY ConfirmedType
<1>2. SUFFICES ASSUME NEW v \in Outstanding(b)'
               PROVE  v \in Outstanding(b)
  OBVIOUS
<1>3. v \in b.values
  BY DEF Outstanding
<1>4. ASSUME NEW k \in jobs[a], NEW p \in k.deliver, p.bundle = b
      PROVE  b.sender = a
  BY <1>4 DEF PackageState, Prepared
<1>5. CASE b \in store'[b.sender].pending
  <2>1. b \in store[b.sender].pending
    BY <1>1, <1>5 DEF Keeps
  <2>2. QED
    BY <1>3, <2>1 DEF Outstanding
<1>6. CASE \E job \in jobs'[b.sender] : \E p \in job.deliver : p.bundle = b /\ p.value = v
  <2>1. \/ b \in store[b.sender].pending
        \/ \E job \in jobs[b.sender] : \E p \in job.deliver : p.bundle = b /\ p.value = v
    BY <1>1, <1>6 DEF Keeps
  <2>2. QED
    BY <1>3, <2>1 DEF Outstanding
<1>7. CASE \E p \in packagesTo'[b.to] : p.bundle = b /\ p.value = v
  <2>1. \/ \E p \in packagesTo[b.to] : p.bundle = b /\ p.value = v
        \/ \E job \in jobs[b.sender] : \E p \in job.deliver : p.bundle = b /\ p.value = v
    BY <1>1, <1>4, <1>7 DEF Keeps
  <2>2. QED
    BY <1>3, <2>1 DEF Outstanding
<1>8. QED
  BY <1>5, <1>6, <1>7 DEF Outstanding

LEMMA DueKept ==
    ASSUME Typed, DueState, PackageState, NEW a \in Accounts, Keeps(a)
    PROVE  DueState' /\ \A c \in Accounts : Purse(c) \subseteq Purse(c)'
<1>1. \A c : Owned(c)' = Owned(c) /\ PaidTo(c)' = PaidTo(c)
  BY OwnedKept DEF Keeps
<1>2. ASSUME NEW c, NEW b \in PaidTo(c)
      PROVE  Outstanding(b)' \subseteq Outstanding(b)
  BY OutstandingKept DEF PaidTo
<1>3. ASSUME NEW c
      PROVE  DueUnits(c)' \subseteq DueUnits(c)
  BY <1>1, <1>2 DEF DueUnits
<1>4. ASSUME NEW c \in Accounts
      PROVE  Purse(c) \subseteq Purse(c)'
  BY <1>1, <1>3 DEF Purse
<1>5. DueState'
  BY <1>1, <1>2, <1>3 DEF DueState
<1>6. QED
  BY <1>4, <1>5

LEMMA PackagesKept ==
    ASSUME Typed, PackageState, NEW a \in Accounts, Keeps(a),
           \A c \in Accounts : packagesTo'[c] \subseteq packagesTo[c],
           \A job \in jobs'[a] : Prepared(job, a)'
    PROVE  PackageState'
<1>1. Confirmed' = Confirmed
  BY OwnedKept DEF Keeps
<1>2. ASSUME NEW c \in Accounts, c # a, NEW job \in jobs'[c]
      PROVE  Prepared(job, c)'
  BY <1>1, <1>2 DEF Keeps, PackageState, Prepared
<1>3. ASSUME NEW c \in Accounts, NEW p \in packagesTo'[c]
      PROVE  /\ p.bundle \in Confirmed /\ p.bundle.to = c /\ p.value \in p.bundle.values
             /\ p.bundle \notin store'[p.bundle.sender].pending
             /\ \A job \in jobs'[p.bundle.sender] : \A q \in job.deliver : q.bundle # p.bundle
  <2>1. /\ p.bundle \in Confirmed /\ p.bundle.to = c /\ p.value \in p.bundle.values
        /\ p.bundle \notin store[p.bundle.sender].pending
        /\ \A job \in jobs[p.bundle.sender] : \A q \in job.deliver : q.bundle # p.bundle
    BY <1>3 DEF PackageState, Sent
  <2>2. p.bundle.sender \in Accounts
    BY <2>1, ConfirmedType
  <2>3. QED
    BY <2>1, <2>2 DEF Keeps
<1>4. ASSUME NEW c \in Accounts
      PROVE  Sent(c)'
  <2>1. \A p, q \in packagesTo'[c] : p.bundle = q.bundle /\ p.value = q.value => p = q
    BY <1>4 DEF PackageState, Sent
  <2>2. QED
    BY <1>1, <1>3, <2>1 DEF Sent
<1>5. QED
  BY <1>2, <1>4 DEF PackageState

\* The purse and the bundles that wait are not the only ones to change.
LEMMA HoldsStill ==
    ASSUME NEW X, NEW H, NEW P, NEW Q, NEW W, Holds(X, H, P, Q, W),
           NEW N, W \subseteq N, NEW S,
           \A b \in S : b \in Q \/ (b \in H /\ Split(X, b) /\ Locked(X, b))
    PROVE  Holds(X, H, P, S, N)
<1>1. UnitsOf(Live(X, H) \ Paid(X, P)) \subseteq N /\ Apart(Live(X, H))
  BY DEF Holds
<1>2. ASSUME NEW b \in S, NEW v \in b.values
      PROVE  \E r \in Live(X, H) : IsPieceOf(r, b) /\ r.value = v
  <2>1. CASE b \in Q
    BY <2>1 DEF Holds
  <2>2. CASE b \in H /\ Split(X, b) /\ Locked(X, b)
    BY <2>2 DEF Split, Locked, Live
  <2>3. QED
    BY <1>2, <2>1, <2>2
<1>3. QED
  BY <1>1, <1>2 DEF Holds

LEMMA SharesStep ==
    ASSUME Typed, Shares, NEW a \in Accounts, Keeps(a), PackageState',
           \A b \in Queued(a)' :
               b \in Queued(a) \/ (Clean(b.values) /\ UNION b.values \subseteq Purse(a)),
           ~Lost(a)' => \A X \in Rows(store'[a], jobs'[a]) :
               Holds(X, Held(store'[a], jobs'[a]), store'[a].pending \cap Confirmed, Waiting(a)', Purse(a)')
    PROVE  Shares'
<1>1. DueState' /\ \A c \in Accounts : Purse(c) \subseteq Purse(c)'
  BY DueKept DEF Shares
<1>2. Confirmed' = Confirmed /\ \A c : ReceiptsFor(c)' = ReceiptsFor(c) /\ ConfirmedSeq(c)' = ConfirmedSeq(c)
  BY OwnedKept DEF Keeps
<1>3. ASSUME NEW c \in Accounts, c # a
      PROVE  /\ store'[c] = store[c] /\ jobs'[c] = jobs[c]
             /\ Queued(c)' \subseteq Queued(c) /\ Waiting(c)' \subseteq Waiting(c)
             /\ Lost(c)' <=> Lost(c)
  <2>1. store'[c] = store[c] /\ jobs'[c] = jobs[c] /\ OwnQueue(c)' \subseteq OwnQueue(c)
    BY <1>3 DEF Keeps
  <2>2. Queued(c)' \subseteq Queued(c)
    BY <1>2, <2>1 DEF Queued
  <2>3. QED
    BY <1>2, <2>1, <2>2 DEF Waiting, Lost
<1>4. QueueState'
  BY <1>1, <1>3 DEF QueueState, Shares
<1>5. ASSUME NEW c \in Accounts, ~Lost(c)', NEW X \in Rows(store'[c], jobs'[c])
      PROVE  Holds(X, Held(store'[c], jobs'[c]), store'[c].pending \cap Confirmed, Waiting(c)', Purse(c)')
  <2>1. CASE c = a
    BY <1>5, <2>1
  <2>2. CASE c # a
    <3>1. PICK s, J, H, P, Q, S, W, N :
             /\ s = store[c] /\ J = jobs[c] /\ H = Held(s, J) /\ P = s.pending \cap Confirmed
             /\ Q = Waiting(c) /\ S = Waiting(c)' /\ W = Purse(c) /\ N = Purse(c)'
      OBVIOUS
    <3>2. store'[c] = s /\ jobs'[c] = J /\ S \subseteq Q /\ ~Lost(c)
      BY <1>3, <1>5, <2>2, <3>1
    <3>3. Holds(X, H, P, Q, W)
      BY <1>5, <3>1, <3>2 DEF Shares, HoldState
    <3>4. W \subseteq N
      BY <1>1, <3>1
    <3>5. Holds(X, H, P, S, N)
      BY <3>2, <3>3, <3>4, HoldsStill
    <3>6. QED
      BY <3>1, <3>2, <3>5
  <2>3. QED
    BY <2>1, <2>2
<1>6. HoldState'
  BY <1>2, <1>5 DEF HoldState, Rows, NewRows, RowsOf, Held, ToSubmit, Holds
<1>7. QED
  BY <1>1, <1>4, <1>6 DEF Shares

\* Nothing moves but messages.
LEMMA SharesStays ==
    ASSUME Typed, Shares, UNCHANGED <<store, jobs, blocks>>,
           \A c \in Accounts : packagesTo'[c] \subseteq packagesTo[c] /\ OwnQueue(c)' \subseteq OwnQueue(c)
    PROVE  Shares'
<1>1. Confirmed' = Confirmed /\ \A c : ReceiptsFor(c)' = ReceiptsFor(c) /\ ConfirmedSeq(c)' = ConfirmedSeq(c)
  BY OwnedKept
<1>2. CASE Accounts = {}
  BY <1>2 DEF Shares, HoldState, DueState, QueueState, PackageState
<1>3. ASSUME NEW a \in Accounts
      PROVE  Shares'
  <2>1. Keeps(a)
    BY DEF Keeps
  <2>2. \A job \in jobs'[a] : Prepared(job, a)'
    BY <1>1 DEF Shares, PackageState, Prepared
  <2>3. PackageState'
    BY <2>1, <2>2, PackagesKept DEF Shares
  <2>4. Queued(a)' \subseteq Queued(a)
    BY <1>1 DEF Queued
  <2>5. Waiting(a)' \subseteq Waiting(a) /\ (Lost(a)' <=> Lost(a))
    BY <1>1, <2>4 DEF Waiting, Lost
  <2>6. Purse(a) \subseteq Purse(a)'
    BY <2>1, DueKept DEF Shares
  <2>7. ASSUME ~Lost(a)', NEW X \in Rows(store'[a], jobs'[a])
        PROVE  Holds(X, Held(store'[a], jobs'[a]), store'[a].pending \cap Confirmed, Waiting(a)', Purse(a)')
    <3>1. PICK H, P, Q, S, W, N :
             /\ H = Held(store[a], jobs[a]) /\ P = store[a].pending \cap Confirmed
             /\ Q = Waiting(a) /\ S = Waiting(a)' /\ W = Purse(a) /\ N = Purse(a)'
      OBVIOUS
    <3>2. Holds(X, H, P, Q, W)
      BY <2>5, <2>7, <3>1 DEF Shares, HoldState
    <3>3. S \subseteq Q /\ W \subseteq N
      BY <2>5, <2>6, <3>1
    <3>4. Holds(X, H, P, S, N)
      BY <3>2, <3>3, HoldsStill
    <3>5. QED
      BY <3>1, <3>4
  <2>8. QED
    BY <2>1, <2>3, <2>4, <2>7, SharesStep
<1>4. QED
  BY <1>2, <1>3

\* A handler starts.
LEMMA SharesBegins ==
    ASSUME Typed, Shares, NEW a \in Accounts, NEW job, Begins(a, job),
           UNCHANGED <<store, submissions, pool, blocks>>,
           \A c \in Accounts : packagesTo'[c] \subseteq packagesTo[c],
           NEW Y, RowsOf(job) = {Y}, Prepared(job, a)', job.submit \cap Known = {},
           \A p \in job.deliver : p.bundle \in store[a].pending,
           \A b \in job.submit : b.seq = ConfirmedSeq(a) + 1 =>
               Clean(b.values) /\ UNION b.values \subseteq Purse(a),
           ~Lost(a) => \A X \in {store[a].records, Y} :
               Holds(X, store[a].pending \cup job.submit, store[a].pending \cap Confirmed, Waiting(a), Purse(a)')
    PROVE  Shares'
<1>1. \A c : OwnQueue(c)' = OwnQueue(c)
  BY DEF OwnQueue
<1>2. /\ jobs[a] = {} /\ jobs'[a] = {job} /\ store' = store
      /\ \A c \in Accounts \ {a} : jobs'[c] = jobs[c]
  BY DEF Begins
<1>3. Keeps(a)
  BY <1>1, <1>2 DEF Keeps
<1>4. Confirmed' = Confirmed /\ \A c : ReceiptsFor(c)' = ReceiptsFor(c) /\ ConfirmedSeq(c)' = ConfirmedSeq(c)
  BY OwnedKept
<1>5. PackageState'
  BY <1>2, <1>3, PackagesKept DEF Shares
<1>6. ToSubmit({job}) = job.submit /\ ToSubmit({}) = {}
  BY NoHandler, OneHandler
<1>7. \A b \in Queued(a)' : b \in Queued(a) \/ (b \in job.submit /\ b.seq = ConfirmedSeq(a) + 1)
  BY <1>1, <1>2, <1>4, <1>6 DEF Queued
<1>8. Waiting(a)' \subseteq Waiting(a)
  <2>1. OwnQueue(a) \subseteq Known
    BY DEF OwnQueue, Known
  <2>2. QED
    BY <1>1, <1>2, <1>7, <2>1 DEF Waiting
<1>9. Lost(a)' <=> Lost(a)
  BY <1>2, <1>4 DEF Lost
<1>10. /\ \A X \in Rows(store[a], {job}) : X \in {store[a].records, Y}
       /\ Held(store[a], {job}) = store[a].pending \cup job.submit
  <2>1. PICK s : s = store[a]
    OBVIOUS
  <2>2. Rows(s, {job}) = {s.records} \cup RowsOf(job) /\ Held(s, {job}) = s.pending \cup job.submit
    BY OneHandler
  <2>3. QED
    BY <2>1, <2>2
<1>11. ASSUME ~Lost(a)', NEW X \in Rows(store'[a], jobs'[a])
       PROVE  Holds(X, Held(store'[a], jobs'[a]), store'[a].pending \cap Confirmed, Waiting(a)', Purse(a)')
  <2>1. PICK H, P, Q, S, N :
           /\ H = store[a].pending \cup job.submit /\ P = store[a].pending \cap Confirmed
           /\ Q = Waiting(a) /\ S = Waiting(a)' /\ N = Purse(a)'
    OBVIOUS
  <2>2. Holds(X, H, P, Q, N)
    BY <1>2, <1>9, <1>10, <1>11, <2>1
  <2>3. S \subseteq Q
    BY <1>8, <2>1
  <2>4. Holds(X, H, P, S, N)
    BY <2>2, <2>3, HoldsStill
  <2>5. QED
    BY <1>2, <1>10, <2>1, <2>4
<1>12. QED
  BY <1>3, <1>5, <1>7, <1>11, SharesStep

\* What is still waited for: the sequence numbers of an account.
LEMMA Behind ==
    ASSUME Base, NEW a \in Accounts
    PROVE  \E k \in Nat :
              /\ ReceiptSeqs(store[a]) = 1..k
              /\ ConfirmedSeq(a) \in {k, k + 1}
              /\ \A u \in ReceiptsFor(a) : u \notin store[a].receipts => u.bundle.seq = k + 1
              /\ \A b \in OwnBundles(a) : b.seq <= k + 1
<1>1. PICK k \in Nat : ReceiptSeqs(store[a]) = 1..k /\ \A b \in OwnBundles(a) : b.seq <= k + 1
  BY DEF Base, AckState, SeqsOK
<1>2. /\ {u.bundle.seq : u \in ReceiptsFor(a)} = 1..ConfirmedSeq(a)
      /\ \A u, w \in ReceiptsFor(a) : u.bundle.seq = w.bundle.seq => u = w
      /\ ConfirmedSeq(a) \in Nat
  BY SeqIsNat DEF Base, ChainState, ChainOK
<1>3. store[a].receipts \subseteq ReceiptsFor(a)
  BY DEF Base, AckState, AckOK
<1>4. \A u \in ReceiptsFor(a) : u.bundle \in OwnBundles(a)
  BY DEF OwnBundles
<1>5. ASSUME NEW u \in ReceiptsFor(a), u \notin store[a].receipts
      PROVE  u.bundle.seq = k + 1
  <2>1. u.bundle.seq \notin 1..k
    <3>1. SUFFICES ASSUME u.bundle.seq \in ReceiptSeqs(store[a]) PROVE FALSE
      BY <1>1
    <3>2. PICK w \in store[a].receipts : w.bundle.seq = u.bundle.seq
      BY <3>1 DEF ReceiptSeqs
    <3>3. w = u
      BY <1>2, <1>3, <3>2
    <3>4. QED
      BY <1>5, <3>2, <3>3
  <2>2. u.bundle.seq \in 1..ConfirmedSeq(a) /\ u.bundle.seq <= k + 1
    BY <1>1, <1>2, <1>4
  <2>3. QED
    BY <1>2, <2>1, <2>2
<1>6. \A i \in 1..k : i \in 1..ConfirmedSeq(a)
  BY <1>1, <1>2, <1>3 DEF ReceiptSeqs
<1>7. \A i \in 1..ConfirmedSeq(a) : i <= k + 1
  BY <1>1, <1>2, <1>4
<1>8. ConfirmedSeq(a) \in {k, k + 1}
  <2>1. k <= ConfirmedSeq(a)
    <3>1. k # 0 => k \in 1..k
      OBVIOUS
    <3>2. QED
      BY <1>2, <1>6, <3>1
  <2>2. ConfirmedSeq(a) <= k + 1
    <3>1. ConfirmedSeq(a) # 0 => ConfirmedSeq(a) \in 1..ConfirmedSeq(a)
      BY <1>2
    <3>2. QED
      BY <1>2, <1>7, <3>1
  <2>3. QED
    BY <1>2, <2>1, <2>2
<1>9. QED
  BY <1>1, <1>5, <1>8

\* A receipt in the mail for a pending bundle: nothing else is missing.
LEMMA Missed ==
    ASSUME Base, NEW a \in Accounts, NEW u \in ReceiptsFor(a), u \notin store[a].receipts,
           u.bundle \in store[a].pending
    PROVE  ~Lost(a)
<1>1. PICK k \in Nat : \A w \in ReceiptsFor(a) : w \notin store[a].receipts => w.bundle.seq = k + 1
  BY Behind
<1>2. \A w \in ReceiptsFor(a) : w \notin store[a].receipts => w = u
  BY <1>1 DEF Base, ChainState, ChainOK
<1>3. QED
  BY <1>2 DEF Lost

LEMMA SharesBuild ==
    ASSUME Threads = 1, Base, Shares, NEW a \in Accounts, NEW to \in Accounts \ {a},
           NEW values \in Selections(store[a].records), Build(a, to, values)
    PROVE  Shares'
<1>1. PICK b, job :
              /\ b \in Bundles /\ b.sender = a /\ b.n = attempts[a] + 1 /\ b.seq = NextSequence(store[a])
              /\ b.to = to /\ b.values = values
              /\ \A v \in values : v \in Ranges /\ \E r \in Spendable(store[a].records) : v \subseteq r.value
              /\ Builds(job, b, RecordsWithPending(store[a].records, b))
              /\ Begins(a, job)
  BY BuildStarts DEF Base
<1>2. PICK X, Y, W : X = store[a].records /\ Y = RecordsWithPending(X, b) /\ W = Purse(a)
  OBVIOUS
<1>3. RowsOf(job) = {Y} /\ job.submit = {b} /\ job.deliver = {}
  BY <1>1, <1>2, RowsLeft DEF Builds
<1>4. /\ UNCHANGED <<store, submissions, pool, blocks, packagesTo>>
      /\ store[a].pending = {} /\ jobs[a] = {}
  BY <1>1 DEF Build, consensus, mail, Begins
<1>5. X \in SUBSET Records /\ \A r \in X : ~IsPieceOf(r, b)
  BY <1>1, <1>2, Types DEF Base, StoreFits, Cut, IsPieceOf, Stores, Records
<1>6. Apart(Spendable(X)) => Clean(b.values)
  BY <1>1, <1>2, <1>5, SelectionFacts
<1>7. ASSUME ~Lost(a)
      PROVE  /\ Holds(X, {b}, {}, {}, W) /\ Holds(Y, {b}, {}, {}, W)
             /\ Clean(b.values) /\ UNION b.values \subseteq W
  <2>1. Rows(store[a], {}) = {X} /\ Held(store[a], {}) = {}
    BY <1>2, <1>4, NoHandler
  <2>2. store[a].pending \cap Confirmed = {} /\ Waiting(a) = {}
    BY <1>4 DEF Waiting
  <2>3. Holds(X, {}, {}, {}, W)
    BY <1>2, <1>4, <1>7, <2>1, <2>2 DEF Shares, HoldState
  <2>4. b \in Bundles
    BY <1>1
  <2>5. \A v \in b.values : v \in Ranges /\ \E r \in Spendable(X) : v \subseteq r.value
    BY <1>1, <1>2
  <2>6. Y = RecordsWithPending(X, b) /\ X \in SUBSET Records
    BY <1>2, <1>5
  <2>7. \A r \in X : ~IsPieceOf(r, b)
    BY <1>5
  <2>8. QED
    BY <1>6, <2>3, <2>4, <2>5, <2>6, <2>7, HoldsBuilt
<1>8. b.seq = ConfirmedSeq(a) + 1 => ~Lost(a)
  <2>1. PICK k \in Nat :
              /\ ReceiptSeqs(store[a]) = 1..k
              /\ ConfirmedSeq(a) \in {k, k + 1}
              /\ \A u \in ReceiptsFor(a) : u \notin store[a].receipts => u.bundle.seq = k + 1
    BY Behind
  <2>2. b.seq = k + 1
    BY <1>1, <1>4, <2>1, Types, NextSequenceFollows DEF Base
  <2>3. \A u \in ReceiptsFor(a) : u.bundle.seq \in 1..ConfirmedSeq(a)
    BY DEF Base, ChainState, ChainOK
  <2>4. QED
    BY <2>1, <2>2, <2>3 DEF Lost
<1>9. b \notin Known
  <2>1. \A c \in Known : c.sender = a => c.n <= attempts[a]
    BY DEF Base, Typed, Numbered, Known, Fits
  <2>2. attempts[a] \in Nat
    BY Types DEF Base
  <2>3. QED
    BY <1>1, <2>1, <2>2
<1>10. Prepared(job, a)'
  BY <1>3 DEF Prepared
<1>11. Purse(a) \subseteq Purse(a)'
  <2>1. Keeps(a)
    BY <1>1, <1>3, <1>4 DEF Keeps, Begins, OwnQueue
  <2>2. QED
    BY <2>1, DueKept DEF Base, Shares
<1>12. ASSUME ~Lost(a), NEW Z \in {store[a].records, Y}
       PROVE  Holds(Z, store[a].pending \cup job.submit, store[a].pending \cap Confirmed, Waiting(a), Purse(a)')
  <2>1. PICK N : N = Purse(a)'
    OBVIOUS
  <2>2. Holds(Z, {b}, {}, {}, W)
    BY <1>2, <1>7, <1>12
  <2>3. Holds(Z, {b}, {}, {}, N)
    BY <1>2, <1>11, <2>1, <2>2, HoldsStill
  <2>4. /\ store[a].pending \cup job.submit = {b} /\ store[a].pending \cap Confirmed = {}
        /\ Waiting(a) = {}
    BY <1>3, <1>4 DEF Waiting
  <2>5. QED
    BY <2>1, <2>3, <2>4
<1>13. job.submit \cap Known = {}
  BY <1>3, <1>9
<1>14. \A d \in job.submit : d.seq = ConfirmedSeq(a) + 1 =>
           Clean(d.values) /\ UNION d.values \subseteq Purse(a)
  BY <1>2, <1>3, <1>7, <1>8
<1>15. (\A c \in Accounts : packagesTo'[c] \subseteq packagesTo[c]) /\ job.deliver = {}
  BY <1>3, <1>4
<1>16. QED
  BY <1>1, <1>3, <1>4, <1>10, <1>12, <1>13, <1>14, <1>15, SharesBegins DEF Base

\* The rewriting operations, record by record.
LEMMA RollbackMap ==
    ASSUME NEW X \in SUBSET Records, NEW b, NEW Y, Y = RecordsRolledBack(X, b)
    PROVE  \E f : /\ Y = {f[r] : r \in X}
                  /\ \A r \in X : /\ SamePiece(f[r], r)
                                  /\ f[r].status = IF IsPieceOf(r, b) THEN "spendable" ELSE r.status
<1> DEFINE g(r) == IF IsPieceOf(r, b) THEN [r EXCEPT !.status = "spendable"] ELSE r
           f == [r \in X |-> g(r)]
<1>1. \A r \in X : SamePiece(g(r), r) /\ g(r).status = IF IsPieceOf(r, b) THEN "spendable" ELSE r.status
  BY DEF Records, Statuses, SamePiece
<1>2. Y = {g(r) : r \in X}
  BY DEF RecordsRolledBack
<1> HIDE DEF g
<1>3. \A r \in X : f[r] = g(r)
  OBVIOUS
<1> HIDE DEF f
<1>4. {f[r] : r \in X} = {g(r) : r \in X}
  BY <1>3
<1>5. QED
  BY <1>1, <1>2, <1>3, <1>4

LEMMA MissingMap ==
    ASSUME NEW X \in SUBSET Records, NEW b, NEW Y, Y = RecordsWithMissing(X, b)
    PROVE  \E f : /\ Y = {f[r] : r \in X}
                  /\ \A r \in X : /\ SamePiece(f[r], r)
                                  /\ f[r].status = IF IsPieceOf(r, b) /\ r.status = "pending"
                                                   THEN "missing" ELSE r.status
<1> DEFINE g(r) == IF IsPieceOf(r, b) /\ r.status = "pending" THEN [r EXCEPT !.status = "missing"] ELSE r
           f == [r \in X |-> g(r)]
<1>1. \A r \in X : SamePiece(g(r), r) /\ g(r).status = IF IsPieceOf(r, b) /\ r.status = "pending"
                                                       THEN "missing" ELSE r.status
  BY DEF Records, Statuses, SamePiece
<1>2. Y = {g(r) : r \in X}
  BY DEF RecordsWithMissing
<1> HIDE DEF g
<1>3. \A r \in X : f[r] = g(r)
  OBVIOUS
<1> HIDE DEF f
<1>4. {f[r] : r \in X} = {g(r) : r \in X}
  BY <1>3
<1>5. QED
  BY <1>1, <1>2, <1>3, <1>4

\* The rows of the bundle that is pending change their status.
LEMMA HoldsMarked ==
    ASSUME NEW X \in SUBSET Records, NEW b, NEW P, NEW Q, NEW W, Holds(X, {b}, P, Q, W), Q \subseteq {b},
           Locked(X, b), NEW Y, Y = RecordsRolledBack(X, b) \/ Y = RecordsWithMissing(X, b)
    PROVE  Holds(Y, {b}, P, Q, W)
<1>1. PICK f : /\ Y = {f[r] : r \in X}
               /\ \A r \in X : /\ SamePiece(f[r], r)
                               /\ \/ ~IsPieceOf(r, b) /\ f[r].status = r.status
                                  \/ IsPieceOf(r, b) /\ f[r].status \in {"spendable", "pending", "missing"}
  <2>1. CASE Y = RecordsRolledBack(X, b)
    <3>1. PICK f : /\ Y = {f[r] : r \in X}
                   /\ \A r \in X : /\ SamePiece(f[r], r)
                                   /\ f[r].status = IF IsPieceOf(r, b) THEN "spendable" ELSE r.status
      BY <2>1, RollbackMap
    <3>2. QED
      BY <3>1
  <2>2. CASE Y = RecordsWithMissing(X, b)
    <3>1. PICK f : /\ Y = {f[r] : r \in X}
                   /\ \A r \in X : /\ SamePiece(f[r], r)
                                   /\ f[r].status = IF IsPieceOf(r, b) /\ r.status = "pending"
                                                    THEN "missing" ELSE r.status
      BY <2>2, MissingMap
    <3>2. QED
      BY <3>1 DEF Locked
  <2>3. QED
    BY <2>1, <2>2
<1>2. \A r \in X : SamePiece(f[r], r) /\ f[r] \in Y
  BY <1>1
<1>3. \A r \in X : IsPieceOf(f[r], b) <=> IsPieceOf(r, b)
  BY <1>2 DEF SamePiece, IsPieceOf
<1>4. \A r \in X : f[r] \in Live(Y, {b}) => r \in Live(X, {b})
  BY <1>1, <1>3 DEF Live, Locked
<1>5. \A r \in X : IsPieceOf(r, b) => f[r] \in Live(Y, {b})
  BY <1>1, <1>2, <1>3 DEF Live
<1>6. \A d \in Q : \A r \in Live(X, {b}) : IsPieceOf(r, d) => f[r] \in Live(Y, {b})
  BY <1>5 DEF Live
<1>7. Y = {f[r] : r \in X}
  BY <1>1
<1>8. \A r \in X : SamePiece(f[r], r)
  BY <1>2
<1>9. QED
  BY <1>4, <1>6, <1>7, <1>8, HoldsMapped

\* A handler that rewrites the rows of the pending bundle.
LEMMA SharesMarks ==
    ASSUME Base, Shares, NEW a \in Accounts, NEW b \in store[a].pending, NEW job, Begins(a, job),
           UNCHANGED <<store, submissions, pool, blocks, packagesTo>>,
           NEW Y, RowsOf(job) = {Y}, job.submit = {}, job.deliver = {},
           Y = RecordsRolledBack(store[a].records, b) \/ Y = RecordsWithMissing(store[a].records, b)
    PROVE  Shares'
<1>1. store[a].pending = {b} /\ Locked(store[a].records, b) /\ jobs[a] = {}
  BY OnePending DEF Base, Begins
<1>2. store[a].records \in SUBSET Records
  BY Types DEF Base, Stores
<1>3. Keeps(a)
  BY DEF Keeps, Begins, OwnQueue
<1>4. Purse(a) \subseteq Purse(a)'
  BY <1>3, DueKept DEF Base, Shares
<1>5. PICK X, P, Q, W, N : /\ X = store[a].records /\ P = store[a].pending \cap Confirmed
                           /\ Q = Waiting(a) /\ W = Purse(a) /\ N = Purse(a)'
  OBVIOUS
<1>6. ASSUME ~Lost(a), NEW Z \in {store[a].records, Y}
      PROVE  Holds(Z, store[a].pending \cup job.submit, store[a].pending \cap Confirmed, Waiting(a), Purse(a)')
  <2>1. Rows(store[a], {}) = {X} /\ Held(store[a], {}) = {b}
    BY <1>1, <1>5, NoHandler
  <2>2. Holds(X, {b}, P, Q, W)
    BY <1>1, <1>5, <1>6, <2>1 DEF Shares, HoldState
  <2>3. Q \subseteq {b} /\ Locked(X, b)
    BY <1>1, <1>5 DEF Waiting
  <2>4. X \in SUBSET Records /\ (Y = RecordsRolledBack(X, b) \/ Y = RecordsWithMissing(X, b))
    BY <1>2, <1>5
  <2>5. Holds(Y, {b}, P, Q, W)
    BY <2>2, <2>3, <2>4, HoldsMarked
  <2>6. Holds(Z, {b}, P, Q, W)
    BY <1>5, <1>6, <2>2, <2>5
  <2>7. W \subseteq N
    BY <1>4, <1>5
  <2>8. Holds(Z, {b}, P, Q, N)
    BY <2>6, <2>7, HoldsStill
  <2>9. store[a].pending \cup job.submit = {b}
    BY <1>1
  <2>10. QED
    BY <1>5, <2>8, <2>9
<1>7. Prepared(job, a)'
  BY DEF Prepared
<1>8. \A c \in Accounts : packagesTo'[c] \subseteq packagesTo[c]
  OBVIOUS
<1>9. job.submit \cap Known = {} /\ \A p \in job.deliver : p.bundle \in store[a].pending
  OBVIOUS
<1>10. \A d \in job.submit : d.seq = ConfirmedSeq(a) + 1 =>
           Clean(d.values) /\ UNION d.values \subseteq Purse(a)
  OBVIOUS
<1>11. UNCHANGED <<store, submissions, pool, blocks>>
  OBVIOUS
<1>12. QED
  BY <1>6, <1>7, <1>8, <1>9, <1>10, <1>11, SharesBegins DEF Base

LEMMA SharesRollsBack ==
    ASSUME Threads = 1, Base, Shares, NEW a \in Accounts, Free(a), NEW b \in store[a].pending,
           UNCHANGED <<store, submissions, pool, blocks, packagesTo>>,
           Starts(a, Only(RollbackWrites(store[a], b)))
    PROVE  Shares'
<1> DEFINE Y == RecordsRolledBack(store[a].records, b)
<1>1. PICK job : RollsBack(job, b, Y) /\ Begins(a, job)
  BY RollbackStarts DEF Base
<1>2. RowsOf(job) = {Y} /\ job.submit = {} /\ job.deliver = {}
  BY <1>1, RowsLeft DEF RollsBack
<1>3. Y = RecordsRolledBack(store[a].records, b) \/ Y = RecordsWithMissing(store[a].records, b)
  OBVIOUS
<1> HIDE DEF Y
<1>4. QED
  BY <1>1, <1>2, <1>3, SharesMarks

LEMMA SharesMissing ==
    ASSUME Threads = 1, Base, Shares, NEW a \in Accounts, NEW b \in store[a].pending, PullMissed(a, b)
    PROVE  Shares'
<1> DEFINE Y == RecordsWithMissing(store[a].records, b)
<1>1. /\ UNCHANGED <<store, submissions, pool, blocks, packagesTo>>
      /\ Free(a) /\ Starts(a, Only(MissingWrites(store[a], b)))
  BY DEF PullMissed, consensus, mail
<1>2. PICK job : Marks(job, Y) /\ Begins(a, job)
  BY <1>1, MissingStarts DEF Base
<1>3. RowsOf(job) = {Y} /\ job.submit = {} /\ job.deliver = {}
  BY <1>2, RowsLeft DEF Marks
<1>4. Y = RecordsRolledBack(store[a].records, b) \/ Y = RecordsWithMissing(store[a].records, b)
  OBVIOUS
<1> HIDE DEF Y
<1>5. QED
  BY <1>1, <1>2, <1>3, <1>4, SharesMarks

\* A wallet that lets go of a bundle has its receipt, or has lost it.
LEMMA WriteKeeps ==
    ASSUME Base, ReleaseState, Shares, NEW a \in Accounts, NEW job \in jobs[a], Write(a, job)
    PROVE  /\ Keeps(a) /\ \A k \in jobs'[a] : Prepared(k, a)'
           /\ Lost(a) => Lost(a)'
           /\ \A b \in store'[a].pending : b \in store[a].pending \/ b \in job.submit
           /\ \A X \in Rows(store[a], jobs[a]) : \A r \in X :
              \A b \in (store[a].pending \ store'[a].pending) \cap Confirmed :
                 ~Lost(a)' /\ IsPieceOf(r, b) /\ r.value \in b.values => r.status # "spendable"
<1>1. /\ UNCHANGED <<submissions, pool, blocks, packagesTo>>
      /\ \A c \in Accounts \ {a} : jobs'[c] = jobs[c] /\ store'[c] = store[c]
  BY WriteStep
<1>2. PICK rest, t :
         /\ jobs[a] = {job} /\ jobs'[a] = {rest} /\ store'[a] = t
         /\ Stage(job, store[a]) /\ Stage(rest, t)
         /\ Effect(store[a], job.writes[1], t) /\ Progress(store[a], job, t, rest)
         /\ rest.submit = job.submit /\ rest.deliver = job.deliver
         /\ Len(job.writes) # 0 /\ Len(rest.writes) = Len(job.writes) - 1
         /\ Len(job.writes) > 1 => rest.writes[1] = job.writes[2]
  BY WriteStep
<1>3. PICK s : s = store[a]
  OBVIOUS
<1>4. Stage(job, s) /\ Stage(rest, t) /\ Effect(s, job.writes[1], t)
  BY <1>2, <1>3
<1>5. /\ Unpends(rest) => Unpends(job) /\ t.pending = s.pending
      /\ t.receipts \subseteq s.receipts \cup Writing(job)
      /\ Unpends(job) => job.submit = {}
      /\ Unpends(job) /\ ~Unpends(rest) => /\ t.pending = {} /\ t.records = s.records
                                           /\ t.receipts = s.receipts /\ Writing(job) = {}
      /\ ~Unpends(job) => \/ t.pending = s.pending
                          \/ s.pending = {} /\ t.pending = job.submit /\ job.deliver = {}
  BY <1>2, <1>4, WriteFacts
<1>6. job.submit \cap Known = {} /\ Confirmed \subseteq Known
  BY DEF Base, SubmitOK, Known
<1>7. \A b \in t.pending : b \in s.pending \/ b \in job.submit
  BY <1>5
<1>8. Confirmed' = Confirmed /\ ReceiptsFor(a)' = ReceiptsFor(a)
  BY <1>1, OwnedKept
<1>9. Keeps(a)
  <2>1. \A c \in Accounts \ {a} : OwnQueue(c)' \subseteq OwnQueue(c)
    BY <1>1 DEF OwnQueue
  <2>2. store'[a].pending \cap Confirmed \subseteq store[a].pending
    BY <1>2, <1>3, <1>6, <1>7
  <2>3. \A k \in jobs'[a] : \A p \in k.deliver : \E m \in jobs[a] : p \in m.deliver
    BY <1>2
  <2>4. QED
    BY <1>1, <2>1, <2>2, <2>3 DEF Keeps
<1>10. Prepared(rest, a)'
  <2>1. Prepared(job, a)
    BY DEF Shares, PackageState
  <2>2. \A p \in job.deliver : p.bundle \in t.pending <=> Unpends(rest)
    <3>1. \A p \in job.deliver : p.bundle \in s.pending <=> Unpends(job)
      BY <1>3, <2>1 DEF Prepared
    <3>2. QED
      BY <1>5, <3>1
  <2>3. \A p \in rest.deliver : p.bundle \in store'[a].pending <=> Unpends(rest)
    BY <1>2, <2>2
  <2>4. QED
    BY <1>2, <1>8, <2>1, <2>3 DEF Prepared
<1>11. \A u \in Writing(job) : u.bundle \in s.pending
  <2>1. CASE Len(job.writes) = 4
    <3>1. Writing(job) = {job.writes[1].row}
      BY <2>1 DEF Writing
    <3>2. job.writes[1].row.bundle \in s.pending
      BY <1>4, <2>1 DEF Stage, Building, Releasing, Receiving
    <3>3. QED
      BY <3>1, <3>2
  <2>2. CASE Len(job.writes) # 4
    BY <2>2 DEF Writing
  <2>3. QED
    BY <2>1, <2>2
<1>12. Lost(a) => Lost(a)'
  <2>1. SUFFICES ASSUME NEW u \in ReceiptsFor(a), u \notin s.receipts, u.bundle \notin s.pending
                 PROVE  u \notin t.receipts /\ u.bundle \notin t.pending
    BY <1>2, <1>3, <1>8 DEF Lost
  <2>2. u \notin t.receipts
    BY <1>5, <1>11, <2>1
  <2>3. u.bundle \in Confirmed
    BY DEF ReceiptsFor, Confirmed
  <2>4. QED
    BY <1>6, <1>7, <2>1, <2>2, <2>3
<1>13. ASSUME NEW X \in Rows(s, {job}), NEW b \in (s.pending \ t.pending) \cap Confirmed, NEW r \in X,
              ~Lost(a)', IsPieceOf(r, b), r.value \in b.values
       PROVE  r.status # "spendable"
  <2>1. Unpends(job) /\ ~Unpends(rest)
    BY <1>5, <1>13
  <2>2. PICK u \in ReceiptsFor(a) : u.bundle = b
    <3>1. b.sender = a
      BY <1>3, <1>13, Types DEF Base, StoreFits, Fits
    <3>2. PICK h \in 1..Len(blocks) : b \in blocks[h]
      BY <1>13 DEF Confirmed
    <3>3. [bundle |-> b, height |-> h] \in ReceiptsFor(a)
      BY <3>1, <3>2 DEF ReceiptsFor
    <3>4. QED
      BY <3>3
  <2>3. u \in s.receipts
    <3>1. u \in t.receipts \/ u.bundle \in t.pending
      BY <1>2, <1>8, <1>13 DEF Lost
    <3>2. QED
      BY <1>5, <1>13, <2>1, <2>2, <3>1
  <2>4. Withholds(job, s) /\ LocalOK(s, {job})
    BY <1>2, <1>3 DEF ReleaseState, Releases, Base, LocalState, Sound
  <2>5. X \in RowsOf(job) \/ X = s.records
    <3>1. Rows(s, {job}) = {s.records} \cup RowsOf(job)
      BY OneHandler
    <3>2. QED
      BY <1>13, <3>1
  <2>6. CASE X \in RowsOf(job)
    BY <1>13, <2>1, <2>2, <2>3, <2>4, <2>6 DEF Withholds
  <2>7. CASE X = s.records
    <3>1. b \in Held(s, {job})
      BY <1>13 DEF Held
    <3>2. Locked(X, b)
      BY <2>4, <2>7, <3>1 DEF LocalOK
    <3>3. QED
      BY <1>13, <3>2 DEF Locked
  <2>8. QED
    BY <2>5, <2>6, <2>7
<1>14. QED
  <2>1. \A k \in jobs'[a] : Prepared(k, a)'
    BY <1>2, <1>10
  <2>2. Rows(store[a], jobs[a]) = Rows(s, {job})
    BY <1>2, <1>3
  <2>3. QED
    BY <1>2, <1>3, <1>7, <1>9, <1>12, <1>13, <2>1, <2>2

LEMMA SharesWrite ==
    ASSUME Base, ReleaseState, Shares, NEW a \in Accounts, NEW job \in jobs[a], Write(a, job)
    PROVE  Shares'
<1>1. /\ UNCHANGED <<submissions, pool, blocks, packagesTo>>
      /\ \A c \in Accounts \ {a} : jobs'[c] = jobs[c] /\ store'[c] = store[c]
  BY WriteStep
<1>2. PICK rest, t :
         /\ jobs[a] = {job} /\ jobs'[a] = {rest} /\ store'[a] = t
         /\ Stage(job, store[a]) /\ Stage(rest, t)
         /\ Effect(store[a], job.writes[1], t) /\ Progress(store[a], job, t, rest)
         /\ rest.submit = job.submit /\ rest.deliver = job.deliver
         /\ Len(job.writes) # 0 /\ Len(rest.writes) = Len(job.writes) - 1
         /\ Len(job.writes) > 1 => rest.writes[1] = job.writes[2]
  BY WriteStep
<1>3. PICK s : s = store[a]
  OBVIOUS
<1>4. Stage(job, s) /\ Stage(rest, t) /\ Effect(s, job.writes[1], t) /\ Progress(s, job, t, rest)
  BY <1>2, <1>3
<1>5. /\ Keeps(a) /\ \A k \in jobs'[a] : Prepared(k, a)'
      /\ Lost(a) => Lost(a)'
      /\ \A b \in store'[a].pending : b \in store[a].pending \/ b \in job.submit
      /\ \A X \in Rows(store[a], jobs[a]) : \A r \in X :
         \A b \in (store[a].pending \ store'[a].pending) \cap Confirmed :
            ~Lost(a)' /\ IsPieceOf(r, b) /\ r.value \in b.values => r.status # "spendable"
  BY WriteKeeps
<1>6. PackageState'
  BY <1>1, <1>2, <1>5, PackagesKept DEF Base, Shares
<1>7. Queued(a)' = Queued(a)
  <2>1. \A c : ConfirmedSeq(c)' = ConfirmedSeq(c)
    BY <1>1, OwnedKept
  <2>2. ToSubmit(jobs'[a]) = ToSubmit(jobs[a])
    BY <1>2, OneHandler
  <2>3. OwnQueue(a)' = OwnQueue(a)
    BY <1>1 DEF OwnQueue
  <2>4. QED
    BY <2>1, <2>2, <2>3 DEF Queued
<1>8. Purse(a) \subseteq Purse(a)'
  BY <1>5, DueKept DEF Base, Shares
<1>9. PICK H, I, P, R, Q, S, W, N :
         /\ H = Held(s, {job}) /\ I = Held(t, {rest}) /\ P = s.pending \cap Confirmed
         /\ R = t.pending \cap Confirmed /\ Q = Waiting(a) /\ S = Waiting(a)'
         /\ W = Purse(a) /\ N = Purse(a)'
  OBVIOUS
<1>10. I \subseteq H /\ I = t.pending \cup rest.submit
  BY <1>4, <1>9, OneHandler DEF Progress
<1>11. S \subseteq Q \cap I
  <2>1. job.submit \cap OwnQueue(a) = {}
    BY DEF Base, SubmitOK, Known, OwnQueue
  <2>2. OwnQueue(a)' = OwnQueue(a)
    BY <1>1 DEF OwnQueue
  <2>3. S = t.pending \cap OwnQueue(a) \cap Queued(a) /\ Q = s.pending \cap OwnQueue(a) \cap Queued(a)
    BY <1>2, <1>3, <1>7, <1>9, <2>2 DEF Waiting
  <2>4. QED
    BY <1>5, <1>10, <2>1, <2>3
<1>12. ASSUME ~Lost(a)', NEW X \in Rows(t, {rest})
       PROVE  Holds(X, I, R, S, N)
  <2>1. X \in Rows(s, {job})
    <3>1. Rows(t, {rest}) = {t.records} \cup RowsOf(rest) /\ Rows(s, {job}) = {s.records} \cup RowsOf(job)
      BY OneHandler
    <3>2. QED
      BY <1>4, <1>12, <3>1 DEF Progress
  <2>2. Holds(X, H, P, Q, W)
    BY <1>2, <1>3, <1>5, <1>9, <1>12, <2>1 DEF Shares, HoldState
  <2>3. ASSUME NEW r \in Live(X, I), r \in Paid(X, P)
        PROVE  r \in Paid(X, R)
    <3>1. PICK b \in P : IsPieceOf(r, b) /\ r.value \in b.values
      BY <2>3 DEF Paid
    <3>2. CASE b \in t.pending
      BY <1>9, <3>1, <3>2 DEF Paid, Live
    <3>3. CASE b \notin t.pending
      <4>1. r.status # "spendable" /\ r \in X
        <5>1. r \in X
          BY DEF Live
        <5>2. b \in (store[a].pending \ store'[a].pending) \cap Confirmed
          BY <1>2, <1>3, <1>9, <3>3
        <5>3. X \in Rows(store[a], jobs[a])
          BY <1>2, <1>3, <2>1
        <5>4. QED
          BY <1>5, <1>12, <3>1, <5>1, <5>2, <5>3
      <4>2. PICK d \in I : IsPieceOf(r, d)
        BY <4>1 DEF Live
      <4>3. d \in H /\ b \in H
        BY <1>9, <1>10, <3>1 DEF Held
      <4>4. d = b
        <5>1. LocalOK(s, {job})
          BY <1>2, <1>3 DEF Base, LocalState, Sound
        <5>2. QED
          BY <1>9, <4>3, <5>1 DEF LocalOK
      <4>5. job.submit = {}
        <5>1. b \in Known
          BY <1>9, <3>1 DEF Known
        <5>2. d \in job.submit
          BY <1>2, <1>10, <3>3, <4>4
        <5>3. QED
          BY <4>4, <5>1, <5>2 DEF Base, SubmitOK
      <4>6. QED
        BY <1>2, <1>10, <3>3, <4>4, <4>5
    <3>4. QED
      BY <3>2, <3>3
  <2>4. W \subseteq N
    BY <1>8, <1>9
  <2>5. \A r \in Live(X, I) : r \in Paid(X, P) => r \in Paid(X, R)
    BY <2>3
  <2>6. I \subseteq H
    BY <1>10
  <2>7. QED
    BY <1>11, <2>2, <2>4, <2>5, <2>6, HoldsLess
<1>13. \A X \in Rows(store'[a], jobs'[a]) : ~Lost(a)' =>
           Holds(X, Held(store'[a], jobs'[a]), store'[a].pending \cap Confirmed, Waiting(a)', Purse(a)')
  BY <1>2, <1>9, <1>12
<1>14. QED
  BY <1>5, <1>6, <1>7, <1>13, SharesStep DEF Base

\* A handler that is done: the bundle it submits waits for the next block, and
\* its packages are on their way.
LEMMA SharesFinish ==
    ASSUME Base, Shares, NEW a \in Accounts, NEW job \in jobs[a], Finish(a, job)
    PROVE  Shares'
<1>1. /\ job \in Jobs /\ Len(job.writes) = 0 /\ jobs[a] = {job} /\ jobs'[a] = {}
      /\ \A c \in Accounts \ {a} : jobs'[c] = jobs[c]
  BY FinishMoves DEF Base
<1>2. /\ UNCHANGED <<store, pool, blocks>> /\ submissions' = submissions \cup job.submit
      /\ \A c \in Accounts : packagesTo'[c] = packagesTo[c]
            \/ packagesTo'[c] = packagesTo[c] \cup {p \in job.deliver : p.bundle.to = c}
  BY DEF Finish, consensus
<1>3. \A b \in job.submit : b.sender = a
  BY Types DEF Base, JobFits, Fits
<1>4. /\ \A c \in Accounts \ {a} : OwnQueue(c)' = OwnQueue(c)
      /\ OwnQueue(a)' = OwnQueue(a) \cup job.submit
  BY <1>2, <1>3 DEF OwnQueue
<1>5. Keeps(a)
  BY <1>1, <1>2, <1>4 DEF Keeps
<1>6. Confirmed' = Confirmed /\ \A c : ReceiptsFor(c)' = ReceiptsFor(c) /\ ConfirmedSeq(c)' = ConfirmedSeq(c)
  BY <1>2, OwnedKept
<1>7. Prepared(job, a) /\ ~Unpends(job)
  BY <1>1, RowsLeft DEF Shares, PackageState
<1>8. PackageState'
  <2>1. ASSUME NEW c \in Accounts, NEW k \in jobs'[c]
        PROVE  Prepared(k, c)'
    <3>1. c # a /\ k \in jobs[c] /\ store'[c] = store[c]
      BY <1>1, <1>2, <2>1
    <3>2. QED
      BY <1>6, <3>1 DEF Shares, PackageState, Prepared
  <2>2. ASSUME NEW c \in Accounts, NEW p \in packagesTo'[c]
        PROVE  /\ p.bundle \in Confirmed /\ p.bundle.to = c /\ p.value \in p.bundle.values
               /\ p.bundle \notin store[p.bundle.sender].pending
               /\ \A k \in jobs'[p.bundle.sender] : \A q \in k.deliver : q.bundle # p.bundle
    <3>1. CASE p \in packagesTo[c]
      <4>1. /\ p.bundle \in Confirmed /\ p.bundle.to = c /\ p.value \in p.bundle.values
            /\ p.bundle \notin store[p.bundle.sender].pending
            /\ \A k \in jobs[p.bundle.sender] : \A q \in k.deliver : q.bundle # p.bundle
        BY <2>2, <3>1 DEF Shares, PackageState, Sent
      <4>2. p.bundle.sender \in Accounts
        BY <4>1, ConfirmedType DEF Base
      <4>3. \A k \in jobs'[p.bundle.sender] : k \in jobs[p.bundle.sender]
        BY <1>1, <4>2
      <4>4. QED
        BY <4>1, <4>3
    <3>2. CASE p \in job.deliver /\ p.bundle.to = c
      BY <1>1, <1>7, <3>2 DEF Prepared
    <3>3. QED
      BY <1>2, <2>2, <3>1, <3>2
  <2>3. ASSUME NEW c \in Accounts, NEW p \in packagesTo'[c], NEW q \in packagesTo'[c],
               p.bundle = q.bundle, p.value = q.value
        PROVE  p = q
    <3>1. ASSUME NEW x \in packagesTo[c], NEW y \in job.deliver
          PROVE  x.bundle # y.bundle
      <4>1. \A k \in jobs[x.bundle.sender] : \A z \in k.deliver : z.bundle # x.bundle
        BY <2>3, <3>1 DEF Shares, PackageState, Sent
      <4>2. y.bundle.sender = a
        BY <1>7 DEF Prepared
      <4>3. QED
        BY <4>1, <4>2
    <3>2. CASE p \in packagesTo[c] /\ q \in packagesTo[c]
      BY <2>3, <3>2 DEF Shares, PackageState, Sent
    <3>3. CASE p \in job.deliver /\ q \in job.deliver
      BY <1>7, <2>3, <3>3 DEF Prepared
    <3>4. QED
      BY <1>2, <2>3, <3>1, <3>2, <3>3
  <2>4. \A c \in Accounts : Sent(c)'
    BY <1>2, <1>6, <2>2, <2>3 DEF Sent
  <2>5. QED
    BY <2>1, <2>4 DEF PackageState
<1>9. ToSubmit(jobs'[a]) = {} /\ ToSubmit(jobs[a]) = job.submit
  BY <1>1, NoHandler, OneHandler
<1>10. Queued(a)' = Queued(a)
  BY <1>4, <1>6, <1>9 DEF Queued
<1>11. Purse(a) \subseteq Purse(a)'
  BY <1>5, DueKept DEF Base, Shares
<1>12. PICK s : s = store[a]
  OBVIOUS
<1>13. Sound(s, {job})
  BY <1>1, <1>12 DEF Base, LocalState
<1>14. Held(s, {}) = Held(s, {job}) /\ Rows(s, {}) = Rows(s, {job})
  BY <1>1, <1>13, LocalFinish
<1>15. \A b \in job.submit : b \in Held(s, {job}) /\ Split(s.records, b) /\ Locked(s.records, b)
  <2>1. Stage(job, s) /\ \A b \in Held(s, {job}) : Locked(s.records, b)
    BY <1>13 DEF Sound, LocalOK
  <2>2. \A b \in job.submit : b \in Held(s, {job})
    BY OneHandler
  <2>3. \A b \in job.submit : Split(s.records, b)
    BY <1>1, <2>1 DEF Stage, Building, Releasing, Receiving
  <2>4. QED
    BY <2>1, <2>2, <2>3
<1>16. ASSUME ~Lost(a)', NEW X \in Rows(s, {})
       PROVE  Holds(X, Held(s, {}), s.pending \cap Confirmed, Waiting(a)', Purse(a)')
  <2>1. ~Lost(a)
    BY <1>2, <1>6, <1>16 DEF Lost
  <2>2. X \in Rows(s, {job}) /\ X = s.records
    BY <1>14, <1>16, NoHandler
  <2>3. PICK H, P, Q, S, W, N :
           /\ H = Held(s, {job}) /\ P = s.pending \cap Confirmed
           /\ Q = Waiting(a) /\ S = Waiting(a)' /\ W = Purse(a) /\ N = Purse(a)'
    OBVIOUS
  <2>4. Holds(X, H, P, Q, W)
    BY <1>1, <1>12, <2>1, <2>2, <2>3 DEF Shares, HoldState
  <2>5. \A b \in S : b \in Q \/ b \in job.submit
    BY <1>2, <1>4, <1>10, <2>3 DEF Waiting
  <2>6. \A b \in S : b \in Q \/ (b \in H /\ Split(X, b) /\ Locked(X, b))
    BY <1>15, <2>2, <2>3, <2>5
  <2>7. W \subseteq N
    BY <1>11, <2>3
  <2>8. Holds(X, H, P, S, N)
    BY <2>4, <2>6, <2>7, HoldsStill
  <2>9. QED
    BY <1>14, <2>3, <2>8
<1>17. \A X \in Rows(store'[a], jobs'[a]) : ~Lost(a)' =>
           Holds(X, Held(store'[a], jobs'[a]), store'[a].pending \cap Confirmed, Waiting(a)', Purse(a)')
  BY <1>1, <1>2, <1>12, <1>16
<1>18. QED
  BY <1>5, <1>8, <1>10, <1>17, SharesStep DEF Base

LEMMA SharesCrash ==
    ASSUME Base, Shares, NEW a \in Accounts, Crash(a)
    PROVE  Shares'
<1>1. /\ UNCHANGED <<store, submissions, pool, blocks>>
      /\ jobs'[a] = {} /\ \A c \in Accounts \ {a} : jobs'[c] = jobs[c]
      /\ packagesTo'[a] = {} /\ \A c \in Accounts \ {a} : packagesTo'[c] = packagesTo[c]
  BY DEF Crash, consensus, Base, Typed, TypeOK
<1>2. \A c : OwnQueue(c)' = OwnQueue(c)
  BY <1>1 DEF OwnQueue
<1>3. \A c \in Accounts : packagesTo'[c] \subseteq packagesTo[c]
  BY <1>1
<1>4. Keeps(a)
  BY <1>1, <1>2, <1>3 DEF Keeps
<1>5. PackageState'
  BY <1>1, <1>3, <1>4, PackagesKept DEF Base, Shares
<1>6. Confirmed' = Confirmed /\ \A c : ReceiptsFor(c)' = ReceiptsFor(c) /\ ConfirmedSeq(c)' = ConfirmedSeq(c)
  BY <1>1, OwnedKept
<1>7. Queued(a)' \subseteq Queued(a)
  BY <1>1, <1>2, <1>6, NoHandler DEF Queued
<1>8. Waiting(a)' \subseteq Waiting(a)
  BY <1>1, <1>2, <1>7 DEF Waiting
<1>9. Purse(a) \subseteq Purse(a)'
  BY <1>4, DueKept DEF Base, Shares
<1>10. PICK s, J : s = store[a] /\ J = jobs[a]
  OBVIOUS
<1>11. ASSUME ~Lost(a)', NEW X \in Rows(s, {})
       PROVE  Holds(X, Held(s, {}), s.pending \cap Confirmed, Waiting(a)', Purse(a)')
  <2>1. ~Lost(a)
    BY <1>1, <1>6, <1>11 DEF Lost
  <2>2. X \in Rows(s, J)
    BY <1>11, NoHandler DEF Rows
  <2>3. PICK H, I, P, Q, S, W, N :
           /\ H = Held(s, J) /\ I = s.pending /\ P = s.pending \cap Confirmed
           /\ Q = Waiting(a) /\ S = Waiting(a)' /\ W = Purse(a) /\ N = Purse(a)'
    OBVIOUS
  <2>4. Holds(X, H, P, Q, W)
    BY <1>10, <2>1, <2>2, <2>3 DEF Shares, HoldState
  <2>5. I \subseteq H
    BY <2>3 DEF Held
  <2>6. S \subseteq Q \cap I
    BY <1>1, <1>8, <1>10, <2>3 DEF Waiting
  <2>7. W \subseteq N
    BY <1>9, <2>3
  <2>8. \A r \in Live(X, I) : r \in Paid(X, P) => r \in Paid(X, P)
    OBVIOUS
  <2>9. Holds(X, I, P, S, N)
    BY <2>4, <2>5, <2>6, <2>7, <2>8, HoldsLess
  <2>10. QED
    BY <2>3, <2>9, NoHandler
<1>12. \A X \in Rows(store'[a], jobs'[a]) : ~Lost(a)' =>
           Holds(X, Held(store'[a], jobs'[a]), store'[a].pending \cap Confirmed, Waiting(a)', Purse(a)')
  BY <1>1, <1>10, <1>11
<1>13. QED
  BY <1>4, <1>5, <1>7, <1>12, SharesStep DEF Base

\* on_receipt_confirmed, for the bundle that is pending: what it pays out is
\* archived and its change is spendable.
LEMMA HoldsConfirmed ==
    ASSUME NEW X \in SUBSET Records, NEW u \in ConfirmedUnits, NEW b, b = u.bundle, NEW W,
           Holds(X, {b}, {b}, {}, W),
           \A r \in X : r.status = "missing" => IsPieceOf(r, b),
           NEW Y, Y = RecordsConfirmed(X, u)
    PROVE  Holds(Y, {b}, {b}, {}, W)
<1> DEFINE f == [r \in X |-> ConfirmedRecord(r, u)]
<1>1. \A r \in X : f[r] = ConfirmedRecord(r, u)
  OBVIOUS
<1>2. Y = {ConfirmedRecord(r, u) : r \in X}
  BY DEF RecordsConfirmed
<1> HIDE DEF f
<1>3. Y = {f[r] : r \in X}
  BY <1>1, <1>2
<1>4. \A r \in X : SamePiece(f[r], r)
  BY <1>1, ConfirmedOne
<1>5. ASSUME NEW r \in X, f[r] \in Live(Y, {b})
      PROVE  r \in Live(X, {b})
  <2>1. f[r].status = "spendable" \/ (f[r].status \in {"pending", "missing"} /\ IsPieceOf(f[r], b))
    BY <1>5 DEF Live
  <2>2. IsPieceOf(f[r], b) <=> IsPieceOf(r, b)
    BY <1>4 DEF SamePiece, IsPieceOf
  <2>3. \/ f[r] = r
        \/ r.status # "archived" /\ IsPieceOf(r, b)
        \/ r.status \in {"spendable", "missing"}
    BY <1>1, ConfirmedOne
  <2>4. CASE f[r] = r
    BY <2>1, <2>2, <2>4 DEF Live
  <2>5. CASE r.status # "archived" /\ IsPieceOf(r, b)
    BY <2>5 DEF Live, Records, Statuses
  <2>6. CASE r.status \in {"spendable", "missing"}
    BY <2>6 DEF Live
  <2>7. QED
    BY <2>3, <2>4, <2>5, <2>6
<1>6. \A d \in {} : \A r \in Live(X, {b}) : IsPieceOf(r, d) => f[r] \in Live(Y, {b})
  OBVIOUS
<1>7. QED
  BY <1>3, <1>4, <1>5, <1>6, HoldsMapped

LEMMA SharesConfirm ==
    ASSUME Threads = 1, ~MidCrash \/ MaxMisses = 0, Base, ReleaseState, Shares,
           NEW a \in Accounts, NEW u \in receiptsTo[a], TakeReceipt(a, u)
    PROVE  Shares'
<1>1. UNCHANGED <<store, submissions, pool, blocks, packagesTo>> /\ Free(a)
  BY DEF TakeReceipt, consensus
<1>2. CASE jobs' = jobs
  BY <1>1, <1>2, SharesStays DEF Base, OwnQueue
<1> DEFINE Y == RecordsConfirmed(store[a].records, u)
           D == PackagesOf(Y, u)
<1>3. CASE /\ u.bundle \in store[a].pending
           /\ Starts(a, [writes |-> ConfirmWrites(store[a], u), submit |-> {}, deliver |-> D])
  <2>1. u \in ConfirmedUnits /\ Fits(u.bundle, a, attempts[a]) /\ store[a].records \in SUBSET Records
    BY Types DEF Base, Stores
  <2>2. PICK job : Confirms(job, u, Y, D) /\ Begins(a, job)
    BY <1>1, <1>3, <2>1, ConfirmStarts DEF Base
  <2>3. RowsOf(job) = {Y} /\ job.submit = {} /\ job.deliver = D /\ Unpends(job)
    BY <2>2, RowsLeft DEF Confirms
  <2>4. PICK X, b, W, N : X = store[a].records /\ b = u.bundle /\ W = Purse(a) /\ N = Purse(a)'
    OBVIOUS
  <2>5. store[a].pending = {b} /\ Sound(store[a], {}) /\ jobs[a] = {}
    BY <1>3, <2>2, <2>4, OnePending DEF Base, LocalState, Begins
  <2>6. u \in ReceiptsFor(a) /\ u \notin store[a].receipts /\ HeadsOf(X) \subseteq store[a].receipts
    BY <2>4 DEF Base, AckState, AckOK
  <2>7. ~Lost(a)
    BY <1>3, <2>6, Missed
  <2>8. b \in Confirmed /\ b \notin Queued(a)
    <3>1. b \in Confirmed
      BY <2>4, <2>6 DEF ReceiptsFor, Confirmed
    <3>2. b.seq \in 1..ConfirmedSeq(a) /\ ConfirmedSeq(a) \in Nat
      BY <2>4, <2>6, SeqIsNat DEF Base, ChainState, ChainOK
    <3>3. QED
      BY <3>1, <3>2 DEF Queued
  <2>9. Waiting(a) = {} /\ store[a].pending \cap Confirmed = {b}
    BY <2>5, <2>8 DEF Waiting
  <2>10. Holds(X, {b}, {b}, {}, W)
    <3>1. Rows(store[a], jobs[a]) = {X} /\ Held(store[a], jobs[a]) = {b}
      BY <2>4, <2>5, NoHandler
    <3>2. Holds(X, Held(store[a], jobs[a]), store[a].pending \cap Confirmed, Waiting(a), Purse(a))
      BY <2>7, <3>1 DEF Shares, HoldState
    <3>3. QED
      BY <2>4, <2>9, <3>1, <3>2
  <2>11. \A r \in X : r.status = "missing" => IsPieceOf(r, b)
    <3>1. CASE ~MidCrash
      <4>1. FinalRows(store[a], {}) = {X} /\ FinalPending(store[a], {}) = {b}
        BY <2>4, <2>5, NoHandler
      <4>2. QED
        BY <2>5, <3>1, <4>1 DEF Sound, Settled
    <3>2. CASE MaxMisses = 0
      <4>1. X \in Rows(store[a], jobs[a])
        BY <2>4 DEF Rows
      <4>2. QED
        BY <3>2, <4>1 DEF ReleaseState, Releases, NothingMissing
    <3>3. QED
      BY <3>1, <3>2
  <2>12. Y = RecordsConfirmed(X, u) /\ D = PackagesOf(Y, u)
    BY <2>4
  <2> HIDE DEF Y, D
  <2>13. b = u.bundle /\ X \in SUBSET Records /\ u \in ConfirmedUnits
    BY <2>1, <2>4
  <2>14. Holds(Y, {b}, {b}, {}, W)
    BY <2>10, <2>11, <2>12, <2>13, HoldsConfirmed
  <2>15. Apart(Live(X, {b})) /\ u \notin HeadsOf(X)
    BY <2>6, <2>10 DEF Holds
  <2>16. /\ \A p \in D : p.bundle = b /\ p.value \in b.values
         /\ \A p, q \in D : p.value = q.value => p = q
    BY <2>12, <2>13, <2>15, PackagesOnce
  <2>17. Keeps(a)
    BY <1>1, <2>2, <2>3, <2>5, <2>16 DEF Keeps, Begins, OwnQueue
  <2>18. Confirmed' = Confirmed
    BY <1>1, OwnedKept
  <2>19. Prepared(job, a)'
    <3>1. b.sender = a
      BY <2>1, <2>4 DEF Fits
    <3>2. store'[a].pending = {b}
      BY <1>1, <2>5
    <3>3. QED
      BY <2>3, <2>8, <2>16, <2>18, <3>1, <3>2 DEF Prepared
  <2>20. W \subseteq N
    BY <2>4, <2>17, DueKept DEF Base, Shares
  <2>21. ASSUME NEW Z \in {store[a].records, Y}
         PROVE  Holds(Z, store[a].pending \cup job.submit, store[a].pending \cap Confirmed, Waiting(a), Purse(a)')
    <3>1. Holds(Z, {b}, {b}, {}, W)
      BY <2>4, <2>10, <2>14, <2>21
    <3>2. Holds(Z, {b}, {b}, {}, N)
      BY <2>20, <3>1, HoldsStill
    <3>3. store[a].pending \cup job.submit = {b}
      BY <2>3, <2>5
    <3>4. QED
      BY <2>4, <2>9, <3>2, <3>3
  <2>22. UNCHANGED <<store, submissions, pool, blocks>> /\ \A c \in Accounts : packagesTo'[c] \subseteq packagesTo[c]
    BY <1>1
  <2>23. job.submit \cap Known = {} /\ \A p \in job.deliver : p.bundle \in store[a].pending
    BY <2>3, <2>5, <2>16
  <2>24. \A d \in job.submit : d.seq = ConfirmedSeq(a) + 1 =>
             Clean(d.values) /\ UNION d.values \subseteq Purse(a)
    BY <2>3
  <2>25. RowsOf(job) = {Y} /\ Begins(a, job) /\ Typed
    BY <2>2, <2>3 DEF Base
  <2>26. QED
    BY <2>19, <2>21, <2>22, <2>23, <2>24, <2>25, SharesBegins
<1>4. QED
  BY <1>2, <1>3 DEF TakeReceipt, AcceptsReceipt

\* A package that is taken out of the mail: its value is the account's, nobody
\* else is about to send it again, and no bundle of the account pays it out.
LEMMA Arriving ==
    ASSUME Typed, Shares, NEW a \in Accounts, NEW p \in packagesTo[a], Keeps(a), store' = store,
           packagesTo'[a] = packagesTo[a] \ {p}
    PROVE  /\ p.value \subseteq DueUnits(a) /\ p.value \subseteq Purse(a)'
           /\ \A b \in store[a].pending \cap Confirmed : \A v \in b.values : v \cap p.value = {}
<1> DEFINE d == p.bundle
<1>1. /\ d \in Confirmed /\ d.to = a /\ p.value \in d.values
      /\ d \notin store[d.sender].pending
      /\ \A job \in jobs[d.sender] : \A q \in job.deliver : q.bundle # d
      /\ \A q \in packagesTo[a] : q.bundle = d /\ q.value = p.value => q = p
  BY DEF Shares, PackageState, Sent
<1>2. d \in PaidTo(a) /\ d.sender \in Accounts /\ d.sender # a
  BY <1>1, ConfirmedType DEF PaidTo
<1>3. p.value \in Outstanding(d)
  BY <1>1 DEF Outstanding
<1>4. p.value \subseteq DueUnits(a)
  BY <1>2, <1>3 DEF DueUnits
<1>5. p.value \subseteq Owned(a)
  BY <1>4 DEF Shares, DueState
<1>6. Owned(a)' = Owned(a) /\ PaidTo(a)' = PaidTo(a)
  BY OwnedKept DEF Keeps
<1>7. \A b \in PaidTo(a) : Outstanding(b)' \subseteq Outstanding(b)
  BY OutstandingKept DEF PaidTo, Shares
<1>8. p.value \notin Outstanding(d)'
  <2>1. d \notin store'[d.sender].pending
    BY <1>1
  <2>2. \A job \in jobs'[d.sender] : \A q \in job.deliver : q.bundle # d
    BY <1>1, <1>2 DEF Keeps
  <2>3. \A q \in packagesTo'[d.to] : q.bundle = d => q.value # p.value
    BY <1>1
  <2>4. QED
    BY <2>1, <2>2, <2>3 DEF Outstanding
<1>9. p.value \cap DueUnits(a)' = {}
  <2>1. SUFFICES ASSUME NEW b \in PaidTo(a), NEW v \in Outstanding(b)'
                 PROVE  v \cap p.value = {}
    BY <1>6 DEF DueUnits
  <2>2. b # d \/ v # p.value
    BY <1>8, <2>1
  <2>3. v \in Outstanding(b)
    BY <1>7, <2>1
  <2>4. QED
    BY <1>2, <1>3, <2>2, <2>3 DEF Shares, DueState
<1>10. p.value \subseteq Purse(a)'
  BY <1>5, <1>6, <1>9 DEF Purse
<1>11. ASSUME NEW b \in store[a].pending \cap Confirmed, NEW v \in b.values
       PROVE  v \cap p.value = {}
  <2>1. b.sender = a /\ b.to \in Accounts /\ b.to # a
    BY Types, ConfirmedType DEF StoreFits, Fits
  <2>2. v \in Outstanding(b) /\ b \in PaidTo(b.to)
    BY <2>1 DEF Outstanding, PaidTo
  <2>3. v \subseteq Owned(b.to)
    BY <2>1, <2>2 DEF Shares, DueState, DueUnits
  <2>4. Owned(b.to) \cap Owned(a) = {}
    BY <2>1 DEF Owned
  <2>5. QED
    BY <1>5, <2>3, <2>4
<1>12. QED
  BY <1>4, <1>10, <1>11

LEMMA SharesReceive ==
    ASSUME Threads = 1, Base, Shares, NEW a \in Accounts, NEW p \in packagesTo[a], TakePackage(a, p)
    PROVE  Shares'
<1> DEFINE Y == store[a].records \cup {ReceivedRecord(p)}
<1>1. /\ UNCHANGED <<store, submissions, pool, blocks>> /\ Free(a)
      /\ packagesTo'[a] = packagesTo[a] \ {p}
      /\ \A c \in Accounts : packagesTo'[c] \subseteq packagesTo[c]
  BY DEF TakePackage, consensus, Base, Typed, TypeOK
<1>2. CASE jobs' = jobs
  BY <1>1, <1>2, SharesStays DEF Base, OwnQueue
<1>3. CASE Valid(p) /\ Starts(a, Only(ReceiveWrites(store[a], p)))
  <2>1. PICK job : Receives(job, p, Y) /\ Begins(a, job)
    BY <1>1, <1>3, ReceiveStarts DEF Base
  <2>2. PICK X, q : X = store[a].records /\ q = ReceivedRecord(p)
    OBVIOUS
  <2>3. Y = X \cup {q}
    BY <2>2
  <2>4. /\ job.submit = {} /\ job.deliver = {} /\ Len(job.writes) = 2
        /\ job.writes[1].table = "records" /\ job.writes[2].table = "accepted"
        /\ job.writes[1].rows = Y
    BY <2>1 DEF Receives
  <2> HIDE DEF Y
  <2>5. RowsOf(job) = {Y}
    BY <2>4, RowsLeft
  <2>6. Keeps(a)
    BY <1>1, <2>1, <2>4 DEF Keeps, Begins, OwnQueue
  <2>7. /\ p.value \subseteq DueUnits(a) /\ p.value \subseteq Purse(a)'
        /\ \A b \in store[a].pending \cap Confirmed : \A v \in b.values : v \cap p.value = {}
    BY <1>1, <2>6, Arriving DEF Base
  <2>8. Purse(a) \subseteq Purse(a)'
    BY <2>6, DueKept DEF Base, Shares
  <2>9. q.status = "spendable" /\ q.value = p.value
    BY <2>2 DEF ReceivedRecord
  <2>10. ASSUME ~Lost(a), NEW Z \in {store[a].records, Y}
         PROVE  Holds(Z, store[a].pending \cup job.submit, store[a].pending \cap Confirmed, Waiting(a), Purse(a)')
    <3>1. PICK H, P, Q, W, N :
             /\ H = store[a].pending /\ P = store[a].pending \cap Confirmed
             /\ Q = Waiting(a) /\ W = Purse(a) /\ N = Purse(a)'
      OBVIOUS
    <3>2. Rows(store[a], jobs[a]) = {X} /\ Held(store[a], jobs[a]) = H
      BY <2>1, <2>2, <3>1, NoHandler DEF Begins
    <3>3. Holds(X, H, P, Q, W)
      BY <2>10, <3>1, <3>2 DEF Shares, HoldState
    <3>4. W \subseteq N /\ q.value \subseteq N
      BY <2>7, <2>8, <2>9, <3>1
    <3>5. q.value \cap W = {}
      BY <2>7, <2>9, <3>1 DEF Purse
    <3>6. \A r \in Paid(X, P) : r.value \cap q.value = {}
      BY <2>7, <2>9, <3>1 DEF Paid
    <3>7. Holds(Y, H, P, Q, N)
      BY <2>3, <2>9, <3>3, <3>4, <3>5, <3>6, HoldsReceived
    <3>8. Holds(X, H, P, Q, N)
      BY <3>3, <3>4, HoldsStill
    <3>9. Holds(Z, H, P, Q, N)
      BY <2>2, <2>10, <3>7, <3>8
    <3>10. store[a].pending \cup job.submit = H
      BY <2>4, <3>1
    <3>11. QED
      BY <3>1, <3>9, <3>10
  <2>11. Prepared(job, a)'
    BY <2>4 DEF Prepared
  <2>12. UNCHANGED <<store, submissions, pool, blocks>> /\ \A c \in Accounts : packagesTo'[c] \subseteq packagesTo[c]
    BY <1>1
  <2>13. job.submit \cap Known = {} /\ \A x \in job.deliver : x.bundle \in store[a].pending
    BY <2>4
  <2>14. \A d \in job.submit : d.seq = ConfirmedSeq(a) + 1 =>
             Clean(d.values) /\ UNION d.values \subseteq Purse(a)
    BY <2>4
  <2>15. Begins(a, job) /\ Typed
    BY <2>1 DEF Base
  <2>16. QED
    BY <2>5, <2>10, <2>11, <2>12, <2>13, <2>14, <2>15, SharesBegins
<1>4. QED
  BY <1>2, <1>3 DEF TakePackage

-----------------------------------------------------------------------------
(* A block and the owners *)

Spenders(x) == {h \in 1..Len(blocks) : \E b \in blocks[h] : x \in UNION b.values}

Latest(T) == CHOOSE h \in T : \A g \in T : g <= h

\* Who a unit belonged to at the start.
FirstOwner(x) ==
    LET start == {a \in Accounts : x \in UNION Genesis[a]}
    IN  IF start # {} THEN CHOOSE a \in start : TRUE ELSE "nobody"

LEMMA OwnerCases ==
    ASSUME NEW x
    PROVE  OwnerOf(x) = IF Spenders(x) # {}
                        THEN (CHOOSE b \in blocks[Latest(Spenders(x))] : x \in UNION b.values).to
                        ELSE FirstOwner(x)
BY DEF OwnerOf, Spenders, Latest, FirstOwner

LEMMA OwnerCasesNext ==
    ASSUME NEW x
    PROVE  OwnerOf(x)' = IF Spenders(x)' # {}
                         THEN (CHOOSE b \in blocks'[Latest(Spenders(x)')] : x \in UNION b.values).to
                         ELSE FirstOwner(x)
BY DEF OwnerOf, Spenders, Latest, FirstOwner

LEMMA OwnerMoves ==
    ASSUME TypeOK, Commit, NEW x
    PROVE  /\ (\A b \in pool : x \notin UNION b.values) => OwnerOf(x)' = OwnerOf(x)
           /\ \A b \in pool : /\ x \in UNION b.values
                              /\ \A c \in pool : x \in UNION c.values => c = b
                              => OwnerOf(x)' = b.to
<1>1. /\ Len(blocks') = Len(blocks) + 1 /\ Len(blocks) \in Nat
      /\ \A h \in 1..Len(blocks) : blocks'[h] = blocks[h]
      /\ blocks'[Len(blocks) + 1] = pool
  BY CommitFacts
<1>2. PICK S, T, L : S = Spenders(x) /\ T = Spenders(x)' /\ L = Len(blocks)
  OBVIOUS
<1>3. S \subseteq 1..L /\ L \in Nat
  BY <1>1, <1>2 DEF Spenders
<1>4. T = S \cup {h \in {L + 1} : \E b \in pool : x \in UNION b.values}
  <2>1. \A h : h \in 1..(L + 1) <=> h \in 1..L \/ h = L + 1
    BY <1>3
  <2>2. T = {h \in 1..(L + 1) : \E b \in blocks'[h] : x \in UNION b.values}
    BY <1>1, <1>2 DEF Spenders
  <2>3. S = {h \in 1..L : \E b \in blocks'[h] : x \in UNION b.values}
    BY <1>1, <1>2 DEF Spenders
  <2>4. blocks'[L + 1] = pool
    BY <1>1, <1>2
  <2>5. QED
    BY <2>1, <2>2, <2>3, <2>4
<1>5. ASSUME \A b \in pool : x \notin UNION b.values
      PROVE  OwnerOf(x)' = OwnerOf(x)
  <2>1. T = S
    BY <1>4, <1>5
  <2>2. CASE S = {}
    BY <1>2, <2>1, <2>2, OwnerCases, OwnerCasesNext
  <2>3. CASE S # {}
    <3>1. PICK m \in S : \A g \in S : g <= m
      <4>1. S \subseteq Nat /\ \A g \in S : g <= L
        BY <1>3
      <4>2. QED
        BY <1>3, <2>3, <4>1, Greatest
    <3>2. Latest(S) \in S
      BY <3>1 DEF Latest
    <3>3. blocks'[Latest(S)] = blocks[Latest(S)]
      BY <1>1, <1>2, <1>3, <3>2
    <3>4. PICK B : B = blocks[Latest(S)]
      OBVIOUS
    <3>5. OwnerOf(x) = (CHOOSE b \in B : x \in UNION b.values).to
      BY <1>2, <2>3, <3>4, OwnerCases
    <3>6. blocks'[Latest(T)] = B /\ T # {}
      BY <2>1, <2>3, <3>3, <3>4
    <3>7. OwnerOf(x)' = (CHOOSE b \in B : x \in UNION b.values).to
      BY <1>2, <3>6, OwnerCasesNext
    <3>8. QED
      BY <3>5, <3>7
  <2>4. QED
    BY <2>2, <2>3
<1>6. ASSUME NEW b \in pool, x \in UNION b.values, \A c \in pool : x \in UNION c.values => c = b
      PROVE  OwnerOf(x)' = b.to
  <2>1. T = S \cup {L + 1}
    BY <1>4, <1>6
  <2>2. Latest(T) = L + 1
    <3>1. \A g \in T : g <= L + 1 /\ (L + 1 <= g => g = L + 1)
      BY <1>3, <2>1
    <3>2. L + 1 \in T
      BY <2>1
    <3>3. QED
      BY <3>1, <3>2 DEF Latest
  <2>3. (CHOOSE c \in pool : x \in UNION c.values) = b
    BY <1>6
  <2>4. blocks'[Latest(T)] = pool /\ T # {}
    BY <1>1, <1>2, <2>1, <2>2
  <2>5. QED
    BY <1>2, <2>3, <2>4, OwnerCasesNext
<1>7. QED
  BY <1>5, <1>6

\* The bundles in the pool spend what their senders own, and no two of them the
\* same.
LEMMA PoolSpends ==
    ASSUME Base, QueueState, NEW b \in pool
    PROVE  /\ b.sender \in Accounts /\ b.to \in Accounts /\ b.to # b.sender
           /\ b \in Queued(b.sender) /\ Clean(b.values)
           /\ UNION b.values \subseteq Purse(b.sender) /\ Purse(b.sender) \subseteq Owned(b.sender)
           /\ \A c \in pool : (UNION b.values) \cap (UNION c.values) # {} => c = b
<1>1. \A c \in pool : /\ c.sender \in Accounts /\ c.to \in Accounts /\ c.to # c.sender
                      /\ c \in Queued(c.sender)
  <2>1. ASSUME NEW c \in pool
        PROVE  /\ c.sender \in Accounts /\ c.to \in Accounts /\ c.to # c.sender
               /\ c \in Queued(c.sender)
    <3>1. c \in Bundles /\ Fits(c, c.sender, attempts[c.sender])
      BY DEF Base, Typed, TypeOK, Numbered
    <3>2. c.seq = ConfirmedSeq(c.sender) + 1
      BY DEF Base, ChainState, PoolOK
    <3>3. QED
      BY <3>1, <3>2 DEF Bundles, Fits, Queued, OwnQueue
  <2>2. QED
    BY <2>1
<1>2. \A c \in pool : Clean(c.values) /\ UNION c.values \subseteq Purse(c.sender)
  BY <1>1 DEF QueueState
<1>3. \A a : Purse(a) \subseteq Owned(a)
  BY DEF Purse
<1>4. ASSUME NEW c \in pool, NEW x \in UNION b.values, x \in UNION c.values
      PROVE  c = b
  <2>1. x \in Owned(b.sender) /\ x \in Owned(c.sender)
    BY <1>2, <1>3, <1>4
  <2>2. b.sender = c.sender
    BY <2>1 DEF Owned
  <2>3. QED
    BY <2>2 DEF Base, ChainState, PoolOK
<1>5. QED
  BY <1>1, <1>2, <1>3, <1>4

\* A block gives its bundles' values to their receivers.
LEMMA CommitOwners ==
    ASSUME Base, QueueState, Commit
    PROVE  /\ \A b \in pool : \A x \in UNION b.values :
                 OwnerOf(x) = b.sender /\ x \in Allocated /\ OwnerOf(x)' = b.to
           /\ \A x : (\A b \in pool : x \notin UNION b.values) => OwnerOf(x)' = OwnerOf(x)
<1>1. TypeOK
  BY DEF Base, Typed
<1>2. ASSUME NEW b \in pool, NEW x \in UNION b.values
      PROVE  OwnerOf(x) = b.sender /\ x \in Allocated /\ OwnerOf(x)' = b.to
  <2>1. x \in Owned(b.sender)
    BY PoolSpends
  <2>2. \A c \in pool : x \in UNION c.values => c = b
    BY PoolSpends
  <2>3. QED
    BY <1>1, <2>1, <2>2, OwnerMoves DEF Owned
<1>3. QED
  BY <1>1, <1>2, OwnerMoves

\* A block changes nothing in the wallets, and adds to the bundles that were paid.
LEMMA CommitPays ==
    ASSUME Base, Commit
    PROVE  /\ UNCHANGED <<store, jobs, submissions, packagesTo>> /\ pool' = {}
           /\ Confirmed' = Confirmed \cup pool
           /\ \A b : Outstanding(b)' = Outstanding(b) /\ Outstanding(b) \subseteq b.values
           /\ \A a : PaidTo(a)' = PaidTo(a) \cup {b \in pool : b.to = a}
<1>1. UNCHANGED <<store, jobs, submissions, packagesTo>> /\ pool' = {}
  BY DEF Commit
<1>2. Confirmed' = Confirmed \cup pool
  BY CommitFacts DEF Base, Typed
<1>3. \A b : Outstanding(b)' = Outstanding(b) /\ Outstanding(b) \subseteq b.values
  BY <1>1 DEF Outstanding
<1>4. \A a : PaidTo(a)' = PaidTo(a) \cup {b \in pool : b.to = a}
  BY <1>2 DEF PaidTo
<1>5. QED
  BY <1>1, <1>2, <1>3, <1>4

\* Units that are due are in nobody's bundle, and what an account has and does
\* not give stays in its purse.
LEMMA CommitPurse ==
    ASSUME Base, DueState, QueueState, Commit, NEW a \in Accounts
    PROVE  /\ \A x \in DueUnits(a) : (\A b \in pool : x \notin UNION b.values) /\ x \in Owned(a)'
           /\ \A b \in pool : b.to = a => UNION b.values \subseteq Owned(a)'
           /\ \A x \in Purse(a) :
                 (\A b \in pool : b.sender = a => x \notin UNION b.values) => x \in Purse(a)'
<1>1. ASSUME NEW x \in DueUnits(a)
      PROVE  (\A b \in pool : x \notin UNION b.values) /\ x \in Owned(a)'
  <2>1. x \in Owned(a)
    BY DEF DueState
  <2>2. ASSUME NEW b \in pool, x \in UNION b.values
        PROVE  FALSE
    <3>1. x \in Purse(b.sender) /\ OwnerOf(x) = b.sender
      BY <2>2, PoolSpends, CommitOwners
    <3>2. b.sender = a
      BY <2>1, <3>1 DEF Owned
    <3>3. QED
      BY <3>1, <3>2 DEF Purse
  <2>3. OwnerOf(x)' = OwnerOf(x)
    BY <2>2, CommitOwners
  <2>4. QED
    BY <2>1, <2>2, <2>3 DEF Owned
<1>2. ASSUME NEW b \in pool, b.to = a
      PROVE  UNION b.values \subseteq Owned(a)'
  <2>1. ASSUME NEW x \in UNION b.values
        PROVE  x \in Allocated /\ OwnerOf(x)' = a
    BY <1>2, CommitOwners
  <2>2. QED
    BY <2>1 DEF Owned
<1>3. ASSUME NEW x \in Purse(a), \A b \in pool : b.sender = a => x \notin UNION b.values
      PROVE  x \in Purse(a)'
  <2>1. x \in Owned(a) /\ x \notin DueUnits(a)
    BY DEF Purse
  <2>2. ASSUME NEW b \in pool, x \in UNION b.values
        PROVE  FALSE
    <3>1. OwnerOf(x) = b.sender
      BY <2>2, CommitOwners
    <3>2. QED
      BY <1>3, <2>1, <2>2, <3>1 DEF Owned
  <2>3. OwnerOf(x)' = OwnerOf(x)
    BY <2>2, CommitOwners
  <2>4. x \in Owned(a)'
    BY <2>1, <2>3 DEF Owned
  <2>5. x \notin DueUnits(a)'
    <3>1. SUFFICES ASSUME NEW b \in PaidTo(a)', NEW v \in Outstanding(b)', x \in v
                   PROVE  FALSE
      BY DEF DueUnits
    <3>2. v \in Outstanding(b) /\ v \in b.values
      BY <3>1, CommitPays
    <3>3. b \in PaidTo(a) \/ b \in pool
      BY <3>1, CommitPays
    <3>4. QED
      BY <2>1, <2>2, <3>1, <3>2, <3>3 DEF DueUnits
  <2>6. QED
    BY <2>4, <2>5 DEF Purse
<1>4. QED
  BY <1>1, <1>2, <1>3

LEMMA CommitDue ==
    ASSUME Base, DueState, QueueState, Commit
    PROVE  DueState'
<1>1. SUFFICES ASSUME NEW a \in Accounts
               PROVE  /\ DueUnits(a)' \subseteq Owned(a)'
                      /\ \A b, d \in PaidTo(a)' : \A v \in Outstanding(b)', w \in Outstanding(d)' :
                            b # d \/ v # w => v \cap w = {}
  BY DEF DueState
<1>2. /\ \A b : Outstanding(b)' = Outstanding(b) /\ Outstanding(b) \subseteq b.values
      /\ \A b \in PaidTo(a)' : b \in PaidTo(a) \/ (b \in pool /\ b.to = a)
  BY CommitPays
<1>3. ASSUME NEW b \in PaidTo(a)', NEW v \in Outstanding(b)'
      PROVE  v \subseteq Owned(a)'
  <2>1. v \in Outstanding(b) /\ v \in b.values
    BY <1>2
  <2>2. CASE b \in PaidTo(a)
    <3>1. v \subseteq DueUnits(a)
      BY <2>1, <2>2 DEF DueUnits
    <3>2. QED
      BY <3>1, CommitPurse
  <2>3. CASE b \in pool /\ b.to = a
    <3>1. v \subseteq UNION b.values
      BY <2>1
    <3>2. QED
      BY <2>3, <3>1, CommitPurse
  <2>4. QED
    BY <1>2, <2>2, <2>3
<1>4. ASSUME NEW b \in PaidTo(a), NEW v \in Outstanding(b), NEW d \in pool, NEW w \in d.values
      PROVE  v \cap w = {}
  <2>1. v \subseteq DueUnits(a)
    BY DEF DueUnits
  <2>2. \A x \in v : x \notin UNION d.values
    BY <2>1, CommitPurse
  <2>3. QED
    BY <2>2
<1>5. ASSUME NEW b \in pool, NEW v \in b.values, NEW d \in pool, NEW w \in d.values,
             b # d \/ v # w
      PROVE  v \cap w = {}
  <2>1. CASE b # d
    <3>1. (UNION b.values) \cap (UNION d.values) = {}
      BY <2>1, PoolSpends
    <3>2. QED
      BY <3>1
  <2>2. CASE b = d
    <3>1. Clean(b.values)
      BY PoolSpends
    <3>2. QED
      BY <1>5, <2>2, <3>1 DEF Clean
  <2>3. QED
    BY <2>1, <2>2
<1>6. ASSUME NEW b \in PaidTo(a)', NEW d \in PaidTo(a)', NEW v \in Outstanding(b)',
             NEW w \in Outstanding(d)', b # d \/ v # w
      PROVE  v \cap w = {}
  <2>1. /\ v \in Outstanding(b) /\ v \in b.values /\ w \in Outstanding(d) /\ w \in d.values
        /\ b \in PaidTo(a) \/ b \in pool
        /\ d \in PaidTo(a) \/ d \in pool
    BY <1>2
  <2>2. CASE b \in PaidTo(a) /\ d \in PaidTo(a)
    BY <1>6, <2>1, <2>2 DEF DueState
  <2>3. CASE b \in PaidTo(a) /\ d \in pool
    BY <1>4, <2>1, <2>3
  <2>4. CASE b \in pool /\ d \in PaidTo(a)
    <3>1. w \cap v = {}
      BY <1>4, <2>1, <2>4
    <3>2. QED
      BY <3>1
  <2>5. CASE b \in pool /\ d \in pool
    BY <1>5, <1>6, <2>1, <2>5
  <2>6. QED
    BY <2>1, <2>2, <2>3, <2>4, <2>5
<1>7. QED
  BY <1>3, <1>6 DEF DueUnits

\* After a block an account whose bundle is in it has none that is next.
LEMMA CommitQueue ==
    ASSUME Base, DueState, QueueState, Commit, NEW a \in Accounts
    PROVE  /\ (\A b \in pool : b.sender # a) =>
                 Queued(a)' \subseteq Queued(a) /\ Purse(a) \subseteq Purse(a)'
           /\ (\E b \in pool : b.sender = a) => Queued(a)' = {}
<1>1. UNCHANGED <<store, jobs, submissions>> /\ pool' = {}
  BY CommitPays
<1>2. OwnQueue(a)' \subseteq OwnQueue(a) /\ ToSubmit(jobs'[a]) = ToSubmit(jobs[a])
  BY <1>1 DEF OwnQueue
<1>3. ASSUME \A b \in pool : b.sender # a
      PROVE  Queued(a)' \subseteq Queued(a) /\ Purse(a) \subseteq Purse(a)'
  <2>1. ConfirmedSeq(a)' = ConfirmedSeq(a)
    BY <1>3, CommitOne DEF Base
  <2>2. Queued(a)' \subseteq Queued(a)
    BY <1>2, <2>1 DEF Queued
  <2>3. Purse(a) \subseteq Purse(a)'
    BY <1>3, CommitPurse
  <2>4. QED
    BY <2>2, <2>3
<1>4. ASSUME \E b \in pool : b.sender = a
      PROVE  Queued(a)' = {}
  <2>1. ConfirmedSeq(a)' = ConfirmedSeq(a) + 1
    BY <1>4, CommitOne DEF Base
  <2>2. PICK k \in Nat : ConfirmedSeq(a) \in {k, k + 1} /\ \A b \in OwnBundles(a) : b.seq <= k + 1
    BY Behind
  <2>3. ASSUME NEW b \in Queued(a)'
        PROVE  FALSE
    <3>1. b.seq = ConfirmedSeq(a) + 2 /\ b \in OwnQueue(a) \cup ToSubmit(jobs[a])
      BY <1>2, <2>1, <2>2, <2>3 DEF Queued
    <3>2. b \in OwnBundles(a)
      BY <3>1 DEF OwnBundles, Held
    <3>3. QED
      BY <2>2, <3>1, <3>2
  <2>4. QED
    BY <2>3
<1>5. QED
  BY <1>3, <1>4

LEMMA CommitHolds ==
    ASSUME Base, Shares, Commit, NEW a \in Accounts, ~Lost(a)', NEW X \in Rows(store[a], jobs[a])
    PROVE  Holds(X, Held(store[a], jobs[a]), store[a].pending \cap Confirmed', Waiting(a)', Purse(a)')
<1>1. /\ UNCHANGED <<store, jobs, submissions>> /\ pool' = {}
      /\ Confirmed' = Confirmed \cup pool
  BY CommitPays
<1>2. DueState /\ QueueState
  BY DEF Shares
<1>3. PICK H, P, Q, W, N : /\ H = Held(store[a], jobs[a]) /\ P = store[a].pending \cap Confirmed
                           /\ Q = Waiting(a) /\ W = Purse(a) /\ N = Purse(a)'
  OBVIOUS
<1>4. ~Lost(a)
  <2>1. ReceiptsFor(a) \subseteq ReceiptsFor(a)'
    BY CommitFacts DEF Base, Typed
  <2>2. QED
    BY <1>1, <2>1 DEF Lost
<1>5. Holds(X, H, P, Q, W)
  BY <1>3, <1>4 DEF Shares, HoldState
<1>6. \A b \in store[a].pending : b.sender = a
  BY DEF Base, Typed, Numbered, StoreFits, Fits
<1>7. CASE \A b \in pool : b.sender # a
  <2>1. Queued(a)' \subseteq Queued(a) /\ W \subseteq N
    BY <1>2, <1>3, <1>7, CommitQueue
  <2>2. Waiting(a)' \subseteq Q
    BY <1>1, <1>3, <2>1 DEF Waiting, OwnQueue
  <2>3. store[a].pending \cap Confirmed' = P
    BY <1>1, <1>3, <1>6, <1>7
  <2>4. PICK S : S = Waiting(a)'
    OBVIOUS
  <2>5. \A b \in S : b \in Q
    BY <2>2, <2>4
  <2>6. W \subseteq N
    BY <2>1
  <2>7. Holds(X, H, P, S, N)
    BY <1>5, <2>5, <2>6, HoldsStill
  <2>8. QED
    BY <1>3, <2>3, <2>4, <2>7
<1>8. CASE \E b \in pool : b.sender = a
  <2>1. PICK b \in pool :
                 /\ b.sender = a /\ \A c \in pool : c.sender = a => c = b
                 /\ b.seq = ConfirmedSeq(a) + 1
                 /\ ReceiptsFor(a)' = ReceiptsFor(a) \cup {[bundle |-> b, height |-> Len(blocks) + 1]}
                 /\ [bundle |-> b, height |-> Len(blocks) + 1] \notin ReceiptsFor(a)
    BY <1>8, CommitOne DEF Base
  <2>2. store[a].receipts \subseteq ReceiptsFor(a)
    BY DEF Base, AckState, AckOK
  <2>3. b \in store[a].pending
    <3>1. PICK u : u = [bundle |-> b, height |-> Len(blocks) + 1]
      OBVIOUS
    <3>2. u \in ReceiptsFor(a)' /\ u \notin store'[a].receipts /\ u.bundle = b
      BY <1>1, <2>1, <2>2, <3>1
    <3>3. QED
      BY <1>1, <3>2 DEF Lost
  <2>4. b \in Q
    BY <1>3, <2>1, <2>3 DEF Waiting, Queued, OwnQueue
  <2>5. store[a].pending \cap Confirmed' = P \cup {b}
    BY <1>1, <1>3, <1>6, <2>1, <2>3
  <2>6. Waiting(a)' = {}
    <3>1. Queued(a)' = {}
      BY <1>2, <1>8, CommitQueue
    <3>2. QED
      BY <3>1 DEF Waiting
  <2>7. W \ UNION b.values \subseteq N
    <3>1. \A x \in Purse(a) : x \notin UNION b.values => x \in Purse(a)'
      BY <1>2, <2>1, CommitPurse
    <3>2. QED
      BY <1>3, <3>1
  <2>8. Holds(X, H, P \cup {b}, {}, N)
    BY <1>5, <2>4, <2>7, HoldsPaidOut
  <2>9. QED
    BY <1>3, <2>5, <2>6, <2>8
<1>9. QED
  BY <1>7, <1>8

LEMMA SharesCommit ==
    ASSUME Base, Shares, Commit
    PROVE  Shares'
<1>1. /\ UNCHANGED <<store, jobs, submissions, packagesTo>> /\ pool' = {}
      /\ Confirmed' = Confirmed \cup pool
  BY CommitPays
<1>2. HoldState'
  BY <1>1, CommitHolds DEF HoldState
<1>3. DueState'
  BY CommitDue DEF Shares
<1>4. QueueState'
  <2>1. SUFFICES ASSUME NEW a \in Accounts, NEW b \in Queued(a)'
                 PROVE  Clean(b.values) /\ UNION b.values \subseteq Purse(a)'
    BY DEF QueueState
  <2>2. b \in Queued(a) /\ Purse(a) \subseteq Purse(a)'
    BY <2>1, CommitQueue DEF Shares
  <2>3. Clean(b.values) /\ UNION b.values \subseteq Purse(a)
    BY <2>2 DEF Shares, QueueState
  <2>4. QED
    BY <2>2, <2>3
<1>5. PackageState'
  <2>1. ASSUME NEW a \in Accounts
        PROVE  Sent(a)' /\ \A job \in jobs'[a] : Prepared(job, a)'
    <3>1. Sent(a) /\ \A job \in jobs[a] : Prepared(job, a)
      BY DEF Shares, PackageState
    <3>2. Sent(a)'
      BY <1>1, <3>1 DEF Sent
    <3>3. \A job \in jobs'[a] : Prepared(job, a)'
      BY <1>1, <3>1 DEF Prepared
    <3>4. QED
      BY <3>2, <3>3
  <2>2. QED
    BY <2>1 DEF PackageState
<1>6. QED
  BY <1>2, <1>3, <1>4, <1>5 DEF Shares

LEMMA FirstOwners ==
    ASSUME Init, NEW a \in Accounts, NEW x \in UNION Genesis[a]
    PROVE  x \in Owned(a)
<1>1. \A c \in Accounts : x \in UNION Genesis[c] => c = a
  BY PaymentsAssumption
<1>2. {c \in Accounts : x \in UNION Genesis[c]} = {a}
  BY <1>1
<1>3. FirstOwner(x) = a
  BY <1>2 DEF FirstOwner
<1>4. Spenders(x) = {}
  BY DEF Init, Spenders
<1>5. OwnerOf(x) = a
  BY <1>3, <1>4, OwnerCases
<1>6. x \in Allocated
  BY DEF Allocated
<1>7. QED
  BY <1>5, <1>6 DEF Owned

LEMMA SharesInit == Init => Shares
<1> SUFFICES ASSUME Init PROVE Shares
  OBVIOUS
<1>1. Confirmed = {} /\ \A a : PaidTo(a) = {} /\ DueUnits(a) = {} /\ Purse(a) = Owned(a)
  BY DEF Init, Confirmed, PaidTo, DueUnits, Purse
<1>2. ASSUME NEW a \in Accounts
      PROVE  Queued(a) = {} /\ Sent(a) /\ jobs[a] = {}
  BY DEF Init, Queued, OwnQueue, ToSubmit, Sent
<1>3. ASSUME NEW a \in Accounts
      PROVE  \A X \in Rows(store[a], jobs[a]) :
                Holds(X, Held(store[a], jobs[a]), store[a].pending \cap Confirmed, Waiting(a), Purse(a))
  <2> DEFINE X == store[a].records
  <2>1. Rows(store[a], jobs[a]) = {X} /\ Held(store[a], jobs[a]) = {} /\ Waiting(a) = {}
    <3>1. jobs[a] = {} /\ store[a].pending = {}
      BY DEF Init, FirstStore
    <3>2. NewRows(jobs[a]) = {} /\ ToSubmit(jobs[a]) = {}
      BY <3>1 DEF NewRows, ToSubmit
    <3>3. QED
      BY <3>1, <3>2 DEF Rows, Held, Waiting
  <2>2. /\ \A r \in X : r.value \in Genesis[a]
        /\ \A r, q \in X : r.value = q.value => r = q
    <3>1. X = {[by |-> a, n |-> 0, value |-> v, status |-> "spendable", acquired |-> 0,
                chain |-> <<>>] : v \in Genesis[a]}
      BY DEF Init, FirstStore
    <3>2. QED
      BY <3>1
  <2>3. Apart(X)
    BY <2>2, PaymentsAssumption DEF Apart
  <2>4. \A r \in X : r.value \subseteq Purse(a)
    BY <1>1, <2>2, FirstOwners
  <2>5. UnitsOf(X) \subseteq Purse(a)
    BY <2>4 DEF UnitsOf
  <2> HIDE DEF X
  <2>6. Live(X, {}) \subseteq X
    BY DEF Live
  <2>7. UnitsOf(Live(X, {}) \ Paid(X, {})) \subseteq Purse(a)
    BY <2>5, <2>6 DEF UnitsOf
  <2>8. Apart(Live(X, {}))
    BY <2>3, <2>6 DEF Apart
  <2>9. Holds(X, {}, {}, {}, Purse(a))
    BY <2>7, <2>8 DEF Holds
  <2>10. store[a].pending \cap Confirmed = {}
    BY <1>1
  <2>11. QED
    BY <2>1, <2>9, <2>10
<1>4. HoldState
  BY <1>3 DEF HoldState
<1>5. DueState
  BY <1>1 DEF DueState
<1>6. QueueState /\ PackageState
  BY <1>2 DEF QueueState, PackageState
<1>7. QED
  BY <1>4, <1>5, <1>6 DEF Shares

LEMMA SharesNext ==
    ASSUME Threads = 1, ~MidCrash \/ MaxMisses = 0, Base, ReleaseState, Shares, [Next]_vars
    PROVE  Shares'
<1> USE DEF Base
<1>1. ASSUME NEW a \in Accounts, NEW to \in Accounts \ {a},
             NEW values \in Selections(store[a].records) \ {{}}, Build(a, to, values)
      PROVE  Shares'
  BY <1>1, SharesBuild
<1>2. ASSUME NEW a \in Accounts, NEW job \in jobs[a], Write(a, job) \/ Finish(a, job)
      PROVE  Shares'
  BY <1>2, SharesWrite, SharesFinish
<1>3. ASSUME NEW a \in Accounts, Answer(a) \/ Timeout(a)
      PROVE  Shares'
  <2>1. UNCHANGED <<store, submissions, pool, blocks, packagesTo>>
    BY <1>3 DEF Answer, Timeout, consensus, mail
  <2>2. \/ jobs' = jobs
        \/ /\ Free(a) /\ call[a].bundle \in store[a].pending
           /\ Starts(a, Only(RollbackWrites(store[a], call[a].bundle)))
    BY <1>3 DEF Answer, Timeout
  <2>3. \A c : OwnQueue(c)' = OwnQueue(c)
    BY <2>1 DEF OwnQueue
  <2>4. QED
    BY <2>1, <2>2, <2>3, SharesRollsBack, SharesStays
<1>4. ASSUME NEW a \in Accounts, NEW u \in receiptsTo[a], TakeReceipt(a, u)
      PROVE  Shares'
  BY <1>4, SharesConfirm
<1>5. ASSUME NEW a \in Accounts, NEW p \in packagesTo[a], TakePackage(a, p)
      PROVE  Shares'
  BY <1>5, SharesReceive
<1>6. ASSUME NEW a \in Accounts, NEW b \in store[a].pending, PullMissed(a, b)
      PROVE  Shares'
  BY <1>6, SharesMissing
<1>7. ASSUME NEW a \in Accounts, Crash(a)
      PROVE  Shares'
  BY <1>7, SharesCrash
<1>8. ASSUME UNCHANGED <<store, jobs, blocks, packagesTo>>,
             submissions' \cup pool' \subseteq submissions \cup pool
      PROVE  Shares'
  <2>1. \A c : OwnQueue(c)' \subseteq OwnQueue(c)
    BY <1>8 DEF OwnQueue
  <2>2. QED
    BY <1>8, <2>1, SharesStays
<1>9. ASSUME NEW b \in submissions, Arrive(b)
      PROVE  Shares'
  <2>1. UNCHANGED <<store, jobs, blocks, packagesTo>>
    BY <1>9 DEF Arrive, mail
  <2>2. submissions' \cup pool' \subseteq submissions \cup pool
    BY <1>9 DEF Arrive
  <2>3. QED
    BY <1>8, <2>1, <2>2
<1>10. ASSUME NEW a \in Accounts, \/ \E b \in store[a].pending : Pull(a, b)
                                  \/ Restart(a)
       PROVE  Shares'
  BY <1>8, <1>10 DEF Pull, Restart, consensus, mail
<1>11. ASSUME UNCHANGED vars
       PROVE  Shares'
  BY <1>8, <1>11 DEF vars, consensus, mail
<1>12. CASE Commit
  BY <1>12, SharesCommit
<1>13. QED
  BY <1>1, <1>2, <1>3, <1>4, <1>5, <1>6, <1>7, <1>9, <1>10, <1>11, <1>12 DEF Next

-----------------------------------------------------------------------------
(* What the payments promise together *)

\* The owners and the gifts that Ownership.tla speaks of.
Owners == [x \in Allocated |-> OwnerOf(x)]
Given == [h \in 1..Len(blocks) |-> GiftsOf(blocks[h])]

LEMMA OwnersInit == Init => O!Init
<1> SUFFICES ASSUME Init PROVE O!Init
  OBVIOUS
<1>1. ASSUME NEW x \in Allocated
      PROVE  OwnerOf(x) \in Accounts
  <2>1. PICK a \in Accounts : x \in UNION Genesis[a]
    BY DEF Allocated
  <2>2. x \in Owned(a)
    BY <2>1, FirstOwners
  <2>3. QED
    BY <2>2 DEF Owned
<1>2. Owners \in [Allocated -> Accounts]
  BY <1>1 DEF Owners
<1>3. Given = <<>>
  <2>1. Len(blocks) = 0
    BY DEF Init
  <2>2. Given = [h \in 1..0 |-> GiftsOf(blocks[h])]
    BY <2>1 DEF Given
  <2>3. QED
    BY <2>2
<1>4. QED
  BY <1>2, <1>3 DEF O!Init, Owners, Given

LEMMA Appended ==
    ASSUME NEW n \in Nat, NEW S, NEW f \in [1..n -> S], NEW g \in [1..(n + 1) -> S], NEW e \in S,
           \A h \in 1..n : g[h] = f[h], g[n + 1] = e
    PROVE  g = Append(f, e)
<1>1. \A m \in [1..n -> S] : m \in Seq(S) /\ Len(m) = n
  OBVIOUS
<1>2. f \in Seq(S) /\ Len(f) = n
  BY <1>1
<1>3. Append(f, e) \in Seq(S) /\ Len(Append(f, e)) = n + 1
  BY <1>2
<1>4. Append(f, e) \in [1..(n + 1) -> S]
  <2>1. \A m \in Seq(S) : m \in [1..Len(m) -> S]
    OBVIOUS
  <2>2. PICK m : m = Append(f, e)
    OBVIOUS
  <2>3. m \in [1..Len(m) -> S] /\ Len(m) = n + 1
    BY <1>3, <2>1, <2>2
  <2>4. QED
    BY <2>2, <2>3
<1>5. \A h \in 1..n : Append(f, e)[h] = f[h]
  BY <1>2
<1>6. Append(f, e)[n + 1] = e
  BY <1>2
<1>7. \A h \in 1..(n + 1) : h \in 1..n \/ h = n + 1
  OBVIOUS
<1>8. \A h \in 1..(n + 1) : Append(f, e)[h] = g[h]
  BY <1>5, <1>6, <1>7
<1>9. QED
  BY <1>4, <1>8

\* A block is a lawful exchange of gifts.
LEMMA CommitGives ==
    ASSUME Base, DueState, QueueState, Commit
    PROVE  O!Next
<1> DEFINE gs == GiftsOf(pool)
<1>1. TypeOK /\ pool \in SUBSET Bundles
  BY DEF Base, Typed, TypeOK
<1>2. \A b \in pool : /\ b.sender \in Accounts /\ b.to \in Accounts
                      /\ \A c \in pool : (UNION b.values) \cap (UNION c.values) # {} => c = b
                      /\ \A c \in pool : c.sender = b.sender => c = b
  BY PoolSpends DEF Base, ChainState, PoolOK
<1>3. /\ \A b \in pool : \A x \in UNION b.values :
               OwnerOf(x) = b.sender /\ x \in Allocated /\ OwnerOf(x)' = b.to
      /\ \A x : (\A b \in pool : x \notin UNION b.values) => OwnerOf(x)' = OwnerOf(x)
  BY CommitOwners
<1>4. \A g \in gs : \E b \in pool :
          /\ g = [from |-> b.sender, to |-> b.to, units |-> UNION b.values]
          /\ g.from = b.sender /\ g.to = b.to /\ g.units = UNION b.values
  <2>1. ASSUME NEW g \in gs
        PROVE  \E b \in pool :
                  /\ g = [from |-> b.sender, to |-> b.to, units |-> UNION b.values]
                  /\ g.from = b.sender /\ g.to = b.to /\ g.units = UNION b.values
    <3>1. PICK b \in pool : g = [from |-> b.sender, to |-> b.to, units |-> UNION b.values]
      BY DEF GiftsOf
    <3>2. g.from = b.sender /\ g.to = b.to /\ g.units = UNION b.values
      BY <3>1
    <3>3. QED
      BY <3>1, <3>2
  <2>2. QED
    BY <2>1
<1>5. \A b \in pool : \E g \in gs : g.from = b.sender /\ g.to = b.to /\ g.units = UNION b.values
  <2>1. \A b \in pool : [from |-> b.sender, to |-> b.to, units |-> UNION b.values] \in gs
    BY DEF GiftsOf
  <2>2. QED
    BY <2>1
<1>6. /\ Len(Given') = Len(Given) + 1 /\ Given'[Len(Given')] = gs
      /\ Given' = Append(Given, gs)
  <2>1. /\ Len(blocks') = Len(blocks) + 1 /\ Len(blocks) \in Nat
        /\ \A h \in 1..Len(blocks) : blocks'[h] = blocks[h]
        /\ blocks'[Len(blocks) + 1] = pool
    BY <1>1, CommitFacts
  <2>2. PICK n \in Nat : n = Len(blocks) /\ Len(blocks') = n + 1
    BY <2>1
  <2>3. Given = [h \in 1..n |-> GiftsOf(blocks[h])] /\ Given' = [h \in 1..(n + 1) |-> GiftsOf(blocks'[h])]
    BY <2>2 DEF Given, GiftsOf
  <2>4. Len(Given) = n /\ Len(Given') = n + 1 /\ Given \in Seq({GiftsOf(blocks[h]) : h \in 1..n})
    BY <2>3
  <2>5. Given'[n + 1] = gs
    BY <2>1, <2>2, <2>3
  <2>6. \A h \in 1..n : Given'[h] = Given[h]
    BY <2>1, <2>2, <2>3
  <2>7. PICK f, g, e : f = Given /\ g = Given' /\ e = gs
    OBVIOUS
  <2>8. PICK S : \A h \in 1..(n + 1) : GiftsOf(blocks'[h]) \in S
    <3>1. \A h \in 1..(n + 1) : GiftsOf(blocks'[h]) \in {GiftsOf(blocks'[i]) : i \in 1..(n + 1)}
      OBVIOUS
    <3>2. QED
      BY <3>1
  <2>9. g \in [1..(n + 1) -> S] /\ f \in [1..n -> S] /\ e \in S
    <3>1. g \in [1..(n + 1) -> S]
      BY <2>3, <2>7, <2>8
    <3>2. \A h \in 1..n : f[h] \in S
      BY <2>6, <2>7, <3>1
    <3>3. QED
      BY <2>3, <2>5, <2>7, <3>1, <3>2
  <2>10. \A h \in 1..n : g[h] = f[h]
    BY <2>6, <2>7
  <2>11. g[n + 1] = e
    BY <2>5, <2>7
  <2>12. g = Append(f, e)
    BY <2>8, <2>9, <2>10, <2>11, Appended
  <2>13. QED
    BY <2>4, <2>5, <2>7, <2>12
<1> HIDE DEF gs
<1>7. gs \subseteq O!Gifts
  <2>1. \A b \in pool : UNION b.values \subseteq Allocated
    BY <1>3
  <2>2. ASSUME NEW g \in gs
        PROVE  g \in O!Gifts
    <3>1. PICK b \in pool : g = [from |-> b.sender, to |-> b.to, units |-> UNION b.values]
      BY <1>4
    <3>2. b.sender \in Accounts /\ b.to \in Accounts /\ UNION b.values \in SUBSET Allocated
      BY <1>2, <2>1
    <3>3. QED
      BY <3>1, <3>2 DEF O!Gifts
  <2>3. QED
    BY <2>2
<1>8. \A g \in gs : \A u \in g.units : u \in Allocated /\ OwnerOf(u) = g.from
  BY <1>3, <1>4
<1>9. ASSUME NEW g \in gs, NEW h \in gs, g.from = h.from
      PROVE  g = h
  <2>1. PICK b \in pool : g.from = b.sender
                          /\ g = [from |-> b.sender, to |-> b.to, units |-> UNION b.values]
    BY <1>4
  <2>2. PICK c \in pool : h.from = c.sender
                          /\ h = [from |-> c.sender, to |-> c.to, units |-> UNION c.values]
    BY <1>4
  <2>3. b = c
    BY <1>2, <1>9, <2>1, <2>2
  <2>4. QED
    BY <2>1, <2>2, <2>3
<1>10. O!Allowed(gs)
  <2>1. \A g \in gs : \A u \in g.units : Owners[u] = g.from
    BY <1>8 DEF Owners
  <2>2. QED
    BY <1>7, <1>9, <2>1 DEF O!Allowed, Owners
<1>11. Owners' = [u \in Allocated |-> IF \E g \in gs : u \in g.units
                                      THEN (CHOOSE g \in gs : u \in g.units).to ELSE Owners[u]]
  <2>1. ASSUME NEW u \in Allocated
        PROVE  OwnerOf(u)' = IF \E g \in gs : u \in g.units
                             THEN (CHOOSE g \in gs : u \in g.units).to ELSE OwnerOf(u)
    <3>1. CASE \E g \in gs : u \in g.units
      <4>1. PICK g \in gs : u \in g.units /\ g = CHOOSE h \in gs : u \in h.units
        BY <3>1
      <4>2. PICK b \in pool : g.to = b.to /\ g.units = UNION b.values
        BY <1>4
      <4>3. OwnerOf(u)' = g.to
        BY <1>3, <4>1, <4>2
      <4>4. QED
        BY <3>1, <4>1, <4>3
    <3>2. CASE ~ \E g \in gs : u \in g.units
      <4>1. \A b \in pool : u \notin UNION b.values
        BY <1>5, <3>2
      <4>2. QED
        BY <1>3, <3>2, <4>1
    <3>3. QED
      BY <3>1, <3>2
  <2>2. Owners' = [u \in Allocated |-> OwnerOf(u)']
    BY DEF Owners, Allocated
  <2>3. \A u \in Allocated : Owners[u] = OwnerOf(u)
    BY DEF Owners
  <2>4. QED
    BY <2>1, <2>2, <2>3
<1>12. QED
  BY <1>6, <1>10, <1>11 DEF O!Next, O!Give, Owners, Given

\* Only a block changes what the chain says.
LEMMA OwnersKept ==
    ASSUME blocks' = blocks
    PROVE  Owners' = Owners /\ Given' = Given
<1>1. \A x : OwnerOf(x)' = OwnerOf(x)
  BY DEF OwnerOf
<1>2. QED
  BY <1>1 DEF Owners, Given, GiftsOf, Allocated

\* The payments of all hosts together are gifts by owners: no unit is ever
\* confirmed twice, although consensus checks no value.  A host may crash inside a
\* handler, lose mail, and roll back a bundle that consensus already has: such a
\* wallet believes in money it has given away, and what keeps it from giving it
\* again is that no bundle it builds then continues its chain.  A crash that cuts a
\* confirmation short must not meet a receipt that was marked missing.
THEOREM PaymentsAreGifts ==
    ASSUME Threads = 1, ~MidCrash \/ MaxMisses = 0
    PROVE  Spec => OwnershipSpec
<1> DEFINE Inv == Base /\ ReleaseState /\ Shares
<1>1. Init => Inv /\ O!Init
  BY BaseInit, ReleaseInit, SharesInit, OwnersInit
<1>2. Inv /\ [Next]_vars => Inv'
  BY BaseNext, ReleaseNext, SharesNext
<1>3. Inv /\ [Next]_vars => [O!Next]_<<Owners, Given>>
  <2> SUFFICES ASSUME Inv, [Next]_vars
               PROVE  O!Next \/ UNCHANGED <<Owners, Given>>
    OBVIOUS
  <2>1. CASE Commit
    BY <2>1, CommitGives DEF Shares
  <2>2. CASE ~Commit
    <3>1. blocks' = blocks
      BY <2>2, HostSteps DEF Arrive
    <3>2. QED
      BY <3>1, OwnersKept
  <2>3. QED
    BY <2>1, <2>2
<1>4. [O!Next]_<<Owners, Given>> => [O!Next]_<<[u \in Allocated |-> OwnerOf(u)],
                                              [h \in 1..Len(blocks) |-> GiftsOf(blocks[h])]>>
  BY DEF Owners, Given
<1> HIDE DEF Inv
<1>5. QED
  BY <1>1, <1>2, <1>3, <1>4, PTL DEF Spec, OwnershipSpec, O!Spec

-----------------------------------------------------------------------------
(***************************************************************************)
(* Theorems about what an account host of Payments.tla can still do with   *)
(* what it owns: the ranges it would spend, the bundle it would send next, *)
(* and the packages its recipients accept.                                 *)
(***************************************************************************)

-----------------------------------------------------------------------------
(* Answers in time *)

\* A handler that deletes a pending row has its receipt, or knows that consensus
\* does not have the bundle.
Forgets(job, s) ==
    Unpends(job) =>
        \A b \in s.pending : b \notin Known \/ \E u \in s.receipts \cup Writing(job) : u.bundle = b

\* A wallet that has let go of no bundle that consensus has.
Timely(a) ==
    /\ ~Lost(a) /\ OwnQueue(a) \subseteq store[a].pending
    /\ call[a] # NoCall => call[a].bundle.sender = a
    /\ call[a].state = "refused" => call[a].bundle \notin Known
    /\ \A job \in jobs[a] : Forgets(job, store[a])

TimelyState ==
    /\ submissions \cap (pool \cup Confirmed) = {}
    /\ \A a \in Accounts : Timely(a)

\* A step of the host a.
LEMMA TimelyStep ==
    ASSUME Typed, TimelyState, NEW a \in Accounts, blocks' = blocks,
           \A c \in Accounts \ {a} :
               /\ store'[c] = store[c] /\ jobs'[c] = jobs[c] /\ call'[c] = call[c]
               /\ OwnQueue(c)' \subseteq OwnQueue(c),
           submissions' \cap (pool' \cup Confirmed') = {},
           \A b \in Known' : b \in Known \/ b.sender = a,
           Timely(a)'
    PROVE  TimelyState'
<1>1. \A c : ReceiptsFor(c)' = ReceiptsFor(c)
  BY OwnedKept
<1>2. ASSUME NEW c \in Accounts, c # a
      PROVE  Timely(c)'
  <2>1. /\ store'[c] = store[c] /\ jobs'[c] = jobs[c] /\ call'[c] = call[c]
        /\ OwnQueue(c)' \subseteq OwnQueue(c)
    BY <1>2
  <2>2. Timely(c)
    BY DEF TimelyState
  <2>3. \A b \in store[c].pending : b.sender = c
    BY <1>2, Types DEF StoreFits, Fits
  <2>4. ~Lost(c)' /\ OwnQueue(c)' \subseteq store'[c].pending
    BY <1>1, <2>1, <2>2 DEF Timely, Lost
  <2>5. call[c].state = "refused" => call[c].bundle \notin Known'
    BY <1>2, <2>2 DEF Timely, NoCall
  <2>6. ASSUME NEW job \in jobs[c], Unpends(job), NEW b \in store[c].pending
        PROVE  b \notin Known' \/ \E u \in store[c].receipts \cup Writing(job) : u.bundle = b
    BY <1>2, <2>2, <2>3, <2>6 DEF Timely, Forgets
  <2>7. \A job \in jobs'[c] : Forgets(job, store[c])'
    BY <2>1, <2>6 DEF Forgets
  <2>8. QED
    BY <2>1, <2>2, <2>4, <2>5, <2>7 DEF Timely, Forgets
<1>3. QED
  BY <1>2 DEF TimelyState

\* A handler starts.
LEMMA TimelyBegins ==
    ASSUME Typed, TimelyState, NEW a \in Accounts, NEW job, Begins(a, job),
           UNCHANGED <<store, submissions, pool, blocks>>,
           \A c \in Accounts \ {a} : call'[c] = call[c], call'[a] \in {call[a], NoCall},
           Forgets(job, store[a])
    PROVE  TimelyState'
<1>1. Known' = Known /\ (\A c : OwnQueue(c)' = OwnQueue(c)) /\ Confirmed' = Confirmed
  BY DEF Known, OwnQueue, Confirmed
<1>2. ReceiptsFor(a)' = ReceiptsFor(a)
  BY OwnedKept
<1>3. Timely(a)
  BY DEF TimelyState
<1>4. jobs'[a] = {job} /\ \A c \in Accounts \ {a} : jobs'[c] = jobs[c]
  BY DEF Begins
<1>5. ~Lost(a)' /\ OwnQueue(a)' \subseteq store'[a].pending
  BY <1>1, <1>2, <1>3 DEF Timely, Lost
<1>6. /\ call'[a] # NoCall => call'[a].bundle.sender = a
      /\ call'[a].state = "refused" => call'[a].bundle \notin Known'
  BY <1>1, <1>3 DEF Timely, NoCall
<1>7. \A k \in jobs'[a] : Forgets(k, store[a])'
  BY <1>1, <1>4 DEF Forgets
<1>8. Timely(a)'
  BY <1>5, <1>6, <1>7 DEF Timely, Forgets
<1>9. submissions' \cap (pool' \cup Confirmed') = {}
  BY <1>1 DEF TimelyState
<1>10. QED
  BY <1>1, <1>4, <1>8, <1>9, TimelyStep

\* The wallets do not change, no handler starts and consensus hears of no bundle.
LEMMA TimelyStays ==
    ASSUME TimelyState, UNCHANGED <<store, blocks>>, \A c \in Accounts : jobs'[c] \subseteq jobs[c],
           submissions' \subseteq submissions, pool' \subseteq pool \cup (submissions \ submissions'),
           \A c \in Accounts :
               /\ call'[c] # NoCall => call[c] # NoCall /\ call'[c].bundle = call[c].bundle
               /\ call'[c].state = "refused" =>
                     call[c].state = "refused" \/ call'[c].bundle \notin Known'
    PROVE  TimelyState'
<1>1. Confirmed' = Confirmed /\ \A c : ReceiptsFor(c)' = ReceiptsFor(c)
  BY OwnedKept
<1>2. Known' \subseteq Known /\ \A c : OwnQueue(c)' \subseteq OwnQueue(c)
  BY <1>1 DEF Known, OwnQueue
<1>3. submissions' \cap (pool' \cup Confirmed') = {}
  BY <1>1 DEF TimelyState
<1>4. ASSUME NEW c \in Accounts
      PROVE  Timely(c)'
  <2>1. Timely(c)
    BY DEF TimelyState
  <2>2. ~Lost(c)' /\ OwnQueue(c)' \subseteq store'[c].pending
    BY <1>1, <1>2, <2>1 DEF Timely, Lost
  <2>3. /\ call'[c] # NoCall => call'[c].bundle.sender = c
        /\ call'[c].state = "refused" => call'[c].bundle \notin Known'
    BY <1>2, <2>1 DEF Timely, NoCall
  <2>4. \A job \in jobs'[c] : Forgets(job, store[c])'
    BY <1>2, <2>1 DEF Timely, Forgets
  <2>5. QED
    BY <2>2, <2>3, <2>4 DEF Timely, Forgets
<1>5. QED
  BY <1>3, <1>4 DEF TimelyState

LEMMA TimelyInit == Init => TimelyState
<1> SUFFICES ASSUME Init PROVE TimelyState
  OBVIOUS
<1>1. submissions = {} /\ pool = {} /\ \A c : ReceiptsFor(c) = {} /\ OwnQueue(c) = {}
  BY DEF Init, ReceiptsFor, OwnQueue
<1>2. ASSUME NEW a \in Accounts
      PROVE  Timely(a)
  <2>1. call[a] = NoCall /\ jobs[a] = {}
    BY DEF Init
  <2>2. call[a].state # "refused"
    BY <2>1 DEF NoCall
  <2>3. QED
    BY <1>1, <2>1, <2>2 DEF Timely, Lost
<1>3. QED
  BY <1>1, <1>2 DEF TimelyState

\* Storing a receipt is all that a handler does to the receipts.
LEMMA ReceiptStored ==
    ASSUME Base, NEW a \in Accounts, NEW job \in jobs[a], NEW t,
           Effect(store[a], job.writes[1], t), Stage(job, store[a]), Len(job.writes) # 0
    PROVE  t.receipts = store[a].receipts \cup Writing(job)
<1>1. PICK s : s = store[a]
  OBVIOUS
<1>2. Effect(s, job.writes[1], t) /\ Stage(job, s)
  BY <1>1
<1>3. Writing(job) \subseteq ReceiptsFor(a) \ s.receipts /\ s.receipts \subseteq ReceiptsFor(a)
  BY <1>1 DEF Base, AckState, AckOK
<1>4. \A u, w \in ReceiptsFor(a) : u.bundle.seq = w.bundle.seq => u = w
  BY DEF Base, ChainState, ChainOK
<1>5. CASE Len(job.writes) = 4
  <2>1. job.writes[1].table = "receipts"
    BY <1>2, <1>5, StageLength
  <2>2. PICK u : u = job.writes[1].row
    OBVIOUS
  <2>3. t.receipts = {x \in s.receipts : x.bundle.seq # u.bundle.seq} \cup {u}
    BY <1>2, <2>1, <2>2 DEF Effect
  <2>4. Writing(job) = {u}
    BY <1>5, <2>2 DEF Writing
  <2>5. \A x \in s.receipts : x.bundle.seq # u.bundle.seq
    BY <1>3, <1>4, <2>4
  <2>6. QED
    BY <1>1, <2>3, <2>4, <2>5
<1>6. CASE Len(job.writes) # 4
  <2>1. job.writes[1].table \in {"confirmed", "unpending", "pending", "records", "accepted"}
    BY <1>2, <1>6, StageLength
  <2>2. t.receipts = s.receipts
    BY <1>2, <2>1 DEF Effect
  <2>3. Writing(job) = {}
    BY <1>6 DEF Writing
  <2>4. QED
    BY <1>1, <2>2, <2>3
<1>7. QED
  BY <1>5, <1>6

LEMMA TimelyWrite ==
    ASSUME Base, TimelyState, NEW a \in Accounts, NEW job \in jobs[a], Write(a, job)
    PROVE  TimelyState'
<1>1. /\ UNCHANGED <<call, submissions, pool, blocks>>
      /\ \A c \in Accounts \ {a} : jobs'[c] = jobs[c] /\ store'[c] = store[c]
  BY WriteStep
<1>2. PICK rest, t :
         /\ jobs[a] = {job} /\ jobs'[a] = {rest} /\ store'[a] = t
         /\ Stage(job, store[a]) /\ Stage(rest, t)
         /\ Effect(store[a], job.writes[1], t)
         /\ rest.submit = job.submit /\ rest.deliver = job.deliver
         /\ Len(job.writes) # 0 /\ Len(rest.writes) = Len(job.writes) - 1
         /\ Len(job.writes) > 1 => rest.writes[1] = job.writes[2]
  BY WriteStep
<1>3. t.receipts = store[a].receipts \cup Writing(job)
  BY <1>2, ReceiptStored
<1>4. PICK s : s = store[a]
  OBVIOUS
<1>5. Stage(job, s) /\ Stage(rest, t) /\ Effect(s, job.writes[1], t)
  BY <1>2, <1>4
<1>6. /\ Unpends(rest) => Unpends(job) /\ t.pending = s.pending
      /\ Writing(rest) = {}
      /\ Unpends(job) /\ ~Unpends(rest) => Writing(job) = {}
      /\ ~Unpends(job) => t.pending = s.pending \/ s.pending = {}
  BY <1>2, <1>5, WriteFacts
<1>7. Timely(a)
  BY DEF TimelyState
<1>8. Known' = Known /\ (\A c : OwnQueue(c)' = OwnQueue(c)) /\ Confirmed' = Confirmed
  BY <1>1 DEF Known, OwnQueue, Confirmed
<1>9. ReceiptsFor(a)' = ReceiptsFor(a)
  BY <1>1, OwnedKept
<1>10. ASSUME NEW b \in s.pending, b \notin t.pending, b \in Known
       PROVE  \E u \in s.receipts : u.bundle = b
  <2>1. Unpends(job) /\ ~Unpends(rest)
    BY <1>6, <1>10
  <2>2. Forgets(job, s) /\ Writing(job) = {}
    BY <1>4, <1>6, <1>7, <2>1 DEF Timely
  <2>3. QED
    BY <1>10, <2>1, <2>2 DEF Forgets
<1>11. s.receipts \subseteq ReceiptsFor(a)
  BY <1>4 DEF Base, AckState, AckOK
<1>12. \A u, w \in ReceiptsFor(a) : u.bundle = w.bundle => u = w
  BY DEF Base, ChainState, ChainOK
<1>13. \A u \in ReceiptsFor(a) : u.bundle \in Confirmed /\ u.bundle \in Known
  <2>1. \A u \in ReceiptsFor(a) : u.bundle \in Confirmed
    BY DEF ReceiptsFor, Confirmed
  <2>2. QED
    BY <2>1 DEF Known
<1>14. ~Lost(a)'
  <2>1. SUFFICES ASSUME NEW u \in ReceiptsFor(a), u \notin t.receipts, u.bundle \notin t.pending
                 PROVE  FALSE
    BY <1>2, <1>9 DEF Lost
  <2>2. u \notin s.receipts
    BY <1>3, <1>4, <2>1
  <2>3. u.bundle \in s.pending
    BY <1>4, <1>7, <2>2 DEF Timely, Lost
  <2>4. PICK w \in s.receipts : w.bundle = u.bundle
    BY <1>10, <1>13, <2>1, <2>3
  <2>5. QED
    BY <1>11, <1>12, <2>2, <2>4
<1>15. OwnQueue(a)' \subseteq store'[a].pending
  <2>1. SUFFICES ASSUME NEW b \in OwnQueue(a), b \notin t.pending
                 PROVE  FALSE
    BY <1>2, <1>8
  <2>2. b \in s.pending /\ b \in submissions \cup pool /\ b \in Known
    BY <1>4, <1>7, <2>1 DEF Timely, OwnQueue, Known
  <2>3. PICK u \in s.receipts : u.bundle = b
    BY <1>10, <2>1, <2>2
  <2>4. b \in Confirmed /\ b.seq \in 1..ConfirmedSeq(a)
    BY <1>11, <1>13, <2>3 DEF Base, ChainState, ChainOK
  <2>5. b \in pool
    BY <2>2, <2>4 DEF TimelyState
  <2>6. b.sender = a /\ ConfirmedSeq(a) \in Nat
    BY <2>1, SeqIsNat DEF OwnQueue, Base, ChainState
  <2>7. b.seq = ConfirmedSeq(a) + 1
    BY <2>5, <2>6 DEF Base, ChainState, PoolOK
  <2>8. QED
    BY <2>4, <2>6, <2>7
<1>16. \A k \in jobs'[a] : Forgets(k, store[a])'
  <2>1. SUFFICES ASSUME Unpends(rest), NEW b \in t.pending
                 PROVE  b \notin Known \/ \E u \in t.receipts \cup Writing(rest) : u.bundle = b
    BY <1>2, <1>8 DEF Forgets
  <2>2. Forgets(job, s) /\ Unpends(job) /\ b \in s.pending
    BY <1>4, <1>6, <1>7, <2>1 DEF Timely
  <2>3. b \notin Known \/ \E u \in s.receipts \cup Writing(job) : u.bundle = b
    BY <2>2 DEF Forgets
  <2>4. QED
    BY <1>3, <1>4, <2>3
<1>17. Timely(a)'
  BY <1>1, <1>7, <1>8, <1>14, <1>15, <1>16 DEF Timely, Forgets
<1>18. submissions' \cap (pool' \cup Confirmed') = {}
  BY <1>1, <1>8 DEF TimelyState
<1>19. Typed
  BY DEF Base
<1>20. QED
  BY <1>1, <1>8, <1>17, <1>18, <1>19, TimelyStep

LEMMA TimelyFinish ==
    ASSUME Base, TimelyState, NEW a \in Accounts, NEW job \in jobs[a], Finish(a, job)
    PROVE  TimelyState'
<1>1. /\ job \in Jobs /\ Len(job.writes) = 0 /\ jobs[a] = {job} /\ jobs'[a] = {}
      /\ \A c \in Accounts \ {a} : jobs'[c] = jobs[c]
  BY FinishMoves DEF Base
<1>2. /\ UNCHANGED <<store, pool, blocks>> /\ submissions' = submissions \cup job.submit
      /\ \A c \in Accounts \ {a} : call'[c] = call[c]
  BY DEF Finish, consensus, Base, Typed, TypeOK
<1>3. \/ job.submit = {} /\ call'[a] = call[a]
      \/ \E b \in job.submit : call'[a] = [state |-> "sent", bundle |-> b]
  BY DEF Finish, Base, Typed, TypeOK
<1>4. \A b \in job.submit : b.sender = a
  BY Types DEF Base, JobFits, Fits
<1>5. job.submit \cap Known = {}
  BY DEF Base, SubmitOK
<1>6. Stage(job, store[a])
  BY DEF Base, LocalState, Sound, LocalOK
<1>7. job.submit \subseteq store[a].pending
  BY <1>1, <1>6 DEF Stage, Building, Releasing, Receiving
<1>8. Confirmed' = Confirmed /\ \A c : ReceiptsFor(c)' = ReceiptsFor(c)
  BY <1>2, OwnedKept
<1>9. Known' = Known \cup job.submit /\ OwnQueue(a)' = OwnQueue(a) \cup job.submit
  BY <1>2, <1>4, <1>8 DEF Known, OwnQueue
<1>10. \A c \in Accounts \ {a} : OwnQueue(c)' \subseteq OwnQueue(c)
  BY <1>2, <1>4 DEF OwnQueue
<1>11. Timely(a)
  BY DEF TimelyState
<1>12. ~Lost(a)' /\ OwnQueue(a)' \subseteq store'[a].pending
  BY <1>2, <1>7, <1>8, <1>9, <1>11 DEF Timely, Lost
<1>13. /\ call'[a] # NoCall => call'[a].bundle.sender = a
       /\ call'[a].state = "refused" => call'[a].bundle \notin Known'
  <2>1. CASE job.submit = {} /\ call'[a] = call[a]
    BY <1>9, <1>11, <2>1 DEF Timely
  <2>2. CASE \E b \in job.submit : call'[a] = [state |-> "sent", bundle |-> b]
    BY <1>4, <2>2
  <2>3. QED
    BY <1>3, <2>1, <2>2
<1>14. Timely(a)'
  BY <1>1, <1>12, <1>13 DEF Timely
<1>15. submissions' \cap (pool' \cup Confirmed') = {}
  BY <1>2, <1>5, <1>8 DEF TimelyState, Known
<1>16. \A b \in Known' : b \in Known \/ b.sender = a
  BY <1>4, <1>9
<1>17. Typed
  BY DEF Base
<1>18. QED
  BY <1>1, <1>2, <1>10, <1>14, <1>15, <1>16, <1>17, TimelyStep

LEMMA TimelyCommit ==
    ASSUME Base, TimelyState, Commit
    PROVE  TimelyState'
<1>1. /\ UNCHANGED <<store, jobs, call, submissions>> /\ pool' = {}
      /\ Confirmed' = Confirmed \cup pool
  BY CommitPays DEF Commit
<1>2. Known' = Known /\ \A c : OwnQueue(c)' \subseteq OwnQueue(c)
  BY <1>1 DEF Known, OwnQueue
<1>3. ASSUME NEW a \in Accounts
      PROVE  Timely(a)'
  <2>1. Timely(a)
    BY DEF TimelyState
  <2>2. \A u \in ReceiptsFor(a)' : u \in ReceiptsFor(a) \/ (u.bundle \in pool /\ u.bundle.sender = a)
    BY CommitFacts DEF Base, Typed, NewReceipts
  <2>3. ~Lost(a)'
    BY <1>1, <2>1, <2>2 DEF Timely, Lost, OwnQueue
  <2>4. OwnQueue(a)' \subseteq store'[a].pending
    BY <1>1, <1>2, <2>1 DEF Timely
  <2>5. \A job \in jobs'[a] : Forgets(job, store[a])'
    BY <1>1, <1>2, <2>1 DEF Timely, Forgets
  <2>6. QED
    BY <1>1, <1>2, <2>1, <2>3, <2>4, <2>5 DEF Timely, Forgets
<1>4. submissions' \cap (pool' \cup Confirmed') = {}
  BY <1>1 DEF TimelyState
<1>5. QED
  BY <1>3, <1>4 DEF TimelyState

LEMMA TimelyNext ==
    ASSUME Threads = 1, MaxTimeouts = 0, Base, TimelyState, [Next]_vars
    PROVE  TimelyState'
<1> USE DEF Base
<1>1. ASSUME NEW a \in Accounts, NEW to \in Accounts \ {a},
             NEW values \in Selections(store[a].records) \ {{}}, Build(a, to, values)
      PROVE  TimelyState'
  <2>1. PICK b, job : Builds(job, b, RecordsWithPending(store[a].records, b)) /\ Begins(a, job)
    BY <1>1, BuildStarts
  <2>2. UNCHANGED <<store, submissions, pool, blocks, call>>
    BY <1>1 DEF Build, consensus, mail
  <2>3. Forgets(job, store[a])
    BY <2>1 DEF Builds, Forgets, Unpends
  <2>4. QED
    BY <2>1, <2>2, <2>3, TimelyBegins
<1>2. ASSUME NEW a \in Accounts, NEW job \in jobs[a], Write(a, job) \/ Finish(a, job)
      PROVE  TimelyState'
  BY <1>2, TimelyWrite, TimelyFinish
<1>3. ASSUME NEW a \in Accounts, Answer(a) \/ Timeout(a)
      PROVE  TimelyState'
  <2>1. /\ UNCHANGED <<store, submissions, pool, blocks>>
        /\ \A c \in Accounts \ {a} : call'[c] = call[c]
        /\ call'[a] = NoCall
    BY <1>3 DEF Answer, Timeout, consensus, mail, Typed, TypeOK
  <2>2. ~Timeout(a)
    BY DEF Timeout, Typed, TypeOK
  <2>3. \/ jobs' = jobs
        \/ /\ Free(a) /\ call[a].bundle \in store[a].pending /\ call[a].state = "refused"
           /\ Starts(a, Only(RollbackWrites(store[a], call[a].bundle)))
    BY <1>3, <2>2 DEF Answer
  <2>4. CASE jobs' = jobs
    BY <2>1, <2>4, TimelyStays DEF NoCall
  <2>5. CASE /\ Free(a) /\ call[a].bundle \in store[a].pending /\ call[a].state = "refused"
             /\ Starts(a, Only(RollbackWrites(store[a], call[a].bundle)))
    <3>1. PICK b : b = call[a].bundle
      OBVIOUS
    <3>2. b \in store[a].pending /\ Free(a) /\ Starts(a, Only(RollbackWrites(store[a], b)))
      BY <2>5, <3>1
    <3>3. PICK job : RollsBack(job, b, RecordsRolledBack(store[a].records, b)) /\ Begins(a, job)
      BY <3>2, RollbackStarts
    <3>4. store[a].pending = {b}
      BY <3>2, OnePending
    <3>5. b \notin Known
      BY <2>5, <3>1 DEF TimelyState, Timely
    <3>6. Forgets(job, store[a])
      BY <3>4, <3>5 DEF Forgets
    <3>7. QED
      BY <2>1, <3>3, <3>6, TimelyBegins
  <2>6. QED
    BY <2>3, <2>4, <2>5
<1>4. ASSUME NEW a \in Accounts, NEW u \in receiptsTo[a], TakeReceipt(a, u)
      PROVE  TimelyState'
  <2>1. UNCHANGED <<store, submissions, pool, blocks, call>> /\ Free(a)
    BY <1>4 DEF TakeReceipt, consensus
  <2>2. CASE jobs' = jobs
    BY <2>1, <2>2, TimelyStays
  <2> DEFINE D == PackagesOf(RecordsConfirmed(store[a].records, u), u)
  <2>3. CASE /\ u.bundle \in store[a].pending
             /\ Starts(a, [writes |-> ConfirmWrites(store[a], u), submit |-> {}, deliver |-> D])
    <3>1. u \in ConfirmedUnits /\ Fits(u.bundle, a, attempts[a])
      BY Types
    <3>2. PICK job : Confirms(job, u, RecordsConfirmed(store[a].records, u), D) /\ Begins(a, job)
      BY <2>1, <2>3, <3>1, ConfirmStarts
    <3>3. store[a].pending = {u.bundle}
      BY <2>3, OnePending
    <3>4. Writing(job) = {u}
      BY <3>2 DEF Confirms, Writing
    <3>5. Forgets(job, store[a])
      BY <3>3, <3>4 DEF Forgets
    <3>6. QED
      BY <2>1, <3>2, <3>5, TimelyBegins
  <2>4. QED
    BY <1>4, <2>2, <2>3 DEF TakeReceipt, AcceptsReceipt
<1>5. ASSUME NEW a \in Accounts, NEW p \in packagesTo[a], TakePackage(a, p)
      PROVE  TimelyState'
  <2>1. UNCHANGED <<store, submissions, pool, blocks, call>> /\ Free(a)
    BY <1>5 DEF TakePackage, consensus
  <2>2. CASE jobs' = jobs
    BY <2>1, <2>2, TimelyStays
  <2>3. CASE Valid(p) /\ Starts(a, Only(ReceiveWrites(store[a], p)))
    <3>1. PICK job : Receives(job, p, store[a].records \cup {ReceivedRecord(p)}) /\ Begins(a, job)
      BY <2>1, <2>3, ReceiveStarts
    <3>2. Forgets(job, store[a])
      BY <3>1 DEF Receives, Forgets, Unpends
    <3>3. QED
      BY <2>1, <3>1, <3>2, TimelyBegins
  <2>4. QED
    BY <1>5, <2>2, <2>3 DEF TakePackage
<1>6. ASSUME NEW a \in Accounts, NEW b \in store[a].pending, PullMissed(a, b)
      PROVE  TimelyState'
  <2>1. /\ UNCHANGED <<store, submissions, pool, blocks, call>> /\ Free(a)
        /\ Starts(a, Only(MissingWrites(store[a], b)))
    BY <1>6 DEF PullMissed, consensus
  <2>2. PICK job : Marks(job, RecordsWithMissing(store[a].records, b)) /\ Begins(a, job)
    BY <2>1, MissingStarts
  <2>3. Forgets(job, store[a])
    BY <2>2 DEF Marks, Forgets, Unpends
  <2>4. QED
    BY <2>1, <2>2, <2>3, TimelyBegins
<1>7. ASSUME NEW a \in Accounts, Crash(a)
      PROVE  TimelyState'
  <2>1. /\ UNCHANGED <<store, submissions, pool, blocks>>
        /\ \A c \in Accounts : jobs'[c] \subseteq jobs[c]
        /\ \A c \in Accounts : call'[c] \in {call[c], NoCall}
    BY <1>7 DEF Crash, consensus, Typed, TypeOK
  <2>2. QED
    BY <2>1, TimelyStays DEF NoCall
<1>8. ASSUME NEW b \in submissions, Arrive(b)
      PROVE  TimelyState'
  <2>1. /\ UNCHANGED <<store, jobs, blocks>> /\ submissions' = submissions \ {b}
        /\ pool' = IF Takes(b) THEN pool \cup {b} ELSE pool
    BY <1>8 DEF Arrive
  <2>2. b \notin Confirmed /\ b \notin pool
    BY DEF TimelyState
  <2>3. Confirmed' = Confirmed
    BY <2>1, OwnedKept
  <2>4. ~Takes(b) => b \notin Known'
    BY <2>1, <2>2, <2>3 DEF Known
  <2>5. ASSUME NEW c \in Accounts
        PROVE  /\ call'[c] # NoCall => call[c] # NoCall /\ call'[c].bundle = call[c].bundle
               /\ call'[c].state = "refused" =>
                     call[c].state = "refused" \/ call'[c].bundle \notin Known'
    BY <1>8, <2>4 DEF Arrive, NoCall
  <2>6. QED
    BY <2>1, <2>5, TimelyStays
<1>9. ASSUME UNCHANGED <<store, jobs, call, submissions, pool, blocks>>
      PROVE  TimelyState'
  BY <1>9, TimelyStays
<1>10. ASSUME NEW a \in Accounts, \/ \E b \in store[a].pending : Pull(a, b)
                                  \/ Restart(a)
       PROVE  TimelyState'
  BY <1>9, <1>10 DEF Pull, Restart, consensus
<1>11. CASE UNCHANGED vars
  BY <1>9, <1>11 DEF vars, consensus
<1>12. CASE Commit
  BY <1>12, TimelyCommit
<1>13. QED
  BY <1>1, <1>2, <1>3, <1>4, <1>5, <1>6, <1>7, <1>8, <1>10, <1>11, <1>12 DEF Next

\* What a wallet offers to spend is its own by the chain: nobody's confirmed
\* bundle has given it away.  No submission may time out (a rolled-back bundle
\* that consensus has leaves spent money spendable, the run pay_timeout), and a
\* crash that cuts a confirmation short must not meet a receipt marked missing.
THEOREM SpendableStaysOwned ==
    ASSUME Threads = 1, MaxTimeouts = 0, ~MidCrash \/ MaxMisses = 0
    PROVE  Spec => []SpendableIsOwned
<1> DEFINE Inv == Base /\ ReleaseState /\ Shares /\ TimelyState
<1>1. Init => Inv
  BY BaseInit, ReleaseInit, SharesInit, TimelyInit
<1>2. Inv /\ [Next]_vars => Inv'
  BY BaseNext, ReleaseNext, SharesNext, TimelyNext
<1>3. Inv => SpendableIsOwned
  <2> SUFFICES ASSUME Inv, NEW a \in Accounts, NEW r \in Spendable(store[a].records)
               PROVE  \A x \in r.value : OwnerOf(x) = a
    BY DEF SpendableIsOwned
  <2>1. PICK X, H, P : X = store[a].records /\ H = Held(store[a], jobs[a])
                       /\ P = store[a].pending \cap Confirmed
    OBVIOUS
  <2>2. ~Lost(a) /\ X \in Rows(store[a], jobs[a])
    BY <2>1 DEF TimelyState, Timely, Rows
  <2>3. Holds(X, H, P, Waiting(a), Purse(a))
    BY <2>1, <2>2 DEF Shares, HoldState
  <2>4. r \in X /\ r.status = "spendable" /\ r \in Live(X, H)
    BY <2>1 DEF Spendable, Live
  <2>5. \A b \in P : Locked(X, b)
    BY <2>1, OnePending DEF Base
  <2>6. r \notin Paid(X, P)
    BY <2>4, <2>5 DEF Paid, Locked
  <2>7. r.value \subseteq Purse(a)
    BY <2>3, <2>4, <2>6 DEF Holds, UnitsOf
  <2>8. QED
    BY <2>7 DEF Purse, Owned
<1> HIDE DEF Inv
<1>4. QED
  BY <1>1, <1>2, <1>3, PTL DEF Spec

\* A wallet that has nothing pending numbers its next bundle so that consensus can
\* take it: it has the receipt of every bundle of its own on the chain.  After a
\* timeout it may not.
THEOREM NextBundleContinues ==
    ASSUME Threads = 1, MaxTimeouts = 0
    PROVE  Spec => []NextBundleExecutable
<1> DEFINE Inv == Base /\ TimelyState
<1>1. Init => Inv
  BY BaseInit, TimelyInit
<1>2. Inv /\ [Next]_vars => Inv'
  BY BaseNext, TimelyNext
<1>3. Inv => NextBundleExecutable
  <2> SUFFICES ASSUME Inv, NEW a \in Accounts, store[a].pending = {}
               PROVE  NextSequence(store[a]) = ConfirmedSeq(a) + 1
    BY DEF NextBundleExecutable
  <2>1. store[a].receipts = ReceiptsFor(a)
    <3>1. store[a].receipts \subseteq ReceiptsFor(a)
      BY DEF Base, AckState, AckOK
    <3>2. ~Lost(a)
      BY DEF TimelyState, Timely
    <3>3. QED
      BY <3>1, <3>2 DEF Lost
  <2>2. ChainOK(a)
    BY DEF Base, ChainState
  <2>3. ConfirmedSeq(a) \in Nat
    BY <2>2, SeqIsNat
  <2>4. ReceiptSeqs(store[a]) = 1..ConfirmedSeq(a)
    BY <2>1, <2>2 DEF ChainOK, ReceiptSeqs
  <2>5. store[a] \in Stores
    BY Types DEF Base
  <2>6. QED
    BY <2>3, <2>4, <2>5, NextSequenceFollows
<1> HIDE DEF Inv
<1>4. QED
  BY <1>1, <1>2, <1>3, PTL DEF Spec

-----------------------------------------------------------------------------
(* Witnesses *)

\* A later bundle of an account is in a later block.
HeightsRise ==
    \A a \in Accounts : \A v, w \in ReceiptsFor(a) :
        v.bundle.seq < w.bundle.seq => v.height < w.height

WitnessOK(s, J, C, height) ==
    \E n \in Nat : /\ FinalReceipts(s, J) = 1..n
                   /\ \A X \in FinalRows(s, J) : Witnessed(X, C, n, height)

\* A package that its receiver accepts.
Sendable(p) == Valid(p) /\ p.chain[1] \in ReceiptsFor(p.bundle.sender)

WitnessState ==
    /\ HeightsRise
    /\ \A a \in Accounts :
          /\ WitnessOK(store[a], jobs[a], ReceiptsFor(a), Len(blocks))
          /\ \A p \in packagesTo[a] : Sendable(p)
          /\ \A job \in jobs[a] : \A p \in job.deliver : Sendable(p)

-----------------------------------------------------------------------------
(* Step by step *)

\* Only the wallet of a changes, and the mail by what its handlers send.
LEMMA WitnessStep ==
    ASSUME WitnessState, NEW a \in Accounts, blocks' = blocks,
           \A c \in Accounts \ {a} : store'[c] = store[c] /\ jobs'[c] = jobs[c],
           WitnessOK(store'[a], jobs'[a], ReceiptsFor(a), Len(blocks)),
           \A c \in Accounts : \A p \in packagesTo'[c] :
               p \in packagesTo[c] \/ \E job \in jobs[a] : p \in job.deliver,
           \A job \in jobs'[a] : \A p \in job.deliver : Sendable(p)
    PROVE  WitnessState'
<1>1. \A c : ReceiptsFor(c)' = ReceiptsFor(c)
  BY DEF ReceiptsFor
<1>2. HeightsRise'
  BY <1>1 DEF WitnessState, HeightsRise
<1>3. \A p : Sendable(p)' <=> Sendable(p)
  BY <1>1 DEF Sendable
<1>4. ASSUME NEW c \in Accounts
      PROVE  WitnessOK(store'[c], jobs'[c], ReceiptsFor(c), Len(blocks))
  <2>1. CASE c = a
    BY <2>1
  <2>2. CASE c # a
    <3>1. WitnessOK(store[c], jobs[c], ReceiptsFor(c), Len(blocks))
      BY DEF WitnessState
    <3>2. store'[c] = store[c] /\ jobs'[c] = jobs[c]
      BY <2>2
    <3>3. QED
      BY <3>1, <3>2
  <2>3. QED
    BY <2>1, <2>2
<1>5. ASSUME NEW c \in Accounts
      PROVE  WitnessOK(store[c], jobs[c], ReceiptsFor(c), Len(blocks))'
  <2>1. WitnessOK(store'[c], jobs'[c], ReceiptsFor(c), Len(blocks))
    BY <1>4
  <2>2. ReceiptsFor(c)' = ReceiptsFor(c) /\ Len(blocks') = Len(blocks)
    BY <1>1
  <2>3. WitnessOK(store'[c], jobs'[c], ReceiptsFor(c)', Len(blocks'))
    BY <2>1, <2>2
  <2>4. QED
    BY <2>3 DEF WitnessOK, FinalReceipts, FinalRows, NewRows, Witnessed
<1>6. \A c \in Accounts : \A p \in packagesTo'[c] : Sendable(p)
  BY DEF WitnessState
<1>7. \A c \in Accounts : \A job \in jobs'[c] : \A p \in job.deliver : Sendable(p)
  BY DEF WitnessState
<1>8. QED
  BY <1>2, <1>3, <1>5, <1>6, <1>7 DEF WitnessState

LEMMA WitnessStays ==
    ASSUME WitnessState, UNCHANGED <<store, jobs, blocks>>,
           \A c \in Accounts : packagesTo'[c] \subseteq packagesTo[c]
    PROVE  WitnessState'
<1>1. \A c : ReceiptsFor(c)' = ReceiptsFor(c)
  BY DEF ReceiptsFor
<1>2. HeightsRise'
  BY <1>1 DEF WitnessState, HeightsRise
<1>3. \A p : Sendable(p)' <=> Sendable(p)
  BY <1>1 DEF Sendable
<1>4. ASSUME NEW c \in Accounts
      PROVE  WitnessOK(store[c], jobs[c], ReceiptsFor(c), Len(blocks))'
  <2>1. WitnessOK(store[c], jobs[c], ReceiptsFor(c), Len(blocks))
    BY DEF WitnessState
  <2>2. ReceiptsFor(c)' = ReceiptsFor(c) /\ Len(blocks') = Len(blocks)
    BY <1>1
  <2>3. WitnessOK(store[c], jobs[c], ReceiptsFor(c)', Len(blocks'))
    BY <2>1, <2>2
  <2>4. QED
    BY <2>3 DEF WitnessOK, FinalReceipts, FinalRows, NewRows, Witnessed
<1>5. QED
  BY <1>2, <1>3, <1>4 DEF WitnessState

\* A handler that starts.
LEMMA WitnessBegins ==
    ASSUME WitnessState, NEW a \in Accounts, NEW job, Begins(a, job), UNCHANGED <<store, blocks>>,
           \A c \in Accounts : packagesTo'[c] \subseteq packagesTo[c],
           NEW Y, RowsOf(job) = {Y},
           \A n \in Nat :
              ReceiptSeqs(store[a]) = 1..n /\ Witnessed(store[a].records, ReceiptsFor(a), n, Len(blocks))
              => \/ Len(job.writes) # 4 /\ Witnessed(Y, ReceiptsFor(a), n, Len(blocks))
                 \/ /\ Len(job.writes) = 4 /\ job.writes[1].row.bundle.seq = n + 1
                    /\ Witnessed(Y, ReceiptsFor(a), n + 1, Len(blocks)),
           \A p \in job.deliver : Sendable(p)
    PROVE  WitnessState'
<1>1. PICK s, C, h : s = store[a] /\ C = ReceiptsFor(a) /\ h = Len(blocks)
  OBVIOUS
<1>2. WitnessOK(s, {}, C, h)
  BY <1>1 DEF WitnessState, Begins
<1>3. FinalReceipts(s, {}) = ReceiptSeqs(s) /\ FinalRows(s, {}) = {s.records}
  BY NoHandler
<1>4. PICK n \in Nat : ReceiptSeqs(s) = 1..n /\ Witnessed(s.records, C, n, h)
  BY <1>2, <1>3 DEF WitnessOK
<1>5. /\ FinalRows(s, {job}) = (IF RowsOf(job) = {} THEN {s.records} ELSE RowsOf(job))
      /\ FinalReceipts(s, {job}) =
            ReceiptSeqs(s) \cup (IF Len(job.writes) = 4 THEN {job.writes[1].row.bundle.seq} ELSE {})
  BY OneHandler
<1>6. FinalRows(s, {job}) = {Y}
  BY <1>5
<1>7. \/ Len(job.writes) # 4 /\ Witnessed(Y, C, n, h)
      \/ /\ Len(job.writes) = 4 /\ job.writes[1].row.bundle.seq = n + 1
         /\ Witnessed(Y, C, n + 1, h)
  BY <1>1, <1>4
<1>8. CASE Len(job.writes) # 4 /\ Witnessed(Y, C, n, h)
  <2>1. FinalReceipts(s, {job}) = 1..n
    BY <1>4, <1>5, <1>8
  <2>2. WitnessOK(s, {job}, C, h)
    BY <1>6, <1>8, <2>1 DEF WitnessOK
  <2>3. QED
    BY <1>1, <2>2, WitnessStep DEF Begins
<1>9. CASE /\ Len(job.writes) = 4 /\ job.writes[1].row.bundle.seq = n + 1
           /\ Witnessed(Y, C, n + 1, h)
  <2>1. FinalReceipts(s, {job}) = 1..n \cup {n + 1}
    BY <1>4, <1>5, <1>9
  <2>2. 1..n \cup {n + 1} = 1..(n + 1) /\ n + 1 \in Nat
    OBVIOUS
  <2>3. FinalReceipts(s, {job}) = 1..(n + 1)
    BY <2>1, <2>2
  <2>4. WitnessOK(s, {job}, C, h)
    BY <1>6, <1>9, <2>2, <2>3 DEF WitnessOK
  <2>5. QED
    BY <1>1, <2>4, WitnessStep DEF Begins
<1>10. QED
  BY <1>7, <1>8, <1>9

LEMMA WitnessInit == Init => WitnessState
<1> SUFFICES ASSUME Init PROVE WitnessState
  OBVIOUS
<1>1. \A a : ReceiptsFor(a) = {}
  BY DEF Init, ReceiptsFor
<1>2. ASSUME NEW a \in Accounts
      PROVE  WitnessOK(store[a], jobs[a], ReceiptsFor(a), Len(blocks))
  <2>1. jobs[a] = {} /\ store[a] = FirstStore(a) /\ Len(blocks) = 0
    BY DEF Init
  <2>2. PICK s : s = store[a]
    OBVIOUS
  <2>3. FinalReceipts(s, {}) = ReceiptSeqs(s) /\ FinalRows(s, {}) = {s.records}
    BY NoHandler
  <2>4. s.receipts = {} /\ \A r \in s.records : r.chain = <<>> /\ r.acquired = 0
    BY <2>1, <2>2 DEF FirstStore
  <2>5. FinalReceipts(s, {}) = 1..0
    BY <2>3, <2>4 DEF ReceiptSeqs
  <2>6. Witnessed(s.records, {}, 0, 0)
    BY <2>4 DEF Witnessed, Linked, Aged
  <2>7. WitnessOK(s, {}, {}, 0)
    BY <2>3, <2>5, <2>6 DEF WitnessOK
  <2>8. QED
    BY <1>1, <2>1, <2>2, <2>7
<1>3. QED
  BY <1>1, <1>2 DEF Init, WitnessState, HeightsRise

LEMMA WitnessWrite ==
    ASSUME Base, WitnessState, NEW a \in Accounts, NEW job \in jobs[a], Write(a, job)
    PROVE  WitnessState'
<1>1. /\ UNCHANGED <<blocks, packagesTo>>
      /\ \A c \in Accounts \ {a} : jobs'[c] = jobs[c] /\ store'[c] = store[c]
  BY WriteStep
<1>2. PICK rest, t :
         /\ jobs[a] = {job} /\ jobs'[a] = {rest} /\ store'[a] = t
         /\ Progress(store[a], job, t, rest) /\ rest.deliver = job.deliver
  BY WriteStep
<1>3. PICK C, h : C = ReceiptsFor(a) /\ h = Len(blocks)
  OBVIOUS
<1>4. WitnessOK(store[a], {job}, C, h)
  BY <1>2, <1>3 DEF WitnessState
<1>5. WitnessOK(t, {rest}, C, h)
  BY <1>2, <1>4 DEF WitnessOK, Progress
<1>6. WitnessOK(store'[a], jobs'[a], ReceiptsFor(a), Len(blocks))
  BY <1>2, <1>3, <1>5
<1>7. \A p \in rest.deliver : Sendable(p)
  BY <1>2 DEF WitnessState
<1>8. \A k \in jobs'[a] : \A p \in k.deliver : Sendable(p)
  BY <1>2, <1>7
<1>9. QED
  BY <1>1, <1>6, <1>8, WitnessStep

LEMMA WitnessFinish ==
    ASSUME Base, WitnessState, NEW a \in Accounts, NEW job \in jobs[a], Finish(a, job)
    PROVE  WitnessState'
<1>1. /\ Len(job.writes) = 0 /\ jobs[a] = {job} /\ jobs'[a] = {}
      /\ \A c \in Accounts \ {a} : jobs'[c] = jobs[c]
  BY FinishMoves DEF Base
<1>2. UNCHANGED <<store, blocks>>
  BY DEF Finish, consensus
<1>3. \A c \in Accounts : \A p \in packagesTo'[c] : p \in packagesTo[c] \/ p \in job.deliver
  BY DEF Finish
<1>4. PICK s, C, h : s = store[a] /\ C = ReceiptsFor(a) /\ h = Len(blocks)
  OBVIOUS
<1>5. WitnessOK(s, {job}, C, h)
  BY <1>1, <1>4 DEF WitnessState
<1>6. RowsOf(job) = {}
  BY <1>1, RowsLeft
<1>7. /\ FinalRows(s, {job}) = (IF RowsOf(job) = {} THEN {s.records} ELSE RowsOf(job))
      /\ FinalReceipts(s, {job}) =
            ReceiptSeqs(s) \cup (IF Len(job.writes) = 4 THEN {job.writes[1].row.bundle.seq} ELSE {})
  BY OneHandler
<1>8. FinalRows(s, {}) = {s.records} /\ FinalReceipts(s, {}) = ReceiptSeqs(s)
  BY NoHandler
<1>9. FinalRows(s, {}) = FinalRows(s, {job}) /\ FinalReceipts(s, {}) = FinalReceipts(s, {job})
  <2>1. FinalRows(s, {job}) = {s.records}
    BY <1>6, <1>7
  <2>2. FinalReceipts(s, {job}) = ReceiptSeqs(s)
    BY <1>1, <1>7
  <2>3. QED
    BY <1>8, <2>1, <2>2
<1>10. WitnessOK(s, {}, C, h)
  BY <1>5, <1>9 DEF WitnessOK
<1>11. WitnessOK(store'[a], jobs'[a], ReceiptsFor(a), Len(blocks))
  BY <1>1, <1>2, <1>4, <1>10
<1>12. \A k \in jobs'[a] : \A p \in k.deliver : Sendable(p)
  BY <1>1
<1>13. QED
  BY <1>1, <1>2, <1>3, <1>11, <1>12, WitnessStep

LEMMA WitnessBuild ==
    ASSUME Threads = 1, Base, WitnessState, NEW a \in Accounts, NEW to \in Accounts \ {a},
           NEW values \in Selections(store[a].records), Build(a, to, values)
    PROVE  WitnessState'
<1>1. PICK b, job :
              /\ b \in Bundles /\ b.sender = a /\ b.n = attempts[a] + 1
              /\ b.values = values
              /\ \A v \in values : \E r \in Spendable(store[a].records) : v \subseteq r.value
              /\ Builds(job, b, RecordsWithPending(store[a].records, b))
              /\ Begins(a, job)
  BY BuildStarts DEF Base
<1> DEFINE Y == RecordsWithPending(store[a].records, b)
<1>2. RowsOf(job) = {Y} /\ job.deliver = {} /\ Len(job.writes) = 2
  BY <1>1, RowsLeft DEF Builds
<1>3. UNCHANGED <<store, blocks, packagesTo>>
  BY DEF Build, consensus, mail
<1>4. PICK X, C : X = store[a].records /\ C = ReceiptsFor(a)
  OBVIOUS
<1>5. X \in SUBSET Records /\ \A v \in b.values : \E r \in Spendable(X) : v \subseteq r.value
  BY <1>1, <1>4, Types DEF Base, Stores
<1>6. \A r \in X : ~IsPieceOf(r, b)
  BY <1>1, <1>4, Types DEF Base, StoreFits, Cut, IsPieceOf, Stores, Records
<1>7. \A u \in C : u.bundle.sender # b.sender \/ u.bundle.n # b.n
  <2>1. \A u \in C : u \in ConfirmedUnits /\ u.bundle.n <= attempts[a]
    BY <1>4, Receipt DEF Base, Fits
  <2>2. attempts[a] \in Nat
    BY Types DEF Base
  <2>3. QED
    BY <1>1, <2>1, <2>2 DEF ConfirmedUnits, Bundles
<1>8. Y = RecordsWithPending(X, b) /\ b \in Bundles
  BY <1>1, <1>4
<1> HIDE DEF Y
<1>9. \A n \in Nat : Witnessed(X, C, n, Len(blocks)) => Witnessed(Y, C, n, Len(blocks))
  BY <1>5, <1>6, <1>7, <1>8, WitnessedCut
<1>10. \A n \in Nat :
          ReceiptSeqs(store[a]) = 1..n /\ Witnessed(store[a].records, ReceiptsFor(a), n, Len(blocks))
          => Len(job.writes) # 4 /\ Witnessed(Y, ReceiptsFor(a), n, Len(blocks))
  BY <1>2, <1>4, <1>9
<1>11. Begins(a, job) /\ UNCHANGED <<store, blocks>>
       /\ \A c \in Accounts : packagesTo'[c] \subseteq packagesTo[c]
  BY <1>1, <1>3
<1>12. \A p \in job.deliver : Sendable(p)
  BY <1>2
<1>13. QED
  BY <1>2, <1>10, <1>11, <1>12, WitnessBegins

\* A rollback, or a mark that a receipt is missing.
LEMMA WitnessMarks ==
    ASSUME Base, WitnessState, NEW a \in Accounts, UNCHANGED <<store, blocks, packagesTo>>,
           NEW job, Begins(a, job), job.deliver = {}, Len(job.writes) # 4,
           NEW b \in store[a].pending, NEW Y, RowsOf(job) = {Y},
           \/ Y = RecordsRolledBack(store[a].records, b)
           \/ Y = RecordsWithMissing(store[a].records, b)
    PROVE  WitnessState'
<1>1. PICK X, C : X = store[a].records /\ C = ReceiptsFor(a)
  OBVIOUS
<1>2. X \in SUBSET Records /\ Locked(X, b)
  BY <1>1, Types, OnePending DEF Base, Stores
<1>3. ASSUME NEW q \in Y
      PROVE  \E r \in X : /\ SamePiece(q, r) /\ q.chain = r.chain
                          /\ r.status = "archived" => q.status = "archived"
  <2>1. CASE Y = RecordsRolledBack(X, b)
    <3>1. PICK r \in X : /\ SamePiece(q, r) /\ q.chain = r.chain
                         /\ q.status = IF IsPieceOf(r, b) THEN "spendable" ELSE r.status
      BY <1>2, <2>1, RolledBackRecords
    <3>2. IsPieceOf(r, b) => r.status # "archived"
      BY <1>2 DEF Locked
    <3>3. QED
      BY <3>1, <3>2
  <2>2. CASE Y = RecordsWithMissing(X, b)
    <3>1. PICK r \in X : /\ SamePiece(q, r) /\ q.chain = r.chain
                         /\ q.status = IF IsPieceOf(r, b) /\ r.status = "pending" THEN "missing" ELSE r.status
      BY <1>2, <2>2, MissingRecords
    <3>2. QED
      BY <3>1
  <2>3. QED
    BY <1>1, <2>1, <2>2
<1>4. \A n \in Nat : Witnessed(X, C, n, Len(blocks)) => Witnessed(Y, C, n, Len(blocks))
  BY <1>3, WitnessedMarked
<1>5. \A n \in Nat :
          ReceiptSeqs(store[a]) = 1..n /\ Witnessed(store[a].records, ReceiptsFor(a), n, Len(blocks))
          => Len(job.writes) # 4 /\ Witnessed(Y, ReceiptsFor(a), n, Len(blocks))
  BY <1>1, <1>4
<1>6. \A p \in job.deliver : Sendable(p)
  OBVIOUS
<1>7. \A c \in Accounts : packagesTo'[c] \subseteq packagesTo[c]
  OBVIOUS
<1>8. UNCHANGED <<store, blocks>> /\ RowsOf(job) = {Y} /\ Begins(a, job)
  OBVIOUS
<1>9. QED
  BY <1>5, <1>6, <1>7, <1>8, WitnessBegins

\* _on_receipt takes the receipt of the pending bundle.
LEMMA WitnessConfirm ==
    ASSUME Threads = 1, MidCrash = FALSE, Base, Shares, WitnessState,
           NEW a \in Accounts, NEW u \in receiptsTo[a], TakeReceipt(a, u)
    PROVE  WitnessState'
<1>1. UNCHANGED <<store, blocks, packagesTo>> /\ Free(a)
  BY DEF TakeReceipt, consensus
<1>2. CASE jobs' = jobs
  BY <1>1, <1>2, WitnessStays
<1> DEFINE Y == RecordsConfirmed(store[a].records, u)
           D == PackagesOf(Y, u)
<1>3. CASE /\ u.bundle \in store[a].pending
           /\ Starts(a, [writes |-> ConfirmWrites(store[a], u), submit |-> {}, deliver |-> D])
  <2>1. u \in ConfirmedUnits /\ Fits(u.bundle, a, attempts[a]) /\ store[a].records \in SUBSET Records
    BY Types DEF Base, Stores
  <2>2. PICK job : Confirms(job, u, Y, D) /\ Begins(a, job)
    BY <1>1, <1>3, <2>1, ConfirmStarts DEF Base
  <2>3. RowsOf(job) = {Y} /\ job.deliver = D /\ Len(job.writes) = 4 /\ job.writes[1].row = u
    BY <2>2, RowsLeft DEF Confirms
  <2>4. PICK X, b, C : X = store[a].records /\ b = u.bundle /\ C = ReceiptsFor(a)
    OBVIOUS
  <2>5. store[a].pending = {b} /\ Sound(store[a], {}) /\ jobs[a] = {}
    BY <1>3, <2>2, <2>4, OnePending DEF Base, LocalState, Begins
  <2>6. u \in C /\ u \notin store[a].receipts
    BY <2>4 DEF Base, AckState, AckOK
  <2>7. ~Lost(a)
    BY <1>3, <2>4, <2>6, Missed
  <2>8. Apart(Live(X, {b}))
    <3>1. Rows(store[a], jobs[a]) = {X} /\ Held(store[a], jobs[a]) = {b}
      BY <2>4, <2>5, NoHandler
    <3>2. Holds(X, Held(store[a], jobs[a]), store[a].pending \cap Confirmed, Waiting(a), Purse(a))
      BY <2>7, <3>1 DEF Shares, HoldState
    <3>3. QED
      BY <3>1, <3>2 DEF Holds
  <2>9. /\ Split(X, b) /\ Locked(X, b)
        /\ \A r \in X : r.status \in {"pending", "missing"} => IsPieceOf(r, b)
    <3>1. FinalRows(store[a], {}) = {X} /\ FinalPending(store[a], {}) = {b}
      BY <2>4, <2>5, NoHandler
    <3>2. Settled(store[a], {}) /\ LocalOK(store[a], {})
      BY <2>5 DEF Sound
    <3>3. QED
      BY <3>1, <3>2 DEF Settled, LocalOK
  <2>10. X \in SUBSET Records /\ C \in SUBSET ConfirmedUnits
    BY <2>1, <2>4, Receipt DEF Base
  <2>11. \A v, w \in C : v.bundle.seq < w.bundle.seq => v.height < w.height
    BY <2>4 DEF WitnessState, HeightsRise
  <2>12. Y = RecordsConfirmed(X, u) /\ D = PackagesOf(Y, u)
    BY <2>4
  <2> HIDE DEF Y, D
  <2>13. ASSUME NEW n \in Nat, ReceiptSeqs(store[a]) = 1..n, Witnessed(X, C, n, Len(blocks))
         PROVE  /\ u.bundle.seq = n + 1
                /\ Witnessed(Y, C, n + 1, Len(blocks))
                /\ \A p \in D : Valid(p) /\ p.chain[1] = u
    <3>1. PICK k \in Nat : ReceiptSeqs(store[a]) = 1..k /\ u.bundle.seq = k + 1
      BY <2>4, <2>6, Behind
    <3>2. k = n
      <4>1. \A i \in Nat : i \in 1..k <=> i \in 1..n
        BY <2>13, <3>1
      <4>2. QED
        BY <4>1
    <3>3. u.bundle.seq = n + 1
      BY <3>1, <3>2
    <3>4. b = u.bundle
      BY <2>4
    <3>5. Ripe(X, C, n, Len(blocks), u, b)
      BY <2>6, <2>8, <2>9, <2>10, <2>11, <2>13, <3>3, <3>4 DEF Ripe
    <3>6. QED
      BY <2>12, <3>3, <3>5, WitnessedConfirmed
  <2>14. \A n \in Nat :
            ReceiptSeqs(store[a]) = 1..n /\ Witnessed(store[a].records, ReceiptsFor(a), n, Len(blocks))
            => /\ Len(job.writes) = 4 /\ job.writes[1].row.bundle.seq = n + 1
               /\ Witnessed(Y, ReceiptsFor(a), n + 1, Len(blocks))
    BY <2>3, <2>4, <2>13
  <2>15. \A p \in job.deliver : Sendable(p)
    <3>1. WitnessOK(store[a], {}, C, Len(blocks))
      BY <2>4, <2>5 DEF WitnessState
    <3>2. FinalReceipts(store[a], {}) = ReceiptSeqs(store[a]) /\ FinalRows(store[a], {}) = {X}
      BY <2>4, NoHandler
    <3>3. PICK n \in Nat : ReceiptSeqs(store[a]) = 1..n /\ Witnessed(X, C, n, Len(blocks))
      BY <3>1, <3>2 DEF WitnessOK
    <3>4. \A p \in D : Valid(p) /\ p.chain[1] = u
      BY <2>13, <3>3
    <3>5. \A p \in D : p.bundle.sender = a
      BY <2>1, <2>12 DEF PackagesOf, Fits
    <3>6. QED
      BY <2>3, <2>4, <2>6, <3>4, <3>5 DEF Sendable
  <2>16. /\ RowsOf(job) = {Y} /\ Begins(a, job) /\ UNCHANGED <<store, blocks>>
         /\ \A c \in Accounts : packagesTo'[c] \subseteq packagesTo[c]
    BY <1>1, <2>2, <2>3
  <2>17. QED
    BY <2>14, <2>15, <2>16, WitnessBegins
<1>4. QED
  BY <1>2, <1>3 DEF TakeReceipt, AcceptsReceipt

LEMMA WitnessReceive ==
    ASSUME Threads = 1, Base, WitnessState, NEW a \in Accounts, NEW p \in packagesTo[a],
           TakePackage(a, p)
    PROVE  WitnessState'
<1> DEFINE Y == store[a].records \cup {ReceivedRecord(p)}
<1>1. /\ UNCHANGED <<store, blocks>> /\ Free(a)
      /\ \A c \in Accounts : packagesTo'[c] \subseteq packagesTo[c]
  BY DEF TakePackage, consensus, Base, Typed, TypeOK
<1>2. CASE jobs' = jobs
  BY <1>1, <1>2, WitnessStays
<1>3. CASE Valid(p) /\ Starts(a, Only(ReceiveWrites(store[a], p)))
  <2>1. PICK job : Receives(job, p, Y) /\ Begins(a, job)
    BY <1>1, <1>3, ReceiveStarts DEF Base
  <2>2. RowsOf(job) = {Y} /\ job.deliver = {} /\ Len(job.writes) = 2
    BY <2>1, RowsLeft DEF Receives
  <2>3. PICK X, C, q : X = store[a].records /\ C = ReceiptsFor(a) /\ q = ReceivedRecord(p)
    OBVIOUS
  <2>4. p \in Packages /\ p.bundle.sender # a
    BY Types DEF Base
  <2>5. q.chain = <<>> /\ q.by = p.bundle.sender /\ q.acquired = Head(p.chain).height
    BY <2>3 DEF ReceivedRecord
  <2>6. p.chain[1] \in ReceiptsFor(p.bundle.sender) /\ Head(p.chain) = p.chain[1]
    BY <2>4 DEF WitnessState, Sendable, Valid, Packages
  <2>7. q.acquired <= Len(blocks)
    <3>1. Head(p.chain).height \in 1..Len(blocks)
      BY <2>6 DEF ReceiptsFor
    <3>2. QED
      BY <2>5, <3>1
  <2>8. \A u \in C : u.bundle.sender # q.by
    BY <2>3, <2>4, <2>5 DEF ReceiptsFor
  <2>9. Y = X \cup {q}
    BY <2>3
  <2> HIDE DEF Y
  <2>10. \A n \in Nat : Witnessed(X, C, n, Len(blocks)) => Witnessed(Y, C, n, Len(blocks))
    BY <2>5, <2>7, <2>8, <2>9, WitnessedReceived
  <2>11. \A n \in Nat :
            ReceiptSeqs(store[a]) = 1..n /\ Witnessed(store[a].records, ReceiptsFor(a), n, Len(blocks))
            => Len(job.writes) # 4 /\ Witnessed(Y, ReceiptsFor(a), n, Len(blocks))
    BY <2>2, <2>3, <2>10
  <2>12. \A x \in job.deliver : Sendable(x)
    BY <2>2
  <2>13. RowsOf(job) = {Y} /\ Begins(a, job) /\ UNCHANGED <<store, blocks>>
    BY <1>1, <2>1, <2>2
  <2>14. QED
    BY <1>1, <2>11, <2>12, <2>13, WitnessBegins
<1>4. QED
  BY <1>2, <1>3 DEF TakePackage

LEMMA FinalRowsType ==
    ASSUME Typed, NEW a \in Accounts, NEW X \in FinalRows(store[a], jobs[a])
    PROVE  X \in SUBSET Records
<1>1. store[a] \in Stores /\ jobs[a] \in SUBSET Jobs
  BY Types
<1>2. CASE X = store[a].records
  BY <1>1, <1>2 DEF Stores
<1>3. CASE X \in NewRows(jobs[a])
  <2>1. PICK job \in jobs[a] : \E i \in 1..Len(job.writes) :
           job.writes[i].table = "records" /\ X = job.writes[i].rows
    BY <1>3 DEF NewRows, RowsOf
  <2>2. job.writes \in Seq(Transactions)
    BY <1>1 DEF Jobs
  <2>3. \A i \in 1..Len(job.writes) : job.writes[i] \in Transactions
    BY <2>2
  <2>4. QED
    BY <2>1, <2>3 DEF Transactions
<1>4. QED
  BY <1>2, <1>3 DEF FinalRows

\* A block: the new receipt comes after every other one of its account, and after
\* whatever the account has got so far.
LEMMA WitnessCommit ==
    ASSUME Base, WitnessState, Commit
    PROVE  WitnessState'
<1>1. UNCHANGED <<store, jobs, packagesTo>>
  BY DEF Commit
<1>2. Len(blocks') = Len(blocks) + 1 /\ Len(blocks) \in Nat
  BY CommitFacts DEF Base, Typed
<1>3. ASSUME NEW a \in Accounts
      PROVE  /\ ReceiptsFor(a) \subseteq ReceiptsFor(a)'
             /\ \A u \in ReceiptsFor(a)' : u \in ReceiptsFor(a) \/ u.height = Len(blocks) + 1
             /\ \A v, w \in ReceiptsFor(a)' : v.bundle.seq < w.bundle.seq => v.height < w.height
  <2>1. \/ ReceiptsFor(a)' = ReceiptsFor(a)
        \/ \E b \in pool : /\ b.seq = ConfirmedSeq(a) + 1
                           /\ ReceiptsFor(a)' = ReceiptsFor(a) \cup {[bundle |-> b, height |-> Len(blocks) + 1]}
    BY CommitOne DEF Base
  <2>2. \A v, w \in ReceiptsFor(a) : v.bundle.seq < w.bundle.seq => v.height < w.height
    BY DEF WitnessState, HeightsRise
  <2>3. CASE ReceiptsFor(a)' = ReceiptsFor(a)
    BY <2>2, <2>3
  <2>4. CASE \E b \in pool : /\ b.seq = ConfirmedSeq(a) + 1
                             /\ ReceiptsFor(a)' = ReceiptsFor(a) \cup {[bundle |-> b, height |-> Len(blocks) + 1]}
    <3>1. PICK b \in pool : /\ b.seq = ConfirmedSeq(a) + 1
                            /\ ReceiptsFor(a)' = ReceiptsFor(a) \cup {[bundle |-> b, height |-> Len(blocks) + 1]}
      BY <2>4
    <3>2. PICK u : u = [bundle |-> b, height |-> Len(blocks) + 1]
      OBVIOUS
    <3>3. ReceiptsFor(a)' = ReceiptsFor(a) \cup {u} /\ u.height = Len(blocks) + 1
          /\ u.bundle.seq = ConfirmedSeq(a) + 1
      BY <3>1, <3>2
    <3>4. ConfirmedSeq(a) \in Nat
      BY SeqIsNat DEF Base, ChainState
    <3>5. \A v \in ReceiptsFor(a) : v.bundle.seq \in 1..ConfirmedSeq(a)
      BY DEF Base, ChainState, ChainOK
    <3>6. \A v \in ReceiptsFor(a) : v.height \in 1..Len(blocks)
      BY DEF ReceiptsFor
    <3>7. ASSUME NEW v \in ReceiptsFor(a)', NEW w \in ReceiptsFor(a)', v.bundle.seq < w.bundle.seq
          PROVE  v.height < w.height
      <4>1. CASE v = u
        <5>1. w.bundle.seq <= u.bundle.seq
          BY <3>3, <3>4, <3>5
        <5>2. w.bundle.seq \in Nat
          BY <3>3, <3>4, <3>5
        <5>3. QED
          BY <3>3, <3>4, <3>7, <4>1, <5>1, <5>2
      <4>2. CASE v # u /\ w = u
        <5>1. v.height \in 1..Len(blocks)
          BY <3>3, <3>6, <4>2
        <5>2. QED
          BY <1>2, <3>3, <4>2, <5>1
      <4>3. CASE v # u /\ w # u
        BY <2>2, <3>3, <3>7, <4>3
      <4>4. QED
        BY <4>1, <4>2, <4>3
    <3>8. QED
      BY <3>3, <3>7
  <2>5. QED
    BY <2>1, <2>3, <2>4
<1>4. HeightsRise'
  BY <1>3 DEF HeightsRise
<1>5. \A p : p \in Packages /\ Sendable(p) => Sendable(p)'
  <2>1. ASSUME NEW p \in Packages, Sendable(p)
        PROVE  Sendable(p)'
    <3>1. p.bundle.sender \in Accounts
      BY DEF Packages, Bundles
    <3>2. QED
      BY <1>3, <2>1, <3>1 DEF Sendable
  <2>2. QED
    BY <2>1
<1>6. ASSUME NEW a \in Accounts
      PROVE  WitnessOK(store[a], jobs[a], ReceiptsFor(a), Len(blocks))'
  <2>1. PICK s, J, C, h : s = store[a] /\ J = jobs[a] /\ C = ReceiptsFor(a) /\ h = Len(blocks)
    OBVIOUS
  <2>2. PICK D, g : D = ReceiptsFor(a)' /\ g = Len(blocks')
    OBVIOUS
  <2>3. PICK n \in Nat : /\ FinalReceipts(s, J) = 1..n
                         /\ \A X \in FinalRows(s, J) : Witnessed(X, C, n, h)
    BY <2>1 DEF WitnessState, WitnessOK
  <2>4. /\ C \subseteq D /\ h \in Nat /\ g \in Nat /\ g >= h
        /\ \A u \in D : u \in C \/ (u.height > h /\ u.height \in Nat)
    BY <1>2, <1>3, <2>1, <2>2
  <2>5. ASSUME NEW X \in FinalRows(s, J)
        PROVE  Witnessed(X, D, n, g)
    <3>1. X \in SUBSET Records
      BY <2>1, <2>5, FinalRowsType DEF Base
    <3>2. \A r \in X : r.acquired \in Nat
      BY <3>1 DEF Records
    <3>3. Witnessed(X, C, n, h)
      BY <2>3
    <3>4. QED
      BY <2>4, <3>2, <3>3, WitnessedMore
  <2>6. WitnessOK(s, J, D, g)
    BY <2>3, <2>5 DEF WitnessOK
  <2>7. WitnessOK(store'[a], jobs'[a], ReceiptsFor(a)', Len(blocks'))
    BY <1>1, <2>1, <2>2, <2>6
  <2>8. QED
    BY <2>7 DEF WitnessOK, FinalReceipts, FinalRows, NewRows, Witnessed
<1>7. \A a \in Accounts : /\ \A p \in packagesTo[a] : p \in Packages
                          /\ \A job \in jobs[a] : \A p \in job.deliver : p \in Packages
  BY Types DEF Base, Jobs
<1>8. ASSUME NEW a \in Accounts
      PROVE  /\ \A p \in packagesTo'[a] : Sendable(p)'
             /\ \A job \in jobs'[a] : \A p \in job.deliver : Sendable(p)'
  BY <1>1, <1>5, <1>7 DEF WitnessState
<1>9. QED
  BY <1>4, <1>6, <1>8 DEF WitnessState

LEMMA WitnessNext ==
    ASSUME Threads = 1, MidCrash = FALSE, Base, Shares, WitnessState, [Next]_vars
    PROVE  WitnessState'
<1>1. ASSUME NEW a \in Accounts, NEW to \in Accounts \ {a},
             NEW values \in Selections(store[a].records) \ {{}}, Build(a, to, values)
      PROVE  WitnessState'
  BY <1>1, WitnessBuild
<1>2. ASSUME NEW a \in Accounts, NEW job \in jobs[a], Write(a, job) \/ Finish(a, job)
      PROVE  WitnessState'
  BY <1>2, WitnessWrite, WitnessFinish
<1>3. ASSUME NEW a \in Accounts, Answer(a) \/ Timeout(a)
      PROVE  WitnessState'
  <2>1. UNCHANGED <<store, blocks, packagesTo>>
    BY <1>3 DEF Answer, Timeout, consensus, mail
  <2>2. \/ jobs' = jobs
        \/ /\ Free(a) /\ call[a].bundle \in store[a].pending
           /\ Starts(a, Only(RollbackWrites(store[a], call[a].bundle)))
    BY <1>3 DEF Answer, Timeout
  <2>3. CASE jobs' = jobs
    BY <2>1, <2>3, WitnessStays
  <2>4. CASE /\ Free(a) /\ call[a].bundle \in store[a].pending
             /\ Starts(a, Only(RollbackWrites(store[a], call[a].bundle)))
    <3>1. PICK b : b = call[a].bundle
      OBVIOUS
    <3>2. b \in store[a].pending /\ Free(a) /\ Starts(a, Only(RollbackWrites(store[a], b)))
      BY <2>4, <3>1
    <3>3. PICK job : RollsBack(job, b, RecordsRolledBack(store[a].records, b)) /\ Begins(a, job)
      BY <3>2, RollbackStarts DEF Base
    <3>4. RowsOf(job) = {RecordsRolledBack(store[a].records, b)} /\ job.deliver = {} /\ Len(job.writes) # 4
      BY <3>3, RowsLeft DEF RollsBack
    <3>5. QED
      BY <2>1, <3>2, <3>3, <3>4, WitnessMarks
  <2>5. QED
    BY <2>2, <2>3, <2>4
<1>4. ASSUME NEW a \in Accounts, NEW u \in receiptsTo[a], TakeReceipt(a, u)
      PROVE  WitnessState'
  BY <1>4, WitnessConfirm
<1>5. ASSUME NEW a \in Accounts, NEW p \in packagesTo[a], TakePackage(a, p)
      PROVE  WitnessState'
  BY <1>5, WitnessReceive
<1>6. ASSUME NEW a \in Accounts, NEW b \in store[a].pending, PullMissed(a, b)
      PROVE  WitnessState'
  <2>1. /\ UNCHANGED <<store, blocks, packagesTo>> /\ Free(a)
        /\ Starts(a, Only(MissingWrites(store[a], b)))
    BY <1>6 DEF PullMissed, consensus, mail
  <2>2. PICK job : Marks(job, RecordsWithMissing(store[a].records, b)) /\ Begins(a, job)
    BY <2>1, MissingStarts DEF Base
  <2>3. RowsOf(job) = {RecordsWithMissing(store[a].records, b)} /\ job.deliver = {} /\ Len(job.writes) # 4
    BY <2>2, RowsLeft DEF Marks
  <2>4. QED
    BY <2>1, <2>2, <2>3, WitnessMarks
<1>7. ASSUME NEW a \in Accounts, Crash(a)
      PROVE  WitnessState'
  <2>1. /\ UNCHANGED <<store, jobs, blocks>>
        /\ \A c \in Accounts : packagesTo'[c] \subseteq packagesTo[c]
    BY <1>7 DEF Crash, consensus, Base, Typed, TypeOK
  <2>2. QED
    BY <2>1, WitnessStays
<1>8. ASSUME UNCHANGED <<store, jobs, blocks, packagesTo>>
      PROVE  WitnessState'
  BY <1>8, WitnessStays
<1>9. ASSUME NEW a \in Accounts, \/ \E b \in store[a].pending : Pull(a, b)
                                 \/ Restart(a)
      PROVE  WitnessState'
  BY <1>8, <1>9 DEF Pull, Restart, consensus, mail
<1>10. ASSUME NEW b \in submissions, Arrive(b)
       PROVE  WitnessState'
  BY <1>8, <1>10 DEF Arrive, mail
<1>11. CASE UNCHANGED vars
  BY <1>8, <1>11 DEF vars, consensus, mail
<1>12. CASE Commit
  BY <1>12, WitnessCommit
<1>13. QED
  BY <1>1, <1>2, <1>3, <1>4, <1>5, <1>6, <1>7, <1>9, <1>10, <1>11, <1>12 DEF Next

\* Every package on its way is one that its receiver accepts: the sender's segment
\* ends with the payment, is linked, spends the value only there and starts after
\* the value was acquired.  Timeouts, receipts marked missing and lost mail are
\* allowed; no crash may cut a handler short.
THEOREM PackagesAreAccepted ==
    ASSUME Threads = 1, MidCrash = FALSE
    PROVE  Spec => []PackagesValid
<1> DEFINE Inv == Base /\ ReleaseState /\ Shares /\ WitnessState
<1>1. Init => Inv
  BY BaseInit, ReleaseInit, SharesInit, WitnessInit
<1>2. Inv /\ [Next]_vars => Inv'
  BY BaseNext, ReleaseNext, SharesNext, WitnessNext
<1>3. Inv => PackagesValid
  BY DEF PackagesValid, WitnessState, Sendable
<1> HIDE DEF Inv
<1>4. QED
  BY <1>1, <1>2, <1>3, PTL DEF Spec

===============================================================================
