-------------------------- MODULE ConsensusNetProofs --------------------------
(***************************************************************************)
(* The consensus layer for every set of validators, every choice of        *)
(* drivers, peers and crashes, and every bound: lemmas about one core, type *)
(* correctness of ConsensusNet, then the safety of its votes, which is also *)
(* a refinement of QuorumVoting, then that nothing goes ahead of its       *)
(* evidence.  Last comes the abstract vote layer by itself.                *)
(***************************************************************************)
EXTENDS ConsensusNet, FiniteSetTheorems, SequenceTheorems, TLAPS

(***************************************************************************)
(* What makes floor(2n/3) + 1 a quorum: any two have a member in common,   *)
(* and more signers never undo one.                                        *)
(***************************************************************************)

\* A quorum is more than half of the validators (ValidatorSet.from_validators).
LEMMA QuorumSizeIsMajority == N \in Nat /\ QuorumSize \in Nat /\ 2 * QuorumSize > N
<1>1. N \in Nat
  BY ValidatorsAssumption, FS_CardinalityType DEF N
<1>2. 3 * ((2 * N) \div 3) + 3 > 2 * N /\ (2 * N) \div 3 \in Nat
  BY <1>1
<1>3. QED
  BY <1>1, <1>2 DEF QuorumSize

\* Two quorums share a validator (ValidatorSet.has_quorum).
LEMMA QuorumsOverlap ==
    ASSUME NEW S, NEW T, HasQuorum(S), HasQuorum(T)
    PROVE  \E v \in Validators : v \in S /\ v \in T
<1> DEFINE A == S \cap Validators
           B == T \cap Validators
<1>1. IsFiniteSet(A) /\ IsFiniteSet(B)
  BY ValidatorsAssumption, FS_Intersection
<1>2. Cardinality(A) \in Nat /\ Cardinality(B) \in Nat
  BY <1>1, FS_CardinalityType
<1>3. Cardinality(A) + Cardinality(B) > Cardinality(Validators)
  BY <1>2, QuorumSizeIsMajority DEF HasQuorum, N
<1>4. A \cap B # {}
  BY <1>3, ValidatorsAssumption, FS_MajoritiesIntersect
<1>5. QED
  BY <1>4

\* A quorum stays one when signers join it (ValidatorSet.has_quorum).
LEMMA QuorumsGrow ==
    ASSUME NEW S, NEW T, S \subseteq T, HasQuorum(S)
    PROVE  HasQuorum(T)
<1> DEFINE A == S \cap Validators
           B == T \cap Validators
<1>1. IsFiniteSet(B) /\ A \in SUBSET B
  BY ValidatorsAssumption, FS_Intersection
<1>2. Cardinality(A) <= Cardinality(B) /\ Cardinality(B) \in Nat /\ Cardinality(A) \in Nat
  BY <1>1, FS_Subset, FS_CardinalityType
<1>3. QED
  BY <1>2, QuorumSizeIsMajority DEF HasQuorum

(***************************************************************************)
(* Lemmas about the operations of one consensus core.  Each returns a      *)
(* well-typed core or database, and each keeps the contract of the vote    *)
(* log: what a validator has voted for is on disk for as long as it may    *)
(* be asked for another vote there, or its host will not start again.      *)
(***************************************************************************)

\* The restored core of a fresh database is the first state (empty store).
LEMMA FirstPaceTyped == FirstPace \in Pace
  BY DEF FirstPace, Pace

\* A new database is well typed (SQLiteConsensusStore on an empty file).
LEMMA EmptyDatabaseTyped == EmptyDatabase \in Database
  BY FirstPaceTyped DEF EmptyDatabase, Database, QCOrNone

\* The pacemaker after a certificate (PacemakerState.note_qc, note_decide).
LEMMA NoteQCTyped ==
    ASSUME NEW p \in Pace, NEW q \in QC
    PROVE  NoteQC(p, q) \in Pace
<1>1. /\ Max2(p.current, q.round + 1) \in Nat \ {0}
      /\ Max2(p.highestQc, q.round) \in Nat
      /\ Max2(p.lockedRound, q.round) \in Nat
      /\ Max2(p.decided, q.round) \in Nat
  BY DEF Pace, QC, Max2
<1>2. QED
  BY <1>1 DEF NoteQC, Pace

\* The pacemaker after a timeout certificate (PacemakerState.note_tc).
LEMMA NoteTCTyped ==
    ASSUME NEW p \in Pace, NEW r \in Nat \ {0}
    PROVE  NoteTC(p, r) \in Pace
<1>1. Max2(p.current, r + 1) \in Nat \ {0} /\ Max2(p.highestTc, r) \in Nat
  BY DEF Pace, Max2
<1>2. QED
  BY <1>1 DEF NoteTC, Pace

\* The store keeps certificates (save_highest_qc, update_locked_qc).
LEMMA CertificatesTyped ==
    ASSUME NEW r \in QCOrNone, NEW q \in QC
    PROVE  HighAfter(r, q) \in QCOrNone /\ LockAfter(r, q) \in QCOrNone
  BY DEF HighAfter, LockAfter, QCOrNone

\* Observing a certificate (observe_qc).
LEMMA ObserveTyped ==
    ASSUME NEW c \in Core, NEW q \in QCOrNone
    PROVE  Observe(c, q) \in Core
<1>1. CASE q = NoQC
  BY <1>1 DEF Observe
<1>2. CASE q # NoQC
  <2>1. q \in QC
    BY <1>2 DEF QCOrNone
  <2>2. /\ NoteQC(c.pace, q) \in Pace
        /\ HighAfter(c.high, q) \in QCOrNone
        /\ LockAfter(c.locked, q) \in QCOrNone
    BY <2>1, NoteQCTyped, CertificatesTyped DEF Core
  <2>3. QED
    BY <1>2, <2>2 DEF Observe, Core
<1>3. QED
  BY <1>1, <1>2

\* Writing the pacemaker row (save_pacemaker_state).
LEMMA SaveRuntimeTyped ==
    ASSUME NEW d \in Database, NEW c \in Core
    PROVE  SaveRuntime(d, c) \in Database
  BY DEF SaveRuntime, Database, Core

\* Pruning the logs (prune_vote_log, prune_timeout_log).
LEMMA PruneTyped ==
    ASSUME NEW d \in Database, NEW q
    PROVE  Prune(d, q) \in Database
  BY DEF Prune, KeepFrom, Database

\* The database after observe_qc.
LEMMA ObserveInDbTyped ==
    ASSUME NEW d \in Database, NEW c \in Core, NEW q \in QCOrNone
    PROVE  ObserveInDb(d, c, q) \in Database
  BY ObserveTyped, SaveRuntimeTyped, PruneTyped DEF ObserveInDb

\* Recording a vote (save_vote_record).
LEMMA LogVoteTyped ==
    ASSUME NEW d \in Database, NEW m \in Vote
    PROVE  LogVote(d, m) \in Database
  BY DEF LogVote, Database

\* Recording a timeout vote (save_timeout_vote_record).
LEMMA LogTimeoutTyped ==
    ASSUME NEW d \in Database, NEW t \in TimeoutVote
    PROVE  LogTimeout(d, t) \in Database
  BY DEF LogTimeout, Database

\* Every database a crash inside observe_qc can leave is well typed.
LEMMA InterruptedObserveTyped ==
    ASSUME NEW d \in Database, NEW c \in Core, NEW q \in QC
    PROVE  InterruptedObserve(d, c, q) \subseteq Database
<1> DEFINE saved  == [d EXCEPT !.high = HighAfter(c.high, q)]
           locked == [saved EXCEPT !.locked = LockAfter(c.locked, q)]
           pruned == [locked EXCEPT !.votes = KeepFrom(@, q.round)]
<1>1. HighAfter(c.high, q) \in QCOrNone /\ LockAfter(c.locked, q) \in QCOrNone
  BY CertificatesTyped DEF Core
<1>2. saved \in Database
  BY <1>1 DEF Database
<1>3. locked \in Database
  BY <1>1, <1>2 DEF Database
<1>4. pruned \in Database
  BY <1>3 DEF KeepFrom, Database
<1>5. Prune(locked, q) \in Database
  BY <1>3, PruneTyped
<1>6. ObserveInDb(d, c, q) \in Database
  BY ObserveInDbTyped DEF QCOrNone
<1>7. QED
  BY <1>2, <1>3, <1>4, <1>5, <1>6 DEF InterruptedObserve

\* A restart builds a well-typed core (ConsensusCore.__post_init__).
LEMMA LoadTyped ==
    ASSUME NEW v \in Validators, NEW d \in Database
    PROVE  Load(v, d) \in Core
<1>1. {m \in d.votes : m.voter = v} \in SUBSET Vote
  BY DEF Database
<1>2. {<<t.height, t.round>> : t \in {x \in d.timeouts : x.voter = v}} \in SUBSET (Nat \X Nat)
  BY DEF Database, TimeoutVote
<1>3. QED
  BY <1>1, <1>2 DEF Load, Database, Core

\* A counted vote completes a well-typed certificate or none (add_vote).
LEMMA CertifiedByTyped ==
    ASSUME NEW c \in Core, NEW m \in Vote
    PROVE  CertifiedBy(c, m) \in QCOrNone
  BY DEF CertifiedBy, QCOrNone, QC, Vote

\* A vote for a proposal is a vote (make_vote).
LEMMA VoteForTyped ==
    ASSUME NEW v \in Validators, NEW p \in Proposal, NEW phase \in Phases
    PROVE  VoteFor(v, p, phase) \in Vote
  BY DEF VoteFor, Proposal, Vote

-----------------------------------------------------------------------------
(* The contract of the vote log.  V is the set of all votes ever cast.     *)

\* Whatever database d holds, validator v can be restarted from it without
\* forgetting a vote that matters: the vote is on record, or its round is too
\* old to be voted in, or the startup check refuses d.
Durable(v, d, V) ==
    /\ d.votes \subseteq V
    /\ d.locked.round <= d.high.round
    /\ d.pace.decided <= d.high.round
    /\ d.pace.highestTc < d.pace.current
    /\ \A k \in V : k.voter = v =>
            k \in d.votes \/ Stale(d.pace, k.round) \/ d.pace.current <= d.high.round

\* A running core c agrees with its database and remembers its choices.
Running(v, c, d, V) ==
    /\ d.pace = c.pace /\ d.high = c.high /\ d.locked = c.locked
    /\ c.choice \subseteq {m \in V : m.voter = v}
    /\ c.high.round < c.pace.current
    /\ \A k \in V : k.voter = v => k \in c.choice \/ Stale(c.pace, k.round)

\* Votes of one validator in one slot agree.
OneChoice(V) == \A m1, m2 \in V : m1.voter = m2.voter /\ SameSlot(m1, m2) => m1.block = m2.block

\* The larger of two numbers is one of them and bounds both.
LEMMA Max2Properties ==
    ASSUME NEW a \in Nat, NEW b \in Nat
    PROVE  Max2(a, b) \in Nat /\ Max2(a, b) >= a /\ Max2(a, b) >= b /\ Max2(a, b) \in {a, b}
  BY DEF Max2

\* The numbers in a core (PacemakerState, ConsensusStore).
LEMMA CoreNumbers ==
    ASSUME NEW c \in Core
    PROVE  /\ c.pace \in Pace /\ c.high.round \in Nat /\ c.locked.round \in Nat
           /\ c.pace.current \in Nat /\ c.pace.decided \in Nat /\ c.pace.highestTc \in Nat
<1>1. c.pace \in Pace /\ c.high \in QCOrNone /\ c.locked \in QCOrNone
  BY DEF Core
<1>2. \A q \in QCOrNone : q.round \in Nat
  BY DEF QCOrNone, QC, NoQC
<1>3. QED
  BY <1>1, <1>2 DEF Pace

\* A round that was too old stays too old when the pacemaker moves on.
LEMMA StaleStays ==
    ASSUME NEW p \in Pace, NEW q \in Pace, p.current <= q.current, NEW r \in Nat, Stale(p, r)
    PROVE  Stale(q, r)
  BY DEF Stale, Pace

\* What observing a certificate does to the numbers the contract speaks of.
LEMMA ObserveNumbers ==
    ASSUME NEW c \in Core, NEW q \in QC
    PROVE  LET o == Observe(c, q) IN
           /\ o.pace.current >= c.pace.current /\ o.pace.current >= q.round + 1
           /\ o.high.round >= c.high.round /\ o.high.round >= q.round
           /\ o.high.round \in {c.high.round, q.round}
           /\ o.locked.round \in {c.locked.round, q.round}
           /\ o.pace.decided \in {c.pace.decided, q.round}
           /\ o.pace.highestTc = c.pace.highestTc
           /\ o.choice = c.choice
<1> DEFINE o == Observe(c, q)
<1>1. q # NoQC
  BY DEF QC, NoQC
<1>2. /\ o.pace = NoteQC(c.pace, q) /\ o.high = HighAfter(c.high, q)
      /\ o.locked = LockAfter(c.locked, q) /\ o.choice = c.choice
  BY <1>1 DEF Observe, Core
<1>3. c.pace \in Pace /\ c.high.round \in Nat /\ c.locked.round \in Nat /\ q.round \in Nat \ {0}
  BY DEF Core, QCOrNone, QC, NoQC
<1>4. /\ o.pace.current = Max2(c.pace.current, q.round + 1)
      /\ o.pace.decided \in {c.pace.decided, Max2(c.pace.decided, q.round)}
      /\ o.pace.highestTc = c.pace.highestTc
  BY <1>2, <1>3 DEF NoteQC, Pace
<1>5. o.pace.current >= c.pace.current /\ o.pace.current >= q.round + 1
  BY <1>3, <1>4, Max2Properties DEF Pace
<1>6. o.pace.decided \in {c.pace.decided, q.round}
  BY <1>3, <1>4, Max2Properties DEF Pace
<1>7. /\ o.high.round >= c.high.round /\ o.high.round >= q.round
      /\ o.high.round \in {c.high.round, q.round}
  BY <1>2, <1>3 DEF HighAfter, Higher
<1>8. o.locked.round \in {c.locked.round, q.round}
  BY <1>2 DEF LockAfter
<1>9. QED
  BY <1>2, <1>4, <1>5, <1>6, <1>7, <1>8

\* Observing a certificate keeps the contract: what pruning drops is too old
\* for the pacemaker value written with it (observe_qc).
LEMMA ObserveKeepsContract ==
    ASSUME NEW v, NEW V \in SUBSET Vote, NEW c \in Core, NEW d \in Database, NEW q \in QCOrNone,
           Durable(v, d, V), Running(v, c, d, V)
    PROVE  /\ Running(v, Observe(c, q), ObserveInDb(d, c, q), V)
           /\ Durable(v, ObserveInDb(d, c, q), V)
<1> DEFINE o == Observe(c, q)
           e == ObserveInDb(d, c, q)
<1>1. CASE q = NoQC
  BY <1>1 DEF Observe, ObserveInDb
<1>2. CASE q # NoQC
  <2>1. q \in QC
    BY <1>2 DEF QCOrNone
  <2>2. o \in Core /\ c.pace \in Pace /\ o.pace \in Pace
    BY ObserveTyped DEF Core
  <2>3. /\ c.high.round \in Nat /\ c.locked.round \in Nat /\ q.round \in Nat \ {0}
        /\ c.pace.current \in Nat /\ c.pace.decided \in Nat /\ c.pace.highestTc \in Nat
        /\ o.pace.current \in Nat
    BY <2>1, <2>2, CoreNumbers DEF QC
  <2>4. e.pace = o.pace /\ e.high = o.high /\ e.locked = o.locked
    BY <1>2 DEF ObserveInDb, SaveRuntime, Prune, Database
  <2>5. /\ e.votes \subseteq d.votes
        /\ \A k \in d.votes : k \in e.votes \/ ~(k.round >= q.round)
    BY <1>2 DEF ObserveInDb, SaveRuntime, Prune, KeepFrom, Database
  <2>6. \A k \in V : k.round \in Nat
    BY DEF Vote
  <2>7. \A k \in V : Stale(c.pace, k.round) => Stale(o.pace, k.round)
    BY <2>1, <2>2, <2>6, ObserveNumbers, StaleStays
  <2>8. Running(v, o, e, V)
    <3>1. o.high.round < o.pace.current
      BY <2>1, <2>3, ObserveNumbers DEF Running
    <3>2. QED
      BY <2>1, <2>4, <2>7, <3>1, ObserveNumbers DEF Running
  <2>9. Durable(v, e, V)
    <3>1. e.locked.round <= e.high.round /\ e.pace.decided <= e.high.round
      BY <2>1, <2>3, <2>4, ObserveNumbers DEF Durable, Running
    <3>2. e.pace.highestTc < e.pace.current
      BY <2>1, <2>3, <2>4, ObserveNumbers DEF Durable, Running
    <3>3. ASSUME NEW k \in V, k.voter = v PROVE k \in e.votes \/ Stale(e.pace, k.round)
      <4>1. k \in d.votes \/ Stale(d.pace, k.round)
        BY <2>3, <3>3 DEF Durable, Running
      <4>2. CASE Stale(d.pace, k.round)
        BY <2>4, <2>7, <4>2 DEF Running
      <4>3. CASE k \in d.votes /\ k \notin e.votes
        <5>1. k.round < q.round
          BY <2>3, <2>5, <2>6, <4>3
        <5>2. o.pace.current >= q.round + 1
          BY <2>1, ObserveNumbers
        <5>3. QED
          BY <2>3, <2>4, <2>6, <5>1, <5>2 DEF Stale
      <4>4. QED
        BY <4>1, <4>2, <4>3
    <3>4. QED
      BY <2>5, <3>1, <3>2, <3>3 DEF Durable
  <2>10. QED
    BY <2>8, <2>9
<1>3. QED
  BY <1>1, <1>2

\* A crash inside observe_qc keeps the contract.  Where the vote log is pruned
\* and the pacemaker row is still the old one, the startup check is what stops
\* a host that could vote again.
LEMMA InterruptedKeepsContract ==
    ASSUME NEW v, NEW V \in SUBSET Vote, NEW c \in Core, NEW d \in Database, NEW q \in QC,
           Durable(v, d, V), Running(v, c, d, V), NEW e \in InterruptedObserve(d, c, q)
    PROVE  Durable(v, e, V)
<1> DEFINE saved  == [d EXCEPT !.high = HighAfter(c.high, q)]
           locked == [saved EXCEPT !.locked = LockAfter(c.locked, q)]
           pruned == [locked EXCEPT !.votes = KeepFrom(@, q.round)]
<1>1. CASE e = ObserveInDb(d, c, q)
  BY <1>1, ObserveKeepsContract DEF QCOrNone
<1>2. CASE e \in {saved, locked, pruned, Prune(locked, q)}
  <2>1. /\ c.high.round \in Nat /\ c.locked.round \in Nat /\ q.round \in Nat \ {0}
        /\ c.pace.current \in Nat /\ c.pace.decided \in Nat
    BY CoreNumbers DEF QC
  <2>2. /\ HighAfter(c.high, q).round \in Nat /\ HighAfter(c.high, q).round >= c.high.round
        /\ HighAfter(c.high, q).round >= q.round
        /\ LockAfter(c.locked, q).round \in {c.locked.round, q.round}
    BY <2>1 DEF HighAfter, Higher, LockAfter
  <2>3. /\ e.pace = d.pace /\ e.high = HighAfter(c.high, q)
        /\ e.locked \in {d.locked, LockAfter(c.locked, q)}
        /\ e.votes \subseteq d.votes
        /\ \A k \in d.votes : k \in e.votes \/ ~(k.round >= q.round)
    <3>1. /\ saved.pace = d.pace /\ saved.high = HighAfter(c.high, q)
          /\ saved.locked = d.locked /\ saved.votes = d.votes /\ saved \in Database
      BY CertificatesTyped DEF Database, Core
    <3>2. /\ locked.pace = d.pace /\ locked.high = HighAfter(c.high, q)
          /\ locked.locked = LockAfter(c.locked, q) /\ locked.votes = d.votes /\ locked \in Database
      BY <3>1, CertificatesTyped DEF Database, Core
    <3>3. ASSUME NEW f \in {pruned, Prune(locked, q)}
          PROVE  /\ f.pace = d.pace /\ f.high = HighAfter(c.high, q)
                 /\ f.locked = LockAfter(c.locked, q)
                 /\ f.votes \in {d.votes, KeepFrom(d.votes, q.round)}
      BY <3>2 DEF Prune, Database
    <3>4. QED
      BY <1>2, <3>1, <3>2, <3>3 DEF KeepFrom
  <2>4. e.locked.round <= e.high.round /\ e.pace.decided <= e.high.round
    BY <2>1, <2>2, <2>3 DEF Durable, Running
  <2>5. ASSUME NEW k \in V, k.voter = v
        PROVE  k \in e.votes \/ Stale(e.pace, k.round) \/ e.pace.current <= e.high.round
    <3>1. k \in d.votes \/ Stale(d.pace, k.round)
      BY <2>1, <2>5 DEF Durable, Running
    <3>2. CASE k \in d.votes /\ k \notin e.votes /\ ~Stale(e.pace, k.round)
      <4>1. k.round \in Nat
        BY DEF Vote
      <4>2. k.round < q.round
        BY <2>1, <2>3, <3>2, <4>1
      <4>3. QED
        BY <2>1, <2>2, <2>3, <3>2, <4>1, <4>2 DEF Stale, Running
    <3>3. QED
      BY <2>3, <3>1, <3>2
  <2>6. QED
    BY <2>3, <2>4, <2>5 DEF Durable
<1>3. e \in {saved, locked, pruned, Prune(locked, q), ObserveInDb(d, c, q)}
  BY DEF InterruptedObserve
<1>4. QED
  BY <1>1, <1>2, <1>3

\* A record replaces no other one as long as votes agree (save_vote_record's
\* upsert on height, round, phase and voter).
LEMMA LogVoteAdds ==
    ASSUME NEW V \in SUBSET Vote, OneChoice(V), NEW m \in V,
           NEW d \in Database, d.votes \subseteq V
    PROVE  LogVote(d, m) = [d EXCEPT !.votes = @ \cup {m}]
<1>1. ASSUME NEW k \in d.votes, SameSlot(k, m), k.voter = m.voter
      PROVE  k = m
  <2>1. k.block = m.block
    BY <1>1 DEF OneChoice
  <2>2. k \in Vote /\ m \in Vote
    OBVIOUS
  <2>3. QED
    BY <1>1, <2>1, <2>2 DEF Vote, SameSlot
<1>2. {k \in d.votes : ~(SameSlot(k, m) /\ k.voter = m.voter)} \cup {m} = d.votes \cup {m}
  BY <1>1
<1>3. QED
  BY <1>2 DEF LogVote

\* A vote make_vote accepts agrees with every vote of its validator, and once
\* chosen and recorded it is remembered like them.
LEMMA VoteKeepsContract ==
    ASSUME NEW v, NEW V \in SUBSET Vote, NEW c \in Core, NEW d \in Database, NEW m \in Vote,
           m.voter = v, OneChoice(V), Durable(v, d, V), Running(v, c, d, V),
           ~Stale(c.pace, m.round), ~ChoseAnother(c, m)
    PROVE  LET W == V \cup {m} IN
           /\ OneChoice(W)
           /\ Running(v, Choose(c, m), LogVote(d, m), W)
           /\ Durable(v, LogVote(d, m), W)
<1> DEFINE W == V \cup {m}
           e == LogVote(d, m)
           f == Choose(c, m)
<1>1. ASSUME NEW k \in V, k.voter = v, SameSlot(k, m)
      PROVE  k.block = m.block
  <2>1. k.round = m.round
    BY <1>1 DEF SameSlot
  <2>2. k \in c.choice
    BY <1>1, <2>1 DEF Running
  <2>3. QED
    BY <1>1, <2>2 DEF ChoseAnother
<1>2. OneChoice(W)
  BY <1>1 DEF OneChoice, SameSlot
<1>3. W \in SUBSET Vote /\ d.votes \subseteq W
  BY DEF Durable
<1>4. /\ e.votes = d.votes \cup {m} /\ e.pace = d.pace
      /\ e.high = d.high /\ e.locked = d.locked
  BY <1>2, <1>3, LogVoteAdds DEF Database
<1>5. /\ f.choice = c.choice \cup {m} /\ f.pace = c.pace
      /\ f.high = c.high /\ f.locked = c.locked
  BY DEF Choose, Core
<1>6. Running(v, f, e, W)
  BY <1>4, <1>5 DEF Running
<1>7. Durable(v, e, W)
  BY <1>4 DEF Durable
<1>8. QED
  BY <1>2, <1>6, <1>7

\* Recording a vote that was cast, by anybody, keeps the contract (accept_vote).
LEMMA RecordKeepsContract ==
    ASSUME NEW v, NEW V \in SUBSET Vote, NEW d \in Database, NEW m \in V,
           OneChoice(V), Durable(v, d, V)
    PROVE  /\ Durable(v, LogVote(d, m), V)
           /\ \A c \in Core : Running(v, c, d, V) => Running(v, Tally(c, m), LogVote(d, m), V)
<1> DEFINE e == LogVote(d, m)
<1>1. d.votes \subseteq V
  BY DEF Durable
<1>2. /\ e.votes = d.votes \cup {m} /\ e.pace = d.pace
      /\ e.high = d.high /\ e.locked = d.locked
  BY <1>1, LogVoteAdds DEF Database
<1>3. Durable(v, e, V)
  BY <1>2 DEF Durable
<1>4. ASSUME NEW c \in Core, Running(v, c, d, V) PROVE Running(v, Tally(c, m), e, V)
  <2>1. /\ Tally(c, m).pace = c.pace /\ Tally(c, m).high = c.high
        /\ Tally(c, m).locked = c.locked /\ Tally(c, m).choice = c.choice
    BY DEF Tally, Core
  <2>2. QED
    BY <1>2, <1>4, <2>1 DEF Running
<1>5. QED
  BY <1>3, <1>4

\* A timeout certificate moves the pacemaker and nothing else (observe_tc).
LEMMA ObserveTCKeepsContract ==
    ASSUME NEW v, NEW V \in SUBSET Vote, NEW c \in Core, NEW d \in Database, NEW r \in Nat \ {0},
           Durable(v, d, V), Running(v, c, d, V)
    PROVE  LET o == ObserveTC(c, r)
               e == SaveRuntime(d, o)
           IN  Running(v, o, e, V) /\ Durable(v, e, V)
<1> DEFINE o == ObserveTC(c, r)
           e == SaveRuntime(d, o)
<1>1. /\ o.pace = NoteTC(c.pace, r) /\ o.high = c.high
      /\ o.locked = c.locked /\ o.choice = c.choice
  BY DEF ObserveTC, Core
<1>2. e.pace = o.pace /\ e.high = o.high /\ e.locked = o.locked /\ e.votes = d.votes
  BY DEF SaveRuntime, Database
<1>3. /\ c.pace \in Pace /\ c.high.round \in Nat /\ c.locked.round \in Nat
      /\ c.pace.current \in Nat /\ c.pace.decided \in Nat /\ c.pace.highestTc \in Nat
  BY CoreNumbers
<1>4. o.pace \in Pace
  BY <1>1, <1>3, NoteTCTyped
<1>5. /\ o.pace.current = Max2(c.pace.current, r + 1)
      /\ o.pace.highestTc = Max2(c.pace.highestTc, r)
      /\ o.pace.decided = c.pace.decided
  BY <1>1, <1>3 DEF NoteTC, Pace
<1>6. /\ o.pace.current \in Nat /\ o.pace.current >= c.pace.current
      /\ o.pace.current >= r + 1 /\ o.pace.highestTc \in {c.pace.highestTc, r}
  BY <1>3, <1>5 DEF Max2
<1>7. ASSUME NEW k \in V, Stale(c.pace, k.round) PROVE Stale(o.pace, k.round)
  BY <1>3, <1>4, <1>6, <1>7, StaleStays DEF Vote
<1>8. o.high.round < o.pace.current
  BY <1>1, <1>3, <1>6 DEF Running
<1>9. Running(v, o, e, V)
  BY <1>1, <1>2, <1>7, <1>8 DEF Running
<1>10. e.pace.highestTc < e.pace.current
  BY <1>2, <1>3, <1>6 DEF Durable, Running
<1>11. ASSUME NEW k \in V, k.voter = v PROVE k \in e.votes \/ Stale(e.pace, k.round)
  <2>1. k \in d.votes \/ Stale(d.pace, k.round)
    BY <1>3, <1>11 DEF Durable, Running
  <2>2. QED
    BY <1>2, <1>7, <2>1 DEF Running
<1>12. Durable(v, e, V)
  BY <1>1, <1>2, <1>5, <1>10, <1>11 DEF Durable, Running
<1>13. QED
  BY <1>9, <1>12

\* A restart that passes the startup check remembers every vote that matters
\* (ConsensusCore.__post_init__ and validate_runtime_state).
LEMMA LoadKeepsContract ==
    ASSUME NEW v, NEW V \in SUBSET Vote, NEW d \in Database,
           Durable(v, d, V), RuntimeStateOK(Load(v, d))
    PROVE  Running(v, Load(v, d), d, V)
<1> DEFINE c == Load(v, d)
<1>1. /\ c.pace = d.pace /\ c.high = d.high /\ c.locked = d.locked
      /\ c.choice = {m \in d.votes : m.voter = v}
  BY DEF Load
<1>2. d.pace.current \in Nat \ {0} /\ d.high \in QCOrNone
  BY DEF Database, Pace
<1>3. c.high.round < c.pace.current
  <2>1. CASE d.high = NoQC
    BY <1>1, <1>2, <2>1 DEF NoQC
  <2>2. CASE d.high # NoQC
    BY <1>1, <1>2, <2>2 DEF RuntimeStateOK, QCOrNone, QC
  <2>3. QED
    BY <2>1, <2>2
<1>4. c.choice \subseteq {m \in V : m.voter = v}
  BY <1>1 DEF Durable
<1>5. ASSUME NEW k \in V, k.voter = v PROVE k \in c.choice \/ Stale(c.pace, k.round)
  <2>1. d.high.round \in Nat
    BY <1>2 DEF QCOrNone, QC, NoQC
  <2>2. QED
    BY <1>1, <1>2, <1>3, <1>5, <2>1 DEF Durable
<1>6. QED
  BY <1>1, <1>3, <1>4, <1>5 DEF Running

\* Another validator's vote is none of v's business (make_vote).
LEMMA OthersVotesKeepContract ==
    ASSUME NEW v, NEW V, NEW m, m.voter # v, NEW d, NEW c, Durable(v, d, V)
    PROVE  /\ Durable(v, d, V \cup {m})
           /\ Running(v, c, d, V) => Running(v, c, d, V \cup {m})
  BY DEF Durable, Running

\* What the contract says passes the startup check (validate_runtime_state).
LEMMA ContractIsValid ==
    ASSUME NEW v, NEW V, NEW c \in Core, NEW d \in Database,
           Durable(v, d, V), Running(v, c, d, V)
    PROVE  RuntimeStateOK(c)
  BY CoreNumbers DEF RuntimeStateOK, Durable, Running

-----------------------------------------------------------------------------
(***************************************************************************)
(* Type correctness of ConsensusNet for every set of validators, every     *)
(* choice of drivers, peers and crashes, and every bound.  Whether a       *)
(* driver collects votes or timeout votes depends on its phase, so the     *)
(* types are inductive only together with what links a driver, the request *)
(* it waits on and the votes it holds.                                     *)
(***************************************************************************)

\* What driver record dr of validator l may hold when V and T have been cast.
DriverOK(l, dr, V, T) ==
    /\ dr.pc \in {"begin", "own", "final"} => dr.phase \in Phases
    /\ dr.phase \in Phases => dr.got \subseteq V
    /\ dr.phase = "timeout" => dr.got \subseteq T
    /\ dr.pc = "own" => VoteFor(l, dr.prop, dr.phase) \in V

DriversOK == \A l \in Validators : DriverOK(l, driver[l], votes, timeoutVotes)

\* A live request is the only one of its driver, which waits in its phase.
RequestsOK ==
    \A m \in requests : m.live =>
        /\ driver[m.from].pc = "wait" /\ driver[m.from].phase = m.phase
        /\ \A k \in requests : k.live /\ k.from = m.from => k = m

Shape == TypeOK /\ DriversOK /\ RequestsOK

MoreVotes == votes \subseteq votes' /\ timeoutVotes \subseteq timeoutVotes'

LEMMA TimeoutIsNoPhase == "timeout" \notin Phases
  BY DEF Phases

-----------------------------------------------------------------------------
(* Steps of a driver *)

\* An idle driver and a proposal without a block are well typed.
LEMMA IdleTyped == NoProposal \in Proposal /\ Idle \in Driver
<1>1. NoProposal \in Proposal
  BY EmptySeq DEF NoProposal, Proposal, Blocks, QCOrNone
<1>2. Idle \in Driver
  BY <1>1 DEF Idle, Driver, Stages, Phases, QCOrNone
<1>3. QED
  BY <1>1, <1>2

\* More votes never hurt a driver.
LEMMA DriversKeep ==
    ASSUME Shape, MoreVotes, NEW l \in Validators
    PROVE  DriverOK(l, driver[l], votes', timeoutVotes')
  BY DEF Shape, DriversOK, DriverOK, MoreVotes

\* Handlers that leave the drivers and the requests alone.
LEMMA DriversStay ==
    ASSUME Shape, MoreVotes, UNCHANGED <<driver, requests>>
    PROVE  /\ driver' \in [Validators -> Driver] /\ requests' \subseteq Request
           /\ DriversOK' /\ RequestsOK'
  BY DriversKeep DEF Shape, DriversOK, RequestsOK, TypeOK

\* A driver that is not waiting goes on to record dr.
LEMMA DriverSteps ==
    ASSUME Shape, MoreVotes, NEW l \in Validators, NEW dr \in Driver,
           driver[l].pc # "wait", driver' = [driver EXCEPT ![l] = dr],
           UNCHANGED requests, DriverOK(l, dr, votes', timeoutVotes')
    PROVE  /\ driver' \in [Validators -> Driver] /\ requests' \subseteq Request
           /\ DriversOK' /\ RequestsOK'
<1>1. driver' \in [Validators -> Driver] /\ requests' \subseteq Request
  BY DEF Shape, TypeOK
<1>2. DriversOK'
  BY DriversKeep DEF Shape, DriversOK, TypeOK
<1>3. \A m \in requests : m.live => m.from # l
  BY DEF Shape, RequestsOK
<1>4. \A m \in requests : m.from \in Validators
  BY DEF Shape, TypeOK, Request
<1>5. RequestsOK'
  BY <1>3, <1>4 DEF Shape, RequestsOK, TypeOK
<1>6. QED
  BY <1>1, <1>2, <1>5

\* The end of a driver's call.
LEMMA DriverStops ==
    ASSUME Shape, MoreVotes, NEW l \in Validators, Stop(l)
    PROVE  /\ driver' \in [Validators -> Driver] /\ requests' \subseteq Request
           /\ DriversOK' /\ RequestsOK'
<1>1. driver' = [driver EXCEPT ![l] = Idle] /\ requests' \in {Dropped(l), Orphaned(l)}
  BY DEF Stop
<1>2. driver' \in [Validators -> Driver]
  BY <1>1, IdleTyped DEF Shape, TypeOK
<1>3. DriverOK(l, Idle, votes', timeoutVotes')
  BY DEF Idle, DriverOK
<1>4. DriversOK'
  BY <1>1, <1>3, DriversKeep DEF Shape, DriversOK, TypeOK
<1>5. requests \subseteq Request
  BY DEF Shape, TypeOK
<1>6. CASE requests' = Dropped(l)
  <2>1. requests' \subseteq requests /\ \A m \in requests' : m.live => m.from # l
    BY <1>6 DEF Dropped
  <2>2. RequestsOK'
    BY <1>1, <1>5, <2>1 DEF Shape, RequestsOK, TypeOK, Request
  <2>3. QED
    BY <1>2, <1>4, <1>5, <2>1, <2>2
<1>7. CASE requests' = Orphaned(l)
  <2>1. requests' \subseteq Request
    BY <1>5, <1>7 DEF Orphaned, Request
  <2>2. \A m \in requests' : m.live => m \in requests /\ m.from # l
    BY <1>5, <1>7 DEF Orphaned, Request
  <2>3. RequestsOK'
    BY <1>1, <1>5, <2>2 DEF Shape, RequestsOK, TypeOK, Request
  <2>4. QED
    BY <1>2, <1>4, <2>1, <2>3
<1>8. QED
  BY <1>1, <1>6, <1>7

\* A handler takes request m and its answer, if still awaited, is a vote of the
\* kind the driver collects.
LEMMA DriverIsAnswered ==
    ASSUME Shape, MoreVotes, NEW m \in requests, requests' = requests \ {m},
           NEW vote \in Vote \cup TimeoutVote,
           \/ /\ AnswerWith(m, vote)
              /\ m.phase \in Phases => vote \in votes'
              /\ m.phase = "timeout" => vote \in timeoutVotes'
           \/ Refuse(m)
    PROVE  /\ driver' \in [Validators -> Driver] /\ requests' \subseteq Request
           /\ DriversOK' /\ RequestsOK'
<1>1. requests' \subseteq Request /\ m.from \in Validators
  BY DEF Shape, TypeOK, Request
<1>2. driver[m.from] \in Driver /\ driver \in [Validators -> Driver]
  BY <1>1 DEF Shape, TypeOK
<1>3. CASE ~m.live
  <2>1. driver' = driver
    BY <1>3 DEF AnswerWith, Refuse
  <2>2. DriversOK'
    BY <2>1, DriversKeep DEF DriversOK
  <2>3. RequestsOK'
    BY <2>1 DEF Shape, RequestsOK
  <2>4. QED
    BY <1>1, <1>2, <2>1, <2>2, <2>3
<1>4. CASE m.live
  <2> DEFINE dr == driver[m.from]
             asks == [dr EXCEPT !.pc = "ask", !.got = @ \cup {vote}]
             refused == [dr EXCEPT !.pc = "refused"]
  <2>1. PICK new \in {asks, refused} :
          /\ driver' = [driver EXCEPT ![m.from] = new]
          /\ new = asks => /\ m.phase \in Phases => vote \in votes'
                           /\ m.phase = "timeout" => vote \in timeoutVotes'
    <3>1. CASE Refuse(m)
      BY <1>2, <1>4, <3>1 DEF Refuse, Driver
    <3>2. CASE AnswerWith(m, vote) /\ ~Refuse(m)
      BY <1>2, <1>4, <3>2 DEF AnswerWith, Driver
    <3>3. QED
      BY <3>1, <3>2
  <2>2. asks \in Driver /\ refused \in Driver
    BY <1>2 DEF Driver
  <2>3. dr.phase = m.phase /\ DriverOK(m.from, dr, votes', timeoutVotes')
    BY <1>1, <1>4, DriversKeep DEF Shape, RequestsOK
  <2>4. DriverOK(m.from, new, votes', timeoutVotes')
    <3>1. CASE new = asks
      BY <1>2, <2>1, <2>3, <3>1 DEF DriverOK, Driver
    <3>2. CASE new = refused
      BY <1>2, <2>3, <3>2 DEF DriverOK, Driver
    <3>3. QED
      BY <3>1, <3>2
  <2>5. DriversOK'
    BY <1>1, <1>2, <2>1, <2>4, DriversKeep DEF DriversOK
  <2>6. \A k \in requests' : k.live => k.from # m.from
    BY <1>4 DEF Shape, RequestsOK
  <2>7. RequestsOK'
    BY <1>1, <1>2, <2>1, <2>6 DEF Shape, RequestsOK, Request
  <2>8. QED
    BY <1>1, <1>2, <2>1, <2>2, <2>5, <2>7
<1>5. QED
  BY <1>3, <1>4

-----------------------------------------------------------------------------
(* Driving a round *)

\* run_mvp_consensus_round builds its proposal.
LEMMA StartRoundKeepsShape ==
    ASSUME Shape, NEW l \in Validators, NEW ps \in SUBSET Validators, NEW b \in Bodies,
           StartRound(l, ps, b)
    PROVE  Shape'
<1> DEFINE dr == [pc |-> "begin", phase |-> "prepare",
                  prop |-> [height |-> Len(chain[l]) + 1, round |-> core[l].pace.current,
                            block |-> Append(chain[l], b), justify |-> core[l].high],
                  prev |-> NoQC, qc |-> NoQC, peers |-> ps, left |-> {}, got |-> {}]
<1>1. chain[l] \in Seq(Bodies) /\ core[l] \in Core
  BY DEF Shape, TypeOK, Blocks
<1>2. Append(chain[l], b) \in Blocks /\ Len(chain[l]) + 1 \in Nat
  BY <1>1, AppendProperties, LenProperties DEF Blocks
<1>3. core[l].pace.current \in Nat \ {0} /\ core[l].high \in QCOrNone
  BY <1>1 DEF Core, Pace
<1>4. dr \in Driver
  BY <1>2, <1>3 DEF Driver, Proposal, Stages, Phases, QCOrNone
<1>5. driver' = [driver EXCEPT ![l] = dr] /\ driver[l].pc = "idle"
  BY DEF StartRound
<1>6. UNCHANGED <<core, db, chain, up, requests, notices, tcs, votes, qcs, timeoutVotes>>
  BY DEF StartRound, nodeVars, msgVars, history
<1>7. DriverOK(l, dr, votes', timeoutVotes')
  BY DEF DriverOK, Phases
<1>8. MoreVotes
  BY <1>6 DEF MoreVotes
<1>9. /\ driver' \in [Validators -> Driver] /\ requests' \subseteq Request
      /\ DriversOK' /\ RequestsOK'
  BY <1>4, <1>5, <1>6, <1>7, <1>8, DriverSteps
<1>10. QED
  BY <1>6, <1>9 DEF Shape, TypeOK

\* Casting a vote leaves well-typed cores, databases and votes (make_vote).
LEMMA CastVoteTyped ==
    ASSUME TypeOK, NEW v \in Validators, NEW p \in Proposal, NEW phase \in Phases,
           NEW c \in Core, NEW d \in Database, CastVote(v, p, phase, c, d)
    PROVE  /\ core' \in [Validators -> Core] /\ db' \in [Validators -> Database]
           /\ votes' \subseteq Vote /\ votes \subseteq votes'
           /\ VoteFor(v, p, phase) \in Vote /\ VoteFor(v, p, phase) \in votes'
<1>1. VoteFor(v, p, phase) \in Vote
  BY VoteForTyped
<1>2. Choose(c, VoteFor(v, p, phase)) \in Core
  BY <1>1 DEF Choose, Core
<1>3. LogVote(d, VoteFor(v, p, phase)) \in Database
  BY <1>1, LogVoteTyped
<1>4. QED
  BY <1>1, <1>2, <1>3 DEF CastVote, TypeOK

\* _drive_phase_over_network votes for its own proposal or gives up.
LEMMA BeginPhaseKeepsShape ==
    ASSUME Shape, NEW l \in Validators, BeginPhase(l)
    PROVE  Shape'
<1> DEFINE dr == driver[l]
           o == Observe(core[l], dr.prev)
           c == Observe(o, dr.prop.justify)
           e == ObserveInDb(db[l], core[l], dr.prev)
           d == ObserveInDb(e, o, dr.prop.justify)
<1>1. dr \in Driver /\ core[l] \in Core /\ db[l] \in Database
  BY DEF Shape, TypeOK
<1>2. dr.prev \in QCOrNone /\ dr.prop \in Proposal /\ dr.prop.justify \in QCOrNone
  BY <1>1 DEF Driver, Proposal
<1>3. o \in Core /\ c \in Core /\ e \in Database /\ d \in Database
  BY <1>1, <1>2, ObserveTyped, ObserveInDbTyped
<1>4. UNCHANGED <<chain, up, notices, tcs, qcs, timeoutVotes>> /\ dr.pc = "begin"
  BY DEF BeginPhase
<1>5. dr.phase \in Phases
  BY <1>4 DEF Shape, DriversOK, DriverOK
<1>6. CASE MayVote(c, l, dr.prop, dr.phase)
  <2> DEFINE new == [dr EXCEPT !.pc = "own"]
  <2>1. /\ CastVote(l, dr.prop, dr.phase, c, d)
        /\ driver' = [driver EXCEPT ![l] = new] /\ UNCHANGED requests
    BY <1>6 DEF BeginPhase
  <2>2. /\ core' \in [Validators -> Core] /\ db' \in [Validators -> Database]
        /\ votes' \subseteq Vote /\ votes \subseteq votes'
        /\ VoteFor(l, dr.prop, dr.phase) \in votes'
    BY <1>2, <1>3, <1>5, <2>1, CastVoteTyped DEF Shape
  <2>3. new \in Driver
    BY <1>1 DEF Driver
  <2>4. MoreVotes
    BY <1>4, <2>2 DEF MoreVotes
  <2>5. DriverOK(l, new, votes', timeoutVotes')
    BY <1>1, <1>5, <2>2, <2>4, DriversKeep DEF DriverOK, Driver
  <2>6. /\ driver' \in [Validators -> Driver] /\ requests' \subseteq Request
        /\ DriversOK' /\ RequestsOK'
    BY <1>4, <2>1, <2>3, <2>4, <2>5, DriverSteps
  <2>7. QED
    BY <1>4, <2>2, <2>6 DEF Shape, TypeOK
<1>7. CASE ~MayVote(c, l, dr.prop, dr.phase)
  <2>1. /\ core' = [core EXCEPT ![l] = c] /\ db' = [db EXCEPT ![l] = d]
        /\ Stop(l) /\ UNCHANGED votes
    BY <1>7 DEF BeginPhase
  <2>2. MoreVotes
    BY <1>4, <2>1 DEF MoreVotes
  <2>3. /\ driver' \in [Validators -> Driver] /\ requests' \subseteq Request
        /\ DriversOK' /\ RequestsOK'
    BY <2>1, <2>2, DriverStops
  <2>4. QED
    BY <1>3, <1>4, <2>1, <2>3 DEF Shape, TypeOK
<1>8. QED
  BY <1>6, <1>7

\* Counting a vote leaves well-typed cores, databases and certificates, and a
\* certificate or none for the driver (accept_vote).
LEMMA AcceptVoteTyped ==
    ASSUME TypeOK, NEW l \in Validators, NEW m \in Vote, AcceptVote(l, m)
    PROVE  /\ core' \in [Validators -> Core] /\ db' \in [Validators -> Database]
           /\ qcs' \subseteq QC /\ QcAfter(l, m) \in QCOrNone
<1> DEFINE q == CertifiedBy(core[l], m)
           c == Tally(core[l], m)
<1>1. core[l] \in Core /\ db[l] \in Database /\ driver[l] \in Driver
  BY DEF TypeOK
<1>2. q \in QCOrNone
  BY <1>1, CertifiedByTyped
<1>3. c \in Core
  BY <1>1 DEF Tally, Core
<1>4. Observe(c, q) \in Core
  BY <1>2, <1>3, ObserveTyped
<1>5. ObserveInDb(LogVote(db[l], m), c, q) \in Database
  BY <1>1, <1>2, <1>3, LogVoteTyped, ObserveInDbTyped
<1>6. QcAfter(l, m) \in QCOrNone
  BY <1>1, <1>2 DEF QcAfter, Driver
<1>7. qcs' \subseteq QC
  BY <1>2 DEF AcceptVote, TypeOK, QCOrNone
<1>8. QED
  BY <1>4, <1>5, <1>6, <1>7 DEF AcceptVote, TypeOK

\* The driver counts its own vote.
LEMMA CountOwnVoteKeepsShape ==
    ASSUME Shape, NEW l \in Validators, CountOwnVote(l)
    PROVE  Shape'
<1> DEFINE m == VoteFor(l, driver[l].prop, driver[l].phase)
           dr == [driver[l] EXCEPT !.pc = "ask", !.left = driver[l].peers \ {l}, !.qc = QcAfter(l, m)]
<1>1. driver[l] \in Driver /\ driver[l].pc = "own" /\ AcceptVote(l, m)
  BY DEF Shape, TypeOK, CountOwnVote
<1>2. m \in votes /\ votes \subseteq Vote
  BY <1>1 DEF Shape, TypeOK, DriversOK, DriverOK
<1>3. /\ core' \in [Validators -> Core] /\ db' \in [Validators -> Database]
      /\ qcs' \subseteq QC /\ QcAfter(l, m) \in QCOrNone
  BY <1>1, <1>2, AcceptVoteTyped DEF Shape
<1>4. UNCHANGED <<chain, up, requests, notices, tcs, votes, timeoutVotes>>
  BY DEF CountOwnVote, msgVars
<1>5. driver' = [driver EXCEPT ![l] = dr]
  BY DEF CountOwnVote
<1>6. dr \in Driver
  BY <1>1, <1>3 DEF Driver
<1>7. MoreVotes
  BY <1>4 DEF MoreVotes
<1>8. DriverOK(l, dr, votes', timeoutVotes')
  BY <1>1, <1>7, DriversKeep DEF DriverOK, Driver
<1>9. /\ driver' \in [Validators -> Driver] /\ requests' \subseteq Request
      /\ DriversOK' /\ RequestsOK'
  BY <1>1, <1>4, <1>5, <1>6, <1>7, <1>8, DriverSteps
<1>10. QED
  BY <1>3, <1>4, <1>9 DEF Shape, TypeOK

\* The driver asks its next peer.
LEMMA AskKeepsShape ==
    ASSUME Shape, NEW l \in Validators, NEW v \in driver[l].left, Ask(l, v)
    PROVE  Shape'
<1> DEFINE dr == [driver[l] EXCEPT !.pc = "wait", !.left = @ \ {v}]
           m == [from |-> l, to |-> v, phase |-> driver[l].phase, prop |-> driver[l].prop,
                 live |-> TRUE]
<1>1. /\ driver[l] \in Driver /\ driver[l].pc = "ask" /\ v \in Validators
      /\ driver' = [driver EXCEPT ![l] = dr] /\ requests' = requests \cup {m}
      /\ requests \subseteq Request
  BY DEF Shape, TypeOK, Ask, Driver
<1>2. UNCHANGED <<core, db, chain, up, notices, tcs, votes, qcs, timeoutVotes>>
  BY DEF Ask, nodeVars, history
<1>3. m \in Request
  BY <1>1 DEF Request, Driver
<1>4. dr \in Driver
  BY <1>1 DEF Driver
<1>5. driver' \in [Validators -> Driver]
  BY <1>1, <1>4 DEF Shape, TypeOK
<1>6. MoreVotes
  BY <1>2 DEF MoreVotes
<1>7. DriverOK(l, dr, votes', timeoutVotes')
  BY <1>1, <1>6, DriversKeep DEF DriverOK, Driver
<1>8. DriversOK'
  BY <1>1, <1>6, <1>7, DriversKeep DEF Shape, TypeOK, DriversOK
<1>9. \A k \in requests : k.live => k.from # l
  BY <1>1 DEF Shape, RequestsOK
<1>10. driver'[l].pc = "wait" /\ driver'[l].phase = driver[l].phase
  BY <1>1 DEF Shape, TypeOK, Driver
<1>11. RequestsOK'
  <2>1. m.from = l /\ m.phase = driver[l].phase
    OBVIOUS
  <2>2. ASSUME NEW k \in requests', k.live
        PROVE  /\ driver'[k.from].pc = "wait" /\ driver'[k.from].phase = k.phase
               /\ \A n \in requests' : n.live /\ n.from = k.from => n = k
    <3>1. CASE k = m
      BY <1>1, <1>9, <1>10, <2>1, <3>1
    <3>2. CASE k \in requests
      <4>1. k.from # l /\ k.from \in Validators
        BY <1>1, <1>9, <2>2, <3>2 DEF Request
      <4>2. driver'[k.from] = driver[k.from]
        BY <1>1, <4>1 DEF Shape, TypeOK
      <4>3. QED
        BY <1>1, <2>1, <2>2, <3>2, <4>1, <4>2 DEF Shape, RequestsOK
    <3>3. QED
      BY <1>1, <3>1, <3>2
  <2>3. QED
    BY <2>2 DEF RequestsOK
<1>12. QED
  BY <1>1, <1>2, <1>3, <1>5, <1>8, <1>11 DEF Shape, TypeOK

\* The driver counts one of the votes it was sent.
LEMMA CountVoteKeepsShape ==
    ASSUME Shape, NEW l \in Validators, NEW m \in driver[l].got, CountVote(l, m)
    PROVE  Shape'
<1> DEFINE dr == [driver[l] EXCEPT !.got = @ \ {m}, !.qc = QcAfter(l, m)]
<1>1. /\ driver[l] \in Driver /\ driver[l].pc = "ask" /\ driver[l].phase \in Phases
      /\ AcceptVote(l, m)
  BY DEF Shape, TypeOK, CountVote
<1>2. m \in votes /\ votes \subseteq Vote
  BY <1>1 DEF Shape, TypeOK, DriversOK, DriverOK
<1>3. /\ core' \in [Validators -> Core] /\ db' \in [Validators -> Database]
      /\ qcs' \subseteq QC /\ QcAfter(l, m) \in QCOrNone
  BY <1>1, <1>2, AcceptVoteTyped DEF Shape
<1>4. UNCHANGED <<chain, up, requests, notices, tcs, votes, timeoutVotes>>
  BY DEF CountVote, msgVars
<1>5. driver' = [driver EXCEPT ![l] = dr]
  BY DEF CountVote
<1>6. dr \in Driver
  BY <1>1, <1>3 DEF Driver
<1>7. MoreVotes
  BY <1>4 DEF MoreVotes
<1>8. DriverOK(l, dr, votes', timeoutVotes')
  BY <1>1, <1>7, DriversKeep DEF DriverOK, Driver
<1>9. /\ driver' \in [Validators -> Driver] /\ requests' \subseteq Request
      /\ DriversOK' /\ RequestsOK'
  BY <1>1, <1>4, <1>5, <1>6, <1>7, <1>8, DriverSteps
<1>10. QED
  BY <1>3, <1>4, <1>9 DEF Shape, TypeOK

\* The driver's call fails.
LEMMA GiveUpKeepsShape ==
    ASSUME Shape, NEW l \in Validators, GiveUp(l)
    PROVE  Shape'
<1>1. UNCHANGED <<core, db, chain, up, notices, tcs, votes, qcs, timeoutVotes>> /\ Stop(l)
  BY DEF GiveUp, nodeVars, history
<1>2. MoreVotes
  BY <1>1 DEF MoreVotes
<1>3. QED
  BY <1>1, <1>2, DriverStops DEF Shape, TypeOK

\* The phase ends: the call fails, or goes on to the next phase or the end.
LEMMA EndPhaseKeepsShape ==
    ASSUME Shape, NEW l \in Validators, EndPhase(l)
    PROVE  Shape'
<1> DEFINE dr == driver[l]
           last == [dr EXCEPT !.pc = "final"]
           next == [dr EXCEPT !.pc = "begin", !.phase = NextPhase[dr.phase],
                              !.prev = dr.qc, !.qc = NoQC]
<1>1. dr \in Driver /\ dr.pc = "ask" /\ dr.phase \in Phases /\ dr.got = {}
  BY DEF Shape, TypeOK, EndPhase
<1>2. UNCHANGED <<core, db, chain, up, notices, tcs, votes, qcs, timeoutVotes>>
  BY DEF EndPhase, nodeVars, history
<1>3. MoreVotes
  BY <1>2 DEF MoreVotes
<1>4. CASE Stop(l)
  BY <1>2, <1>3, <1>4, DriverStops DEF Shape, TypeOK
<1>5. CASE UNCHANGED requests /\ driver' = [driver EXCEPT ![l] = IF LastPhase(dr.phase) THEN last ELSE next]
  <2> DEFINE new == IF LastPhase(dr.phase) THEN last ELSE next
  <2>1. NextPhase[dr.phase] \in Phases
    BY <1>1 DEF NextPhase, Phases
  <2>2. new \in Driver
    BY <1>1, <2>1 DEF Driver, Stages, QCOrNone
  <2>3. DriverOK(l, new, votes', timeoutVotes')
    BY <1>1, <2>1 DEF DriverOK, Driver
  <2>4. /\ driver' \in [Validators -> Driver] /\ requests' \subseteq Request
        /\ DriversOK' /\ RequestsOK'
    BY <1>1, <1>3, <1>5, <2>2, <2>3, DriverSteps
  <2>5. QED
    BY <1>2, <2>4 DEF Shape, TypeOK
<1>6. QED
  BY <1>4, <1>5 DEF EndPhase

-----------------------------------------------------------------------------
(* Committing and answering *)

\* commit_block leaves a chain a chain.
LEMMA AppliedTyped ==
    ASSUME NEW ch \in Blocks, NEW b \in Blocks
    PROVE  Applied(ch, b) \in Blocks
  BY DEF Applied

\* _finalize_local_mvp_commit.
LEMMA FinalizeKeepsShape ==
    ASSUME Shape, NEW l \in Validators, Finalize(l)
    PROVE  Shape'
<1> DEFINE dr == driver[l]
           plain == {[to |-> v, block |-> dr.prop.block, qc |-> NoQC] : v \in Validators \ {l}}
           final == {[to |-> v, block |-> dr.prop.block, qc |-> dr.qc] : v \in dr.peers \ {l}}
<1>1. /\ dr \in Driver /\ core[l] \in Core /\ db[l] \in Database /\ chain[l] \in Blocks
  BY DEF Shape, TypeOK
<1>2. dr.qc \in QCOrNone /\ dr.prop.block \in Blocks /\ dr.peers \subseteq Validators
  BY <1>1 DEF Driver, Proposal
<1>3. core' = [core EXCEPT ![l] = Observe(core[l], dr.qc)] /\ Observe(core[l], dr.qc) \in Core
  BY <1>1, <1>2, ObserveTyped DEF Finalize
<1>4. /\ db' = [db EXCEPT ![l] = ObserveInDb(db[l], core[l], dr.qc)]
      /\ ObserveInDb(db[l], core[l], dr.qc) \in Database
  BY <1>1, <1>2, ObserveInDbTyped DEF Finalize
<1>5. /\ chain' = [chain EXCEPT ![l] = Applied(chain[l], dr.prop.block)]
      /\ Applied(chain[l], dr.prop.block) \in Blocks
  BY <1>1, <1>2, AppliedTyped DEF Finalize
<1>6. notices' = notices \cup plain \cup final
  BY DEF Finalize
<1>7. plain \subseteq Notice /\ final \subseteq Notice
  BY <1>2 DEF Notice, QCOrNone
<1>8. Stop(l) /\ UNCHANGED <<up, tcs, votes, qcs, timeoutVotes>>
  BY DEF Finalize, history
<1>9. MoreVotes
  BY <1>8 DEF MoreVotes
<1>10. /\ driver' \in [Validators -> Driver] /\ requests' \subseteq Request
       /\ DriversOK' /\ RequestsOK'
  BY <1>8, <1>9, DriverStops
<1>11. QED
  BY <1>3, <1>4, <1>5, <1>6, <1>7, <1>8, <1>10 DEF Shape, TypeOK

\* _on_consensus_proposal.
LEMMA HandleProposalKeepsShape ==
    ASSUME Shape, NEW v \in Validators, NEW m \in requests, HandleProposal(v, m)
    PROVE  Shape'
<1> DEFINE c == Informed(v, m.prop)
           d == InformedDb(v, m.prop)
<1>1. /\ m \in Request /\ m.phase \in Phases /\ requests' = requests \ {m}
      /\ core[v] \in Core /\ db[v] \in Database
  BY DEF Shape, TypeOK, HandleProposal
<1>2. m.prop \in Proposal /\ m.prop.justify \in QCOrNone
  BY <1>1 DEF Request, Proposal
<1>3. c \in Core /\ d \in Database
  BY <1>1, <1>2, ObserveTyped, ObserveInDbTyped DEF Informed, InformedDb
<1>4. UNCHANGED <<chain, up, notices, tcs, qcs, timeoutVotes>>
  BY DEF HandleProposal
<1>5. CASE MayVote(c, v, m.prop, m.phase)
  <2> DEFINE vote == VoteFor(v, m.prop, m.phase)
  <2>1. CastVote(v, m.prop, m.phase, c, d) /\ AnswerWith(m, vote)
    BY <1>5 DEF HandleProposal
  <2>2. /\ core' \in [Validators -> Core] /\ db' \in [Validators -> Database]
        /\ votes' \subseteq Vote /\ votes \subseteq votes' /\ vote \in Vote /\ vote \in votes'
    BY <1>1, <1>2, <1>3, <2>1, CastVoteTyped DEF Shape
  <2>3. MoreVotes
    BY <1>4, <2>2 DEF MoreVotes
  <2>4. m.phase # "timeout"
    BY <1>1, TimeoutIsNoPhase
  <2>5. /\ driver' \in [Validators -> Driver] /\ requests' \subseteq Request
        /\ DriversOK' /\ RequestsOK'
    BY <1>1, <2>1, <2>2, <2>3, <2>4, DriverIsAnswered
  <2>6. QED
    BY <1>4, <2>2, <2>5 DEF Shape, TypeOK
<1>6. CASE ~MayVote(c, v, m.prop, m.phase)
  <2>1. /\ core' = [core EXCEPT ![v] = c] /\ db' = [db EXCEPT ![v] = d]
        /\ Refuse(m) /\ UNCHANGED votes
    BY <1>6 DEF HandleProposal
  <2>2. MoreVotes
    BY <1>4, <2>1 DEF MoreVotes
  <2>3. VoteFor(v, m.prop, m.phase) \in Vote
    BY <1>1, <1>2, VoteForTyped
  <2>4. /\ driver' \in [Validators -> Driver] /\ requests' \subseteq Request
        /\ DriversOK' /\ RequestsOK'
    BY <1>1, <2>1, <2>2, <2>3, DriverIsAnswered
  <2>5. QED
    BY <1>3, <1>4, <2>1, <2>4 DEF Shape, TypeOK
<1>7. QED
  BY <1>5, <1>6

\* _on_consensus_finalize and _on_block_announce.
LEMMA HandleNoticeKeepsShape ==
    ASSUME Shape, NEW v \in Validators, NEW n \in notices, HandleNotice(v, n)
    PROVE  Shape'
<1>1. /\ n.qc \in QCOrNone /\ n.block \in Blocks
      /\ core[v] \in Core /\ db[v] \in Database /\ chain[v] \in Blocks
  BY DEF Shape, TypeOK, Notice
<1>2. core' = [core EXCEPT ![v] = Observe(core[v], n.qc)] /\ Observe(core[v], n.qc) \in Core
  BY <1>1, ObserveTyped DEF HandleNotice
<1>3. /\ db' = [db EXCEPT ![v] = ObserveInDb(db[v], core[v], n.qc)]
      /\ ObserveInDb(db[v], core[v], n.qc) \in Database
  BY <1>1, ObserveInDbTyped DEF HandleNotice
<1>4. /\ chain' = [chain EXCEPT ![v] = Applied(chain[v], n.block)]
      /\ Applied(chain[v], n.block) \in Blocks
  BY <1>1, AppliedTyped DEF HandleNotice
<1>5. UNCHANGED <<up, driver, requests, notices, tcs, votes, qcs, timeoutVotes>>
  BY DEF HandleNotice, msgVars, history
<1>6. MoreVotes
  BY <1>5 DEF MoreVotes
<1>7. QED
  BY <1>2, <1>3, <1>4, <1>5, <1>6, DriversStay DEF Shape, TypeOK

\* _sync_announced_blocks and recover_chain_from_consensus_peers.
LEMMA FetchBlockKeepsShape ==
    ASSUME Shape, NEW v \in Validators, NEW w \in Validators, FetchBlock(v, w)
    PROVE  Shape'
<1> DEFINE n == Len(chain[v]) + 1
<1>1. chain[v] \in Seq(Bodies) /\ chain[w] \in Seq(Bodies) /\ Len(chain[w]) > Len(chain[v])
  BY DEF Shape, TypeOK, Blocks, FetchBlock
<1>2. Len(chain[v]) \in Nat /\ Len(chain[w]) \in Nat
  BY <1>1, LenProperties
<1>3. \A i \in 1..n : chain[w][i] \in Bodies
  BY <1>1, <1>2, ElementOfSeq
<1>4. SubSeq(chain[w], 1, n) \in Blocks
  BY <1>2, <1>3, SubSeqProperties DEF Blocks
<1>5. chain' = [chain EXCEPT ![v] = SubSeq(chain[w], 1, n)]
  BY DEF FetchBlock
<1>6. UNCHANGED <<core, db, up, driver, requests, notices, tcs, votes, qcs, timeoutVotes>>
  BY DEF FetchBlock, msgVars, history
<1>7. MoreVotes
  BY <1>6 DEF MoreVotes
<1>8. QED
  BY <1>4, <1>5, <1>6, <1>7, DriversStay DEF Shape, TypeOK

-----------------------------------------------------------------------------
(* Timing out *)

\* Casting a timeout vote (make_timeout_vote).
LEMMA CastTimeoutTyped ==
    ASSUME TypeOK, NEW v \in Validators, NEW h \in Nat, NEW r \in Nat \ {0}, CastTimeout(v, h, r)
    PROVE  /\ core' \in [Validators -> Core] /\ db' \in [Validators -> Database]
           /\ timeoutVotes' \subseteq TimeoutVote /\ timeoutVotes \subseteq timeoutVotes'
           /\ TimeoutOf(v, h, r) \in TimeoutVote /\ TimeoutOf(v, h, r) \in timeoutVotes'
<1>1. core[v] \in Core /\ db[v] \in Database
  BY DEF TypeOK
<1>2. TimeoutOf(v, h, r) \in TimeoutVote
  BY <1>1 DEF TimeoutOf, TimeoutVote, Core
<1>3. [core[v] EXCEPT !.timedOut = @ \cup {<<h, r>>}] \in Core
  BY <1>1 DEF Core
<1>4. LogTimeout(db[v], TimeoutOf(v, h, r)) \in Database
  BY <1>1, <1>2, LogTimeoutTyped
<1>5. core' \in [Validators -> Core]
  BY <1>3 DEF CastTimeout, TypeOK, Core
<1>6. QED
  BY <1>2, <1>4, <1>5 DEF CastTimeout, TypeOK

\* run_mvp_timeout_round begins with the driver's own timeout vote.
LEMMA StartTimeoutKeepsShape ==
    ASSUME Shape, NEW l \in Validators, NEW ps \in SUBSET Validators, StartTimeout(l, ps)
    PROVE  Shape'
<1> DEFINE h == Len(chain[l]) + 1
           r == core[l].pace.current
           dr == [Idle EXCEPT !.pc = "ask", !.phase = "timeout", !.peers = ps, !.left = ps \ {l},
                              !.got = {TimeoutOf(l, h, r)},
                              !.prop = [NoProposal EXCEPT !.height = h, !.round = r]]
<1>1. h \in Nat /\ r \in Nat \ {0}
  BY LenProperties DEF Shape, TypeOK, Blocks, Core, Pace
<1>2. CastTimeout(l, h, r) /\ driver' = [driver EXCEPT ![l] = dr] /\ driver[l].pc = "idle"
  BY DEF StartTimeout
<1>3. /\ core' \in [Validators -> Core] /\ db' \in [Validators -> Database]
      /\ timeoutVotes' \subseteq TimeoutVote /\ timeoutVotes \subseteq timeoutVotes'
      /\ TimeoutOf(l, h, r) \in TimeoutVote /\ TimeoutOf(l, h, r) \in timeoutVotes'
  BY <1>1, <1>2, CastTimeoutTyped DEF Shape
<1>4. UNCHANGED <<chain, up, requests, notices, tcs, votes, qcs>>
  BY DEF StartTimeout, msgVars
<1>5. [NoProposal EXCEPT !.height = h, !.round = r] \in Proposal
  BY <1>1, IdleTyped DEF Proposal
<1>6. dr \in Driver
  BY <1>3, <1>5, IdleTyped DEF Driver, Stages
<1>7. dr.pc = "ask" /\ dr.phase = "timeout" /\ dr.got = {TimeoutOf(l, h, r)}
  BY DEF Idle
<1>8. DriverOK(l, dr, votes', timeoutVotes')
  BY <1>3, <1>7, TimeoutIsNoPhase DEF DriverOK
<1>9. MoreVotes
  BY <1>3, <1>4 DEF MoreVotes
<1>10. /\ driver' \in [Validators -> Driver] /\ requests' \subseteq Request
       /\ DriversOK' /\ RequestsOK'
  BY <1>2, <1>4, <1>6, <1>8, <1>9, DriverSteps
<1>11. QED
  BY <1>3, <1>4, <1>10 DEF Shape, TypeOK

\* _on_consensus_timeout_vote.
LEMMA HandleTimeoutKeepsShape ==
    ASSUME Shape, NEW v \in Validators, NEW m \in requests, HandleTimeout(v, m)
    PROVE  Shape'
<1> DEFINE h == m.prop.height
           r == m.prop.round
<1>1. m \in Request /\ m.phase = "timeout" /\ requests' = requests \ {m}
  BY DEF Shape, TypeOK, HandleTimeout
<1>2. h \in Nat /\ r \in Nat \ {0}
  BY <1>1 DEF Request, Proposal
<1>3. UNCHANGED <<chain, up, notices, tcs, votes, qcs>>
  BY DEF HandleTimeout
<1>4. CASE MayTimeOut(v, h, r)
  <2>1. CastTimeout(v, h, r) /\ AnswerWith(m, TimeoutOf(v, h, r))
    BY <1>4 DEF HandleTimeout
  <2>2. /\ core' \in [Validators -> Core] /\ db' \in [Validators -> Database]
        /\ timeoutVotes' \subseteq TimeoutVote /\ timeoutVotes \subseteq timeoutVotes'
        /\ TimeoutOf(v, h, r) \in TimeoutVote /\ TimeoutOf(v, h, r) \in timeoutVotes'
    BY <1>2, <2>1, CastTimeoutTyped DEF Shape
  <2>3. MoreVotes
    BY <1>3, <2>2 DEF MoreVotes
  <2>4. /\ driver' \in [Validators -> Driver] /\ requests' \subseteq Request
        /\ DriversOK' /\ RequestsOK'
    BY <1>1, <2>1, <2>2, <2>3, TimeoutIsNoPhase, DriverIsAnswered
  <2>5. QED
    BY <1>3, <2>2, <2>4 DEF Shape, TypeOK
<1>5. CASE ~MayTimeOut(v, h, r)
  <2>1. Refuse(m) /\ UNCHANGED <<core, db, timeoutVotes>>
    BY <1>5 DEF HandleTimeout
  <2>2. MoreVotes
    BY <1>3, <2>1 DEF MoreVotes
  <2>3. TimeoutOf(v, h, r) \in TimeoutVote
    BY <1>2 DEF Shape, TypeOK, TimeoutOf, TimeoutVote, Core
  <2>4. /\ driver' \in [Validators -> Driver] /\ requests' \subseteq Request
        /\ DriversOK' /\ RequestsOK'
    BY <1>1, <2>1, <2>2, <2>3, DriverIsAnswered
  <2>5. QED
    BY <1>3, <2>1, <2>4 DEF Shape, TypeOK
<1>6. QED
  BY <1>4, <1>5

\* accept_timeout_vote.
LEMMA CountTimeoutKeepsShape ==
    ASSUME Shape, NEW l \in Validators, NEW t \in driver[l].got, CountTimeout(l, t)
    PROVE  Shape'
<1> DEFINE dr == [driver[l] EXCEPT !.got = @ \ {t}]
           c == [core[l] EXCEPT !.timeouts = @ \cup {t}]
           d == LogTimeout(db[l], t)
           moved == ObserveTC(c, t.round)
<1>1. /\ driver[l] \in Driver /\ driver[l].pc = "ask" /\ driver[l].phase = "timeout"
      /\ core[l] \in Core /\ db[l] \in Database
  BY DEF Shape, TypeOK, CountTimeout
<1>2. t \in TimeoutVote
  BY <1>1 DEF Shape, TypeOK, DriversOK, DriverOK
<1>3. c \in Core /\ d \in Database
  BY <1>1, <1>2, LogTimeoutTyped DEF Core
<1>4. moved \in Core /\ SaveRuntime(d, moved) \in Database
  <2>1. NoteTC(c.pace, t.round) \in Pace
    BY <1>2, <1>3, NoteTCTyped DEF Core, TimeoutVote
  <2>2. moved \in Core
    BY <1>3, <2>1 DEF ObserveTC, Core
  <2>3. QED
    BY <1>3, <2>2, SaveRuntimeTyped
<1>5. core' \in [Validators -> Core] /\ db' \in [Validators -> Database]
  BY <1>3, <1>4 DEF CountTimeout, Shape, TypeOK
<1>6. UNCHANGED <<chain, up, requests, notices, tcs, votes, qcs, timeoutVotes>>
  BY DEF CountTimeout, msgVars, history
<1>7. driver' = [driver EXCEPT ![l] = dr] /\ dr \in Driver
  BY <1>1 DEF CountTimeout, Driver
<1>8. MoreVotes
  BY <1>6 DEF MoreVotes
<1>9. DriverOK(l, dr, votes', timeoutVotes')
  BY <1>1, <1>8, DriversKeep DEF DriverOK, Driver
<1>10. /\ driver' \in [Validators -> Driver] /\ requests' \subseteq Request
       /\ DriversOK' /\ RequestsOK'
  BY <1>1, <1>6, <1>7, <1>8, <1>9, DriverSteps
<1>11. QED
  BY <1>5, <1>6, <1>10 DEF Shape, TypeOK

\* run_mvp_timeout_round sends the certificate, if there is one, and ends.
LEMMA EndTimeoutKeepsShape ==
    ASSUME Shape, NEW l \in Validators, EndTimeout(l)
    PROVE  Shape'
<1> DEFINE dr == driver[l]
           sent == {[to |-> v, round |-> dr.prop.round] : v \in dr.peers \ {l}}
<1>1. dr.prop.round \in Nat \ {0} /\ dr.peers \subseteq Validators
  BY DEF Shape, TypeOK, Driver, Proposal
<1>2. sent \subseteq TCNotice
  BY <1>1 DEF TCNotice
<1>3. tcs' \in {tcs, tcs \cup sent}
  BY DEF EndTimeout
<1>4. Stop(l) /\ UNCHANGED <<core, db, chain, up, notices, votes, qcs, timeoutVotes>>
  BY DEF EndTimeout, nodeVars, history
<1>5. MoreVotes
  BY <1>4 DEF MoreVotes
<1>6. QED
  BY <1>2, <1>3, <1>4, <1>5, DriverStops DEF Shape, TypeOK

\* _on_consensus_timeout_cert.
LEMMA HandleTCKeepsShape ==
    ASSUME Shape, NEW v \in Validators, NEW n \in tcs, HandleTC(v, n)
    PROVE  Shape'
<1> DEFINE o == ObserveTC(core[v], n.round)
<1>1. n.round \in Nat \ {0} /\ core[v] \in Core /\ db[v] \in Database
  BY DEF Shape, TypeOK, TCNotice
<1>2. NoteTC(core[v].pace, n.round) \in Pace
  BY <1>1, NoteTCTyped DEF Core
<1>3. o \in Core
  BY <1>1, <1>2 DEF ObserveTC, Core
<1>4. SaveRuntime(db[v], o) \in Database
  BY <1>1, <1>3, SaveRuntimeTyped
<1>5. /\ core' = [core EXCEPT ![v] = o] /\ db' = [db EXCEPT ![v] = SaveRuntime(db[v], o)]
      /\ UNCHANGED <<chain, up, driver, requests, notices, tcs, votes, qcs, timeoutVotes>>
  BY DEF HandleTC, msgVars, history
<1>6. MoreVotes
  BY <1>5 DEF MoreVotes
<1>7. QED
  BY <1>3, <1>4, <1>5, <1>6, DriversStay DEF Shape, TypeOK

-----------------------------------------------------------------------------
(* Crashing and restarting *)

\* A crash with any well-typed database.
LEMMA FailKeepsShape ==
    ASSUME Shape, NEW v \in Validators, NEW d \in Database, Fail(v, d), qcs' \subseteq QC
    PROVE  Shape'
<1>1. Load(v, d) \in Core
  BY LoadTyped
<1>2. /\ up' = up \ {v} /\ db' = [db EXCEPT ![v] = d] /\ core' = [core EXCEPT ![v] = Load(v, d)]
      /\ Stop(v) /\ UNCHANGED <<chain, notices, tcs, votes, timeoutVotes>>
  BY DEF Fail
<1>3. MoreVotes
  BY <1>2 DEF MoreVotes
<1>4. QED
  BY <1>1, <1>2, <1>3, DriverStops DEF Shape, TypeOK

\* The certificates a crash can interrupt the observation of are certificates.
LEMMA ObservingTyped ==
    ASSUME Shape, NEW v \in Validators
    PROVE  Observing(v) \subseteq QC
<1>1. \A m \in requests : m.prop.justify \in QCOrNone
  BY DEF Shape, TypeOK, Request, Proposal
<1>2. \A n \in notices : n.qc \in QCOrNone
  BY DEF Shape, TypeOK, Notice
<1>3. /\ driver[v].prev \in QCOrNone /\ driver[v].qc \in QCOrNone
      /\ driver[v].prop.justify \in QCOrNone
  BY DEF Shape, TypeOK, Driver, Proposal
<1>4. QED
  BY <1>1, <1>2, <1>3 DEF Observing, QCOrNone

\* The votes a crash can interrupt the counting of are votes.
LEMMA CountedIsVote ==
    ASSUME Shape, NEW v \in Validators, NEW m, CrashCounting(v, m)
    PROVE  m \in votes /\ m \in Vote
  BY DEF Shape, TypeOK, DriversOK, DriverOK, CrashCounting

\* Crashes inside and between operations.
LEMMA BreakKeepsShape ==
    ASSUME Shape, NEW v \in Validators, Break(v)
    PROVE  Shape'
<1>1. core[v] \in Core /\ db[v] \in Database /\ driver[v] \in Driver
  BY DEF Shape, TypeOK
<1>2. CASE Crash(v)
  BY <1>1, <1>2, FailKeepsShape DEF Crash, Shape, TypeOK
<1>3. CASE CrashObserving(v)
  <2>1. PICK q \in Observing(v) : \E d \in InterruptedObserve(db[v], core[v], q) : Fail(v, d)
    BY <1>3 DEF CrashObserving
  <2>2. PICK d \in InterruptedObserve(db[v], core[v], q) : Fail(v, d)
    BY <2>1
  <2>3. q \in QC
    BY ObservingTyped
  <2>4. d \in Database
    BY <1>1, <2>3, InterruptedObserveTyped
  <2>5. qcs' \subseteq QC
    BY <1>3 DEF CrashObserving, Shape, TypeOK
  <2>6. QED
    BY <2>2, <2>4, <2>5, FailKeepsShape
<1>4. ASSUME NEW m, CrashCounting(v, m) PROVE Shape'
  <2> DEFINE q == CertifiedBy(core[v], m)
             logged == LogVote(db[v], m)
  <2>1. m \in Vote
    BY <1>4, CountedIsVote
  <2>2. logged \in Database /\ q \in QCOrNone
    BY <1>1, <2>1, LogVoteTyped, CertifiedByTyped
  <2>3. CASE Fail(v, logged) /\ UNCHANGED qcs
    BY <2>2, <2>3, FailKeepsShape DEF Shape, TypeOK
  <2>4. CASE /\ q # NoQC /\ qcs' = qcs \cup {q}
             /\ \E d \in InterruptedObserve(logged, core[v], q) : Fail(v, d)
    <3>1. PICK d \in InterruptedObserve(logged, core[v], q) : Fail(v, d)
      BY <2>4
    <3>2. q \in QC
      BY <2>2, <2>4 DEF QCOrNone
    <3>3. d \in Database
      BY <1>1, <2>2, <3>2, InterruptedObserveTyped
    <3>4. qcs' \subseteq QC
      BY <2>4, <3>2 DEF Shape, TypeOK
    <3>5. QED
      BY <3>1, <3>3, <3>4, FailKeepsShape
  <2>5. QED
    BY <1>4, <2>3, <2>4 DEF CrashCounting
<1>5. ASSUME NEW t \in driver[v].got, CrashTimingOut(v, t) PROVE Shape'
  <2>1. t \in TimeoutVote
    BY <1>5 DEF Shape, TypeOK, DriversOK, DriverOK, CrashTimingOut
  <2>2. LogTimeout(db[v], t) \in Database
    BY <1>1, <2>1, LogTimeoutTyped
  <2>3. QED
    BY <1>5, <2>2, FailKeepsShape DEF CrashTimingOut, Shape, TypeOK
<1>6. CASE Restart(v)
  <2>1. Load(v, db[v]) \in Core
    BY <1>1, LoadTyped
  <2>2. /\ core' = [core EXCEPT ![v] = Load(v, db[v])] /\ up' = up \cup {v}
        /\ UNCHANGED <<db, chain, driver, requests, notices, tcs, votes, qcs, timeoutVotes>>
    BY <1>6 DEF Restart, msgVars, history
  <2>3. MoreVotes
    BY <2>2 DEF MoreVotes
  <2>4. QED
    BY <2>1, <2>2, <2>3, DriversStay DEF Shape, TypeOK
<1>7. QED
  BY <1>2, <1>3, <1>4, <1>5, <1>6 DEF Break

-----------------------------------------------------------------------------
(* Every behaviour *)

\* The initial state has the shape.
LEMMA InitHasShape == Init => Shape
<1> SUFFICES ASSUME Init PROVE Shape
  OBVIOUS
<1>1. \A v \in Validators : Load(v, EmptyDatabase) \in Core
  BY EmptyDatabaseTyped, LoadTyped
<1>2. <<>> \in Blocks
  BY EmptySeq DEF Blocks
<1>3. TypeOK
  BY <1>1, <1>2, EmptyDatabaseTyped, IdleTyped DEF Init, TypeOK
<1>4. DriversOK
  BY DEF Init, DriversOK, DriverOK, Idle
<1>5. RequestsOK
  BY DEF Init, RequestsOK
<1>6. QED
  BY <1>3, <1>4, <1>5 DEF Shape

\* A step of a driver keeps the shape.
LEMMA DriveKeepsShape ==
    ASSUME Shape, NEW l \in Drivers, Drive(l)
    PROVE  Shape'
<1>1. l \in Validators /\ PeerSets \subseteq SUBSET Validators
  BY NetAssumption
<1>2. ASSUME NEW ps \in PeerSets, NEW b \in Bodies, StartRound(l, ps, b) PROVE Shape'
  BY <1>1, <1>2, StartRoundKeepsShape
<1>3. ASSUME NEW ps \in PeerSets, StartTimeout(l, ps) PROVE Shape'
  BY <1>1, <1>3, StartTimeoutKeepsShape
<1>4. QED
  BY <1>1, <1>2, <1>3, BeginPhaseKeepsShape, CountOwnVoteKeepsShape, AskKeepsShape,
     GiveUpKeepsShape, CountVoteKeepsShape, EndPhaseKeepsShape, FinalizeKeepsShape,
     CountTimeoutKeepsShape, EndTimeoutKeepsShape DEF Drive

\* A step of a handler keeps the shape.
LEMMA HandleKeepsShape ==
    ASSUME Shape, NEW v \in Validators, Handle(v)
    PROVE  Shape'
  BY HandleProposalKeepsShape, HandleTimeoutKeepsShape, HandleNoticeKeepsShape,
     HandleTCKeepsShape, FetchBlockKeepsShape DEF Handle

\* Every step keeps the shape, a stuttering one included.
LEMMA NextKeepsShape == Shape /\ [Next]_vars => Shape'
<1> SUFFICES ASSUME Shape, [Next]_vars PROVE Shape'
  OBVIOUS
<1>1. CASE UNCHANGED vars
  <2>1. MoreVotes
    BY <1>1 DEF MoreVotes, vars
  <2>2. QED
    BY <1>1, <2>1, DriversStay DEF Shape, TypeOK, vars
<1>2. CASE Next
  BY <1>2, NetAssumption, DriveKeepsShape, HandleKeepsShape, BreakKeepsShape DEF Next
<1>3. QED
  BY <1>1, <1>2

\* In every behaviour a driver, its request and the votes it holds fit together.
THEOREM ShapeHolds == Spec => []Shape
  BY InitHasShape, NextKeepsShape, PTL DEF Spec

\* In every behaviour, whatever crashes and whatever is lost, the cores, the
\* databases, the chains, the drivers and the messages stay well typed.
THEOREM TypeCorrect == Spec => []TypeOK
<1>1. Shape => TypeOK
  BY DEF Shape
<1>2. QED
  BY <1>1, ShapeHolds, PTL

-----------------------------------------------------------------------------
(***************************************************************************)
(* The vote layer of ConsensusNet is safe for every set of validators and  *)
(* every pattern of crashes, losses and concurrent drivers: no validator   *)
(* votes for two blocks in one slot, and no slot has two certificates.     *)
(*                                                                         *)
(* OneVotePerSlot is not inductive: what stops a second vote is the memory *)
(* of the core, after a restart the vote log, and where the log has been   *)
(* pruned the pacemaker or the startup check.  The contract of the vote    *)
(* log above says so for one validator; here every action is               *)
(* shown to keep it for all of them.                                       *)
(*                                                                         *)
(* The second part shows that ConsensusNet implements QuorumVoting: a vote *)
(* that a host returns is a CastVote, a certificate that a driver          *)
(* completes is a Certify, and everything else the cluster does leaves     *)
(* votes and certificates alone.  The slots and blocks QuorumVoting is     *)
(* instantiated with are bounded, so the proof needs that proposals stay   *)
(* within the bounds, however late they arrive.                            *)
(***************************************************************************)

\* Every certificate has its quorum among the votes cast.
QCsAreBacked == \A q \in qcs : HasQuorum(Signers(votes, q))

Remembered ==
    /\ OneChoice(votes)
    /\ \A v \in Validators : Durable(v, db[v], votes) /\ core[v].tally \subseteq votes
    /\ \A v \in up : Running(v, core[v], db[v], votes)
    /\ QCsAreBacked

IInv == Shape /\ Remembered

-----------------------------------------------------------------------------
(* What an action may do to one validator *)

\* Steps of a driver that concern neither cores nor databases.
LEMMA NothingForgotten ==
    ASSUME Remembered, UNCHANGED <<core, db, up, votes, qcs>>
    PROVE  Remembered'
  BY DEF Remembered, QCsAreBacked

\* A step of validator v that casts no vote.
LEMMA StepOfOne ==
    ASSUME IInv, NEW v \in Validators, NEW c \in Core, NEW d \in Database,
           core' = [core EXCEPT ![v] = c], db' = [db EXCEPT ![v] = d],
           up' \subseteq up \cup {v}, UNCHANGED votes,
           Durable(v, d, votes), c.tally \subseteq votes,
           v \in up' => Running(v, c, d, votes),
           \A q \in qcs' : q \in qcs \/ HasQuorum(Signers(votes, q))
    PROVE  Remembered'
<1>1. \A w \in Validators : /\ core'[w] = IF w = v THEN c ELSE core[w]
                            /\ db'[w] = IF w = v THEN d ELSE db[w]
  BY DEF IInv, Shape, TypeOK
<1>2. \A w \in Validators : Durable(w, db'[w], votes) /\ core'[w].tally \subseteq votes
  BY <1>1 DEF IInv, Remembered
<1>3. up \subseteq Validators
  BY DEF IInv, Shape, TypeOK
<1>4. \A w \in up' : Running(w, core'[w], db'[w], votes)
  BY <1>1, <1>3 DEF IInv, Remembered
<1>5. QCsAreBacked'
  BY DEF IInv, Remembered, QCsAreBacked
<1>6. QED
  BY <1>2, <1>4, <1>5 DEF IInv, Remembered

\* Running validator v, after observing certificates has led it to core c and
\* database d, votes for a proposal that make_vote accepts.
LEMMA VoteOfOne ==
    ASSUME IInv, NEW v \in Validators, NEW c \in Core, NEW d \in Database,
           NEW p \in Proposal, NEW phase \in Phases,
           Durable(v, d, votes), Running(v, c, d, votes), c.tally \subseteq votes,
           MayVote(c, v, p, phase), CastVote(v, p, phase, c, d), UNCHANGED <<up, qcs>>
    PROVE  Remembered'
<1> DEFINE m == VoteFor(v, p, phase)
           W == votes \cup {m}
<1>1. votes \in SUBSET Vote /\ up \subseteq Validators
  BY DEF IInv, Shape, TypeOK
<1>2. m \in Vote /\ m.voter = v /\ m.round = p.round
  BY VoteForTyped DEF VoteFor
<1>3. votes' = W
  BY DEF CastVote
<1>4. \A w \in Validators : /\ core'[w] = IF w = v THEN Choose(c, m) ELSE core[w]
                            /\ db'[w] = IF w = v THEN LogVote(d, m) ELSE db[w]
  BY DEF CastVote, IInv, Shape, TypeOK
<1>5. /\ OneChoice(W)
      /\ Running(v, Choose(c, m), LogVote(d, m), W)
      /\ Durable(v, LogVote(d, m), W)
  BY <1>1, <1>2, VoteKeepsContract DEF IInv, Remembered, MayVote
<1>6. Choose(c, m).tally = c.tally
  BY DEF Choose, Core
<1>7. \A w \in Validators : Durable(w, db'[w], W) /\ core'[w].tally \subseteq W
  BY <1>2, <1>4, <1>5, <1>6, OthersVotesKeepContract DEF IInv, Remembered
<1>8. \A w \in up : Running(w, core'[w], db'[w], W)
  BY <1>1, <1>2, <1>4, <1>5, OthersVotesKeepContract DEF IInv, Remembered
<1>9. ASSUME NEW q \in qcs PROVE HasQuorum(Signers(W, q))
  <2>1. Signers(votes, q) \subseteq Signers(W, q)
    BY DEF Signers
  <2>2. QED
    BY <2>1, QuorumsGrow DEF IInv, Remembered, QCsAreBacked
<1>10. QED
  BY <1>3, <1>5, <1>7, <1>8, <1>9 DEF Remembered, QCsAreBacked

\* What observing a certificate leaves of a running validator.
LEMMA ObservedByOne ==
    ASSUME IInv, NEW v \in Validators, NEW c \in Core, NEW d \in Database, NEW q \in QCOrNone,
           Durable(v, d, votes), Running(v, c, d, votes), c.tally \subseteq votes
    PROVE  LET o == Observe(c, q)
               e == ObserveInDb(d, c, q)
           IN  /\ o \in Core /\ e \in Database
               /\ Durable(v, e, votes) /\ Running(v, o, e, votes) /\ o.tally \subseteq votes
<1>1. votes \in SUBSET Vote
  BY DEF IInv, Shape, TypeOK
<1>2. Observe(c, q).tally = c.tally
  BY DEF Observe, Core
<1>3. QED
  BY <1>1, <1>2, ObserveTyped, ObserveInDbTyped, ObserveKeepsContract

\* What the invariant says of a running validator.
LEMMA RunningOne ==
    ASSUME IInv, NEW v \in up
    PROVE  /\ v \in Validators /\ core[v] \in Core /\ db[v] \in Database /\ votes \in SUBSET Vote
           /\ Durable(v, db[v], votes) /\ Running(v, core[v], db[v], votes)
           /\ core[v].tally \subseteq votes
  BY DEF IInv, Shape, TypeOK, Remembered

\* A running validator observes a certificate, or none.
LEMMA ObserveStep ==
    ASSUME IInv, NEW v \in up, NEW q \in QCOrNone,
           core' = [core EXCEPT ![v] = Observe(core[v], q)],
           db' = [db EXCEPT ![v] = ObserveInDb(db[v], core[v], q)],
           UNCHANGED <<up, votes, qcs>>
    PROVE  Remembered'
  BY RunningOne, ObservedByOne, StepOfOne

\* A certificate that counting a vote completes has its quorum (add_vote).
LEMMA CertificateIsBacked ==
    ASSUME IInv, NEW l \in Validators, NEW m \in votes, CertifiedBy(core[l], m) # NoQC
    PROVE  HasQuorum(Signers(votes, CertifiedBy(core[l], m)))
<1> DEFINE q == CertifiedBy(core[l], m)
<1>1. HasQuorum(Signers(core[l].tally \cup {m}, m))
  BY DEF CertifiedBy
<1>2. q = [height |-> m.height, round |-> m.round, phase |-> m.phase, block |-> m.block]
  BY DEF CertifiedBy
<1>3. core[l].tally \cup {m} \subseteq votes
  BY DEF IInv, Remembered
<1>4. Signers(core[l].tally \cup {m}, m) \subseteq Signers(votes, q)
  BY <1>2, <1>3 DEF Signers, SameSlot
<1>5. QED
  BY <1>1, <1>4, QuorumsGrow

\* A running validator counts a vote that was cast (accept_vote).
LEMMA AcceptStep ==
    ASSUME IInv, NEW l \in up, NEW m \in votes, AcceptVote(l, m), UNCHANGED <<up, votes>>
    PROVE  Remembered'
<1> DEFINE q == CertifiedBy(core[l], m)
           c == Tally(core[l], m)
           d == LogVote(db[l], m)
<1>1. /\ l \in Validators /\ core[l] \in Core /\ db[l] \in Database /\ votes \in SUBSET Vote
      /\ Durable(l, db[l], votes) /\ Running(l, core[l], db[l], votes)
      /\ core[l].tally \subseteq votes /\ m \in Vote
  BY RunningOne
<1>2. c \in Core /\ c.tally \subseteq votes /\ d \in Database
  BY <1>1, LogVoteTyped DEF Tally, Core
<1>3. Durable(l, d, votes) /\ Running(l, c, d, votes)
  BY <1>1, RecordKeepsContract DEF IInv, Remembered
<1>4. q \in QCOrNone
  BY <1>1, CertifiedByTyped
<1>5. /\ Observe(c, q) \in Core /\ ObserveInDb(d, c, q) \in Database
      /\ Durable(l, ObserveInDb(d, c, q), votes)
      /\ Running(l, Observe(c, q), ObserveInDb(d, c, q), votes)
      /\ Observe(c, q).tally \subseteq votes
  BY <1>1, <1>2, <1>3, <1>4, ObservedByOne
<1>6. /\ core' = [core EXCEPT ![l] = Observe(c, q)] /\ db' = [db EXCEPT ![l] = ObserveInDb(d, c, q)]
      /\ qcs' = IF q = NoQC THEN qcs ELSE qcs \cup {q}
  BY DEF AcceptVote
<1>7. \A x \in qcs' : x \in qcs \/ HasQuorum(Signers(votes, x))
  BY <1>1, <1>6, CertificateIsBacked
<1>8. QED
  BY <1>1, <1>5, <1>6, <1>7, StepOfOne

-----------------------------------------------------------------------------
(* Voting and counting *)

\* _drive_phase_over_network: the host observes the phase before and its own
\* justification, then votes or gives up.
LEMMA BeginPhaseRemembers ==
    ASSUME IInv, NEW l \in Validators, BeginPhase(l)
    PROVE  Remembered'
<1> DEFINE dr == driver[l]
           o == Observe(core[l], dr.prev)
           c == Observe(o, dr.prop.justify)
           e == ObserveInDb(db[l], core[l], dr.prev)
           d == ObserveInDb(e, o, dr.prop.justify)
<1>1. l \in up /\ dr.pc = "begin" /\ UNCHANGED <<up, qcs>>
  BY DEF BeginPhase
<1>2. dr.prev \in QCOrNone /\ dr.prop \in Proposal /\ dr.prop.justify \in QCOrNone
  BY DEF IInv, Shape, TypeOK, Driver, Proposal
<1>3. dr.phase \in Phases
  BY <1>1 DEF IInv, Shape, DriversOK, DriverOK
<1>4. /\ o \in Core /\ e \in Database /\ Durable(l, e, votes)
      /\ Running(l, o, e, votes) /\ o.tally \subseteq votes
  BY <1>1, <1>2, RunningOne, ObservedByOne
<1>5. /\ c \in Core /\ d \in Database /\ Durable(l, d, votes)
      /\ Running(l, c, d, votes) /\ c.tally \subseteq votes
  BY <1>2, <1>4, ObservedByOne
<1>6. CASE MayVote(c, l, dr.prop, dr.phase)
  <2>1. CastVote(l, dr.prop, dr.phase, c, d)
    BY <1>6 DEF BeginPhase
  <2>2. QED
    BY <1>1, <1>2, <1>3, <1>5, <1>6, <2>1, VoteOfOne
<1>7. CASE ~MayVote(c, l, dr.prop, dr.phase)
  <2>1. core' = [core EXCEPT ![l] = c] /\ db' = [db EXCEPT ![l] = d] /\ UNCHANGED votes
    BY <1>7 DEF BeginPhase
  <2>2. QED
    BY <1>1, <1>5, <2>1, StepOfOne
<1>8. QED
  BY <1>6, <1>7

\* _on_consensus_proposal: the host votes or refuses.
LEMMA HandleProposalRemembers ==
    ASSUME IInv, NEW v \in Validators, NEW m \in requests, HandleProposal(v, m)
    PROVE  Remembered'
<1> DEFINE c == Informed(v, m.prop)
           d == InformedDb(v, m.prop)
<1>1. v \in up /\ m.phase \in Phases /\ UNCHANGED <<up, qcs>>
  BY DEF HandleProposal, Serving
<1>2. m.prop \in Proposal /\ m.prop.justify \in QCOrNone
  BY DEF IInv, Shape, TypeOK, Request, Proposal
<1>3. /\ c \in Core /\ d \in Database /\ Durable(v, d, votes)
      /\ Running(v, c, d, votes) /\ c.tally \subseteq votes
  BY <1>1, <1>2, RunningOne, ObservedByOne DEF Informed, InformedDb
<1>4. CASE MayVote(c, v, m.prop, m.phase)
  <2>1. CastVote(v, m.prop, m.phase, c, d)
    BY <1>4 DEF HandleProposal
  <2>2. QED
    BY <1>1, <1>2, <1>3, <1>4, <2>1, VoteOfOne
<1>5. CASE ~MayVote(c, v, m.prop, m.phase)
  <2>1. core' = [core EXCEPT ![v] = c] /\ db' = [db EXCEPT ![v] = d] /\ UNCHANGED votes
    BY <1>5 DEF HandleProposal
  <2>2. QED
    BY <1>1, <1>3, <2>1, StepOfOne
<1>6. QED
  BY <1>4, <1>5

\* The driver counts its own vote, then the votes of its peers (accept_vote).
LEMMA CountingRemembers ==
    ASSUME IInv, NEW l \in Validators,
           CountOwnVote(l) \/ \E m \in driver[l].got : CountVote(l, m)
    PROVE  Remembered'
<1>1. CASE CountOwnVote(l)
  <2> DEFINE m == VoteFor(l, driver[l].prop, driver[l].phase)
  <2>1. l \in up /\ AcceptVote(l, m) /\ UNCHANGED <<up, votes>>
    BY <1>1 DEF CountOwnVote
  <2>2. m \in votes
    BY <1>1 DEF CountOwnVote, IInv, Shape, DriversOK, DriverOK
  <2>3. QED
    BY <2>1, <2>2, AcceptStep
<1>2. ASSUME NEW m \in driver[l].got, CountVote(l, m) PROVE Remembered'
  <2>1. l \in up /\ AcceptVote(l, m) /\ UNCHANGED <<up, votes>>
    BY <1>2 DEF CountVote
  <2>2. m \in votes
    BY <1>2 DEF CountVote, IInv, Shape, DriversOK, DriverOK
  <2>3. QED
    BY <2>1, <2>2, AcceptStep
<1>3. QED
  BY <1>1, <1>2

\* The commit and the handlers of certificates observe what they are sent.
LEMMA ObservingRemembers ==
    ASSUME IInv, NEW v \in Validators,
           Finalize(v) \/ \E n \in notices : HandleNotice(v, n)
    PROVE  Remembered'
<1>1. CASE Finalize(v)
  <2>1. driver[v].qc \in QCOrNone
    BY DEF IInv, Shape, TypeOK, Driver
  <2>2. QED
    BY <1>1, <2>1, ObserveStep DEF Finalize, history
<1>2. ASSUME NEW n \in notices, HandleNotice(v, n) PROVE Remembered'
  <2>1. n.qc \in QCOrNone
    BY DEF IInv, Shape, TypeOK, Notice
  <2>2. QED
    BY <1>2, <2>1, ObserveStep DEF HandleNotice, Serving, history
<1>3. QED
  BY <1>1, <1>2

-----------------------------------------------------------------------------
(* Timing out *)

\* make_timeout_vote leaves votes and certificates alone.
LEMMA CastTimeoutRemembers ==
    ASSUME IInv, NEW v \in up, NEW h \in Nat, NEW r \in Nat \ {0},
           CastTimeout(v, h, r), UNCHANGED <<up, votes, qcs>>
    PROVE  Remembered'
<1> DEFINE c == [core[v] EXCEPT !.timedOut = @ \cup {<<h, r>>}]
           d == LogTimeout(db[v], TimeoutOf(v, h, r))
<1>1. /\ v \in Validators /\ core[v] \in Core /\ db[v] \in Database
      /\ Durable(v, db[v], votes) /\ Running(v, core[v], db[v], votes)
      /\ core[v].tally \subseteq votes
  BY RunningOne
<1>2. TimeoutOf(v, h, r) \in TimeoutVote
  BY <1>1 DEF TimeoutOf, TimeoutVote, Core
<1>3. c \in Core /\ d \in Database
  BY <1>1, <1>2, LogTimeoutTyped DEF Core
<1>4. /\ c.pace = core[v].pace /\ c.high = core[v].high /\ c.locked = core[v].locked
      /\ c.choice = core[v].choice /\ c.tally = core[v].tally
  BY <1>1 DEF Core
<1>5. d.pace = db[v].pace /\ d.high = db[v].high /\ d.locked = db[v].locked /\ d.votes = db[v].votes
  BY <1>1 DEF LogTimeout, Database
<1>6. Running(v, c, d, votes) /\ Durable(v, d, votes)
  BY <1>1, <1>4, <1>5 DEF Running, Durable
<1>7. core' = [core EXCEPT ![v] = c] /\ db' = [db EXCEPT ![v] = d]
  BY <1>1 DEF CastTimeout, IInv, Shape, TypeOK
<1>8. QED
  BY <1>1, <1>3, <1>4, <1>6, <1>7, StepOfOne

\* run_mvp_timeout_round and _on_consensus_timeout_vote.
LEMMA TimingOutRemembers ==
    ASSUME IInv, NEW v \in Validators,
           \/ \E ps \in PeerSets : StartTimeout(v, ps)
           \/ \E m \in requests : HandleTimeout(v, m)
    PROVE  Remembered'
<1>1. ASSUME NEW ps \in PeerSets, StartTimeout(v, ps) PROVE Remembered'
  <2>1. Len(chain[v]) + 1 \in Nat /\ core[v].pace.current \in Nat \ {0}
    BY LenProperties DEF IInv, Shape, TypeOK, Blocks, Core, Pace
  <2>2. /\ v \in up /\ CastTimeout(v, Len(chain[v]) + 1, core[v].pace.current)
        /\ UNCHANGED <<up, votes, qcs>>
    BY <1>1 DEF StartTimeout
  <2>3. QED
    BY <2>1, <2>2, CastTimeoutRemembers
<1>2. ASSUME NEW m \in requests, HandleTimeout(v, m) PROVE Remembered'
  <2>1. m.prop.height \in Nat /\ m.prop.round \in Nat \ {0}
    BY DEF IInv, Shape, TypeOK, Request, Proposal
  <2>2. v \in up /\ UNCHANGED <<up, votes, qcs>>
    BY <1>2 DEF HandleTimeout, Serving
  <2>3. CASE CastTimeout(v, m.prop.height, m.prop.round)
    BY <2>1, <2>2, <2>3, CastTimeoutRemembers
  <2>4. CASE UNCHANGED <<core, db>>
    BY <2>2, <2>4, NothingForgotten DEF IInv
  <2>5. QED
    BY <1>2, <2>3, <2>4 DEF HandleTimeout
<1>3. QED
  BY <1>1, <1>2

\* A running validator's pacemaker moves on a timeout certificate (observe_tc).
LEMMA MovesOn ==
    ASSUME IInv, NEW v \in up, NEW c \in Core, NEW d \in Database, NEW r \in Nat \ {0},
           Durable(v, d, votes), Running(v, c, d, votes), c.tally \subseteq votes,
           core' = [core EXCEPT ![v] = ObserveTC(c, r)],
           db' = [db EXCEPT ![v] = SaveRuntime(d, ObserveTC(c, r))],
           UNCHANGED <<up, votes, qcs>>
    PROVE  Remembered'
<1> DEFINE o == ObserveTC(c, r)
<1>1. NoteTC(c.pace, r) \in Pace
  BY NoteTCTyped DEF Core
<1>2. o \in Core /\ o.tally = c.tally
  BY <1>1 DEF ObserveTC, Core
<1>3. SaveRuntime(d, o) \in Database
  BY <1>2, SaveRuntimeTyped
<1>4. Running(v, o, SaveRuntime(d, o), votes) /\ Durable(v, SaveRuntime(d, o), votes)
  BY RunningOne, ObserveTCKeepsContract
<1>5. QED
  BY <1>2, <1>3, <1>4, RunningOne, StepOfOne

\* accept_timeout_vote and _on_consensus_timeout_cert.
LEMMA MovingOnRemembers ==
    ASSUME IInv, NEW v \in Validators,
           \/ \E t \in driver[v].got : CountTimeout(v, t)
           \/ \E n \in tcs : HandleTC(v, n)
    PROVE  Remembered'
<1>1. ASSUME NEW t \in driver[v].got, CountTimeout(v, t) PROVE Remembered'
  <2> DEFINE c == [core[v] EXCEPT !.timeouts = @ \cup {t}]
             d == LogTimeout(db[v], t)
             certified == TimedOut(c.timeouts, t)
  <2>1. v \in up /\ UNCHANGED <<up, votes, qcs>>
    BY <1>1 DEF CountTimeout, history
  <2>2. t \in TimeoutVote
    BY <1>1 DEF CountTimeout, IInv, Shape, TypeOK, DriversOK, DriverOK
  <2>3. /\ core[v] \in Core /\ db[v] \in Database
        /\ Durable(v, db[v], votes) /\ Running(v, core[v], db[v], votes)
        /\ core[v].tally \subseteq votes
    BY <2>1, RunningOne
  <2>4. c \in Core /\ d \in Database
    BY <2>2, <2>3, LogTimeoutTyped DEF Core
  <2>5. /\ c.pace = core[v].pace /\ c.high = core[v].high /\ c.locked = core[v].locked
        /\ c.choice = core[v].choice /\ c.tally = core[v].tally
    BY <2>3 DEF Core
  <2>6. d.pace = db[v].pace /\ d.high = db[v].high /\ d.locked = db[v].locked /\ d.votes = db[v].votes
    BY <2>3 DEF LogTimeout, Database
  <2>7. Running(v, c, d, votes) /\ Durable(v, d, votes)
    BY <2>3, <2>5, <2>6 DEF Running, Durable
  <2>8. CASE certified
    <3>1. /\ core' = [core EXCEPT ![v] = ObserveTC(c, t.round)]
          /\ db' = [db EXCEPT ![v] = SaveRuntime(d, ObserveTC(c, t.round))]
      BY <1>1, <2>8 DEF CountTimeout
    <3>2. t.round \in Nat \ {0}
      BY <2>2 DEF TimeoutVote
    <3>3. QED
      BY <2>1, <2>3, <2>4, <2>5, <2>7, <3>1, <3>2, MovesOn
  <2>9. CASE ~certified
    <3>1. core' = [core EXCEPT ![v] = c] /\ db' = [db EXCEPT ![v] = d]
      BY <1>1, <2>9 DEF CountTimeout
    <3>2. QED
      BY <2>1, <2>3, <2>4, <2>5, <2>7, <3>1, StepOfOne
  <2>10. QED
    BY <2>8, <2>9
<1>2. ASSUME NEW n \in tcs, HandleTC(v, n) PROVE Remembered'
  <2>1. n.round \in Nat \ {0}
    BY DEF IInv, Shape, TypeOK, TCNotice
  <2>2. v \in up /\ UNCHANGED <<up, votes, qcs>>
    BY <1>2 DEF HandleTC, Serving, history
  <2>3. /\ core' = [core EXCEPT ![v] = ObserveTC(core[v], n.round)]
        /\ db' = [db EXCEPT ![v] = SaveRuntime(db[v], ObserveTC(core[v], n.round))]
    BY <1>2 DEF HandleTC
  <2>4. QED
    BY <2>1, <2>2, <2>3, RunningOne, MovesOn
<1>3. QED
  BY <1>1, <1>2

-----------------------------------------------------------------------------
(* Crashing and restarting *)

\* A crash that leaves a durable database.
LEMMA FailRemembers ==
    ASSUME IInv, NEW v \in Validators, NEW d \in Database, Fail(v, d), Durable(v, d, votes),
           \A q \in qcs' : q \in qcs \/ HasQuorum(Signers(votes, q))
    PROVE  Remembered'
<1>1. Load(v, d) \in Core
  BY LoadTyped
<1>2. Load(v, d).tally = d.votes /\ d.votes \subseteq votes
  BY DEF Load, Durable
<1>3. /\ up' = up \ {v} /\ db' = [db EXCEPT ![v] = d] /\ core' = [core EXCEPT ![v] = Load(v, d)]
      /\ UNCHANGED votes
  BY DEF Fail
<1>4. QED
  BY <1>1, <1>2, <1>3, StepOfOne

\* Crashes between and inside operations, and restarts.
LEMMA BreakRemembers ==
    ASSUME IInv, NEW v \in Validators, Break(v)
    PROVE  Remembered'
<1>1. core[v] \in Core /\ db[v] \in Database /\ Durable(v, db[v], votes)
  BY DEF IInv, Shape, TypeOK, Remembered
<1>2. CASE Crash(v)
  BY <1>1, <1>2, FailRemembers DEF Crash
<1>3. CASE CrashObserving(v)
  <2>1. PICK q \in Observing(v) : \E d \in InterruptedObserve(db[v], core[v], q) : Fail(v, d)
    BY <1>3 DEF CrashObserving
  <2>2. PICK d \in InterruptedObserve(db[v], core[v], q) : Fail(v, d)
    BY <2>1
  <2>3. q \in QC
    BY ObservingTyped DEF IInv
  <2>4. v \in up
    BY <2>2 DEF Fail
  <2>5. d \in Database /\ Durable(v, d, votes)
    BY <1>1, <2>3, <2>4, RunningOne, InterruptedObserveTyped, InterruptedKeepsContract
  <2>6. UNCHANGED qcs
    BY <1>3 DEF CrashObserving
  <2>7. QED
    BY <2>2, <2>5, <2>6, FailRemembers
<1>4. ASSUME NEW m, CrashCounting(v, m) PROVE Remembered'
  <2> DEFINE q == CertifiedBy(core[v], m)
             logged == LogVote(db[v], m)
  <2>1. m \in votes /\ m \in Vote
    BY <1>4, CountedIsVote DEF IInv
  <2>2. v \in up
    BY <1>4 DEF CrashCounting, Fail
  <2>3. logged \in Database /\ q \in QCOrNone
    BY <1>1, <2>1, LogVoteTyped, CertifiedByTyped
  <2>4. /\ Durable(v, logged, votes)
        /\ Running(v, Tally(core[v], m), logged, votes)
    BY <1>1, <2>1, <2>2, RunningOne, RecordKeepsContract DEF IInv, Remembered
  <2>5. Running(v, core[v], logged, votes)
    <3>1. /\ Tally(core[v], m).pace = core[v].pace /\ Tally(core[v], m).high = core[v].high
          /\ Tally(core[v], m).locked = core[v].locked /\ Tally(core[v], m).choice = core[v].choice
      BY <1>1 DEF Tally, Core
    <3>2. QED
      BY <2>4, <3>1 DEF Running
  <2>6. CASE Fail(v, logged) /\ UNCHANGED qcs
    BY <2>3, <2>4, <2>6, FailRemembers
  <2>7. CASE /\ q # NoQC /\ qcs' = qcs \cup {q}
             /\ \E d \in InterruptedObserve(logged, core[v], q) : Fail(v, d)
    <3>1. PICK d \in InterruptedObserve(logged, core[v], q) : Fail(v, d)
      BY <2>7
    <3>2. q \in QC
      BY <2>3, <2>7 DEF QCOrNone
    <3>3. d \in Database /\ Durable(v, d, votes)
      BY <1>1, <2>2, <2>3, <2>4, <2>5, <3>2, RunningOne, InterruptedObserveTyped,
         InterruptedKeepsContract
    <3>4. HasQuorum(Signers(votes, q))
      BY <2>1, <2>7, CertificateIsBacked
    <3>5. QED
      BY <2>7, <3>1, <3>3, <3>4, FailRemembers
  <2>8. QED
    BY <1>4, <2>6, <2>7 DEF CrashCounting
<1>5. ASSUME NEW t \in driver[v].got, CrashTimingOut(v, t) PROVE Remembered'
  <2> DEFINE d == LogTimeout(db[v], t)
  <2>1. t \in TimeoutVote
    BY <1>5 DEF CrashTimingOut, IInv, Shape, TypeOK, DriversOK, DriverOK
  <2>2. d \in Database
    BY <1>1, <2>1, LogTimeoutTyped
  <2>3. d.pace = db[v].pace /\ d.high = db[v].high /\ d.locked = db[v].locked /\ d.votes = db[v].votes
    BY <1>1 DEF LogTimeout, Database
  <2>4. Durable(v, d, votes)
    BY <1>1, <2>3 DEF Durable
  <2>5. QED
    BY <1>5, <2>2, <2>4, FailRemembers DEF CrashTimingOut
<1>6. CASE Restart(v)
  <2>1. Load(v, db[v]) \in Core
    BY <1>1, LoadTyped
  <2>2. Load(v, db[v]).tally = db[v].votes /\ db[v].votes \subseteq votes
    BY <1>1 DEF Load, Durable
  <2>3. Running(v, Load(v, db[v]), db[v], votes)
    BY <1>1, <1>6, LoadKeepsContract DEF Restart, IInv, Shape, TypeOK
  <2>4. /\ core' = [core EXCEPT ![v] = Load(v, db[v])] /\ up' = up \cup {v}
        /\ UNCHANGED <<db, votes, qcs>>
    BY <1>6 DEF Restart, history
  <2>5. db' = [db EXCEPT ![v] = db[v]]
    BY <2>4 DEF IInv, Shape, TypeOK
  <2>6. QED
    BY <1>1, <2>1, <2>2, <2>3, <2>4, <2>5, StepOfOne
<1>7. QED
  BY <1>2, <1>3, <1>4, <1>5, <1>6 DEF Break

-----------------------------------------------------------------------------
(* Every behaviour *)

\* The initial state keeps the contract.
LEMMA InitRemembers == Init => Remembered
<1> SUFFICES ASSUME Init PROVE Remembered
  OBVIOUS
<1>1. votes = {} /\ qcs = {} /\ up = Validators
  BY DEF Init
<1>2. \A v \in Validators : db[v] = EmptyDatabase /\ core[v] = Load(v, EmptyDatabase)
  BY DEF Init
<1>3. \A v \in Validators : Durable(v, EmptyDatabase, {})
  BY DEF Durable, EmptyDatabase, FirstPace, NoQC
<1>4. \A v \in Validators : Running(v, Load(v, EmptyDatabase), EmptyDatabase, {})
  BY DEF Running, Load, EmptyDatabase, FirstPace, NoQC
<1>5. \A v \in Validators : Load(v, EmptyDatabase).tally = {}
  BY DEF Load, EmptyDatabase
<1>6. QED
  BY <1>1, <1>2, <1>3, <1>4, <1>5 DEF Remembered, OneChoice, QCsAreBacked

\* Every step keeps it.
LEMMA NextRemembers == IInv /\ [Next]_vars => Remembered'
<1> SUFFICES ASSUME IInv, [Next]_vars PROVE Remembered'
  OBVIOUS
<1>1. CASE UNCHANGED vars
  BY <1>1, NothingForgotten DEF IInv, vars
<1>2. ASSUME NEW l \in Drivers, Drive(l) PROVE Remembered'
  <2>1. l \in Validators
    BY NetAssumption
  <2>2. ASSUME \/ \E ps \in PeerSets, b \in Bodies : StartRound(l, ps, b)
               \/ \E v \in driver[l].left : Ask(l, v)
               \/ GiveUp(l) \/ EndPhase(l) \/ EndTimeout(l)
        PROVE  Remembered'
    BY <2>2, NothingForgotten
       DEF IInv, StartRound, Ask, GiveUp, EndPhase, EndTimeout, nodeVars, history
  <2>3. QED
    BY <1>2, <2>1, <2>2, BeginPhaseRemembers, CountingRemembers, ObservingRemembers,
       TimingOutRemembers, MovingOnRemembers DEF Drive
<1>3. ASSUME NEW v \in Validators, Handle(v) PROVE Remembered'
  <2>1. ASSUME NEW w \in Validators, FetchBlock(v, w) PROVE Remembered'
    BY <2>1, NothingForgotten DEF IInv, FetchBlock, history
  <2>2. QED
    BY <1>3, <2>1, HandleProposalRemembers, TimingOutRemembers, ObservingRemembers,
       MovingOnRemembers DEF Handle
<1>4. QED
  BY <1>1, <1>2, <1>3, BreakRemembers, NetAssumption DEF Next

\* The contract and the shape hold in every behaviour.
THEOREM InvariantHolds == Spec => []IInv
<1>1. Init => IInv
  BY InitHasShape, InitRemembers DEF IInv
<1>2. IInv /\ [Next]_vars => IInv'
  BY NextKeepsShape, NextRemembers DEF IInv
<1>3. QED
  BY <1>1, <1>2, PTL DEF Spec

\* A validator never votes for two blocks in one slot, whatever it forgot in a
\* crash and whoever asks it again (make_vote, the vote log and its pruning).
THEOREM VotesAreUnique == Spec => []OneVotePerSlot
<1>1. IInv => OneVotePerSlot
  BY DEF IInv, Remembered, OneChoice, OneVotePerSlot
<1>2. QED
  BY <1>1, InvariantHolds, PTL

\* No slot has certificates for two blocks, for any number of validators
\* (VoteCollector.add_vote, with its records restored from disk).
THEOREM CertificatesAreUnique == Spec => []OneQCPerSlot
<1>1. IInv => OneQCPerSlot
  <2> SUFFICES ASSUME IInv, NEW q1 \in qcs, NEW q2 \in qcs, SameSlot(q1, q2)
               PROVE  q1.block = q2.block
    BY DEF OneQCPerSlot
  <2>1. HasQuorum(Signers(votes, q1)) /\ HasQuorum(Signers(votes, q2))
    BY DEF IInv, Remembered, QCsAreBacked
  <2>2. PICK v \in Validators : v \in Signers(votes, q1) /\ v \in Signers(votes, q2)
    BY <2>1, QuorumsOverlap
  <2>3. PICK m1 \in votes : m1.voter = v /\ SameSlot(m1, q1) /\ m1.block = q1.block
    BY <2>2 DEF Signers
  <2>4. PICK m2 \in votes : m2.voter = v /\ SameSlot(m2, q2) /\ m2.block = q2.block
    BY <2>2 DEF Signers
  <2>5. SameSlot(m1, m2)
    BY <2>3, <2>4 DEF SameSlot
  <2>6. QED
    BY <2>3, <2>4, <2>5 DEF IInv, Remembered, OneChoice
<1>2. QED
  BY <1>1, InvariantHolds, PTL

\* Nothing a running host relies on is in memory only (_persist_runtime_state,
\* save_vote_record and prune_vote_log).
THEOREM MemoryIsOnDisk == Spec => []NothingOnlyInMemory
<1>1. IInv => NothingOnlyInMemory
  <2> SUFFICES ASSUME IInv, NEW v \in up
               PROVE  /\ db[v].pace = core[v].pace /\ db[v].high = core[v].high
                      /\ db[v].locked = core[v].locked
                      /\ \A m \in core[v].choice : Stale(core[v].pace, m.round) \/ m \in db[v].votes
    BY DEF NothingOnlyInMemory
  <2>1. /\ core[v] \in Core /\ Durable(v, db[v], votes) /\ Running(v, core[v], db[v], votes)
    BY RunningOne
  <2>2. ASSUME NEW m \in core[v].choice
        PROVE  Stale(core[v].pace, m.round) \/ m \in db[v].votes
    <3>1. m \in votes /\ m.voter = v
      BY <2>1 DEF Running
    <3>2. QED
      BY <2>1, <3>1, CoreNumbers DEF Durable, Running
  <2>3. QED
    BY <2>1, <2>2 DEF Running
<1>2. QED
  BY <1>1, InvariantHolds, PTL

\* A running host always passes its own check (validate_runtime_state).
THEOREM RuntimeStaysValid == Spec => []RuntimeStateValid
<1>1. IInv => RuntimeStateValid
  BY RunningOne, ContractIsValid DEF RuntimeStateValid
<1>2. QED
  BY <1>1, InvariantHolds, PTL

-----------------------------------------------------------------------------
(* The abstract vote layer *)

\* A proposal, a vote or a certificate within the bounds of the model.
Bounded(p) ==
    /\ p.height \in 1..MaxHeight /\ p.round \in 1..MaxRound
    /\ p.block \in [1..p.height -> Bodies]

\* What drivers propose, requests carry and votes back is within the bounds.
Within ==
    /\ \A l \in Validators :
         driver[l].pc # "idle" /\ driver[l].phase \in Phases => Bounded(driver[l].prop)
    /\ \A m \in requests : m.phase \in Phases => Bounded(m.prop)
    /\ \A m \in votes : Bounded(m)

\* What a step may do to votes and certificates.
NoVote == UNCHANGED <<votes, qcs>>
OneVote == /\ qcs' = qcs
           /\ \E m \in Vote : Bounded(m) /\ votes' = votes \cup {m}
OneQC == /\ votes' = votes
         /\ \E q \in QC : Bounded(q) /\ qcs' = qcs \cup {q}

Effect == NoVote \/ OneVote \/ OneQC

\* A vote for a bounded proposal is bounded (make_vote).
LEMMA VoteIsBounded ==
    ASSUME NEW v, NEW p, NEW phase, Bounded(p)
    PROVE  Bounded(VoteFor(v, p, phase))
  BY DEF Bounded, VoteFor

\* Stopping a call changes no proposal and leaves the driver idle.
LEMMA StopStaysWithin ==
    ASSUME Shape, Within, NEW l \in Validators, Stop(l), \A m \in votes' : Bounded(m)
    PROVE  Within'
<1>1. driver' = [driver EXCEPT ![l] = Idle] /\ Idle.pc = "idle"
  BY DEF Stop, Idle
<1>2. \A w \in Validators :
         driver'[w].pc # "idle" /\ driver'[w].phase \in Phases => Bounded(driver'[w].prop)
  BY <1>1 DEF Shape, TypeOK, Within
<1>3. \A m \in requests' : \E k \in requests : m.phase = k.phase /\ m.prop = k.prop
  <2>1. requests \subseteq Request
    BY DEF Shape, TypeOK
  <2>2. \A m \in Dropped(l) : m \in requests
    BY DEF Dropped
  <2>3. \A m \in Orphaned(l) : \E k \in requests : m.phase = k.phase /\ m.prop = k.prop
    BY <2>1 DEF Orphaned, Request
  <2>4. QED
    BY <2>2, <2>3 DEF Stop
<1>4. \A m \in requests' : m.phase \in Phases => Bounded(m.prop)
  BY <1>3 DEF Within
<1>5. QED
  BY <1>2, <1>4 DEF Within, Bounded

\* A step that gives driver l the record dr and adds no request.
LEMMA StepStaysWithin ==
    ASSUME Shape, Within, NEW l \in Validators, NEW dr, driver' = [driver EXCEPT ![l] = dr],
           requests' \subseteq requests, \A m \in votes' : Bounded(m),
           dr.pc # "idle" /\ dr.phase \in Phases => Bounded(dr.prop)
    PROVE  Within'
<1>1. \A w \in Validators : driver'[w] = IF w = l THEN dr ELSE driver[w]
  BY DEF Shape, TypeOK
<1>2. QED
  BY <1>1 DEF Within, Bounded

\* A delivered answer or refusal changes neither proposal nor phase.
LEMMA AnswerStaysWithin ==
    ASSUME Shape, Within, NEW m \in requests, NEW vote, AnswerWith(m, vote) \/ Refuse(m),
           requests' = requests \ {m}, \A k \in votes' : Bounded(k)
    PROVE  Within'
<1>1. m.from \in Validators
  BY DEF Shape, TypeOK, Request
<1>2. CASE ~m.live
  BY <1>2 DEF AnswerWith, Refuse, Within, Bounded
<1>3. CASE m.live
  <2>1. driver[m.from].pc = "wait" /\ driver[m.from] \in Driver
    BY <1>1, <1>3 DEF Shape, RequestsOK, TypeOK
  <2>2. \A w \in Validators : /\ driver'[w].phase = driver[w].phase /\ driver'[w].prop = driver[w].prop
                              /\ w # m.from => driver'[w].pc = driver[w].pc
    BY <1>1, <2>1 DEF AnswerWith, Refuse, Shape, TypeOK, Driver
  <2>3. QED
    BY <1>1, <2>1, <2>2 DEF Within, Bounded
<1>4. QED
  BY <1>2, <1>3

\* Steps that touch neither drivers nor requests nor votes.
LEMMA UntouchedStaysWithin ==
    ASSUME Within, UNCHANGED <<driver, requests, votes>>
    PROVE  Within'
  BY DEF Within, Bounded

-----------------------------------------------------------------------------
(* The steps *)

\* A new round's proposal is within the bounds of its guards.
LEMMA StartRoundRefines ==
    ASSUME IInv, Within, NEW l \in Validators, NEW ps, NEW b \in Bodies, StartRound(l, ps, b)
    PROVE  Within' /\ Effect
<1> DEFINE p == [height |-> Len(chain[l]) + 1, round |-> core[l].pace.current,
                 block |-> Append(chain[l], b), justify |-> core[l].high]
           dr == [pc |-> "begin", phase |-> "prepare", prop |-> p,
                  prev |-> NoQC, qc |-> NoQC, peers |-> ps, left |-> {}, got |-> {}]
<1>1. chain[l] \in Seq(Bodies) /\ core[l].pace.current \in Nat \ {0}
  BY DEF IInv, Shape, TypeOK, Blocks, Core, Pace
<1>2. /\ Len(chain[l]) \in Nat /\ Append(chain[l], b) \in Seq(Bodies)
      /\ Len(Append(chain[l], b)) = Len(chain[l]) + 1
  BY <1>1, LenProperties, AppendProperties
<1>3. p.block \in [1..p.height -> Bodies]
  BY <1>2, LenProperties
<1>4. p.height \in 1..MaxHeight /\ p.round \in 1..MaxRound
  BY <1>1, <1>2, NetAssumption DEF StartRound
<1>5. Bounded(p)
  BY <1>3, <1>4 DEF Bounded
<1>6. driver' = [driver EXCEPT ![l] = dr] /\ UNCHANGED <<requests, votes, qcs>>
  BY DEF StartRound, msgVars, history
<1>7. Within'
  BY <1>5, <1>6, StepStaysWithin DEF IInv, Within
<1>8. QED
  BY <1>6, <1>7 DEF Effect, NoVote

\* make_vote casts one bounded vote, at the driver and at its peers.
LEMMA VotingRefines ==
    ASSUME IInv, Within, NEW v \in Validators,
           BeginPhase(v) \/ \E m \in requests : HandleProposal(v, m)
    PROVE  Within' /\ Effect
<1>1. CASE BeginPhase(v)
  <2> DEFINE dr == driver[v]
             o == Observe(core[v], dr.prev)
             c == Observe(o, dr.prop.justify)
             e == ObserveInDb(db[v], core[v], dr.prev)
             d == ObserveInDb(e, o, dr.prop.justify)
             m == VoteFor(v, dr.prop, dr.phase)
  <2>1. dr \in Driver /\ dr.pc = "begin" /\ qcs' = qcs
    BY <1>1 DEF BeginPhase, IInv, Shape, TypeOK
  <2>2. dr.phase \in Phases /\ dr.prop \in Proposal /\ Bounded(dr.prop)
    BY <2>1 DEF IInv, Shape, DriversOK, DriverOK, Within, Driver
  <2>3. CASE MayVote(c, v, dr.prop, dr.phase)
    <3>1. votes' = votes \cup {m} /\ driver' = [driver EXCEPT ![v].pc = "own"] /\ UNCHANGED requests
      BY <1>1, <2>3 DEF BeginPhase, CastVote
    <3>2. m \in Vote /\ Bounded(m)
      BY <2>2, VoteForTyped, VoteIsBounded
    <3>3. driver' = [driver EXCEPT ![v] = [dr EXCEPT !.pc = "own"]]
      BY <3>1
    <3>4. [dr EXCEPT !.pc = "own"].prop = dr.prop
      BY <2>1 DEF Driver
    <3>5. Within'
      BY <2>2, <3>1, <3>2, <3>3, <3>4, StepStaysWithin DEF IInv, Within
    <3>6. QED
      BY <2>1, <3>1, <3>2, <3>5 DEF Effect, OneVote
  <2>4. CASE ~MayVote(c, v, dr.prop, dr.phase)
    <3>1. Stop(v) /\ votes' = votes
      BY <1>1, <2>4 DEF BeginPhase
    <3>2. QED
      BY <2>1, <3>1, StopStaysWithin DEF IInv, Within, Effect, NoVote
  <2>5. QED
    BY <2>3, <2>4
<1>2. ASSUME NEW m \in requests, HandleProposal(v, m) PROVE Within' /\ Effect
  <2> DEFINE k == VoteFor(v, m.prop, m.phase)
  <2>1. m.phase \in Phases /\ m.prop \in Proposal /\ Bounded(m.prop) /\ qcs' = qcs
    BY <1>2 DEF HandleProposal, IInv, Shape, TypeOK, Request, Within
  <2>2. requests' = requests \ {m}
    BY <1>2 DEF HandleProposal
  <2>3. k \in Vote /\ Bounded(k)
    BY <2>1, VoteForTyped, VoteIsBounded
  <2>4. CASE MayVote(Informed(v, m.prop), v, m.prop, m.phase)
    <3>1. votes' = votes \cup {k} /\ AnswerWith(m, k)
      BY <1>2, <2>4 DEF HandleProposal, CastVote
    <3>2. Within'
      BY <2>2, <2>3, <3>1, AnswerStaysWithin DEF IInv, Within
    <3>3. QED
      BY <2>1, <2>3, <3>1, <3>2 DEF Effect, OneVote
  <2>5. CASE ~MayVote(Informed(v, m.prop), v, m.prop, m.phase)
    <3>1. votes' = votes /\ Refuse(m)
      BY <1>2, <2>5 DEF HandleProposal
    <3>2. Within'
      BY <2>2, <3>1, AnswerStaysWithin DEF IInv, Within
    <3>3. QED
      BY <2>1, <3>1, <3>2 DEF Effect, NoVote
  <2>6. QED
    BY <2>4, <2>5
<1>3. QED
  BY <1>1, <1>2

\* A certificate that counting a vote completes is bounded as the vote is.
LEMMA CertificateIsBounded ==
    ASSUME IInv, Within, NEW l \in Validators, NEW m \in votes, CertifiedBy(core[l], m) # NoQC
    PROVE  CertifiedBy(core[l], m) \in QC /\ Bounded(CertifiedBy(core[l], m))
<1>1. Bounded(m) /\ m \in Vote /\ core[l] \in Core
  BY DEF Within, IInv, Shape, TypeOK
<1>2. CertifiedBy(core[l], m) \in QC
  BY <1>1, CertifiedByTyped DEF QCOrNone
<1>3. CertifiedBy(core[l], m) =
        [height |-> m.height, round |-> m.round, phase |-> m.phase, block |-> m.block]
  BY DEF CertifiedBy
<1>4. QED
  BY <1>1, <1>2, <1>3 DEF Bounded

\* accept_vote completes at most one certificate.
LEMMA CountingRefines ==
    ASSUME IInv, Within, NEW l \in Validators,
           CountOwnVote(l) \/ \E m \in driver[l].got : CountVote(l, m)
    PROVE  Within' /\ Effect
<1> DEFINE dr == driver[l]
<1>1. dr \in Driver
  BY DEF IInv, Shape, TypeOK
<1>2. ASSUME NEW m \in votes, AcceptVote(l, m), votes' = votes PROVE Effect
  <2> DEFINE q == CertifiedBy(core[l], m)
  <2>1. CASE q = NoQC
    BY <1>2, <2>1 DEF AcceptVote, Effect, NoVote
  <2>2. CASE q # NoQC
    BY <1>2, <2>2, CertificateIsBounded DEF AcceptVote, Effect, OneQC
  <2>3. QED
    BY <2>1, <2>2
<1>3. CASE CountOwnVote(l)
  <2> DEFINE m == VoteFor(l, dr.prop, dr.phase)
             new == [dr EXCEPT !.pc = "ask", !.left = dr.peers \ {l}, !.qc = QcAfter(l, m)]
  <2>1. /\ dr.pc = "own" /\ AcceptVote(l, m) /\ driver' = [driver EXCEPT ![l] = new]
        /\ UNCHANGED <<votes, requests>>
    BY <1>3 DEF CountOwnVote, msgVars
  <2>2. m \in votes
    BY <2>1 DEF IInv, Shape, DriversOK, DriverOK
  <2>3. new.prop = dr.prop /\ new.phase = dr.phase
    BY <1>1 DEF Driver
  <2>4. Within'
    BY <2>1, <2>3, StepStaysWithin DEF IInv, Within
  <2>5. QED
    BY <1>2, <2>1, <2>2, <2>4
<1>4. ASSUME NEW m \in dr.got, CountVote(l, m) PROVE Within' /\ Effect
  <2> DEFINE new == [dr EXCEPT !.got = @ \ {m}, !.qc = QcAfter(l, m)]
  <2>1. /\ dr.pc = "ask" /\ dr.phase \in Phases /\ AcceptVote(l, m)
        /\ driver' = [driver EXCEPT ![l] = new] /\ UNCHANGED <<votes, requests>>
    BY <1>4 DEF CountVote, msgVars
  <2>2. m \in votes
    BY <2>1 DEF IInv, Shape, DriversOK, DriverOK
  <2>3. new.prop = dr.prop /\ new.phase = dr.phase
    BY <1>1 DEF Driver
  <2>4. Within'
    BY <2>1, <2>3, StepStaysWithin DEF IInv, Within
  <2>5. QED
    BY <1>2, <2>1, <2>2, <2>4
<1>5. QED
  BY <1>3, <1>4

\* Asking a peer sends it the driver's own proposal.
LEMMA AskRefines ==
    ASSUME IInv, Within, NEW l \in Validators, NEW v \in driver[l].left, Ask(l, v)
    PROVE  Within' /\ Effect
<1> DEFINE dr == driver[l]
           new == [dr EXCEPT !.pc = "wait", !.left = @ \ {v}]
           m == [from |-> l, to |-> v, phase |-> dr.phase, prop |-> dr.prop, live |-> TRUE]
<1>1. /\ dr \in Driver /\ dr.pc = "ask" /\ driver' = [driver EXCEPT ![l] = new]
      /\ requests' = requests \cup {m} /\ UNCHANGED <<votes, qcs>>
  BY DEF Ask, IInv, Shape, TypeOK, history
<1>2. m.phase = dr.phase /\ m.prop = dr.prop
  OBVIOUS
<1>3. new.prop = dr.prop /\ new.phase = dr.phase
  BY <1>1 DEF Driver
<1>4. \A w \in Validators : driver'[w] = IF w = l THEN new ELSE driver[w]
  BY <1>1 DEF IInv, Shape, TypeOK
<1>5. Within'
  BY <1>1, <1>2, <1>3, <1>4 DEF Within, Bounded
<1>6. QED
  BY <1>1, <1>5 DEF Effect, NoVote

\* The ends of phases and calls cast no vote.
LEMMA EndingRefines ==
    ASSUME IInv, Within, NEW l \in Validators,
           GiveUp(l) \/ EndPhase(l) \/ Finalize(l) \/ EndTimeout(l)
    PROVE  Within' /\ Effect
<1>1. UNCHANGED <<votes, qcs>>
  BY DEF GiveUp, EndPhase, Finalize, EndTimeout, history
<1>2. CASE Stop(l)
  BY <1>1, <1>2, StopStaysWithin DEF IInv, Within, Effect, NoVote
<1>3. CASE EndPhase(l) /\ ~Stop(l)
  <2> DEFINE dr == driver[l]
             last == [dr EXCEPT !.pc = "final"]
             next == [dr EXCEPT !.pc = "begin", !.phase = NextPhase[dr.phase],
                                !.prev = dr.qc, !.qc = NoQC]
             new == IF LastPhase(dr.phase) THEN last ELSE next
  <2>1. /\ dr \in Driver /\ dr.pc = "ask" /\ dr.phase \in Phases
        /\ driver' = [driver EXCEPT ![l] = new] /\ UNCHANGED requests
    BY <1>3 DEF EndPhase, IInv, Shape, TypeOK
  <2>2. new.prop = dr.prop
    BY <2>1 DEF Driver
  <2>3. Within'
    BY <1>1, <2>1, <2>2, StepStaysWithin DEF IInv, Within
  <2>4. QED
    BY <1>1, <2>3 DEF Effect, NoVote
<1>4. QED
  BY <1>2, <1>3 DEF GiveUp, Finalize, EndTimeout

\* Timing out casts no vote and proposes no block.
LEMMA TimingOutRefines ==
    ASSUME IInv, Within, NEW v \in Validators,
           \/ \E ps \in PeerSets : StartTimeout(v, ps)
           \/ \E m \in requests : HandleTimeout(v, m)
           \/ \E t \in driver[v].got : CountTimeout(v, t)
    PROVE  Within' /\ Effect
<1>1. UNCHANGED <<votes, qcs>>
  BY DEF StartTimeout, HandleTimeout, CountTimeout, history
<1>2. ASSUME NEW ps \in PeerSets, StartTimeout(v, ps) PROVE Within'
  <2> DEFINE h == Len(chain[v]) + 1
             r == core[v].pace.current
             new == [Idle EXCEPT !.pc = "ask", !.phase = "timeout", !.peers = ps, !.left = ps \ {v},
                                 !.got = {TimeoutOf(v, h, r)},
                                 !.prop = [NoProposal EXCEPT !.height = h, !.round = r]]
  <2>1. driver' = [driver EXCEPT ![v] = new] /\ UNCHANGED requests
    BY <1>2 DEF StartTimeout, msgVars
  <2>2. new.phase \notin Phases
    BY TimeoutIsNoPhase DEF Idle
  <2>3. QED
    BY <1>1, <2>1, <2>2, StepStaysWithin DEF IInv, Within
<1>3. ASSUME NEW m \in requests, HandleTimeout(v, m) PROVE Within'
  BY <1>1, <1>3, AnswerStaysWithin DEF IInv, Within, HandleTimeout
<1>4. ASSUME NEW t \in driver[v].got, CountTimeout(v, t) PROVE Within'
  <2>1. /\ driver[v] \in Driver /\ driver[v].phase = "timeout" /\ UNCHANGED requests
        /\ driver' = [driver EXCEPT ![v] = [driver[v] EXCEPT !.got = @ \ {t}]]
    BY <1>4 DEF CountTimeout, msgVars, IInv, Shape, TypeOK
  <2>2. [driver[v] EXCEPT !.got = @ \ {t}].phase \notin Phases
    BY <2>1, TimeoutIsNoPhase DEF Driver
  <2>3. QED
    BY <1>1, <2>1, <2>2, StepStaysWithin DEF IInv, Within
<1>5. QED
  BY <1>1, <1>2, <1>3, <1>4 DEF Effect, NoVote

\* A crash casts no vote; inside accept_vote it may leave a certificate.
LEMMA BreakRefines ==
    ASSUME IInv, Within, NEW v \in Validators, Break(v)
    PROVE  Within' /\ Effect
<1>1. ASSUME NEW d, Fail(v, d) PROVE Within' /\ votes' = votes
  BY <1>1, StopStaysWithin DEF Fail, IInv, Within
<1>2. CASE Crash(v) \/ CrashObserving(v) \/ \E t \in driver[v].got : CrashTimingOut(v, t)
  BY <1>1, <1>2 DEF Crash, CrashObserving, CrashTimingOut, Effect, NoVote
<1>3. ASSUME NEW m, CrashCounting(v, m) PROVE Within' /\ Effect
  <2> DEFINE q == CertifiedBy(core[v], m)
  <2>1. m \in votes
    BY <1>3, CountedIsVote DEF IInv
  <2>2. \E d : Fail(v, d)
    BY <1>3 DEF CrashCounting
  <2>3. Within' /\ votes' = votes
    BY <1>1, <2>2
  <2>4. CASE qcs' = qcs
    BY <2>3, <2>4 DEF Effect, NoVote
  <2>5. CASE q # NoQC /\ qcs' = qcs \cup {q}
    BY <2>1, <2>3, <2>5, CertificateIsBounded DEF Effect, OneQC
  <2>6. QED
    BY <1>3, <2>3, <2>4, <2>5 DEF CrashCounting
<1>4. CASE Restart(v)
  BY <1>4, UntouchedStaysWithin DEF Restart, msgVars, history, Effect, NoVote
<1>5. QED
  BY <1>2, <1>3, <1>4 DEF Break

\* Every step has one of the three effects and keeps within the bounds.
LEMMA NextRefines ==
    ASSUME IInv, Within, [Next]_vars
    PROVE  Within' /\ Effect
<1>1. CASE UNCHANGED vars
  BY <1>1, UntouchedStaysWithin DEF vars, Effect, NoVote
<1>2. ASSUME NEW l \in Drivers, Drive(l) PROVE Within' /\ Effect
  <2>1. l \in Validators
    BY NetAssumption
  <2>2. QED
    BY <1>2, <2>1, StartRoundRefines, VotingRefines, CountingRefines, AskRefines,
       EndingRefines, TimingOutRefines DEF Drive
<1>3. ASSUME NEW v \in Validators, Handle(v) PROVE Within' /\ Effect
  <2>1. ASSUME \/ \E n \in notices : HandleNotice(v, n)
               \/ \E n \in tcs : HandleTC(v, n)
               \/ \E w \in Validators : FetchBlock(v, w)
        PROVE  Within' /\ Effect
    BY <2>1, UntouchedStaysWithin
       DEF HandleNotice, HandleTC, FetchBlock, msgVars, history, Effect, NoVote
  <2>2. QED
    BY <1>3, <2>1, VotingRefines, TimingOutRefines DEF Handle
<1>4. QED
  BY <1>1, <1>2, <1>3, BreakRefines, NetAssumption DEF Next

-----------------------------------------------------------------------------
(* The refinement mapping *)

SlotOf(m) == [height |-> m.height, round |-> m.round, phase |-> m.phase]
Ballot(m) == [slot |-> SlotOf(m), voter |-> m.voter, block |-> m.block]
Cert(q) == [slot |-> SlotOf(q), block |-> q.block]

VoteSlots == [height : 1..MaxHeight, round : 1..MaxRound, phase : Phases]
VoteValues == UNION {[1..h -> Bodies] : h \in 1..MaxHeight}

\* A bounded vote or certificate has an abstract slot and block.
LEMMA BoundedIsAbstract ==
    ASSUME NEW m \in Vote \cup QC, Bounded(m)
    PROVE  SlotOf(m) \in VoteSlots /\ m.block \in VoteValues
<1>1. m.phase \in Phases
  BY DEF Vote, QC
<1>2. SlotOf(m) \in VoteSlots
  BY <1>1 DEF SlotOf, VoteSlots, Bounded
<1>3. m.block \in VoteValues
  BY DEF VoteValues, Bounded
<1>4. QED
  BY <1>2, <1>3

\* A vote that make_vote returns is a CastVote of the vote layer.
LEMMA OneVoteIsCastVote ==
    ASSUME votes \subseteq Vote, OneChoice(votes'), OneVote
    PROVE  VoteLayer!Next
<1>1. PICK m \in Vote : Bounded(m) /\ votes' = votes \cup {m}
  BY DEF OneVote
<1>2. qcs' = qcs
  BY DEF OneVote
<1>3. SlotOf(m) \in VoteSlots /\ m.block \in VoteValues /\ m.voter \in Validators
  BY <1>1, BoundedIsAbstract DEF Vote
<1>4. ASSUME NEW k \in votes, k.voter = m.voter, SlotOf(k) = SlotOf(m)
      PROVE  k.block = m.block
  <2>1. SameSlot(k, m)
    BY <1>4 DEF SameSlot, SlotOf
  <2>2. QED
    BY <1>1, <1>4, <2>1 DEF OneChoice
<1>5. VoteLayer!CastVote(m.voter, SlotOf(m), m.block)
  BY <1>1, <1>2, <1>4 DEF VoteLayer!CastVote, SlotOf
<1>6. QED
  BY <1>3, <1>5 DEF VoteLayer!Next, VoteSlots, VoteValues

\* The vote layer counts quorums as ValidatorSet does: it has the same validators.
LEMMA SameQuorums ==
    ASSUME NEW S, HasQuorum(S)
    PROVE  VoteLayer!HasQuorum(S)
<1>1. ASSUME NEW T PROVE VoteLayer!Cardinality(T) = Cardinality(T)
  BY Zenon DEF VoteLayer!Cardinality, Cardinality
<1>2. VoteLayer!N = N
  BY <1>1, Zenon DEF VoteLayer!N, N
<1>3. VoteLayer!QuorumSize = QuorumSize
  BY <1>2, Zenon DEF VoteLayer!QuorumSize, QuorumSize
<1>4. VoteLayer!Cardinality(S \cap Validators) = Cardinality(S \cap Validators)
  BY <1>1
<1>5. QED
  BY <1>3, <1>4, Zenon DEF VoteLayer!HasQuorum, HasQuorum

\* A certificate that accept_vote completes is a Certify of the vote layer.
LEMMA OneQCIsCertify ==
    ASSUME votes \subseteq Vote, QCsAreBacked', OneQC
    PROVE  VoteLayer!Next
<1>1. PICK q \in QC : Bounded(q) /\ qcs' = qcs \cup {q}
  BY DEF OneQC
<1>2. votes' = votes
  BY DEF OneQC
<1>3. SlotOf(q) \in VoteSlots /\ q.block \in VoteValues
  BY <1>1, BoundedIsAbstract
<1>4. HasQuorum(Signers(votes, q))
  BY <1>1, <1>2 DEF QCsAreBacked
<1>5. ASSUME NEW v \in Signers(votes, q) PROVE v \in VoteLayer!Supporters(SlotOf(q), q.block)
  <2>1. PICK m \in votes : m.voter = v /\ SameSlot(m, q) /\ m.block = q.block
    BY DEF Signers
  <2>2. SlotOf(m) = SlotOf(q) /\ v \in Validators
    BY <2>1 DEF SameSlot, SlotOf, Vote
  <2>3. QED
    BY <2>1, <2>2 DEF VoteLayer!Supporters, SlotOf
<1>6. VoteLayer!HasQuorum(VoteLayer!Supporters(SlotOf(q), q.block))
  <2>1. HasQuorum(VoteLayer!Supporters(SlotOf(q), q.block))
    BY <1>4, <1>5, QuorumsGrow
  <2>2. QED
    BY <2>1, SameQuorums
<1>7. VoteLayer!Certify(SlotOf(q), q.block)
  BY <1>1, <1>2, <1>6 DEF VoteLayer!Certify, SlotOf
<1>8. QED
  BY <1>3, <1>7 DEF VoteLayer!Next, VoteSlots, VoteValues

\* The cluster implements the vote layer: for every number of validators, every
\* loss, delay, crash and restart, votes and certificates appear only as
\* QuorumVoting allows (make_vote and accept_vote).
THEOREM ImplementsQuorumVoting == Spec => VotesLikeQuorumVoting
<1>1. Init => Within /\ VoteLayer!Init
  BY DEF Init, Within, Idle, VoteLayer!Init
<1>2. IInv /\ Within /\ [Next]_vars => Within'
  BY NextRefines
<1>3. IInv /\ IInv' /\ Within /\ [Next]_vars => [VoteLayer!Next]_(VoteLayer!vars)
  <2> SUFFICES ASSUME IInv, IInv', Within, [Next]_vars
               PROVE  VoteLayer!Next \/ UNCHANGED VoteLayer!vars
    OBVIOUS
  <2>1. votes \subseteq Vote
    BY DEF IInv, Shape, TypeOK
  <2>2. Effect
    BY NextRefines
  <2>3. CASE NoVote
    BY <2>3 DEF NoVote, VoteLayer!vars
  <2>4. CASE OneVote
    BY <2>1, <2>4, OneVoteIsCastVote DEF IInv, Remembered
  <2>5. CASE OneQC
    BY <2>1, <2>5, OneQCIsCertify DEF IInv, Remembered
  <2>6. QED
    BY <2>2, <2>3, <2>4, <2>5 DEF Effect
<1>4. Spec => []IInv
  BY InvariantHolds
<1>5. QED
  BY <1>1, <1>2, <1>3, <1>4, PTL DEF Spec, VotesLikeQuorumVoting, VoteLayer!Spec

-----------------------------------------------------------------------------
(***************************************************************************)
(* Nothing in ConsensusNet goes ahead of its evidence, for every set of    *)
(* validators and every pattern of crashes, losses and concurrent drivers: *)
(* a round is entered after a certificate or a quorum of timeouts, a vote  *)
(* of a phase is cast after the certificate of the phase before, a block   *)
(* is applied after its COMMIT certificate; and nobody's round, lock or    *)
(* highest certificate ever goes back.                                     *)
(*                                                                         *)
(* None of these is inductive: certificates travel in proposals, notices   *)
(* and drivers, and outlive crashes in databases.  Evidence says of each   *)
(* of these places that what it holds was really certified.                *)
(***************************************************************************)

\* The certificate a proposal or a vote asks for in a phase.
CertificateOf(p, phase) ==
    [height |-> p.height, round |-> p.round, phase |-> phase, block |-> p.block]

\* In what follows Q are certificates and T timeout votes.
Known(q, Q) == q = NoQC \/ q \in Q

\* The phase before this one has its certificate.
Backed(p, phase, Q) ==
    \A before \in Phases : PhaseRank[phase] = PhaseRank[before] + 1 => CertificateOf(p, before) \in Q

Decided(block, Q) == \E q \in Q : q.phase = "commit" /\ q.block = block

TimedOutBy(r, T) == \E t \in T : t.round = r /\ HasQuorum(TimeoutSigners(T, t))

Earned(r, Q, T) == r - 1 > 0 => (\E q \in Q : q.round = r - 1) \/ TimedOutBy(r - 1, T)

\* A core and its database, of a running host or of one that is down.
NodeOK(c, d, Q, T) ==
    /\ d.pace = c.pace /\ d.high = c.high /\ d.locked = c.locked
    /\ Known(c.high, Q) /\ Known(c.locked, Q)
    /\ Earned(c.pace.current, Q, T)
    /\ c.timeouts \subseteq T /\ d.timeouts \subseteq T

\* From core c to core e rounds, locks and certificates do not go back.
GoesOn(c, e) ==
    /\ e.pace.current >= c.pace.current
    /\ e.locked.round >= c.locked.round
    /\ ~Higher(c.high, e.high)

\* A driver collects votes for one certificate and holds nothing else.
Honest(dr, Q) ==
    /\ Known(dr.prev, Q) /\ Known(dr.qc, Q) /\ Known(dr.prop.justify, Q)
    /\ dr.phase \in Phases =>
            /\ Backed(dr.prop, dr.phase, Q)
            /\ dr.qc \in {NoQC, CertificateOf(dr.prop, dr.phase)}
            /\ \A m \in dr.got : CertificateOf(m, m.phase) = CertificateOf(dr.prop, dr.phase)
    /\ dr.pc = "final" => dr.phase = "commit" /\ dr.qc # NoQC

Asked(m, Q) ==
    /\ Known(m.prop.justify, Q)
    /\ m.phase \in Phases => Backed(m.prop, m.phase, Q)

Announced(n, Q) == Known(n.qc, Q) /\ Decided(n.block, Q)

Certified(ch, Q) == \A i \in 1..Len(ch) : Decided(SubSeq(ch, 1, i), Q)

NodesOK    == \A v \in Validators : NodeOK(core[v], db[v], qcs, timeoutVotes)
DriversHonest == \A l \in Validators : Honest(driver[l], qcs)
RequestsAsked ==
    \A m \in requests : Asked(m, qcs) /\ (m.live => m.prop = driver[m.from].prop)
NoticesTrue ==
    /\ \A n \in notices : Announced(n, qcs)
    /\ \A n \in tcs : TimedOutBy(n.round, timeoutVotes)
VotesBacked == \A m \in votes : Backed(m, m.phase, qcs)
ChainsCertified == \A v \in Validators : Certified(chain[v], qcs)

Evidence ==
    NodesOK /\ DriversHonest /\ RequestsAsked /\ NoticesTrue /\ VotesBacked /\ ChainsCertified

-----------------------------------------------------------------------------
(* Operations on one core *)

\* Ranks are numbers (PhaseRank).
LEMMA RanksAreNumbers == \A q \in QCOrNone : PhaseRank[q.phase] \in Nat /\ q.round \in Nat
  BY DEF PhaseRank, Phases, QCOrNone, QC, NoQC

\* A core does not go back by staying as it is in these three fields.
LEMMA StayingGoesOn ==
    ASSUME NEW c \in Core, NEW e, e.pace = c.pace, e.high = c.high, e.locked = c.locked
    PROVE  GoesOn(c, e)
<1>1. c.high \in QCOrNone /\ c.pace.current \in Nat /\ c.locked.round \in Nat
  BY CoreNumbers DEF Core
<1>2. ~Higher(c.high, c.high)
  BY <1>1, RanksAreNumbers DEF Higher
<1>3. QED
  BY <1>1, <1>2 DEF GoesOn

\* Going on twice is going on.
LEMMA GoingOnIsTransitive ==
    ASSUME NEW a \in Core, NEW b \in Core, NEW c \in Core, GoesOn(a, b), GoesOn(b, c)
    PROVE  GoesOn(a, c)
<1>1. \A x \in Core : /\ x.pace.current \in Nat /\ x.locked.round \in Nat
                      /\ x.high.round \in Nat /\ PhaseRank[x.high.phase] \in Nat
  BY CoreNumbers, RanksAreNumbers DEF Core
<1>2. QED
  BY <1>1 DEF GoesOn, Higher

\* More certificates and timeout votes never take evidence away.
LEMMA EvidenceGrows ==
    ASSUME NEW Q, NEW T \in SUBSET TimeoutVote, NEW Q2, NEW T2 \in SUBSET TimeoutVote,
           Q \subseteq Q2, T \subseteq T2
    PROVE  /\ \A r : TimedOutBy(r, T) => TimedOutBy(r, T2)
           /\ \A r : Earned(r, Q, T) => Earned(r, Q2, T2)
           /\ \A c, d : NodeOK(c, d, Q, T) => NodeOK(c, d, Q2, T2)
           /\ \A q : Known(q, Q) => Known(q, Q2)
           /\ \A p, phase : Backed(p, phase, Q) => Backed(p, phase, Q2)
           /\ \A b : Decided(b, Q) => Decided(b, Q2)
<1>1. \A t \in T : /\ TimeoutSigners(T, t) \subseteq TimeoutSigners(T2, t)
                   /\ TimeoutSigners(T2, t) \subseteq Validators
  BY DEF TimeoutSigners, TimeoutVote
<1>2. \A t \in T : HasQuorum(TimeoutSigners(T, t)) => HasQuorum(TimeoutSigners(T2, t))
  BY <1>1, QuorumsGrow
<1>3. \A r : TimedOutBy(r, T) => TimedOutBy(r, T2)
  BY <1>2 DEF TimedOutBy
<1>4. \A r : Earned(r, Q, T) => Earned(r, Q2, T2)
  BY <1>3 DEF Earned
<1>5. QED
  BY <1>3, <1>4 DEF NodeOK, Known, Backed, Decided

\* Observing a known certificate (observe_qc): the round it opens is earned by it.
LEMMA ObservingIsOK ==
    ASSUME NEW Q \in SUBSET QC, NEW T, NEW c \in Core, NEW d \in Database, NEW q,
           Known(q, Q), NodeOK(c, d, Q, T)
    PROVE  /\ NodeOK(Observe(c, q), ObserveInDb(d, c, q), Q, T)
           /\ GoesOn(c, Observe(c, q))
<1> DEFINE o == Observe(c, q)
           e == ObserveInDb(d, c, q)
<1>1. CASE q = NoQC
  BY <1>1, StayingGoesOn DEF Observe, ObserveInDb
<1>2. CASE q # NoQC
  <2>1. q \in Q /\ q \in QC
    BY <1>2 DEF Known
  <2>2. /\ o.pace = NoteQC(c.pace, q) /\ o.high = HighAfter(c.high, q)
        /\ o.locked = LockAfter(c.locked, q) /\ o.timeouts = c.timeouts
    BY <1>2 DEF Observe, Core
  <2>3. /\ e.pace = o.pace /\ e.high = o.high /\ e.locked = o.locked
        /\ e.timeouts \subseteq d.timeouts
    BY <1>2 DEF ObserveInDb, SaveRuntime, Prune, KeepFrom, Database
  <2>4. /\ c.pace.current \in Nat /\ q.round \in Nat /\ c.locked.round \in Nat
        /\ o.pace.current = Max2(c.pace.current, q.round + 1)
    BY <2>1, <2>2, CoreNumbers DEF NoteQC, Pace, QC
  <2>5. Earned(o.pace.current, Q, T)
    <3>1. CASE o.pace.current = c.pace.current
      BY <3>1 DEF NodeOK
    <3>2. CASE o.pace.current = q.round + 1
      BY <2>1, <2>4, <3>2 DEF Earned
    <3>3. QED
      BY <2>4, <3>1, <3>2 DEF Max2
  <2>6. Known(o.high, Q) /\ Known(o.locked, Q)
    BY <2>1, <2>2 DEF NodeOK, Known, HighAfter, LockAfter
  <2>7. NodeOK(o, e, Q, T)
    BY <2>2, <2>3, <2>5, <2>6 DEF NodeOK
  <2>8. o.pace.current >= c.pace.current
    BY <2>4 DEF Max2
  <2>9. o.locked.round >= c.locked.round
    BY <2>2, <2>4 DEF LockAfter
  <2>10. ~Higher(c.high, o.high)
    <3>1. c.high \in QCOrNone /\ q \in QCOrNone
      BY <2>1 DEF Core, QCOrNone
    <3>2. QED
      BY <2>2, <3>1, RanksAreNumbers DEF HighAfter, Higher
  <2>11. QED
    BY <2>7, <2>8, <2>9, <2>10 DEF GoesOn
<1>3. QED
  BY <1>1, <1>2

\* A restart from a database whose core was in order (ConsensusCore.__post_init__).
LEMMA LoadingIsOK ==
    ASSUME NEW Q, NEW T, NEW c \in Core, NEW d \in Database, NEW v \in Validators,
           NodeOK(c, d, Q, T)
    PROVE  NodeOK(Load(v, d), d, Q, T) /\ GoesOn(c, Load(v, d))
<1>1. /\ Load(v, d).pace = d.pace /\ Load(v, d).high = d.high /\ Load(v, d).locked = d.locked
      /\ Load(v, d).timeouts = d.timeouts
  BY DEF Load
<1>2. QED
  BY <1>1, StayingGoesOn DEF NodeOK

\* A restart after a crash inside observe_qc: the certificates may be newer than
\* the pacemaker, which is still the one that was earned.
LEMMA InterruptedIsOK ==
    ASSUME NEW Q \in SUBSET QC, NEW T, NEW c \in Core, NEW d \in Database, NEW q \in Q,
           NEW v \in Validators, NodeOK(c, d, Q, T), NEW e \in InterruptedObserve(d, c, q)
    PROVE  NodeOK(Load(v, e), e, Q, T) /\ GoesOn(c, Load(v, e))
<1> DEFINE saved  == [d EXCEPT !.high = HighAfter(c.high, q)]
           locked == [saved EXCEPT !.locked = LockAfter(c.locked, q)]
           pruned == [locked EXCEPT !.votes = KeepFrom(@, q.round)]
           o == Observe(c, q)
<1>1. q \in QC /\ q \in QCOrNone /\ q # NoQC
  BY DEF QC, NoQC, QCOrNone
<1>2. CASE e = ObserveInDb(d, c, q)
  <2>1. NodeOK(o, e, Q, T) /\ GoesOn(c, o) /\ o \in Core /\ e \in Database
    BY <1>1, <1>2, ObservingIsOK, ObserveTyped, ObserveInDbTyped DEF Known
  <2>2. NodeOK(Load(v, e), e, Q, T) /\ GoesOn(o, Load(v, e)) /\ Load(v, e) \in Core
    BY <2>1, LoadingIsOK, LoadTyped
  <2>3. QED
    BY <2>1, <2>2, GoingOnIsTransitive
<1>3. CASE e \in {saved, locked, pruned, Prune(locked, q)}
  <2>1. /\ saved.pace = d.pace /\ saved.high = HighAfter(c.high, q)
        /\ saved.locked = d.locked /\ saved.timeouts = d.timeouts /\ saved \in Database
    BY <1>1, CertificatesTyped DEF Database, Core
  <2>2. /\ locked.pace = d.pace /\ locked.high = HighAfter(c.high, q)
        /\ locked.locked = LockAfter(c.locked, q) /\ locked.timeouts = d.timeouts
        /\ locked \in Database
    BY <1>1, <2>1, CertificatesTyped DEF Database, Core
  <2>3. ASSUME NEW f \in {pruned, Prune(locked, q)}
        PROVE  /\ f.pace = d.pace /\ f.high = HighAfter(c.high, q)
               /\ f.locked = LockAfter(c.locked, q) /\ f.timeouts \subseteq d.timeouts
    <3>1. KeepFrom(d.timeouts, q.round) \subseteq d.timeouts
      BY DEF KeepFrom
    <3>2. CASE f = pruned
      BY <2>2, <3>2 DEF Database
    <3>3. CASE f = Prune(locked, q)
      BY <2>2, <3>1, <3>3 DEF Prune, Database
    <3>4. QED
      BY <3>2, <3>3
  <2>4. /\ e.pace = d.pace /\ e.high = HighAfter(c.high, q)
        /\ e.locked \in {d.locked, LockAfter(c.locked, q)} /\ e.timeouts \subseteq d.timeouts
    BY <1>3, <2>1, <2>2, <2>3
  <2>5. /\ Load(v, e).pace = e.pace /\ Load(v, e).high = e.high /\ Load(v, e).locked = e.locked
        /\ Load(v, e).timeouts = e.timeouts
    BY DEF Load
  <2>6. Known(HighAfter(c.high, q), Q) /\ Known(LockAfter(c.locked, q), Q)
    BY DEF NodeOK, Known, HighAfter, LockAfter
  <2>7. NodeOK(Load(v, e), e, Q, T)
    BY <2>4, <2>5, <2>6 DEF NodeOK
  <2>8. /\ c.pace.current \in Nat /\ c.locked.round \in Nat /\ q.round \in Nat
        /\ c.high \in QCOrNone
    BY <1>1, CoreNumbers DEF QC, Core
  <2>9. LockAfter(c.locked, q).round >= c.locked.round
    BY <2>8 DEF LockAfter
  <2>10. ~Higher(c.high, HighAfter(c.high, q))
    BY <1>1, <2>8, RanksAreNumbers DEF HighAfter, Higher
  <2>11. d.pace = c.pace /\ d.locked = c.locked
    BY DEF NodeOK
  <2>12. QED
    BY <2>4, <2>5, <2>7, <2>8, <2>9, <2>10, <2>11 DEF GoesOn
<1>4. e \in {saved, locked, pruned, Prune(locked, q), ObserveInDb(d, c, q)}
  BY DEF InterruptedObserve
<1>5. QED
  BY <1>2, <1>3, <1>4

\* Choosing, tallying and recording votes touch none of this.
LEMMA VotingIsOK ==
    ASSUME NEW Q, NEW T, NEW c \in Core, NEW d \in Database, NEW m,
           NodeOK(c, d, Q, T)
    PROVE  /\ NodeOK(Choose(c, m), LogVote(d, m), Q, T) /\ GoesOn(c, Choose(c, m))
           /\ NodeOK(Tally(c, m), LogVote(d, m), Q, T) /\ GoesOn(c, Tally(c, m))
           /\ NodeOK(c, LogVote(d, m), Q, T)
<1>1. /\ Choose(c, m).pace = c.pace /\ Choose(c, m).high = c.high
      /\ Choose(c, m).locked = c.locked /\ Choose(c, m).timeouts = c.timeouts
  BY DEF Choose, Core
<1>2. /\ Tally(c, m).pace = c.pace /\ Tally(c, m).high = c.high
      /\ Tally(c, m).locked = c.locked /\ Tally(c, m).timeouts = c.timeouts
  BY DEF Tally, Core
<1>3. /\ LogVote(d, m).pace = d.pace /\ LogVote(d, m).high = d.high
      /\ LogVote(d, m).locked = d.locked /\ LogVote(d, m).timeouts = d.timeouts
  BY DEF LogVote, Database
<1>4. QED
  BY <1>1, <1>2, <1>3, StayingGoesOn DEF NodeOK

\* So do a timeout vote's records, which hold votes that were cast.
LEMMA TimingOutIsOK ==
    ASSUME NEW Q, NEW T, NEW c \in Core, NEW d \in Database, NEW t \in T,
           NodeOK(c, d, Q, T)
    PROVE  /\ NodeOK(c, LogTimeout(d, t), Q, T)
           /\ \A x : NodeOK([c EXCEPT !.timedOut = @ \cup {x}], LogTimeout(d, t), Q, T)
           /\ \A x : GoesOn(c, [c EXCEPT !.timedOut = @ \cup {x}])
           /\ NodeOK([c EXCEPT !.timeouts = @ \cup {t}], LogTimeout(d, t), Q, T)
           /\ GoesOn(c, [c EXCEPT !.timeouts = @ \cup {t}])
<1>1. /\ LogTimeout(d, t).pace = d.pace /\ LogTimeout(d, t).high = d.high
      /\ LogTimeout(d, t).locked = d.locked /\ LogTimeout(d, t).timeouts \subseteq d.timeouts \cup {t}
  BY DEF LogTimeout, Database
<1>2. ASSUME NEW x
      PROVE  LET e == [c EXCEPT !.timedOut = @ \cup {x}]
             IN  e.pace = c.pace /\ e.high = c.high /\ e.locked = c.locked /\ e.timeouts = c.timeouts
  BY DEF Core
<1>3. LET e == [c EXCEPT !.timeouts = @ \cup {t}]
      IN  e.pace = c.pace /\ e.high = c.high /\ e.locked = c.locked /\ e.timeouts = c.timeouts \cup {t}
  BY DEF Core
<1>4. QED
  BY <1>1, <1>2, <1>3, StayingGoesOn DEF NodeOK

\* A timeout certificate that is true moves the pacemaker on (observe_tc).
LEMMA MovingOnIsOK ==
    ASSUME NEW Q, NEW T, NEW c \in Core, NEW d \in Database, NEW r \in Nat \ {0},
           TimedOutBy(r, T), NodeOK(c, d, Q, T)
    PROVE  LET o == ObserveTC(c, r) IN NodeOK(o, SaveRuntime(d, o), Q, T) /\ GoesOn(c, o)
<1> DEFINE o == ObserveTC(c, r)
           e == SaveRuntime(d, o)
<1>1. /\ o.pace = NoteTC(c.pace, r) /\ o.high = c.high
      /\ o.locked = c.locked /\ o.timeouts = c.timeouts
  BY DEF ObserveTC, Core
<1>2. e.pace = o.pace /\ e.high = o.high /\ e.locked = o.locked /\ e.timeouts = d.timeouts
  BY DEF SaveRuntime, Database
<1>3. /\ c.pace.current \in Nat /\ c.locked.round \in Nat
      /\ o.pace.current = Max2(c.pace.current, r + 1)
  BY <1>1, CoreNumbers DEF NoteTC, Pace
<1>4. Earned(o.pace.current, Q, T)
  <2>1. CASE o.pace.current = c.pace.current
    BY <2>1 DEF NodeOK
  <2>2. CASE o.pace.current = r + 1
    BY <2>2 DEF Earned
  <2>3. QED
    BY <1>3, <2>1, <2>2 DEF Max2
<1>5. o.pace.current >= c.pace.current
  BY <1>3 DEF Max2
<1>6. ~Higher(c.high, c.high)
  BY RanksAreNumbers DEF Higher, Core
<1>7. QED
  BY <1>1, <1>2, <1>3, <1>4, <1>5, <1>6 DEF NodeOK, GoesOn

-----------------------------------------------------------------------------
(* What an action may do to each part *)

\* A step from one state with the invariant to another, with all the evidence
\* there was and perhaps more.
Grounds ==
    /\ IInv /\ IInv' /\ Evidence
    /\ qcs \subseteq qcs' /\ timeoutVotes \subseteq timeoutVotes'

NobodyGoesBack == \A v \in Validators : GoesOn(core[v], core'[v])

\* What was true stays true when evidence is added.
LEMMA GroundsKeep ==
    ASSUME Grounds
    PROVE  /\ qcs' \in SUBSET QC
           /\ \A v \in Validators : core[v] \in Core /\ db[v] \in Database
           /\ \A v \in Validators : NodeOK(core[v], db[v], qcs', timeoutVotes')
           /\ \A l \in Validators : Honest(driver[l], qcs')
           /\ \A m \in requests : Asked(m, qcs')
           /\ \A n \in notices : Announced(n, qcs')
           /\ \A n \in tcs : TimedOutBy(n.round, timeoutVotes')
           /\ \A m \in votes : Backed(m, m.phase, qcs')
           /\ \A v \in Validators : Certified(chain[v], qcs')
<1>1. /\ timeoutVotes \in SUBSET TimeoutVote /\ timeoutVotes' \in SUBSET TimeoutVote
      /\ qcs' \in SUBSET QC
  BY DEF Grounds, IInv, Shape, TypeOK
<1>2. qcs \subseteq qcs' /\ timeoutVotes \subseteq timeoutVotes'
  BY DEF Grounds
<1>3. /\ \A c, d : NodeOK(c, d, qcs, timeoutVotes) => NodeOK(c, d, qcs', timeoutVotes')
      /\ \A r : TimedOutBy(r, timeoutVotes) => TimedOutBy(r, timeoutVotes')
      /\ \A q : Known(q, qcs) => Known(q, qcs')
      /\ \A p, phase : Backed(p, phase, qcs) => Backed(p, phase, qcs')
      /\ \A b : Decided(b, qcs) => Decided(b, qcs')
  BY <1>1, <1>2, EvidenceGrows
<1>4. \A v \in Validators : core[v] \in Core /\ db[v] \in Database
  BY DEF Grounds, IInv, Shape, TypeOK
<1>5. \A v \in Validators : NodeOK(core[v], db[v], qcs', timeoutVotes')
  BY <1>3 DEF Grounds, Evidence, NodesOK
<1>6. \A l \in Validators : Honest(driver[l], qcs')
  BY <1>3 DEF Grounds, Evidence, DriversHonest, Honest
<1>7. \A m \in requests : Asked(m, qcs')
  BY <1>3 DEF Grounds, Evidence, RequestsAsked, Asked
<1>8. \A n \in notices : Announced(n, qcs')
  BY <1>3 DEF Grounds, Evidence, NoticesTrue, Announced
<1>9. \A n \in tcs : TimedOutBy(n.round, timeoutVotes')
  BY <1>3 DEF Grounds, Evidence, NoticesTrue
<1>10. \A m \in votes : Backed(m, m.phase, qcs')
  BY <1>3 DEF Grounds, Evidence, VotesBacked
<1>11. \A v \in Validators : Certified(chain[v], qcs')
  BY <1>3 DEF Grounds, Evidence, ChainsCertified, Certified
<1>12. QED
  BY <1>1, <1>4, <1>5, <1>6, <1>7, <1>8, <1>9, <1>10, <1>11

\* Parts a step leaves alone.
LEMMA PartsStay ==
    ASSUME Grounds
    PROVE  /\ UNCHANGED <<core, db>> => NodesOK' /\ NobodyGoesBack
           /\ UNCHANGED <<driver, requests>> => DriversHonest' /\ RequestsAsked'
           /\ UNCHANGED <<notices, tcs>> => NoticesTrue'
           /\ UNCHANGED votes => VotesBacked'
           /\ UNCHANGED chain => ChainsCertified'
<1>1. UNCHANGED <<core, db>> => NodesOK' /\ NobodyGoesBack
  BY GroundsKeep, StayingGoesOn DEF NodesOK, NobodyGoesBack
<1>2. UNCHANGED <<driver, requests>> => DriversHonest' /\ RequestsAsked'
  BY GroundsKeep DEF DriversHonest, RequestsAsked, Grounds, Evidence
<1>3. UNCHANGED <<notices, tcs>> => NoticesTrue'
  BY GroundsKeep DEF NoticesTrue
<1>4. UNCHANGED votes => VotesBacked'
  BY GroundsKeep DEF VotesBacked
<1>5. UNCHANGED chain => ChainsCertified'
  BY GroundsKeep DEF ChainsCertified
<1>6. QED
  BY <1>1, <1>2, <1>3, <1>4, <1>5

\* One validator's core and database change.
LEMMA NodeSteps ==
    ASSUME Grounds, NEW v \in Validators, NEW c, NEW d,
           core' = [core EXCEPT ![v] = c], db' = [db EXCEPT ![v] = d],
           NodeOK(c, d, qcs', timeoutVotes'), GoesOn(core[v], c)
    PROVE  NodesOK' /\ NobodyGoesBack
<1>1. \A w \in Validators : /\ core'[w] = IF w = v THEN c ELSE core[w]
                            /\ db'[w] = IF w = v THEN d ELSE db[w]
  BY DEF Grounds, IInv, Shape, TypeOK
<1>2. \A w \in Validators : GoesOn(core[w], core[w])
  BY GroundsKeep, StayingGoesOn
<1>3. QED
  BY <1>1, <1>2, GroundsKeep DEF NodesOK, NobodyGoesBack

\* One driver goes on.
LEMMA DriverGoesOn ==
    ASSUME Grounds, NEW l \in Validators, NEW dr, driver[l].pc # "wait",
           driver' = [driver EXCEPT ![l] = dr], UNCHANGED requests, Honest(dr, qcs')
    PROVE  DriversHonest' /\ RequestsAsked'
<1>1. \A w \in Validators : driver'[w] = IF w = l THEN dr ELSE driver[w]
  BY DEF Grounds, IInv, Shape, TypeOK
<1>2. DriversHonest'
  BY <1>1, GroundsKeep DEF DriversHonest
<1>3. \A m \in requests : m.from \in Validators /\ (m.live => m.from # l)
  BY DEF Grounds, IInv, Shape, TypeOK, RequestsOK, Request
<1>4. RequestsAsked'
  BY <1>1, <1>3, GroundsKeep DEF RequestsAsked, Grounds, Evidence
<1>5. QED
  BY <1>2, <1>4

\* An idle driver holds nothing (Stop).
LEMMA IdleIsHonest == \A Q : Honest(Idle, Q)
  BY DEF Honest, Idle, NoProposal, Known, Backed, PhaseRank, Phases

\* A call ends.
LEMMA HonestStops ==
    ASSUME Grounds, NEW l \in Validators, Stop(l)
    PROVE  DriversHonest' /\ RequestsAsked'
<1>1. driver' = [driver EXCEPT ![l] = Idle] /\ requests' \in {Dropped(l), Orphaned(l)}
  BY DEF Stop
<1>2. \A w \in Validators : driver'[w] = IF w = l THEN Idle ELSE driver[w]
  BY <1>1 DEF Grounds, IInv, Shape, TypeOK
<1>3. DriversHonest'
  BY <1>2, IdleIsHonest, GroundsKeep DEF DriversHonest
<1>4. \A m \in requests : m \in Request /\ m.from \in Validators
  BY DEF Grounds, IInv, Shape, TypeOK, Request
<1>5. \A m \in requests' : \E k \in requests :
            /\ m.prop = k.prop /\ m.phase = k.phase /\ m.from = k.from
            /\ m.live => k.live /\ k.from # l
  BY <1>1, <1>4 DEF Dropped, Orphaned, Request
<1>6. ASSUME NEW m \in requests'
      PROVE  Asked(m, qcs') /\ (m.live => m.prop = driver'[m.from].prop)
  <2>1. PICK k \in requests : /\ m.prop = k.prop /\ m.phase = k.phase /\ m.from = k.from
                              /\ m.live => k.live /\ k.from # l
    BY <1>5
  <2>2. Asked(k, qcs') /\ (k.live => k.prop = driver[k.from].prop) /\ k.from \in Validators
    BY <1>4, GroundsKeep DEF Grounds, Evidence, RequestsAsked
  <2>3. QED
    BY <1>2, <2>1, <2>2 DEF Asked
<1>7. RequestsAsked'
  BY <1>6 DEF RequestsAsked
<1>8. QED
  BY <1>3, <1>7

\* An answer reaches the driver that still waits for it, or nobody: a vote it
\* takes is for the certificate it collects.
LEMMA HonestIsAnswered ==
    ASSUME Grounds, NEW m \in requests, requests' = requests \ {m}, NEW vote,
           \/ /\ AnswerWith(m, vote)
              /\ m.phase \in Phases => CertificateOf(vote, vote.phase) = CertificateOf(m.prop, m.phase)
           \/ Refuse(m)
    PROVE  DriversHonest' /\ RequestsAsked'
<1>1. m.from \in Validators /\ driver \in [Validators -> Driver] /\ driver[m.from] \in Driver
  BY DEF Grounds, IInv, Shape, TypeOK, Request
<1>2. /\ \A k \in requests : k.from \in Validators
      /\ \A k \in requests : k.live => k.prop = driver[k.from].prop
  BY DEF Grounds, IInv, Shape, TypeOK, Request, Evidence, RequestsAsked
<1>3. CASE ~m.live
  <2>1. driver' = driver
    BY <1>3 DEF AnswerWith, Refuse
  <2>2. QED
    BY <1>2, <2>1, GroundsKeep DEF DriversHonest, RequestsAsked
<1>4. CASE m.live
  <2> DEFINE dr == driver[m.from]
             asks == [dr EXCEPT !.pc = "ask", !.got = @ \cup {vote}]
             refused == [dr EXCEPT !.pc = "refused"]
  <2>1. dr.phase = m.phase /\ dr.prop = m.prop /\ Honest(dr, qcs')
    BY <1>1, <1>2, <1>4, GroundsKeep DEF Grounds, IInv, Shape, RequestsOK
  <2>2. /\ refused.prev = dr.prev /\ refused.qc = dr.qc /\ refused.prop = dr.prop
        /\ refused.phase = dr.phase /\ refused.got = dr.got /\ refused.pc = "refused"
    BY <1>1 DEF Driver
  <2>3. Honest(refused, qcs')
    BY <2>1, <2>2 DEF Honest
  <2>4. /\ asks.prev = dr.prev /\ asks.qc = dr.qc /\ asks.prop = dr.prop
        /\ asks.phase = dr.phase /\ asks.got = dr.got \cup {vote} /\ asks.pc = "ask"
    BY <1>1 DEF Driver
  <2>5. PICK new : /\ driver' = [driver EXCEPT ![m.from] = new]
                   /\ new.prop = dr.prop /\ Honest(new, qcs')
    <3>1. CASE Refuse(m)
      <4>1. driver' = [driver EXCEPT ![m.from] = refused]
        BY <1>1, <1>4, <3>1 DEF Refuse, Driver
      <4>2. QED
        BY <2>2, <2>3, <4>1
    <3>2. CASE AnswerWith(m, vote) /\ ~Refuse(m)
      <4>1. driver' = [driver EXCEPT ![m.from] = asks]
        BY <1>1, <1>4, <3>2 DEF AnswerWith, Driver
      <4>2. m.phase \in Phases => CertificateOf(vote, vote.phase) = CertificateOf(m.prop, m.phase)
        BY <3>2
      <4>3. Honest(asks, qcs')
        BY <2>1, <2>4, <4>2 DEF Honest
      <4>4. QED
        BY <2>4, <4>1, <4>3
    <3>3. QED
      BY <3>1, <3>2
  <2>6. \A w \in Validators : driver'[w] = IF w = m.from THEN new ELSE driver[w]
    BY <1>1, <2>5
  <2>7. DriversHonest'
    BY <2>5, <2>6, GroundsKeep DEF DriversHonest
  <2>8. RequestsAsked'
    BY <1>2, <2>5, <2>6, GroundsKeep DEF RequestsAsked
  <2>9. QED
    BY <2>7, <2>8
<1>5. QED
  BY <1>3, <1>4

-----------------------------------------------------------------------------
(* Driving a round *)

\* The phases and what each of them asks for (_drive_phase_over_network).
LEMMA LadderSteps ==
    ASSUME NEW p, NEW Q
    PROVE  /\ Backed(p, "prepare", Q)
           /\ CertificateOf(p, "prepare") \in Q => Backed(p, "precommit", Q)
           /\ CertificateOf(p, "precommit") \in Q => Backed(p, "commit", Q)
  BY DEF Backed, PhaseRank, Phases

\* A vote for a proposal asks for the proposal's own certificates.
LEMMA VotesAskAlike ==
    ASSUME NEW v, NEW p, NEW phase, NEW Q
    PROVE  /\ VoteFor(v, p, phase).phase = phase
           /\ \A x : CertificateOf(VoteFor(v, p, phase), x) = CertificateOf(p, x)
           /\ Backed(p, phase, Q) => Backed(VoteFor(v, p, phase), phase, Q)
  BY DEF VoteFor, CertificateOf, Backed

\* run_mvp_consensus_round begins: its justification is the host's own highest
\* certificate, and PREPARE needs none before it.
LEMMA StartRoundAdvances ==
    ASSUME IInv, IInv', Evidence, NEW l \in Validators, NEW ps, NEW b, StartRound(l, ps, b)
    PROVE  Evidence' /\ NobodyGoesBack
<1> DEFINE dr == [pc |-> "begin", phase |-> "prepare",
                  prop |-> [height |-> Len(chain[l]) + 1, round |-> core[l].pace.current,
                            block |-> Append(chain[l], b), justify |-> core[l].high],
                  prev |-> NoQC, qc |-> NoQC, peers |-> ps, left |-> {}, got |-> {}]
<1>1. /\ driver' = [driver EXCEPT ![l] = dr] /\ driver[l].pc = "idle"
      /\ UNCHANGED <<core, db, chain, requests, notices, tcs, votes, qcs, timeoutVotes>>
  BY DEF StartRound, nodeVars, msgVars, history
<1>2. Grounds
  BY <1>1 DEF Grounds
<1>3. Known(core[l].high, qcs')
  BY <1>2, GroundsKeep DEF NodeOK
<1>4. Honest(dr, qcs')
  BY <1>3, LadderSteps DEF Honest, Known
<1>5. DriversHonest' /\ RequestsAsked'
  BY <1>1, <1>2, <1>4, DriverGoesOn
<1>6. QED
  BY <1>1, <1>2, <1>5, PartsStay DEF Evidence

\* _drive_phase_over_network: what the host observes is certified, what it votes
\* for has the certificate of the phase before.
LEMMA BeginPhaseAdvances ==
    ASSUME IInv, IInv', Evidence, NEW l \in Validators, BeginPhase(l)
    PROVE  Evidence' /\ NobodyGoesBack
<1> DEFINE dr == driver[l]
           o == Observe(core[l], dr.prev)
           c == Observe(o, dr.prop.justify)
           e == ObserveInDb(db[l], core[l], dr.prev)
           d == ObserveInDb(e, o, dr.prop.justify)
           m == VoteFor(l, dr.prop, dr.phase)
<1>1. /\ dr.pc = "begin" /\ dr \in Driver /\ driver \in [Validators -> Driver]
      /\ UNCHANGED <<chain, notices, tcs, qcs, timeoutVotes>>
  BY DEF BeginPhase, IInv, Shape, TypeOK
<1>2. Grounds
  BY <1>1 DEF Grounds
<1>3. dr.phase \in Phases
  BY <1>1 DEF IInv, Shape, DriversOK, DriverOK
<1>4. /\ Known(dr.prev, qcs') /\ Known(dr.prop.justify, qcs') /\ Honest(dr, qcs')
      /\ Backed(dr.prop, dr.phase, qcs')
  BY <1>2, <1>3, GroundsKeep DEF Honest
<1>5. /\ core[l] \in Core /\ db[l] \in Database /\ o \in Core /\ e \in Database
      /\ c \in Core /\ d \in Database
  BY <1>1, <1>2, GroundsKeep, ObserveTyped, ObserveInDbTyped DEF Driver, Proposal
<1>6. NodeOK(o, e, qcs', timeoutVotes') /\ GoesOn(core[l], o)
  BY <1>2, <1>4, <1>5, GroundsKeep, ObservingIsOK
<1>7. NodeOK(c, d, qcs', timeoutVotes') /\ GoesOn(o, c)
  BY <1>2, <1>4, <1>5, <1>6, GroundsKeep, ObservingIsOK
<1>8. GoesOn(core[l], c)
  BY <1>5, <1>6, <1>7, GoingOnIsTransitive
<1>9. CASE MayVote(c, l, dr.prop, dr.phase)
  <2> DEFINE new == [dr EXCEPT !.pc = "own"]
  <2>1. /\ core' = [core EXCEPT ![l] = Choose(c, m)] /\ db' = [db EXCEPT ![l] = LogVote(d, m)]
        /\ votes' = votes \cup {m}
        /\ driver' = [driver EXCEPT ![l] = new] /\ UNCHANGED requests
    BY <1>9 DEF BeginPhase, CastVote
  <2>2. NodeOK(Choose(c, m), LogVote(d, m), qcs', timeoutVotes') /\ GoesOn(c, Choose(c, m))
    BY <1>5, <1>7, VotingIsOK
  <2>3. m \in Vote
    BY <1>1, <1>3, VoteForTyped DEF Driver
  <2>4. Choose(c, m) \in Core
    BY <1>5, <2>3 DEF Choose, Core
  <2>5. NodesOK' /\ NobodyGoesBack
    BY <1>2, <1>5, <1>8, <2>1, <2>2, <2>4, GoingOnIsTransitive, NodeSteps
  <2>6. /\ new.prev = dr.prev /\ new.qc = dr.qc /\ new.prop = dr.prop /\ new.phase = dr.phase
        /\ new.got = dr.got /\ new.pc = "own"
    BY <1>1 DEF Driver
  <2>7. Honest(new, qcs')
    BY <1>4, <2>6 DEF Honest
  <2>8. DriversHonest' /\ RequestsAsked'
    BY <1>1, <1>2, <2>1, <2>7, DriverGoesOn
  <2>9. Backed(m, m.phase, qcs')
    BY <1>4, VotesAskAlike
  <2>10. VotesBacked'
    BY <1>2, <2>1, <2>9, GroundsKeep DEF VotesBacked
  <2>11. QED
    BY <1>1, <1>2, <2>5, <2>8, <2>10, PartsStay DEF Evidence
<1>10. CASE ~MayVote(c, l, dr.prop, dr.phase)
  <2>1. /\ core' = [core EXCEPT ![l] = c] /\ db' = [db EXCEPT ![l] = d]
        /\ Stop(l) /\ UNCHANGED votes
    BY <1>10 DEF BeginPhase
  <2>2. NodesOK' /\ NobodyGoesBack
    BY <1>2, <1>7, <1>8, <2>1, NodeSteps
  <2>3. DriversHonest' /\ RequestsAsked'
    BY <1>2, <2>1, HonestStops
  <2>4. QED
    BY <1>1, <1>2, <2>1, <2>2, <2>3, PartsStay DEF Evidence
<1>11. QED
  BY <1>9, <1>10

\* accept_vote: a certificate is observed once it is one.
LEMMA AcceptingIsOK ==
    ASSUME Grounds, NEW l \in Validators, NEW m \in Vote, AcceptVote(l, m)
    PROVE  /\ NodesOK' /\ NobodyGoesBack
           /\ CertifiedBy(core[l], m) \in {NoQC, CertificateOf(m, m.phase)}
           /\ Known(CertifiedBy(core[l], m), qcs')
<1> DEFINE q == CertifiedBy(core[l], m)
           c == Tally(core[l], m)
           d == LogVote(db[l], m)
<1>1. /\ core' = [core EXCEPT ![l] = Observe(c, q)] /\ db' = [db EXCEPT ![l] = ObserveInDb(d, c, q)]
      /\ qcs' = IF q = NoQC THEN qcs ELSE qcs \cup {q}
  BY DEF AcceptVote
<1>2. q \in {NoQC, CertificateOf(m, m.phase)} /\ Known(q, qcs')
  BY <1>1 DEF CertifiedBy, CertificateOf, Known
<1>3. core[l] \in Core /\ db[l] \in Database /\ NodeOK(core[l], db[l], qcs', timeoutVotes')
  BY GroundsKeep
<1>4. c \in Core /\ d \in Database
  BY <1>3, LogVoteTyped DEF Tally, Core
<1>5. NodeOK(c, d, qcs', timeoutVotes') /\ GoesOn(core[l], c)
  BY <1>3, VotingIsOK
<1>6. NodeOK(Observe(c, q), ObserveInDb(d, c, q), qcs', timeoutVotes') /\ GoesOn(c, Observe(c, q))
  BY <1>2, <1>4, <1>5, GroundsKeep, ObservingIsOK
<1>7. q \in QCOrNone
  BY <1>3, CertifiedByTyped
<1>8. GoesOn(core[l], Observe(c, q))
  BY <1>3, <1>4, <1>5, <1>6, <1>7, ObserveTyped, GoingOnIsTransitive
<1>9. QED
  BY <1>1, <1>2, <1>6, <1>8, NodeSteps

\* The driver counts its own vote, then its peers': all of them are votes for
\* the certificate it collects.
LEMMA CountingAdvances ==
    ASSUME IInv, IInv', Evidence, NEW l \in Validators, NEW m,
           \/ CountOwnVote(l) /\ m = VoteFor(l, driver[l].prop, driver[l].phase)
           \/ CountVote(l, m)
    PROVE  Evidence' /\ NobodyGoesBack
<1> DEFINE dr == driver[l]
           own == [dr EXCEPT !.pc = "ask", !.left = dr.peers \ {l}, !.qc = QcAfter(l, m)]
           counted == [dr EXCEPT !.got = @ \ {m}, !.qc = QcAfter(l, m)]
<1>1. /\ AcceptVote(l, m) /\ dr \in Driver /\ dr.pc # "wait"
      /\ UNCHANGED <<chain, requests, notices, tcs, votes, timeoutVotes>>
      /\ driver' \in {[driver EXCEPT ![l] = own], [driver EXCEPT ![l] = counted]}
  BY DEF CountOwnVote, CountVote, msgVars, IInv, Shape, TypeOK
<1>2. Grounds
  BY <1>1 DEF Grounds, AcceptVote
<1>3. dr.phase \in Phases /\ m \in votes /\ m \in Vote
  BY DEF CountOwnVote, CountVote, IInv, Shape, TypeOK, DriversOK, DriverOK
<1>4. Honest(dr, qcs')
  BY <1>2, GroundsKeep
<1>5. CertificateOf(m, m.phase) = CertificateOf(dr.prop, dr.phase)
  <2>1. CASE m = VoteFor(l, dr.prop, dr.phase)
    BY <2>1 DEF VoteFor, CertificateOf
  <2>2. CASE CountVote(l, m)
    BY <1>3, <1>4, <2>2 DEF CountVote, Honest
  <2>3. QED
    BY <2>1, <2>2
<1>6. /\ NodesOK' /\ NobodyGoesBack
      /\ CertifiedBy(core[l], m) \in {NoQC, CertificateOf(dr.prop, dr.phase)}
      /\ Known(CertifiedBy(core[l], m), qcs')
  BY <1>1, <1>2, <1>3, <1>5, AcceptingIsOK
<1>7. Known(QcAfter(l, m), qcs') /\ QcAfter(l, m) \in {NoQC, CertificateOf(dr.prop, dr.phase)}
  BY <1>3, <1>4, <1>6 DEF QcAfter, Honest
<1>8. dr.pc \in {"own", "ask"}
  BY DEF CountOwnVote, CountVote
<1>9. Honest(own, qcs')
  <2>1. /\ own.prev = dr.prev /\ own.qc = QcAfter(l, m) /\ own.prop = dr.prop
        /\ own.phase = dr.phase /\ own.got = dr.got /\ own.pc = "ask"
    BY <1>1 DEF Driver
  <2>2. QED
    BY <1>4, <1>7, <2>1 DEF Honest
<1>10. Honest(counted, qcs')
  <2>1. /\ counted.prev = dr.prev /\ counted.qc = QcAfter(l, m) /\ counted.prop = dr.prop
        /\ counted.phase = dr.phase /\ counted.got \subseteq dr.got /\ counted.pc = dr.pc
    BY <1>1 DEF Driver
  <2>2. QED
    BY <1>4, <1>7, <1>8, <2>1 DEF Honest
<1>11. DriversHonest' /\ RequestsAsked'
  BY <1>1, <1>2, <1>9, <1>10, DriverGoesOn
<1>12. QED
  BY <1>1, <1>2, <1>6, <1>11, PartsStay DEF Evidence

\* The end of a phase: the next one begins with the certificate of this one,
\* and only the last one's is final (run_mvp_consensus_round).
LEMMA EndPhaseAdvances ==
    ASSUME IInv, IInv', Evidence, NEW l \in Validators, EndPhase(l)
    PROVE  Evidence' /\ NobodyGoesBack
<1> DEFINE dr == driver[l]
           final == [dr EXCEPT !.pc = "final"]
           next == [dr EXCEPT !.pc = "begin", !.phase = NextPhase[dr.phase],
                              !.prev = dr.qc, !.qc = NoQC]
<1>1. /\ dr.pc = "ask" /\ dr.phase \in Phases /\ dr.got = {} /\ dr \in Driver
      /\ UNCHANGED <<core, db, chain, notices, tcs, votes, qcs, timeoutVotes>>
  BY DEF EndPhase, nodeVars, history, IInv, Shape, TypeOK
<1>2. Grounds
  BY <1>1 DEF Grounds
<1>3. Honest(dr, qcs')
  BY <1>2, GroundsKeep
<1>4. CASE Stop(l)
  BY <1>1, <1>2, <1>4, HonestStops, PartsStay DEF Evidence
<1>5. CASE ~Stop(l)
  <2>1. /\ dr.qc # NoQC /\ UNCHANGED requests
        /\ driver' = [driver EXCEPT ![l] = IF LastPhase(dr.phase) THEN final ELSE next]
    BY <1>5 DEF EndPhase
  <2>2. dr.qc = CertificateOf(dr.prop, dr.phase) /\ dr.qc \in qcs'
    BY <1>1, <1>3, <2>1 DEF Honest, Known
  <2>3. CASE LastPhase(dr.phase)
    <3>1. /\ final.prev = dr.prev /\ final.qc = dr.qc /\ final.prop = dr.prop
          /\ final.phase = dr.phase /\ final.got = dr.got /\ final.pc = "final"
      BY <1>1 DEF Driver
    <3>2. Honest(final, qcs')
      BY <1>3, <2>1, <2>3, <3>1 DEF Honest, LastPhase
    <3>3. DriversHonest' /\ RequestsAsked'
      BY <1>1, <1>2, <2>1, <2>3, <3>2, DriverGoesOn
    <3>4. QED
      BY <1>1, <1>2, <3>3, PartsStay DEF Evidence
  <2>4. CASE ~LastPhase(dr.phase)
    <3>1. /\ next.prev = dr.qc /\ next.qc = NoQC /\ next.prop = dr.prop
          /\ next.phase = NextPhase[dr.phase] /\ next.got = {} /\ next.pc = "begin"
      BY <1>1 DEF Driver
    <3>2. \/ dr.phase = "prepare" /\ next.phase = "precommit"
          \/ dr.phase = "precommit" /\ next.phase = "commit"
      BY <1>1, <2>4, <3>1 DEF LastPhase, Phases, NextPhase
    <3>3. Backed(dr.prop, next.phase, qcs')
      BY <2>2, <3>2, LadderSteps
    <3>4. Honest(next, qcs')
      BY <1>3, <2>2, <3>1, <3>3 DEF Honest, Known
    <3>5. DriversHonest' /\ RequestsAsked'
      BY <1>1, <1>2, <2>1, <2>4, <3>4, DriverGoesOn
    <3>6. QED
      BY <1>1, <1>2, <3>5, PartsStay DEF Evidence
  <2>5. QED
    BY <2>3, <2>4
<1>6. QED
  BY <1>4, <1>5

\* The driver asks its next peer, for the proposal and the phase it is in.
LEMMA AskAdvances ==
    ASSUME IInv, IInv', Evidence, NEW l \in Validators, NEW v, Ask(l, v)
    PROVE  Evidence' /\ NobodyGoesBack
<1> DEFINE dr == driver[l]
           new == [dr EXCEPT !.pc = "wait", !.left = @ \ {v}]
           m == [from |-> l, to |-> v, phase |-> dr.phase, prop |-> dr.prop, live |-> TRUE]
<1>1. /\ dr.pc = "ask" /\ dr \in Driver
      /\ driver' = [driver EXCEPT ![l] = new] /\ requests' = requests \cup {m}
      /\ UNCHANGED <<core, db, chain, notices, tcs, votes, qcs, timeoutVotes>>
  BY DEF Ask, nodeVars, history, IInv, Shape, TypeOK
<1>2. Grounds
  BY <1>1 DEF Grounds
<1>3. Honest(dr, qcs')
  BY <1>2, GroundsKeep
<1>4. /\ new.prev = dr.prev /\ new.qc = dr.qc /\ new.prop = dr.prop
      /\ new.phase = dr.phase /\ new.got = dr.got /\ new.pc = "wait"
  BY <1>1 DEF Driver
<1>5. Honest(new, qcs')
  BY <1>3, <1>4 DEF Honest
<1>6. \A w \in Validators : driver'[w] = IF w = l THEN new ELSE driver[w]
  BY <1>1 DEF IInv, Shape, TypeOK
<1>7. DriversHonest'
  BY <1>2, <1>5, <1>6, GroundsKeep DEF DriversHonest
<1>8. Asked(m, qcs') /\ m.prop = driver'[m.from].prop
  BY <1>3, <1>4, <1>6 DEF Asked, Honest
<1>9. \A k \in requests : k.from \in Validators /\ (k.live => k.from # l)
  BY <1>1 DEF IInv, Shape, TypeOK, RequestsOK, Request
<1>10. ASSUME NEW k \in requests
       PROVE  Asked(k, qcs') /\ (k.live => k.prop = driver'[k.from].prop)
  BY <1>2, <1>6, <1>9, GroundsKeep DEF Evidence, RequestsAsked
<1>11. RequestsAsked'
  BY <1>1, <1>8, <1>10 DEF RequestsAsked
<1>12. QED
  BY <1>1, <1>2, <1>7, <1>11, PartsStay DEF Evidence

\* A call fails.
LEMMA GiveUpAdvances ==
    ASSUME IInv, IInv', Evidence, NEW l \in Validators, GiveUp(l)
    PROVE  Evidence' /\ NobodyGoesBack
<1>1. /\ Stop(l) /\ UNCHANGED <<core, db, chain, notices, tcs, votes, qcs, timeoutVotes>>
  BY DEF GiveUp, nodeVars, history
<1>2. Grounds
  BY <1>1 DEF Grounds
<1>3. QED
  BY <1>1, <1>2, HonestStops, PartsStay DEF Evidence

-----------------------------------------------------------------------------
(* Chains *)

\* A prefix of a prefix is a prefix.
LEMMA PrefixOfPrefix ==
    ASSUME NEW S, NEW s \in Seq(S), NEW n \in 0..Len(s), NEW i \in 0..n
    PROVE  SubSeq(SubSeq(s, 1, n), 1, i) = SubSeq(s, 1, i)
<1>1. Len(s) \in Nat
  BY LenProperties
<1>2. \A k \in 1..Len(s) : s[k] \in S
  BY ElementOfSeq
<1>3. /\ SubSeq(s, 1, n) \in Seq(S) /\ Len(SubSeq(s, 1, n)) = n
      /\ \A k \in 1..n : SubSeq(s, 1, n)[k] = s[k]
  BY <1>1, <1>2, SubSeqProperties
<1>4. \A k \in 1..n : SubSeq(s, 1, n)[k] \in S
  BY <1>1, <1>2, <1>3
<1>5. /\ SubSeq(SubSeq(s, 1, n), 1, i) \in Seq(S) /\ Len(SubSeq(SubSeq(s, 1, n), 1, i)) = i
      /\ \A k \in 1..i : SubSeq(SubSeq(s, 1, n), 1, i)[k] = SubSeq(s, 1, n)[k]
  BY <1>1, <1>3, <1>4, SubSeqProperties
<1>6. /\ SubSeq(s, 1, i) \in Seq(S) /\ Len(SubSeq(s, 1, i)) = i
      /\ \A k \in 1..i : SubSeq(s, 1, i)[k] = s[k]
  BY <1>1, <1>2, SubSeqProperties
<1>7. \A k \in 1..i : SubSeq(SubSeq(s, 1, n), 1, i)[k] = SubSeq(s, 1, i)[k]
  BY <1>1, <1>3, <1>5, <1>6
<1>8. QED
  BY <1>5, <1>6, <1>7, SeqEqual

\* A block that is applied extends a certified chain by a certified block
\* (LocalCommitAdapter.apply_block).
LEMMA ApplyingIsCertified ==
    ASSUME NEW ch \in Blocks, NEW b \in Blocks, NEW Q, Certified(ch, Q), Decided(b, Q)
    PROVE  Certified(Applied(ch, b), Q)
<1>1. CASE ~Extends(ch, b)
  BY <1>1 DEF Applied
<1>2. CASE Extends(ch, b)
  <2> SUFFICES ASSUME NEW i \in 1..Len(b) PROVE Decided(SubSeq(b, 1, i), Q)
    BY <1>2 DEF Applied, Certified
  <2>1. Len(ch) \in Nat /\ Len(b) \in Nat /\ Len(b) = Len(ch) + 1 /\ SubSeq(b, 1, Len(ch)) = ch
    BY <1>2, LenProperties DEF Extends, Blocks
  <2>2. CASE i = Len(b)
    <3>1. SubSeq(b, 1, Len(b)) = b
      BY SubSeqFull DEF Blocks
    <3>2. QED
      BY <2>2, <3>1
  <2>3. CASE i <= Len(ch)
    <3>1. SubSeq(b, 1, i) = SubSeq(ch, 1, i)
      BY <2>1, <2>3, PrefixOfPrefix DEF Blocks
    <3>2. i \in 1..Len(ch)
      BY <2>1, <2>3
    <3>3. QED
      BY <3>1, <3>2 DEF Certified
  <2>4. QED
    BY <2>1, <2>2, <2>3
<1>3. QED
  BY <1>1, <1>2

\* _finalize_local_mvp_commit: the block applied and announced is the one whose
\* COMMIT certificate the driver holds.
LEMMA FinalizeAdvances ==
    ASSUME IInv, IInv', Evidence, NEW l \in Validators, Finalize(l)
    PROVE  Evidence' /\ NobodyGoesBack
<1> DEFINE dr == driver[l]
           b == dr.prop.block
<1>1. /\ dr.pc = "final" /\ dr \in Driver /\ Stop(l) /\ chain \in [Validators -> Blocks]
      /\ core' = [core EXCEPT ![l] = Observe(core[l], dr.qc)]
      /\ db' = [db EXCEPT ![l] = ObserveInDb(db[l], core[l], dr.qc)]
      /\ chain' = [chain EXCEPT ![l] = Applied(chain[l], b)]
      /\ notices' = notices
            \cup {[to |-> v, block |-> b, qc |-> NoQC] : v \in Validators \ {l}}
            \cup {[to |-> v, block |-> b, qc |-> dr.qc] : v \in dr.peers \ {l}}
      /\ UNCHANGED <<tcs, votes, qcs, timeoutVotes>>
  BY DEF Finalize, history, IInv, Shape, TypeOK
<1>2. Grounds
  BY <1>1 DEF Grounds
<1>3. Honest(dr, qcs') /\ dr.phase = "commit" /\ dr.qc # NoQC
  BY <1>1, <1>2, GroundsKeep DEF Honest
<1>4. dr.qc \in qcs' /\ dr.qc = CertificateOf(dr.prop, "commit") /\ Known(dr.qc, qcs')
  BY <1>3 DEF Honest, Known, Phases
<1>5. Decided(b, qcs')
  BY <1>4 DEF Decided, CertificateOf
<1>6. NodesOK' /\ NobodyGoesBack
  BY <1>1, <1>2, <1>4, GroundsKeep, ObservingIsOK, NodeSteps
<1>7. DriversHonest' /\ RequestsAsked'
  BY <1>1, <1>2, HonestStops
<1>8. \A n \in notices' : n \in notices \/ (n.block = b /\ n.qc \in {NoQC, dr.qc})
  BY <1>1
<1>9. \A n \in notices' : Announced(n, qcs')
  BY <1>2, <1>4, <1>5, <1>8, GroundsKeep DEF Announced, Known
<1>10. NoticesTrue'
  BY <1>1, <1>2, <1>9, GroundsKeep DEF NoticesTrue
<1>11. b \in Blocks
  BY <1>1 DEF Driver, Proposal
<1>12. Certified(Applied(chain[l], b), qcs')
  BY <1>1, <1>2, <1>5, <1>11, GroundsKeep, ApplyingIsCertified
<1>13. ChainsCertified'
  BY <1>1, <1>2, <1>12, GroundsKeep DEF ChainsCertified
<1>14. QED
  BY <1>1, <1>2, <1>6, <1>7, <1>10, <1>13, PartsStay DEF Evidence

\* _on_consensus_finalize and _on_block_announce.
LEMMA HandleNoticeAdvances ==
    ASSUME IInv, IInv', Evidence, NEW v \in Validators, NEW n \in notices, HandleNotice(v, n)
    PROVE  Evidence' /\ NobodyGoesBack
<1>1. /\ core' = [core EXCEPT ![v] = Observe(core[v], n.qc)]
      /\ db' = [db EXCEPT ![v] = ObserveInDb(db[v], core[v], n.qc)]
      /\ chain' = [chain EXCEPT ![v] = Applied(chain[v], n.block)]
      /\ chain \in [Validators -> Blocks] /\ n.block \in Blocks
      /\ UNCHANGED <<driver, requests, notices, tcs, votes, qcs, timeoutVotes>>
  BY DEF HandleNotice, msgVars, history, IInv, Shape, TypeOK, Notice
<1>2. Grounds
  BY <1>1 DEF Grounds
<1>3. Known(n.qc, qcs') /\ Decided(n.block, qcs')
  BY <1>2, GroundsKeep DEF Announced
<1>4. NodesOK' /\ NobodyGoesBack
  BY <1>1, <1>2, <1>3, GroundsKeep, ObservingIsOK, NodeSteps
<1>5. Certified(Applied(chain[v], n.block), qcs')
  BY <1>1, <1>2, <1>3, GroundsKeep, ApplyingIsCertified
<1>6. ChainsCertified'
  BY <1>1, <1>2, <1>5, GroundsKeep DEF ChainsCertified
<1>7. QED
  BY <1>1, <1>2, <1>4, <1>6, PartsStay DEF Evidence

\* _sync_announced_blocks: a fetched chain is a prefix of a certified one.
LEMMA FetchBlockAdvances ==
    ASSUME IInv, IInv', Evidence, NEW v \in Validators, NEW w \in Validators, FetchBlock(v, w)
    PROVE  Evidence' /\ NobodyGoesBack
<1> DEFINE n == Len(chain[v]) + 1
           ch == SubSeq(chain[w], 1, n)
<1>1. /\ chain[v] \in Blocks /\ chain[w] \in Blocks /\ Len(chain[w]) > Len(chain[v])
      /\ chain \in [Validators -> Blocks] /\ chain' = [chain EXCEPT ![v] = ch]
      /\ UNCHANGED <<core, db, driver, requests, notices, tcs, votes, qcs, timeoutVotes>>
  BY DEF FetchBlock, msgVars, history, IInv, Shape, TypeOK
<1>2. Grounds
  BY <1>1 DEF Grounds
<1>3. Len(chain[v]) \in Nat /\ Len(chain[w]) \in Nat /\ n \in 0..Len(chain[w])
  BY <1>1, LenProperties DEF Blocks
<1>4. Len(ch) = n
  <2>1. \A k \in 1..n : chain[w][k] \in Bodies
    BY <1>1, <1>3, ElementOfSeq DEF Blocks
  <2>2. QED
    BY <1>3, <2>1, SubSeqProperties
<1>5. ASSUME NEW i \in 1..Len(ch) PROVE Decided(SubSeq(ch, 1, i), qcs')
  <2>1. SubSeq(ch, 1, i) = SubSeq(chain[w], 1, i)
    BY <1>1, <1>3, <1>4, PrefixOfPrefix DEF Blocks
  <2>2. i \in 1..Len(chain[w])
    BY <1>3, <1>4
  <2>3. QED
    BY <1>2, <2>1, <2>2, GroundsKeep DEF Certified
<1>6. Certified(ch, qcs')
  BY <1>5 DEF Certified
<1>7. ChainsCertified'
  BY <1>1, <1>2, <1>6, GroundsKeep DEF ChainsCertified
<1>8. QED
  BY <1>1, <1>2, <1>7, PartsStay DEF Evidence

-----------------------------------------------------------------------------
(* Answering *)

\* _on_consensus_proposal: the follower is shown no certificate of the phase
\* before, but the driver that asks had it.
LEMMA HandleProposalAdvances ==
    ASSUME IInv, IInv', Evidence, NEW v \in Validators, NEW m \in requests, HandleProposal(v, m)
    PROVE  Evidence' /\ NobodyGoesBack
<1> DEFINE c == Informed(v, m.prop)
           d == InformedDb(v, m.prop)
           vote == VoteFor(v, m.prop, m.phase)
<1>1. /\ m.phase \in Phases /\ m.prop \in Proposal /\ m.prop.justify \in QCOrNone
      /\ requests' = requests \ {m}
      /\ UNCHANGED <<chain, notices, tcs, qcs, timeoutVotes>>
  BY DEF HandleProposal, IInv, Shape, TypeOK, Request, Proposal
<1>2. Grounds
  BY <1>1 DEF Grounds
<1>3. Known(m.prop.justify, qcs') /\ Backed(m.prop, m.phase, qcs')
  BY <1>1, <1>2, GroundsKeep DEF Asked
<1>4. core[v] \in Core /\ db[v] \in Database /\ c \in Core /\ d \in Database
  BY <1>1, <1>2, GroundsKeep, ObserveTyped, ObserveInDbTyped DEF Informed, InformedDb
<1>5. NodeOK(c, d, qcs', timeoutVotes') /\ GoesOn(core[v], c)
  BY <1>2, <1>3, <1>4, GroundsKeep, ObservingIsOK DEF Informed, InformedDb
<1>6. CASE MayVote(c, v, m.prop, m.phase)
  <2>1. /\ core' = [core EXCEPT ![v] = Choose(c, vote)] /\ db' = [db EXCEPT ![v] = LogVote(d, vote)]
        /\ votes' = votes \cup {vote} /\ AnswerWith(m, vote)
    BY <1>6 DEF HandleProposal, CastVote
  <2>2. NodeOK(Choose(c, vote), LogVote(d, vote), qcs', timeoutVotes') /\ GoesOn(c, Choose(c, vote))
    BY <1>4, <1>5, VotingIsOK
  <2>3. vote \in Vote
    BY <1>1, VoteForTyped
  <2>4. Choose(c, vote) \in Core
    BY <1>4, <2>3 DEF Choose, Core
  <2>5. NodesOK' /\ NobodyGoesBack
    BY <1>2, <1>4, <1>5, <2>1, <2>2, <2>4, GoingOnIsTransitive, NodeSteps
  <2>6. CertificateOf(vote, vote.phase) = CertificateOf(m.prop, m.phase)
    BY DEF VoteFor, CertificateOf
  <2>7. DriversHonest' /\ RequestsAsked'
    BY <1>1, <1>2, <2>1, <2>6, HonestIsAnswered
  <2>8. Backed(vote, vote.phase, qcs')
    BY <1>3, VotesAskAlike
  <2>9. VotesBacked'
    BY <1>2, <2>1, <2>8, GroundsKeep DEF VotesBacked
  <2>10. QED
    BY <1>1, <1>2, <2>5, <2>7, <2>9, PartsStay DEF Evidence
<1>7. CASE ~MayVote(c, v, m.prop, m.phase)
  <2>1. /\ core' = [core EXCEPT ![v] = c] /\ db' = [db EXCEPT ![v] = d]
        /\ Refuse(m) /\ UNCHANGED votes
    BY <1>7 DEF HandleProposal
  <2>2. NodesOK' /\ NobodyGoesBack
    BY <1>2, <1>5, <2>1, NodeSteps
  <2>3. DriversHonest' /\ RequestsAsked'
    BY <1>1, <1>2, <2>1, HonestIsAnswered
  <2>4. QED
    BY <1>1, <1>2, <2>1, <2>2, <2>3, PartsStay DEF Evidence
<1>8. QED
  BY <1>6, <1>7

-----------------------------------------------------------------------------
(* Timing out *)

\* A quorum of counted timeout votes times their round out: it is not empty, and
\* every vote counted was cast (add_timeout_vote).
LEMMA QuorumTimesOut ==
    ASSUME NEW T \in SUBSET TimeoutVote, NEW S \in SUBSET T, NEW p, TimedOut(S, p)
    PROVE  TimedOutBy(p.round, T)
<1>1. HasQuorum(TimeoutSigners(S, p))
  BY DEF TimedOut
<1>2. PICK v \in Validators : v \in TimeoutSigners(S, p)
  BY <1>1, QuorumsOverlap
<1>3. PICK t \in S : SameTimeout(t, p)
  BY <1>2 DEF TimeoutSigners
<1>4. TimeoutSigners(S, p) \subseteq TimeoutSigners(T, t)
  BY <1>3 DEF TimeoutSigners, SameTimeout
<1>5. HasQuorum(TimeoutSigners(T, t))
  BY <1>1, <1>4, QuorumsGrow
<1>6. QED
  BY <1>3, <1>5 DEF TimedOutBy, SameTimeout

\* make_timeout_vote.
LEMMA CastingTimeoutIsOK ==
    ASSUME Grounds, NEW v \in Validators, NEW h, NEW r, CastTimeout(v, h, r)
    PROVE  NodesOK' /\ NobodyGoesBack
<1> DEFINE t == TimeoutOf(v, h, r)
           c == [core[v] EXCEPT !.timedOut = @ \cup {<<h, r>>}]
<1>1. core[v] \in Core /\ db[v] \in Database /\ NodeOK(core[v], db[v], qcs', timeoutVotes')
  BY GroundsKeep
<1>2. /\ core' = [core EXCEPT ![v] = c] /\ db' = [db EXCEPT ![v] = LogTimeout(db[v], t)]
      /\ t \in timeoutVotes'
  BY <1>1 DEF CastTimeout, Grounds, IInv, Shape, TypeOK
<1>3. NodeOK(c, LogTimeout(db[v], t), qcs', timeoutVotes') /\ GoesOn(core[v], c)
  BY <1>1, <1>2, TimingOutIsOK
<1>4. QED
  BY <1>2, <1>3, NodeSteps

\* run_mvp_timeout_round begins.
LEMMA StartTimeoutAdvances ==
    ASSUME IInv, IInv', Evidence, NEW l \in Validators, NEW ps, StartTimeout(l, ps)
    PROVE  Evidence' /\ NobodyGoesBack
<1> DEFINE h == Len(chain[l]) + 1
           r == core[l].pace.current
           dr == [Idle EXCEPT !.pc = "ask", !.phase = "timeout", !.peers = ps, !.left = ps \ {l},
                              !.got = {TimeoutOf(l, h, r)},
                              !.prop = [NoProposal EXCEPT !.height = h, !.round = r]]
<1>1. /\ CastTimeout(l, h, r) /\ driver' = [driver EXCEPT ![l] = dr] /\ driver[l].pc = "idle"
      /\ UNCHANGED <<chain, requests, notices, tcs, votes, qcs>>
  BY DEF StartTimeout, msgVars
<1>2. Grounds
  BY <1>1 DEF Grounds, CastTimeout
<1>3. dr.prev = NoQC /\ dr.qc = NoQC /\ dr.prop.justify = NoQC /\ dr.phase = "timeout" /\ dr.pc = "ask"
  BY DEF Idle, NoProposal
<1>4. Honest(dr, qcs')
  BY <1>3, TimeoutIsNoPhase DEF Honest, Known
<1>5. DriversHonest' /\ RequestsAsked'
  BY <1>1, <1>2, <1>4, DriverGoesOn
<1>6. QED
  BY <1>1, <1>2, <1>5, CastingTimeoutIsOK, PartsStay DEF Evidence

\* _on_consensus_timeout_vote.
LEMMA HandleTimeoutAdvances ==
    ASSUME IInv, IInv', Evidence, NEW v \in Validators, NEW m \in requests, HandleTimeout(v, m)
    PROVE  Evidence' /\ NobodyGoesBack
<1> DEFINE h == m.prop.height
           r == m.prop.round
<1>1. /\ m.phase = "timeout" /\ requests' = requests \ {m}
      /\ UNCHANGED <<chain, notices, tcs, votes, qcs>>
  BY DEF HandleTimeout
<1>2. CASE MayTimeOut(v, h, r)
  <2>1. CastTimeout(v, h, r) /\ AnswerWith(m, TimeoutOf(v, h, r))
    BY <1>2 DEF HandleTimeout
  <2>2. Grounds
    BY <1>1, <2>1 DEF Grounds, CastTimeout
  <2>3. DriversHonest' /\ RequestsAsked'
    BY <1>1, <2>1, <2>2, TimeoutIsNoPhase, HonestIsAnswered
  <2>4. QED
    BY <1>1, <2>1, <2>2, <2>3, CastingTimeoutIsOK, PartsStay DEF Evidence
<1>3. CASE ~MayTimeOut(v, h, r)
  <2>1. Refuse(m) /\ UNCHANGED <<core, db, timeoutVotes>>
    BY <1>3 DEF HandleTimeout
  <2>2. Grounds
    BY <1>1, <2>1 DEF Grounds
  <2>3. DriversHonest' /\ RequestsAsked'
    BY <1>1, <2>1, <2>2, HonestIsAnswered
  <2>4. QED
    BY <1>1, <2>1, <2>2, <2>3, PartsStay DEF Evidence
<1>4. QED
  BY <1>2, <1>3

\* accept_timeout_vote: the pacemaker moves on once the votes counted, all of
\* them cast, are a quorum.
LEMMA CountTimeoutAdvances ==
    ASSUME IInv, IInv', Evidence, NEW l \in Validators, NEW t \in driver[l].got, CountTimeout(l, t)
    PROVE  Evidence' /\ NobodyGoesBack
<1> DEFINE dr == driver[l]
           new == [dr EXCEPT !.got = @ \ {t}]
           c == [core[l] EXCEPT !.timeouts = @ \cup {t}]
           d == LogTimeout(db[l], t)
           moved == ObserveTC(c, t.round)
           certified == TimedOut(c.timeouts, t)
<1>1. /\ dr.pc = "ask" /\ dr.phase = "timeout" /\ dr \in Driver
      /\ core' = [core EXCEPT ![l] = IF certified THEN moved ELSE c]
      /\ db' = [db EXCEPT ![l] = IF certified THEN SaveRuntime(d, moved) ELSE d]
      /\ driver' = [driver EXCEPT ![l] = new]
      /\ UNCHANGED <<chain, requests, notices, tcs, votes, qcs, timeoutVotes>>
  BY DEF CountTimeout, msgVars, history, IInv, Shape, TypeOK
<1>2. Grounds
  BY <1>1 DEF Grounds
<1>3. t \in timeoutVotes' /\ t \in TimeoutVote /\ timeoutVotes' \in SUBSET TimeoutVote
  BY <1>1 DEF IInv, Shape, TypeOK, DriversOK, DriverOK
<1>4. core[l] \in Core /\ db[l] \in Database /\ NodeOK(core[l], db[l], qcs', timeoutVotes')
  BY <1>2, GroundsKeep
<1>5. NodeOK(c, d, qcs', timeoutVotes') /\ GoesOn(core[l], c)
  BY <1>3, <1>4, TimingOutIsOK
<1>6. c \in Core /\ d \in Database
  BY <1>3, <1>4, LogTimeoutTyped DEF Core
<1>7. NodesOK' /\ NobodyGoesBack
  <2>1. CASE certified
    <3>1. c.timeouts \in SUBSET timeoutVotes'
      BY <1>5 DEF NodeOK
    <3>2. TimedOutBy(t.round, timeoutVotes') /\ t.round \in Nat \ {0}
      BY <1>3, <2>1, <3>1, QuorumTimesOut DEF TimeoutVote
    <3>3. NodeOK(moved, SaveRuntime(d, moved), qcs', timeoutVotes') /\ GoesOn(c, moved)
      BY <1>5, <1>6, <3>2, MovingOnIsOK
    <3>4. moved \in Core
      BY <1>6, <3>2, NoteTCTyped DEF ObserveTC, Core
    <3>5. GoesOn(core[l], moved)
      BY <1>4, <1>5, <1>6, <3>3, <3>4, GoingOnIsTransitive
    <3>6. core' = [core EXCEPT ![l] = moved] /\ db' = [db EXCEPT ![l] = SaveRuntime(d, moved)]
      BY <1>1, <2>1
    <3>7. QED
      BY <1>2, <3>3, <3>5, <3>6, NodeSteps
  <2>2. CASE ~certified
    <3>1. core' = [core EXCEPT ![l] = c] /\ db' = [db EXCEPT ![l] = d]
      BY <1>1, <2>2
    <3>2. QED
      BY <1>2, <1>5, <3>1, NodeSteps
  <2>3. QED
    BY <2>1, <2>2
<1>8. /\ new.prev = dr.prev /\ new.qc = dr.qc /\ new.prop = dr.prop
      /\ new.phase = dr.phase /\ new.pc = dr.pc
  BY <1>1 DEF Driver
<1>9. Honest(dr, qcs')
  BY <1>2, GroundsKeep
<1>10. Honest(new, qcs')
  BY <1>1, <1>8, <1>9, TimeoutIsNoPhase DEF Honest
<1>11. DriversHonest' /\ RequestsAsked'
  BY <1>1, <1>2, <1>10, DriverGoesOn
<1>12. QED
  BY <1>1, <1>2, <1>7, <1>11, PartsStay DEF Evidence

\* run_mvp_timeout_round sends a certificate only of a round its votes time out.
LEMMA EndTimeoutAdvances ==
    ASSUME IInv, IInv', Evidence, NEW l \in Validators, EndTimeout(l)
    PROVE  Evidence' /\ NobodyGoesBack
<1> DEFINE p == driver[l].prop
           certified == TimedOut(core[l].timeouts, p)
<1>1. /\ Stop(l) /\ UNCHANGED <<core, db, chain, notices, votes, qcs, timeoutVotes>>
      /\ tcs' = tcs \cup (IF certified THEN {[to |-> v, round |-> p.round] : v \in driver[l].peers \ {l}}
                          ELSE {})
  BY DEF EndTimeout, nodeVars, history
<1>2. Grounds
  BY <1>1 DEF Grounds
<1>3. timeoutVotes' \in SUBSET TimeoutVote /\ core[l].timeouts \in SUBSET timeoutVotes'
  BY <1>2, GroundsKeep DEF NodeOK, IInv, Shape, TypeOK
<1>4. certified => TimedOutBy(p.round, timeoutVotes')
  BY <1>3, QuorumTimesOut
<1>5. \A n \in tcs' : n \in tcs \/ (certified /\ n.round = p.round)
  BY <1>1
<1>6. \A n \in tcs' : TimedOutBy(n.round, timeoutVotes')
  BY <1>2, <1>4, <1>5, GroundsKeep
<1>7. NoticesTrue'
  BY <1>1, <1>2, <1>6, GroundsKeep DEF NoticesTrue
<1>8. QED
  BY <1>1, <1>2, <1>7, HonestStops, PartsStay DEF Evidence

\* _on_consensus_timeout_cert.
LEMMA HandleTCAdvances ==
    ASSUME IInv, IInv', Evidence, NEW v \in Validators, NEW n \in tcs, HandleTC(v, n)
    PROVE  Evidence' /\ NobodyGoesBack
<1>1. /\ core' = [core EXCEPT ![v] = ObserveTC(core[v], n.round)]
      /\ db' = [db EXCEPT ![v] = SaveRuntime(db[v], ObserveTC(core[v], n.round))]
      /\ n.round \in Nat \ {0}
      /\ UNCHANGED <<chain, driver, requests, notices, tcs, votes, qcs, timeoutVotes>>
  BY DEF HandleTC, msgVars, history, IInv, Shape, TypeOK, TCNotice
<1>2. Grounds
  BY <1>1 DEF Grounds
<1>3. NodesOK' /\ NobodyGoesBack
  BY <1>1, <1>2, GroundsKeep, MovingOnIsOK, NodeSteps
<1>4. QED
  BY <1>1, <1>2, <1>3, PartsStay DEF Evidence

-----------------------------------------------------------------------------
(* Crashing and restarting *)

\* A crash that leaves a database in order.
LEMMA FailAdvances ==
    ASSUME Grounds, NEW v \in Validators, NEW d, Fail(v, d),
           NodeOK(Load(v, d), d, qcs', timeoutVotes'), GoesOn(core[v], Load(v, d))
    PROVE  Evidence' /\ NobodyGoesBack
<1>1. /\ core' = [core EXCEPT ![v] = Load(v, d)] /\ db' = [db EXCEPT ![v] = d]
      /\ Stop(v) /\ UNCHANGED <<chain, notices, tcs, votes, timeoutVotes>>
  BY DEF Fail
<1>2. NodesOK' /\ NobodyGoesBack
  BY <1>1, NodeSteps
<1>3. QED
  BY <1>1, <1>2, HonestStops, PartsStay DEF Evidence

\* Every certificate whose observation a crash can interrupt is one.
LEMMA ObservedIsCertified ==
    ASSUME Grounds, NEW v \in Validators
    PROVE  Observing(v) \subseteq qcs'
<1>1. \A m \in requests : Known(m.prop.justify, qcs')
  BY GroundsKeep DEF Asked
<1>2. \A n \in notices : Known(n.qc, qcs')
  BY GroundsKeep DEF Announced
<1>3. /\ Known(driver[v].prev, qcs') /\ Known(driver[v].qc, qcs')
      /\ Known(driver[v].prop.justify, qcs')
  BY GroundsKeep DEF Honest
<1>4. QED
  BY <1>1, <1>2, <1>3 DEF Observing, Known

\* Crashes between and inside operations, and restarts.
LEMMA BreakAdvances ==
    ASSUME IInv, IInv', Evidence, NEW v \in Validators, Break(v)
    PROVE  Evidence' /\ NobodyGoesBack
<1>1. CASE Crash(v)
  <2>1. Fail(v, db[v]) /\ Grounds
    BY <1>1 DEF Crash, Fail, Grounds
  <2>2. QED
    BY <2>1, GroundsKeep, LoadingIsOK, FailAdvances
<1>2. CASE CrashObserving(v)
  <2>1. PICK q \in Observing(v) : \E d \in InterruptedObserve(db[v], core[v], q) : Fail(v, d)
    BY <1>2 DEF CrashObserving
  <2>2. PICK d \in InterruptedObserve(db[v], core[v], q) : Fail(v, d)
    BY <2>1
  <2>3. Grounds
    BY <1>2, <2>2 DEF CrashObserving, Fail, Grounds
  <2>4. q \in qcs'
    BY <2>3, ObservedIsCertified
  <2>5. QED
    BY <2>2, <2>3, <2>4, GroundsKeep, InterruptedIsOK, FailAdvances
<1>3. ASSUME NEW m, CrashCounting(v, m) PROVE Evidence' /\ NobodyGoesBack
  <2> DEFINE q == CertifiedBy(core[v], m)
             logged == LogVote(db[v], m)
  <2>1. Grounds
    BY <1>3 DEF CrashCounting, Fail, Grounds
  <2>2. /\ core[v] \in Core /\ db[v] \in Database
        /\ NodeOK(core[v], db[v], qcs', timeoutVotes') /\ qcs' \in SUBSET QC
    BY <2>1, GroundsKeep
  <2>3. m \in Vote
    BY <1>3, CountedIsVote DEF IInv
  <2>4. logged \in Database
    BY <2>2, <2>3, LogVoteTyped
  <2>5. NodeOK(core[v], logged, qcs', timeoutVotes')
    BY <2>2, VotingIsOK
  <2>6. CASE Fail(v, logged)
    BY <2>1, <2>2, <2>4, <2>5, <2>6, LoadingIsOK, FailAdvances
  <2>7. CASE /\ qcs' = qcs \cup {q}
             /\ \E d \in InterruptedObserve(logged, core[v], q) : Fail(v, d)
    <3>1. PICK d \in InterruptedObserve(logged, core[v], q) : Fail(v, d)
      BY <2>7
    <3>2. q \in qcs'
      BY <2>7
    <3>3. QED
      BY <2>1, <2>2, <2>4, <2>5, <3>1, <3>2, InterruptedIsOK, FailAdvances
  <2>8. QED
    BY <1>3, <2>6, <2>7 DEF CrashCounting
<1>4. ASSUME NEW t \in driver[v].got, CrashTimingOut(v, t) PROVE Evidence' /\ NobodyGoesBack
  <2> DEFINE d == LogTimeout(db[v], t)
  <2>1. Fail(v, d) /\ Grounds
    BY <1>4 DEF CrashTimingOut, Fail, Grounds
  <2>2. t \in timeoutVotes' /\ t \in TimeoutVote
    BY <1>4, <2>1 DEF CrashTimingOut, Fail, IInv, Shape, TypeOK, DriversOK, DriverOK
  <2>3. core[v] \in Core /\ db[v] \in Database /\ NodeOK(core[v], db[v], qcs', timeoutVotes')
    BY <2>1, GroundsKeep
  <2>4. NodeOK(core[v], d, qcs', timeoutVotes') /\ d \in Database
    BY <2>2, <2>3, TimingOutIsOK, LogTimeoutTyped
  <2>5. QED
    BY <2>1, <2>3, <2>4, LoadingIsOK, FailAdvances
<1>5. CASE Restart(v)
  <2>1. /\ core' = [core EXCEPT ![v] = Load(v, db[v])] /\ db' = [db EXCEPT ![v] = db[v]]
        /\ UNCHANGED <<chain, driver, requests, notices, tcs, votes, qcs, timeoutVotes>>
    BY <1>5 DEF Restart, msgVars, history, IInv, Shape, TypeOK
  <2>2. Grounds
    BY <2>1 DEF Grounds
  <2>3. NodesOK' /\ NobodyGoesBack
    BY <2>1, <2>2, GroundsKeep, LoadingIsOK, NodeSteps
  <2>4. QED
    BY <2>1, <2>2, <2>3, PartsStay DEF Evidence
<1>6. QED
  BY <1>1, <1>2, <1>3, <1>4, <1>5 DEF Break

-----------------------------------------------------------------------------
(* Every behaviour *)

\* Nothing is held anywhere at first.
LEMMA InitHasEvidence == Init => Evidence
<1> SUFFICES ASSUME Init PROVE Evidence
  OBVIOUS
<1>1. \A v \in Validators : core[v] = Load(v, EmptyDatabase) /\ db[v] = EmptyDatabase
  BY DEF Init
<1>2. \A v \in Validators : NodeOK(Load(v, EmptyDatabase), EmptyDatabase, {}, {})
  BY DEF NodeOK, Load, EmptyDatabase, FirstPace, Known, Earned
<1>3. NodesOK
  BY <1>1, <1>2 DEF Init, NodesOK
<1>4. DriversHonest
  BY IdleIsHonest DEF Init, DriversHonest
<1>5. Certified(<<>>, {})
  BY EmptySeq DEF Certified
<1>6. ChainsCertified
  BY <1>5 DEF Init, ChainsCertified
<1>7. QED
  BY <1>3, <1>4, <1>6 DEF Init, Evidence, RequestsAsked, NoticesTrue, VotesBacked

\* Every step keeps the evidence and takes nobody back.
LEMMA NextAdvances == IInv /\ IInv' /\ Evidence /\ [Next]_vars => Evidence' /\ NobodyGoesBack
<1> SUFFICES ASSUME IInv, IInv', Evidence, [Next]_vars PROVE Evidence' /\ NobodyGoesBack
  OBVIOUS
<1>1. CASE UNCHANGED vars
  <2>1. Grounds
    BY <1>1 DEF Grounds, vars
  <2>2. QED
    BY <1>1, <2>1, PartsStay DEF Evidence, vars
<1>2. ASSUME NEW l \in Drivers, Drive(l) PROVE Evidence' /\ NobodyGoesBack
  <2>1. l \in Validators
    BY NetAssumption
  <2>2. CASE BeginPhase(l) \/ EndPhase(l) \/ GiveUp(l) \/ Finalize(l) \/ EndTimeout(l)
    BY <2>1, <2>2, BeginPhaseAdvances, EndPhaseAdvances, GiveUpAdvances, FinalizeAdvances,
       EndTimeoutAdvances
  <2>3. CASE CountOwnVote(l) \/ \E m \in driver[l].got : CountVote(l, m)
    BY <2>1, <2>3, CountingAdvances
  <2>4. CASE \/ \E ps \in PeerSets, b \in Bodies : StartRound(l, ps, b)
             \/ \E ps \in PeerSets : StartTimeout(l, ps)
             \/ \E v \in driver[l].left : Ask(l, v)
             \/ \E t \in driver[l].got : CountTimeout(l, t)
    BY <2>1, <2>4, StartRoundAdvances, StartTimeoutAdvances, AskAdvances, CountTimeoutAdvances
  <2>5. QED
    BY <1>2, <2>2, <2>3, <2>4 DEF Drive
<1>3. ASSUME NEW v \in Validators, Handle(v) PROVE Evidence' /\ NobodyGoesBack
  BY <1>3, HandleProposalAdvances, HandleTimeoutAdvances, HandleNoticeAdvances,
     HandleTCAdvances, FetchBlockAdvances DEF Handle
<1>4. QED
  BY <1>1, <1>2, <1>3, BreakAdvances, NetAssumption DEF Next

\* In every behaviour whatever is held, sent or stored has its evidence.
THEOREM EvidenceHolds == Spec => [](IInv /\ Evidence)
<1>1. Init => IInv /\ Evidence
  BY InitHasShape, InitRemembers, InitHasEvidence DEF IInv
<1>2. IInv /\ Evidence /\ [Next]_vars => (IInv /\ Evidence)'
  BY NextKeepsShape, NextRemembers, NextAdvances DEF IInv
<1>3. QED
  BY <1>1, <1>2, PTL DEF Spec

\* Rounds, locks and certificates never go back, on disk or through a crash and
\* a restart, in whatever order certificates arrive (note_qc, _is_higher_qc,
\* update_locked_qc and the order of the store's transactions).
THEOREM NobodyEverGoesBack == Spec => NeverGoesBack
<1>1. IInv /\ Evidence /\ [Next]_vars => IInv'
  BY NextKeepsShape, NextRemembers DEF IInv
<1>2. IInv /\ Evidence /\ [Next]_vars =>
        [\A v \in Validators :
            /\ core'[v].pace.current >= core[v].pace.current
            /\ core'[v].locked.round >= core[v].locked.round
            /\ ~Higher(core[v].high, core'[v].high)]_vars
  BY <1>1, NextAdvances DEF NobodyGoesBack, GoesOn
<1>3. QED
  BY <1>2, EvidenceHolds, PTL DEF Spec, NeverGoesBack

\* A pacemaker, of a running host or one that is down, is in a round only after
\* a certificate or a quorum of timeouts of the round before (note_qc, note_tc).
THEOREM EveryRoundIsEarned == Spec => []RoundsAreEarned
<1>1. Evidence => RoundsAreEarned
  BY DEF Evidence, NodesOK, NodeOK, Earned, TimedOutBy, RoundsAreEarned
<1>2. QED
  BY <1>1, EvidenceHolds, PTL

\* No vote and no certificate of a later phase exists without the certificate of
\* the phase before it, which followers are never shown
\* (_drive_phase_over_network).
THEOREM PhasesFollow == Spec => []PhaseLadder
<1>1. IInv /\ Evidence => PhaseLadder
  <2> SUFFICES ASSUME IInv, Evidence, NEW m \in votes \cup qcs
               PROVE  Backed(m, m.phase, qcs)
    BY DEF PhaseLadder, Backed, CertificateOf
  <2>1. CASE m \in votes
    BY <2>1 DEF Evidence, VotesBacked
  <2>2. CASE m \in qcs
    <3>1. HasQuorum(Signers(votes, m))
      BY <2>2 DEF IInv, Remembered, QCsAreBacked
    <3>2. PICK v \in Validators : v \in Signers(votes, m)
      BY <3>1, QuorumsOverlap
    <3>3. PICK k \in votes : SameSlot(k, m) /\ k.block = m.block
      BY <3>2 DEF Signers
    <3>4. Backed(k, k.phase, qcs)
      BY DEF Evidence, VotesBacked
    <3>5. QED
      BY <3>3, <3>4 DEF SameSlot, Backed, CertificateOf
  <2>3. QED
    BY <2>1, <2>2
<1>2. QED
  BY <1>1, EvidenceHolds, PTL

\* Every block on a chain has its COMMIT certificate somewhere, also when it came
\* by an announcement or a fetch, which carry none (_on_block_announce,
\* _sync_announced_blocks).
THEOREM ChainsAreCertified == Spec => []AppliedIsCertified
<1>1. Evidence => AppliedIsCertified
  BY DEF Evidence, ChainsCertified, Certified, Decided, AppliedIsCertified
<1>2. QED
  BY <1>1, EvidenceHolds, PTL

-----------------------------------------------------------------------------
(***************************************************************************)
(* No collector of ConsensusNet ever has to refuse a vote: a driver that   *)
(* has its answers counts them all.  For votes this follows from the       *)
(* invariant of ConsensusNetProofs.  Timeout votes are not unique, because *)
(* pruning lets a restarted host time an old round out again with another  *)
(* certificate; a collector still has at most one of each validator,       *)
(* because a host drives the timeout of a round once: it has its own vote  *)
(* on record, or the round lies behind it.                                 *)
(***************************************************************************)

\* Validator v has timed out height h and round r itself, as database d shows,
\* or the round lies behind it.
Passed(v, h, r, d) ==
    \/ \E k \in d.timeouts : k.voter = v /\ k.height = h /\ k.round = r
    \/ r < d.pace.current

\* Others' timeout votes are on record only for rounds v has passed.
OnDisk(v, d) == \A k \in d.timeouts : Passed(v, k.height, k.round, d)

InMemory(c) ==
    \A k \in c.timeouts : <<k.height, k.round>> \in c.timedOut \/ k.round < c.pace.current

\* Neither driver dr nor core c, which it counts in, has a vote of x for its round.
Free(x, dr, c) ==
    /\ \A m \in dr.got : m.voter # x
    /\ \A k \in c.timeouts : SameTimeout(k, dr.prop) => k.voter # x

\* A timeout round takes one vote of every peer, and none that was counted.
Collecting(l, dr, c, d) ==
    dr.phase = "timeout" =>
        /\ <<dr.prop.height, dr.prop.round>> \in c.timedOut
        /\ Passed(l, dr.prop.height, dr.prop.round, d)
        /\ \A x \in dr.left : Free(x, dr, c)
        /\ \A m \in dr.got :
                /\ SameTimeout(m, dr.prop)
                /\ \A k \in dr.got : k.voter = m.voter => k = m
                /\ \A k \in c.timeouts : SameTimeout(k, dr.prop) => k.voter # m.voter

NodesAccount == \A v \in Validators : OnDisk(v, db[v]) /\ (v \in up => InMemory(core[v]))

Collectors ==
    \A l \in Validators :
        Collecting(l, driver[l], core[l], db[l]) /\ (driver[l].phase = "timeout" => l \in up)

\* The peer a timeout round waits for has no vote in it yet.
Awaited ==
    \A m \in requests : m.live /\ m.phase = "timeout" =>
        m.to \notin driver[m.from].left /\ Free(m.to, driver[m.from], core[m.from])

Counted == NodesAccount /\ Collectors /\ Awaited

-----------------------------------------------------------------------------
(* Operations on one core *)

\* What validator v passed it has still passed, and nothing new was counted.
Keeps(v, c, d, c2, d2) ==
    /\ c2.timeouts = c.timeouts /\ c.timedOut \subseteq c2.timedOut
    /\ InMemory(c) => InMemory(c2)
    /\ OnDisk(v, d) => OnDisk(v, d2)
    /\ \A h, r \in Nat : Passed(v, h, r, d) => Passed(v, h, r, d2)

\* The pacemaker does not go back and only records of rounds behind it are lost.
LEMMA LosingOldRecordsKeeps ==
    ASSUME NEW v, NEW c \in Core, NEW d \in Database, NEW c2 \in Core, NEW d2 \in Database,
           c2.timeouts = c.timeouts, c2.timedOut = c.timedOut,
           c.pace.current <= c2.pace.current, d.pace.current <= d2.pace.current,
           d2.timeouts \subseteq d.timeouts,
           \A k \in d.timeouts : k \in d2.timeouts \/ k.round < d2.pace.current
    PROVE  Keeps(v, c, d, c2, d2)
<1>1. /\ c.pace.current \in Nat /\ c2.pace.current \in Nat
      /\ d.pace.current \in Nat /\ d2.pace.current \in Nat
  BY DEF Core, Database, Pace
<1>2. /\ \A k \in c.timeouts : k.round \in Nat
      /\ \A k \in d.timeouts : k.round \in Nat /\ k.height \in Nat
  BY DEF Core, Database, TimeoutVote
<1>3. \A h, r \in Nat : Passed(v, h, r, d) => Passed(v, h, r, d2)
  BY <1>1 DEF Passed
<1>4. OnDisk(v, d) => OnDisk(v, d2)
  BY <1>2, <1>3 DEF OnDisk
<1>5. ASSUME InMemory(c), NEW k \in c.timeouts
      PROVE  <<k.height, k.round>> \in c.timedOut \/ k.round < c2.pace.current
  <2>1. <<k.height, k.round>> \in c.timedOut \/ k.round < c.pace.current
    BY <1>5 DEF InMemory
  <2>2. QED
    BY <1>1, <1>2, <2>1
<1>6. InMemory(c) => InMemory(c2)
  BY <1>5 DEF InMemory
<1>7. QED
  BY <1>3, <1>4, <1>6 DEF Keeps

\* Keeping twice is keeping.
LEMMA KeepingIsTransitive ==
    ASSUME NEW v, NEW c, NEW d, NEW c2, NEW d2, NEW c3, NEW d3,
           Keeps(v, c, d, c2, d2), Keeps(v, c2, d2, c3, d3)
    PROVE  Keeps(v, c, d, c3, d3)
  BY DEF Keeps

\* Observing a certificate: what is pruned lies behind the pacemaker (observe_qc).
LEMMA ObservingKeeps ==
    ASSUME NEW v, NEW c \in Core, NEW d \in Database, NEW q \in QCOrNone, d.pace = c.pace
    PROVE  /\ Keeps(v, c, d, Observe(c, q), ObserveInDb(d, c, q))
           /\ ObserveInDb(d, c, q).pace = Observe(c, q).pace
<1> DEFINE o == Observe(c, q)
           e == ObserveInDb(d, c, q)
<1>1. o \in Core /\ e \in Database
  BY ObserveTyped, ObserveInDbTyped
<1>2. CASE q = NoQC
  BY <1>2 DEF Observe, ObserveInDb, Keeps
<1>3. CASE q # NoQC
  <2>1. q \in QC /\ q.round \in Nat
    BY <1>3 DEF QCOrNone, QC
  <2>2. o.timeouts = c.timeouts /\ o.timedOut = c.timedOut
    BY <1>3 DEF Observe, Core
  <2>3. /\ e.pace = o.pace /\ e.timeouts \subseteq d.timeouts
        /\ \A k \in d.timeouts : k \in e.timeouts \/ ~(k.round >= q.round)
    BY <1>3 DEF ObserveInDb, SaveRuntime, Prune, KeepFrom, Database
  <2>4. o.pace.current >= c.pace.current /\ o.pace.current >= q.round + 1
    BY <2>1, ObserveNumbers
  <2>5. c.pace.current \in Nat /\ o.pace.current \in Nat
    BY <1>1, CoreNumbers
  <2>6. \A k \in d.timeouts : k.round \in Nat
    BY DEF Database, TimeoutVote
  <2>7. \A k \in d.timeouts : k \in e.timeouts \/ k.round < e.pace.current
    BY <2>1, <2>3, <2>4, <2>5, <2>6
  <2>8. Keeps(v, c, d, o, e)
    BY <1>1, <2>2, <2>3, <2>4, <2>5, <2>7, LosingOldRecordsKeeps
  <2>9. QED
    BY <2>3, <2>8
<1>4. QED
  BY <1>2, <1>3

\* Choosing, tallying and recording votes.
LEMMA VotingKeeps ==
    ASSUME NEW v, NEW c \in Core, NEW d \in Database, NEW m
    PROVE  /\ Keeps(v, c, d, Choose(c, m), LogVote(d, m))
           /\ Keeps(v, c, d, Tally(c, m), LogVote(d, m))
<1>1. /\ Choose(c, m).timeouts = c.timeouts /\ Choose(c, m).timedOut = c.timedOut
      /\ Choose(c, m).pace = c.pace
      /\ Tally(c, m).timeouts = c.timeouts /\ Tally(c, m).timedOut = c.timedOut
      /\ Tally(c, m).pace = c.pace
  BY DEF Choose, Tally, Core
<1>2. LogVote(d, m).timeouts = d.timeouts /\ LogVote(d, m).pace = d.pace
  BY DEF LogVote, Database
<1>3. QED
  BY <1>1, <1>2 DEF Keeps, InMemory, OnDisk, Passed

\* A timeout certificate (observe_tc).
LEMMA MovingOnKeeps ==
    ASSUME NEW v, NEW c \in Core, NEW d \in Database, NEW r \in Nat \ {0}, d.pace = c.pace
    PROVE  Keeps(v, c, d, ObserveTC(c, r), SaveRuntime(d, ObserveTC(c, r)))
<1> DEFINE o == ObserveTC(c, r)
           e == SaveRuntime(d, o)
<1>1. c.pace \in Pace /\ c.pace.current \in Nat
  BY CoreNumbers
<1>2. NoteTC(c.pace, r) \in Pace /\ NoteTC(c.pace, r).current = Max2(c.pace.current, r + 1)
  BY <1>1, NoteTCTyped DEF NoteTC, Pace
<1>3. o \in Core /\ e \in Database
  BY <1>2, SaveRuntimeTyped DEF ObserveTC, Core
<1>4. o.timeouts = c.timeouts /\ o.timedOut = c.timedOut /\ o.pace = NoteTC(c.pace, r)
  BY DEF ObserveTC, Core
<1>5. e.timeouts = d.timeouts /\ e.pace = o.pace
  BY DEF SaveRuntime, Database
<1>6. o.pace.current >= c.pace.current
  BY <1>1, <1>2, <1>4 DEF Max2
<1>7. QED
  BY <1>3, <1>4, <1>5, <1>6, LosingOldRecordsKeeps

\* A timeout vote of a round v has passed, or its own one, is recorded
\* (save_timeout_vote_record).
LEMMA RecordingTimeouts ==
    ASSUME NEW v, NEW d \in Database, NEW t \in TimeoutVote,
           t.voter = v \/ Passed(v, t.height, t.round, d)
    PROVE  LET e == LogTimeout(d, t) IN
           /\ OnDisk(v, d) => OnDisk(v, e)
           /\ \A h, r \in Nat : Passed(v, h, r, d) => Passed(v, h, r, e)
           /\ t.voter = v => Passed(v, t.height, t.round, e)
           /\ e \in Database /\ e.pace = d.pace
<1> DEFINE e == LogTimeout(d, t)
<1>1. /\ e.timeouts = {k \in d.timeouts : ~(k.height = t.height /\ k.round = t.round
                                            /\ k.voter = t.voter)} \cup {t}
      /\ e.pace = d.pace
  BY DEF LogTimeout, Database
<1>2. \A h, r \in Nat : Passed(v, h, r, d) => Passed(v, h, r, e)
  BY <1>1 DEF Passed
<1>3. t.voter = v => Passed(v, t.height, t.round, e)
  BY <1>1 DEF Passed
<1>4. Passed(v, t.height, t.round, e)
  BY <1>2, <1>3 DEF TimeoutVote
<1>5. \A k \in d.timeouts : k.height \in Nat /\ k.round \in Nat
  BY DEF Database, TimeoutVote
<1>6. OnDisk(v, d) => OnDisk(v, e)
  BY <1>1, <1>2, <1>4, <1>5 DEF OnDisk
<1>7. QED
  BY <1>1, <1>2, <1>3, <1>6, LogTimeoutTyped

-----------------------------------------------------------------------------
(* What an action may do to the drivers *)

AllKeep == \A v \in Validators : Keeps(v, core[v], db[v], core'[v], db'[v])

\* One core and its database change, or none.
LEMMA KeepOne ==
    ASSUME IInv, NEW v \in Validators, NEW c, NEW d, Keeps(v, core[v], db[v], c, d),
           core' = [core EXCEPT ![v] = c], db' = [db EXCEPT ![v] = d]
    PROVE  AllKeep
<1>1. \A w \in Validators : /\ core'[w] = IF w = v THEN c ELSE core[w]
                            /\ db'[w] = IF w = v THEN d ELSE db[w]
  BY DEF IInv, Shape, TypeOK
<1>2. \A w \in Validators : Keeps(w, core[w], db[w], core[w], db[w])
  BY DEF Keeps
<1>3. QED
  BY <1>1, <1>2 DEF AllKeep

\* Neither cores nor databases change.
LEMMA KeepNone ==
    ASSUME UNCHANGED <<core, db>>
    PROVE  AllKeep
  BY DEF AllKeep, Keeps

\* Drivers and requests are where they were.
LEMMA StillCounted ==
    ASSUME IInv, Counted, AllKeep, UNCHANGED up
    PROVE  /\ NodesAccount'
           /\ \A l \in Validators : Collecting(l, driver[l], core'[l], db'[l])
           /\ \A m \in requests : m.live /\ m.phase = "timeout" =>
                    m.to \notin driver[m.from].left /\ Free(m.to, driver[m.from], core'[m.from])
<1>1. NodesAccount'
  BY DEF Counted, NodesAccount, AllKeep, Keeps
<1>2. ASSUME NEW l \in Validators PROVE Collecting(l, driver[l], core'[l], db'[l])
  <2>1. driver[l].prop.height \in Nat /\ driver[l].prop.round \in Nat
    BY DEF IInv, Shape, TypeOK, Driver, Proposal
  <2>2. /\ core'[l].timeouts = core[l].timeouts /\ core[l].timedOut \subseteq core'[l].timedOut
        /\ \A h, r \in Nat : Passed(l, h, r, db[l]) => Passed(l, h, r, db'[l])
    BY DEF AllKeep, Keeps
  <2>3. Collecting(l, driver[l], core[l], db[l])
    BY DEF Counted, Collectors
  <2>4. QED
    BY <2>1, <2>2, <2>3 DEF Collecting, Free
<1>3. \A m \in requests : m.from \in Validators
  BY DEF IInv, Shape, TypeOK, Request
<1>4. \A m \in requests : core'[m.from].timeouts = core[m.from].timeouts
  BY <1>3 DEF AllKeep, Keeps
<1>5. \A m \in requests : m.live /\ m.phase = "timeout" =>
            m.to \notin driver[m.from].left /\ Free(m.to, driver[m.from], core'[m.from])
  BY <1>4 DEF Counted, Awaited, Free
<1>6. QED
  BY <1>1, <1>2, <1>5

\* Handlers of notices, and restarts of others' rounds.
LEMMA DriversStayCounted ==
    ASSUME IInv, Counted, AllKeep, UNCHANGED <<up, driver, requests>>
    PROVE  Counted'
  BY StillCounted DEF Counted, Collectors, Awaited

\* A driver goes on with a round that is not a timeout round.
LEMMA RoundGoesOnCounted ==
    ASSUME IInv, Counted, AllKeep, UNCHANGED <<up, requests>>, NEW l \in Validators, NEW dr,
           driver[l].pc # "wait", driver' = [driver EXCEPT ![l] = dr], dr.phase # "timeout"
    PROVE  Counted'
<1>1. \A w \in Validators : driver'[w] = IF w = l THEN dr ELSE driver[w]
  BY DEF IInv, Shape, TypeOK
<1>2. Collectors'
  BY <1>1, StillCounted DEF Collecting, Collectors, Counted
<1>3. \A m \in requests : m.from \in Validators /\ (m.live => m.from # l)
  BY DEF IInv, Shape, TypeOK, RequestsOK, Request
<1>4. Awaited'
  BY <1>1, <1>3, StillCounted DEF Awaited
<1>5. QED
  BY <1>2, <1>4, StillCounted DEF Counted

\* A call ends: nobody waits for its requests any more.
LEMMA StopsCounted ==
    ASSUME IInv, Counted, AllKeep, UNCHANGED up, NEW l \in Validators, Stop(l)
    PROVE  Counted'
<1>1. driver' = [driver EXCEPT ![l] = Idle] /\ requests' \in {Dropped(l), Orphaned(l)}
  BY DEF Stop
<1>2. \A w \in Validators : driver'[w] = IF w = l THEN Idle ELSE driver[w]
  BY <1>1 DEF IInv, Shape, TypeOK
<1>3. Idle.phase # "timeout"
  BY DEF Idle
<1>4. Collectors'
  BY <1>2, <1>3, StillCounted DEF Collecting, Collectors, Counted
<1>5. \A m \in requests : m \in Request /\ m.from \in Validators
  BY DEF IInv, Shape, TypeOK, Request
<1>6. \A m \in requests' : m.live => m \in requests /\ m.from # l
  BY <1>1, <1>5 DEF Dropped, Orphaned, Request
<1>7. Awaited'
  BY <1>2, <1>5, <1>6, StillCounted DEF Awaited
<1>8. QED
  BY <1>4, <1>7, StillCounted DEF Counted

\* An answer reaches the driver that waits for it, or nobody.  A timeout vote is
\* the vote of the peer that was asked.
LEMMA AnsweredCounted ==
    ASSUME IInv, Evidence, Counted, AllKeep, UNCHANGED up,
           NEW m \in requests, requests' = requests \ {m}, NEW vote,
           \/ /\ AnswerWith(m, vote)
              /\ m.phase = "timeout" => vote.voter = m.to /\ SameTimeout(vote, m.prop)
           \/ Refuse(m)
    PROVE  Counted'
<1>1. m.from \in Validators /\ driver \in [Validators -> Driver] /\ driver[m.from] \in Driver
  BY DEF IInv, Shape, TypeOK, Request
<1>2. /\ NodesAccount'
      /\ \A l \in Validators : Collecting(l, driver[l], core'[l], db'[l])
      /\ \A k \in requests : k.live /\ k.phase = "timeout" =>
               k.to \notin driver[k.from].left /\ Free(k.to, driver[k.from], core'[k.from])
  BY StillCounted
<1>3. CASE ~m.live
  <2>1. driver' = driver
    BY <1>3 DEF AnswerWith, Refuse
  <2>2. QED
    BY <1>2, <2>1 DEF Counted, Collectors, Awaited
<1>4. CASE m.live
  <2> DEFINE dr == driver[m.from]
             c == core'[m.from]
             d == db'[m.from]
             asks == [dr EXCEPT !.pc = "ask", !.got = @ \cup {vote}]
             refused == [dr EXCEPT !.pc = "refused"]
  <2>1. dr.phase = m.phase /\ dr.prop = m.prop
    BY <1>1, <1>4 DEF IInv, Shape, RequestsOK, Evidence, RequestsAsked
  <2>2. Collecting(m.from, dr, c, d)
    BY <1>1, <1>2
  <2>3. /\ refused.prop = dr.prop /\ refused.phase = dr.phase
        /\ refused.got = dr.got /\ refused.left = dr.left
        /\ asks.prop = dr.prop /\ asks.phase = dr.phase
        /\ asks.got = dr.got \cup {vote} /\ asks.left = dr.left
    BY <1>1 DEF Driver
  <2>4. Collecting(m.from, refused, c, d)
    BY <2>2, <2>3 DEF Collecting, Free
  <2>5. ASSUME m.phase = "timeout" => vote.voter = m.to /\ SameTimeout(vote, m.prop)
        PROVE  Collecting(m.from, asks, c, d)
    <3> SUFFICES ASSUME m.phase = "timeout" PROVE Collecting(m.from, asks, c, d)
      BY <2>1, <2>3 DEF Collecting
    <3>1. /\ m.to \notin dr.left /\ Free(m.to, dr, c)
          /\ vote.voter = m.to /\ SameTimeout(vote, dr.prop)
      BY <1>2, <1>4, <2>1, <2>5
    <3>2. QED
      BY <2>1, <2>2, <2>3, <3>1 DEF Collecting, Free
  <2>6. PICK new : /\ driver' = [driver EXCEPT ![m.from] = new]
                   /\ new.phase = dr.phase /\ Collecting(m.from, new, c, d)
    <3>1. CASE Refuse(m)
      <4>1. driver' = [driver EXCEPT ![m.from] = refused]
        BY <1>1, <1>4, <3>1 DEF Refuse, Driver
      <4>2. QED
        BY <2>3, <2>4, <4>1
    <3>2. CASE AnswerWith(m, vote) /\ ~Refuse(m)
      <4>1. driver' = [driver EXCEPT ![m.from] = asks]
        BY <1>1, <1>4, <3>2 DEF AnswerWith, Driver
      <4>2. QED
        BY <2>3, <2>5, <3>2, <4>1
    <3>3. QED
      BY <3>1, <3>2
  <2>7. \A w \in Validators : driver'[w] = IF w = m.from THEN new ELSE driver[w]
    BY <1>1, <2>6
  <2>8. Collectors'
    BY <1>2, <2>6, <2>7 DEF Collectors, Counted
  <2>9. \A k \in requests' : k \in requests /\ k.from \in Validators /\ (k.live => k.from # m.from)
    BY <1>4 DEF IInv, Shape, TypeOK, Request, RequestsOK
  <2>10. Awaited'
    BY <1>2, <2>7, <2>9 DEF Awaited
  <2>11. QED
    BY <1>2, <2>8, <2>10 DEF Counted
<1>5. QED
  BY <1>3, <1>4

-----------------------------------------------------------------------------
(* Every action but those of timeouts *)

\* What the invariants say of one validator.
LEMMA CountedOne ==
    ASSUME IInv, Evidence, NEW v \in Validators
    PROVE  /\ core[v] \in Core /\ db[v] \in Database /\ db[v].pace = core[v].pace
           /\ driver[v] \in Driver
  BY DEF IInv, Shape, TypeOK, Evidence, NodesOK, NodeOK

\* _drive_phase_over_network.
LEMMA BeginPhaseCounted ==
    ASSUME IInv, Evidence, Counted, NEW l \in Validators, BeginPhase(l)
    PROVE  Counted'
<1> DEFINE dr == driver[l]
           o == Observe(core[l], dr.prev)
           c == Observe(o, dr.prop.justify)
           e == ObserveInDb(db[l], core[l], dr.prev)
           d == ObserveInDb(e, o, dr.prop.justify)
           m == VoteFor(l, dr.prop, dr.phase)
           new == [dr EXCEPT !.pc = "own"]
<1>1. dr.pc = "begin" /\ UNCHANGED up
  BY DEF BeginPhase
<1>2. dr.prev \in QCOrNone /\ dr.prop.justify \in QCOrNone /\ dr \in Driver
  BY CountedOne DEF Driver, Proposal
<1>3. o \in Core /\ e \in Database /\ c \in Core /\ d \in Database
  BY <1>2, CountedOne, ObserveTyped, ObserveInDbTyped
<1>4. Keeps(l, core[l], db[l], o, e) /\ e.pace = o.pace
  BY <1>2, CountedOne, ObservingKeeps
<1>5. Keeps(l, o, e, c, d)
  BY <1>2, <1>3, <1>4, ObservingKeeps
<1>6. Keeps(l, core[l], db[l], c, d)
  BY <1>4, <1>5, KeepingIsTransitive
<1>7. CASE MayVote(c, l, dr.prop, dr.phase)
  <2>1. /\ core' = [core EXCEPT ![l] = Choose(c, m)] /\ db' = [db EXCEPT ![l] = LogVote(d, m)]
        /\ driver' = [driver EXCEPT ![l] = new] /\ UNCHANGED requests
    BY <1>7 DEF BeginPhase, CastVote
  <2>2. Keeps(l, core[l], db[l], Choose(c, m), LogVote(d, m))
    BY <1>3, <1>6, VotingKeeps, KeepingIsTransitive
  <2>3. new.phase # "timeout"
    BY <1>1, <1>2, TimeoutIsNoPhase DEF IInv, Shape, DriversOK, DriverOK, Driver
  <2>4. QED
    BY <1>1, <2>1, <2>2, <2>3, KeepOne, RoundGoesOnCounted
<1>8. CASE ~MayVote(c, l, dr.prop, dr.phase)
  <2>1. core' = [core EXCEPT ![l] = c] /\ db' = [db EXCEPT ![l] = d] /\ Stop(l)
    BY <1>8 DEF BeginPhase
  <2>2. QED
    BY <1>1, <1>6, <2>1, KeepOne, StopsCounted
<1>9. QED
  BY <1>7, <1>8

\* _on_consensus_proposal.
LEMMA HandleProposalCounted ==
    ASSUME IInv, Evidence, Counted, NEW v \in Validators, NEW m \in requests, HandleProposal(v, m)
    PROVE  Counted'
<1> DEFINE c == Informed(v, m.prop)
           d == InformedDb(v, m.prop)
           vote == VoteFor(v, m.prop, m.phase)
<1>1. m.phase # "timeout" /\ requests' = requests \ {m} /\ UNCHANGED up
  BY TimeoutIsNoPhase DEF HandleProposal
<1>2. m.prop.justify \in QCOrNone
  BY DEF IInv, Shape, TypeOK, Request, Proposal
<1>3. c \in Core /\ d \in Database
  BY <1>2, CountedOne, ObserveTyped, ObserveInDbTyped DEF Informed, InformedDb
<1>4. Keeps(v, core[v], db[v], c, d)
  BY <1>2, CountedOne, ObservingKeeps DEF Informed, InformedDb
<1>5. CASE MayVote(c, v, m.prop, m.phase)
  <2>1. /\ core' = [core EXCEPT ![v] = Choose(c, vote)] /\ db' = [db EXCEPT ![v] = LogVote(d, vote)]
        /\ AnswerWith(m, vote)
    BY <1>5 DEF HandleProposal, CastVote
  <2>2. Keeps(v, core[v], db[v], Choose(c, vote), LogVote(d, vote))
    BY <1>3, <1>4, VotingKeeps, KeepingIsTransitive
  <2>3. AllKeep
    BY <2>1, <2>2, KeepOne
  <2>4. QED
    BY <1>1, <2>1, <2>3, AnsweredCounted
<1>6. CASE ~MayVote(c, v, m.prop, m.phase)
  <2>1. core' = [core EXCEPT ![v] = c] /\ db' = [db EXCEPT ![v] = d] /\ Refuse(m)
    BY <1>6 DEF HandleProposal
  <2>2. AllKeep
    BY <1>4, <2>1, KeepOne
  <2>3. QED
    BY <1>1, <2>1, <2>2, AnsweredCounted
<1>7. QED
  BY <1>5, <1>6

\* accept_vote.
LEMMA CountingCounted ==
    ASSUME IInv, Evidence, Counted, NEW l \in Validators, NEW m,
           \/ CountOwnVote(l) /\ m = VoteFor(l, driver[l].prop, driver[l].phase)
           \/ m \in driver[l].got /\ CountVote(l, m)
    PROVE  Counted'
<1> DEFINE dr == driver[l]
           q == CertifiedBy(core[l], m)
           c == Tally(core[l], m)
           d == LogVote(db[l], m)
           own == [dr EXCEPT !.pc = "ask", !.left = dr.peers \ {l}, !.qc = QcAfter(l, m)]
           counted == [dr EXCEPT !.got = @ \ {m}, !.qc = QcAfter(l, m)]
<1>1. /\ dr.pc \in {"own", "ask"} /\ dr.phase \in Phases /\ m \in Vote
      /\ UNCHANGED <<up, requests>>
      /\ driver' \in {[driver EXCEPT ![l] = own], [driver EXCEPT ![l] = counted]}
  BY DEF CountOwnVote, CountVote, msgVars, IInv, Shape, TypeOK, DriversOK, DriverOK
<1>2. /\ core' = [core EXCEPT ![l] = Observe(c, q)]
      /\ db' = [db EXCEPT ![l] = ObserveInDb(d, c, q)]
  BY DEF CountOwnVote, CountVote, AcceptVote
<1>3. c \in Core /\ d \in Database /\ q \in QCOrNone
  BY <1>1, CountedOne, LogVoteTyped, CertifiedByTyped DEF Tally, Core
<1>4. d.pace = c.pace
  BY CountedOne DEF LogVote, Tally, Core, Database
<1>5. Keeps(l, core[l], db[l], c, d)
  BY CountedOne, VotingKeeps
<1>6. Keeps(l, core[l], db[l], Observe(c, q), ObserveInDb(d, c, q))
  BY <1>3, <1>4, <1>5, ObservingKeeps, KeepingIsTransitive
<1>7. AllKeep
  BY <1>2, <1>6, KeepOne
<1>8. own.phase # "timeout" /\ counted.phase # "timeout"
  BY <1>1, CountedOne, TimeoutIsNoPhase DEF Driver
<1>9. QED
  BY <1>1, <1>7, <1>8, RoundGoesOnCounted

\* The commit and the handlers of certificates and blocks.
LEMMA ObservingCounted ==
    ASSUME IInv, Evidence, Counted, NEW v \in Validators,
           \/ Finalize(v)
           \/ \E n \in notices : HandleNotice(v, n)
           \/ \E n \in tcs : HandleTC(v, n)
           \/ \E w \in Validators : FetchBlock(v, w)
    PROVE  Counted'
<1>1. CASE Finalize(v)
  <2>1. driver[v].qc \in QCOrNone
    BY CountedOne DEF Driver
  <2>2. Keeps(v, core[v], db[v], Observe(core[v], driver[v].qc),
              ObserveInDb(db[v], core[v], driver[v].qc))
    BY <2>1, CountedOne, ObservingKeeps
  <2>3. /\ core' = [core EXCEPT ![v] = Observe(core[v], driver[v].qc)]
        /\ db' = [db EXCEPT ![v] = ObserveInDb(db[v], core[v], driver[v].qc)]
        /\ Stop(v) /\ UNCHANGED up
    BY <1>1 DEF Finalize
  <2>4. QED
    BY <2>2, <2>3, KeepOne, StopsCounted
<1>2. ASSUME NEW n \in notices, HandleNotice(v, n) PROVE Counted'
  <2>1. n.qc \in QCOrNone
    BY DEF IInv, Shape, TypeOK, Notice
  <2>2. Keeps(v, core[v], db[v], Observe(core[v], n.qc), ObserveInDb(db[v], core[v], n.qc))
    BY <2>1, CountedOne, ObservingKeeps
  <2>3. /\ core' = [core EXCEPT ![v] = Observe(core[v], n.qc)]
        /\ db' = [db EXCEPT ![v] = ObserveInDb(db[v], core[v], n.qc)]
        /\ UNCHANGED <<up, driver, requests>>
    BY <1>2 DEF HandleNotice, msgVars
  <2>4. QED
    BY <2>2, <2>3, KeepOne, DriversStayCounted
<1>3. ASSUME NEW n \in tcs, HandleTC(v, n) PROVE Counted'
  <2>1. n.round \in Nat \ {0}
    BY DEF IInv, Shape, TypeOK, TCNotice
  <2>2. Keeps(v, core[v], db[v], ObserveTC(core[v], n.round),
              SaveRuntime(db[v], ObserveTC(core[v], n.round)))
    BY <2>1, CountedOne, MovingOnKeeps
  <2>3. /\ core' = [core EXCEPT ![v] = ObserveTC(core[v], n.round)]
        /\ db' = [db EXCEPT ![v] = SaveRuntime(db[v], ObserveTC(core[v], n.round))]
        /\ UNCHANGED <<up, driver, requests>>
    BY <1>3 DEF HandleTC, msgVars
  <2>4. QED
    BY <2>2, <2>3, KeepOne, DriversStayCounted
<1>4. ASSUME NEW w \in Validators, FetchBlock(v, w) PROVE Counted'
  BY <1>4, KeepNone, DriversStayCounted DEF FetchBlock, msgVars
<1>5. QED
  BY <1>1, <1>2, <1>3, <1>4

\* Beginnings and ends of rounds.
LEMMA RoundsCounted ==
    ASSUME IInv, Evidence, Counted, NEW l \in Validators,
           \/ \E ps \in PeerSets, b \in Bodies : StartRound(l, ps, b)
           \/ EndPhase(l) \/ GiveUp(l) \/ EndTimeout(l)
    PROVE  Counted'
<1>1. ASSUME NEW ps \in PeerSets, NEW b \in Bodies, StartRound(l, ps, b) PROVE Counted'
  <2> DEFINE dr == [pc |-> "begin", phase |-> "prepare",
                    prop |-> [height |-> Len(chain[l]) + 1, round |-> core[l].pace.current,
                              block |-> Append(chain[l], b), justify |-> core[l].high],
                    prev |-> NoQC, qc |-> NoQC, peers |-> ps, left |-> {}, got |-> {}]
  <2>1. /\ driver' = [driver EXCEPT ![l] = dr] /\ driver[l].pc = "idle"
        /\ UNCHANGED <<core, db, up, requests>>
    BY <1>1 DEF StartRound, nodeVars, msgVars
  <2>2. dr.phase # "timeout"
    OBVIOUS
  <2>3. QED
    BY <2>1, <2>2, KeepNone, RoundGoesOnCounted
<1>2. CASE GiveUp(l) \/ EndTimeout(l)
  <2>1. Stop(l) /\ UNCHANGED <<core, db, up>>
    BY <1>2 DEF GiveUp, EndTimeout, nodeVars
  <2>2. QED
    BY <2>1, KeepNone, StopsCounted
<1>3. CASE EndPhase(l)
  <2> DEFINE dr == driver[l]
             final == [dr EXCEPT !.pc = "final"]
             next == [dr EXCEPT !.pc = "begin", !.phase = NextPhase[dr.phase],
                                !.prev = dr.qc, !.qc = NoQC]
  <2>1. dr.pc = "ask" /\ dr.phase \in Phases /\ dr \in Driver /\ UNCHANGED <<core, db, up>>
    BY <1>3, CountedOne DEF EndPhase, nodeVars
  <2>2. final.phase # "timeout" /\ next.phase # "timeout"
    BY <2>1 DEF Driver, Phases, NextPhase
  <2>3. CASE Stop(l)
    BY <2>1, <2>3, KeepNone, StopsCounted
  <2>4. CASE UNCHANGED requests /\ driver' = [driver EXCEPT ![l] = final]
    BY <2>1, <2>2, <2>4, KeepNone, RoundGoesOnCounted
  <2>5. CASE UNCHANGED requests /\ driver' = [driver EXCEPT ![l] = next]
    BY <2>1, <2>2, <2>5, KeepNone, RoundGoesOnCounted
  <2>6. QED
    BY <1>3, <2>3, <2>4, <2>5 DEF EndPhase
<1>4. QED
  BY <1>1, <1>2, <1>3

\* The driver asks its next peer, whose vote it does not have.
LEMMA AskCounted ==
    ASSUME IInv, Evidence, Counted, NEW l \in Validators, NEW v \in driver[l].left, Ask(l, v)
    PROVE  Counted'
<1> DEFINE dr == driver[l]
           new == [dr EXCEPT !.pc = "wait", !.left = @ \ {v}]
           m == [from |-> l, to |-> v, phase |-> dr.phase, prop |-> dr.prop, live |-> TRUE]
<1>1. /\ dr.pc = "ask" /\ UNCHANGED <<core, db, up>>
      /\ driver' = [driver EXCEPT ![l] = new] /\ requests' = requests \cup {m}
  BY DEF Ask, nodeVars
<1>2. /\ NodesAccount'
      /\ \A w \in Validators : Collecting(w, driver[w], core'[w], db'[w])
      /\ \A k \in requests : k.live /\ k.phase = "timeout" =>
               k.to \notin driver[k.from].left /\ Free(k.to, driver[k.from], core'[k.from])
  BY <1>1, KeepNone, StillCounted
<1>3. \A w \in Validators : driver'[w] = IF w = l THEN new ELSE driver[w]
  BY <1>1 DEF IInv, Shape, TypeOK
<1>4. /\ new.phase = dr.phase /\ new.prop = dr.prop /\ new.got = dr.got
      /\ new.left = dr.left \ {v}
  BY CountedOne DEF Driver
<1>5. Collecting(l, new, core'[l], db'[l])
  BY <1>2, <1>4 DEF Collecting, Free
<1>6. Collectors'
  BY <1>1, <1>2, <1>3, <1>4, <1>5 DEF Collectors, Counted
<1>7. dr.phase = "timeout" => v \notin new.left /\ Free(v, new, core'[l])
  BY <1>2, <1>4 DEF Collecting, Free
<1>8. \A k \in requests : k.from \in Validators /\ (k.live => k.from # l)
  BY <1>1 DEF IInv, Shape, TypeOK, RequestsOK, Request
<1>9. ASSUME NEW k \in requests', k.live, k.phase = "timeout"
      PROVE  k.to \notin driver'[k.from].left /\ Free(k.to, driver'[k.from], core'[k.from])
  <2>1. CASE k = m
    BY <1>3, <1>7, <1>9, <2>1
  <2>2. CASE k \in requests
    BY <1>2, <1>3, <1>8, <1>9, <2>2
  <2>3. QED
    BY <1>1, <2>1, <2>2
<1>10. Awaited'
  BY <1>9 DEF Awaited
<1>11. QED
  BY <1>2, <1>6, <1>10 DEF Counted

-----------------------------------------------------------------------------
(* Timing out *)

\* make_timeout_vote: the validator passes the round.
LEMMA CastingKeeps ==
    ASSUME IInv, NEW v \in Validators, NEW h \in Nat, NEW r \in Nat \ {0}, CastTimeout(v, h, r)
    PROVE  /\ AllKeep
           /\ Passed(v, h, r, db'[v]) /\ <<h, r>> \in core'[v].timedOut
           /\ core'[v].timeouts = core[v].timeouts
<1> DEFINE t == TimeoutOf(v, h, r)
           c == [core[v] EXCEPT !.timedOut = @ \cup {<<h, r>>}]
           d == LogTimeout(db[v], t)
<1>1. core[v] \in Core /\ db[v] \in Database
  BY DEF IInv, Shape, TypeOK
<1>2. t \in TimeoutVote /\ t.voter = v /\ t.height = h /\ t.round = r
  BY <1>1 DEF TimeoutOf, TimeoutVote, Core
<1>3. /\ core' = [core EXCEPT ![v] = c] /\ db' = [db EXCEPT ![v] = d]
      /\ core'[v] = c /\ db'[v] = d
  BY <1>1 DEF CastTimeout, IInv, Shape, TypeOK
<1>4. /\ c.timeouts = core[v].timeouts /\ c.timedOut = core[v].timedOut \cup {<<h, r>>}
      /\ c.pace = core[v].pace
  BY <1>1 DEF Core
<1>5. InMemory(core[v]) => InMemory(c)
  BY <1>4 DEF InMemory
<1>6. /\ OnDisk(v, db[v]) => OnDisk(v, d)
      /\ \A x, y \in Nat : Passed(v, x, y, db[v]) => Passed(v, x, y, d)
      /\ Passed(v, h, r, d)
  BY <1>1, <1>2, RecordingTimeouts
<1>7. Keeps(v, core[v], db[v], c, d)
  BY <1>4, <1>5, <1>6 DEF Keeps
<1>8. AllKeep
  BY <1>3, <1>7, KeepOne
<1>9. QED
  BY <1>3, <1>4, <1>6, <1>8

\* run_mvp_timeout_round begins: nothing has been counted for the round, because
\* its host was in it and had not timed it out.
LEMMA StartTimeoutCounted ==
    ASSUME IInv, Evidence, Counted, NEW l \in Validators, NEW ps, StartTimeout(l, ps)
    PROVE  Counted'
<1> DEFINE h == Len(chain[l]) + 1
           r == core[l].pace.current
           t == TimeoutOf(l, h, r)
           dr == [Idle EXCEPT !.pc = "ask", !.phase = "timeout", !.peers = ps, !.left = ps \ {l},
                              !.got = {t}, !.prop = [NoProposal EXCEPT !.height = h, !.round = r]]
<1>1. /\ CastTimeout(l, h, r) /\ MayTimeOut(l, h, r) /\ l \in up
      /\ driver' = [driver EXCEPT ![l] = dr] /\ driver[l].pc = "idle"
      /\ UNCHANGED <<up, requests>>
  BY DEF StartTimeout, msgVars
<1>2. h \in Nat /\ r \in Nat \ {0}
  BY LenProperties DEF IInv, Shape, TypeOK, Blocks, Core, Pace
<1>3. /\ AllKeep /\ Passed(l, h, r, db'[l]) /\ <<h, r>> \in core'[l].timedOut
      /\ core'[l].timeouts = core[l].timeouts
  BY <1>1, <1>2, CastingKeeps
<1>4. /\ NodesAccount'
      /\ \A w \in Validators : Collecting(w, driver[w], core'[w], db'[w])
      /\ \A k \in requests : k.live /\ k.phase = "timeout" =>
               k.to \notin driver[k.from].left /\ Free(k.to, driver[k.from], core'[k.from])
  BY <1>1, <1>3, StillCounted
<1>5. \A w \in Validators : driver'[w] = IF w = l THEN dr ELSE driver[w]
  BY <1>1 DEF IInv, Shape, TypeOK
<1>6. /\ dr.phase = "timeout" /\ dr.prop.height = h /\ dr.prop.round = r
      /\ dr.got = {t} /\ dr.left = ps \ {l}
  BY DEF Idle, NoProposal
<1>7. t.voter = l /\ t.height = h /\ t.round = r
  BY DEF TimeoutOf
<1>8. \A k \in core'[l].timeouts : ~SameTimeout(k, dr.prop)
  <2> SUFFICES ASSUME NEW k \in core[l].timeouts, k.height = h, k.round = r PROVE FALSE
    BY <1>3, <1>6 DEF SameTimeout
  <2>1. <<k.height, k.round>> \in core[l].timedOut \/ k.round < core[l].pace.current
    BY <1>1 DEF Counted, NodesAccount, InMemory
  <2>2. QED
    BY <1>1, <1>2, <2>1 DEF MayTimeOut
<1>9. Collecting(l, dr, core'[l], db'[l])
  BY <1>3, <1>6, <1>7, <1>8 DEF Collecting, Free, SameTimeout
<1>10. Collectors'
  BY <1>1, <1>4, <1>5, <1>9 DEF Collectors, Counted
<1>11. \A k \in requests : k.from \in Validators /\ (k.live => k.from # l)
  BY <1>1 DEF IInv, Shape, TypeOK, RequestsOK, Request
<1>12. Awaited'
  BY <1>1, <1>4, <1>5, <1>11 DEF Awaited
<1>13. QED
  BY <1>4, <1>10, <1>12 DEF Counted

\* _on_consensus_timeout_vote.
LEMMA HandleTimeoutCounted ==
    ASSUME IInv, Evidence, Counted, NEW v \in Validators, NEW m \in requests, HandleTimeout(v, m)
    PROVE  Counted'
<1> DEFINE h == m.prop.height
           r == m.prop.round
           t == TimeoutOf(v, h, r)
<1>1. h \in Nat /\ r \in Nat \ {0}
  BY DEF IInv, Shape, TypeOK, Request, Proposal
<1>2. m.to = v /\ requests' = requests \ {m} /\ UNCHANGED up
  BY DEF HandleTimeout
<1>3. CASE MayTimeOut(v, h, r)
  <2>1. CastTimeout(v, h, r) /\ AnswerWith(m, t)
    BY <1>3 DEF HandleTimeout
  <2>2. AllKeep
    BY <1>1, <2>1, CastingKeeps
  <2>3. t.voter = m.to /\ SameTimeout(t, m.prop)
    BY <1>2 DEF TimeoutOf, SameTimeout
  <2>4. QED
    BY <1>2, <2>1, <2>2, <2>3, AnsweredCounted
<1>4. CASE ~MayTimeOut(v, h, r)
  <2>1. Refuse(m) /\ UNCHANGED <<core, db>>
    BY <1>4 DEF HandleTimeout
  <2>2. QED
    BY <1>2, <2>1, KeepNone, AnsweredCounted
<1>5. QED
  BY <1>3, <1>4

\* accept_timeout_vote: the vote leaves the driver and joins the collector, which
\* had none of its voter, and the driver has no other of it.
LEMMA CountTimeoutCounted ==
    ASSUME IInv, Evidence, Counted, NEW l \in Validators, NEW t \in driver[l].got, CountTimeout(l, t)
    PROVE  Counted'
<1> DEFINE dr == driver[l]
           new == [dr EXCEPT !.got = @ \ {t}]
           c == [core[l] EXCEPT !.timeouts = @ \cup {t}]
           d == LogTimeout(db[l], t)
           moved == ObserveTC(c, t.round)
           certified == TimedOut(c.timeouts, t)
           after == IF certified THEN moved ELSE c
           saved == IF certified THEN SaveRuntime(d, moved) ELSE d
<1>1. /\ dr.pc = "ask" /\ dr.phase = "timeout" /\ dr.left = {} /\ l \in up
      /\ core' = [core EXCEPT ![l] = after] /\ db' = [db EXCEPT ![l] = saved]
      /\ driver' = [driver EXCEPT ![l] = new]
      /\ UNCHANGED <<up, requests>>
  BY DEF CountTimeout, msgVars
<1>2. core[l] \in Core /\ db[l] \in Database /\ db[l].pace = core[l].pace /\ dr \in Driver
  BY CountedOne
<1>3. t \in TimeoutVote
  BY <1>1 DEF IInv, Shape, TypeOK, DriversOK, DriverOK
<1>4. /\ <<dr.prop.height, dr.prop.round>> \in core[l].timedOut
      /\ Passed(l, dr.prop.height, dr.prop.round, db[l])
      /\ t.height = dr.prop.height /\ t.round = dr.prop.round
      /\ \A m \in dr.got :
            /\ SameTimeout(m, dr.prop)
            /\ \A k \in dr.got : k.voter = m.voter => k = m
            /\ \A k \in core[l].timeouts : SameTimeout(k, dr.prop) => k.voter # m.voter
  BY <1>1 DEF Counted, Collectors, Collecting, SameTimeout
<1>5. /\ c.timeouts = core[l].timeouts \cup {t} /\ c.timedOut = core[l].timedOut
      /\ c.pace = core[l].pace /\ c \in Core
  BY <1>2, <1>3 DEF Core
<1>6. InMemory(c)
  BY <1>1, <1>4, <1>5 DEF Counted, NodesAccount, InMemory
<1>7. /\ OnDisk(l, d) /\ d \in Database /\ d.pace = c.pace
      /\ \A h, r \in Nat : Passed(l, h, r, db[l]) => Passed(l, h, r, d)
  <2>1. Passed(l, t.height, t.round, db[l]) /\ OnDisk(l, db[l])
    BY <1>4 DEF Counted, NodesAccount
  <2>2. QED
    BY <1>2, <1>3, <1>5, <2>1, RecordingTimeouts
<1>8. Keeps(l, c, d, after, saved)
  <2>1. CASE certified
    BY <1>3, <1>5, <1>7, <2>1, MovingOnKeeps DEF TimeoutVote
  <2>2. CASE ~certified
    BY <2>2 DEF Keeps
  <2>3. QED
    BY <2>1, <2>2
<1>9. dr.prop.height \in Nat /\ dr.prop.round \in Nat
  BY <1>2 DEF Driver, Proposal
<1>10. /\ InMemory(after) /\ OnDisk(l, saved)
       /\ Passed(l, dr.prop.height, dr.prop.round, saved)
       /\ after.timeouts = core[l].timeouts \cup {t} /\ core[l].timedOut \subseteq after.timedOut
  BY <1>4, <1>5, <1>6, <1>7, <1>8, <1>9 DEF Keeps
<1>11. /\ new.phase = dr.phase /\ new.prop = dr.prop /\ new.left = {} /\ new.got = dr.got \ {t}
  BY <1>1, <1>2 DEF Driver
<1>12. \A m \in new.got : m \in dr.got /\ m.voter # t.voter
  BY <1>4, <1>11
<1>13. \A w \in Validators : /\ core'[w] = IF w = l THEN after ELSE core[w]
                             /\ db'[w] = IF w = l THEN saved ELSE db[w]
                             /\ driver'[w] = IF w = l THEN new ELSE driver[w]
  BY <1>1 DEF IInv, Shape, TypeOK
<1> HIDE DEF after, saved, new
<1>14. NodesAccount'
  BY <1>1, <1>10, <1>13 DEF Counted, NodesAccount
<1>15. Collectors'
  <2>1. Collecting(l, new, after, saved)
    BY <1>4, <1>10, <1>11, <1>12 DEF Collecting
  <2>2. QED
    BY <1>1, <1>13, <2>1 DEF Counted, Collectors
<1>16. \A k \in requests : k.from \in Validators /\ (k.live => k.from # l)
  BY <1>1 DEF IInv, Shape, TypeOK, RequestsOK, Request
<1>17. Awaited'
  BY <1>1, <1>13, <1>16 DEF Counted, Awaited
<1>18. QED
  BY <1>14, <1>15, <1>17 DEF Counted

-----------------------------------------------------------------------------
(* Crashing and restarting *)

\* A crash takes the driver with it.
LEMMA FailCounted ==
    ASSUME IInv, Counted, NEW v \in Validators, NEW d, Fail(v, d), OnDisk(v, d)
    PROVE  Counted'
<1>1. /\ up' = up \ {v} /\ db' = [db EXCEPT ![v] = d] /\ core' = [core EXCEPT ![v] = Load(v, d)]
      /\ driver' = [driver EXCEPT ![v] = Idle] /\ requests' \in {Dropped(v), Orphaned(v)}
  BY DEF Fail, Stop
<1>2. \A w \in Validators : /\ core'[w] = IF w = v THEN Load(v, d) ELSE core[w]
                            /\ db'[w] = IF w = v THEN d ELSE db[w]
                            /\ driver'[w] = IF w = v THEN Idle ELSE driver[w]
  BY <1>1 DEF IInv, Shape, TypeOK
<1>3. NodesAccount'
  BY <1>1, <1>2 DEF Counted, NodesAccount
<1>4. Idle.phase # "timeout"
  BY DEF Idle
<1>5. Collectors'
  BY <1>1, <1>2, <1>4 DEF Counted, Collectors, Collecting
<1>6. \A m \in requests : m \in Request /\ m.from \in Validators
  BY DEF IInv, Shape, TypeOK, Request
<1>7. \A m \in requests' : m.live => m \in requests /\ m.from # v
  BY <1>1, <1>6 DEF Dropped, Orphaned, Request
<1>8. Awaited'
  BY <1>2, <1>6, <1>7 DEF Counted, Awaited
<1>9. QED
  BY <1>3, <1>5, <1>8 DEF Counted

\* Whatever transaction of observe_qc was the last one: pruning by round takes the
\* own record of a round with the others' or not at all.
LEMMA InterruptedOnDisk ==
    ASSUME NEW v, NEW c \in Core, NEW d \in Database, NEW q \in QC, d.pace = c.pace,
           OnDisk(v, d), NEW e \in InterruptedObserve(d, c, q)
    PROVE  OnDisk(v, e)
<1> DEFINE saved  == [d EXCEPT !.high = HighAfter(c.high, q)]
           locked == [saved EXCEPT !.locked = LockAfter(c.locked, q)]
           pruned == [locked EXCEPT !.votes = KeepFrom(@, q.round)]
<1>1. CASE e = ObserveInDb(d, c, q)
  BY <1>1, ObservingKeeps DEF Keeps, QCOrNone
<1>2. CASE e \in {saved, locked, pruned, Prune(locked, q)}
  <2>1. e.pace = d.pace /\ e.timeouts \in {d.timeouts, KeepFrom(d.timeouts, q.round)}
    BY <1>2 DEF Prune, Database
  <2>2. QED
    BY <2>1 DEF OnDisk, Passed, KeepFrom
<1>3. QED
  BY <1>1, <1>2 DEF InterruptedObserve

\* Crashes between and inside operations.
LEMMA CrashesCounted ==
    ASSUME IInv, Evidence, Counted, NEW v \in Validators,
           \/ Crash(v) \/ CrashObserving(v)
           \/ \E m : CrashCounting(v, m)
           \/ \E t \in driver[v].got : CrashTimingOut(v, t)
    PROVE  Counted'
<1>1. /\ core[v] \in Core /\ db[v] \in Database /\ db[v].pace = core[v].pace
      /\ OnDisk(v, db[v])
  BY CountedOne DEF Counted, NodesAccount
<1>2. CASE Crash(v)
  BY <1>1, <1>2, FailCounted DEF Crash
<1>3. CASE CrashObserving(v)
  <2>1. PICK q \in Observing(v) : \E d \in InterruptedObserve(db[v], core[v], q) : Fail(v, d)
    BY <1>3 DEF CrashObserving
  <2>2. q \in QC
    BY <2>1, ObservingTyped DEF IInv, Shape
  <2>3. QED
    BY <1>1, <2>1, <2>2, InterruptedOnDisk, FailCounted
<1>4. ASSUME NEW m, CrashCounting(v, m) PROVE Counted'
  <2> DEFINE q == CertifiedBy(core[v], m)
             logged == LogVote(db[v], m)
  <2>1. m \in Vote
    BY <1>4, CountedIsVote DEF IInv
  <2>2. /\ logged \in Database /\ logged.pace = core[v].pace /\ OnDisk(v, logged)
    <3>1. OnDisk(v, logged)
      BY <1>1, VotingKeeps DEF Keeps
    <3>2. logged.pace = db[v].pace
      BY <1>1 DEF LogVote, Database
    <3>3. QED
      BY <1>1, <2>1, <3>1, <3>2, LogVoteTyped
  <2>3. CASE Fail(v, logged)
    BY <2>2, <2>3, FailCounted
  <2>4. CASE q # NoQC /\ \E d \in InterruptedObserve(logged, core[v], q) : Fail(v, d)
    <3>1. q \in QC
      BY <1>1, <2>1, <2>4, CertifiedByTyped DEF QCOrNone
    <3>2. QED
      BY <1>1, <2>2, <2>4, <3>1, InterruptedOnDisk, FailCounted
  <2>5. QED
    BY <1>4, <2>3, <2>4 DEF CrashCounting
<1>5. ASSUME NEW t \in driver[v].got, CrashTimingOut(v, t) PROVE Counted'
  <2>1. driver[v].phase = "timeout" /\ Fail(v, LogTimeout(db[v], t))
    BY <1>5 DEF CrashTimingOut
  <2>2. t \in TimeoutVote /\ Passed(v, t.height, t.round, db[v])
    BY <2>1 DEF IInv, Shape, TypeOK, DriversOK, DriverOK, Counted, Collectors, Collecting,
                SameTimeout
  <2>3. OnDisk(v, LogTimeout(db[v], t))
    BY <1>1, <2>2, RecordingTimeouts
  <2>4. QED
    BY <2>1, <2>3, FailCounted
<1>6. QED
  BY <1>2, <1>3, <1>4, <1>5

\* A restarted host holds itself to the rounds it has timed out
\* (ConsensusCore.__post_init__); it drives nothing yet.
LEMMA RestartCounted ==
    ASSUME IInv, Evidence, Counted, NEW v \in Validators, Restart(v)
    PROVE  Counted'
<1> DEFINE d == db[v]
           c == Load(v, d)
<1>1. /\ v \notin up /\ core' = [core EXCEPT ![v] = c] /\ up' = up \cup {v}
      /\ UNCHANGED <<db, driver, requests>>
  BY DEF Restart, msgVars
<1>2. \A w \in Validators : core'[w] = IF w = v THEN c ELSE core[w]
  BY <1>1 DEF IInv, Shape, TypeOK
<1>3. InMemory(c)
  <2>1. /\ c.timeouts = d.timeouts /\ c.pace = d.pace
        /\ c.timedOut = {<<t.height, t.round>> : t \in {x \in d.timeouts : x.voter = v}}
    BY DEF Load
  <2>2. SUFFICES ASSUME NEW k \in d.timeouts
                 PROVE  <<k.height, k.round>> \in c.timedOut \/ k.round < c.pace.current
    BY <2>1 DEF InMemory
  <2>3. Passed(v, k.height, k.round, d)
    BY DEF Counted, NodesAccount, OnDisk
  <2>4. QED
    BY <2>1, <2>3 DEF Passed
<1>4. NodesAccount'
  BY <1>1, <1>2, <1>3 DEF Counted, NodesAccount
<1>5. \A w \in Validators : driver[w].phase = "timeout" => w # v
  BY <1>1 DEF Counted, Collectors
<1>6. Collectors'
  BY <1>1, <1>2, <1>5 DEF Counted, Collectors, Collecting
<1>7. \A m \in requests : m.from \in Validators /\ (m.live => driver[m.from].phase = m.phase)
  BY DEF IInv, Shape, TypeOK, RequestsOK, Request
<1>8. Awaited'
  BY <1>1, <1>2, <1>5, <1>7 DEF Counted, Awaited
<1>9. QED
  BY <1>4, <1>6, <1>8 DEF Counted

-----------------------------------------------------------------------------
(* Every behaviour *)

\* At first nothing is counted and nobody drives.
LEMMA InitCounts == Init => Counted
  BY DEF Init, Counted, NodesAccount, Collectors, Awaited, OnDisk, InMemory, Collecting,
         EmptyDatabase, Load, Idle

\* Every step keeps the account.
LEMMA NextCounts == IInv /\ Evidence /\ Counted /\ [Next]_vars => Counted'
<1> SUFFICES ASSUME IInv, Evidence, Counted, [Next]_vars PROVE Counted'
  OBVIOUS
<1>1. CASE UNCHANGED vars
  BY <1>1, KeepNone, DriversStayCounted DEF vars
<1>2. ASSUME NEW l \in Drivers, Drive(l) PROVE Counted'
  <2>1. l \in Validators
    BY NetAssumption
  <2>2. CASE \/ \E ps \in PeerSets, b \in Bodies : StartRound(l, ps, b)
             \/ EndPhase(l) \/ GiveUp(l) \/ EndTimeout(l)
    BY <2>1, <2>2, RoundsCounted
  <2>3. CASE CountOwnVote(l) \/ \E m \in driver[l].got : CountVote(l, m)
    BY <2>1, <2>3, CountingCounted
  <2>4. CASE BeginPhase(l) \/ Finalize(l) \/ \E v \in driver[l].left : Ask(l, v)
    BY <2>1, <2>4, BeginPhaseCounted, ObservingCounted, AskCounted
  <2>5. CASE \/ \E ps \in PeerSets : StartTimeout(l, ps)
             \/ \E t \in driver[l].got : CountTimeout(l, t)
    BY <2>1, <2>5, StartTimeoutCounted, CountTimeoutCounted
  <2>6. QED
    BY <1>2, <2>2, <2>3, <2>4, <2>5 DEF Drive
<1>3. ASSUME NEW v \in Validators, Handle(v) PROVE Counted'
  BY <1>3, HandleProposalCounted, HandleTimeoutCounted, ObservingCounted DEF Handle
<1>4. ASSUME NEW v \in Crashable, Break(v) PROVE Counted'
  <2>1. v \in Validators
    BY NetAssumption
  <2>2. QED
    BY <1>4, <2>1, CrashesCounted, RestartCounted DEF Break
<1>5. QED
  BY <1>1, <1>2, <1>3, <1>4 DEF Next

\* In every behaviour the collectors' accounts are in order.
LEMMA CountedHolds == Spec => [](IInv /\ Evidence /\ Counted)
<1>1. Init => IInv /\ Evidence /\ Counted
  BY InitHasShape, InitRemembers, InitHasEvidence, InitCounts DEF IInv
<1>2. IInv /\ Evidence /\ Counted /\ [Next]_vars => (IInv /\ Evidence /\ Counted)'
  BY NextKeepsShape, NextRemembers, NextAdvances, NextCounts DEF IInv
<1>3. QED
  BY <1>1, <1>2, PTL DEF Spec

\* No collector ever meets a conflicting vote or timeout vote, so a driver that
\* has its answers counts them all (VoteCollector.add_vote, add_timeout_vote).
THEOREM NothingConflicts == Spec => []NoConflictWhileCounting
<1>1. IInv /\ Evidence /\ Counted => NoConflictWhileCounting
  <2> SUFFICES ASSUME IInv, Evidence, Counted, NEW l \in Drivers
               PROVE  /\ driver[l].pc = "own" =>
                            ~Conflicting(core[l], VoteFor(l, driver[l].prop, driver[l].phase))
                      /\ \A m \in driver[l].got :
                            IF driver[l].phase = "timeout" THEN ~ConflictingTimeout(core[l], m)
                            ELSE ~Conflicting(core[l], m)
    BY DEF NoConflictWhileCounting
  <2>1. /\ l \in Validators /\ driver[l] \in Driver
        /\ DriverOK(l, driver[l], votes, timeoutVotes)
        /\ Collecting(l, driver[l], core[l], db[l])
    BY NetAssumption DEF IInv, Shape, TypeOK, DriversOK, Counted, Collectors
  <2>2. \A m \in votes : ~Conflicting(core[l], m)
    BY <2>1 DEF IInv, Remembered, OneChoice, Conflicting
  <2>3. driver[l].phase \in Phases \cup {"timeout"}
    BY <2>1 DEF Driver, Stages
  <2>4. ASSUME NEW m \in driver[l].got, driver[l].phase = "timeout"
        PROVE  ~ConflictingTimeout(core[l], m)
    BY <2>1, <2>4 DEF Collecting, ConflictingTimeout, SameTimeout
  <2>5. QED
    BY <2>1, <2>2, <2>3, <2>4, TimeoutIsNoPhase DEF DriverOK
<1>2. QED
  BY <1>1, CountedHolds, PTL

-----------------------------------------------------------------------------
(***************************************************************************)
(* The vote layer by itself, for every set of validators, slots and        *)
(* blocks.  The inductive invariant says that votes of one validator in    *)
(* one slot agree and that every certificate still has its quorum on       *)
(* record; two quorums in one slot share a voter, whose votes agree.       *)
(***************************************************************************)

CONSTANTS AnySlots, AnyBlocks

VARIABLES anyCast, anyCerts

Layer == INSTANCE QuorumVoting WITH
    Slots <- AnySlots, Values <- AnyBlocks, cast <- anyCast, certs <- anyCerts

\* The instance counts as this module does.
LEMMA LayerQuorums == \A S : Layer!HasQuorum(S) <=> HasQuorum(S)
<1>1. \A T : Layer!Cardinality(T) = Cardinality(T)
  BY Zenon DEF Layer!Cardinality, Cardinality
<1>2. Layer!N = N
  BY <1>1, Zenon DEF Layer!N, N
<1>3. Layer!QuorumSize = QuorumSize
  BY <1>2, Zenon DEF Layer!QuorumSize, QuorumSize
<1>4. QED
  BY <1>1, <1>3, Zenon DEF Layer!HasQuorum, HasQuorum

\* The inductive invariant of the vote layer.
LayerInv == Layer!TypeOK /\ Layer!OneBlockPerVoter /\ Layer!CertsAreBacked

\* Casting votes adds supporters and removes none.
LEMMA SupportersGrow ==
    ASSUME NEW s, NEW b, anyCast \subseteq anyCast'
    PROVE  Layer!Supporters(s, b) \subseteq Layer!Supporters(s, b)'
  BY DEF Layer!Supporters

\* A validator's vote keeps the invariant (ConsensusCore.make_vote).
LEMMA CastVoteKeepsLayer ==
    ASSUME LayerInv, NEW v \in Validators, NEW s \in AnySlots, NEW b \in AnyBlocks,
           Layer!CastVote(v, s, b)
    PROVE  LayerInv'
<1> DEFINE m == [slot |-> s, voter |-> v, block |-> b]
<1>1. anyCast' = anyCast \cup {m} /\ anyCerts' = anyCerts
  BY DEF Layer!CastVote
<1>2. Layer!TypeOK'
  BY <1>1 DEF LayerInv, Layer!TypeOK, Layer!Votes
<1>3. Layer!OneBlockPerVoter'
  BY <1>1 DEF LayerInv, Layer!OneBlockPerVoter, Layer!CastVote
<1>4. Layer!CertsAreBacked'
  <2> SUFFICES ASSUME NEW c \in anyCerts PROVE Layer!HasQuorum(Layer!Supporters(c.slot, c.block)')
    BY <1>1 DEF Layer!CertsAreBacked
  <2>1. Layer!HasQuorum(Layer!Supporters(c.slot, c.block))
    BY DEF LayerInv, Layer!CertsAreBacked
  <2>2. Layer!Supporters(c.slot, c.block) \subseteq Layer!Supporters(c.slot, c.block)'
    BY <1>1, SupportersGrow
  <2>3. QED
    BY <2>1, <2>2, QuorumsGrow, LayerQuorums
<1>5. QED
  BY <1>2, <1>3, <1>4 DEF LayerInv

\* A certificate keeps the invariant (VoteCollector.add_vote).
LEMMA CertifyKeepsLayer ==
    ASSUME LayerInv, NEW s \in AnySlots, NEW b \in AnyBlocks, Layer!Certify(s, b)
    PROVE  LayerInv'
<1>1. anyCerts' = anyCerts \cup {[slot |-> s, block |-> b]} /\ anyCast' = anyCast
  BY DEF Layer!Certify
<1>2. Layer!TypeOK'
  BY <1>1 DEF LayerInv, Layer!TypeOK, Layer!Certs
<1>3. Layer!OneBlockPerVoter'
  BY <1>1 DEF LayerInv, Layer!OneBlockPerVoter
<1>4. Layer!CertsAreBacked'
  <2> SUFFICES ASSUME NEW c \in anyCerts \cup {[slot |-> s, block |-> b]}
               PROVE  Layer!HasQuorum(Layer!Supporters(c.slot, c.block))
    BY <1>1 DEF Layer!CertsAreBacked, Layer!Supporters
  <2>1. CASE c \in anyCerts
    BY <2>1 DEF LayerInv, Layer!CertsAreBacked
  <2>2. CASE c = [slot |-> s, block |-> b]
    BY <2>2 DEF Layer!Certify
  <2>3. QED
    BY <2>1, <2>2
<1>5. QED
  BY <1>2, <1>3, <1>4 DEF LayerInv

\* The invariant holds in every behaviour: types, one block per voter and
\* slot, and a quorum behind every certificate (make_vote and add_vote).
THEOREM LayerInvariant == Layer!Spec => []LayerInv
<1>1. Layer!Init => LayerInv
  BY DEF Layer!Init, LayerInv, Layer!TypeOK, Layer!OneBlockPerVoter, Layer!CertsAreBacked
<1>2. LayerInv /\ [Layer!Next]_(Layer!vars) => LayerInv'
  <2> SUFFICES ASSUME LayerInv, [Layer!Next]_(Layer!vars) PROVE LayerInv'
    OBVIOUS
  <2>1. CASE Layer!Next
    BY <2>1, CastVoteKeepsLayer, CertifyKeepsLayer DEF Layer!Next
  <2>2. CASE UNCHANGED Layer!vars
    BY <2>2 DEF LayerInv, Layer!TypeOK, Layer!OneBlockPerVoter, Layer!CertsAreBacked,
                Layer!Supporters, Layer!vars
  <2>3. QED
    BY <2>1, <2>2
<1>3. QED
  BY <1>1, <1>2, PTL DEF Layer!Spec

\* The votes and certificates stay well typed.
THEOREM LayerTyped == Layer!Spec => []Layer!TypeOK
<1>1. LayerInv => Layer!TypeOK
  BY DEF LayerInv
<1>2. QED
  BY <1>1, LayerInvariant, PTL

\* No slot ever has certificates for two blocks, whatever the number of
\* validators: the agreement that quorums of 2n/3 + 1 buy (VoteCollector).
THEOREM Agreement == Layer!Spec => []Layer!OneBlockPerSlot
<1>1. LayerInv => Layer!OneBlockPerSlot
  <2> SUFFICES ASSUME LayerInv, NEW c1 \in anyCerts, NEW c2 \in anyCerts, c1.slot = c2.slot
               PROVE  c1.block = c2.block
    BY DEF Layer!OneBlockPerSlot
  <2>1. /\ Layer!HasQuorum(Layer!Supporters(c1.slot, c1.block))
        /\ Layer!HasQuorum(Layer!Supporters(c2.slot, c2.block))
    BY DEF LayerInv, Layer!CertsAreBacked
  <2>2. PICK v \in Validators : /\ v \in Layer!Supporters(c1.slot, c1.block)
                                /\ v \in Layer!Supporters(c2.slot, c2.block)
    BY <2>1, QuorumsOverlap, LayerQuorums
  <2>3. QED
    BY <2>2 DEF LayerInv, Layer!OneBlockPerVoter, Layer!Supporters
<1>2. QED
  BY <1>1, LayerInvariant, PTL

===============================================================================
