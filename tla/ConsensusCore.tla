---------------------------- MODULE ConsensusCore ----------------------------
(***************************************************************************)
(* One validator's consensus state and what each operation of              *)
(* EZ_V2/consensus does to it: the pacemaker, the vote collectors, the     *)
(* safety rule of core.py and the transactions of the SQLite store.  The   *)
(* module has no variables: ConsensusNet holds one core and one database   *)
(* per validator and applies these operators to them.                      *)
(*                                                                         *)
(* Rounds are counted over the whole life of the chain, not per height.    *)
(* Chain, epoch and validator-set identifiers are the same everywhere and  *)
(* are left out, as are the signers listed in a certificate: nothing       *)
(* decides on them once the certificate exists.                            *)
(***************************************************************************)
EXTENDS ValidatorSet, Sequences

CONSTANT Bodies         \* what a block may contain

\* A block hash fixes the block and its whole ancestry, so a block stands for
\* the sequence of bodies from the first height up to its own.
Blocks == Seq(Bodies)

Phases == {"prepare", "precommit", "commit"}

PhaseRank == [p \in Phases \cup {"none"} |->
                CASE p = "prepare" -> 1 [] p = "precommit" -> 2 [] p = "commit" -> 3
                  [] OTHER -> 0]

QC == [height : Nat, round : Nat \ {0}, phase : Phases, block : Blocks]

\* No certificate at all: the code's None, below every certificate.
NoQC == [height |-> 0, round |-> 0, phase |-> "none", block |-> <<>>]

QCOrNone == QC \cup {NoQC}

Proposal == [height : Nat, round : Nat \ {0}, block : Blocks, justify : QCOrNone]

Vote == [height : Nat, round : Nat \ {0}, phase : Phases, voter : Validators, block : Blocks]

TimeoutVote == [height : Nat, round : Nat \ {0}, voter : Validators, high : QCOrNone]

\* PacemakerState without the timer's length: the local timeout counter only
\* scales a duration that no transition reads.
Pace == [current : Nat \ {0}, highestQc : Nat, lockedRound : Nat, highestTc : Nat, decided : Nat]

\* What a ConsensusCore holds in memory: its store's two certificates, the
\* block it voted for in each slot (choice), the votes and timeout votes its
\* collectors have accepted, and the rounds it has itself timed out.
Core == [pace : Pace, high : QCOrNone, locked : QCOrNone, choice : SUBSET Vote,
         tally : SUBSET Vote, timedOut : SUBSET (Nat \X Nat), timeouts : SUBSET TimeoutVote]

\* What SQLiteConsensusStore holds on disk.
Database == [pace : Pace, high : QCOrNone, locked : QCOrNone,
             votes : SUBSET Vote, timeouts : SUBSET TimeoutVote]

Max2(a, b) == IF a >= b THEN a ELSE b

\* Mutant: rounds counted from zero.
FirstPaceZero == [current |-> 0, highestQc |-> 0, lockedRound |-> 0, highestTc |-> 0, decided |-> 0]

FirstPace == [current |-> 1, highestQc |-> 0, lockedRound |-> 0, highestTc |-> 0, decided |-> 0]

EmptyDatabase == [pace |-> FirstPace, high |-> NoQC, locked |-> NoQC, votes |-> {}, timeouts |-> {}]

-----------------------------------------------------------------------------
(* Pacemaker *)

\* note_qc, followed by note_decide for a COMMIT certificate.
NoteQC(p, q) ==
    [p EXCEPT !.current = Max2(@, q.round + 1),
              !.highestQc = Max2(@, q.round),
              !.lockedRound = IF q.phase = "precommit" THEN Max2(@, q.round) ELSE @,
              !.decided = IF q.phase = "commit" THEN Max2(@, q.round) ELSE @]

NoteTC(p, r) ==
    [p EXCEPT !.current = Max2(@, r + 1), !.highestTc = Max2(@, r)]

-----------------------------------------------------------------------------
(* The store's certificates *)

\* store._is_higher_qc: by round, then by phase; the height plays no part.
Higher(q, r) ==
    \/ q.round > r.round
    \/ q.round = r.round /\ PhaseRank[q.phase] > PhaseRank[r.phase]

\* Mutant: the latest certificate observed counts as the highest.
HighLatest(high, q) == q

HighAfter(high, q) == IF Higher(q, high) THEN q ELSE high

\* update_locked_qc: a PRECOMMIT certificate of the same or a later round.
LockAfter(locked, q) ==
    IF q.phase = "precommit" /\ q.round >= locked.round THEN q ELSE locked

\* Mutant: pruning takes the certificate's own round as well.
KeepAfter(log, r) == {m \in log : m.round > r}

\* prune_vote_log and prune_timeout_log, run on a PRECOMMIT certificate.
KeepFrom(log, r) == {m \in log : m.round >= r}

Prune(d, q) ==
    IF q.phase = "precommit"
    THEN [d EXCEPT !.votes = KeepFrom(@, q.round), !.timeouts = KeepFrom(@, q.round)]
    ELSE d

\* save_vote_record: one row per height, round, phase and voter.
SameSlot(m, k) == m.height = k.height /\ m.round = k.round /\ m.phase = k.phase

LogVote(d, m) ==
    [d EXCEPT !.votes = {k \in @ : ~(SameSlot(k, m) /\ k.voter = m.voter)} \cup {m}]

LogTimeout(d, t) ==
    [d EXCEPT !.timeouts =
        {k \in @ : ~(k.height = t.height /\ k.round = t.round /\ k.voter = t.voter)} \cup {t}]

\* save_pacemaker_state: the singleton row takes the core's three values.
SaveRuntime(d, c) == [d EXCEPT !.pace = c.pace, !.high = c.high, !.locked = c.locked]

-----------------------------------------------------------------------------
(* Observing a certificate: ConsensusCore.observe_qc, and the same steps at *)
(* the end of accept_vote.                                                  *)

Observe(c, q) ==
    IF q = NoQC THEN c
    ELSE [c EXCEPT !.pace = NoteQC(@, q), !.high = HighAfter(@, q), !.locked = LockAfter(@, q)]

\* The database once every transaction of observe_qc has committed.
ObserveInDb(d, c, q) ==
    IF q = NoQC THEN d ELSE Prune(SaveRuntime(d, Observe(c, q)), q)

\* The databases a crash inside observe_qc can leave: the certificates are
\* written first, by transactions of their own that repeat the pacemaker as it
\* was, then the logs are pruned, and the pacemaker's new value comes last.
InterruptedObserve(d, c, q) ==
    LET saved  == [d EXCEPT !.high = HighAfter(c.high, q)]
        locked == [saved EXCEPT !.locked = LockAfter(c.locked, q)]
        pruned == [locked EXCEPT !.votes = KeepFrom(@, q.round)]
    IN  {saved, ObserveInDb(d, c, q)} \cup
        (IF q.phase = "precommit" THEN {locked, pruned, Prune(locked, q)} ELSE {})

\* observe_tc, and the end of accept_timeout_vote.
ObserveTC(c, r) == [c EXCEPT !.pace = NoteTC(@, r)]

-----------------------------------------------------------------------------
(* Voting *)

\* make_vote refuses rounds more than one behind the pacemaker's.
Stale(p, r) == r + 1 < p.current

\* The lock rule of validate_proposal; it is skipped when the validator holds
\* no lock or the proposal carries no justification.
BelowLock(c, p) ==
    /\ c.locked # NoQC
    /\ p.justify # NoQC
    /\ p.block # c.locked.block
    /\ p.justify.round < c.locked.round
    /\ p.justify.block # c.locked.block

VoteFor(v, p, phase) ==
    [height |-> p.height, round |-> p.round, phase |-> phase, voter |-> v, block |-> p.block]

\* Mutant: the memory is consulted in the last phase only.
ChoseAnotherInCommit(c, m) ==
    \E k \in c.choice : SameSlot(k, m) /\ k.block # m.block /\ k.phase = "commit"

\* make_vote's memory of the block already chosen in the slot.
ChoseAnother(c, m) == \E k \in c.choice : SameSlot(k, m) /\ k.block # m.block

\* make_vote accepts proposal p in this phase; c has observed p's justification.
MayVote(c, v, p, phase) ==
    /\ ~Stale(c.pace, p.round)
    /\ ~BelowLock(c, p)
    /\ ~ChoseAnother(c, VoteFor(v, p, phase))

Choose(c, m) == [c EXCEPT !.choice = @ \cup {m}]

-----------------------------------------------------------------------------
(* Collecting *)

Conflicting(c, m) == \E k \in c.tally : SameSlot(k, m) /\ k.voter = m.voter /\ k.block # m.block

Signers(tally, m) == {k.voter : k \in {x \in tally : SameSlot(x, m) /\ x.block = m.block}}

Tally(c, m) == [c EXCEPT !.tally = @ \cup {m}]

\* add_vote: the certificate vote m completes, or none.  Every vote after the
\* quorum's last returns the certificate again.
CertifiedBy(c, m) ==
    IF HasQuorum(Signers(c.tally \cup {m}, m))
    THEN [height |-> m.height, round |-> m.round, phase |-> m.phase, block |-> m.block]
    ELSE NoQC

SameTimeout(t, k) == t.height = k.height /\ t.round = k.round

ConflictingTimeout(c, t) ==
    \E k \in c.timeouts : SameTimeout(k, t) /\ k.voter = t.voter /\ k.high # t.high

TimeoutSigners(timeouts, t) == {k.voter : k \in {x \in timeouts : SameTimeout(x, t)}}

-----------------------------------------------------------------------------
(* Starting *)

\* Mutant: a restart that restores the collectors and not the choices.
LoadWithoutChoices(v, d) ==
    [pace |-> d.pace, high |-> d.high, locked |-> d.locked, choice |-> {}, tally |-> d.votes,
     timedOut |-> {<<t.height, t.round>> : t \in {x \in d.timeouts : x.voter = v}},
     timeouts |-> d.timeouts]

\* ConsensusCore.__post_init__: what a restart finds in database d.  The
\* validator's own records become its choices; all of them reach the collectors.
Load(v, d) ==
    [pace |-> d.pace, high |-> d.high, locked |-> d.locked,
     choice |-> {m \in d.votes : m.voter = v},
     tally |-> d.votes,
     timedOut |-> {<<t.height, t.round>> : t \in {x \in d.timeouts : x.voter = v}},
     timeouts |-> d.timeouts]

\* V2ConsensusHost.validate_runtime_state: it runs after every committed step,
\* and a host whose restored state fails it does not start.
RuntimeStateOK(c) ==
    /\ c.high # NoQC => c.pace.current > c.high.round
    /\ c.pace.current > c.pace.highestTc
    /\ c.high # NoQC /\ c.locked # NoQC => c.locked.round <= c.high.round
    /\ c.high # NoQC => c.pace.decided <= c.high.round

=============================================================================
