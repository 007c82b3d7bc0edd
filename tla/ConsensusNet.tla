---------------------------- MODULE ConsensusNet ----------------------------
(***************************************************************************)
(* The consensus nodes of a cluster in mvp mode: V2ConsensusHost of        *)
(* EZ_V2/network_host.py, driving the ConsensusCore of every validator     *)
(* over a network that delays and loses messages, with hosts that crash    *)
(* between (and inside) their database transactions and restart.           *)
(*                                                                         *)
(* A driver is a call of run_mvp_consensus_round or run_mvp_timeout_round  *)
(* in progress on a host.  It asks the listed peers one at a time and      *)
(* waits for each reply; while it waits its host answers other drivers.    *)
(* Any reply that is missing, late or negative ends the call with an       *)
(* exception: the driver never goes on with a quorum of its peers.         *)
(***************************************************************************)
EXTENDS ConsensusCore

CONSTANTS
    Drivers,        \* the validators that drive rounds
    PeerSets,       \* the consensus_peer_ids a driver may be called with
    Crashable,      \* the validators that may crash
    MaxHeight,      \* bound: blocks are proposed up to this height
    MaxRound,       \* bound: rounds are driven up to this one
    MaxTimeoutRound,\* bound: timeout rounds are driven up to this one
    MaxLate         \* bound: requests in flight whose driver has given up

ASSUME NetAssumption ==
    /\ Drivers \subseteq Validators
    /\ PeerSets \subseteq SUBSET Validators
    /\ Crashable \subseteq Validators
    /\ MaxHeight \in Nat /\ MaxRound \in Nat /\ MaxTimeoutRound \in Nat /\ MaxLate \in Nat

VARIABLES
    core,       \* core[v]: validator v's ConsensusCore in memory
    db,         \* db[v]: its consensus database
    chain,      \* chain[v]: the blocks it has applied, durably
    up,         \* the validators whose host is running
    driver,     \* driver[v]: the driver call in progress on v's host
    requests,   \* proposals and timeout requests on their way to a peer
    notices,    \* announcements and finalizations sent so far
    tcs,        \* timeout certificates sent so far
    votes,      \* history: the votes make_vote has returned
    qcs,        \* history: the certificates accept_vote has formed
    timeoutVotes \* history: the timeout votes make_timeout_vote has returned

vars == <<core, db, chain, up, driver, requests, notices, tcs, votes, qcs, timeoutVotes>>

nodeVars == <<core, db, chain, up>>
msgVars  == <<requests, notices, tcs>>
history  == <<votes, qcs, timeoutVotes>>

-----------------------------------------------------------------------------
(* Drivers and messages *)

\* A timeout round has phase "timeout" and a proposal without a block.
Stages == Phases \cup {"timeout"}

Driver == [pc    : {"idle", "begin", "own", "ask", "wait", "refused", "final"},
           phase : Stages,
           prop  : Proposal,
           prev  : QCOrNone,            \* the certificate of the phase before
           qc    : QCOrNone,            \* the certificate of this phase
           peers : SUBSET Validators,   \* everybody listed
           left  : SUBSET Validators,   \* peers still to be asked
           got   : SUBSET (Vote \cup TimeoutVote)]  \* votes received, not counted yet

NoProposal == [height |-> 0, round |-> 1, block |-> <<>>, justify |-> NoQC]

Idle == [pc |-> "idle", phase |-> "prepare", prop |-> NoProposal, prev |-> NoQC, qc |-> NoQC,
         peers |-> {}, left |-> {}, got |-> {}]

\* A request whose driver has given up is no longer live: it may still be
\* handled, but nobody takes the answer.
Request == [from : Validators, to : Validators, phase : Stages, prop : Proposal, live : BOOLEAN]

\* A block announcement carries no certificate; a finalization does.
Notice == [to : Validators, block : Blocks, qc : QCOrNone]

TCNotice == [to : Validators, round : Nat \ {0}]

Dropped(l) == {m \in requests : m.live => m.from # l}
Orphaned(l) == {IF m.from = l THEN [m EXCEPT !.live = FALSE] ELSE m : m \in requests}

\* The driver's call ends, with an exception or after its last step.  A request
\* it still waits on is lost, or arrives later.
Stop(l) ==
    /\ driver' = [driver EXCEPT ![l] = Idle]
    /\ requests' \in {R \in {Dropped(l), Orphaned(l)} :
                         Cardinality({m \in R : ~m.live}) <= MaxLate}

\* The handler's answer reaches the driver if it still waits for it.
AnswerWith(m, vote) ==
    driver' = IF m.live
              THEN [driver EXCEPT ![m.from].pc = "ask", ![m.from].got = @ \cup {vote}]
              ELSE driver

Refuse(m) ==
    driver' = IF m.live THEN [driver EXCEPT ![m.from].pc = "refused"] ELSE driver

-----------------------------------------------------------------------------
Init ==
    /\ core = [v \in Validators |-> Load(v, EmptyDatabase)]
    /\ db = [v \in Validators |-> EmptyDatabase]
    /\ chain = [v \in Validators |-> <<>>]
    /\ up = Validators
    /\ driver = [v \in Validators |-> Idle]
    /\ requests = {} /\ notices = {} /\ tcs = {} /\ votes = {} /\ qcs = {} /\ timeoutVotes = {}

-----------------------------------------------------------------------------
(* Driving a round: run_mvp_consensus_round *)

\* The block is previewed on the host's own chain and justified by the highest
\* certificate the host holds now; both stay for all three phases.
StartRound(l, ps, b) ==
    /\ l \in up /\ driver[l].pc = "idle" /\ l \in ps
    /\ core[l].pace.current <= MaxRound
    /\ Len(chain[l]) < MaxHeight
    /\ driver' = [driver EXCEPT ![l] =
            [pc |-> "begin", phase |-> "prepare",
             prop |-> [height |-> Len(chain[l]) + 1, round |-> core[l].pace.current,
                       block |-> Append(chain[l], b), justify |-> core[l].high],
             prev |-> NoQC, qc |-> NoQC, peers |-> ps, left |-> {}, got |-> {}]]
    /\ UNCHANGED <<nodeVars, msgVars, history>>

\* observe_qc and make_vote on the proposal's justification leave this core.
Informed(v, p) == Observe(core[v], p.justify)
InformedDb(v, p) == ObserveInDb(db[v], core[v], p.justify)

\* Mutant: the vote is returned without having been recorded.
CastVoteUnrecorded(v, p, phase, c, d) ==
    LET m == VoteFor(v, p, phase) IN
    /\ core' = [core EXCEPT ![v] = Choose(c, m)]
    /\ db' = [db EXCEPT ![v] = d]
    /\ votes' = votes \cup {m}

\* make_vote succeeds: chosen in memory, recorded on disk, returned.
CastVote(v, p, phase, c, d) ==
    LET m == VoteFor(v, p, phase) IN
    /\ core' = [core EXCEPT ![v] = Choose(c, m)]
    /\ db' = [db EXCEPT ![v] = LogVote(d, m)]
    /\ votes' = votes \cup {m}

\* _drive_phase_over_network, first half: observe the previous phase's
\* certificate, then vote for the own proposal.
BeginPhase(l) ==
    LET dr == driver[l]
        c == Observe(Observe(core[l], dr.prev), dr.prop.justify)
        d == ObserveInDb(ObserveInDb(db[l], core[l], dr.prev), Observe(core[l], dr.prev), dr.prop.justify)
    IN  /\ l \in up /\ dr.pc = "begin"
        /\ \/ /\ MayVote(c, l, dr.prop, dr.phase)
              /\ CastVote(l, dr.prop, dr.phase, c, d)
              /\ driver' = [driver EXCEPT ![l].pc = "own"]
              /\ UNCHANGED requests
           \/ /\ ~MayVote(c, l, dr.prop, dr.phase)
              /\ core' = [core EXCEPT ![l] = c]
              /\ db' = [db EXCEPT ![l] = d]
              /\ Stop(l)
              /\ UNCHANGED votes
        /\ UNCHANGED <<chain, up, notices, tcs, qcs, timeoutVotes>>

\* accept_vote: the record is kept first, then a completed quorum's certificate
\* is observed.  The caller says what becomes of the driver.
AcceptVote(l, m) ==
    LET q == CertifiedBy(core[l], m)
        c == Tally(core[l], m)
    IN  /\ ~Conflicting(core[l], m)
        /\ core' = [core EXCEPT ![l] = Observe(c, q)]
        /\ db' = [db EXCEPT ![l] = ObserveInDb(LogVote(db[l], m), c, q)]
        /\ qcs' = IF q = NoQC THEN qcs ELSE qcs \cup {q}

QcAfter(l, m) == IF CertifiedBy(core[l], m) = NoQC THEN driver[l].qc ELSE CertifiedBy(core[l], m)

\* The driver counts its own vote before it asks anybody.
CountOwnVote(l) ==
    LET m == VoteFor(l, driver[l].prop, driver[l].phase) IN
    /\ l \in up /\ driver[l].pc = "own"
    /\ AcceptVote(l, m)
    /\ driver' = [driver EXCEPT ![l].pc = "ask", ![l].left = driver[l].peers \ {l},
                                ![l].qc = QcAfter(l, m)]
    /\ UNCHANGED <<chain, up, msgVars, votes, timeoutVotes>>

\* Ask the next peer for its vote (or its timeout vote) and wait.
Ask(l, v) ==
    /\ l \in up /\ driver[l].pc = "ask" /\ v \in driver[l].left
    /\ driver' = [driver EXCEPT ![l].pc = "wait", ![l].left = @ \ {v}]
    /\ requests' = requests \cup
            {[from |-> l, to |-> v, phase |-> driver[l].phase, prop |-> driver[l].prop, live |-> TRUE]}
    /\ UNCHANGED <<nodeVars, notices, tcs, history>>

\* The call fails: a send raised, a reply did not come in time, or said no.
GiveUp(l) ==
    /\ l \in up /\ driver[l].pc \in {"wait", "refused"}
    /\ Stop(l)
    /\ UNCHANGED <<nodeVars, notices, tcs, history>>

\* All peers have answered: count their votes, one accept_vote at a time.
CountVote(l, m) ==
    /\ l \in up /\ driver[l].pc = "ask" /\ driver[l].phase \in Phases
    /\ driver[l].left = {} /\ m \in driver[l].got
    /\ AcceptVote(l, m)
    /\ driver' = [driver EXCEPT ![l].got = @ \ {m}, ![l].qc = QcAfter(l, m)]
    /\ UNCHANGED <<chain, up, msgVars, votes, timeoutVotes>>

\* Mutant: the PRECOMMIT phase is left out.
NextPhaseSkips == [prepare |-> "commit", precommit |-> "commit", commit |-> "commit"]

NextPhase == [prepare |-> "precommit", precommit |-> "commit", commit |-> "commit"]

\* Mutant: a PRECOMMIT certificate is taken for final.
LockIsLast(phase) == phase # "prepare"

LastPhase(phase) == phase = "commit"

\* The phase ends: without a certificate the call fails, after COMMIT it
\* finalizes, otherwise the next phase begins.
EndPhase(l) ==
    LET dr == driver[l] IN
    /\ l \in up /\ dr.pc = "ask" /\ dr.phase \in Phases
    /\ dr.left = {} /\ dr.got = {}
    /\ \/ /\ dr.qc = NoQC
          /\ Stop(l)
       \/ /\ dr.qc # NoQC
          /\ driver' = [driver EXCEPT ![l] =
                IF LastPhase(dr.phase) THEN [dr EXCEPT !.pc = "final"]
                ELSE [dr EXCEPT !.pc = "begin", !.phase = NextPhase[dr.phase],
                                !.prev = dr.qc, !.qc = NoQC]]
          /\ UNCHANGED requests
    /\ UNCHANGED <<nodeVars, notices, tcs, history>>

-----------------------------------------------------------------------------
(* Committing *)

\* LocalCommitAdapter.commit_block and apply_block: a block at or below the
\* chain's height is ignored, one that does not extend the tip is refused.
Extends(ch, b) == Len(b) = Len(ch) + 1 /\ SubSeq(b, 1, Len(ch)) = ch

Applied(ch, b) == IF Extends(ch, b) THEN b ELSE ch

\* _finalize_local_mvp_commit: observe the COMMIT certificate, apply the block
\* (the driver's chain can only have grown past its parent), then announce it
\* to every consensus peer and send the certificate to the listed ones.
Finalize(l) ==
    LET dr == driver[l] IN
    /\ l \in up /\ dr.pc = "final"
    /\ core' = [core EXCEPT ![l] = Observe(@, dr.qc)]
    /\ db' = [db EXCEPT ![l] = ObserveInDb(@, core[l], dr.qc)]
    /\ chain' = [chain EXCEPT ![l] = Applied(@, dr.prop.block)]
    /\ notices' = notices
            \cup {[to |-> v, block |-> dr.prop.block, qc |-> NoQC] : v \in Validators \ {l}}
            \cup {[to |-> v, block |-> dr.prop.block, qc |-> dr.qc] : v \in dr.peers \ {l}}
    /\ Stop(l)
    /\ UNCHANGED <<up, tcs, history>>

-----------------------------------------------------------------------------
(* Answering: the host's handlers *)

\* Mutant: a host answers nobody while it drives a round itself.
ServingWhenIdle(v) == v \in up /\ driver[v].pc = "idle"

\* handle_envelope runs in a thread of its own, so a running host answers also
\* while it waits for answers itself.
Serving(v) == v \in up

\* _on_consensus_proposal.  The justification is observed before anything is
\* checked, so a refused proposal still moves the pacemaker and the lock.
HandleProposal(v, m) ==
    LET c == Informed(v, m.prop)
        d == InformedDb(v, m.prop)
    IN  /\ Serving(v) /\ m \in requests /\ m.to = v /\ m.phase \in Phases
        /\ requests' = requests \ {m}
        /\ \/ /\ MayVote(c, v, m.prop, m.phase)
              /\ CastVote(v, m.prop, m.phase, c, d)
              /\ AnswerWith(m, VoteFor(v, m.prop, m.phase))
           \/ /\ ~MayVote(c, v, m.prop, m.phase)
              /\ core' = [core EXCEPT ![v] = c]
              /\ db' = [db EXCEPT ![v] = d]
              /\ Refuse(m)
              /\ UNCHANGED votes
        /\ UNCHANGED <<chain, up, notices, tcs, qcs, timeoutVotes>>

\* _on_consensus_finalize with a certificate, _on_block_announce without one.
HandleNotice(v, n) ==
    /\ Serving(v) /\ n \in notices /\ n.to = v
    /\ core' = [core EXCEPT ![v] = Observe(@, n.qc)]
    /\ db' = [db EXCEPT ![v] = ObserveInDb(@, core[v], n.qc)]
    /\ chain' = [chain EXCEPT ![v] = Applied(@, n.block)]
    /\ UNCHANGED <<up, driver, msgVars, history>>

\* One block fetched from a peer that is ahead, by _sync_announced_blocks or by
\* recover_chain_from_consensus_peers: no certificate comes with it.
FetchBlock(v, w) ==
    /\ v \in up /\ Serving(w)
    /\ Len(chain[w]) > Len(chain[v])
    /\ SubSeq(chain[w], 1, Len(chain[v])) = chain[v]
    /\ chain' = [chain EXCEPT ![v] = SubSeq(chain[w], 1, Len(chain[v]) + 1)]
    /\ UNCHANGED <<core, db, up, driver, msgVars, history>>

-----------------------------------------------------------------------------
(* Timing out: run_mvp_timeout_round *)

TimeoutOf(v, h, r) == [height |-> h, round |-> r, voter |-> v, high |-> core[v].high]

\* make_timeout_vote: at most once per height and round.
MayTimeOut(v, h, r) == <<h, r>> \notin core[v].timedOut

CastTimeout(v, h, r) ==
    /\ core' = [core EXCEPT ![v].timedOut = @ \cup {<<h, r>>}]
    /\ db' = [db EXCEPT ![v] = LogTimeout(@, TimeoutOf(v, h, r))]
    /\ timeoutVotes' = timeoutVotes \cup {TimeoutOf(v, h, r)}

StartTimeout(l, ps) ==
    LET h == Len(chain[l]) + 1
        r == core[l].pace.current
    IN  /\ l \in up /\ driver[l].pc = "idle" /\ l \in ps
        /\ r <= MaxTimeoutRound /\ h <= MaxHeight
        /\ MayTimeOut(l, h, r)
        /\ CastTimeout(l, h, r)
        /\ driver' = [driver EXCEPT ![l] =
                [Idle EXCEPT !.pc = "ask", !.phase = "timeout", !.peers = ps, !.left = ps \ {l},
                             !.got = {TimeoutOf(l, h, r)},
                             !.prop = [NoProposal EXCEPT !.height = h, !.round = r]]]
        /\ UNCHANGED <<chain, up, msgVars, votes, qcs>>

\* _on_consensus_timeout_vote.  Timing a round out does not stop its host from
\* voting in it.
HandleTimeout(v, m) ==
    LET h == m.prop.height
        r == m.prop.round
    IN  /\ Serving(v) /\ m \in requests /\ m.to = v /\ m.phase = "timeout"
        /\ requests' = requests \ {m}
        /\ \/ /\ MayTimeOut(v, h, r)
              /\ CastTimeout(v, h, r)
              /\ AnswerWith(m, TimeoutOf(v, h, r))
           \/ /\ ~MayTimeOut(v, h, r)
              /\ Refuse(m)
              /\ UNCHANGED <<core, db, timeoutVotes>>
        /\ UNCHANGED <<chain, up, notices, tcs, votes, qcs>>

\* Mutant: one timeout vote is enough.
TimedOutByOne(timeouts, t) == TRUE

\* add_timeout_vote has a quorum for the round of t.
TimedOut(timeouts, t) == HasQuorum(TimeoutSigners(timeouts, t))

\* accept_timeout_vote: keep the record; with a quorum the round is certified
\* as timed out and the pacemaker moves on.
CountTimeout(l, t) ==
    LET c == [core[l] EXCEPT !.timeouts = @ \cup {t}]
        d == LogTimeout(db[l], t)
        certified == TimedOut(c.timeouts, t)
        moved == ObserveTC(c, t.round)
    IN  /\ l \in up /\ driver[l].pc = "ask" /\ driver[l].phase = "timeout"
        /\ driver[l].left = {} /\ t \in driver[l].got
        /\ ~ConflictingTimeout(core[l], t)
        /\ core' = [core EXCEPT ![l] = IF certified THEN moved ELSE c]
        /\ db' = [db EXCEPT ![l] = IF certified THEN SaveRuntime(d, moved) ELSE d]
        /\ driver' = [driver EXCEPT ![l].got = @ \ {t}]
        /\ UNCHANGED <<chain, up, msgVars, history>>

\* With a certificate, every listed peer is sent it; without one the call fails.
EndTimeout(l) ==
    LET dr == driver[l]
        certified == TimedOut(core[l].timeouts, dr.prop)
    IN  /\ l \in up /\ dr.pc = "ask" /\ dr.phase = "timeout"
        /\ dr.left = {} /\ dr.got = {}
        /\ tcs' = tcs \cup (IF certified THEN {[to |-> v, round |-> dr.prop.round] : v \in dr.peers \ {l}}
                            ELSE {})
        /\ Stop(l)
        /\ UNCHANGED <<nodeVars, notices, history>>

\* _on_consensus_timeout_cert.
HandleTC(v, n) ==
    /\ Serving(v) /\ n \in tcs /\ n.to = v
    /\ core' = [core EXCEPT ![v] = ObserveTC(@, n.round)]
    /\ db' = [db EXCEPT ![v] = SaveRuntime(@, ObserveTC(core[v], n.round))]
    /\ UNCHANGED <<chain, up, driver, msgVars, history>>

-----------------------------------------------------------------------------
(* Crashing and restarting *)

\* The host dies with database d: its driver and its memory are gone, and its
\* core is what a restart will load.
Fail(v, d) ==
    /\ v \in up /\ v \in Crashable
    /\ up' = up \ {v}
    /\ db' = [db EXCEPT ![v] = d]
    /\ core' = [core EXCEPT ![v] = Load(v, d)]
    /\ Stop(v)
    /\ UNCHANGED <<chain, notices, tcs, votes, timeoutVotes>>

\* Between two operations.
Crash(v) == Fail(v, db[v]) /\ UNCHANGED qcs

\* The certificates an operation of v is about to observe: a proposal's
\* justification, a finalization, the driver's previous phase or its last one.
Observing(v) ==
    (      {m.prop.justify : m \in {x \in requests : x.to = v /\ x.phase \in Phases}}
      \cup {n.qc : n \in {x \in notices : x.to = v}}
      \cup (IF driver[v].pc = "begin" THEN {driver[v].prev, driver[v].prop.justify} ELSE {})
      \cup (IF driver[v].pc = "final" THEN {driver[v].qc} ELSE {})) \ {NoQC}

\* Between two transactions of observe_qc, or after its last one and before
\* the operation records its vote or its block.
CrashObserving(v) ==
    /\ \E q \in Observing(v) : \E d \in InterruptedObserve(db[v], core[v], q) : Fail(v, d)
    /\ UNCHANGED qcs

\* Between two transactions of accept_vote: the record is on disk, and the
\* certificate it completes may be.
CrashCounting(v, m) ==
    LET q == CertifiedBy(core[v], m)
        logged == LogVote(db[v], m)
    IN  /\ driver[v].phase \in Phases
        /\ \/ driver[v].pc = "own" /\ m = VoteFor(v, driver[v].prop, driver[v].phase)
           \/ driver[v].pc = "ask" /\ driver[v].left = {} /\ m \in driver[v].got
        /\ \/ /\ Fail(v, logged)
              /\ UNCHANGED qcs
           \/ /\ q # NoQC
              /\ \E d \in InterruptedObserve(logged, core[v], q) : Fail(v, d)
              /\ qcs' = qcs \cup {q}

\* Between the two transactions of accept_timeout_vote.
CrashTimingOut(v, t) ==
    /\ driver[v].pc = "ask" /\ driver[v].phase = "timeout"
    /\ driver[v].left = {} /\ t \in driver[v].got
    /\ Fail(v, LogTimeout(db[v], t))
    /\ UNCHANGED qcs

\* Mutant: a host that starts whatever it finds.
RestartUnchecked(v) ==
    /\ v \notin up
    /\ core' = [core EXCEPT ![v] = Load(v, db[v])]
    /\ up' = up \cup {v}
    /\ UNCHANGED <<db, chain, driver, msgVars, history>>

\* V2ConsensusHost.__init__: load the database, then validate_runtime_state,
\* whose exception leaves the host down.
Restart(v) ==
    /\ v \notin up
    /\ RuntimeStateOK(Load(v, db[v]))
    /\ core' = [core EXCEPT ![v] = Load(v, db[v])]
    /\ up' = up \cup {v}
    /\ UNCHANGED <<db, chain, driver, msgVars, history>>

-----------------------------------------------------------------------------
Drive(l) ==
    \/ \E ps \in PeerSets, b \in Bodies : StartRound(l, ps, b)
    \/ \E ps \in PeerSets : StartTimeout(l, ps)
    \/ BeginPhase(l)
    \/ CountOwnVote(l)
    \/ \E v \in driver[l].left : Ask(l, v)
    \/ GiveUp(l)
    \/ \E m \in driver[l].got : CountVote(l, m)
    \/ EndPhase(l)
    \/ Finalize(l)
    \/ \E t \in driver[l].got : CountTimeout(l, t)
    \/ EndTimeout(l)

Handle(v) ==
    \/ \E m \in requests : HandleProposal(v, m) \/ HandleTimeout(v, m)
    \/ \E n \in notices : HandleNotice(v, n)
    \/ \E n \in tcs : HandleTC(v, n)
    \/ \E w \in Validators : FetchBlock(v, w)

Break(v) ==
    \/ Crash(v)
    \/ CrashObserving(v)
    \/ \E m \in driver[v].got \cup {VoteFor(v, driver[v].prop, driver[v].phase)} : CrashCounting(v, m)
    \/ \E t \in driver[v].got : CrashTimingOut(v, t)
    \/ Restart(v)

Next ==
    \/ \E l \in Drivers : Drive(l)
    \/ \E v \in Validators : Handle(v)
    \/ \E v \in Crashable : Break(v)

Spec == Init /\ [][Next]_vars

\* What the threads of a host do by themselves: a call that is not waiting goes
\* on (and ends once it is refused), and every request that reaches a running
\* host is handled, by a thread of its own (asyncio.to_thread).  No send has to
\* time out for it.
GoOn(l) ==
    \/ BeginPhase(l) \/ CountOwnVote(l) \/ EndPhase(l) \/ Finalize(l) \/ EndTimeout(l)
    \/ \E v \in driver[l].left : Ask(l, v)
    \/ \E m \in driver[l].got : CountVote(l, m) \/ CountTimeout(l, m)
    \/ driver[l].pc = "refused" /\ GiveUp(l)

Reply(v, l) ==
    \E m \in requests : m.from = l /\ m.live /\ (HandleProposal(v, m) \/ HandleTimeout(v, m))

FairSpec ==
    /\ Spec
    /\ \A l \in Drivers : WF_vars(GoOn(l))
    /\ \A l \in Drivers, v \in Validators : WF_vars(Reply(v, l))

-----------------------------------------------------------------------------
(* Properties *)

TypeOK ==
    /\ core \in [Validators -> Core]
    /\ db \in [Validators -> Database]
    /\ chain \in [Validators -> Blocks]
    /\ up \subseteq Validators
    /\ driver \in [Validators -> Driver]
    /\ requests \subseteq Request
    /\ notices \subseteq Notice
    /\ tcs \subseteq TCNotice
    /\ votes \subseteq Vote
    /\ qcs \subseteq QC
    /\ timeoutVotes \subseteq TimeoutVote

\* A validator never votes for two blocks in one height, round and phase,
\* whatever it forgot in a crash and whoever asks it again: the vote log, its
\* pruning, the stale check and the startup check together (make_vote).
OneVotePerSlot ==
    \A m1, m2 \in votes : m1.voter = m2.voter /\ SameSlot(m1, m2) => m1.block = m2.block

\* No two blocks are certified in one height, round and phase, although a
\* restarted collector counts records it finds on disk (VoteCollector.add_vote).
OneQCPerSlot == \A q1, q2 \in qcs : SameSlot(q1, q2) => q1.block = q2.block

\* Followers are never shown the certificate of the phase before the one they
\* vote in; still no vote and no certificate of a later phase exists without
\* it (_drive_phase_over_network drives the phases in order, in one call).
PhaseLadder ==
    \A m \in votes \cup qcs : \A p \in Phases :
        PhaseRank[m.phase] = PhaseRank[p] + 1 =>
            [height |-> m.height, round |-> m.round, phase |-> p, block |-> m.block] \in qcs

\* Every block on a chain has a COMMIT certificate somewhere, also when it came
\* by an announcement or a fetch, which carry none (_on_block_announce).
AppliedIsCertified ==
    \A v \in Validators : \A i \in 1..Len(chain[v]) :
        \E q \in qcs : q.phase = "commit" /\ q.block = SubSeq(chain[v], 1, i)

\* The checks of validate_runtime_state hold on a running host after every
\* operation, whatever order certificates arrive in.
RuntimeStateValid == \A v \in up : RuntimeStateOK(core[v])

\* Nothing a running host relies on is in memory only: its certificates and its
\* pacemaker are on disk, and so is its choice in every round it may still vote
\* in (_persist_runtime_state, save_vote_record and prune_vote_log).
NothingOnlyInMemory ==
    \A v \in up :
        /\ db[v].pace = core[v].pace /\ db[v].high = core[v].high /\ db[v].locked = core[v].locked
        /\ \A m \in core[v].choice : Stale(core[v].pace, m.round) \/ m \in db[v].votes

\* A collector never has to refuse a vote as conflicting, so a driver that has
\* its answers counts them all: add_vote and add_timeout_vote do not raise.
NoConflictWhileCounting ==
    \A l \in Drivers :
        /\ driver[l].pc = "own" =>
                ~Conflicting(core[l], VoteFor(l, driver[l].prop, driver[l].phase))
        /\ \A m \in driver[l].got :
                IF driver[l].phase = "timeout" THEN ~ConflictingTimeout(core[l], m)
                ELSE ~Conflicting(core[l], m)

\* Rounds, locks and certificates never go back, on disk or through a crash and
\* a restart (the pacemaker rule "no return to a lower round, no loss of a
\* higher locked_qc").
NeverGoesBack ==
    [][\A v \in Validators :
        /\ core'[v].pace.current >= core[v].pace.current
        /\ core'[v].locked.round >= core[v].locked.round
        /\ ~Higher(core[v].high, core'[v].high)]_vars

\* A pacemaker enters a round only on the evidence that the round before it has
\* a certificate or was timed out by a quorum, also after a restart
\* (PacemakerState.note_qc and note_tc).
RoundsAreEarned ==
    \A v \in Validators :
        LET before == core[v].pace.current - 1
        IN  before > 0 =>
                \/ \E q \in qcs : q.round = before
                \/ \E t \in timeoutVotes : t.round = before /\ HasQuorum(TimeoutSigners(timeoutVotes, t))

\* Every call of a driver comes to an end although drivers wait for each other's
\* hosts, without any of them timing out, while no host crashes (the blocking
\* network.send of _drive_phase_over_network).
CallsEnd == \A l \in Drivers : driver[l].pc # "idle" ~> driver[l].pc = "idle"

\* Two hosts never apply different blocks at one height (the design document's
\* "no two finals at one height under network delay").
ChainAgreement ==
    \A v, w \in Validators :
        \A i \in 1..Len(chain[v]) : i <= Len(chain[w]) => chain[v][i] = chain[w][i]

\* A crashed host can start again (the design document's "a restarted node
\* recovers highest_qc, locked_qc and seed").
CanRestart == \A v \in Validators \ up : RuntimeStateOK(Load(v, db[v]))

\* The vote layer: what the cluster does to votes and certificates is what
\* QuorumVoting allows.
VoteLayer ==
    INSTANCE QuorumVoting WITH
        Slots <- [height : 1..MaxHeight, round : 1..MaxRound, phase : Phases],
        Values <- UNION {[1..h -> Bodies] : h \in 1..MaxHeight},
        cast <- {[slot |-> [height |-> m.height, round |-> m.round, phase |-> m.phase],
                  voter |-> m.voter, block |-> m.block] : m \in votes},
        certs <- {[slot |-> [height |-> q.height, round |-> q.round, phase |-> q.phase],
                   block |-> q.block] : q \in qcs}

VotesLikeQuorumVoting == VoteLayer!Spec

=============================================================================
