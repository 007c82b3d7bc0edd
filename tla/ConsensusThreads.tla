-------------------------- MODULE ConsensusThreads --------------------------
(***************************************************************************)
(* One validator whose handlers run in threads (asyncio.to_thread in       *)
(* transport_peer.py) on one ConsensusCore and one database connection.    *)
(* ConsensusNet takes a handler as one step; here its accesses to what the *)
(* threads share are steps of their own, because core.py and store.py take *)
(* no lock: a step reads shared memory, writes it, or commits.             *)
(*                                                                         *)
(* Timeout votes and the collectors are left out: they share only the      *)
(* pacemaker with the vote choices, and certificates move it too.          *)
(***************************************************************************)
EXTENDS ConsensusCore

CONSTANTS Me, Threads,
          First,      \* the vote the validator has cast to begin with
          Asks,       \* the calls of make_vote and observe_tc: see Voting, TimedOut
          MaxCalls, MaxCrashes

VARIABLES core,       \* ConsensusCore in memory
          stored,     \* store.pacemaker_state: the pacemaker the next row will hold
          db,         \* the database
          th,         \* the handler threads
          votes,      \* the votes answered, over all restarts (a history)
          raced,      \* a row, a choice or the highest certificate was written over
                      \* one its writer had not read (a history)
          calls, crashes

threadVars == <<core, stored, db, th, votes, raced, calls, crashes>>

\* make_vote and observe_tc as calls.
Voting(p, phase) == [kind |-> "vote", proposal |-> p, phase |-> phase]
TimedOut(r) == [kind |-> "tc", round |-> r]

Ballot(a) == VoteFor(Me, a.proposal, a.phase)
Certificate(a) == IF a.kind = "vote" THEN a.proposal.justify ELSE NoQC

\* What is read before it is written, with no lock around the two: the
\* highest certificate, the pacemaker, the lock, the row of runtime state and
\* the block chosen in a slot.
Shared == {"high", "pace", "lock", "row", "choose"}

Idle == [pc |-> "idle"]
Down == [pc |-> "down"]

\* What a thread remembers of its last read, in the fields of a database.
Unread == EmptyDatabase

\* A thread at step pc of call a; saved says what the next row is written for,
\* held that the thread has read what it is about to write, and late that
\* another thread has written it since.
At(pc, a, saved) ==
    [pc |-> pc, ask |-> a, saved |-> saved, held |-> FALSE, late |-> FALSE, seen |-> Unread]

Init ==
    /\ db = LogVote(EmptyDatabase, First)
    /\ core = Load(Me, db)
    /\ stored = db.pace
    /\ th = [t \in Threads |-> Idle]
    /\ votes = {First} /\ raced = FALSE /\ calls = 0 /\ crashes = 0

-----------------------------------------------------------------------------
\* A handler starts.  save_qc comes first, or the row save_tc repeats; a
\* proposal without a certificate is checked at once.
Begin(t) ==
    /\ th[t] = Idle /\ calls < MaxCalls
    /\ \E a \in Asks :
         th' = [th EXCEPT ![t] =
                 CASE a.kind = "tc"            -> At("row", a, "evidence")
                   [] Certificate(a) # NoQC -> At("high", a, "evidence")
                   [] OTHER                    -> At("check", a, "pace")]
    /\ calls' = calls + 1
    /\ UNCHANGED <<core, stored, db, votes, raced, crashes>>

\* A thread reads what it will write.
Read(t) ==
    /\ th[t].pc \in Shared /\ ~th[t].held
    /\ th' = [th EXCEPT ![t].held = TRUE,
                        ![t].seen =
                          CASE th[t].pc = "high"   -> [Unread EXCEPT !.high = core.high]
                            [] th[t].pc = "pace"   -> [Unread EXCEPT !.pace = core.pace]
                            [] th[t].pc = "lock"   -> [Unread EXCEPT !.locked = core.locked]
                            [] th[t].pc = "row"    -> SaveRuntime(Unread, [core EXCEPT !.pace = stored])
                            [] th[t].pc = "choose" -> [Unread EXCEPT !.votes = core.choice]]
    /\ UNCHANGED <<core, stored, db, votes, raced, calls, crashes>>

\* Thread t writes what it has read and goes on to next: every other thread
\* that has read the same thing is late from now on.
Overtakes(t, u) ==
    /\ u # t /\ th[u].pc = th[t].pc /\ th[u].held
    /\ th[t].pc = "choose" => SameSlot(Ballot(th[u].ask), Ballot(th[t].ask))

WriteAndGo(t, next) ==
    /\ th' = [u \in Threads |->
                IF u = t THEN next
                ELSE IF Overtakes(t, u) THEN [th[u] EXCEPT !.late = TRUE] ELSE th[u]]
    /\ raced' = (raced \/ (th[t].late /\ th[t].pc \in {"high", "row", "choose"}))

Holds(t, pc) == th[t].pc = pc /\ th[t].held

\* save_qc: the comparison was made with what was read.
WriteHigh(t) ==
    /\ Holds(t, "high")
    /\ LET q == Certificate(th[t].ask) IN
         core' = IF Higher(q, th[t].seen.high) THEN [core EXCEPT !.high = q] ELSE core
    /\ WriteAndGo(t, At("row", th[t].ask, "evidence"))
    /\ UNCHANGED <<stored, db, votes, calls, crashes>>

\* note_qc with note_decide, or note_tc.
WritePace(t) ==
    /\ Holds(t, "pace")
    /\ LET a == th[t].ask q == Certificate(a) IN
         /\ core' = [core EXCEPT !.pace = IF a.kind = "tc" THEN NoteTC(th[t].seen.pace, a.round)
                                          ELSE NoteQC(th[t].seen.pace, q)]
         /\ WriteAndGo(t, At(IF q.phase = "precommit" THEN "lock" ELSE "keep", a, "pace"))
    /\ UNCHANGED <<stored, db, votes, calls, crashes>>

\* update_locked_qc.
WriteLock(t) ==
    /\ Holds(t, "lock")
    /\ LET q == Certificate(th[t].ask) IN
         core' = IF q.round >= th[t].seen.locked.round THEN [core EXCEPT !.locked = q] ELSE core
    /\ WriteAndGo(t, At("row", th[t].ask, "lock"))
    /\ UNCHANGED <<stored, db, votes, calls, crashes>>

\* store._persist_runtime_state: the row takes what was read of the store.
WriteRow(t) ==
    /\ Holds(t, "row")
    /\ db' = [db EXCEPT !.pace = th[t].seen.pace, !.high = th[t].seen.high, !.locked = th[t].seen.locked]
    /\ LET a == th[t].ask IN
         WriteAndGo(t, CASE th[t].saved = "evidence" -> At("pace", a, "pace")
                         [] th[t].saved = "lock"     -> At("prune", a, "pace")
                         [] th[t].saved = "pace"     -> IF a.kind = "tc" THEN Idle ELSE At("check", a, "pace"))
    /\ UNCHANGED <<core, stored, votes, calls, crashes>>

\* prune_vote_log, a transaction of its own.
PruneLog(t) ==
    /\ th[t].pc = "prune"
    /\ db' = [db EXCEPT !.votes = KeepFrom(@, Certificate(th[t].ask).round)]
    /\ th' = [th EXCEPT ![t] = At("keep", @.ask, "pace")]
    /\ UNCHANGED <<core, stored, votes, raced, calls, crashes>>

\* save_pacemaker_state hands the store the core's pacemaker.
Keep(t) ==
    /\ th[t].pc = "keep"
    /\ stored' = core.pace
    /\ th' = [th EXCEPT ![t] = At("row", @.ask, "pace")]
    /\ UNCHANGED <<core, db, votes, raced, calls, crashes>>

\* validate_proposal: stale rounds and proposals below the lock are refused.
Check(t) ==
    /\ th[t].pc = "check"
    /\ LET a == th[t].ask IN
         th' = [th EXCEPT ![t] = IF Stale(core.pace, a.proposal.round) \/ BelowLock(core, a.proposal)
                                 THEN Idle ELSE At("choose", a, "pace")]
    /\ UNCHANGED <<core, stored, db, votes, raced, calls, crashes>>

\* make_vote's choice: another block was chosen when it was read, or this one
\* takes the slot, whatever it holds by now.
WriteChoice(t) ==
    /\ Holds(t, "choose")
    /\ LET m == Ballot(th[t].ask) IN
         IF \E k \in th[t].seen.votes : SameSlot(k, m) /\ k.block # m.block
         THEN th' = [th EXCEPT ![t] = Idle] /\ UNCHANGED <<core, raced>>
         ELSE /\ core' = [core EXCEPT !.choice = {k \in @ : ~SameSlot(k, m)} \cup {m}]
              /\ WriteAndGo(t, At("log", th[t].ask, "pace"))
    /\ UNCHANGED <<stored, db, votes, calls, crashes>>

\* Mutant: the vote leaves before its record is on disk.
AnswerUnlogged(t) ==
    /\ th[t].pc = "log"
    /\ votes' = votes \cup {Ballot(th[t].ask)}
    /\ th' = [th EXCEPT ![t] = Idle]
    /\ UNCHANGED <<core, stored, db, raced, calls, crashes>>

\* save_vote_record, and the vote leaves.
Log(t) ==
    /\ th[t].pc = "log"
    /\ LET m == Ballot(th[t].ask) IN
         /\ db' = LogVote(db, m)
         /\ votes' = votes \cup {m}
    /\ th' = [th EXCEPT ![t] = Idle]
    /\ UNCHANGED <<core, stored, raced, calls, crashes>>

\* The process stops and starts: what is on disk is all there is, and a host
\* whose restored state fails validate_runtime_state stays down.
Crash ==
    /\ crashes < MaxCrashes
    /\ crashes' = crashes + 1
    /\ core' = Load(Me, db)
    /\ stored' = db.pace
    /\ th' = [t \in Threads |-> IF RuntimeStateOK(core') THEN Idle ELSE Down]
    /\ UNCHANGED <<db, votes, raced, calls>>

Next ==
    \/ Crash
    \/ \E t \in Threads :
         \/ Begin(t) \/ Read(t) \/ WriteHigh(t) \/ WritePace(t) \/ WriteLock(t) \/ WriteRow(t)
         \/ PruneLog(t) \/ Keep(t) \/ Check(t) \/ WriteChoice(t) \/ Log(t)

Spec == Init /\ [][Next]_threadVars

-----------------------------------------------------------------------------
\* No validator votes for two blocks in one slot.  The code has no lock that
\* would make this true of threads: two make_votes may read one slot before
\* either writes it, a row of runtime state may overwrite a later one, and a
\* lower certificate the highest.
VotesAgree == \A m, k \in votes : SameSlot(m, k) => m.block = k.block

\* Those are the only ways: as long as none of these writes overtakes another
\* between its read and its write, votes agree, however calls and crashes are
\* interleaved with certificates, pruning and the saving of the row, and also
\* where pacemakers and locks overwrite later ones (core.py:54-139).
VotesAgreeUnlessRaced == raced \/ VotesAgree
=============================================================================
