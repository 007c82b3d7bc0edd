----------------------------- MODULE PartsProofs -----------------------------
(***************************************************************************)
(* Invariants of the parts of Parts, for any values of their constants:    *)
(* the threads of a validator, the node manager, the router, the local     *)
(* application, and the chain, the transaction pool and the values of V1.  *)
(***************************************************************************)
EXTENDS Parts, SequenceTheorems, FiniteSetTheorems, WellFoundedInduction,
        NaturalsInduction, TLAPS

-----------------------------------------------------------------------------
(***************************************************************************)
(* The threads of a validator.  A vote that was cast is on record          *)
(* (OnRecord): in the log, or below the highest certificate in the row, so *)
(* that the host will not vote there, or not start again; and while the    *)
(* host runs, it is among its choices or the pacemaker has left its round  *)
(* (InMemory).  Pruning is safe because the handler about to prune has its *)
(* certificate in the row: Saves says at each of its steps how far that is *)
(* true, for a handler nobody has overtaken.                               *)
(***************************************************************************)
\* What is called: make_vote for well-formed proposals, and observe_tc.
CallsAssumption ==
    /\ Me \in Validators /\ First \in Vote /\ First.voter = Me
    /\ Asks \subseteq {Voting(p, phase) : p \in Proposal, phase \in Phases} \cup
                      {TimedOut(r) : r \in Nat \ {0}}

Steps == Shared \cup {"prune", "keep", "check", "log"}

Active == [pc : Steps, ask : Asks, saved : {"evidence", "lock", "pace"},
           held : BOOLEAN, late : BOOLEAN, seen : Database]

Typed ==
    /\ core \in Core /\ stored \in Pace /\ db \in Database
    /\ votes \subseteq Vote
    /\ th \in [Threads -> Active \cup {Idle, Down}]
    /\ \A t \in Threads : th[t].pc \in {"check", "choose", "log"} => th[t].ask.kind = "vote"

Mine(S) == \A m \in S : m.voter = Me

OnePerSlot(S) == \A m, k \in S : SameSlot(m, k) => m.block = k.block


\* A thread has read for step pc, and nobody has written since.
Fresh(y, pc) == y.pc = pc /\ y.held /\ ~y.late

\* What a handler is about to write lowers no certificate, and its own counts
\* among the highest before anything is pruned for it.
Saves(y) ==
    /\ Fresh(y, "high") => y.seen.high = core.high
    /\ Fresh(y, "row") => /\ db.high.round <= y.seen.high.round
                          /\ y.seen.high.round <= core.high.round
                          /\ y.saved = "evidence" => Certificate(y.ask).round <= y.seen.high.round
    /\ y.pc = "row" /\ y.saved = "evidence" => Certificate(y.ask).round <= core.high.round
    /\ y.pc \in {"pace", "lock", "prune", "keep"} \/ (y.pc = "row" /\ y.saved # "evidence") =>
          Certificate(y.ask).round <= db.high.round

\* A vote is on record, or lies below the highest certificate on record.
OnRecord ==
    /\ db.high.round <= core.high.round
    /\ \A t \in Threads : Saves(th[t])
    /\ Mine(votes) /\ Mine(db.votes)
    /\ OnePerSlot(votes) /\ OnePerSlot(db.votes)
    /\ \A m \in votes : m \in db.votes \/ m.round < db.high.round

\* A vote that is not among the choices cannot be cast again: its round lies
\* behind the pacemaker, and behind what a thread is about to write there.  A
\* thread on its way to a vote knows of every vote in its slot.
Votes(y) ==
    /\ y.pc = "pace" /\ y.held =>
          \A m \in votes : m \in core.choice \/ m.round + 1 < y.seen.pace.current
    /\ y.pc \in {"choose", "log"} =>
          \A k \in votes : SameSlot(k, Ballot(y.ask)) => k \in core.choice
    /\ y.pc = "log" => Ballot(y.ask) \in core.choice
    /\ Fresh(y, "choose") =>
          \A k \in core.choice : SameSlot(k, Ballot(y.ask)) => k \in y.seen.votes

InMemory ==
    /\ Mine(core.choice) /\ OnePerSlot(core.choice)
    /\ \A m \in votes : m \in core.choice \/ m.round + 1 < core.pace.current
    /\ \A t \in Threads : Votes(th[t])

\* A host that has found its restored state invalid stays down.
Running == \E t \in Threads : th[t] # Down

IInv ==
    /\ Typed
    /\ ~raced => OnRecord /\ (Running => InMemory)

-----------------------------------------------------------------------------
(* Types *)

\* What a thread holds of a certificate, and the numbers of what is shared.
LEMMA Numbers ==
    ASSUME Typed
    PROVE  /\ core.pace.current \in Nat /\ db.pace.current \in Nat
           /\ core.high \in QCOrNone /\ db.high \in QCOrNone
           /\ core.high.round \in Nat /\ db.high.round \in Nat
           /\ \A t \in Threads : th[t] \in Active =>
                 /\ th[t].seen.high \in QCOrNone /\ th[t].seen.high.round \in Nat
                 /\ th[t].seen.pace.current \in Nat
<1>1. \A q \in QCOrNone : q.round \in Nat
  BY DEF QCOrNone, QC, NoQC
<1>2. \A p \in Pace : p.current \in Nat
  BY DEF Pace
<1>3. core.pace \in Pace /\ db.pace \in Pace /\ core.high \in QCOrNone /\ db.high \in QCOrNone
  BY DEF Typed, Core, Database
<1>4. \A t \in Threads : th[t] \in Active => th[t].seen.high \in QCOrNone /\ th[t].seen.pace \in Pace
  BY DEF Active, Database
<1>5. QED
  BY <1>1, <1>2, <1>3, <1>4

LEMMA AskIs ==
    ASSUME CallsAssumption, NEW a \in Asks
    PROVE  /\ Certificate(a) \in QCOrNone
           /\ Certificate(a).round \in Nat
           /\ a.kind = "tc" => a.round \in Nat \ {0} /\ Certificate(a) = NoQC
           /\ a.kind # "tc" => /\ a.kind = "vote" /\ a.proposal \in Proposal
                               /\ Ballot(a) \in Vote /\ Ballot(a).voter = Me
                               /\ Ballot(a).round = a.proposal.round
<1>0. \A q \in QCOrNone : q.round \in Nat
  BY DEF QCOrNone, QC, NoQC
<1>1. CASE \E p \in Proposal, phase \in Phases : a = Voting(p, phase)
  <2>1. PICK p \in Proposal, phase \in Phases : a = Voting(p, phase)
    BY <1>1
  <2>2. a.kind = "vote" /\ a.proposal = p /\ a.phase = phase
    BY <2>1 DEF Voting
  <2>3. VoteFor(Me, p, phase) \in Vote
    BY DEF VoteFor, Vote, Proposal, CallsAssumption
  <2>4. p.justify \in QCOrNone
    BY DEF Proposal
  <2>5. QED
    BY <1>0, <2>2, <2>3, <2>4 DEF Certificate, Ballot, VoteFor
<1>2. CASE \E r \in Nat \ {0} : a = TimedOut(r)
  <2>1. a.kind = "tc" /\ a.round \in Nat \ {0}
    BY <1>2 DEF TimedOut
  <2>2. QED
    BY <1>0, <2>1 DEF Certificate, QCOrNone
<1>3. QED
  BY <1>1, <1>2 DEF CallsAssumption

LEMMA AtIs ==
    ASSUME NEW pc \in Steps, NEW a \in Asks, NEW saved \in {"evidence", "lock", "pace"}
    PROVE  /\ At(pc, a, saved) \in Active
           /\ At(pc, a, saved).pc = pc /\ At(pc, a, saved).ask = a
           /\ At(pc, a, saved).saved = saved /\ ~At(pc, a, saved).held
<1>1. Unread \in Database
  BY DEF Unread, EmptyDatabase, Database, FirstPace, Pace, QCOrNone
<1>2. QED
  BY <1>1 DEF At, Active

\* A thread that is at a step is active.
LEMMA AtStep ==
    ASSUME Typed, NEW t \in Threads
    PROVE  /\ th[t].pc \in Steps => th[t] \in Active
           /\ th[t] \in Active => th[t].pc \in Steps /\ th[t] # Down /\ th[t].ask \in Asks
           /\ th[t] \in Active => th[t].saved \in {"evidence", "lock", "pace"}
BY DEF Typed, Active, Idle, Down, Steps, Shared

\* The pacemaker after a certificate or a timeout certificate is never lower.
LEMMA PaceRises ==
    ASSUME NEW p \in Pace
    PROVE  /\ \A q \in QCOrNone : NoteQC(p, q) \in Pace /\ NoteQC(p, q).current >= p.current
           /\ \A r \in Nat \ {0} : NoteTC(p, r) \in Pace /\ NoteTC(p, r).current >= p.current
<1>1. \A a, b \in Nat : Max2(a, b) \in Nat /\ Max2(a, b) >= a
  BY DEF Max2
<1>2. ASSUME NEW q \in QCOrNone PROVE NoteQC(p, q) \in Pace /\ NoteQC(p, q).current >= p.current
  <2>1. q.round \in Nat
    BY DEF QCOrNone, QC, NoQC
  <2>2. /\ p.current \in Nat \ {0} /\ p.highestQc \in Nat /\ p.lockedRound \in Nat
        /\ p.highestTc \in Nat /\ p.decided \in Nat
    BY DEF Pace
  <2>3. /\ Max2(p.current, q.round + 1) \in Nat \ {0} /\ Max2(p.current, q.round + 1) >= p.current
        /\ Max2(p.highestQc, q.round) \in Nat /\ Max2(p.lockedRound, q.round) \in Nat
        /\ Max2(p.decided, q.round) \in Nat
    BY <2>1, <2>2 DEF Max2
  <2>4. QED
    BY <2>2, <2>3 DEF NoteQC, Pace
<1>3. ASSUME NEW r \in Nat \ {0} PROVE NoteTC(p, r) \in Pace /\ NoteTC(p, r).current >= p.current
  <2>1. /\ p.current \in Nat \ {0} /\ p.highestQc \in Nat /\ p.lockedRound \in Nat
        /\ p.highestTc \in Nat /\ p.decided \in Nat
    BY DEF Pace
  <2>2. /\ Max2(p.current, r + 1) \in Nat \ {0} /\ Max2(p.current, r + 1) >= p.current
        /\ Max2(p.highestTc, r) \in Nat
    BY <2>1 DEF Max2
  <2>3. QED
    BY <2>1, <2>2 DEF NoteTC, Pace
<1>4. QED
  BY <1>2, <1>3

LEMMA LoadIs ==
    ASSUME CallsAssumption, NEW d \in Database
    PROVE  /\ Load(Me, d) \in Core /\ d.pace \in Pace
           /\ Load(Me, d).high = d.high /\ Load(Me, d).pace = d.pace
           /\ Load(Me, d).choice = {m \in d.votes : m.voter = Me}
<1>1. {m \in d.votes : m.voter = Me} \in SUBSET Vote
  BY DEF Database
<1>2. {<<t.height, t.round>> : t \in {x \in d.timeouts : x.voter = Me}} \in SUBSET (Nat \X Nat)
  BY DEF Database, TimeoutVote
<1>3. QED
  BY <1>1, <1>2 DEF Load, Database, Core

-----------------------------------------------------------------------------
(* Steps of a thread *)

\* The others stay where they are; some may be late now.
Kept(u) == th'[u] = th[u] \/ (th[u] \in Active /\ th'[u] = [th[u] EXCEPT !.late = TRUE])

Goes(t, x) ==
    /\ th' = [u \in Threads |-> th'[u]] /\ th'[t] = x
    /\ \A u \in Threads : u # t => Kept(u)

LEMMA KeptIs ==
    ASSUME NEW u \in Threads, Typed, Kept(u)
    PROVE  /\ th'[u].pc = th[u].pc /\ (th'[u] = Down <=> th[u] = Down)
           /\ th[u].pc \in Steps =>
                 /\ th'[u].ask = th[u].ask /\ th'[u].saved = th[u].saved
                 /\ th'[u].held = th[u].held /\ th'[u].seen = th[u].seen
                 /\ th[u].late => th'[u].late
BY AtStep DEF Kept, Active, Down

LEMMA GoesTyped ==
    ASSUME Typed, NEW t \in Threads, NEW x \in Active \cup {Idle}, Goes(t, x),
           x.pc \in {"check", "choose", "log"} => x.ask.kind = "vote"
    PROVE  /\ th' \in [Threads -> Active \cup {Idle, Down}]
           /\ \A u \in Threads : th'[u].pc \in {"check", "choose", "log"} => th'[u].ask.kind = "vote"
<1>1. ASSUME NEW u \in Threads, u # t
      PROVE  /\ th'[u] \in Active \cup {Idle, Down}
             /\ th'[u].pc \in {"check", "choose", "log"} => th'[u].ask.kind = "vote"
  <2>1. Kept(u)
    BY <1>1 DEF Goes
  <2>2. th'[u] \in Active \cup {Idle, Down}
    BY <2>1 DEF Kept, Typed, Active
  <2>3. QED
    BY <2>1, <2>2, KeptIs DEF Typed, Steps, Shared
<1>2. th'[t] \in Active \cup {Idle, Down} /\ (th'[t].pc \in {"check", "choose", "log"} => th'[t].ask.kind = "vote")
  BY DEF Goes
<1>3. QED
  BY <1>1, <1>2 DEF Goes

LEMMA ExceptGoes ==
    ASSUME Typed, NEW t \in Threads, NEW x, th' = [th EXCEPT ![t] = x]
    PROVE  Goes(t, x)
BY DEF Goes, Kept, Typed

\* Whoever writes marks the others that have read the same.
LEMMA WritesAndGoes ==
    ASSUME Typed, NEW t \in Threads, NEW pc \in Steps, th[t].pc = pc, NEW x, WriteAndGo(t, x)
    PROVE  /\ Goes(t, x)
           /\ ~raced' => ~raced /\ (pc \in {"high", "row", "choose"} => ~th[t].late)
           /\ pc # "choose" => \A u \in Threads : u # t => ~Fresh(th'[u], pc)
           /\ \A u \in Threads :
                 pc = "choose" /\ u # t /\ Fresh(th'[u], pc) =>
                    ~SameSlot(Ballot(th[u].ask), Ballot(th[t].ask))
<1>1. th' = [u \in Threads |-> IF u = t THEN x
                               ELSE IF Overtakes(t, u) THEN [th[u] EXCEPT !.late = TRUE] ELSE th[u]]
  BY DEF WriteAndGo
<1>2. \A u \in Threads : u # t /\ Overtakes(t, u) => th[u] \in Active
  BY AtStep DEF Overtakes
<1>3. Goes(t, x)
  BY <1>1, <1>2 DEF Goes, Kept
<1>4. \A u \in Threads : u # t => Kept(u)
  BY <1>3 DEF Goes
<1>5. \A u \in Threads : u # t /\ Overtakes(t, u) => th'[u].late = TRUE
  BY <1>1, <1>2 DEF Active
<1>6. \A u \in Threads : u # t /\ Fresh(th'[u], pc) =>
          th[u].pc = th[t].pc /\ th[u].held /\ ~Overtakes(t, u)
  BY <1>4, <1>5, KeptIs DEF Fresh
<1>7. ~raced' => ~raced /\ (pc \in {"high", "row", "choose"} => ~th[t].late)
  BY DEF WriteAndGo
<1>8. QED
  BY <1>3, <1>6, <1>7 DEF Overtakes

LEMMA KeptFits ==
    ASSUME Typed, NEW u \in Threads, Kept(u)
    PROVE  /\ core'.high = core.high /\ db'.high = db.high /\ Saves(th[u]) => Saves(th[u])'
           /\ core'.choice = core.choice /\ UNCHANGED votes /\ Votes(th[u]) => Votes(th[u])'
<1>1. CASE th[u].pc \in Steps
  <2>1. /\ th'[u].pc = th[u].pc /\ th'[u].ask = th[u].ask /\ th'[u].saved = th[u].saved
        /\ th'[u].held = th[u].held /\ th'[u].seen = th[u].seen
        /\ th[u].late => th'[u].late
    BY <1>1, KeptIs
  <2>2. core'.high = core.high /\ db'.high = db.high /\ Saves(th[u]) => Saves(th[u])'
    BY <2>1 DEF Saves, Fresh
  <2>3. core'.choice = core.choice /\ UNCHANGED votes /\ Votes(th[u]) => Votes(th[u])'
    BY <2>1 DEF Votes, Fresh
  <2>4. QED
    BY <2>2, <2>3
<1>2. CASE th[u].pc \notin Steps
  <2>1. th'[u].pc \notin Steps
    BY <1>2, KeptIs
  <2>2. QED
    BY <2>1 DEF Saves, Votes, Fresh, Steps, Shared
<1>3. QED
  BY <1>1, <1>2

\* Steps that write nothing another thread reads.
LEMMA ThreadMoves ==
    ASSUME IInv, NEW t \in Threads, th[t].pc \in Steps \cup {"idle"},
           NEW x \in Active \cup {Idle}, Goes(t, x),
           x.pc \in {"check", "choose", "log"} => x.ask.kind = "vote",
           UNCHANGED <<core, db, votes, raced>>, stored' \in Pace,
           ~raced /\ OnRecord /\ InMemory => Saves(x) /\ Votes(x)
    PROVE  IInv'
<1>1. Typed'
  BY GoesTyped DEF IInv, Typed
<1>2. Running
  BY DEF Running, Steps, Shared, Down
<1>3. ASSUME ~raced PROVE OnRecord' /\ InMemory'
  <2>1. OnRecord /\ InMemory /\ Typed
    BY <1>2, <1>3 DEF IInv
  <2>2. Saves(x) /\ Votes(x) /\ th'[t] = x
    BY <1>3, <2>1 DEF Goes
  <2>3. Saves(th[t])' /\ Votes(th[t])'
    BY <2>2 DEF Saves, Votes, Fresh
  <2>4. \A u \in Threads : u # t => Saves(th[u])' /\ Votes(th[u])'
    BY <2>1, KeptFits DEF Goes, OnRecord, InMemory
  <2>5. QED
    BY <2>1, <2>3, <2>4 DEF OnRecord, InMemory, Mine, OnePerSlot
<1>4. QED
  BY <1>1, <1>3 DEF IInv

LEMMA BeginKeeps ==
    ASSUME IInv, CallsAssumption, NEW t \in Threads, Begin(t)
    PROVE  IInv'
<1>1. PICK a \in Asks :
        th' = [th EXCEPT ![t] = CASE a.kind = "tc"         -> At("row", a, "evidence")
                                  [] Certificate(a) # NoQC -> At("high", a, "evidence")
                                  [] OTHER                 -> At("check", a, "pace")]
  BY DEF Begin
<1>2. PICK x : x = CASE a.kind = "tc"         -> At("row", a, "evidence")
                     [] Certificate(a) # NoQC -> At("high", a, "evidence")
                     [] OTHER                 -> At("check", a, "pace")
  OBVIOUS
<1>3. th' = [th EXCEPT ![t] = x]
  BY <1>1, <1>2
<1>4. \/ a.kind = "tc" /\ x = At("row", a, "evidence")
      \/ a.kind # "tc" /\ x = At("high", a, "evidence")
      \/ a.kind # "tc" /\ x = At("check", a, "pace")
  <2>1. CASE a.kind = "tc"
    BY <1>2, <2>1, AskIs
  <2>2. CASE a.kind # "tc" /\ Certificate(a) # NoQC
    BY <1>2, <2>2
  <2>3. CASE a.kind # "tc" /\ Certificate(a) = NoQC
    BY <1>2, <2>3
  <2>4. QED
    BY <2>1, <2>2, <2>3
<1>5. x \in Active /\ x.ask = a /\ ~x.held /\ x.pc \in {"row", "high", "check"}
      /\ (x.pc = "row" => x.saved = "evidence" /\ Certificate(a) = NoQC)
      /\ (x.pc = "check" => a.kind = "vote")
  BY <1>4, AtIs, AskIs DEF Steps, Shared
<1>6. Typed /\ th[t].pc = "idle"
  BY DEF IInv, Begin, Idle
<1>7. Goes(t, x)
  BY <1>3, <1>6, ExceptGoes
<1>8. Saves(x) /\ Votes(x)
  <2>1. Certificate(a).round \in Nat /\ core.high.round \in Nat /\ NoQC.round = 0
    BY <1>6, Numbers, AskIs DEF NoQC
  <2>2. QED
    BY <1>5, <2>1 DEF Saves, Votes, Fresh
<1>9. UNCHANGED <<core, db, votes, raced>> /\ stored' \in Pace
  BY <1>6 DEF Begin, Typed
<1>10. QED
  BY <1>5, <1>6, <1>7, <1>8, <1>9, ThreadMoves

LEMMA ReadKeeps ==
    ASSUME IInv, NEW t \in Threads, Read(t)
    PROVE  IInv'
<1>0. Typed /\ th[t].pc \in Shared /\ th[t] \in Active /\ UNCHANGED <<core, stored, db, votes, raced>>
  BY AtStep DEF Read, IInv, Steps
<1>1. PICK known :
        /\ th' = [th EXCEPT ![t].held = TRUE, ![t].seen = known]
        /\ th[t].pc = "high" => known = [Unread EXCEPT !.high = core.high]
        /\ th[t].pc = "pace" => known = [Unread EXCEPT !.pace = core.pace]
        /\ th[t].pc = "lock" => known = [Unread EXCEPT !.locked = core.locked]
        /\ th[t].pc = "row" => known = SaveRuntime(Unread, [core EXCEPT !.pace = stored])
        /\ th[t].pc = "choose" => known = [Unread EXCEPT !.votes = core.choice]
  BY DEF Read
<1>2. Unread \in Database
  BY DEF Unread, EmptyDatabase, Database, FirstPace, Pace, QCOrNone
<1>3. /\ core \in Core /\ stored \in Pace
      /\ core.high \in QCOrNone /\ core.pace \in Pace /\ core.locked \in QCOrNone /\ core.choice \in SUBSET Vote
  BY <1>0 DEF Typed, Core
<1>4. /\ known \in Database
      /\ th[t].pc = "high" => known.high = core.high
      /\ th[t].pc = "pace" => known.pace = core.pace
      /\ th[t].pc = "row" => known.high = core.high
      /\ th[t].pc = "choose" => known.votes = core.choice
  <2>1. [core EXCEPT !.pace = stored] \in Core /\ [core EXCEPT !.pace = stored].high = core.high
        /\ [core EXCEPT !.pace = stored].pace = stored /\ [core EXCEPT !.pace = stored].locked = core.locked
    BY <1>3 DEF Core
  <2>2. SaveRuntime(Unread, [core EXCEPT !.pace = stored]) =
          [Unread EXCEPT !.pace = stored, !.high = core.high, !.locked = core.locked]
    BY <2>1 DEF SaveRuntime
  <2>4. CASE th[t].pc = "high"
    <3>1. known = [Unread EXCEPT !.high = core.high]
      BY <1>1, <2>4
    <3>2. known \in Database /\ known.high = core.high
      BY <1>2, <1>3, <3>1 DEF Database
    <3>3. QED
      BY <2>4, <3>2
  <2>5. CASE th[t].pc = "pace"
    <3>1. known = [Unread EXCEPT !.pace = core.pace]
      BY <1>1, <2>5
    <3>2. known \in Database /\ known.pace = core.pace
      BY <1>2, <1>3, <3>1 DEF Database
    <3>3. QED
      BY <2>5, <3>2
  <2>6. CASE th[t].pc = "lock"
    <3>1. known = [Unread EXCEPT !.locked = core.locked]
      BY <1>1, <2>6
    <3>2. known \in Database
      BY <1>2, <1>3, <3>1 DEF Database
    <3>3. QED
      BY <2>6, <3>2
  <2>7. CASE th[t].pc = "row"
    <3>1. known = [Unread EXCEPT !.pace = stored, !.high = core.high, !.locked = core.locked]
      BY <1>1, <2>7, <2>2
    <3>2. known \in Database /\ known.high = core.high
      BY <1>2, <1>3, <3>1 DEF Database
    <3>3. QED
      BY <2>7, <3>2
  <2>8. CASE th[t].pc = "choose"
    <3>1. known = [Unread EXCEPT !.votes = core.choice]
      BY <1>1, <2>8
    <3>2. known \in Database /\ known.votes = core.choice
      BY <1>2, <1>3, <3>1 DEF Database
    <3>3. QED
      BY <2>8, <3>2
  <2>9. QED
    BY <1>0, <2>4, <2>5, <2>6, <2>7, <2>8 DEF Shared
<1>5. PICK x : x = [th[t] EXCEPT !.held = TRUE, !.seen = known]
  OBVIOUS
<1>6. th' = [th EXCEPT ![t] = x]
  BY <1>0, <1>1, <1>5 DEF Typed
<1>7. x \in Active /\ x.pc = th[t].pc /\ x.ask = th[t].ask /\ x.saved = th[t].saved /\ x.seen = known
  BY <1>0, <1>4, <1>5 DEF Active
<1>8. Goes(t, x)
  BY <1>0, <1>6, ExceptGoes
<1>9. x.pc \in {"check", "choose", "log"} => x.ask.kind = "vote"
  BY <1>0, <1>7 DEF Typed
<1>10. ASSUME OnRecord, InMemory PROVE Saves(x) /\ Votes(x)
  <2>1. Saves(th[t]) /\ Votes(th[t]) /\ db.high.round <= core.high.round
    BY <1>10 DEF OnRecord, InMemory
  <2>2. db.high.round \in Nat /\ core.high.round \in Nat /\ core.pace.current \in Nat
    BY <1>0, Numbers
  <2>3. Saves(x)
    BY <1>4, <1>7, <2>1, <2>2 DEF Saves, Fresh
  <2>4. Votes(x)
    BY <1>4, <1>7, <1>10, <2>1, <2>2 DEF Votes, Fresh, InMemory
  <2>5. QED
    BY <2>3, <2>4
<1>11. stored' \in Pace
  BY <1>0, <1>3
<1>12. QED
  BY <1>0, <1>7, <1>8, <1>9, <1>10, <1>11, ThreadMoves DEF Steps

LEMMA CheckKeeps ==
    ASSUME IInv, CallsAssumption, NEW t \in Threads, Check(t)
    PROVE  IInv'
<1>0. Typed /\ th[t].pc = "check" /\ th[t] \in Active /\ UNCHANGED <<core, stored, db, votes, raced>>
  BY AtStep DEF Check, IInv, Steps
<1>1. PICK a \in Asks : a = th[t].ask /\ a.kind = "vote"
  BY <1>0, AtStep DEF Typed
<1>2. \/ th' = [th EXCEPT ![t] = Idle]
      \/ th' = [th EXCEPT ![t] = At("choose", a, "pace")] /\ ~Stale(core.pace, a.proposal.round)
  BY <1>1 DEF Check
<1>3. PICK x : /\ th' = [th EXCEPT ![t] = x]
               /\ \/ x = Idle
                  \/ x = At("choose", a, "pace") /\ ~Stale(core.pace, a.proposal.round)
  BY <1>2
<1>4. /\ x \in Active \cup {Idle} /\ (x.pc \in {"check", "choose", "log"} => x.ask.kind = "vote")
      /\ \/ x.pc = "idle"
         \/ /\ x.pc = "choose" /\ ~x.held /\ x.ask = a
            /\ ~Stale(core.pace, a.proposal.round)
  BY <1>1, <1>3, AtIs DEF Idle, Steps, Shared
<1>5. Goes(t, x)
  BY <1>0, <1>3, ExceptGoes
<1>6. ASSUME OnRecord, InMemory PROVE Saves(x) /\ Votes(x)
  <2>1. Saves(x)
    BY <1>4 DEF Saves, Fresh
  <2>2. ASSUME x.pc = "choose", NEW k \in votes, SameSlot(k, Ballot(x.ask))
        PROVE  k \in core.choice
    <3>1. core.pace.current \in Nat /\ k.round \in Nat
      BY <1>0, Numbers DEF Typed, Vote
    <3>2. k.round = a.proposal.round
      BY <1>1, <1>4, <2>2, AskIs DEF SameSlot
    <3>3. ~(k.round + 1 < core.pace.current)
      BY <1>4, <2>2, <3>2 DEF Stale
    <3>4. QED
      BY <1>6, <3>3 DEF InMemory
  <2>3. Votes(x)
    BY <1>4, <2>2 DEF Votes, Fresh
  <2>4. QED
    BY <2>1, <2>3
<1>7. stored' \in Pace
  BY <1>0 DEF Typed
<1>8. QED
  BY <1>0, <1>4, <1>5, <1>6, <1>7, ThreadMoves DEF Steps

LEMMA KeepKeeps ==
    ASSUME IInv, CallsAssumption, NEW t \in Threads, Keep(t)
    PROVE  IInv'
<1>0. /\ Typed /\ th[t].pc = "keep" /\ th[t] \in Active
      /\ UNCHANGED <<core, db, votes, raced>> /\ stored' = core.pace
  BY AtStep DEF Keep, IInv, Steps
<1>1. PICK a \in Asks : a = th[t].ask
  BY <1>0, AtStep
<1>2. PICK x : x = At("row", a, "pace")
  OBVIOUS
<1>3. th' = [th EXCEPT ![t] = x]
  BY <1>0, <1>1, <1>2 DEF Keep, Typed
<1>4. x \in Active /\ x.pc = "row" /\ x.ask = a /\ x.saved = "pace" /\ ~x.held
  BY <1>2, AtIs DEF Steps, Shared
<1>5. Goes(t, x)
  BY <1>0, <1>3, ExceptGoes
<1>6. ASSUME OnRecord PROVE Saves(x) /\ Votes(x)
  <2>1. Certificate(a).round <= db.high.round
    BY <1>0, <1>1, <1>6 DEF OnRecord, Saves
  <2>2. QED
    BY <1>4, <2>1 DEF Saves, Votes, Fresh
<1>7. stored' \in Pace
  BY <1>0 DEF Typed, Core
<1>8. QED
  BY <1>0, <1>4, <1>5, <1>6, <1>7, ThreadMoves DEF Steps

LEMMA WriteHighKeeps ==
    ASSUME IInv, CallsAssumption, NEW t \in Threads, WriteHigh(t)
    PROVE  IInv'
<1> DEFINE y == th[t]
           a == y.ask
           q == Certificate(a)
           x == At("row", a, "evidence")
<1>0. /\ Typed /\ y.pc = "high" /\ y.held /\ y \in Active /\ a \in Asks
      /\ UNCHANGED <<stored, db, votes>> /\ WriteAndGo(t, x)
      /\ core' = IF Higher(q, y.seen.high) THEN [core EXCEPT !.high = q] ELSE core
  BY AtStep DEF WriteHigh, Holds, IInv, Steps, Shared
<1>1. q \in QCOrNone /\ q.round \in Nat /\ y.seen.high \in QCOrNone
  BY <1>0, AskIs, Numbers
<1>2. x \in Active /\ x.pc = "row" /\ x.ask = a /\ x.saved = "evidence" /\ ~x.held
  BY <1>0, AtIs DEF Steps, Shared
<1>3. /\ Goes(t, x) /\ (~raced' => ~raced /\ ~y.late)
      /\ \A u \in Threads : u # t => ~Fresh(th'[u], "high")
  BY <1>0, WritesAndGoes DEF Steps, Shared
<1>4. /\ core' \in Core /\ core'.pace = core.pace /\ core'.choice = core.choice
      /\ core'.high = IF Higher(q, y.seen.high) THEN q ELSE core.high
  BY <1>0, <1>1 DEF Typed, Core
<1>5. Typed'
  BY <1>0, <1>2, <1>3, <1>4, GoesTyped DEF Typed
<1>6. Running
  BY <1>0 DEF Running, Down
<1>7. ASSUME ~raced' PROVE OnRecord' /\ InMemory'
  <2>1. OnRecord /\ InMemory /\ ~y.late
    BY <1>3, <1>6, <1>7 DEF IInv
  <2>2. Saves(y) /\ db.high.round <= core.high.round
    BY <2>1 DEF OnRecord
  <2>3. y.seen.high = core.high
    BY <1>0, <2>1, <2>2 DEF Saves, Fresh
  <2>4. /\ core'.high.round \in Nat /\ core.high.round \in Nat /\ db.high.round \in Nat
        /\ core'.high.round >= core.high.round /\ core'.high.round >= q.round
    <3>1. core.high.round \in Nat /\ db.high.round \in Nat
      BY <1>0, Numbers
    <3>2. Higher(q, core.high) => q.round >= core.high.round
      BY <1>1, <3>1 DEF Higher
    <3>3. ~Higher(q, core.high) => core.high.round >= q.round
      BY <1>1, <3>1 DEF Higher
    <3>4. QED
      BY <1>1, <1>4, <2>3, <3>1, <3>2, <3>3
  <2>5. Saves(th[t])'
    <3>1. th'[t] = x
      BY <1>3 DEF Goes
    <3>2. QED
      BY <1>2, <2>4, <3>1 DEF Saves, Fresh
  <2>6. ASSUME NEW u \in Threads, u # t PROVE Saves(th[u])'
    <3>1. Kept(u) /\ Saves(th[u])
      BY <1>3, <2>1, <2>6 DEF Goes, OnRecord
    <3>2. th'[u].pc = th[u].pc /\ ~Fresh(th'[u], "high")
      BY <1>0, <1>3, <2>6, <3>1, KeptIs
    <3>3. CASE th[u].pc \in Steps
      <4>1. /\ th'[u].ask = th[u].ask /\ th'[u].saved = th[u].saved
            /\ th'[u].held = th[u].held /\ th'[u].seen = th[u].seen
            /\ th[u].late => th'[u].late
            /\ th[u].seen.high.round \in Nat /\ Certificate(th[u].ask).round \in Nat
        BY <1>0, <3>1, <3>3, KeptIs, AtStep, Numbers, AskIs
      <4>2. QED
        BY <1>0, <2>4, <3>1, <3>2, <4>1 DEF Saves, Fresh
    <3>4. CASE th[u].pc \notin Steps
      BY <3>2, <3>4 DEF Saves, Fresh, Steps, Shared
    <3>5. QED
      BY <3>3, <3>4
  <2>7. OnRecord'
    BY <1>0, <2>1, <2>4, <2>2, <2>5, <2>6 DEF OnRecord, Mine, OnePerSlot
  <2>8. ASSUME NEW u \in Threads PROVE Votes(th[u])'
    <3>1. CASE u = t
      BY <1>2, <1>3, <3>1 DEF Votes, Fresh, Goes
    <3>2. CASE u # t
      BY <1>0, <1>3, <1>4, <2>1, <3>2, KeptFits DEF Goes, InMemory
    <3>3. QED
      BY <3>1, <3>2
  <2>9. InMemory'
    BY <1>0, <1>4, <2>1, <2>8 DEF InMemory, Mine, OnePerSlot
  <2>10. QED
    BY <2>7, <2>9
<1>8. QED
  BY <1>5, <1>7 DEF IInv

\* Steps that write the pacemaker or the lock.
LEMMA CoreWritten ==
    ASSUME IInv, NEW t \in Threads, th[t].pc \in Steps,
           NEW x \in Active, Goes(t, x), x.pc \in {"row", "keep", "lock"}, ~x.held,
           UNCHANGED <<stored, db, votes>>, ~raced' => ~raced,
           core' \in Core, core'.high = core.high, core'.choice = core.choice,
           ~raced /\ OnRecord /\ InMemory =>
              /\ Saves(x)
              /\ \A m \in votes : m \in core.choice \/ m.round + 1 < core'.pace.current
    PROVE  IInv'
<1>0. Typed /\ Running
  BY DEF IInv, Running, Steps, Shared, Down
<1>1. Typed'
  BY <1>0, GoesTyped DEF Typed
<1>2. ASSUME ~raced' PROVE OnRecord' /\ InMemory'
  <2>1. /\ OnRecord /\ InMemory /\ Saves(x)
        /\ \A m \in votes : m \in core.choice \/ m.round + 1 < core'.pace.current
    BY <1>0, <1>2 DEF IInv
  <2>2. th'[t] = x /\ \A u \in Threads : u # t => Kept(u)
    BY DEF Goes
  <2>3. ASSUME NEW u \in Threads PROVE Saves(th[u])' /\ Votes(th[u])'
    <3>1. CASE u = t
      BY <2>1, <2>2, <3>1 DEF Saves, Votes, Fresh
    <3>2. CASE u # t
      BY <1>0, <2>1, <2>2, <3>2, KeptFits DEF OnRecord, InMemory
    <3>3. QED
      BY <3>1, <3>2
  <2>4. QED
    BY <2>1, <2>3 DEF OnRecord, InMemory, Mine, OnePerSlot
<1>3. QED
  BY <1>1, <1>2 DEF IInv

LEMMA WritePaceKeeps ==
    ASSUME IInv, CallsAssumption, NEW t \in Threads, WritePace(t)
    PROVE  IInv'
<1> DEFINE y == th[t]
           a == y.ask
           q == Certificate(a)
<1>0. /\ Typed /\ y.pc = "pace" /\ y.held /\ y \in Active /\ a \in Asks
      /\ UNCHANGED <<stored, db, votes>>
  BY AtStep DEF WritePace, Holds, IInv, Steps, Shared
<1>1. PICK x, p : /\ x = At(IF q.phase = "precommit" THEN "lock" ELSE "keep", a, "pace")
                  /\ p = IF a.kind = "tc" THEN NoteTC(y.seen.pace, a.round) ELSE NoteQC(y.seen.pace, q)
  OBVIOUS
<1>2. WriteAndGo(t, x) /\ core' = [core EXCEPT !.pace = p]
  BY <1>1 DEF WritePace
<1>3. x \in Active /\ x.pc \in {"lock", "keep"} /\ x.ask = a /\ ~x.held
  BY <1>0, <1>1, AtIs DEF Steps, Shared
<1>4. y.seen.pace \in Pace
  BY <1>0 DEF Active, Database
<1>5. p \in Pace /\ p.current >= y.seen.pace.current
  BY <1>0, <1>1, <1>4, AskIs, PaceRises
<1>6. Goes(t, x) /\ (~raced' => ~raced)
  BY <1>0, <1>2, WritesAndGoes DEF Steps, Shared
<1>7. core' \in Core /\ core'.high = core.high /\ core'.choice = core.choice /\ core'.pace = p
  BY <1>0, <1>2, <1>5 DEF Typed, Core
<1>8. ASSUME OnRecord, InMemory
      PROVE  /\ Saves(x)
             /\ \A m \in votes : m \in core.choice \/ m.round + 1 < core'.pace.current
  <2>1. Saves(y) /\ Votes(y)
    BY <1>8 DEF OnRecord, InMemory
  <2>2. Saves(x)
    BY <1>0, <1>3, <2>1 DEF Saves, Fresh
  <2>3. \A m \in votes : m.round \in Nat
    BY <1>0 DEF Typed, Vote
  <2>4. y.seen.pace.current \in Nat /\ p.current \in Nat
    BY <1>4, <1>5 DEF Pace
  <2>5. \A m \in votes : m \in core.choice \/ m.round + 1 < y.seen.pace.current
    BY <1>0, <2>1 DEF Votes
  <2>6. QED
    BY <1>5, <1>7, <2>2, <2>3, <2>4, <2>5
<1>9. QED
  BY <1>0, <1>3, <1>6, <1>7, <1>8, CoreWritten DEF Steps, Shared

LEMMA WriteLockKeeps ==
    ASSUME IInv, CallsAssumption, NEW t \in Threads, WriteLock(t)
    PROVE  IInv'
<1> DEFINE y == th[t]
           a == y.ask
           q == Certificate(a)
           x == At("row", a, "lock")
<1>0. /\ Typed /\ y.pc = "lock" /\ y.held /\ y \in Active /\ a \in Asks
      /\ UNCHANGED <<stored, db, votes>> /\ WriteAndGo(t, x)
      /\ core' = IF q.round >= y.seen.locked.round THEN [core EXCEPT !.locked = q] ELSE core
  BY AtStep DEF WriteLock, Holds, IInv, Steps, Shared
<1>1. x \in Active /\ x.pc = "row" /\ x.ask = a /\ x.saved = "lock" /\ ~x.held
  BY <1>0, AtIs DEF Steps, Shared
<1>2. Goes(t, x) /\ (~raced' => ~raced)
  BY <1>0, WritesAndGoes DEF Steps, Shared
<1>3. q \in QCOrNone
  BY <1>0, AskIs
<1>4. core' \in Core /\ core'.high = core.high /\ core'.choice = core.choice /\ core'.pace = core.pace
  BY <1>0, <1>3 DEF Typed, Core
<1>5. ASSUME OnRecord PROVE Saves(x)
  <2>1. Saves(y)
    BY <1>5 DEF OnRecord
  <2>2. QED
    BY <1>0, <1>1, <2>1 DEF Saves, Fresh
<1>6. InMemory => \A m \in votes : m \in core.choice \/ m.round + 1 < core'.pace.current
  BY <1>4 DEF InMemory
<1>7. QED
  BY <1>0, <1>1, <1>2, <1>4, <1>5, <1>6, CoreWritten DEF Steps, Shared

\* Steps that write the database.
LEMMA RowWritten ==
    ASSUME IInv, NEW t \in Threads, th[t].pc \in Steps,
           NEW x \in Active \cup {Idle}, Goes(t, x), x.pc \in {"pace", "prune", "keep", "check", "idle"},
           x.pc = "check" => x.ask.kind = "vote", x.pc # "idle" => ~x.held,
           UNCHANGED <<core, stored, votes>>, ~raced' => ~raced, db' \in Database,
           \A u \in Threads : u # t /\ Fresh(th'[u], "row") => db'.high = db.high,
           CallsAssumption,
           ~raced' /\ OnRecord /\ InMemory =>
              /\ db.high.round <= db'.high.round /\ db'.high.round <= core.high.round
              /\ x.pc # "check" /\ x.pc # "idle" => Certificate(x.ask).round <= db'.high.round
              /\ db'.votes \subseteq db.votes
              /\ \A m \in votes : m \in db'.votes \/ m.round < db'.high.round
    PROVE  IInv'
<1>0. Typed /\ Running
  BY DEF IInv, Running, Steps, Shared, Down
<1>1. Typed'
  BY <1>0, GoesTyped DEF Typed
<1>2. ASSUME ~raced' PROVE OnRecord' /\ InMemory'
  <2>1. /\ OnRecord /\ InMemory
        /\ db.high.round <= db'.high.round /\ db'.high.round <= core.high.round
        /\ x.pc # "check" /\ x.pc # "idle" => Certificate(x.ask).round <= db'.high.round
        /\ db'.votes \subseteq db.votes
        /\ \A m \in votes : m \in db'.votes \/ m.round < db'.high.round
    BY <1>0, <1>2 DEF IInv
  <2>2. th'[t] = x /\ \A u \in Threads : u # t => Kept(u)
    BY DEF Goes
  <2>3. db.high.round \in Nat /\ db'.high.round \in Nat
    BY <1>0, <1>1, Numbers DEF Typed, Database, QCOrNone, QC, NoQC
  <2>4. ASSUME NEW u \in Threads PROVE Votes(th[u])'
    <3>1. CASE u = t
      BY <2>2, <3>1 DEF Votes, Fresh, Idle
    <3>2. CASE u # t
      BY <1>0, <2>1, <2>2, <3>2, KeptFits DEF InMemory
    <3>3. QED
      BY <3>1, <3>2
  <2>5. Saves(th[t])'
    BY <2>1, <2>2 DEF Saves, Fresh
  <2>6. ASSUME NEW u \in Threads, u # t PROVE Saves(th[u])'
    <3>1. Kept(u) /\ Saves(th[u]) /\ th'[u].pc = th[u].pc
      BY <1>0, <2>1, <2>2, <2>6, KeptIs DEF OnRecord
    <3>2. CASE th[u].pc \in Steps
      <4>1. /\ th'[u].ask = th[u].ask /\ th'[u].saved = th[u].saved
            /\ th'[u].held = th[u].held /\ th'[u].seen = th[u].seen
            /\ th[u].late => th'[u].late
            /\ Certificate(th[u].ask).round \in Nat
        BY <1>0, <3>1, <3>2, KeptIs, AtStep, AskIs
      <4>2. Fresh(th'[u], "row") => Fresh(th[u], "row") /\ db'.high = db.high
        BY <2>6, <3>1, <4>1 DEF Fresh
      <4>3. QED
        BY <2>1, <2>3, <3>1, <4>1, <4>2 DEF Saves, Fresh
    <3>3. CASE th[u].pc \notin Steps
      BY <3>1, <3>3 DEF Saves, Fresh, Steps, Shared
    <3>4. QED
      BY <3>2, <3>3
  <2>7. OnRecord'
    BY <2>1, <2>5, <2>6 DEF OnRecord, Mine, OnePerSlot
  <2>8. InMemory'
    BY <2>1, <2>4 DEF InMemory, Mine, OnePerSlot
  <2>9. QED
    BY <2>7, <2>8
<1>3. QED
  BY <1>1, <1>2 DEF IInv

LEMMA WriteRowKeeps ==
    ASSUME IInv, CallsAssumption, NEW t \in Threads, WriteRow(t)
    PROVE  IInv'
<1> DEFINE y == th[t]
           a == y.ask
<1>0. /\ Typed /\ y.pc = "row" /\ y.held /\ y \in Active /\ a \in Asks
      /\ y.saved \in {"evidence", "lock", "pace"}
      /\ UNCHANGED <<core, stored, votes>>
      /\ db' = [db EXCEPT !.pace = y.seen.pace, !.high = y.seen.high, !.locked = y.seen.locked]
  BY AtStep DEF WriteRow, Holds, IInv, Steps, Shared
<1>1. PICK x : x = CASE y.saved = "evidence" -> At("pace", a, "pace")
                     [] y.saved = "lock"     -> At("prune", a, "pace")
                     [] y.saved = "pace"     -> IF a.kind = "tc" THEN Idle ELSE At("check", a, "pace")
  OBVIOUS
<1>2. WriteAndGo(t, x)
  BY <1>1 DEF WriteRow
<1>3. \/ y.saved = "evidence" /\ x = At("pace", a, "pace")
      \/ y.saved = "lock" /\ x = At("prune", a, "pace")
      \/ y.saved = "pace" /\ a.kind = "tc" /\ x = Idle
      \/ y.saved = "pace" /\ a.kind # "tc" /\ x = At("check", a, "pace")
  <2>1. CASE y.saved = "evidence"
    BY <1>1, <2>1
  <2>2. CASE y.saved = "lock"
    BY <1>1, <2>2
  <2>3. CASE y.saved = "pace"
    BY <1>1, <2>3
  <2>4. QED
    BY <1>0, <2>1, <2>2, <2>3
<1>4. /\ x \in Active \cup {Idle} /\ x.pc \in {"pace", "prune", "keep", "check", "idle"}
      /\ (x.pc = "check" => x.ask.kind = "vote") /\ (x.pc # "idle" => ~x.held /\ x.ask = a)
      /\ (x.pc # "check" /\ x.pc # "idle" => y.saved \in {"evidence", "lock"})
  BY <1>0, <1>3, AtIs, AskIs DEF Steps, Shared, Idle
<1>5. /\ Goes(t, x) /\ (~raced' => ~raced /\ ~y.late)
      /\ \A u \in Threads : u # t => ~Fresh(th'[u], "row")
  BY <1>0, <1>2, WritesAndGoes DEF Steps, Shared
<1>6. db' \in Database /\ db'.high = y.seen.high /\ db'.votes = db.votes
  <2>1. y.seen.pace \in Pace /\ y.seen.high \in QCOrNone /\ y.seen.locked \in QCOrNone
    BY <1>0 DEF Active, Database
  <2>2. QED
    BY <1>0, <2>1 DEF Typed, Database
<1>7. ASSUME ~raced', OnRecord, InMemory
      PROVE  /\ db.high.round <= db'.high.round /\ db'.high.round <= core.high.round
             /\ x.pc # "check" /\ x.pc # "idle" => Certificate(x.ask).round <= db'.high.round
             /\ db'.votes \subseteq db.votes
             /\ \A m \in votes : m \in db'.votes \/ m.round < db'.high.round
  <2>1. Saves(y) /\ ~y.late /\ \A m \in votes : m \in db.votes \/ m.round < db.high.round
    BY <1>5, <1>7 DEF OnRecord
  <2>2. /\ db.high.round <= y.seen.high.round /\ y.seen.high.round <= core.high.round
        /\ y.saved = "evidence" => Certificate(a).round <= y.seen.high.round
        /\ y.saved # "evidence" => Certificate(a).round <= db.high.round
    BY <1>0, <2>1 DEF Saves, Fresh
  <2>3. /\ db.high.round \in Nat /\ y.seen.high.round \in Nat /\ Certificate(a).round \in Nat
        /\ \A m \in votes : m.round \in Nat
    BY <1>0, Numbers, AskIs DEF Typed, Vote
  <2>4. QED
    BY <1>4, <1>6, <2>1, <2>2, <2>3
<1>8. \A u \in Threads : u # t /\ Fresh(th'[u], "row") => db'.high = db.high
  BY <1>5
<1>9. th[t].pc \in Steps /\ (~raced' => ~raced) /\ Goes(t, x)
      /\ (x.pc # "idle" => ~x.held) /\ (x.pc = "check" => x.ask.kind = "vote")
  BY <1>0, <1>4, <1>5 DEF Steps, Shared
<1>10. QED
  BY <1>0, <1>4, <1>6, <1>7, <1>8, <1>9, RowWritten

LEMMA PruneLogKeeps ==
    ASSUME IInv, CallsAssumption, NEW t \in Threads, PruneLog(t)
    PROVE  IInv'
<1> DEFINE y == th[t]
           a == y.ask
           x == At("keep", a, "pace")
<1>0. /\ Typed /\ y.pc = "prune" /\ y \in Active /\ a \in Asks
      /\ UNCHANGED <<core, stored, votes, raced>>
      /\ db' = [db EXCEPT !.votes = KeepFrom(@, Certificate(a).round)]
  BY AtStep DEF PruneLog, IInv, Steps
<1>1. x \in Active /\ x.pc = "keep" /\ x.ask = a /\ ~x.held
  BY <1>0, AtIs DEF Steps
<1>2. th' = [th EXCEPT ![t] = x]
  BY <1>0 DEF PruneLog, Typed
<1>3. Goes(t, x)
  BY <1>0, <1>2, ExceptGoes
<1>4. /\ db' \in Database /\ db'.high = db.high
      /\ db'.votes = {m \in db.votes : m.round >= Certificate(a).round}
  BY <1>0 DEF Typed, Database, KeepFrom
<1>5. ASSUME OnRecord
      PROVE  /\ db.high.round <= db'.high.round /\ db'.high.round <= core.high.round
             /\ x.pc # "check" /\ x.pc # "idle" => Certificate(x.ask).round <= db'.high.round
             /\ db'.votes \subseteq db.votes
             /\ \A m \in votes : m \in db'.votes \/ m.round < db'.high.round
  <2>1. /\ Saves(y) /\ db.high.round <= core.high.round
        /\ \A m \in votes : m \in db.votes \/ m.round < db.high.round
    BY <1>5 DEF OnRecord
  <2>2. Certificate(a).round <= db.high.round
    BY <1>0, <2>1 DEF Saves
  <2>3. /\ db.high.round \in Nat /\ Certificate(a).round \in Nat
        /\ \A m \in votes : m.round \in Nat
    BY <1>0, Numbers, AskIs DEF Typed, Vote
  <2>4. QED
    BY <1>1, <1>4, <2>1, <2>2, <2>3
<1>6. \A u \in Threads : u # t /\ Fresh(th'[u], "row") => db'.high = db.high
  BY <1>4
<1>7. th[t].pc \in Steps /\ x.pc \in {"pace", "prune", "keep", "check", "idle"}
      /\ (x.pc # "idle" => ~x.held) /\ (x.pc = "check" => x.ask.kind = "vote") /\ (~raced' => ~raced)
  BY <1>0, <1>1 DEF Steps
<1>8. QED
  BY <1>0, <1>1, <1>3, <1>4, <1>5, <1>6, <1>7, RowWritten

\* A vote is one record for its slot, its voter and its block.
LEMMA SameVote ==
    ASSUME NEW m \in Vote, NEW k \in Vote, SameSlot(m, k), m.voter = k.voter, m.block = k.block
    PROVE  m = k
BY DEF Vote, SameSlot

LEMMA WriteChoiceKeeps ==
    ASSUME IInv, CallsAssumption, NEW t \in Threads, WriteChoice(t)
    PROVE  IInv'
<1> DEFINE y == th[t]
           a == y.ask
           x == At("log", a, "pace")
<1>0. /\ Typed /\ y.pc = "choose" /\ y.held /\ y \in Active /\ a \in Asks /\ a.kind = "vote"
      /\ UNCHANGED <<stored, db, votes>>
  BY AtStep DEF WriteChoice, Holds, IInv, Steps, Shared, Typed
<1>1. PICK m : m = Ballot(a)
  OBVIOUS
<1>2. m \in Vote /\ m.voter = Me
  BY <1>0, <1>1, AskIs
<1>3. \/ th' = [th EXCEPT ![t] = Idle] /\ UNCHANGED <<core, raced>>
      \/ /\ ~\E k \in y.seen.votes : SameSlot(k, m) /\ k.block # m.block
         /\ core' = [core EXCEPT !.choice = {k \in @ : ~SameSlot(k, m)} \cup {m}]
         /\ WriteAndGo(t, x)
  BY <1>1 DEF WriteChoice
<1>4. CASE th' = [th EXCEPT ![t] = Idle] /\ UNCHANGED <<core, raced>>
  <2>1. Goes(t, Idle)
    BY <1>0, <1>4, ExceptGoes
  <2>2. Saves(Idle) /\ Votes(Idle) /\ Idle.pc = "idle"
    BY DEF Saves, Votes, Fresh, Idle
  <2>3. stored' \in Pace
    BY <1>0 DEF Typed
  <2>4. QED
    BY <1>0, <1>4, <2>1, <2>2, <2>3, ThreadMoves DEF Steps, Shared
<1>5. CASE /\ ~\E k \in y.seen.votes : SameSlot(k, m) /\ k.block # m.block
           /\ core' = [core EXCEPT !.choice = {k \in @ : ~SameSlot(k, m)} \cup {m}]
           /\ WriteAndGo(t, x)
  <2>1. x \in Active /\ x.pc = "log" /\ x.ask = a /\ ~x.held
    BY <1>0, AtIs DEF Steps
  <2>2. /\ Goes(t, x) /\ (~raced' => ~raced /\ ~y.late)
        /\ \A u \in Threads : u # t /\ Fresh(th'[u], "choose") => ~SameSlot(Ballot(th[u].ask), m)
    BY <1>0, <1>1, <1>5, WritesAndGoes DEF Steps, Shared
  <2>3. /\ core' \in Core /\ core'.high = core.high /\ core'.pace = core.pace
        /\ core'.choice = {k \in core.choice : ~SameSlot(k, m)} \cup {m}
        /\ core.choice \subseteq Vote
    <3>1. core \in Core /\ core.choice \in SUBSET Vote
      BY <1>0 DEF Typed, Core
    <3>2. {k \in core.choice : ~SameSlot(k, m)} \cup {m} \in SUBSET Vote
      BY <1>2, <3>1
    <3>3. QED
      BY <1>5, <3>1, <3>2 DEF Core
  <2>4. Typed'
    BY <1>0, <2>1, <2>2, <2>3, GoesTyped DEF Typed
  <2>5. Running
    BY <1>0 DEF Running, Down
  <2>6. ASSUME ~raced' PROVE OnRecord' /\ InMemory'
    <3>1. OnRecord /\ InMemory /\ ~y.late /\ Votes(y) /\ Saves(y)
      BY <2>2, <2>5, <2>6 DEF IInv, OnRecord, InMemory
    <3>2. \A k \in core.choice : SameSlot(k, m) => k = m
      <4>1. \A k \in core.choice : SameSlot(k, m) => k \in y.seen.votes
        BY <1>0, <1>1, <3>1 DEF Votes, Fresh
      <4>2. \A k \in core.choice : SameSlot(k, m) => k.block = m.block /\ k.voter = m.voter /\ k \in Vote
        BY <1>2, <1>5, <2>3, <3>1, <4>1 DEF InMemory, Mine
      <4>3. QED
        BY <1>2, <4>2, SameVote
    <3>3. core'.choice = core.choice \cup {m}
      BY <2>3, <3>2
    <3>4. Mine(core'.choice) /\ OnePerSlot(core'.choice)
      <4>1. \A k \in core.choice : SameSlot(m, k) => k = m
        BY <3>2 DEF SameSlot
      <4>2. QED
        BY <1>2, <3>1, <3>2, <3>3, <4>1 DEF InMemory, Mine, OnePerSlot
    <3>5. th'[t] = x /\ \A u \in Threads : u # t => Kept(u)
      BY <2>2 DEF Goes
    <3>6. Votes(th[t])'
      BY <1>0, <1>1, <2>1, <3>1, <3>3, <3>5 DEF Votes, Fresh
    <3>7. ASSUME NEW u \in Threads, u # t PROVE Votes(th[u])'
      <4>1. Kept(u) /\ Votes(th[u]) /\ th'[u].pc = th[u].pc
        BY <1>0, <3>1, <3>5, <3>7, KeptIs DEF InMemory
      <4>2. CASE th[u].pc \in Steps
        <5>1. /\ th'[u].ask = th[u].ask /\ th'[u].held = th[u].held /\ th'[u].seen = th[u].seen
              /\ th[u].late => th'[u].late
          BY <1>0, <4>1, <4>2, KeptIs
        <5>2. Fresh(th'[u], "choose") => /\ Fresh(th[u], "choose")
                                         /\ ~SameSlot(m, Ballot(th[u].ask))
          BY <2>2, <3>7, <4>1, <5>1 DEF Fresh, SameSlot
        <5>3. QED
          BY <1>0, <3>3, <4>1, <5>1, <5>2 DEF Votes, Fresh
      <4>3. CASE th[u].pc \notin Steps
        BY <4>1, <4>3 DEF Votes, Fresh, Steps, Shared
      <4>4. QED
        BY <4>2, <4>3
    <3>8. Saves(th[t])'
      BY <2>1, <3>5 DEF Saves, Fresh
    <3>9. \A u \in Threads : u # t => Saves(th[u])'
      BY <1>0, <2>3, <3>1, <3>5, KeptFits DEF OnRecord
    <3>10. OnRecord'
      BY <1>0, <2>3, <3>1, <3>8, <3>9 DEF OnRecord, Mine, OnePerSlot
    <3>11. InMemory'
      BY <1>0, <2>3, <3>1, <3>3, <3>4, <3>6, <3>7 DEF InMemory
    <3>12. QED
      BY <3>10, <3>11
  <2>7. QED
    BY <2>4, <2>6 DEF IInv
<1>6. QED
  BY <1>3, <1>4, <1>5

LEMMA LogKeeps ==
    ASSUME IInv, CallsAssumption, NEW t \in Threads, Log(t)
    PROVE  IInv'
<1> DEFINE y == th[t]
           a == y.ask
<1>0. /\ Typed /\ y.pc = "log" /\ y \in Active /\ a \in Asks /\ a.kind = "vote"
      /\ UNCHANGED <<core, stored, raced>> /\ th' = [th EXCEPT ![t] = Idle]
  BY AtStep DEF Log, IInv, Steps, Typed
<1>1. PICK m : m = Ballot(a)
  OBVIOUS
<1>2. m \in Vote /\ m.voter = Me
  BY <1>0, <1>1, AskIs
<1>3. db' = LogVote(db, m) /\ votes' = votes \cup {m}
  BY <1>1 DEF Log
<1>4. /\ db' \in Database /\ db'.high = db.high
      /\ db'.votes = {k \in db.votes : ~(SameSlot(k, m) /\ k.voter = m.voter)} \cup {m}
      /\ db.votes \subseteq Vote
  <2>1. db \in Database /\ db.votes \in SUBSET Vote
    BY <1>0 DEF Typed, Database
  <2>2. {k \in db.votes : ~(SameSlot(k, m) /\ k.voter = m.voter)} \cup {m} \in SUBSET Vote
    BY <1>2, <2>1
  <2>3. QED
    BY <1>3, <2>1, <2>2 DEF LogVote, Database
<1>5. Goes(t, Idle) /\ Idle.pc = "idle" /\ Idle \in Active \cup {Idle}
  BY <1>0, ExceptGoes DEF Idle
<1>6. Typed'
  BY <1>0, <1>2, <1>3, <1>4, <1>5, GoesTyped DEF Typed
<1>7. Running
  BY <1>0 DEF Running, Down
<1>8. ASSUME ~raced' PROVE OnRecord' /\ InMemory'
  <2>1. OnRecord /\ InMemory /\ Votes(y)
    BY <1>0, <1>7, <1>8 DEF IInv, InMemory
  <2>2. m \in core.choice
    BY <1>0, <1>1, <2>1 DEF Votes
  <2>3. \A k \in votes : SameSlot(k, m) => k = m
    <3>1. \A k \in votes : SameSlot(k, m) => k \in core.choice
      BY <1>0, <1>1, <2>1 DEF Votes
    <3>2. \A k \in votes : SameSlot(k, m) => k.block = m.block /\ k.voter = m.voter /\ k \in Vote
      BY <1>0, <1>2, <2>1, <2>2, <3>1 DEF InMemory, OnePerSlot, OnRecord, Mine, Typed
    <3>3. QED
      BY <1>2, <3>2, SameVote
  <2>4. \A k \in votes : SameSlot(m, k) => k = m
    BY <2>3 DEF SameSlot
  <2>5. Mine(votes') /\ OnePerSlot(votes')
    BY <1>2, <1>3, <2>1, <2>3, <2>4 DEF OnRecord, Mine, OnePerSlot
  <2>6. Mine(db'.votes) /\ OnePerSlot(db'.votes)
    <3>1. Mine(db.votes) /\ OnePerSlot(db.votes)
      BY <2>1 DEF OnRecord
    <3>2. \A k \in db'.votes : k = m \/ (k \in db.votes /\ k.voter = Me /\ ~SameSlot(k, m) /\ ~SameSlot(m, k))
      BY <1>2, <1>4, <3>1 DEF Mine, SameSlot
    <3>3. QED
      BY <1>2, <3>1, <3>2 DEF Mine, OnePerSlot
  <2>7. \A k \in votes' : k \in db'.votes \/ k.round < db'.high.round
    <3>1. m \in db'.votes
      BY <1>4
    <3>2. ASSUME NEW k \in votes, k # m PROVE k \in db'.votes \/ k.round < db'.high.round
      BY <1>4, <2>1, <2>3, <3>2 DEF OnRecord
    <3>3. QED
      BY <1>3, <3>1, <3>2
  <2>8. th'[t] = Idle /\ \A u \in Threads : u # t => Kept(u)
    BY <1>5 DEF Goes
  <2>9. \A u \in Threads : Saves(th[u])'
    <3>1. Saves(th[t])'
      BY <1>5, <2>8 DEF Saves, Fresh
    <3>2. \A u \in Threads : u # t => Saves(th[u])'
      BY <1>0, <1>4, <2>1, <2>8, KeptFits DEF OnRecord
    <3>3. QED
      BY <3>1, <3>2
  <2>10. \A u \in Threads : Votes(th[u])'
    <3>1. Votes(th[t])'
      BY <1>5, <2>8 DEF Votes, Fresh
    <3>2. ASSUME NEW u \in Threads, u # t PROVE Votes(th[u])'
      <4>1. Kept(u) /\ Votes(th[u]) /\ th'[u].pc = th[u].pc
        BY <1>0, <2>1, <2>8, <3>2, KeptIs DEF InMemory
      <4>2. CASE th[u].pc \in Steps
        <5>1. /\ th'[u].ask = th[u].ask /\ th'[u].held = th[u].held /\ th'[u].seen = th[u].seen
              /\ th[u].late => th'[u].late
          BY <1>0, <4>1, <4>2, KeptIs
        <5>2. QED
          BY <1>0, <1>3, <2>2, <4>1, <5>1 DEF Votes, Fresh
      <4>3. CASE th[u].pc \notin Steps
        BY <4>1, <4>3 DEF Votes, Fresh, Steps, Shared
      <4>4. QED
        BY <4>2, <4>3
    <3>3. QED
      BY <3>1, <3>2
  <2>11. OnRecord'
    BY <1>0, <1>4, <2>1, <2>5, <2>6, <2>7, <2>9 DEF OnRecord
  <2>12. InMemory'
    BY <1>0, <1>3, <2>1, <2>2, <2>10 DEF InMemory
  <2>13. QED
    BY <2>11, <2>12
<1>9. QED
  BY <1>6, <1>8 DEF IInv

LEMMA CrashKeeps ==
    ASSUME IInv, CallsAssumption, Crash
    PROVE  IInv'
<1>0. /\ Typed /\ UNCHANGED <<db, votes, raced>> /\ core' = Load(Me, db) /\ stored' = db.pace
      /\ th' = [t \in Threads |-> IF RuntimeStateOK(core') THEN Idle ELSE Down]
      /\ db \in Database
  BY DEF Crash, IInv, Typed
<1>1. /\ core' \in Core /\ stored' \in Pace /\ core'.high = db.high /\ core'.pace = db.pace
      /\ core'.choice = {m \in db.votes : m.voter = Me}
  BY <1>0, LoadIs
<1>2. \A t \in Threads : th'[t] \in {Idle, Down} /\ th'[t].pc \in {"idle", "down"}
  BY <1>0 DEF Idle, Down
<1>3. Typed'
  BY <1>0, <1>1, <1>2 DEF Typed
<1>4. \A t \in Threads : Saves(th[t])' /\ Votes(th[t])'
  BY <1>2 DEF Saves, Votes, Fresh
<1>5. ASSUME ~raced' PROVE OnRecord' /\ (Running' => InMemory')
  <2>1. OnRecord
    BY <1>0, <1>5 DEF IInv
  <2>2. db.high.round \in Nat /\ db.pace.current \in Nat /\ \A m \in votes : m.round \in Nat
    BY <1>0, Numbers DEF Typed, Vote
  <2>3. OnRecord'
    BY <1>0, <1>1, <1>4, <2>1, <2>2 DEF OnRecord
  <2>4. ASSUME Running' PROVE InMemory'
    <3>1. RuntimeStateOK(core')
      BY <1>0, <2>4 DEF Running
    <3>2. \A m \in votes : m.round < db.high.round => m.round + 1 < db.pace.current
      <4>1. db.high # NoQC => db.pace.current > db.high.round
        BY <1>1, <3>1 DEF RuntimeStateOK
      <4>2. db.high.round > 0 => db.high # NoQC
        BY DEF NoQC
      <4>3. QED
        BY <2>2, <4>1, <4>2
    <3>3. core'.choice = db.votes
      BY <1>1, <2>1 DEF OnRecord, Mine
    <3>4. Mine(core'.choice) /\ OnePerSlot(core'.choice)
      BY <2>1, <3>3 DEF OnRecord
    <3>5. \A m \in votes : m \in core'.choice \/ m.round + 1 < core'.pace.current
      BY <1>1, <2>1, <3>2, <3>3 DEF OnRecord
    <3>6. QED
      BY <1>0, <1>4, <3>4, <3>5 DEF InMemory
  <2>5. QED
    BY <2>3, <2>4
<1>6. QED
  BY <1>3, <1>5 DEF IInv

LEMMA InitHolds == CallsAssumption /\ Init => IInv
<1> SUFFICES ASSUME CallsAssumption, Init PROVE IInv
  OBVIOUS
<1>1. EmptyDatabase \in Database /\ EmptyDatabase.votes = {} /\ EmptyDatabase.high = NoQC
  BY DEF EmptyDatabase, Database, FirstPace, Pace, QCOrNone
<1>2. First \in Vote /\ First.voter = Me
  BY DEF CallsAssumption
<1>3. db \in Database /\ db.votes = {First} /\ db.high = NoQC
  <2>1. db = [EmptyDatabase EXCEPT !.votes = {First}]
    BY <1>1 DEF Init, LogVote
  <2>2. QED
    BY <1>1, <1>2, <2>1 DEF Database
<1>4. core \in Core /\ stored \in Pace /\ core.high = db.high /\ core.choice = {m \in db.votes : m.voter = Me}
  BY <1>3, LoadIs DEF Init
<1>5. th = [t \in Threads |-> Idle] /\ votes = {First} /\ \A t \in Threads : th[t].pc = "idle"
  BY DEF Init, Idle
<1>6. Typed
  BY <1>2, <1>3, <1>4, <1>5 DEF Typed
<1>7. \A t \in Threads : Saves(th[t]) /\ Votes(th[t])
  BY <1>5 DEF Saves, Votes, Fresh
<1>8. core.choice = {First}
  BY <1>2, <1>3, <1>4
<1>9. Mine({First}) /\ OnePerSlot({First})
  BY <1>2 DEF Mine, OnePerSlot
<1>10. OnRecord
  BY <1>3, <1>4, <1>5, <1>7, <1>9 DEF OnRecord, NoQC
<1>11. InMemory
  BY <1>5, <1>7, <1>8, <1>9 DEF InMemory
<1>12. QED
  BY <1>6, <1>10, <1>11 DEF IInv

LEMMA NextKeeps == CallsAssumption /\ IInv /\ [Next]_threadVars => IInv'
<1> SUFFICES ASSUME CallsAssumption, IInv, [Next]_threadVars PROVE IInv'
  OBVIOUS
<1>1. CASE UNCHANGED threadVars
  BY <1>1 DEF threadVars, IInv, Typed, OnRecord, InMemory, Running, Saves, Votes, Fresh, Mine, OnePerSlot
<1>2. CASE Crash
  BY <1>2, CrashKeeps
<1>3. ASSUME NEW t \in Threads,
             Begin(t) \/ Read(t) \/ WriteHigh(t) \/ WritePace(t) \/ WriteLock(t) \/ WriteRow(t)
                \/ PruneLog(t) \/ Keep(t) \/ Check(t) \/ WriteChoice(t) \/ Log(t)
      PROVE  IInv'
  BY <1>3, BeginKeeps, ReadKeeps, WriteHighKeeps, WritePaceKeeps, WriteLockKeeps, WriteRowKeeps,
     PruneLogKeeps, KeepKeeps, CheckKeeps, WriteChoiceKeeps, LogKeeps
<1>4. QED
  BY <1>1, <1>2, <1>3 DEF Next

\* However many threads a validator's handlers run in, and wherever a crash cuts
\* them off, it votes for one block in a slot, unless a write to the highest
\* certificate, to the row of runtime state or to a choice overtook another one
\* (core.py make_vote, observe_qc; store.py save_qc, prune_vote_log).
THEOREM ThreadsVoteOnce == CallsAssumption => (Spec => []VotesAgreeUnlessRaced)
<1> SUFFICES ASSUME CallsAssumption PROVE Spec => []VotesAgreeUnlessRaced
  OBVIOUS
<1>1. Init => IInv
  BY InitHolds
<1>2. IInv /\ [Next]_threadVars => IInv'
  BY NextKeeps
<1>3. IInv => VotesAgreeUnlessRaced
  BY DEF IInv, OnRecord, OnePerSlot, VotesAgreeUnlessRaced, VotesAgree
<1>4. QED
  BY <1>1, <1>2, <1>3, PTL DEF Spec

-----------------------------------------------------------------------------
(* The node manager *)

Processes == [mode : Node!V2Modes \cup {"local"}, parent : Node!Managers,
              st : {"starting", "up", "zombie", "gone"}]

\* A pid file names a process of its kind; a manager that waits for its daemon
\* has written the pid.
FilesNameProcesses ==
    /\ procs \in Seq(Processes)
    /\ v2pid \in DOMAIN procs \cup {None} /\ pidFile \in DOMAIN procs \cup {None}
    /\ v2pid # None => procs[v2pid].mode \in Node!V2Modes
    /\ pidFile # None => procs[pidFile].mode = "local"
    /\ waiting \in Node!Managers \cup {None}
    /\ waiting # None => v2pid # None

NodeInv == FilesNameProcesses /\ Node!DaemonsAreKnown

NodeAssumption == None \notin Nat /\ None \notin Node!Managers

\* What changes of the processes: some of them end, none begins.
Ending(ps) ==
    /\ ps \in Seq(Processes) /\ Len(ps) = Len(procs)
    /\ \A p \in DOMAIN procs : /\ ps[p].mode = procs[p].mode
                               /\ ps[p].st \in {"starting", "up"} => Node!Alive(p)

With(p, st) == [procs EXCEPT ![p].st = st]

LEMMA OneChanges ==
    ASSUME FilesNameProcesses, NEW p \in DOMAIN procs, NEW st \in {"starting", "up", "zombie", "gone"},
           NEW ps, ps = With(p, st)
    PROVE  /\ ps \in Seq(Processes) /\ Len(ps) = Len(procs) /\ DOMAIN ps = DOMAIN procs
           /\ ps[p].st = st
           /\ \A i \in DOMAIN procs : /\ ps[i].mode = procs[i].mode
                                      /\ i # p => ps[i].st = procs[i].st
<1>1. procs \in [1..Len(procs) -> Processes] /\ Len(procs) \in Nat /\ DOMAIN procs = 1..Len(procs)
  BY DEF FilesNameProcesses
<1>2. PICK r : r = procs[p] /\ r \in Processes
  BY <1>1
<1>3. PICK new : new = [r EXCEPT !.st = st]
  OBVIOUS
<1>4. new \in Processes /\ new.mode = r.mode /\ new.st = st
  BY <1>2, <1>3 DEF Processes
<1>5. ps = [procs EXCEPT ![p] = new]
  BY <1>1, <1>2, <1>3 DEF With
<1>6. ps \in [1..Len(procs) -> Processes]
  BY <1>1, <1>4, <1>5
<1>7. ps \in Seq(Processes) /\ Len(ps) = Len(procs) /\ DOMAIN ps = DOMAIN procs
  BY <1>1, <1>6
<1>8. QED
  BY <1>1, <1>2, <1>4, <1>5, <1>7

LEMMA OneEnds ==
    ASSUME FilesNameProcesses, NEW p \in DOMAIN procs, NEW st \in {"zombie", "gone"}
    PROVE  Ending(With(p, st)) /\ With(p, st)[p].st = st
<1>1. st \in {"starting", "up", "zombie", "gone"}
  OBVIOUS
<1>2. PICK ps : ps = With(p, st)
  OBVIOUS
<1>3. /\ ps \in Seq(Processes) /\ Len(ps) = Len(procs) /\ ps[p].st = st
      /\ \A i \in DOMAIN procs : ps[i].mode = procs[i].mode /\ (i # p => ps[i].st = procs[i].st)
  BY <1>1, <1>2, OneChanges
<1>4. QED
  BY <1>2, <1>3 DEF Ending, Node!Alive

LEMMA NoneEnds == FilesNameProcesses => Ending(procs)
BY DEF FilesNameProcesses, Ending, Node!Alive

LEMMA ReapedEnds ==
    ASSUME FilesNameProcesses, NEW m \in Node!Managers, NEW p \in DOMAIN procs \cup {None}
    PROVE  Ending(Node!Reaped(m, p))
<1>1. CASE Node!Reaped(m, p) = procs
  BY <1>1, NoneEnds
<1>2. CASE p \in DOMAIN procs /\ Node!Reaped(m, p) = With(p, "gone")
  BY <1>2, OneEnds
<1>3. QED
  BY <1>1, <1>2 DEF Node!Reaped, With

LEMMA KilledEnds ==
    ASSUME FilesNameProcesses, NEW m \in Node!Managers, NEW p \in DOMAIN procs
    PROVE  Ending(Node!Killed(m, p)) /\ Node!Killed(m, p)[p].st \in {"zombie", "gone"}
<1>1. PICK st : st = IF procs[p].st = "gone" \/ procs[p].parent = m THEN "gone"
                     ELSE IF procs[p].parent = "service" THEN "zombie" ELSE "gone"
  OBVIOUS
<1>2. st \in {"zombie", "gone"}
  BY <1>1
<1>3. procs \in [DOMAIN procs -> Processes]
  BY DEF FilesNameProcesses
<1>4. Node!Killed(m, p) = With(p, st)
  BY <1>1, <1>3 DEF Node!Killed, Processes, With
<1>5. QED
  BY <1>2, <1>4, OneEnds

\* Daemons end, and perhaps the V2 files go with a daemon that has ended.
LEMMA EndingKeeps ==
    ASSUME NodeAssumption, NodeInv, Ending(procs'), UNCHANGED <<pidFile, waiting>>
    PROVE  /\ UNCHANGED <<v2pid, v2state>> => NodeInv'
           /\ /\ v2pid' = None /\ v2state' = None /\ waiting = None
              /\ v2pid # None => procs'[v2pid].st \notin {"starting", "up"}
              => NodeInv'
<1>1. /\ DOMAIN procs' = DOMAIN procs /\ procs' \in Seq(Processes)
      /\ \A p \in DOMAIN procs : /\ procs'[p].mode = procs[p].mode
                                 /\ Node!Alive(p)' => Node!Alive(p)
  BY DEF NodeInv, FilesNameProcesses, Ending, Node!Alive
<1>2. \A p \in DOMAIN procs : Node!Alive(p) =>
          IF procs[p].mode = "local" THEN pidFile = p ELSE v2pid = p
  BY DEF NodeInv, Node!DaemonsAreKnown, Node!Pids
<1>3. ASSUME UNCHANGED <<v2pid, v2state>> PROVE NodeInv'
  <2>1. FilesNameProcesses'
    BY <1>1, <1>3 DEF NodeInv, FilesNameProcesses
  <2>2. Node!DaemonsAreKnown'
    BY <1>1, <1>2, <1>3 DEF NodeInv, Node!DaemonsAreKnown, Node!Pids
  <2>3. QED
    BY <2>1, <2>2 DEF NodeInv
<1>4. ASSUME v2pid' = None, v2state' = None, waiting = None,
             v2pid # None => procs'[v2pid].st \notin {"starting", "up"}
      PROVE  NodeInv'
  <2>1. FilesNameProcesses'
    BY <1>1, <1>4 DEF NodeInv, FilesNameProcesses
  <2>2. ASSUME NEW p \in DOMAIN procs, Node!Alive(p)' PROVE procs'[p].mode = "local" /\ pidFile' = p
    <3>1. procs'[p].st \in {"starting", "up"}
      BY <2>2 DEF Node!Alive
    <3>2. p # None
      BY DEF NodeAssumption, NodeInv, FilesNameProcesses
    <3>3. v2pid # p
      BY <1>4, <3>1, <3>2
    <3>4. QED
      BY <1>1, <1>2, <2>2, <3>3 DEF NodeInv, FilesNameProcesses
  <2>3. Node!DaemonsAreKnown'
    BY <1>1, <1>4, <2>2 DEF Node!DaemonsAreKnown, Node!Pids
  <2>4. QED
    BY <2>1, <2>3 DEF NodeInv
<1>5. QED
  BY <1>3, <1>4

\* A daemon begins where none of its kind runs, and its pid is written.
LEMMA BeginningKeeps ==
    ASSUME NodeAssumption, NodeInv, NEW m \in Node!Managers, NEW mode \in Node!V2Modes \cup {"local"},
           NEW ps, Ending(ps), Node!Spawn(m, mode, ps), waiting = None,
           waiting' \in Node!Managers \cup {None},
           IF mode = "local"
           THEN /\ ~\E p \in DOMAIN procs : ps[p].mode = "local" /\ ps[p].st \in {"starting", "up"}
                /\ pidFile' = Len(procs) + 1 /\ UNCHANGED <<v2pid, v2state, waiting>>
           ELSE /\ ~\E p \in DOMAIN procs : ps[p].mode # "local" /\ ps[p].st \in {"starting", "up"}
                /\ v2pid' = Len(procs) + 1 /\ v2state' = None /\ UNCHANGED pidFile
    PROVE  NodeInv'
<1>1. PICK new : new = [mode |-> mode, parent |-> m, st |-> "starting"]
  OBVIOUS
<1>2. procs' = Append(ps, new) /\ new \in Processes /\ new.mode = mode
  BY <1>1 DEF Node!Spawn, Processes
<1>3. ps \in Seq(Processes) /\ Len(ps) = Len(procs) /\ DOMAIN procs = 1..Len(procs) /\ Len(procs) \in Nat
  BY DEF Ending, NodeInv, FilesNameProcesses
<1>4. /\ procs' \in Seq(Processes) /\ DOMAIN procs' = 1..(Len(procs) + 1)
      /\ procs'[Len(procs) + 1] = new
      /\ \A p \in DOMAIN procs : procs'[p] = ps[p] /\ procs'[p].mode = procs[p].mode
  BY <1>2, <1>3 DEF Ending
<1>5. \A p \in DOMAIN procs' : p \in DOMAIN procs \/ p = Len(procs) + 1
  BY <1>3, <1>4
<1>6. \A p \in DOMAIN procs : ps[p].st \in {"starting", "up"} =>
          IF procs[p].mode = "local" THEN pidFile = p ELSE v2pid = p
  BY DEF NodeInv, Node!DaemonsAreKnown, Node!Pids, Ending
<1>7. "local" \notin Node!V2Modes
  BY DEF Node!V2Modes
<1>8. FilesNameProcesses'
  <2>1. DOMAIN procs \subseteq DOMAIN procs' /\ Len(procs) + 1 \in DOMAIN procs' /\ None \notin Node!Managers
    BY <1>3, <1>4 DEF NodeAssumption
  <2>2. v2pid' \in DOMAIN procs' \cup {None} /\ pidFile' \in DOMAIN procs' \cup {None}
    BY <2>1 DEF NodeInv, FilesNameProcesses
  <2>3. v2pid' # None => procs'[v2pid'].mode \in Node!V2Modes
    BY <1>2, <1>4 DEF NodeInv, FilesNameProcesses
  <2>4. pidFile' # None => procs'[pidFile'].mode = "local"
    BY <1>2, <1>4 DEF NodeInv, FilesNameProcesses
  <2>5. waiting' # None => v2pid' # None
    BY <1>3 DEF NodeInv, FilesNameProcesses, NodeAssumption
  <2>6. QED
    BY <1>4, <2>2, <2>3, <2>4, <2>5 DEF FilesNameProcesses
<1>9. ASSUME NEW p \in DOMAIN procs', Node!Alive(p)'
      PROVE  IF procs'[p].mode = "local" THEN pidFile' = p ELSE v2pid' = p
  <2>1. procs'[p].st \in {"starting", "up"}
    BY <1>9 DEF Node!Alive
  <2>2. CASE p = Len(procs) + 1
    BY <1>2, <1>4, <1>7, <2>2
  <2>3. CASE p \in DOMAIN procs
    BY <1>4, <1>6, <2>1, <2>3 DEF Ending
  <2>4. QED
    BY <1>5, <2>2, <2>3
<1>10. v2state' # None => v2pid' = v2state'.pid
  BY DEF NodeInv, Node!DaemonsAreKnown
<1>11. QED
  BY <1>8, <1>9, <1>10 DEF NodeInv, Node!DaemonsAreKnown, Node!Pids

LEMMA NodeStarts ==
    ASSUME NodeAssumption, NodeInv, NEW m \in Node!Managers
    PROVE  /\ \A mode \in Node!V2Modes : Node!StartV2(m, mode) => NodeInv'
           /\ Node!StartLocal(m) => NodeInv'
<1> USE DEF Node!Pids
<1>0. /\ v2pid \in DOMAIN procs \cup {None} /\ pidFile \in DOMAIN procs \cup {None}
      /\ None \notin DOMAIN procs /\ "local" \notin Node!V2Modes
      /\ procs \in Seq(Processes) /\ DOMAIN procs = 1..Len(procs)
      /\ \A p \in DOMAIN procs : procs[p].mode \in Node!V2Modes \cup {"local"}
  <2>1. procs \in Seq(Processes) /\ DOMAIN procs = 1..Len(procs) /\ \A p \in DOMAIN procs : procs[p] \in Processes
    BY DEF NodeInv, FilesNameProcesses
  <2>2. \A p \in DOMAIN procs : procs[p].mode \in Node!V2Modes \cup {"local"}
    BY <2>1 DEF Processes
  <2>3. "local" \notin Node!V2Modes
    BY DEF Node!V2Modes
  <2>4. None \notin DOMAIN procs
    BY <2>1 DEF NodeAssumption
  <2>5. QED
    BY <2>1, <2>2, <2>3, <2>4 DEF NodeInv, FilesNameProcesses
<1>1. \A p \in DOMAIN procs \cup {None} : Ending(Node!Reaped(m, p))
  BY ReapedEnds DEF NodeInv
<1>2. \A p \in DOMAIN procs : Node!Alive(p) => IF procs[p].mode = "local" THEN pidFile = p ELSE v2pid = p
  BY DEF NodeInv, Node!DaemonsAreKnown
<1>3. ASSUME NEW mode \in Node!V2Modes, Node!StartV2(m, mode) PROVE NodeInv'
  <2>1. CASE Node!IsRunning(m, v2pid)
    <3>1. UNCHANGED <<procs, v2pid, v2state, pidFile, waiting>>
      BY <1>3, <2>1 DEF Node!StartV2
    <3>2. QED
      BY <3>1 DEF NodeInv, FilesNameProcesses, Node!DaemonsAreKnown, Node!Alive
  <2>2. CASE ~Node!IsRunning(m, v2pid)
    <3>1. PICK ps : ps = Node!Reaped(m, v2pid)
      OBVIOUS
    <3>2. /\ Node!Spawn(m, mode, ps) /\ v2pid' = Len(procs) + 1 /\ v2state' = None /\ waiting' = m
          /\ waiting = None /\ UNCHANGED pidFile
      BY <1>3, <2>2, <3>1 DEF Node!StartV2
    <3>3. Ending(ps)
      BY <1>0, <1>1, <3>1
    <3>4. ~\E p \in DOMAIN procs : ps[p].mode # "local" /\ ps[p].st \in {"starting", "up"}
      BY <1>0, <1>2, <2>2, <3>3 DEF Ending, Node!IsRunning
    <3>5. mode # "local"
      BY <1>0
    <3>6. QED
      BY <3>2, <3>3, <3>4, <3>5, BeginningKeeps
  <2>3. QED
    BY <2>1, <2>2
<1>4. ASSUME Node!StartLocal(m) PROVE NodeInv'
  <2>1. CASE Node!IsRunning(m, pidFile)
    <3>1. UNCHANGED <<procs, v2pid, v2state, pidFile, waiting>>
      BY <1>4, <2>1 DEF Node!StartLocal
    <3>2. QED
      BY <3>1 DEF NodeInv, FilesNameProcesses, Node!DaemonsAreKnown, Node!Alive
  <2>2. CASE ~Node!IsRunning(m, pidFile)
    <3>1. PICK ps : ps = Node!Reaped(m, pidFile)
      OBVIOUS
    <3>2. /\ Node!Spawn(m, "local", ps) /\ pidFile' = Len(procs) + 1
          /\ waiting = None /\ UNCHANGED <<v2pid, v2state, waiting>>
      BY <1>4, <2>2, <3>1 DEF Node!StartLocal
    <3>3. Ending(ps)
      BY <1>0, <1>1, <3>1
    <3>4. ~\E p \in DOMAIN procs : ps[p].mode = "local" /\ ps[p].st \in {"starting", "up"}
      BY <1>0, <1>2, <2>2, <3>3 DEF Ending, Node!IsRunning
    <3>5. waiting' \in Node!Managers \cup {None}
      BY <3>2
    <3>6. QED
      BY <3>2, <3>3, <3>4, <3>5, BeginningKeeps
  <2>3. QED
    BY <2>1, <2>2
<1>5. QED
  BY <1>3, <1>4

LEMMA NodeNext ==
    ASSUME NodeAssumption, NodeInv, [Node!Next]_(Node!vars)
    PROVE  NodeInv'
<1>0. /\ v2pid \in DOMAIN procs \cup {None} /\ pidFile \in DOMAIN procs \cup {None}
      /\ None \notin DOMAIN procs /\ procs \in Seq(Processes) /\ DOMAIN procs = 1..Len(procs)
      /\ FilesNameProcesses /\ Len(procs) \in Nat
  BY DEF NodeInv, FilesNameProcesses, NodeAssumption
<1>1. Ending(procs)
  BY <1>0 DEF Ending, Node!Alive
<1>2. CASE UNCHANGED Node!vars
  BY <1>2 DEF Node!vars, NodeInv, FilesNameProcesses, Node!DaemonsAreKnown, Node!Pids, Node!Alive
<1>3. ASSUME NEW m \in Node!Managers,
             \/ Node!StartExternal(m) \/ Node!RefuseAccount(m)
             \/ Node!StopExternal(m) \/ Node!StatusOther(m)
      PROVE  NodeInv'
  <2>1. /\ UNCHANGED <<v2pid, v2state, pidFile, waiting>>
        /\ procs' \in {procs, Node!Reaped(m, v2pid), Node!Reaped(m, pidFile)}
    BY <1>3 DEF Node!StartExternal, Node!RefuseAccount, Node!StopExternal, Node!StatusOther, Node!files
  <2>2. QED
    BY <1>0, <1>1, <2>1, ReapedEnds, EndingKeeps
<1>4. ASSUME NEW m \in Node!Managers, Node!Started(m) PROVE NodeInv'
  <2>1. v2pid \in DOMAIN procs /\ UNCHANGED <<v2pid, v2state, pidFile>> /\ waiting' = None
    BY <1>0, <1>4 DEF Node!Started, Node!files, FilesNameProcesses, NodeAssumption
  <2>2. Ending(procs')
    <3>1. procs \in [DOMAIN procs -> Processes]
      BY <1>0
    <3>2. procs' = IF m = "service" THEN procs
                   ELSE [procs EXCEPT ![v2pid].st = IF @ = "zombie" THEN "gone" ELSE @]
      BY <1>4 DEF Node!Started
    <3>3. [procs EXCEPT ![v2pid].st = procs[v2pid].st] = procs
      BY <2>1, <3>1 DEF Processes
    <3>4. procs' = procs \/ procs' = With(v2pid, "gone")
      BY <3>2, <3>3 DEF With
    <3>5. QED
      BY <1>0, <1>1, <2>1, <3>4, OneEnds
  <2>5. FilesNameProcesses' /\ Node!DaemonsAreKnown'
    <3>1. Ending(procs')
      BY <2>2
    <3>2. /\ DOMAIN procs' = DOMAIN procs /\ procs' \in Seq(Processes)
          /\ \A p \in DOMAIN procs : /\ procs'[p].mode = procs[p].mode
                                     /\ Node!Alive(p)' => Node!Alive(p)
      BY <1>0, <3>1 DEF Ending, Node!Alive
    <3>3. QED
      BY <2>1, <3>2 DEF NodeInv, FilesNameProcesses, Node!DaemonsAreKnown, Node!Pids
  <2>6. QED
    BY <2>5 DEF NodeInv
<1>5. ASSUME NEW m \in Node!Managers, Node!FailedToStart(m) PROVE NodeInv'
  <2>1. /\ procs' = Node!Reaped(m, v2pid) /\ v2pid' = None /\ v2state' = None /\ UNCHANGED pidFile
        /\ waiting' = None /\ ~Node!Alive(v2pid) /\ v2pid \in DOMAIN procs
    BY <1>0, <1>5 DEF Node!FailedToStart, FilesNameProcesses, NodeAssumption
  <2>2. Ending(procs')
    BY <1>0, <1>5, <2>1, ReapedEnds
  <2>3. /\ DOMAIN procs' = DOMAIN procs /\ procs' \in Seq(Processes)
        /\ \A p \in DOMAIN procs : /\ procs'[p].mode = procs[p].mode
                                   /\ Node!Alive(p)' => Node!Alive(p)
    BY <1>0, <2>2 DEF Ending, Node!Alive
  <2>4. FilesNameProcesses'
    BY <2>1, <2>3 DEF NodeInv, FilesNameProcesses
  <2>5. ASSUME NEW p \in DOMAIN procs, Node!Alive(p)' PROVE procs'[p].mode = "local" /\ pidFile' = p
    BY <2>1, <2>3, <2>5 DEF NodeInv, Node!DaemonsAreKnown, Node!Pids
  <2>6. Node!DaemonsAreKnown'
    BY <2>1, <2>3, <2>5 DEF Node!DaemonsAreKnown, Node!Pids
  <2>7. QED
    BY <2>4, <2>6 DEF NodeInv
<1>6. ASSUME NEW m \in Node!Managers, Node!StopV2(m) PROVE NodeInv'
  <2>1. /\ v2pid \in DOMAIN procs /\ procs' = Node!Killed(m, v2pid) /\ v2pid' = None /\ v2state' = None
        /\ UNCHANGED <<pidFile, waiting>> /\ waiting = None
    BY <1>0, <1>6 DEF Node!StopV2
  <2>2. Ending(procs') /\ procs'[v2pid].st \in {"zombie", "gone"}
    BY <1>0, <2>1, KilledEnds
  <2>3. procs'[v2pid].st \notin {"starting", "up"}
    BY <2>2
  <2>4. QED
    BY <2>1, <2>2, <2>3, EndingKeeps
<1>7. ASSUME NEW m \in Node!Managers, Node!StatusV2(m) PROVE NodeInv'
  <2>1. /\ v2pid \in DOMAIN procs /\ procs' = Node!Reaped(m, v2pid)
        /\ UNCHANGED <<pidFile, waiting>> /\ waiting = None
        /\ \/ UNCHANGED <<v2pid, v2state>>
           \/ ~Node!IsRunning(m, v2pid) /\ v2pid' = None /\ v2state' = None
    BY <1>0, <1>7 DEF Node!StatusV2
  <2>2. Ending(procs')
    BY <1>0, <2>1, ReapedEnds
  <2>3. CASE UNCHANGED <<v2pid, v2state>>
    BY <2>1, <2>2, <2>3, EndingKeeps
  <2>4. CASE ~Node!IsRunning(m, v2pid) /\ v2pid' = None /\ v2state' = None
    <3>1. procs'[v2pid].st \notin {"starting", "up"}
      BY <1>0, <2>1, <2>2, <2>4 DEF Ending, Node!IsRunning
    <3>2. QED
      BY <2>1, <2>2, <2>4, <3>1, EndingKeeps
  <2>5. QED
    BY <2>1, <2>3, <2>4
<1>8. ASSUME NEW m \in Node!Managers, Node!StopLocal(m) PROVE NodeInv'
  <2>1. /\ pidFile' = None /\ UNCHANGED <<v2pid, v2state, waiting>>
        /\ \/ Node!IsRunning(m, pidFile) /\ procs' = Node!Killed(m, pidFile)
           \/ ~Node!IsRunning(m, pidFile) /\ procs' = Node!Reaped(m, pidFile)
    BY <1>8 DEF Node!StopLocal
  <2>2. Ending(procs') /\ (pidFile # None => procs'[pidFile].st \notin {"starting", "up"})
    <3>1. CASE Node!IsRunning(m, pidFile) /\ procs' = Node!Killed(m, pidFile)
      <4>1. pidFile \in DOMAIN procs
        BY <1>0, <3>1 DEF Node!IsRunning
      <4>2. Ending(procs') /\ procs'[pidFile].st \in {"zombie", "gone"}
        BY <1>0, <3>1, <4>1, KilledEnds
      <4>3. QED
        BY <4>2
    <3>2. CASE ~Node!IsRunning(m, pidFile) /\ procs' = Node!Reaped(m, pidFile)
      <4>1. Ending(procs')
        BY <1>0, <3>2, ReapedEnds
      <4>2. QED
        BY <1>0, <3>2, <4>1 DEF Ending, Node!IsRunning
    <3>3. QED
      BY <2>1, <3>1, <3>2
  <2>3. /\ DOMAIN procs' = DOMAIN procs /\ procs' \in Seq(Processes)
        /\ \A p \in DOMAIN procs : /\ procs'[p].mode = procs[p].mode
                                   /\ Node!Alive(p)' => Node!Alive(p) /\ p # pidFile
    BY <1>0, <2>2 DEF Ending, Node!Alive
  <2>4. FilesNameProcesses'
    BY <2>1, <2>3 DEF NodeInv, FilesNameProcesses
  <2>5. Node!DaemonsAreKnown'
    BY <2>1, <2>3 DEF NodeInv, Node!DaemonsAreKnown, Node!Pids
  <2>6. QED
    BY <2>4, <2>5 DEF NodeInv
<1>9. CASE Node!AccountStatus
  BY <1>0, <1>1, <1>9, EndingKeeps DEF Node!AccountStatus, Node!files
<1>10. CASE Node!NewService
  <2>1. /\ UNCHANGED <<v2pid, v2state, pidFile, waiting>>
        /\ procs' = [p \in DOMAIN procs |-> [procs[p] EXCEPT !.parent = "cli",
                                                 !.st = IF @ = "zombie" THEN "gone" ELSE @]]
    BY <1>10 DEF Node!NewService, Node!files, Node!Pids
  <2>2. \A r \in Processes :
           LET x == [r EXCEPT !.parent = "cli", !.st = IF @ = "zombie" THEN "gone" ELSE @] IN
           x \in Processes /\ x.mode = r.mode /\ (x.st = r.st \/ x.st = "gone")
    BY DEF Processes, Node!Managers
  <2>3. ASSUME NEW p \in DOMAIN procs
        PROVE  /\ procs'[p] \in Processes /\ procs'[p].mode = procs[p].mode
               /\ procs'[p].st = procs[p].st \/ procs'[p].st = "gone"
    <3>1. PICK r : r = procs[p] /\ r \in Processes
      BY <1>0
    <3>2. procs'[p] = [r EXCEPT !.parent = "cli", !.st = IF @ = "zombie" THEN "gone" ELSE @]
      BY <2>1, <3>1
    <3>3. QED
      BY <2>2, <3>1, <3>2
  <2>4. procs' \in Seq(Processes) /\ Len(procs') = Len(procs)
    <3>1. procs' \in [1..Len(procs) -> Processes]
      <4>1. procs' = [p \in 1..Len(procs) |-> procs'[p]]
        BY <1>0, <2>1
      <4>2. QED
        BY <1>0, <2>3, <4>1
    <3>2. QED
      BY <1>0, <3>1
  <2>5. \A p \in DOMAIN procs : procs'[p].mode = procs[p].mode /\ (procs'[p].st = procs[p].st \/ procs'[p].st = "gone")
    BY <2>3
  <2>6. Ending(procs')
    BY <1>0, <2>4, <2>5 DEF Ending, Node!Alive
  <2>7. QED
    BY <2>1, <2>6, EndingKeeps
<1>11. ASSUME NEW p \in DOMAIN procs, Node!Beat(p) PROVE NodeInv'
  <2>1. /\ procs[p].mode \in Node!V2Modes /\ Node!Alive(p) /\ UNCHANGED <<v2pid, pidFile, waiting>>
        /\ procs' = With(p, "up") /\ v2state' = [pid |-> p, mode |-> procs[p].mode]
    BY <1>11 DEF Node!Beat, With
  <2>4. /\ procs' \in Seq(Processes) /\ DOMAIN procs' = DOMAIN procs
        /\ \A i \in DOMAIN procs : /\ procs'[i].mode = procs[i].mode
                                   /\ i # p => procs'[i].st = procs[i].st
    BY <1>0, <2>1, OneChanges
  <2>5. \A i \in DOMAIN procs : /\ procs'[i].mode = procs[i].mode
                                /\ procs'[i].st = procs[i].st \/ i = p
    BY <2>4
  <2>6. \A i \in DOMAIN procs : Node!Alive(i)' => Node!Alive(i)
    BY <2>1, <2>5 DEF Node!Alive
  <2>7. v2pid = p
    BY <2>1 DEF NodeInv, Node!DaemonsAreKnown, Node!Pids, Node!V2Modes
  <2>8. FilesNameProcesses'
    BY <2>1, <2>4, <2>5 DEF NodeInv, FilesNameProcesses
  <2>9. Node!DaemonsAreKnown'
    BY <2>1, <2>4, <2>5, <2>6, <2>7 DEF NodeInv, Node!DaemonsAreKnown, Node!Pids
  <2>10. QED
    BY <2>8, <2>9 DEF NodeInv
<1>12. ASSUME NEW p \in DOMAIN procs, Node!Die(p) PROVE NodeInv'
  <2>1. UNCHANGED <<v2pid, v2state, pidFile, waiting>>
    BY <1>12 DEF Node!Die, Node!files
  <2>2. PICK st : /\ st \in {"zombie", "gone"} /\ procs' = With(p, st)
    BY <1>12 DEF Node!Die, With
  <2>7. Ending(procs')
    BY <1>0, <2>2, OneEnds
  <2>8. QED
    BY <2>1, <2>7, EndingKeeps
<1>13. QED
  BY <1>2, <1>3, <1>4, <1>5, <1>6, <1>7, <1>8, <1>9, <1>10, <1>11, <1>12, NodeStarts DEF Node!Next, Node!Pids

\* Whatever managers start, stop and ask, and whenever daemons write or die, a
\* daemon that runs is in the pid file of its kind, and the state file is of the
\* daemon in the pid file (node_manager.py start, stop, status).
THEOREM DaemonsKnown == NodeAssumption => (Node!Spec => []DaemonsAreKnown)
<1> SUFFICES ASSUME NodeAssumption PROVE Node!Spec => []DaemonsAreKnown
  OBVIOUS
<1>1. Node!Init => NodeInv
  BY DEF Node!Init, NodeInv, FilesNameProcesses, Node!DaemonsAreKnown, Node!Pids
<1>2. NodeInv /\ [Node!Next]_(Node!vars) => NodeInv'
  BY NodeNext
<1>3. NodeInv => Node!DaemonsAreKnown
  BY DEF NodeInv
<1>4. QED
  BY <1>1, <1>2, <1>3, PTL DEF Node!Spec, DaemonsAreKnown

-----------------------------------------------------------------------------
(* The router *)

RouterAssumption == Window \in Int /\ Skews \subseteq Int /\ Retries \in Nat

\* A message that was not sent was not handled, and as long as the clock has not
\* been set back, a message that was handled is remembered or has expired.
HandledIsKnown ==
    /\ sent \in [Msgs -> Nat] /\ age \in [Msgs -> Int] /\ wire \in [Msgs -> Nat]
    /\ handled \in [Msgs -> Nat] /\ stepped \in Nat
    /\ \A m \in Msgs : sent[m] = 0 => wire[m] = 0 /\ handled[m] = 0
    /\ stepped = 0 => \A m \in Msgs : handled[m] > 0 => m \in seen \/ age[m] > Window

LEMMA RouteDeliver ==
    ASSUME RouterAssumption, HandledIsKnown, NEW m \in Msgs, Route!Deliver(m)
    PROVE  /\ HandledIsKnown'
           /\ stepped = 0 /\ handled'[m] > handled[m] => handled[m] = 0
           /\ \A n \in Msgs \ {m} : handled'[n] = handled[n]
<1>1. /\ wire[m] > 0 /\ wire' = [wire EXCEPT ![m] = wire[m] - 1]
      /\ UNCHANGED <<sent, age, stepped>>
  BY DEF Route!Deliver
<1>2. sent[m] # 0 /\ wire'\in [Msgs -> Nat] /\ \A n \in Msgs : sent[n] = 0 => wire'[n] = 0
  BY <1>1 DEF HandledIsKnown
<1>3. \A n \in Msgs : n \in seen => n \in Route!Evicted(seen) \/ age[n] > Window
  BY DEF Route!Evicted, HandledIsKnown, RouterAssumption
<1>4. CASE Route!Refused(m)
  BY <1>1, <1>2, <1>3, <1>4 DEF Route!Deliver, HandledIsKnown
<1>5. CASE ~Route!Refused(m)
  <2>1. seen' = Route!Evicted(seen) \cup {m} /\ handled' = [handled EXCEPT ![m] = handled[m] + 1]
    BY <1>5 DEF Route!Deliver
  <2>2. m \notin Route!Evicted(seen) /\ ~(age[m] > Window)
    BY <1>5 DEF Route!Refused
  <2>3. stepped = 0 => ~(handled[m] > 0)
    BY <1>3, <2>2 DEF HandledIsKnown
  <2>4. stepped = 0 => handled[m] = 0
    BY <2>3 DEF HandledIsKnown
  <2>5. handled' \in [Msgs -> Nat] /\ \A n \in Msgs \ {m} : handled'[n] = handled[n]
    BY <2>1 DEF HandledIsKnown
  <2>6. \A n \in Msgs : sent[n] = 0 => handled'[n] = 0
    BY <1>2, <2>5 DEF HandledIsKnown
  <2>7. stepped = 0 => \A n \in Msgs : handled'[n] > 0 => n \in seen' \/ age[n] > Window
    BY <1>3, <2>1, <2>5 DEF HandledIsKnown
  <2>8. QED
    BY <1>1, <1>2, <2>4, <2>5, <2>6, <2>7 DEF HandledIsKnown
<1>6. QED
  BY <1>4, <1>5

LEMMA RouteNext ==
    ASSUME RouterAssumption, HandledIsKnown, [Route!Next]_(Route!routerVars)
    PROVE  /\ HandledIsKnown'
           /\ \A m \in Msgs : stepped = 0 /\ handled'[m] > handled[m] => handled[m] = 0
<1>0. /\ sent \in [Msgs -> Nat] /\ age \in [Msgs -> Int] /\ wire \in [Msgs -> Nat]
      /\ handled \in [Msgs -> Nat] /\ stepped \in Nat
  BY DEF HandledIsKnown
<1>1. CASE UNCHANGED Route!routerVars
  BY <1>0, <1>1 DEF Route!routerVars, HandledIsKnown
<1>2. ASSUME NEW m \in Msgs, Route!Encode(m) PROVE HandledIsKnown' /\ UNCHANGED handled
  <2>1. PICK k \in Skews : age' = [age EXCEPT ![m] = -k]
    BY <1>2 DEF Route!Encode
  <2>2. sent[m] = 0 /\ sent' = [sent EXCEPT ![m] = 1] /\ UNCHANGED <<wire, seen, handled, stepped>>
    BY <1>2 DEF Route!Encode, Route!Unsent
  <2>3. k \in Int
    BY DEF RouterAssumption
  <2>4. age' \in [Msgs -> Int] /\ sent' \in [Msgs -> Nat]
    BY <1>0, <2>1, <2>2, <2>3
  <2>5. handled[m] = 0
    BY <2>2 DEF HandledIsKnown
  <2>6. \A n \in Msgs : n # m => age'[n] = age[n] /\ sent'[n] = sent[n]
    BY <1>0, <2>1, <2>2
  <2>7. sent'[m] # 0
    BY <1>0, <2>2
  <2>8. QED
    BY <2>2, <2>4, <2>5, <2>6, <2>7 DEF HandledIsKnown
<1>3. ASSUME NEW m \in Msgs, Route!Attempt(m) PROVE HandledIsKnown' /\ UNCHANGED handled
  <2>1. PICK copies \in 0..2 :
          /\ wire' = [wire EXCEPT ![m] = wire[m] + copies]
          /\ sent' = [sent EXCEPT ![m] = sent[m] + 1] \/ sent' = [sent EXCEPT ![m] = Retries + 2]
    BY <1>3 DEF Route!Attempt, Route!Done
  <2>2. sent[m] # 0 /\ UNCHANGED <<age, seen, handled, stepped>>
    BY <1>3 DEF Route!Attempt
  <2>3. sent' \in [Msgs -> Nat] /\ wire' \in [Msgs -> Nat] /\ sent'[m] # 0
    BY <1>0, <2>1 DEF RouterAssumption
  <2>4. \A n \in Msgs : n # m => wire'[n] = wire[n] /\ sent'[n] = sent[n]
    BY <1>0, <2>1
  <2>5. QED
    BY <2>2, <2>3, <2>4 DEF HandledIsKnown
<1>4. ASSUME NEW m \in Msgs, Route!Deliver(m)
      PROVE  /\ HandledIsKnown'
             /\ \A n \in Msgs : stepped = 0 /\ handled'[n] > handled[n] => handled[n] = 0
  <2>1. /\ HandledIsKnown'
        /\ stepped = 0 /\ handled'[m] > handled[m] => handled[m] = 0
        /\ \A n \in Msgs \ {m} : handled'[n] = handled[n]
    BY <1>4, RouteDeliver
  <2>2. \A n \in Msgs : n # m => ~(handled'[n] > handled[n])
    BY <1>0, <2>1
  <2>3. QED
    BY <2>1, <2>2
<1>5. ASSUME NEW s \in Seeds, Route!Heard(s) \/ Route!Change(s)
      PROVE  HandledIsKnown' /\ UNCHANGED handled
  BY <1>5 DEF Route!Heard, Route!Change, HandledIsKnown
<1>6. CASE Route!Maintain
  <2>1. seen' = Route!Evicted(seen) /\ UNCHANGED <<sent, age, wire, handled, stepped>>
    BY <1>6 DEF Route!Maintain
  <2>2. QED
    BY <1>0, <2>1 DEF HandledIsKnown, Route!Evicted, RouterAssumption
<1>7. CASE Route!Restart
  <2>1. handled' = [m \in Msgs |-> 0] /\ UNCHANGED <<sent, age, wire, stepped>>
    BY <1>7 DEF Route!Restart
  <2>2. handled' \in [Msgs -> Nat] /\ \A m \in Msgs : handled'[m] = 0
    BY <2>1
  <2>3. \A m \in Msgs : ~(handled'[m] > handled[m]) /\ ~(handled'[m] > 0)
    BY <1>0, <2>2
  <2>4. QED
    BY <2>1, <2>2, <2>3 DEF HandledIsKnown
<1>8. CASE Route!Tick
  <2>1. /\ age' = [m \in Msgs |-> IF sent[m] = 0 THEN 0 ELSE Route!Shorter(age[m] + 1, Window + 1)]
        /\ UNCHANGED <<sent, wire, seen, handled, stepped>>
    BY <1>8 DEF Route!Tick, Route!Unsent
  <2>2. age' \in [Msgs -> Int]
    BY <1>0, <2>1 DEF Route!Shorter, RouterAssumption
  <2>3. \A m \in Msgs : sent[m] # 0 /\ age[m] > Window => age'[m] > Window
    BY <1>0, <2>1 DEF Route!Shorter, RouterAssumption
  <2>4. \A m \in Msgs : handled[m] > 0 => sent[m] # 0
    BY DEF HandledIsKnown
  <2>5. QED
    BY <1>0, <2>1, <2>2, <2>3, <2>4 DEF HandledIsKnown
<1>9. CASE Route!StepBack
  <2>1. /\ age' = [m \in Msgs |-> IF sent[m] = 0 THEN 0 ELSE age[m] - 1] /\ stepped' = stepped + 1
        /\ UNCHANGED <<sent, wire, seen, handled>>
    BY <1>9 DEF Route!StepBack, Route!Unsent
  <2>2. age' \in [Msgs -> Int] /\ stepped' \in Nat /\ stepped' # 0
    BY <1>0, <2>1
  <2>3. QED
    BY <1>0, <2>1, <2>2 DEF HandledIsKnown
<1>10. UNCHANGED handled => \A m \in Msgs : ~(handled'[m] > handled[m])
  BY <1>0
<1>11. CASE Route!Maintain \/ Route!Tick \/ Route!StepBack
  BY <1>6, <1>8, <1>9, <1>10, <1>11 DEF Route!Maintain, Route!Tick, Route!StepBack
<1>12. \A m \in Msgs : Route!Restart => ~(handled'[m] > handled[m])
  BY <1>0 DEF Route!Restart
<1>13. QED
  BY <1>1, <1>2, <1>3, <1>4, <1>5, <1>7, <1>10, <1>11, <1>12 DEF Route!Next, Route!routerVars

\* As long as the clock is not set back, a router handles a message at most once
\* between two restarts, however often and late its copies arrive
\* (_is_replay_or_duplicate, _evict_old_msg_ids).
THEOREM MessagesHandledOnce == RouterAssumption => (Route!Spec => HandledOnceUnlessStepped)
<1> SUFFICES ASSUME RouterAssumption PROVE Route!Spec => HandledOnceUnlessStepped
  OBVIOUS
<1>1. Route!Init => HandledIsKnown
  BY DEF Route!Init, HandledIsKnown, Route!Unsent
<1>2. HandledIsKnown /\ [Route!Next]_(Route!routerVars) => HandledIsKnown'
  BY RouteNext
<1>3. HandledIsKnown /\ [Route!Next]_(Route!routerVars) =>
        [\A m \in Msgs : stepped = 0 /\ handled'[m] > handled[m] => handled[m] = 0]_(Route!routerVars)
  BY RouteNext
<1>4. QED
  BY <1>1, <1>2, <1>3, PTL DEF Route!Spec, HandledOnceUnlessStepped, Route!HandledOnceUnlessStepped

-----------------------------------------------------------------------------
(* The local application *)

AppAssumption == ~TornWrites /\ None \notin Ids

\* Where a thread of a payment can be after it entered.
Paying == {"check", "produce", "confirm", "queue", "save", "read", "write"}
PCs == Paying \cup {"idle", "enter", "open", "sync", "inbox", "mark", "claim", "readEvent",
                    "writeEvent", "record", "allocate"}

Lines == Ids \cup Incoming \cup {None}
ThreadStates == [pc : PCs, id : Ids \cup {None}, unit : Nat \cup {None}, pkg : Lines,
                 seen : SUBSET Lines, events : SUBSET Lines]

Minted == {minted[i] : i \in DOMAIN minted}

\* The state of a thread, which holds a session, the lock of the ids, or neither.
Session(y) == y.pc \in {"sync", "inbox", "mark", "claim", "readEvent", "writeEvent",
                        "record", "allocate", "check", "produce", "confirm", "queue"}
Entered(y) == y.id # None /\ (Session(y) \/ y.pc \in {"open", "save"})

\* An id that is being paid is not on file, one that was paid is; the unit a
\* faucet call has taken is below the cursor and not minted yet.
Books(y) ==
    /\ y.pc \in Paying \cup {"enter"} => y.id # None
    /\ Entered(y) => y.id \notin ids
    /\ y.pc \in {"read", "write"} => y.id \in ids
    /\ y.pc = "record" => y.unit \in Nat /\ y.unit < cursor /\ y.unit \notin Minted
    /\ y.pc = "allocate" => y.unit \in Minted
    /\ y.pc \in {"produce", "confirm"} => pending.id = y.id /\ pending.unit \in Minted

AppTypes ==
    /\ tasks \in [Threads -> ThreadStates]
    /\ cursor \in Nat /\ minted \in Seq(Nat) /\ history \subseteq Lines

Units ==
    /\ \A i \in DOMAIN minted : minted[i] < cursor
    /\ App!MintsDisjoint
    /\ pending # None => pending.unit \in Minted
    /\ answered \subseteq ids

\* One session at a time, and one holder of the lock of the ids.
Alone ==
    \A g, h \in Threads :
        \/ Session(tasks[g]) /\ Session(tasks[h])
        \/ Entered(tasks[g]) /\ Entered(tasks[h])
        => g = h

AppInv == AppTypes /\ Units /\ Alone /\ \A h \in Threads : Books(tasks[h])

\* One thread moves, and the others stay.
Moves(h, y) == tasks' = [tasks EXCEPT ![h] = y]

\* A step of a thread that leaves the books as they are: it takes no lock that
\* another one has.
LEMMA TaskMoves ==
    ASSUME AppInv, NEW h \in Threads, NEW y \in ThreadStates, Moves(h, y)
    PROVE  /\ tasks' \in [Threads -> ThreadStates] /\ tasks'[h] = y
           /\ \A g \in Threads : g # h => tasks'[g] = tasks[g]
           /\ /\ Session(y) => \/ Session(tasks[h])
                               \/ \A g \in Threads : ~Session(tasks[g])
              /\ Entered(y) => \/ Entered(tasks[h])
                               \/ \A g \in Threads : ~Entered(tasks[g])
              => Alone'
<1>1. tasks \in [Threads -> ThreadStates]
  BY DEF AppInv, AppTypes
<1>2. tasks' \in [Threads -> ThreadStates] /\ tasks'[h] = y /\ \A g \in Threads : g # h => tasks'[g] = tasks[g]
  BY <1>1 DEF Moves
<1>3. ASSUME Session(y) => \/ Session(tasks[h])
                           \/ \A g \in Threads : ~Session(tasks[g]),
             Entered(y) => \/ Entered(tasks[h])
                           \/ \A g \in Threads : ~Entered(tasks[g]),
             NEW g \in Threads, NEW k \in Threads,
             \/ Session(tasks'[g]) /\ Session(tasks'[k])
             \/ Entered(tasks'[g]) /\ Entered(tasks'[k])
      PROVE  g = k
  <2>1. \A a, b \in Threads : \/ Session(tasks[a]) /\ Session(tasks[b])
                              \/ Entered(tasks[a]) /\ Entered(tasks[b])
                              => a = b
    BY DEF AppInv, Alone
  <2>2. CASE g # h /\ k # h
    BY <1>2, <1>3, <2>1, <2>2
  <2>3. CASE g = h /\ k # h
    BY <1>2, <1>3, <2>1, <2>3
  <2>4. CASE g # h /\ k = h
    BY <1>2, <1>3, <2>1, <2>4
  <2>5. QED
    BY <2>2, <2>3, <2>4
<1>4. QED
  BY <1>2, <1>3 DEF Alone, Session, Entered

\* The state of a thread after a step, by what the step changes of it.
LEMMA GoesTo ==
    ASSUME AppInv, NEW h \in Threads, NEW pc \in PCs, App!GoTo(h, pc)
    PROVE  \E y \in ThreadStates : /\ Moves(h, y) /\ y.pc = pc
                                   /\ y.id = tasks[h].id /\ y.unit = tasks[h].unit
<1>1. tasks \in [Threads -> ThreadStates]
  BY DEF AppInv, AppTypes
<1>2. PICK r \in ThreadStates : r = tasks[h]
  BY <1>1
<1>3. PICK y : y = [r EXCEPT !.pc = pc]
  OBVIOUS
<1>4. y \in ThreadStates /\ y.pc = pc /\ y.id = r.id /\ y.unit = r.unit
  BY <1>2, <1>3 DEF ThreadStates
<1>5. tasks' = [tasks EXCEPT ![h] = y]
  BY <1>1, <1>2, <1>3 DEF App!GoTo
<1>6. QED
  BY <1>2, <1>4, <1>5 DEF Moves

Takes(h, pc, u) == tasks' = [tasks EXCEPT ![h].pc = pc, ![h].unit = u]

LEMMA TakesUnit ==
    ASSUME AppInv, NEW h \in Threads, NEW pc \in PCs, NEW u \in Nat \cup {None}, Takes(h, pc, u)
    PROVE  \E y \in ThreadStates : /\ Moves(h, y) /\ y.pc = pc
                                   /\ y.id = tasks[h].id /\ y.unit = u
<1>1. tasks \in [Threads -> ThreadStates]
  BY DEF AppInv, AppTypes
<1>2. PICK r \in ThreadStates : r = tasks[h]
  BY <1>1
<1>3. PICK y : y = [r EXCEPT !.pc = pc, !.unit = u]
  OBVIOUS
<1>4. y \in ThreadStates /\ y.pc = pc /\ y.id = r.id /\ y.unit = u
  BY <1>2, <1>3 DEF ThreadStates
<1>5. tasks' = [tasks EXCEPT ![h] = y]
  BY <1>1, <1>2, <1>3 DEF Takes
<1>6. QED
  BY <1>2, <1>4, <1>5 DEF Moves

LEMMA Ends ==
    ASSUME AppInv, NEW h \in Threads, App!Done(h)
    PROVE  \E y \in ThreadStates : Moves(h, y) /\ y.pc = "idle" /\ y.id = None
<1>1. App!Free \in ThreadStates /\ App!Free.pc = "idle" /\ App!Free.id = None
  BY DEF App!Free, ThreadStates, PCs, Lines
<1>2. Moves(h, App!Free)
  BY DEF App!Done, Moves
<1>3. QED
  BY <1>1, <1>2

\* A step keeps the invariant when the units and the books of every thread agree
\* after it, and the thread that moves takes no lock that another one has.
LEMMA StepKeeps ==
    ASSUME AppInv, NEW h \in Threads, NEW y \in ThreadStates, Moves(h, y),
           Session(y) => \/ Session(tasks[h])
                         \/ \A g \in Threads : ~Session(tasks[g]),
           Entered(y) => \/ Entered(tasks[h])
                         \/ \A g \in Threads : ~Entered(tasks[g]),
           cursor' \in Nat, minted' \in Seq(Nat), history' \subseteq Lines, Units',
           Books(y)', \A z \in {tasks[g] : g \in Threads \ {h}} : Books(z)'
    PROVE  AppInv'
<1>1. /\ tasks' \in [Threads -> ThreadStates] /\ tasks'[h] = y
      /\ \A g \in Threads : g # h => tasks'[g] = tasks[g]
      /\ Alone'
  BY TaskMoves
<1>2. \A g \in Threads : Books(tasks[g])'
  <2>1. Books(tasks[h])'
    BY <1>1 DEF Books, Entered, Session, Minted
  <2>2. ASSUME NEW g \in Threads, g # h PROVE Books(tasks[g])'
    <3>1. PICK z : z = tasks[g]
      OBVIOUS
    <3>2. Books(z)' /\ tasks'[g] = z
      BY <1>1, <2>2, <3>1
    <3>3. QED
      BY <3>2 DEF Books, Entered, Session, Minted
  <2>3. QED
    BY <2>1, <2>2
<1>3. AppTypes'
  BY <1>1 DEF AppTypes
<1>4. QED
  BY <1>1, <1>2, <1>3 DEF AppInv

\* The step of a thread that changes neither the files of ids and of the cursor,
\* nor what is minted and pending.
LEMMA QuietStepKeeps ==
    ASSUME AppInv, NEW h \in Threads, NEW y \in ThreadStates, Moves(h, y),
           Session(y) => \/ Session(tasks[h])
                         \/ \A g \in Threads : ~Session(tasks[g]),
           Entered(y) => \/ Entered(tasks[h])
                         \/ \A g \in Threads : ~Entered(tasks[g]),
           UNCHANGED <<ids, cursor, minted, pending>>, history' \subseteq Lines,
           answered' \subseteq ids,
           allocated' \cup spendable' \cup {b.unit : b \in settled'} \subseteq Minted,
           Books(y)
    PROVE  AppInv'
<1>1. Units'
  BY DEF AppInv, Units, App!MintsDisjoint, Minted
<1>2. cursor' \in Nat /\ minted' \in Seq(Nat)
  BY DEF AppInv, AppTypes
<1>3. ASSUME NEW z, Books(z) PROVE Books(z)'
  BY <1>3 DEF Books, Entered, Session, Minted
<1>4. \A g \in Threads : Books(tasks[g])
  BY DEF AppInv
<1>5. Books(y)' /\ \A z \in {tasks[g] : g \in Threads \ {h}} : Books(z)'
  BY <1>3, <1>4
<1>6. QED
  BY <1>1, <1>2, <1>5, StepKeeps

\* Requests begin, take their turn and read; nothing on disk changes but marks
\* of packages, the history and the outbox.
LEMMA QuietSteps ==
    ASSUME AppAssumption, AppInv, NEW h \in Threads
    PROVE  /\ \A id \in Ids : App!Send(h, id) => AppInv'
           /\ App!Faucet(h) => AppInv'
           /\ App!Enter(h) => AppInv'
           /\ App!Synced(h) => AppInv'
           /\ App!Mark(h) \/ App!Queue(h) \/ App!Allocate(h) => AppInv'
<1> USE DEF Books, Entered, Session, Paying, PCs
<1>0. /\ tasks[h] \in ThreadStates /\ Books(tasks[h]) /\ history \subseteq Lines /\ answered \subseteq ids
      /\ allocated \cup spendable \cup {b.unit : b \in settled} \subseteq Minted
      /\ \A g \in Threads : Session(tasks[g]) => App!InSession(g)
      /\ \A g \in Threads : Entered(tasks[g]) => App!HoldsIds(g)
  BY DEF AppInv, AppTypes, Units, App!MintsDisjoint, Minted, App!InSession, App!HoldsIds
<1>00. tasks[h].id \in Ids \cup {None}
  BY <1>0 DEF ThreadStates
<1>1. ASSUME NEW id \in Ids, App!Send(h, id) PROVE AppInv'
  <2>1. PICK y : y = [App!Free EXCEPT !.pc = "enter", !.id = id]
    OBVIOUS
  <2>2. y \in ThreadStates /\ y.pc = "enter" /\ y.id # None
    BY <2>1 DEF App!Free, ThreadStates, Lines, AppAssumption
  <2>3. Moves(h, y)
    BY <1>1, <2>1 DEF App!Send, Moves
  <2>4. UNCHANGED <<ids, cursor, history, spendable, pending, minted, allocated, settled, answered>>
    BY <1>1 DEF App!Send, App!disk
  <2>5. Books(y) /\ ~Session(y) /\ ~Entered(y)
    BY <2>2
  <2>6. QED
    BY <1>0, <2>2, <2>3, <2>4, <2>5, QuietStepKeeps
<1>2. ASSUME App!Faucet(h) PROVE AppInv'
  <2>1. PICK y : y = [App!Free EXCEPT !.pc = "open"]
    OBVIOUS
  <2>2. y \in ThreadStates /\ y.pc = "open" /\ y.id = None
    BY <2>1 DEF App!Free, ThreadStates, Lines
  <2>3. Moves(h, y)
    BY <1>2, <2>1 DEF App!Faucet, Moves
  <2>4. UNCHANGED <<ids, cursor, history, spendable, pending, minted, allocated, settled, answered>>
    BY <1>2 DEF App!Faucet, App!disk
  <2>5. Books(y) /\ ~Session(y) /\ ~Entered(y)
    BY <2>2
  <2>6. QED
    BY <1>0, <2>2, <2>3, <2>4, <2>5, QuietStepKeeps
<1>3. ASSUME App!Enter(h) PROVE AppInv'
  <2>1. /\ tasks[h].pc = "enter" /\ \A g \in Threads : ~Entered(tasks[g])
        /\ UNCHANGED <<ids, cursor, history, spendable, pending, minted, allocated, settled, answered>>
    BY <1>0, <1>3 DEF App!Enter, App!disk
  <2>2. CASE tasks[h].id \in ids
    <3>1. PICK y \in ThreadStates : Moves(h, y) /\ y.pc = "idle" /\ y.id = None
      BY <1>3, <2>2, Ends DEF App!Enter
    <3>2. Books(y) /\ ~Session(y) /\ ~Entered(y)
      BY <3>1
    <3>3. QED
      BY <1>0, <2>1, <3>1, <3>2, QuietStepKeeps
  <2>3. CASE tasks[h].id \notin ids
    <3>1. PICK y \in ThreadStates : Moves(h, y) /\ y.pc = "open" /\ y.id = tasks[h].id
      BY <1>3, <2>3, GoesTo DEF App!Enter
    <3>2. Books(y) /\ ~Session(y)
      BY <2>3, <3>1
    <3>3. QED
      BY <1>0, <2>1, <3>1, <3>2, QuietStepKeeps
  <2>4. QED
    BY <2>2, <2>3
<1>4. ASSUME App!Synced(h) PROVE AppInv'
  <2>1. /\ tasks[h].pc = "inbox" /\ Session(tasks[h])
        /\ UNCHANGED <<ids, cursor, history, spendable, pending, minted, allocated, settled, answered>>
    BY <1>4 DEF App!Synced, App!disk
  <2>2. CASE App!Done(h)
    <3>1. PICK y \in ThreadStates : Moves(h, y) /\ y.pc = "idle" /\ y.id = None
      BY <2>2, Ends
    <3>2. Books(y) /\ ~Session(y) /\ ~Entered(y)
      BY <3>1
    <3>3. QED
      BY <1>0, <2>1, <3>1, <3>2, QuietStepKeeps
  <2>3. ASSUME NEW pc \in {"readEvent", "check"}, App!GoTo(h, pc), pc = "check" => tasks[h].id # None
        PROVE  AppInv'
    <3>1. PICK y \in ThreadStates : Moves(h, y) /\ y.pc = pc /\ y.id = tasks[h].id
      BY <2>3, GoesTo
    <3>2. Books(y) /\ (Entered(y) => Entered(tasks[h]))
      BY <1>0, <2>1, <2>3, <3>1
    <3>3. QED
      BY <1>0, <2>1, <3>1, <3>2, QuietStepKeeps
  <2>4. QED
    BY <1>4, <2>2, <2>3 DEF App!Synced
<1>5. ASSUME App!Mark(h) \/ App!Queue(h) \/ App!Allocate(h) PROVE AppInv'
  <2>1. PICK pc \in {"claim", "save", "sync"} :
             /\ App!GoTo(h, pc) /\ Session(tasks[h])
             /\ pc = "save" => tasks[h].pc = "queue"
    BY <1>5 DEF App!Mark, App!Queue, App!Allocate
  <2>2. UNCHANGED <<ids, cursor, history, spendable, pending, minted, settled, answered>>
    BY <1>5 DEF App!Mark, App!Queue, App!Allocate
  <2>3. allocated' \subseteq allocated \cup Minted
    BY <1>0, <1>5 DEF App!Mark, App!Queue, App!Allocate
  <2>4. PICK y \in ThreadStates : Moves(h, y) /\ y.pc = pc /\ y.id = tasks[h].id
    BY <2>1, GoesTo
  <2>5. Books(y) /\ (Entered(y) => Entered(tasks[h]))
    BY <1>0, <2>1, <2>4
  <2>6. allocated' \cup spendable' \cup {b.unit : b \in settled'} \subseteq Minted
    BY <1>0, <2>2, <2>3
  <2>7. QED
    BY <1>0, <2>1, <2>2, <2>4, <2>5, <2>6, QuietStepKeeps
<1>6. QED
  BY <1>1, <1>2, <1>3, <1>4, <1>5

\* A session takes packages and writes its events; a service thread reads the
\* history and answers.
LEMMA ReadingSteps ==
    ASSUME AppAssumption, AppInv, NEW h \in Threads
    PROVE  /\ \A p \in Incoming : App!Accept(h, p) => AppInv'
           /\ App!Claim(h) => AppInv'
           /\ App!ReadHistory(h) => AppInv'
           /\ App!WriteEvent(h) => AppInv'
           /\ App!Answer(h) => AppInv'
<1> USE DEF Books, Entered, Session, Paying, PCs
<1>0. /\ tasks[h] \in ThreadStates /\ Books(tasks[h]) /\ history \subseteq Lines /\ answered \subseteq ids
      /\ allocated \cup spendable \cup {b.unit : b \in settled} \subseteq Minted
      /\ tasks \in [Threads -> ThreadStates]
  BY DEF AppInv, AppTypes, Units, App!MintsDisjoint, Minted
<1>00. PICK r \in ThreadStates : r = tasks[h]
  BY <1>0
<1>1. ASSUME NEW p \in Incoming, App!Accept(h, p) PROVE AppInv'
  <2>1. /\ tasks[h].pc = "inbox" /\ Session(tasks[h])
        /\ UNCHANGED <<ids, cursor, history, spendable, pending, minted, allocated, settled, answered>>
    BY <1>1 DEF App!Accept
  <2>2. PICK y \in ThreadStates : Moves(h, y) /\ y.pc \in {"inbox", "mark"} /\ y.id = tasks[h].id
    <3>1. CASE p \in accepted
      <4>1. [tasks EXCEPT ![h] = r] = tasks /\ tasks' = tasks
        BY <1>0, <1>00, <1>1, <3>1 DEF App!Accept
      <4>2. QED
        BY <1>00, <2>1, <4>1 DEF Moves
    <3>2. CASE p \notin accepted
      <4>1. PICK y : y = [r EXCEPT !.pc = "mark", !.pkg = p]
        OBVIOUS
      <4>2. y \in ThreadStates /\ y.pc = "mark" /\ y.id = r.id
        BY <4>1 DEF ThreadStates, Lines
      <4>3. Moves(h, y)
        BY <1>0, <1>00, <1>1, <3>2, <4>1 DEF App!Accept, Moves
      <4>4. QED
        BY <1>00, <4>2, <4>3
    <3>3. QED
      BY <3>1, <3>2
  <2>3. Books(y) /\ (Entered(y) => Entered(tasks[h]))
    BY <1>0, <2>1, <2>2
  <2>4. QED
    BY <1>0, <2>1, <2>2, <2>3, QuietStepKeeps
<1>2. ASSUME App!Claim(h) PROVE AppInv'
  <2>1. /\ tasks[h].pc = "claim" /\ Session(tasks[h])
        /\ UNCHANGED <<ids, cursor, history, spendable, pending, minted, allocated, settled, answered>>
    BY <1>2 DEF App!Claim
  <2>2. PICK y : y = [r EXCEPT !.pc = "inbox", !.events = r.events \cup {r.pkg}]
    OBVIOUS
  <2>3. y \in ThreadStates /\ y.pc = "inbox" /\ y.id = r.id
    BY <2>2 DEF ThreadStates
  <2>4. Moves(h, y)
    BY <1>0, <1>00, <1>2, <2>2 DEF App!Claim, Moves
  <2>5. Books(y) /\ (Entered(y) => Entered(tasks[h]))
    BY <1>0, <1>00, <2>1, <2>3
  <2>6. QED
    BY <1>0, <2>1, <2>3, <2>4, <2>5, QuietStepKeeps
<1>3. ASSUME App!ReadHistory(h) PROVE AppInv'
  <2>1. /\ tasks[h].pc \in {"readEvent", "read"}
        /\ UNCHANGED <<ids, cursor, history, spendable, pending, minted, allocated, settled, answered>>
    BY <1>3 DEF App!ReadHistory, App!disk
  <2>2. PICK y : y = [r EXCEPT !.seen = history, !.pc = IF r.pc = "read" THEN "write" ELSE "writeEvent"]
    OBVIOUS
  <2>3. /\ y \in ThreadStates /\ y.id = r.id
        /\ y.pc = IF r.pc = "read" THEN "write" ELSE "writeEvent"
    BY <1>0, <2>2 DEF ThreadStates
  <2>4. Moves(h, y)
    BY <1>0, <1>00, <1>3, <2>2 DEF App!ReadHistory, Moves
  <2>5. Books(y) /\ (Entered(y) => Entered(tasks[h])) /\ (Session(y) => Session(tasks[h]))
    BY <1>0, <1>00, <2>1, <2>3
  <2>6. QED
    BY <1>0, <2>1, <2>3, <2>4, <2>5, QuietStepKeeps
<1>4. ASSUME App!WriteEvent(h) PROVE AppInv'
  <2>1. /\ tasks[h].pc = "writeEvent" /\ Session(tasks[h])
        /\ UNCHANGED <<ids, cursor, spendable, pending, minted, allocated, settled, answered>>
    BY <1>4 DEF App!WriteEvent
  <2>2. PICK p \in r.events : /\ history' = r.seen \cup {p}
                              /\ tasks' = [tasks EXCEPT ![h].pc = "inbox", ![h].events = @ \ {p}, ![h].seen = {}]
    BY <1>00, <1>4 DEF App!WriteEvent
  <2>3. PICK y : y = [r EXCEPT !.pc = "inbox", !.events = r.events \ {p}, !.seen = {}]
    OBVIOUS
  <2>4. y \in ThreadStates /\ y.pc = "inbox" /\ y.id = r.id /\ history' \subseteq Lines
    BY <2>2, <2>3 DEF ThreadStates
  <2>5. Moves(h, y)
    BY <1>0, <1>00, <2>2, <2>3 DEF Moves
  <2>6. Books(y) /\ (Entered(y) => Entered(tasks[h]))
    BY <1>0, <1>00, <2>1, <2>4
  <2>7. QED
    BY <1>0, <2>1, <2>4, <2>5, <2>6, QuietStepKeeps
<1>5. ASSUME App!Answer(h) PROVE AppInv'
  <2>1. /\ tasks[h].pc = "write" /\ history' = r.seen \cup {r.id} /\ answered' = answered \cup {r.id}
        /\ UNCHANGED <<ids, cursor, spendable, pending, minted, allocated, settled>>
    BY <1>00, <1>5 DEF App!Answer
  <2>2. r.id \in Ids \cup {None} /\ r.seen \subseteq Lines
    BY DEF ThreadStates
  <2>3. history' \subseteq Lines /\ answered' \subseteq ids
    BY <1>0, <1>00, <2>1, <2>2 DEF Lines
  <2>4. PICK y \in ThreadStates : Moves(h, y) /\ y.pc = "idle" /\ y.id = None
    BY <1>5, Ends DEF App!Answer
  <2>5. Books(y) /\ ~Session(y) /\ ~Entered(y)
    BY <2>4
  <2>6. QED
    BY <1>0, <2>1, <2>3, <2>4, <2>5, QuietStepKeeps
<1>6. QED
  BY <1>1, <1>2, <1>3, <1>4, <1>5

\* The others neither have a session nor the lock of the ids while this thread
\* has it, so that their books do not depend on what it changes.
LEMMA OthersKeep ==
    ASSUME AppInv, NEW h \in Threads
    PROVE  /\ /\ Session(tasks[h]) \/ \A g \in Threads : ~Session(tasks[g])
              /\ UNCHANGED ids
              => \A z \in {tasks[g] : g \in Threads \ {h}} : Books(z)'
           /\ /\ Entered(tasks[h]) /\ ids \subseteq ids'
              /\ UNCHANGED <<cursor, minted, pending>>
              => \A z \in {tasks[g] : g \in Threads \ {h}} : Books(z)'
<1>1. ASSUME NEW g \in Threads, g # h
      PROVE  /\ Session(tasks[h]) => ~Session(tasks[g])
             /\ Entered(tasks[h]) => ~Entered(tasks[g])
  BY <1>1 DEF AppInv, Alone
<1>2. \A g \in Threads : Books(tasks[g])
  BY DEF AppInv
<1>3. ASSUME NEW z, Books(z), ~Session(z), UNCHANGED ids PROVE Books(z)'
  BY <1>3 DEF Books, Entered, Session
<1>4. ASSUME NEW z, Books(z), ~Entered(z), ids \subseteq ids', UNCHANGED <<cursor, minted, pending>>
      PROVE  Books(z)'
  BY <1>4 DEF Books, Entered, Session, Minted
<1>5. QED
  BY <1>1, <1>2, <1>3, <1>4

\* The faucet takes a unit, and mints it.
LEMMA FaucetSteps ==
    ASSUME AppAssumption, AppInv, NEW h \in Threads
    PROVE  /\ App!Open(h) => AppInv'
           /\ App!Record(h) => AppInv'
<1> USE DEF Books, Entered, Session, Paying, PCs
<1>0. /\ tasks[h] \in ThreadStates /\ Books(tasks[h]) /\ history \subseteq Lines /\ answered \subseteq ids
      /\ allocated \cup spendable \cup {b.unit : b \in settled} \subseteq Minted
      /\ cursor \in Nat /\ minted \in Seq(Nat)
      /\ \A i \in DOMAIN minted : minted[i] < cursor /\ minted[i] \in Nat
      /\ \A g \in Threads : Session(tasks[g]) => App!InSession(g)
  <2>1. minted \in Seq(Nat) /\ \A i \in DOMAIN minted : minted[i] < cursor
    BY DEF AppInv, AppTypes, Units
  <2>2. \A i \in DOMAIN minted : minted[i] \in Nat
    BY <2>1
  <2>3. QED
    BY <2>1, <2>2 DEF AppInv, AppTypes, Units, App!MintsDisjoint, Minted, App!InSession
<1>1. ASSUME App!Open(h) PROVE AppInv'
  <2>1. /\ tasks[h].pc = "open" /\ \A g \in Threads : ~Session(tasks[g])
        /\ UNCHANGED <<ids, history, spendable, pending, minted, allocated, settled, answered>>
    BY <1>0, <1>1 DEF App!Open
  <2>2. CASE tasks[h].id # None
    <3>1. PICK y \in ThreadStates : Moves(h, y) /\ y.pc = "sync" /\ y.id = tasks[h].id
      BY <1>1, <2>2, GoesTo DEF App!Open
    <3>2. UNCHANGED cursor
      BY <1>1, <2>2 DEF App!Open
    <3>3. Books(y) /\ (Entered(y) => Entered(tasks[h]))
      BY <1>0, <2>1, <3>1
    <3>4. QED
      BY <1>0, <2>1, <3>1, <3>2, <3>3, QuietStepKeeps
  <2>3. CASE tasks[h].id = None
    <3>1. /\ tasks' = [tasks EXCEPT ![h].pc = "record", ![h].unit = cursor] /\ cursor' = cursor + 1
      BY <1>1, <2>3 DEF App!Open
    <3>2. PICK y \in ThreadStates : Moves(h, y) /\ y.pc = "record" /\ y.id = tasks[h].id /\ y.unit = cursor
      <4>1. "record" \in PCs /\ cursor \in Nat \cup {None}
        BY <1>0
      <4>2. PICK u \in Nat \cup {None} : u = cursor
        BY <4>1
      <4>3. Takes(h, "record", u)
        BY <3>1, <4>2 DEF Takes
      <4> HIDE DEF PCs
      <4>4. QED
        BY <4>1, <4>2, <4>3, TakesUnit
    <3>3. cursor \notin Minted /\ Minted' = Minted
      BY <1>0, <2>1 DEF Minted
    <3>4. Books(y)'
      BY <1>0, <2>1, <2>3, <3>1, <3>2, <3>3
    <3>5. cursor' \in Nat /\ cursor < cursor' /\ \A i \in DOMAIN minted : minted[i] < cursor'
      BY <1>0, <3>1
    <3>6. Units'
      BY <2>1, <3>5 DEF AppInv, Units, App!MintsDisjoint, Minted
    <3>7. \A z \in {tasks[g] : g \in Threads \ {h}} : Books(z)'
      <4> HIDE DEF Books, Session
      <4>1. QED
        BY <2>1, OthersKeep
    <3>8. ~Entered(y)
      BY <2>3, <3>2
    <3>9. minted' \in Seq(Nat) /\ history' \subseteq Lines
      BY <1>0, <2>1
    <3>10. QED
      <4> HIDE DEF Books, Session, Entered
      <4>1. QED
        BY <2>1, <3>2, <3>4, <3>5, <3>6, <3>7, <3>8, <3>9, StepKeeps
  <2>4. QED
    BY <2>2, <2>3
<1>2. ASSUME App!Record(h) PROVE AppInv'
  <2>1. PICK u : u = tasks[h].unit
    OBVIOUS
  <2>2. /\ tasks[h].pc = "record" /\ Session(tasks[h]) /\ u \in Nat /\ u < cursor /\ u \notin Minted
        /\ minted' = Append(minted, u) /\ spendable' = spendable \cup {u} /\ App!GoTo(h, "allocate")
        /\ UNCHANGED <<ids, cursor, history, pending, allocated, settled, answered>>
    BY <1>0, <1>2, <2>1 DEF App!Record
  <2>3. PICK y \in ThreadStates : Moves(h, y) /\ y.pc = "allocate" /\ y.id = tasks[h].id /\ y.unit = u
    BY <2>1, <2>2, GoesTo
  <2>4. /\ minted' \in Seq(Nat) /\ DOMAIN minted' = DOMAIN minted \cup {Len(minted) + 1}
        /\ \A i \in DOMAIN minted : minted'[i] = minted[i] /\ i # Len(minted) + 1
        /\ minted'[Len(minted) + 1] = u
    BY <1>0, <2>2
  <2>5. \A i \in DOMAIN minted : minted[i] # u
    BY <2>2 DEF Minted
  <2>6. Minted' = Minted \cup {u}
    BY <2>4 DEF Minted
  <2>7. \A i, j \in DOMAIN minted' : minted'[i] = minted'[j] => i = j
    <3>1. \A i, j \in DOMAIN minted : minted[i] = minted[j] => i = j
      BY DEF AppInv, Units, App!MintsDisjoint
    <3>2. QED
      BY <2>4, <2>5, <3>1
  <2>8. \A i \in DOMAIN minted' : minted'[i] < cursor
    BY <1>0, <2>2, <2>4
  <2>9. Units'
    <3>1. allocated' \cup spendable' \cup {b.unit : b \in settled'} \subseteq Minted'
      BY <1>0, <2>2, <2>6
    <3>2. App!MintsDisjoint'
      BY <2>7, <3>1 DEF App!MintsDisjoint, Minted
    <3>3. QED
      BY <2>2, <2>6, <2>8, <3>2 DEF AppInv, Units
  <2>10. Books(y)' /\ (Entered(y) => Entered(tasks[h]))
    BY <1>0, <2>2, <2>3, <2>6
  <2>11. \A z \in {tasks[g] : g \in Threads \ {h}} : Books(z)'
    <3> HIDE DEF Books, Session
    <3>1. QED
      BY <2>2, OthersKeep
  <2>12. cursor' \in Nat /\ history' \subseteq Lines
    BY <1>0, <2>2
  <2>13. QED
    <3> HIDE DEF Books, Session, Entered
    <3>1. QED
      BY <2>2, <2>3, <2>4, <2>9, <2>10, <2>11, <2>12, StepKeeps
<1>3. QED
  BY <1>1, <1>2

\* A bundle is made, put into a block and confirmed.
LEMMA PaymentSteps ==
    ASSUME AppAssumption, AppInv, NEW h \in Threads
    PROVE  /\ App!Sync(h) => AppInv'
           /\ App!Check(h) => AppInv'
           /\ App!Produce(h) => AppInv'
           /\ App!Confirm(h) => AppInv'
<1> USE DEF Books, Entered, Session, Paying, PCs
<1>0. /\ tasks[h] \in ThreadStates /\ Books(tasks[h]) /\ history \subseteq Lines /\ answered \subseteq ids
      /\ allocated \cup spendable \cup {b.unit : b \in settled} \subseteq Minted
      /\ cursor \in Nat /\ minted \in Seq(Nat)
      /\ pending # None => pending.unit \in Minted
  BY DEF AppInv, AppTypes, Units, App!MintsDisjoint, Minted
\* What is left to show of a step of a thread with a session that changes the
\* pending bundle, or the blocks.
<1>1. ASSUME NEW y \in ThreadStates, Moves(h, y), Session(tasks[h]), Entered(y) => Entered(tasks[h]),
             Books(y)', UNCHANGED <<ids, cursor, minted, history, allocated, answered>>,
             pending' # None => pending'.unit \in Minted,
             spendable' \cup {b.unit : b \in settled'} \subseteq Minted
      PROVE  AppInv'
  <2>1. Minted' = Minted
    BY <1>1 DEF Minted
  <2>2. App!MintsDisjoint'
    <3>1. \A i, j \in DOMAIN minted : minted[i] = minted[j] => i = j
      BY DEF AppInv, Units, App!MintsDisjoint
    <3>2. allocated' \cup spendable' \cup {b.unit : b \in settled'} \subseteq Minted
      BY <1>0, <1>1
    <3>3. QED
      BY <1>1, <3>1, <3>2 DEF App!MintsDisjoint, Minted
  <2>3. Units'
    BY <1>1, <2>1, <2>2 DEF AppInv, Units
  <2>4. cursor' \in Nat /\ minted' \in Seq(Nat) /\ history' \subseteq Lines
    BY <1>0, <1>1
  <2> HIDE DEF Books, Session, Entered
  <2>5. \A z \in {tasks[g] : g \in Threads \ {h}} : Books(z)'
    BY <1>1, OthersKeep
  <2>6. QED
    BY <1>1, <2>3, <2>4, <2>5, StepKeeps
<1>2. ASSUME App!Sync(h) PROVE AppInv'
  <2>1. /\ tasks[h].pc = "sync" /\ Session(tasks[h]) /\ pending' \in {None, pending}
        /\ UNCHANGED <<ids, cursor, history, spendable, minted, allocated, settled, answered>>
    BY <1>2 DEF App!Sync
  <2>2. PICK y \in ThreadStates : Moves(h, y) /\ y.pc = "inbox" /\ y.id = tasks[h].id
    BY <1>2, GoesTo DEF App!Sync
  <2>3. Books(y)' /\ (Entered(y) => Entered(tasks[h]))
    BY <1>0, <2>1, <2>2
  <2>4. QED
    BY <1>0, <1>1, <2>1, <2>2, <2>3
<1>3. ASSUME App!Check(h) PROVE AppInv'
  <2>1. /\ tasks[h].pc = "check" /\ Session(tasks[h])
        /\ UNCHANGED <<ids, cursor, history, minted, allocated, settled, answered>>
    BY <1>3 DEF App!Check
  <2>2. CASE App!Done(h) /\ UNCHANGED <<spendable, pending>>
    <3>1. PICK y \in ThreadStates : Moves(h, y) /\ y.pc = "idle" /\ y.id = None
      BY <2>2, Ends
    <3>2. Books(y)' /\ ~Entered(y)
      BY <3>1
    <3>3. QED
      BY <1>0, <1>1, <2>1, <2>2, <3>1, <3>2
  <2>3. ASSUME NEW u \in spendable, pending' = [id |-> tasks[h].id, unit |-> u],
               spendable' = spendable \ {u}, App!GoTo(h, "produce")
        PROVE  AppInv'
    <3>1. PICK y \in ThreadStates : Moves(h, y) /\ y.pc = "produce" /\ y.id = tasks[h].id
      BY <2>3, GoesTo
    <3>2. pending'.id = y.id /\ pending'.unit = u /\ u \in Minted /\ Minted' = Minted
      BY <1>0, <2>1, <2>3, <3>1 DEF Minted
    <3>3. Books(y)' /\ (Entered(y) => Entered(tasks[h]))
      BY <1>0, <2>1, <3>1, <3>2
    <3>4. spendable' \cup {b.unit : b \in settled'} \subseteq Minted
      BY <1>0, <2>1, <2>3
    <3>5. QED
      BY <1>1, <2>1, <3>1, <3>2, <3>3, <3>4
  <2>4. QED
    BY <1>3, <2>2, <2>3 DEF App!Check
<1>4. ASSUME App!Produce(h) PROVE AppInv'
  <2>1. /\ tasks[h].pc = "produce" /\ Session(tasks[h])
        /\ UNCHANGED <<ids, cursor, history, spendable, pending, minted, allocated, answered>>
    BY <1>4 DEF App!Produce
  <2>2. CASE settled' = settled \cup {pending} /\ App!GoTo(h, "confirm")
    <3>1. PICK y \in ThreadStates : Moves(h, y) /\ y.pc = "confirm" /\ y.id = tasks[h].id
      BY <2>2, GoesTo
    <3>2. Books(y)' /\ (Entered(y) => Entered(tasks[h]))
      <4>1. Minted' = Minted
        BY <2>1 DEF Minted
      <4>2. QED
        BY <1>0, <2>1, <3>1, <4>1
    <3>3. spendable' \cup {b.unit : b \in settled'} \subseteq Minted
      BY <1>0, <2>1, <2>2
    <3>4. QED
      BY <1>0, <1>1, <2>1, <3>1, <3>2, <3>3
  <2>3. CASE UNCHANGED settled /\ App!Done(h)
    <3>1. PICK y \in ThreadStates : Moves(h, y) /\ y.pc = "idle" /\ y.id = None
      BY <2>3, Ends
    <3>2. Books(y)' /\ ~Entered(y)
      BY <3>1
    <3>3. QED
      BY <1>0, <1>1, <2>1, <2>3, <3>1, <3>2
  <2>4. QED
    BY <1>4, <2>2, <2>3 DEF App!Produce
<1>5. ASSUME App!Confirm(h) PROVE AppInv'
  <2>1. /\ tasks[h].pc = "confirm" /\ Session(tasks[h]) /\ pending' = None
        /\ tasks' = [tasks EXCEPT ![h].pc = "queue", ![h].unit = pending.unit]
        /\ UNCHANGED <<ids, cursor, history, spendable, minted, allocated, settled, answered>>
    BY <1>5 DEF App!Confirm
  <2>2. pending.unit \in Nat \cup {None} /\ "queue" \in PCs
    <3>1. pending.unit \in Minted
      BY <1>0, <2>1
    <3>2. QED
      BY <1>0, <3>1 DEF Minted
  <2>3. PICK y \in ThreadStates : Moves(h, y) /\ y.pc = "queue" /\ y.id = tasks[h].id
    <3>1. PICK u \in Nat \cup {None} : u = pending.unit
      BY <2>2
    <3>2. Takes(h, "queue", u)
      BY <2>1, <3>1 DEF Takes
    <3> HIDE DEF PCs
    <3>3. QED
      BY <2>2, <3>2, TakesUnit
  <2>4. Books(y)' /\ (Entered(y) => Entered(tasks[h]))
    BY <1>0, <2>1, <2>3
  <2>5. pending' # None => pending'.unit \in Minted
    BY <2>1
  <2>6. spendable' \cup {b.unit : b \in settled'} \subseteq Minted
    BY <1>0, <2>1
  <2>7. QED
    BY <1>1, <2>1, <2>3, <2>4, <2>5, <2>6
<1>6. QED
  BY <1>2, <1>3, <1>4, <1>5

LEMMA UnitsStay ==
    ASSUME Units, ids \subseteq ids', UNCHANGED <<cursor, spendable, pending, minted, allocated, settled, answered>>
    PROVE  Units'
<1>1. Minted' = Minted
  BY DEF Minted
<1>2. PICK spent : spent = {b.unit : b \in settled}
  OBVIOUS
<1>3. spent = {b.unit : b \in settled}'
  BY <1>2
<1>4. allocated \cup spendable \cup spent \subseteq Minted /\ \A i, j \in DOMAIN minted : minted[i] = minted[j] => i = j
  BY <1>2 DEF Units, App!MintsDisjoint, Minted
<1>5. (allocated \cup spendable)' \cup spent \subseteq Minted' /\ \A i, j \in DOMAIN minted' : minted'[i] = minted'[j] => i = j
  BY <1>1, <1>4
<1>6. App!MintsDisjoint'
  BY <1>3, <1>5 DEF App!MintsDisjoint, Minted
<1>7. QED
  BY <1>1, <1>6 DEF Units

\* A payment goes on file, or the process dies.
LEMMA SavedOrDead ==
    ASSUME AppAssumption, AppInv
    PROVE  /\ \A h \in Threads : App!Save(h) => AppInv'
           /\ App!Crash => AppInv'
<1> USE DEF Books, Entered, Session, Paying, PCs
<1>0. /\ history \subseteq Lines /\ answered \subseteq ids
      /\ cursor \in Nat /\ minted \in Seq(Nat) /\ Units
  BY DEF AppInv, AppTypes, Units
<1>1. ASSUME NEW h \in Threads, App!Save(h) PROVE AppInv'
  <2>1. /\ tasks[h].pc = "save" /\ ids' = ids \cup {tasks[h].id}
        /\ UNCHANGED <<cursor, history, spendable, pending, minted, allocated, settled, answered>>
    BY <1>1 DEF App!Save
  <2>2. tasks[h] \in ThreadStates /\ Books(tasks[h])
    BY DEF AppInv, AppTypes
  <2>3. Entered(tasks[h])
    BY <2>1, <2>2
  <2>4. PICK y \in ThreadStates : Moves(h, y) /\ y.pc = "read" /\ y.id = tasks[h].id
    BY <1>1, GoesTo DEF App!Save
  <2>5. Books(y)' /\ ~Entered(y) /\ ~Session(y)
    BY <2>1, <2>2, <2>4
  <2>6. Units'
    BY <1>0, <2>1, UnitsStay
  <2>7. cursor' \in Nat /\ minted' \in Seq(Nat) /\ history' \subseteq Lines /\ ids \subseteq ids'
    BY <1>0, <2>1
  <2> HIDE DEF Books, Session, Entered
  <2>8. \A z \in {tasks[g] : g \in Threads \ {h}} : Books(z)'
    BY <2>1, <2>3, <2>7, OthersKeep
  <2>9. QED
    BY <2>4, <2>5, <2>6, <2>7, <2>8, StepKeeps
<1>2. ASSUME App!Crash PROVE AppInv'
  <2>1. /\ tasks' = [h \in Threads |-> App!Free]
        /\ UNCHANGED <<ids, cursor, history, spendable, pending, minted, allocated, settled, answered>>
    BY <1>2 DEF App!Crash, AppAssumption
  <2>2. App!Free \in ThreadStates /\ App!Free.pc = "idle" /\ App!Free.id = None
    BY DEF App!Free, ThreadStates, Lines
  <2>3. Units' /\ AppTypes'
    BY <1>0, <2>1, <2>2, UnitsStay DEF AppTypes
  <2>4. \A h \in Threads : Books(tasks[h])' /\ ~Session(tasks[h])' /\ ~Entered(tasks[h])'
    BY <2>1, <2>2
  <2>5. QED
    BY <2>3, <2>4 DEF AppInv, Alone
<1>3. QED
  BY <1>1, <1>2

LEMMA AppNext ==
    ASSUME AppAssumption, AppInv, [App!Next]_(App!vars)
    PROVE  AppInv'
<1>1. CASE UNCHANGED App!vars
  <2>1. Units' /\ AppTypes'
    BY <1>1, UnitsStay DEF App!vars, AppInv, AppTypes, Units
  <2>2. UNCHANGED tasks /\ UNCHANGED <<ids, cursor, minted, pending>>
    BY <1>1 DEF App!vars
  <2>3. Alone' /\ \A h \in Threads : Books(tasks[h])'
    BY <2>2 DEF AppInv, Alone, Books, Entered, Session, Minted
  <2>4. QED
    BY <2>1, <2>3 DEF AppInv
<1>2. ASSUME NEW h \in Threads, App!Step(h) PROVE AppInv'
  BY <1>2, QuietSteps, ReadingSteps, FaucetSteps, PaymentSteps, SavedOrDead DEF App!Step
<1>3. QED
  BY <1>1, <1>2, QuietSteps, SavedOrDead DEF App!Next

\* A block that a step adds pays under the id of the thread that holds the lock.
LEMMA PaysOnce ==
    ASSUME AppAssumption, AppInv, [App!Next]_(App!vars), NEW id \in answered
    PROVE  {b \in settled' : b.id = id} = {b \in settled : b.id = id}
<1>1. CASE UNCHANGED settled
  BY <1>1
<1>2. ASSUME NEW h \in Threads, App!Produce(h), settled' = settled \cup {pending}
      PROVE  {b \in settled' : b.id = id} = {b \in settled : b.id = id}
  <2>1. tasks[h].pc = "produce" /\ Books(tasks[h])
    BY <1>2 DEF App!Produce, AppInv
  <2>2. tasks[h].id # None /\ Entered(tasks[h])
    BY <2>1 DEF Books, Paying, Entered, Session
  <2>3. pending.id \notin ids
    BY <2>1, <2>2 DEF Books
  <2>4. id \in ids
    BY DEF AppInv, Units
  <2>5. QED
    BY <1>2, <2>3, <2>4
<1>3. UNCHANGED settled \/ \E h \in Threads : App!Produce(h) /\ settled' = settled \cup {pending}
  <2>1. CASE UNCHANGED App!vars
    BY <2>1 DEF App!vars
  <2>2. ASSUME NEW h \in Threads, App!Step(h), ~App!Produce(h) PROVE UNCHANGED settled
    BY <2>2 DEF App!Step, App!Enter, App!Open, App!Record, App!Allocate, App!Sync, App!Accept, App!Mark,
                App!Claim, App!Synced, App!ReadHistory, App!WriteEvent, App!Check, App!Confirm,
                App!Queue, App!Save, App!Answer, App!disk
  <2>3. \A h \in Threads : App!Produce(h) => UNCHANGED settled \/ settled' = settled \cup {pending}
    BY DEF App!Produce
  <2>4. \A h \in Threads : App!Faucet(h) \/ (\E i \in Ids : App!Send(h, i)) \/ App!Crash => UNCHANGED settled
    BY DEF App!Faucet, App!Send, App!disk, App!Crash
  <2>5. App!Crash => UNCHANGED settled
    BY DEF App!Crash
  <2>6. QED
    BY <2>1, <2>2, <2>3, <2>4, <2>5 DEF App!Next
<1>4. QED
  BY <1>1, <1>2, <1>3

\* Whatever handler threads, repeated requests, failing saves and crashes do: once
\* a client was told that its payment is done, no block pays under its
\* client_tx_id again, and the faucet mints no unit twice (service.py, runtime.py).
THEOREM NothingTwice == AppAssumption => (App!Spec => NothingPaidTwice)
<1> SUFFICES ASSUME AppAssumption PROVE App!Spec => NothingPaidTwice
  OBVIOUS
<1>1. App!Init => AppInv
  <2> SUFFICES ASSUME App!Init PROVE AppInv
    OBVIOUS
  <2>1. App!Free \in ThreadStates /\ App!Free.pc = "idle" /\ App!Free.id = None
    BY DEF App!Free, ThreadStates, PCs, Lines
  <2>2. /\ tasks = [h \in Threads |-> App!Free] /\ minted = <<>> /\ pending = None
        /\ cursor = 0 /\ history = {} /\ answered = {} /\ allocated = {} /\ spendable = {} /\ settled = {}
    BY DEF App!Init
  <2>3. AppTypes
    BY <2>1, <2>2 DEF AppTypes
  <2>4. Units
    BY <2>2 DEF Units, App!MintsDisjoint, Minted
  <2>5. Alone /\ \A h \in Threads : Books(tasks[h])
    BY <2>1, <2>2 DEF Alone, Books, Session, Entered, Paying
  <2>6. QED
    BY <2>3, <2>4, <2>5 DEF AppInv
<1>2. AppInv /\ [App!Next]_(App!vars) => AppInv'
  BY AppNext
<1>3. AppInv /\ [App!Next]_(App!vars) =>
        [\A id \in answered : {b \in settled' : b.id = id} = {b \in settled : b.id = id}]_(App!vars)
  BY PaysOnce
<1>4. AppInv => App!MintsDisjoint
  BY DEF AppInv, Units
<1>5. QED
  BY <1>1, <1>2, <1>3, <1>4, PTL DEF App!Spec, NothingPaidTwice, App!NothingPaidTwice, App!AnsweredNeverPaidAgain

-----------------------------------------------------------------------------
(* The V1 chain *)

Root == OldChain!GenesisBlock
Tree == ForkBlocks \cup {Root}

\* Blocks name the block before them, and nothing comes before the genesis
\* block; no block comes before itself, however far back.
ChainAssumption ==
    /\ Root \notin ForkBlocks
    /\ ForkParent \in [ForkBlocks -> Tree]
    /\ \E rank \in [Tree -> Nat] : \A b \in ForkBlocks : rank[ForkParent[b]] < rank[b]
    /\ Confirmations \in Nat

\* Any numbers there are have a least one.
LEMMA Least ==
    ASSUME NEW T, T \subseteq Nat, T # {}
    PROVE  \E m \in T : \A k \in T : m <= k
<1> DEFINE R == OpToRel(<, Nat)
<1>1. IsWellFoundedOn(R, Nat)
  BY NatLessThanWellFounded
<1>2. \A i, j \in Nat : i < j => <<i, j>> \in R
  BY DEF OpToRel
<1> HIDE DEF R
<1>3. PICK m \in T : \A k \in T : <<k, m>> \notin R
  BY <1>1, WFMin
<1>4. ASSUME NEW k \in T PROVE m <= k
  <2>1. k \in Nat /\ m \in Nat
    OBVIOUS
  <2>2. ~(k < m)
    BY <1>2, <1>3, <2>1
  <2>3. QED
    BY <2>1, <2>2
<1>5. QED
  BY <1>4

\* Of the blocks with a flaw, one has no flaw before it.
LEMMA FirstFlaw ==
    ASSUME ChainAssumption, NEW Flaws, Flaws \subseteq Tree, Flaws # {}
    PROVE  \E b \in Flaws : b \in ForkBlocks => ForkParent[b] \in Tree \ Flaws
<1>1. PICK rank \in [Tree -> Nat] : \A b \in ForkBlocks : rank[ForkParent[b]] < rank[b]
  BY DEF ChainAssumption
<1> DEFINE T == {rank[b] : b \in Flaws}
<1>2. T \subseteq Nat /\ T # {}
  OBVIOUS
<1>3. PICK m \in T : \A k \in T : m <= k
  <2> HIDE DEF T
  <2>1. QED
    BY <1>2, Least
<1>4. PICK b \in Flaws : m = rank[b]
  OBVIOUS
<1>5. ASSUME b \in ForkBlocks PROVE ForkParent[b] \in Tree \ Flaws
  <2>1. ForkParent[b] \in Tree
    BY <1>5 DEF ChainAssumption
  <2>2. rank[ForkParent[b]] \in Nat /\ rank[b] \in Nat /\ rank[ForkParent[b]] < rank[b]
    BY <2>1, <1>1, <1>5, <1>4
  <2>3. ASSUME ForkParent[b] \in Flaws PROVE FALSE
    <3>1. rank[ForkParent[b]] \in T
      BY <2>3
    <3>2. QED
      BY <3>1, <1>3, <1>4, <2>2
  <2>4. QED
    BY <2>1, <2>3
<1>6. QED
  BY <1>4, <1>5

\* The recursion of Path, on the blocks of a part of the tree.
Grown(f, b) == IF b = Root THEN <<Root>> ELSE Append(f[ForkParent[b]], b)
Traces(f, K) == f = [b \in K |-> Grown(f, b)]
Closed(K) == K \subseteq Tree /\ \A b \in K \cap ForkBlocks : ForkParent[b] \in K

\* Two of them agree where both are defined.
LEMMA TracesAgree ==
    ASSUME ChainAssumption, NEW f, NEW g, NEW K, NEW M, Closed(K), Closed(M),
           Traces(f, K), Traces(g, M)
    PROVE  \A b \in K \cap M : f[b] = g[b]
<1> DEFINE Flaws == {b \in K \cap M : f[b] # g[b]}
<1>1. SUFFICES ASSUME Flaws # {} PROVE FALSE
  OBVIOUS
<1>2. PICK b \in Flaws : b \in ForkBlocks => ForkParent[b] \in Tree \ Flaws
  <2>1. Flaws \subseteq Tree
    BY DEF Closed
  <2> HIDE DEF Flaws
  <2>2. QED
    BY <1>1, <2>1, FirstFlaw
<1>3. b \in K /\ b \in M /\ f[b] # g[b] /\ b \in Tree
  BY DEF Closed
<1>4. f[b] = Grown(f, b) /\ g[b] = Grown(g, b)
  BY <1>3 DEF Traces
<1>5. b # Root => b \in ForkBlocks
  BY <1>3 DEF Tree
<1>6. b \in ForkBlocks => ForkParent[b] \in K \cap M /\ f[ForkParent[b]] = g[ForkParent[b]]
  BY <1>2, <1>3 DEF Closed
<1>7. QED
  BY <1>3, <1>4, <1>5, <1>6 DEF Grown

\* The blocks before b, and b.
Below(rank, n) == {b \in Tree : rank[b] <= n}

LEMMA TracesExist ==
    ASSUME ChainAssumption, NEW rank \in [Tree -> Nat],
           \A b \in ForkBlocks : rank[ForkParent[b]] < rank[b]
    PROVE  \A n \in Nat : \E f : Traces(f, Below(rank, n))
<1> DEFINE T == {n \in Nat : ~\E f : Traces(f, Below(rank, n))}
<1>1. SUFFICES ASSUME T # {} PROVE FALSE
  OBVIOUS
<1>2. PICK m \in T : \A k \in T : m <= k
  <2> HIDE DEF T
  <2>1. T \subseteq Nat
    BY DEF T
  <2>2. QED
    BY <1>1, <2>1, Least
<1>3. m \in Nat /\ ~\E f : Traces(f, Below(rank, m))
  OBVIOUS
<1>4. \A b \in ForkBlocks : b \in Tree /\ ForkParent[b] \in Tree /\ b # Root
  BY DEF ChainAssumption, Tree
<1>5. PICK g : \A b \in Tree : rank[b] < m => g[b] = Grown(g, b)
  <2>1. CASE m = 0
    <3>1. \A b \in Tree : ~(rank[b] < m)
      BY <2>1
    <3>2. QED
      BY <3>1
  <2>2. CASE m # 0
    <3>1. m - 1 \in Nat /\ m - 1 \notin T
      BY <1>2, <1>3, <2>2
    <3>2. PICK g : Traces(g, Below(rank, m - 1))
      BY <3>1
    <3>3. \A b \in Tree : rank[b] < m => b \in Below(rank, m - 1)
      BY <1>3 DEF Below
    <3>4. QED
      BY <3>2, <3>3 DEF Traces
  <2>3. QED
    BY <2>1, <2>2
<1> DEFINE f == [b \in Below(rank, m) |-> IF rank[b] < m THEN g[b] ELSE Grown(g, b)]
<1>6. \A b \in Below(rank, m) : b \in Tree /\ (b # Root => b \in ForkBlocks) /\ rank[b] \in Nat
  BY DEF Below, Tree
<1>7. ASSUME NEW b \in Below(rank, m) PROVE f[b] = Grown(f, b)
  <2>1. f[b] = Grown(g, b)
    BY <1>5, <1>6
  <2>2. CASE b = Root
    BY <2>1, <2>2 DEF Grown
  <2>3. CASE b # Root
    <3>1. b \in ForkBlocks /\ ForkParent[b] \in Tree /\ rank[ForkParent[b]] < rank[b] /\ rank[b] <= m
      BY <1>4, <1>6, <2>3 DEF Below
    <3>2. rank[ForkParent[b]] \in Nat /\ rank[b] \in Nat
      BY <3>1, <1>6
    <3>3. rank[ForkParent[b]] < m /\ ForkParent[b] \in Below(rank, m)
      BY <3>1, <3>2, <1>3 DEF Below
    <3>4. f[ForkParent[b]] = g[ForkParent[b]]
      BY <3>3
    <3> HIDE DEF f
    <3>5. QED
      BY <2>1, <2>3, <3>4 DEF Grown
  <2>4. QED
    BY <2>2, <2>3
<1>8. f = [b \in Below(rank, m) |-> f[b]]
  OBVIOUS
<1> HIDE DEF f
<1>9. Traces(f, Below(rank, m))
  BY <1>7, <1>8 DEF Traces
<1>10. QED
  BY <1>3, <1>9

LEMMA PathTraces ==
    ASSUME ChainAssumption
    PROVE  Traces(OldChain!Path, Tree)
<1>1. PICK rank \in [Tree -> Nat] : \A b \in ForkBlocks : rank[ForkParent[b]] < rank[b]
  BY DEF ChainAssumption
<1>2. \A b \in ForkBlocks : b \in Tree /\ ForkParent[b] \in Tree /\ b # Root
  BY DEF ChainAssumption, Tree
<1>3. \A n \in Nat : \E f : Traces(f, Below(rank, n))
  BY <1>1, TracesExist
<1> DEFINE F(n) == CHOOSE f : Traces(f, Below(rank, n))
           g == [b \in Tree |-> F(rank[b])[b]]
<1>4. \A n \in Nat : Traces(F(n), Below(rank, n))
  BY <1>3
<1>5. \A n \in Nat : Closed(Below(rank, n))
  <2> TAKE n \in Nat
  <2>1. ASSUME NEW b \in Below(rank, n) \cap ForkBlocks PROVE ForkParent[b] \in Below(rank, n)
    <3>1. ForkParent[b] \in Tree /\ rank[ForkParent[b]] < rank[b] /\ rank[b] <= n /\ b \in Tree
      BY <1>1, <1>2 DEF Below
    <3>2. rank[ForkParent[b]] \in Nat /\ rank[b] \in Nat
      BY <3>1
    <3>3. QED
      BY <3>1, <3>2 DEF Below
  <2>2. QED
    BY <2>1 DEF Closed, Below
<1> HIDE DEF F
<1>6. ASSUME NEW b \in Tree PROVE g[b] = Grown(g, b)
  <2>1. rank[b] \in Nat /\ b \in Below(rank, rank[b])
    BY DEF Below
  <2>2. g[b] = Grown(F(rank[b]), b)
    BY <2>1, <1>4 DEF Traces
  <2>3. CASE b = Root
    BY <2>2, <2>3 DEF Grown
  <2>4. CASE b # Root
    <3>1. b \in ForkBlocks /\ ForkParent[b] \in Tree /\ rank[ForkParent[b]] \in Nat
      BY <1>2, <2>4 DEF Tree
    <3>2. ForkParent[b] \in Below(rank, rank[b]) /\ ForkParent[b] \in Below(rank, rank[ForkParent[b]])
      BY <3>1, <1>1, <2>1 DEF Below
    <3> DEFINE u == F(rank[b])
               v == F(rank[ForkParent[b]])
               K == Below(rank, rank[b])
               M == Below(rank, rank[ForkParent[b]])
    <3>3. Traces(u, K) /\ Traces(v, M) /\ Closed(K) /\ Closed(M)
      BY <1>4, <1>5, <2>1, <3>1
    <3>4. ForkParent[b] \in K \cap M
      BY <3>2
    <3>5. g[ForkParent[b]] = v[ForkParent[b]]
      BY <3>1
    <3> HIDE DEF u, v, K, M
    <3>6. u[ForkParent[b]] = v[ForkParent[b]]
      BY <3>3, <3>4, TracesAgree
    <3>7. Grown(u, b) = Grown(g, b)
      <4> HIDE DEF g
      <4>1. QED
        BY <3>5, <3>6 DEF Grown
    <3>8. QED
      BY <2>2, <3>7 DEF u
  <2>5. QED
    BY <2>3, <2>4
<1>7. g = [b \in Tree |-> g[b]]
  OBVIOUS
<1> HIDE DEF g
<1>8. Traces(g, Tree)
  BY <1>6, <1>7 DEF Traces
<1>9. OldChain!Path = CHOOSE f : f = [b \in Tree |-> IF b = Root THEN <<Root>> ELSE Append(f[ForkParent[b]], b)]
  BY DEF OldChain!Path, Tree, Root
<1>10. \E f : f = [b \in Tree |-> IF b = Root THEN <<Root>> ELSE Append(f[ForkParent[b]], b)]
  BY <1>8 DEF Traces, Grown
<1>11. QED
  BY <1>9, <1>10, Zenon DEF Traces, Grown

\* The path to a block ends with it, has a block of every height below its own,
\* and stays in every part of the tree that has the block and all before it.
StandsOn(b) ==
    LET p == OldChain!Path[b]
    IN  /\ p \in Seq(Tree) /\ Len(p) >= 1 /\ p[1] = Root
        /\ \A i \in 1..Len(p) : OldChain!Height(p[i]) = i - 1
        /\ \A K \in SUBSET Tree : Closed(K) /\ b \in K => \A i \in 1..Len(p) : p[i] \in K

LEMMA PathStep ==
    ASSUME ChainAssumption
    PROVE  /\ OldChain!Path[Root] = <<Root>>
           /\ \A b \in ForkBlocks : OldChain!Path[b] = Append(OldChain!Path[ForkParent[b]], b)
<1>1. Traces(OldChain!Path, Tree)
  BY PathTraces
<1>2. Root \in Tree /\ \A b \in ForkBlocks : b \in Tree /\ b # Root
  BY DEF ChainAssumption, Tree
<1> HIDE DEF Root
<1>3. QED
  BY <1>1, <1>2 DEF Traces, Grown

LEMMA PathsStand ==
    ASSUME ChainAssumption
    PROVE  \A b \in Tree : StandsOn(b)
<1> DEFINE Flaws == {b \in Tree : ~StandsOn(b)}
<1>1. SUFFICES ASSUME Flaws # {} PROVE FALSE
  OBVIOUS
<1>2. PICK b \in Flaws : b \in ForkBlocks => ForkParent[b] \in Tree \ Flaws
  <2>1. Flaws \subseteq Tree
    OBVIOUS
  <2> HIDE DEF Flaws
  <2>2. QED
    BY <1>1, <2>1, FirstFlaw
<1>3. b \in Tree /\ ~StandsOn(b) /\ Root \in Tree
  BY DEF Tree
<1>4. CASE b = Root
  <2>1. OldChain!Path[b] = <<Root>>
    BY <1>4, PathStep
  <2>2. OldChain!Height(b) = 0
    BY <2>1 DEF OldChain!Height
  <2>3. Len(<<Root>>) = 1 /\ <<Root>>[1] = Root /\ <<Root>> \in Seq(Tree)
    BY <1>3
  <2>4. \A i \in 1..1 : i = 1
    OBVIOUS
  <2> HIDE DEF Root
  <2>5. QED
    BY <1>3, <1>4, <2>1, <2>2, <2>3, <2>4 DEF StandsOn
<1>5. CASE b # Root
  <2>1. b \in ForkBlocks /\ ForkParent[b] \in Tree /\ StandsOn(ForkParent[b])
    BY <1>2, <1>3, <1>5 DEF Tree
  <2>2. PICK p : p = OldChain!Path[ForkParent[b]]
    OBVIOUS
  <2>3. PICK q : q = OldChain!Path[b]
    OBVIOUS
  <2>4. q = Append(p, b)
    BY <2>1, <2>2, <2>3, PathStep
  <2>5. /\ p \in Seq(Tree) /\ Len(p) >= 1 /\ p[1] = Root
        /\ \A i \in 1..Len(p) : OldChain!Height(p[i]) = i - 1
        /\ \A K \in SUBSET Tree : Closed(K) /\ ForkParent[b] \in K => \A i \in 1..Len(p) : p[i] \in K
    BY <2>1, <2>2 DEF StandsOn
  <2>6. /\ q \in Seq(Tree) /\ Len(q) = Len(p) + 1 /\ q[Len(q)] = b
        /\ \A i \in 1..Len(p) : q[i] = p[i]
    BY <2>4, <2>5, <1>3
  <2>7. Len(p) \in Nat /\ Len(q) >= 1 /\ q[1] = Root
    BY <2>5, <2>6
  <2>8. \A i \in 1..Len(q) : i \in 1..Len(p) \/ i = Len(q)
    BY <2>6, <2>7
  <2>9. OldChain!Height(b) = Len(q) - 1
    BY <2>3 DEF OldChain!Height
  <2>10. \A i \in 1..Len(q) : OldChain!Height(q[i]) = i - 1
    BY <2>5, <2>6, <2>8, <2>9
  <2>11. ASSUME NEW K \in SUBSET Tree, Closed(K), b \in K, NEW i \in 1..Len(q)
         PROVE  q[i] \in K
    <3>1. ForkParent[b] \in K
      BY <2>11, <2>1 DEF Closed
    <3>2. QED
      BY <3>1, <2>5, <2>6, <2>8, <2>11
  <2>12. QED
    BY <1>3, <2>3, <2>6, <2>7, <2>10, <2>11 DEF StandsOn
<1>6. QED
  BY <1>4, <1>5

-----------------------------------------------------------------------------
(* The state of a chain, in memory or in a file *)

\* The main chain is the path to a highest block of a tree that is closed
\* under the block before.
WellKept(c) ==
    /\ c = [nodes |-> c.nodes, tip |-> c.tip, main |-> c.main,
            confirmed |-> c.confirmed, orphaned |-> c.orphaned]
    /\ Closed(c.nodes) /\ c.tip \in c.nodes
    /\ c.main = OldChain!Path[c.tip]
    /\ \A b \in c.nodes : OldChain!Height(b) <= OldChain!Height(c.tip)
    /\ Root \in c.confirmed

\* The blocks of the main chain up to the confirmed index are confirmed.
DeepConfirmed(c) ==
    \A i \in 1..Len(c.main) : i - 1 <= OldChain!ConfirmedIndex(c) => c.main[i] \in c.confirmed

\* What can be loaded was once in memory.
FileKept(v) ==
    \/ v = OldChain!Absent \/ v = OldChain!Torn
    \/ \E c : v = OldChain!Whole(c) /\ WellKept(c) /\ DeepConfirmed(c)

FilesKept(d) ==
    /\ d = [f \in {"json", "jsonMeta", "pkl", "pklMeta"} |-> d[f]]
    /\ \A f \in {"json", "jsonMeta", "pkl", "pklMeta"} : FileKept(d[f])

ChainInv ==
    /\ WellKept(chain) /\ DeepConfirmed(chain)
    /\ chain = OldChain!Loaded(disk)
    /\ FilesKept(disk)
    /\ reloads \in Nat

LEMMA HeightsNatural ==
    ASSUME ChainAssumption
    PROVE  /\ \A b \in Tree : OldChain!Height(b) \in Nat /\ Len(OldChain!Path[b]) = OldChain!Height(b) + 1
           /\ OldChain!Height(Root) = 0
           /\ \A b \in ForkBlocks : OldChain!Height(b) = OldChain!Height(ForkParent[b]) + 1
<1>1. ASSUME NEW b \in Tree
      PROVE  OldChain!Height(b) \in Nat /\ Len(OldChain!Path[b]) = OldChain!Height(b) + 1
  <2>1. OldChain!Path[b] \in Seq(Tree) /\ Len(OldChain!Path[b]) >= 1
    BY PathsStand DEF StandsOn
  <2>2. Len(OldChain!Path[b]) \in Nat
    BY <2>1
  <2>3. QED
    BY <2>1, <2>2 DEF OldChain!Height
<1>2. OldChain!Height(Root) = 0
  <2>1. OldChain!Path[Root] = <<Root>>
    BY PathStep
  <2>2. Len(<<Root>>) = 1
    OBVIOUS
  <2> HIDE DEF Root
  <2>3. QED
    BY <2>1, <2>2 DEF OldChain!Height
<1>3. ASSUME NEW b \in ForkBlocks PROVE OldChain!Height(b) = OldChain!Height(ForkParent[b]) + 1
  <2>1. b \in Tree /\ ForkParent[b] \in Tree
    BY DEF Tree, ChainAssumption
  <2>2. OldChain!Path[ForkParent[b]] \in Seq(Tree)
    BY <2>1, PathsStand DEF StandsOn
  <2>3. Len(OldChain!Path[b]) = Len(OldChain!Path[ForkParent[b]]) + 1
    BY <2>1, <2>2, PathStep
  <2>4. QED
    BY <2>1, <2>2, <2>3 DEF OldChain!Height
<1>4. QED
  BY <1>1, <1>2, <1>3

LEMMA FreshKept ==
    ASSUME ChainAssumption
    PROVE  WellKept(OldChain!Fresh) /\ DeepConfirmed(OldChain!Fresh)
<1>1. PICK c : c = OldChain!Fresh
  OBVIOUS
<1>2. c = [nodes |-> {Root}, tip |-> Root, main |-> <<Root>>, confirmed |-> {Root}, orphaned |-> {}]
  BY <1>1 DEF OldChain!Fresh, Root
<1>3. OldChain!Path[Root] = <<Root>> /\ OldChain!Height(Root) = 0
  BY PathStep, HeightsNatural
<1>4. Closed({Root})
  BY DEF Closed, Tree, ChainAssumption
<1> HIDE DEF Root
<1>5. WellKept(c)
  BY <1>2, <1>3, <1>4 DEF WellKept
<1>6. DeepConfirmed(c)
  BY <1>2 DEF DeepConfirmed
<1>7. QED
  BY <1>1, <1>5, <1>6

\* Settling confirms what is deep enough, and moves nothing else.
LEMMA SettledKept ==
    ASSUME ChainAssumption, NEW c, WellKept(c)
    PROVE  /\ WellKept(OldChain!Settled(c)) /\ DeepConfirmed(OldChain!Settled(c))
           /\ OldChain!Settled(c).main = c.main
<1>1. PICK k : k = OldChain!ConfirmedIndex(c)
  OBVIOUS
<1>2. PICK s : s = OldChain!Settled(c)
  OBVIOUS
<1>3. PICK n, t, m, conf, orph : c = [nodes |-> n, tip |-> t, main |-> m, confirmed |-> conf, orphaned |-> orph]
  BY DEF WellKept
<1>4. /\ Closed(n) /\ t \in n /\ m = OldChain!Path[t] /\ Root \in conf
      /\ \A b \in n : OldChain!Height(b) <= OldChain!Height(t)
  BY <1>3 DEF WellKept
<1>5. t \in Tree /\ m \in Seq(Tree) /\ n \in SUBSET Tree
  BY <1>4, PathsStand DEF Closed, StandsOn
<1>6. /\ m[1] = Root
      /\ \A i \in 1..Len(m) : m[i] \in n /\ OldChain!Height(m[i]) = i - 1
  BY <1>4, <1>5, PathsStand DEF StandsOn
<1>7. k \in Nat
  BY <1>1, <1>3, <1>5 DEF OldChain!ConfirmedIndex, ChainAssumption
<1>8. CASE k = 0
  <2>1. s = c
    BY <1>1, <1>2, <1>8 DEF OldChain!Settled
  <2>2. ASSUME NEW i \in 1..Len(m), i - 1 <= k PROVE m[i] \in conf
    <3>1. i = 1
      BY <2>2, <1>8, <1>5
    <3>2. QED
      BY <3>1, <1>4, <1>6
  <2>3. DeepConfirmed(c)
    BY <2>2, <1>1, <1>3 DEF DeepConfirmed
  <2>4. QED
    BY <1>2, <2>1, <2>3
<1>9. CASE k # 0
  <2> DEFINE deep == {b \in n : OldChain!Height(b) <= k}
             stale == {b \in n \ deep : OldChain!Height(b) + MaxForkHeight < OldChain!Height(t)}
  <2>1. s = [nodes |-> n, tip |-> t, main |-> m, confirmed |-> conf \cup deep, orphaned |-> orph \cup stale]
    BY <1>1, <1>2, <1>3, <1>9 DEF OldChain!Settled
  <2>2. OldChain!ConfirmedIndex(s) = k
    BY <1>1, <1>3, <2>1 DEF OldChain!ConfirmedIndex
  <2>3. \A i \in 1..Len(m) : i - 1 <= k => m[i] \in deep
    BY <1>6
  <2> HIDE DEF deep, stale
  <2>4. DeepConfirmed(s)
    BY <2>1, <2>2, <2>3 DEF DeepConfirmed
  <2>5. WellKept(s)
    BY <2>1, <1>4 DEF WellKept
  <2>6. QED
    BY <1>2, <1>3, <2>1, <2>4, <2>5
<1>10. QED
  BY <1>8, <1>9

\* A block is added on top of the main chain, or to a fork.
LEMMA AddedKept ==
    ASSUME ChainAssumption, NEW c, WellKept(c), NEW b \in ForkBlocks, ForkParent[b] \in c.nodes
    PROVE  LET new == OldChain!Added(c, b)
           IN  /\ WellKept(new) /\ DeepConfirmed(new)
               /\ OldChain!IsPrefix(c.main, new.main) \/ Len(new.main) > Len(c.main)
<1>1. PICK n, t, m, conf, orph : c = [nodes |-> n, tip |-> t, main |-> m, confirmed |-> conf, orphaned |-> orph]
  BY DEF WellKept
<1>2. /\ Closed(n) /\ t \in n /\ m = OldChain!Path[t] /\ Root \in conf
      /\ \A x \in n : OldChain!Height(x) <= OldChain!Height(t)
  BY <1>1 DEF WellKept
<1>3. t \in Tree /\ m \in Seq(Tree) /\ b \in Tree /\ ForkParent[b] \in n /\ ForkParent[b] \in Tree
  BY <1>1, <1>2, PathsStand DEF Closed, StandsOn, Tree
<1>4. Closed(n \cup {b})
  BY <1>2, <1>3 DEF Closed
<1>5. /\ \A x \in Tree : OldChain!Height(x) \in Nat
      /\ OldChain!Height(b) = OldChain!Height(ForkParent[b]) + 1
      /\ Len(m) = OldChain!Height(t) + 1
  BY <1>2, <1>3, HeightsNatural
<1>6. n \subseteq Tree
  BY <1>2 DEF Closed
<1>7. OldChain!IsPrefix(m, m)
  BY <1>3 DEF OldChain!IsPrefix
<1>8. CASE ForkParent[b] = t
  <2>1. PICK d : d = OldChain!Extended(c, b)
    OBVIOUS
  <2>2. d = [nodes |-> n \cup {b}, tip |-> b, main |-> Append(m, b), confirmed |-> conf, orphaned |-> orph]
    BY <1>1, <2>1 DEF OldChain!Extended
  <2>3. Append(m, b) = OldChain!Path[b]
    BY <1>2, <1>8, PathStep
  <2>4. \A x \in n \cup {b} : OldChain!Height(x) <= OldChain!Height(b)
    BY <1>2, <1>3, <1>5, <1>6, <1>8
  <2>5. WellKept(d)
    BY <2>2, <2>3, <2>4, <1>2, <1>4 DEF WellKept
  <2>6. OldChain!Added(c, b) = OldChain!Settled(d)
    BY <1>1, <1>8, <2>1 DEF OldChain!Added
  <2>7. Len(Append(m, b)) > Len(m)
    BY <1>3
  <2>8. QED
    BY <1>1, <2>2, <2>5, <2>6, <2>7, SettledKept
<1>9. CASE ForkParent[b] # t /\ OldChain!Height(b) > OldChain!Height(t)
  <2>1. PICK d : d = OldChain!Forked(c, b)
    OBVIOUS
  <2>2. d = [nodes |-> n \cup {b}, tip |-> b, main |-> OldChain!Path[b], confirmed |-> conf, orphaned |-> orph]
    BY <1>1, <1>9, <2>1 DEF OldChain!Forked, OldChain!Longer, OldChain!Switched
  <2>3. \A x \in n \cup {b} : OldChain!Height(x) <= OldChain!Height(b)
    BY <1>2, <1>3, <1>5, <1>6, <1>9
  <2>4. WellKept(d)
    BY <2>2, <2>3, <1>2, <1>4 DEF WellKept
  <2>5. OldChain!Added(c, b) = OldChain!Settled(d)
    BY <1>1, <1>9, <2>1 DEF OldChain!Added
  <2>6. Len(OldChain!Path[b]) > Len(m)
    BY <1>3, <1>5, <1>9, HeightsNatural
  <2>7. QED
    BY <1>1, <2>2, <2>4, <2>5, <2>6, SettledKept
<1>10. CASE ForkParent[b] # t /\ ~(OldChain!Height(b) > OldChain!Height(t))
  <2>1. PICK d : d = OldChain!Forked(c, b)
    OBVIOUS
  <2>2. d = [nodes |-> n \cup {b}, tip |-> t, main |-> m, confirmed |-> conf, orphaned |-> orph]
    BY <1>1, <1>10, <2>1 DEF OldChain!Forked, OldChain!Longer
  <2>3. \A x \in n \cup {b} : OldChain!Height(x) <= OldChain!Height(t)
    BY <1>2, <1>3, <1>5, <1>10
  <2>4. WellKept(d)
    BY <2>2, <2>3, <1>2, <1>4 DEF WellKept
  <2>5. OldChain!Added(c, b) = OldChain!Settled(d)
    BY <1>1, <1>10, <2>1 DEF OldChain!Added
  <2>6. QED
    BY <1>1, <1>7, <2>2, <2>4, <2>5, SettledKept
<1>11. QED
  BY <1>8, <1>9, <1>10

-----------------------------------------------------------------------------
(* The steps *)

\* What a start loads is a chain that was kept.
LEMMA LoadedKept ==
    ASSUME ChainAssumption, NEW d, FilesKept(d)
    PROVE  WellKept(OldChain!Loaded(d)) /\ DeepConfirmed(OldChain!Loaded(d))
<1>1. ASSUME NEW v, FileKept(v), v.state = "whole"
      PROVE  WellKept(v.of) /\ DeepConfirmed(v.of)
  <2>1. OldChain!Absent.state # "whole" /\ OldChain!Torn.state # "whole"
    BY DEF OldChain!Absent, OldChain!Torn
  <2>2. PICK c : v = OldChain!Whole(c) /\ WellKept(c) /\ DeepConfirmed(c)
    BY <1>1, <2>1 DEF FileKept
  <2>3. v.of = c
    BY <2>2 DEF OldChain!Whole
  <2>4. QED
    BY <2>2, <2>3
<1>2. FileKept(d.pkl) /\ FileKept(d.json)
  BY DEF FilesKept
<1>3. CASE d.pkl.state = "whole" /\ d.pklMeta.state = "whole"
  BY <1>1, <1>2, <1>3 DEF OldChain!Loaded
<1>4. CASE ~(d.pkl.state = "whole" /\ d.pklMeta.state = "whole")
           /\ d.json.state = "whole" /\ d.jsonMeta.state = "whole"
  BY <1>1, <1>2, <1>4 DEF OldChain!Loaded
<1>5. CASE ~(d.pkl.state = "whole" /\ d.pklMeta.state = "whole")
           /\ ~(d.json.state = "whole" /\ d.jsonMeta.state = "whole")
  <2>1. OldChain!Loaded(d) = OldChain!Fresh
    BY <1>5 DEF OldChain!Loaded
  <2>2. QED
    BY <2>1, FreshKept
<1>6. QED
  BY <1>3, <1>4, <1>5

\* The files in the order they are written.
LEMMA FilesInOrder ==
    /\ Len(OldChain!Files) = 4
    /\ OldChain!Files[1] = "json" /\ OldChain!Files[2] = "jsonMeta"
    /\ OldChain!Files[3] = "pkl" /\ OldChain!Files[4] = "pklMeta"
    /\ OldChain!ToSet(OldChain!Files) = {"json", "jsonMeta", "pkl", "pklMeta"}
<1>1. /\ Len(OldChain!Files) = 4
      /\ OldChain!Files[1] = "json" /\ OldChain!Files[2] = "jsonMeta"
      /\ OldChain!Files[3] = "pkl" /\ OldChain!Files[4] = "pklMeta"
      /\ DOMAIN OldChain!Files = 1..4
  BY DEF OldChain!Files
<1>2. \A i \in 1..4 : i = 1 \/ i = 2 \/ i = 3 \/ i = 4
  OBVIOUS
<1>3. OldChain!ToSet(OldChain!Files) = {OldChain!Files[i] : i \in 1..4}
  BY <1>1 DEF OldChain!ToSet
<1>4. QED
  BY <1>1, <1>2, <1>3

\* What a save leaves in each file when k of the four were written.
WrittenUpTo(new, d, c, k, last) ==
    /\ new = [f \in {"json", "jsonMeta", "pkl", "pklMeta"} |-> new[f]]
    /\ new.json = IF k >= 1 THEN OldChain!Whole(c) ELSE last
    /\ new.jsonMeta = IF k >= 2 THEN OldChain!Whole(c) ELSE IF k = 1 THEN last ELSE d.jsonMeta
    /\ new.pkl = IF k >= 3 THEN OldChain!Whole(c) ELSE IF k = 2 THEN last ELSE d.pkl
    /\ new.pklMeta = IF k = 4 THEN OldChain!Whole(c) ELSE IF k = 3 THEN last ELSE d.pklMeta

LEMMA SavedFiles ==
    ASSUME NEW d, NEW c, NEW k \in 0..4, NEW last
    PROVE  WrittenUpTo(OldChain!Saved(d, c, k, last), d, c, k, last)
<1> SUFFICES ASSUME NEW new, new = OldChain!Saved(d, c, k, last)
             PROVE  WrittenUpTo(new, d, c, k, last)
  OBVIOUS
<1>1. new = [f \in {"json", "jsonMeta", "pkl", "pklMeta"} |->
               CASE \E i \in 1..k : OldChain!Files[i] = f -> OldChain!Whole(c)
                 [] k < 4 /\ OldChain!Files[k + 1] = f -> last
                 [] OTHER -> d[f]]
  BY FilesInOrder DEF OldChain!Saved
<1>2. CASE k = 0
  <2>1. 1..k = {} /\ OldChain!Files[k + 1] = "json" /\ k < 4
    BY <1>2, FilesInOrder
  <2>2. QED
    BY <1>1, <1>2, <2>1 DEF WrittenUpTo
<1>3. CASE k = 1
  <2>1. 1..k = {1} /\ OldChain!Files[k + 1] = "jsonMeta" /\ k < 4
    BY <1>3, FilesInOrder
  <2>2. QED
    BY <1>1, <1>3, <2>1, FilesInOrder DEF WrittenUpTo
<1>4. CASE k = 2
  <2>1. 1..k = {1, 2} /\ OldChain!Files[k + 1] = "pkl" /\ k < 4
    BY <1>4, FilesInOrder
  <2>2. QED
    BY <1>1, <1>4, <2>1, FilesInOrder DEF WrittenUpTo
<1>5. CASE k = 3
  <2>1. 1..k = {1, 2, 3} /\ OldChain!Files[k + 1] = "pklMeta" /\ k < 4
    BY <1>5, FilesInOrder
  <2>2. QED
    BY <1>1, <1>5, <2>1, FilesInOrder DEF WrittenUpTo
<1>6. CASE k = 4
  <2>1. 1..k = {1, 2, 3, 4} /\ ~(k < 4)
    BY <1>6
  <2>2. QED
    BY <1>1, <1>6, <2>1, FilesInOrder DEF WrittenUpTo
<1>7. QED
  BY <1>2, <1>3, <1>4, <1>5, <1>6

LEMMA SavedKept ==
    ASSUME NEW d, FilesKept(d), NEW c, WellKept(c), DeepConfirmed(c), NEW k \in 0..4,
           NEW last, FileKept(last)
    PROVE  FilesKept(OldChain!Saved(d, c, k, last))
<1>1. PICK new : new = OldChain!Saved(d, c, k, last)
  OBVIOUS
<1>2. FileKept(OldChain!Whole(c))
  BY DEF FileKept
<1>3. /\ new = [f \in {"json", "jsonMeta", "pkl", "pklMeta"} |-> new[f]]
      /\ new.json \in {OldChain!Whole(c), last, d.json}
      /\ new.jsonMeta \in {OldChain!Whole(c), last, d.jsonMeta}
      /\ new.pkl \in {OldChain!Whole(c), last, d.pkl}
      /\ new.pklMeta \in {OldChain!Whole(c), last, d.pklMeta}
  <2>1. WrittenUpTo(new, d, c, k, last)
    BY <1>1, SavedFiles
  <2>2. QED
    BY <2>1 DEF WrittenUpTo
<1>4. FileKept(d.json) /\ FileKept(d.jsonMeta) /\ FileKept(d.pkl) /\ FileKept(d.pklMeta)
  BY DEF FilesKept
<1>5. FileKept(new.json) /\ FileKept(new.jsonMeta) /\ FileKept(new.pkl) /\ FileKept(new.pklMeta)
  BY <1>2, <1>3, <1>4
<1>6. QED
  BY <1>1, <1>3, <1>5 DEF FilesKept

\* When the files agreed, a save that was cut anywhere leaves the old chain or
\* the new one.
LEMMA CutSaveLoads ==
    ASSUME NEW d, NEW v, d.json = v, d.jsonMeta = v, d.pkl = v, d.pklMeta = v,
           NEW c, NEW k \in 0..3, NEW last \in {OldChain!Torn, v}
    PROVE  LET new == OldChain!Loaded(OldChain!Saved(d, c, k, last))
           IN  new = OldChain!Loaded(d) \/ new = c
<1>1. PICK new : new = OldChain!Saved(d, c, k, last)
  OBVIOUS
<1>2. /\ new.json = IF k >= 1 THEN OldChain!Whole(c) ELSE last
      /\ new.jsonMeta = IF k >= 2 THEN OldChain!Whole(c) ELSE IF k = 1 THEN last ELSE v
      /\ new.pkl = IF k >= 3 THEN OldChain!Whole(c) ELSE IF k = 2 THEN last ELSE v
      /\ new.pklMeta = IF k = 3 THEN last ELSE v
  <2>1. k \in 0..4 /\ k # 4
    OBVIOUS
  <2>2. WrittenUpTo(new, d, c, k, last)
    BY <1>1, <2>1, SavedFiles
  <2>3. QED
    BY <2>1, <2>2 DEF WrittenUpTo
<1>3. OldChain!Torn.state # "whole" /\ OldChain!Whole(c).state = "whole" /\ OldChain!Whole(c).of = c
  BY DEF OldChain!Torn, OldChain!Whole
<1>4. k = 0 \/ k = 1 \/ k = 2 \/ k = 3
  OBVIOUS
<1>5. OldChain!Loaded(new) = IF new.pkl.state = "whole" /\ new.pklMeta.state = "whole" THEN new.pkl.of
                             ELSE IF new.json.state = "whole" /\ new.jsonMeta.state = "whole" THEN new.json.of
                             ELSE OldChain!Fresh
  BY DEF OldChain!Loaded
<1>6. OldChain!Loaded(d) = IF v.state = "whole" THEN v.of ELSE OldChain!Fresh
  BY DEF OldChain!Loaded
<1>7. OldChain!Loaded(new) = OldChain!Loaded(d) \/ OldChain!Loaded(new) = c
  BY <1>2, <1>3, <1>4, <1>5, <1>6
<1>8. QED
  BY <1>1, <1>7

LEMMA ChainInvInit ==
    ASSUME ChainAssumption, OldChain!Init
    PROVE  ChainInv
<1>1. disk = [f \in {"json", "jsonMeta", "pkl", "pklMeta"} |-> OldChain!Absent]
  BY FilesInOrder DEF OldChain!Init
<1>2. OldChain!Loaded(disk) = OldChain!Fresh
  BY <1>1 DEF OldChain!Loaded, OldChain!Absent
<1>3. FilesKept(disk)
  BY <1>1 DEF FilesKept, FileKept
<1>4. QED
  BY <1>1, <1>2, <1>3, FreshKept DEF OldChain!Init, ChainInv

\* What a step may do to the main chain.
Keeps ==
    /\ reloads' = reloads => \/ OldChain!IsPrefix(chain.main, chain'.main)
                             \/ Len(chain'.main) > Len(chain.main)
    /\ reloads' # reloads => \/ chain' = chain
                             \/ \E b \in ForkBlocks : chain' = OldChain!Added(chain, b)
                             \/ \E f, g \in {"json", "jsonMeta", "pkl", "pklMeta"} : disk[f] # disk[g]

LEMMA ChainInvStep ==
    ASSUME ChainAssumption, ChainInv, [OldChain!Next]_OldChain!chainVars
    PROVE  ChainInv' /\ (UNCHANGED OldChain!chainVars \/ Keeps)
<1>1. /\ WellKept(chain) /\ DeepConfirmed(chain) /\ chain = OldChain!Loaded(disk)
      /\ FilesKept(disk)
      /\ reloads \in Nat
  BY DEF ChainInv
<1>2. FileKept(OldChain!Torn)
  BY DEF FileKept
<1>3. ASSUME NEW b \in ForkBlocks, OldChain!AddBlock(b)
      PROVE  ChainInv' /\ Keeps
  <2>1. PICK new : new = OldChain!Added(chain, b)
    OBVIOUS
  <2>2. PICK files : files = OldChain!Saved(disk, new, 4, OldChain!Torn)
    OBVIOUS
  <2>3. chain' = new /\ disk' = files /\ reloads' = reloads /\ ForkParent[b] \in chain.nodes
    BY <1>3, <2>1, <2>2, FilesInOrder DEF OldChain!AddBlock
  <2>4. /\ WellKept(new) /\ DeepConfirmed(new)
        /\ OldChain!IsPrefix(chain.main, new.main) \/ Len(new.main) > Len(chain.main)
    BY <1>1, <2>1, <2>3, AddedKept
  <2>5. FilesKept(files)
    BY <1>1, <1>2, <2>2, <2>4, SavedKept
  <2>6. files.pkl = OldChain!Whole(new) /\ files.pklMeta = OldChain!Whole(new)
    <3>1. WrittenUpTo(files, disk, new, 4, OldChain!Torn)
      BY <2>2, SavedFiles
    <3>2. QED
      BY <3>1 DEF WrittenUpTo
  <2>7. new = OldChain!Loaded(files)
    BY <2>6 DEF OldChain!Loaded, OldChain!Whole
  <2>8. ChainInv'
    BY <1>1, <2>3, <2>4, <2>5, <2>7 DEF ChainInv
  <2>9. QED
    BY <2>3, <2>4, <2>8 DEF Keeps
<1>4. ASSUME NEW b \in ForkBlocks, NEW k \in 0..(Len(OldChain!Files) - 1), OldChain!CrashInSave(b, k)
      PROVE  ChainInv' /\ Keeps
  <2>1. k \in 0..3 /\ k \in 0..4 /\ OldChain!Files[k + 1] \in {"json", "jsonMeta", "pkl", "pklMeta"}
    <3>1. k = 0 \/ k = 1 \/ k = 2 \/ k = 3
      BY FilesInOrder
    <3>2. QED
      BY <3>1, FilesInOrder
  <2>2. PICK new : new = OldChain!Added(chain, b)
    OBVIOUS
  <2>3. PICK last \in {OldChain!Torn, disk[OldChain!Files[k + 1]]} :
                disk' = OldChain!Saved(disk, new, k, last)
    BY <1>4, <2>2 DEF OldChain!CrashInSave
  <2>4. PICK files : files = OldChain!Saved(disk, new, k, last)
    OBVIOUS
  <2>5. disk' = files /\ chain' = OldChain!Loaded(files) /\ reloads' = reloads + 1 /\ ForkParent[b] \in chain.nodes
    BY <1>4, <2>3, <2>4 DEF OldChain!CrashInSave
  <2>6. WellKept(new) /\ DeepConfirmed(new)
    BY <1>1, <2>2, <2>5, AddedKept
  <2>7. FileKept(last)
    BY <1>1, <1>2, <2>1 DEF FilesKept
  <2>8. FilesKept(files)
    BY <1>1, <2>1, <2>4, <2>6, <2>7, SavedKept
  <2>9. WellKept(OldChain!Loaded(files)) /\ DeepConfirmed(OldChain!Loaded(files))
    BY <2>8, LoadedKept
  <2>10. ChainInv'
    BY <1>1, <2>5, <2>8, <2>9 DEF ChainInv
  <2>11. ASSUME \A f, g \in {"json", "jsonMeta", "pkl", "pklMeta"} : disk[f] = disk[g]
         PROVE  chain' = chain \/ chain' = new
    <3>1. PICK v : v = disk.json
      OBVIOUS
    <3>2. disk.json = v /\ disk.jsonMeta = v /\ disk.pkl = v /\ disk.pklMeta = v
      BY <2>11, <3>1
    <3>3. last \in {OldChain!Torn, v}
      BY <2>1, <2>11, <3>1
    <3>4. OldChain!Loaded(files) = OldChain!Loaded(disk) \/ OldChain!Loaded(files) = new
      BY <2>1, <2>4, <3>2, <3>3, CutSaveLoads
    <3>5. QED
      BY <1>1, <2>5, <3>4
  <2>12. reloads' # reloads
    BY <1>1, <2>5
  <2>13. QED
    BY <2>2, <2>10, <2>11, <2>12 DEF Keeps
<1>5. ASSUME OldChain!Restart PROVE ChainInv' /\ Keeps
  <2>1. chain' = chain /\ disk' = disk /\ reloads' = reloads + 1
    BY <1>1, <1>5 DEF OldChain!Restart
  <2>2. ChainInv'
    BY <1>1, <2>1 DEF ChainInv
  <2>3. reloads' # reloads
    BY <1>1, <2>1
  <2>4. QED
    BY <2>1, <2>2, <2>3 DEF Keeps
<1>6. ASSUME UNCHANGED OldChain!chainVars PROVE ChainInv'
  BY <1>1, <1>6 DEF ChainInv, OldChain!chainVars
<1>7. QED
  BY <1>3, <1>4, <1>5, <1>6 DEF OldChain!Next

\* For any tree of blocks, any confirmation depth and any number of crashes, the
\* main chain is the path to a highest block and confirmed as far as it is
\* deep, blocks leave it only for a longer chain, and a crash after a completed
\* save leaves the chain before or after the addition it cut
\* (Blockchain.py: add_block, save_to_storage, _load_from_storage).
THEOREM LongestChain == ChainAssumption => (OldChain!Spec => LongestChainKept)
<1> SUFFICES ASSUME ChainAssumption PROVE OldChain!Spec => LongestChainKept
  OBVIOUS
<1>1. OldChain!Init => ChainInv
  BY ChainInvInit
<1>2. ChainInv /\ [OldChain!Next]_OldChain!chainVars => ChainInv'
  BY ChainInvStep
<1>3. ChainInv => OldChain!MainChainLongest
  BY DEF ChainInv, WellKept, DeepConfirmed, OldChain!MainChainLongest
<1>4. ChainInv /\ [OldChain!Next]_OldChain!chainVars =>
        [ /\ reloads' = reloads => \/ OldChain!IsPrefix(chain.main, chain'.main)
                                   \/ Len(chain'.main) > Len(chain.main)
          /\ reloads' # reloads => \/ chain' = chain
                                   \/ \E b \in ForkBlocks : chain' = OldChain!Added(chain, b)
                                   \/ \E f, g \in OldChain!ToSet(OldChain!Files) : disk[f] # disk[g]
        ]_OldChain!chainVars
  BY ChainInvStep, FilesInOrder DEF Keeps
<1>5. QED
  BY <1>1, <1>2, <1>3, <1>4, PTL DEF OldChain!Spec, LongestChainKept, OldChain!LongestChainKept, OldChain!LosesAtMostLast

-----------------------------------------------------------------------------
(* The V1 transaction pool *)

\* How many of the positions D are not after i.
Rank(D, i) == Cardinality({j \in D : j <= i})

\* The k-th position of D exists, and it is one.
LEMMA Ranks ==
    ASSUME NEW n \in Nat, NEW D, D \subseteq 1..n
    PROVE  /\ Cardinality(D) \in Nat
           /\ \A i \in D : Rank(D, i) \in 1..Cardinality(D)
           /\ \A i, j \in D : Rank(D, i) = Rank(D, j) => i = j
           /\ \A k \in 1..Cardinality(D) : \E i \in D : Rank(D, i) = k
<1>1. IsFiniteSet(D) /\ Cardinality(D) \in Nat
  <2>1. IsFiniteSet(1..n)
    BY FS_Interval
  <2>2. IsFiniteSet(D)
    BY <2>1, FS_Subset
  <2>3. QED
    BY <2>2, FS_CardinalityType
<1>2. ASSUME NEW i \in D
      PROVE  /\ IsFiniteSet({j \in D : j <= i}) /\ Rank(D, i) \in Nat
             /\ Rank(D, i) \in 1..Cardinality(D)
  <2>1. {j \in D : j <= i} \subseteq D /\ i \in {j \in D : j <= i}
    OBVIOUS
  <2>2. IsFiniteSet({j \in D : j <= i}) /\ Cardinality({j \in D : j <= i}) <= Cardinality(D)
    BY <1>1, <2>1, FS_Subset
  <2>3. Cardinality({j \in D : j <= i}) \in Nat
    BY <2>2, FS_CardinalityType
  <2>4. Cardinality({j \in D : j <= i}) # 0
    BY <2>1, <2>2, FS_EmptySet
  <2>5. QED
    BY <1>1, <2>2, <2>3, <2>4 DEF Rank
<1>3. ASSUME NEW i \in D, NEW j \in D, i < j PROVE Rank(D, i) < Rank(D, j)
  <2>1. {k \in D : k <= i} \subseteq {k \in D : k <= j}
    <3>1. \A k \in D : k <= i => k <= j
      BY <1>3
    <3>2. QED
      BY <3>1
  <2>2. {k \in D : k <= i} # {k \in D : k <= j}
    <3>1. j \in {k \in D : k <= j} /\ j \notin {k \in D : k <= i}
      BY <1>3
    <3>2. QED
      BY <3>1
  <2>3. IsFiniteSet({k \in D : k <= j})
    BY <1>2
  <2>4. /\ Cardinality({k \in D : k <= i}) <= Cardinality({k \in D : k <= j})
        /\ Cardinality({k \in D : k <= i}) # Cardinality({k \in D : k <= j})
    BY <2>1, <2>2, <2>3, FS_Subset
  <2>5. Rank(D, i) \in Nat /\ Rank(D, j) \in Nat
    BY <1>2
  <2>6. QED
    BY <2>4, <2>5 DEF Rank
<1>4. ASSUME NEW i \in D, NEW j \in D, Rank(D, i) = Rank(D, j) PROVE i = j
  <2>1. Rank(D, i) \in Nat /\ Rank(D, j) \in Nat
    BY <1>2
  <2>2. i \in 1..n /\ j \in 1..n
    OBVIOUS
  <2>3. ~(i < j) /\ ~(j < i)
    BY <1>3, <1>4, <2>1
  <2>4. QED
    BY <2>3, <2>2
<1>5. ASSUME NEW k \in 1..Cardinality(D) PROVE \E i \in D : Rank(D, i) = k
  <2> DEFINE r == [i \in D |-> Rank(D, i)]
  <2>1. r \in Injection(D, 1..Cardinality(D))
    <3>1. r \in [D -> 1..Cardinality(D)]
      BY <1>2
    <3>2. \A i, j \in D : r[i] = r[j] => i = j
      BY <1>4
    <3>3. QED
      BY <3>1, <3>2 DEF Injection, IsInjective
  <2>2. IsFiniteSet(1..Cardinality(D)) /\ Cardinality(1..Cardinality(D)) = Cardinality(D)
    <3>1. 1 \in Int /\ Cardinality(D) \in Int
      BY <1>1
    <3>2. /\ IsFiniteSet(1..Cardinality(D))
          /\ Cardinality(1..Cardinality(D)) = IF 1 > Cardinality(D) THEN 0 ELSE Cardinality(D) - 1 + 1
      BY <3>1, FS_Interval
    <3>3. QED
      BY <1>1, <3>2
  <2>3. r \in Surjection(D, 1..Cardinality(D))
    <3> HIDE DEF r
    <3>1. QED
      BY <2>1, <2>2, FS_Injection
  <2>4. PICK i \in D : r[i] = k
    BY <2>3 DEF Surjection
  <2>5. QED
    BY <2>4
<1>6. QED
  BY <1>1, <1>2, <1>4, <1>5

\* The elements of o are those of q at the positions D, each once.
Picks(o, q, D, f) ==
    /\ Len(o) \in Nat /\ o = [k \in 1..Len(o) |-> q[f[k]]]
    /\ f \in [1..Len(o) -> D]
    /\ \A k, m \in 1..Len(o) : f[k] = f[m] => k = m
    /\ \A i \in D : \E k \in 1..Len(o) : f[k] = i

LEMMA OnlyPicks ==
    ASSUME NEW n \in Nat, NEW D, D \subseteq 1..n, NEW q
    PROVE  \E f : Picks(Pool!Only(q, D), q, D, f)
<1> DEFINE c == Cardinality(D)
           f == [k \in 1..c |-> CHOOSE i \in D : Pool!Cardinality({j \in D : j <= i}) = k]
           o == Pool!Only(q, D)
<1>1. /\ c \in Nat
      /\ \A i \in D : Rank(D, i) \in 1..c
      /\ \A i, j \in D : Rank(D, i) = Rank(D, j) => i = j
      /\ \A k \in 1..c : \E i \in D : Rank(D, i) = k
  BY Ranks
<1>2. \A S : Pool!Cardinality(S) = Cardinality(S)
  BY DEF Pool!Cardinality, Cardinality
<1>3. o = [k \in 1..c |-> q[CHOOSE i \in D : Pool!Cardinality({j \in D : j <= i}) = k]]
  BY <1>2 DEF Pool!Only
<1> HIDE DEF o, c
<1>4. \A k \in 1..c : f[k] \in D /\ Rank(D, f[k]) = k
  <2>1. \A i \in D : Pool!Cardinality({j \in D : j <= i}) = Rank(D, i)
    BY <1>2 DEF Rank
  <2>2. SUFFICES ASSUME NEW k \in 1..c PROVE f[k] \in D /\ Rank(D, f[k]) = k
    OBVIOUS
  <2>3. f[k] = CHOOSE i \in D : Pool!Cardinality({j \in D : j <= i}) = k
    OBVIOUS
  <2>4. \E i \in D : Pool!Cardinality({j \in D : j <= i}) = k
    BY <1>1, <2>1
  <2> HIDE DEF f
  <2>5. f[k] \in D /\ Pool!Cardinality({j \in D : j <= f[k]}) = k
    BY <2>3, <2>4
  <2>6. QED
    BY <2>1, <2>5
<1>5. o = [k \in 1..c |-> q[f[k]]]
  BY <1>3
<1> HIDE DEF f
<1>6. Len(o) = c
  <2>1. o \in Seq({q[f[k]] : k \in 1..c})
    BY <1>1, <1>5, IsASeq
  <2>2. DOMAIN o = 1..c
    BY <1>5
  <2>3. QED
    BY <1>1, <2>1, <2>2, LenProperties
<1>7. f \in [1..c -> D]
  <2>1. f = [k \in 1..c |-> CHOOSE i \in D : Pool!Cardinality({j \in D : j <= i}) = k]
    BY DEF f
  <2>2. QED
    BY <1>4, <2>1
<1>8. \A k, m \in 1..c : f[k] = f[m] => k = m
  BY <1>4
<1>9. \A i \in D : \E k \in 1..c : f[k] = i
  BY <1>1, <1>4
<1>10. Picks(o, q, D, f)
  BY <1>1, <1>5, <1>6, <1>7, <1>8, <1>9 DEF Picks
<1>11. QED
  BY <1>10 DEF o

\* Only keeps what stands at the positions D, and nothing else.
LEMMA OnlyKeeps ==
    ASSUME NEW S, NEW q \in Seq(S), NEW D, D \subseteq DOMAIN q
    PROVE  /\ Pool!Only(q, D) \in Seq(S)
           /\ \A i \in D : \E k \in DOMAIN Pool!Only(q, D) : Pool!Only(q, D)[k] = q[i]
           /\ \A k \in DOMAIN Pool!Only(q, D) : \E i \in D : Pool!Only(q, D)[k] = q[i]
<1>1. Len(q) \in Nat /\ D \subseteq 1..Len(q)
  BY LenProperties
<1>2. PICK f : Picks(Pool!Only(q, D), q, D, f)
  BY <1>1, OnlyPicks
<1> DEFINE o == Pool!Only(q, D)
<1>3. /\ Len(o) \in Nat /\ o = [k \in 1..Len(o) |-> q[f[k]]]
      /\ f \in [1..Len(o) -> D]
      /\ \A i \in D : \E k \in 1..Len(o) : f[k] = i
  BY <1>2 DEF Picks
<1> HIDE DEF o
<1>4. \A k \in 1..Len(o) : f[k] \in D /\ q[f[k]] \in S
  BY <1>3, <1>1, ElementOfSeq
<1>5. o \in Seq(S)
  BY <1>3, <1>4, IsASeq
<1>6. DOMAIN o = 1..Len(o)
  BY <1>3
<1>7. \A i \in D : \E k \in DOMAIN o : o[k] = q[i]
  <2>1. SUFFICES ASSUME NEW i \in D PROVE \E k \in DOMAIN o : o[k] = q[i]
    OBVIOUS
  <2>2. PICK k \in 1..Len(o) : f[k] = i
    BY <1>3
  <2>3. o[k] = q[f[k]]
    BY <1>3
  <2>4. QED
    BY <2>2, <2>3, <1>6
<1>8. \A k \in DOMAIN o : \E i \in D : o[k] = q[i]
  BY <1>3, <1>4, <1>6
<1>9. QED
  BY <1>5, <1>7, <1>8 DEF o

\* hash_index has a position of every queued submission.
LEMMA IndicesPoint ==
    ASSUME NEW S, NEW q \in Seq(S)
    PROVE  /\ DOMAIN Pool!Indices(q) = Pool!ToSet(q)
           /\ \A s \in Pool!ToSet(q) : /\ Pool!Indices(q)[s] \in DOMAIN q
                                       /\ q[Pool!Indices(q)[s]] = s
<1>1. SUFFICES ASSUME NEW s \in Pool!ToSet(q)
               PROVE  /\ Pool!Indices(q)[s] \in DOMAIN q
                      /\ q[Pool!Indices(q)[s]] = s
  BY DEF Pool!Indices
<1> DEFINE P == {i \in DOMAIN q : q[i] = s}
<1>2. Pool!Indices(q)[s] = Pool!Max(P)
  BY DEF Pool!Indices
<1>3. Len(q) \in Nat /\ DOMAIN q = 1..Len(q)
  BY LenProperties
<1>4. P # {}
  BY DEF Pool!ToSet
<1>5. \E m \in P : \A i \in P : m >= i
  <2> DEFINE T == {Len(q) - i : i \in P}
  <2>1. T \subseteq Nat /\ T # {}
    BY <1>3, <1>4
  <2>2. PICK m \in T : \A k \in T : m <= k
    <3> HIDE DEF T
    <3>1. QED
      BY <2>1, Least
  <2>3. PICK i \in P : m = Len(q) - i
    OBVIOUS
  <2>4. ASSUME NEW j \in P PROVE i >= j
    <3>1. Len(q) - j \in T
      OBVIOUS
    <3>2. m <= Len(q) - j
      BY <3>1, <2>2
    <3>3. i \in Nat /\ j \in Nat
      BY <1>3
    <3>4. QED
      BY <1>3, <2>3, <3>2, <3>3
  <2>5. QED
    BY <2>4
<1>6. Pool!Max(P) \in P
  <2> HIDE DEF P
  <2>1. QED
    BY <1>5 DEF Pool!Max
<1>7. QED
  BY <1>2, <1>6

\* RemoveAt drops what stands at i, and nothing else.
LEMMA RemoveDrops ==
    ASSUME NEW S, NEW q \in Seq(S), NEW i \in 1..Len(q)
    PROVE  /\ Pool!RemoveAt(q, i) \in Seq(S)
           /\ \A j \in DOMAIN q \ {i} : \E k \in DOMAIN Pool!RemoveAt(q, i) :
                 Pool!RemoveAt(q, i)[k] = q[j]
<1> DEFINE u == SubSeq(q, 1, i - 1)
           v == SubSeq(q, i + 1, Len(q))
<1>1. Len(q) \in Nat /\ DOMAIN q = 1..Len(q) /\ i \in Nat
  BY LenProperties
<1>2. /\ u \in Seq(S) /\ Len(u) = i - 1 /\ \A j \in 1..(i - 1) : u[j] = q[j]
      /\ v \in Seq(S) /\ Len(v) = Len(q) - i /\ \A j \in 1..(Len(q) - i) : v[j] = q[i + j]
  <2>1. \A j \in 1..(i - 1) : q[j] \in S
    BY <1>1, ElementOfSeq
  <2>2. \A j \in (i + 1)..Len(q) : q[j] \in S
    BY <1>1, ElementOfSeq
  <2>3. u \in Seq(S) /\ Len(u) = i - 1 /\ \A j \in 1..(i - 1) : u[j] = q[j]
    BY <1>1, <2>1
  <2>4. v \in Seq(S) /\ Len(v) = Len(q) - i /\ \A j \in 1..(Len(q) - i) : v[j] = q[i + j]
    <3>1. i + 1 \in Int /\ Len(q) \in Int /\ (i + 1 <= Len(q) <=> i < Len(q)) /\ i <= Len(q)
      BY <1>1
    <3>2. /\ v \in Seq(S)
          /\ Len(v) = IF i + 1 <= Len(q) THEN Len(q) - (i + 1) + 1 ELSE 0
          /\ \A j \in 1..(Len(q) - (i + 1) + 1) : v[j] = q[i + 1 + j - 1]
      BY <2>2, <3>1, SubSeqProperties
    <3>3. PICK n \in Nat : n = Len(q)
      BY <1>1
    <3>4. \A j \in 1..(n - i) : j \in 1..(n - (i + 1) + 1) /\ i + 1 + j - 1 = i + j
      BY <1>1
    <3>5. Len(v) = n - i
      <4>1. Len(v) = IF i + 1 <= n THEN n - (i + 1) + 1 ELSE 0
        BY <3>2, <3>3
      <4>2. i \in Nat /\ i <= n
        BY <1>1, <3>1, <3>3
      <4>3. QED
        BY <4>1, <4>2
    <3>6. QED
      BY <3>2, <3>3, <3>4, <3>5
  <2>5. QED
    BY <2>3, <2>4
<1>3. Pool!RemoveAt(q, i) = u \o v
  BY DEF Pool!RemoveAt
<1> HIDE DEF u, v
<1>4. /\ u \o v \in Seq(S) /\ Len(u \o v) = Len(u) + Len(v)
      /\ \A k \in 1..(Len(u) + Len(v)) : (u \o v)[k] = IF k <= Len(u) THEN u[k] ELSE v[k - Len(u)]
  BY <1>2, ConcatProperties
<1>5. Len(u) + Len(v) = Len(q) - 1
  BY <1>1, <1>2
<1>6. ASSUME NEW j \in DOMAIN q \ {i} PROVE \E k \in 1..(Len(q) - 1) : (u \o v)[k] = q[j]
  <2>1. PICK n \in Nat, m \in Nat : n = Len(q) /\ m = Len(u) /\ m = i - 1
    <3>1. Len(q) \in Nat /\ Len(u) \in Nat /\ Len(u) = i - 1
      BY <1>1, <1>2, LenProperties
    <3>2. QED
      BY <3>1
  <2>2. j \in 1..n /\ i \in 1..n /\ j # i
    BY <1>1, <2>1
  <2>3. CASE j < i
    <3>1. j \in 1..(i - 1) /\ j \in 1..(n - 1) /\ j <= m
      BY <2>1, <2>2, <2>3
    <3>2. (u \o v)[j] = u[j] /\ u[j] = q[j]
      BY <1>2, <1>4, <1>5, <2>1, <3>1
    <3>3. QED
      BY <2>1, <3>1, <3>2
  <2>4. CASE j > i
    <3>1. /\ j - i \in 1..(n - i) /\ i + (j - i) = j
          /\ j - 1 \in 1..(n - 1) /\ ~(j - 1 <= m) /\ (j - 1) - m = j - i
      BY <2>1, <2>2, <2>4
    <3>2. (u \o v)[j - 1] = v[(j - 1) - m]
      BY <1>4, <1>5, <2>1, <3>1
    <3>3. v[j - i] = q[i + (j - i)]
      BY <1>2, <2>1, <3>1
    <3>4. QED
      BY <2>1, <3>1, <3>2, <3>3
  <2>5. j < i \/ j > i
    BY <2>2
  <2>6. QED
    BY <2>3, <2>4, <2>5
<1>7. DOMAIN (u \o v) = 1..(Len(q) - 1)
  BY <1>4, <1>5
<1>8. QED
  BY <1>3, <1>4, <1>6, <1>7

\* A block holds at most a number of submissions.
PoolAssumption == PerBlock \in Nat

PoolRows == [sub : Submissions, processed : BOOLEAN]

Handled == {Pool!Idle} \cup [at : {"validated", "queued"}, sub : Submissions]

PoolTypes ==
    /\ queue \in Seq(Submissions) /\ place = Pool!Indices(queue)
    /\ rows \in Seq(PoolRows)
    /\ handler \in [Threads -> Handled]
    /\ toRemove \in Seq(packed)

\* What was taken from the queue or deleted for good.
Over == packed \cup expired

\* A restart finds in the rows every submission that is not over.
Waits(s) == \E i \in DOMAIN rows : rows[i].sub = s /\ ~rows[i].processed

\* An answered submission is over, or it is both in the queue and in a row that
\* is not processed; a thread about to answer has put its submission there.
PoolInv ==
    /\ PoolTypes /\ Pool!PoolSound
    /\ \A s \in replied : s \in Over \/ Waits(s)
    /\ \A t \in Threads :
          handler[t].at = "queued" => handler[t].sub \in Pool!ToSet(queue) \cup Over

LEMMA PoolStarts == Pool!Init => PoolInv
<1> SUFFICES ASSUME Pool!Init PROVE PoolInv
  OBVIOUS
<1>1. /\ queue = <<>> /\ place = Pool!Indices(queue) /\ rows = <<>>
      /\ handler = [t \in Threads |-> Pool!Idle]
      /\ block = <<>> /\ toRemove = <<>> /\ replied = {}
  BY DEF Pool!Init
<1>2. Pool!Idle.at = "idle"
  BY DEF Pool!Idle
<1>3. PoolTypes
  BY <1>1 DEF PoolTypes, Handled
<1>4. Pool!PoolSound
  BY <1>1 DEF Pool!PoolSound, Pool!OncePerBlock, Pool!AcceptedIsKept
<1>5. QED
  BY <1>1, <1>2, <1>3, <1>4 DEF PoolInv

LEMMA PoolValidate ==
    ASSUME PoolInv, NEW t \in Threads, NEW s \in Submissions, Pool!Validate(t, s)
    PROVE  PoolInv'
<1>1. /\ handler' = [handler EXCEPT ![t] = [at |-> "validated", sub |-> s]]
      /\ UNCHANGED <<queue, place, rows, block, toRemove, packed, replied, expired>>
  BY DEF Pool!Validate, Pool!history
<1>2. handler \in [Threads -> Handled]
  BY DEF PoolInv, PoolTypes
<1>3. handler' \in [Threads -> Handled]
  BY <1>1, <1>2 DEF Handled
<1>4. \A u \in Threads : handler'[u].at = "queued" => handler'[u] = handler[u]
  BY <1>1, <1>2
<1>5. PoolTypes'
  BY <1>1, <1>3 DEF PoolInv, PoolTypes
<1>6. Pool!PoolSound'
  BY <1>1 DEF PoolInv, Pool!PoolSound, Pool!OncePerBlock, Pool!AcceptedIsKept
<1>7. QED
  BY <1>1, <1>4, <1>5, <1>6 DEF PoolInv, Waits, Over

LEMMA PoolEnqueue ==
    ASSUME PoolInv, NEW t \in Threads, Pool!Enqueue(t)
    PROVE  PoolInv'
<1>1. /\ handler[t].at = "validated"
      /\ queue' = Append(queue, handler[t].sub) /\ place' = Pool!Indices(queue')
      /\ handler' = [handler EXCEPT ![t].at = "queued"]
      /\ UNCHANGED <<rows, block, toRemove, packed, replied, expired>>
  BY DEF Pool!Enqueue, Pool!history
<1>2. handler \in [Threads -> Handled] /\ queue \in Seq(Submissions)
  BY DEF PoolInv, PoolTypes
<1>3. handler[t] \in [at : {"validated", "queued"}, sub : Submissions]
  BY <1>1, <1>2 DEF Handled, Pool!Idle
<1>4. /\ handler' \in [Threads -> Handled]
      /\ handler'[t].sub = handler[t].sub
      /\ \A u \in Threads \ {t} : handler'[u] = handler[u]
  <2>1. PICK x : x = [handler[t] EXCEPT !.at = "queued"]
    OBVIOUS
  <2>2. handler' = [handler EXCEPT ![t] = x]
    BY <1>1, <2>1
  <2>3. x \in Handled /\ x.sub = handler[t].sub
    BY <1>3, <2>1 DEF Handled
  <2>4. QED
    BY <1>2, <2>2, <2>3
<1>5. /\ queue' \in Seq(Submissions)
      /\ \A s \in Pool!ToSet(queue) : s \in Pool!ToSet(queue')
      /\ handler[t].sub \in Pool!ToSet(queue')
  <2>1. PICK s \in Submissions : s = handler[t].sub
    BY <1>3
  <2>2. /\ queue' \in Seq(Submissions) /\ Len(queue') = Len(queue) + 1
        /\ \A i \in 1..Len(queue) : queue'[i] = queue[i]
        /\ queue'[Len(queue) + 1] = s
    BY <1>1, <1>2, <2>1, AppendProperties
  <2>3. DOMAIN queue = 1..Len(queue) /\ DOMAIN queue' = 1..(Len(queue) + 1) /\ Len(queue) \in Nat
    BY <1>2, <2>2, LenProperties
  <2>4. QED
    BY <2>1, <2>2, <2>3 DEF Pool!ToSet
<1>6. PoolTypes'
  BY <1>1, <1>4, <1>5 DEF PoolInv, PoolTypes
<1>7. Pool!PoolSound'
  <2>1. Pool!OncePerBlock'
    BY <1>1 DEF PoolInv, Pool!PoolSound, Pool!OncePerBlock
  <2>2. Pool!AcceptedIsKept'
    BY <1>1, <1>5 DEF PoolInv, Pool!PoolSound, Pool!AcceptedIsKept
  <2>3. QED
    BY <2>1, <2>2 DEF Pool!PoolSound
<1>8. ASSUME NEW u \in Threads, handler'[u].at = "queued"
      PROVE  handler'[u].sub \in Pool!ToSet(queue') \cup packed' \cup expired'
  BY <1>1, <1>4, <1>5, <1>8 DEF PoolInv, Over
<1>9. QED
  BY <1>1, <1>6, <1>7, <1>8 DEF PoolInv, Waits, Over

LEMMA PoolPersist ==
    ASSUME PoolInv, NEW t \in Threads, Pool!Persist(t)
    PROVE  PoolInv'
<1>1. PICK s : s = handler[t].sub
  OBVIOUS
<1>2. PICK D : D = {i \in DOMAIN rows : rows[i].sub # s}
  OBVIOUS
<1>3. /\ handler[t].at = "queued"
      /\ rows' = Append(Pool!Only(rows, D), [sub |-> s, processed |-> FALSE])
      /\ replied' = replied \cup {s}
      /\ handler' = [handler EXCEPT ![t] = Pool!Idle]
      /\ UNCHANGED <<queue, place, block, toRemove, packed, expired>>
  BY <1>1, <1>2 DEF Pool!Persist
<1>4. handler \in [Threads -> Handled] /\ rows \in Seq(PoolRows)
  BY DEF PoolInv, PoolTypes
<1>5. s \in Submissions
  BY <1>1, <1>3, <1>4 DEF Handled, Pool!Idle
<1>6. PICK r \in Seq(PoolRows) :
        /\ r = Pool!Only(rows, D)
        /\ \A i \in D : \E k \in DOMAIN r : r[k] = rows[i]
  <2>1. D \subseteq DOMAIN rows
    BY <1>2
  <2>2. QED
    BY <1>4, <2>1, OnlyKeeps
<1>7. PICK w \in PoolRows : w = [sub |-> s, processed |-> FALSE]
  BY <1>5 DEF PoolRows
<1>8. /\ rows' \in Seq(PoolRows)
      /\ \A k \in DOMAIN r : k \in DOMAIN rows' /\ rows'[k] = r[k]
      /\ \E k \in DOMAIN rows' : rows'[k] = w
  <2>1. rows' = Append(r, w)
    BY <1>3, <1>6, <1>7
  <2>2. /\ rows' \in Seq(PoolRows) /\ Len(rows') = Len(r) + 1
        /\ \A i \in 1..Len(r) : rows'[i] = r[i]
        /\ rows'[Len(r) + 1] = w
    BY <2>1, AppendProperties
  <2>3. DOMAIN r = 1..Len(r) /\ DOMAIN rows' = 1..(Len(r) + 1) /\ Len(r) \in Nat
    BY <2>2, LenProperties
  <2>4. QED
    BY <2>2, <2>3
<1>9. Waits(s)'
  BY <1>7, <1>8 DEF Waits
<1>10. ASSUME NEW x, Waits(x), x # s PROVE Waits(x)'
  <2>1. PICK i \in DOMAIN rows : rows[i].sub = x /\ ~rows[i].processed
    BY <1>10 DEF Waits
  <2>2. i \in D
    BY <1>2, <1>10, <2>1
  <2>3. PICK k \in DOMAIN r : r[k] = rows[i]
    BY <1>6, <2>2
  <2>4. k \in DOMAIN rows' /\ rows'[k] = rows[i]
    BY <1>8, <2>3
  <2>5. QED
    BY <2>1, <2>4 DEF Waits
<1>11. /\ handler' \in [Threads -> Handled]
       /\ \A u \in Threads : handler'[u].at = "queued" => handler'[u] = handler[u]
  BY <1>3, <1>4 DEF Handled, Pool!Idle
<1>12. PoolTypes'
  BY <1>3, <1>8, <1>11 DEF PoolInv, PoolTypes
<1>13. Pool!PoolSound'
  <2>1. Pool!OncePerBlock'
    BY <1>3 DEF PoolInv, Pool!PoolSound, Pool!OncePerBlock
  <2>2. s \in Pool!ToSet(queue) \cup packed \cup expired
    BY <1>1, <1>3 DEF PoolInv, Over
  <2>3. Pool!AcceptedIsKept'
    BY <1>3, <2>2 DEF PoolInv, Pool!PoolSound, Pool!AcceptedIsKept
  <2>4. QED
    BY <2>1, <2>3 DEF Pool!PoolSound
<1>14. ASSUME NEW x \in replied' PROVE x \in (packed \cup expired)' \/ Waits(x)'
  <2>1. x = s \/ x \in replied
    BY <1>3
  <2>2. CASE x = s
    BY <1>9, <2>2
  <2>3. CASE x \in replied /\ x # s
    <3>1. x \in Over \/ Waits(x)
      BY <2>3 DEF PoolInv
    <3>2. QED
      BY <1>3, <1>10, <2>3, <3>1 DEF Over
  <2>4. QED
    BY <2>1, <2>2, <2>3
<1>15. QED
  BY <1>3, <1>11, <1>12, <1>13, <1>14 DEF PoolInv, Over

LEMMA PoolPick ==
    ASSUME PoolAssumption, PoolInv, NEW strategy, Pool!Pick(strategy)
    PROVE  PoolInv'
<1>1. PICK q : q = Pool!Ordered(queue, strategy)
  OBVIOUS
<1>2. PICK D : D = {i \in DOMAIN q : \A j \in 1..(i - 1) : q[j].submitter # q[i].submitter}
  OBVIOUS
<1>3. PICK chosen : chosen = Pool!Only(q, D)
  OBVIOUS
<1>4. /\ block' = SubSeq(chosen, 1, IF Len(chosen) < PerBlock THEN Len(chosen) ELSE PerBlock)
      /\ toRemove' = block' /\ packed' = packed \cup Pool!ToSet(block')
      /\ UNCHANGED <<queue, place, rows, handler, replied, expired>>
  BY <1>1, <1>2, <1>3 DEF Pool!Pick, Pool!OnePerSubmitter
<1>5. PICK n \in Nat : DOMAIN q = 1..n
  <2>1. queue \in Seq(Submissions)
    BY DEF PoolInv, PoolTypes
  <2>2. Len(queue) \in Nat /\ DOMAIN queue = 1..Len(queue)
    BY <2>1, LenProperties
  <2>3. DOMAIN q = DOMAIN queue
    BY <1>1 DEF Pool!Ordered, Pool!Newest
  <2>4. QED
    BY <2>2, <2>3
<1>6. PICK f : Picks(chosen, q, D, f)
  <2>1. D \subseteq 1..n
    BY <1>2, <1>5
  <2>2. QED
    BY <1>3, <2>1, OnlyPicks
<1>7. /\ Len(chosen) \in Nat /\ chosen = [k \in 1..Len(chosen) |-> q[f[k]]]
      /\ f \in [1..Len(chosen) -> D]
      /\ \A k, m \in 1..Len(chosen) : f[k] = f[m] => k = m
  BY <1>6 DEF Picks
<1>8. \A k, m \in 1..Len(chosen) : chosen[k].submitter = chosen[m].submitter => k = m
  <2>1. SUFFICES ASSUME NEW k \in 1..Len(chosen), NEW m \in 1..Len(chosen),
                        chosen[k].submitter = chosen[m].submitter
                 PROVE  f[k] = f[m]
    BY <1>7
  <2>2. PICK i \in D, j \in D : i = f[k] /\ j = f[m]
    BY <1>7
  <2>3. q[i].submitter = q[j].submitter
    <3>1. chosen[k] = q[f[k]] /\ chosen[m] = q[f[m]]
      BY <1>7
    <3>2. QED
      BY <2>1, <2>2, <3>1
  <2>4. i \in 1..n /\ j \in 1..n
    BY <1>2, <1>5
  <2>5. ~(i < j)
    <3>1. i < j => i \in 1..(j - 1)
      BY <2>4
    <3>2. QED
      BY <1>2, <2>3, <3>1
  <2>6. ~(j < i)
    <3>1. j < i => j \in 1..(i - 1)
      BY <2>4
    <3>2. QED
      BY <1>2, <2>3, <3>1
  <2>7. QED
    BY <2>2, <2>4, <2>5, <2>6
<1>9. PICK m \in Nat : m <= Len(chosen) /\ block' = SubSeq(chosen, 1, m)
  <2>1. PICK m : m = IF Len(chosen) < PerBlock THEN Len(chosen) ELSE PerBlock
    OBVIOUS
  <2>2. m \in Nat /\ m <= Len(chosen)
    BY <1>7, <2>1 DEF PoolAssumption
  <2>3. QED
    BY <1>4, <2>1, <2>2
<1>10. /\ Len(block') = m /\ DOMAIN block' = 1..m
       /\ \A k \in 1..m : block'[k] = chosen[k]
       /\ block' \in Seq(packed')
  <2> DEFINE C == {chosen[k] : k \in 1..Len(chosen)}
  <2>1. \A k \in 1..m : k \in 1..Len(chosen)
    BY <1>7, <1>9
  <2>2. \A k \in 1..m : chosen[k] \in C
    BY <2>1
  <2>3. 1 \in Int /\ m \in Int /\ (IF 1 <= m THEN m - 1 + 1 ELSE 0) = m
        /\ m - 1 + 1 = m /\ \A k \in 1..m : 1 + k - 1 = k
    BY <1>9
  <2> HIDE DEF C
  <2>4. /\ SubSeq(chosen, 1, m) \in Seq(C)
        /\ Len(SubSeq(chosen, 1, m)) = IF 1 <= m THEN m - 1 + 1 ELSE 0
        /\ \A i \in 1..(m - 1 + 1) : SubSeq(chosen, 1, m)[i] = chosen[1 + i - 1]
    BY <2>2, <2>3, SubSeqProperties
  <2>5. block' \in Seq(C) /\ Len(block') = m /\ \A k \in 1..m : block'[k] = chosen[k]
    BY <1>9, <2>3, <2>4
  <2>6. DOMAIN block' = 1..m /\ block' = [k \in 1..m |-> block'[k]]
    BY <2>5, LenProperties
  <2>7. \A k \in 1..m : block'[k] \in packed'
    BY <1>4, <2>6 DEF Pool!ToSet
  <2>8. block' \in Seq(packed')
    <3>1. [k \in 1..m |-> block'[k]] \in Seq(packed')
      BY <2>7, IsASeq
    <3>2. QED
      BY <2>6, <3>1
  <2>9. QED
    BY <2>5, <2>6, <2>8
<1>11. Pool!OncePerBlock'
  <2>1. \A k \in 1..m : k \in 1..Len(chosen)
    BY <1>7, <1>9
  <2>2. QED
    BY <1>8, <1>10, <2>1 DEF Pool!OncePerBlock
<1>12. Pool!AcceptedIsKept'
  BY <1>4 DEF PoolInv, Pool!PoolSound, Pool!AcceptedIsKept
<1>13. PoolTypes'
  BY <1>4, <1>10 DEF PoolInv, PoolTypes
<1>14. QED
  BY <1>4, <1>11, <1>12, <1>13 DEF PoolInv, Pool!PoolSound, Waits, Over

LEMMA PoolRemovePicked ==
    ASSUME PoolInv, Pool!RemovePicked
    PROVE  PoolInv'
<1>1. PICK s : s = Head(toRemove)
  OBVIOUS
<1>2. /\ toRemove # <<>> /\ toRemove' = Tail(toRemove)
      /\ UNCHANGED <<handler, block, packed, replied, expired>>
      /\ \/ /\ s \in DOMAIN place
            /\ rows' = [i \in DOMAIN rows |->
                          IF rows[i].sub = s THEN [rows[i] EXCEPT !.processed = TRUE] ELSE rows[i]]
            /\ queue' = Pool!RemoveAt(queue, place[s])
            /\ place' = Pool!Indices(queue')
         \/ UNCHANGED <<rows, queue, place>>
  BY <1>1 DEF Pool!RemovePicked, Pool!Rebuilt, Pool!history, Pool!bounds
<1>3. /\ queue \in Seq(Submissions) /\ place = Pool!Indices(queue) /\ rows \in Seq(PoolRows)
      /\ handler \in [Threads -> Handled] /\ toRemove \in Seq(packed)
  BY DEF PoolInv, PoolTypes
<1>4. s \in packed /\ Tail(toRemove) \in Seq(packed)
  BY <1>1, <1>2, <1>3, HeadTailProperties
<1>5. /\ queue' \in Seq(Submissions) /\ place' = Pool!Indices(queue')
      /\ Pool!ToSet(queue) \subseteq Pool!ToSet(queue') \cup {s}
  <2>1. CASE UNCHANGED <<rows, queue, place>>
    BY <1>3, <2>1
  <2>2. CASE /\ s \in DOMAIN place
             /\ queue' = Pool!RemoveAt(queue, place[s]) /\ place' = Pool!Indices(queue')
    <3>1. PICK i \in DOMAIN queue : i = place[s] /\ queue[i] = s
      <4>1. s \in Pool!ToSet(queue)
        BY <1>3, <2>2, IndicesPoint
      <4>2. place[s] \in DOMAIN queue /\ queue[place[s]] = s
        BY <1>3, <4>1, IndicesPoint
      <4>3. QED
        BY <4>2
    <3>2. i \in 1..Len(queue)
      BY <1>3, LenProperties
    <3>3. /\ queue' \in Seq(Submissions)
          /\ \A j \in DOMAIN queue \ {i} : \E k \in DOMAIN queue' : queue'[k] = queue[j]
      BY <1>3, <2>2, <3>1, <3>2, RemoveDrops
    <3>4. ASSUME NEW x \in Pool!ToSet(queue), x # s PROVE x \in Pool!ToSet(queue')
      <4>1. PICK j \in DOMAIN queue : queue[j] = x
        BY DEF Pool!ToSet
      <4>2. j # i
        BY <3>1, <3>4, <4>1
      <4>3. PICK k \in DOMAIN queue' : queue'[k] = queue[j]
        BY <3>3, <4>2
      <4>4. QED
        BY <4>1, <4>3 DEF Pool!ToSet
    <3>5. QED
      BY <2>2, <3>3, <3>4
  <2>3. QED
    BY <1>2, <2>1, <2>2
<1>6. /\ rows' \in Seq(PoolRows)
      /\ \A x : Waits(x) /\ x # s => Waits(x)'
  <2>1. CASE UNCHANGED <<rows, queue, place>>
    BY <1>3, <2>1 DEF Waits
  <2>2. CASE rows' = [i \in DOMAIN rows |->
                        IF rows[i].sub = s THEN [rows[i] EXCEPT !.processed = TRUE] ELSE rows[i]]
    <3>1. Len(rows) \in Nat /\ DOMAIN rows = 1..Len(rows)
      BY <1>3, LenProperties
    <3>2. \A i \in 1..Len(rows) : rows[i] \in PoolRows
      BY <1>3, ElementOfSeq
    <3>3. \A i \in 1..Len(rows) :
            (IF rows[i].sub = s THEN [rows[i] EXCEPT !.processed = TRUE] ELSE rows[i]) \in PoolRows
      BY <3>2 DEF PoolRows
    <3>4. rows' \in Seq(PoolRows)
      <4>1. \A i \in 1..Len(rows) : rows'[i] \in PoolRows
        BY <2>2, <3>1, <3>3
      <4>2. rows' = [i \in 1..Len(rows) |-> rows'[i]]
        BY <2>2, <3>1
      <4>3. [i \in 1..Len(rows) |-> rows'[i]] \in Seq(PoolRows)
        BY <3>1, <4>1, IsASeq
      <4>4. QED
        BY <4>2, <4>3
    <3>5. ASSUME NEW x, Waits(x), x # s PROVE Waits(x)'
      <4>1. PICK i \in DOMAIN rows : rows[i].sub = x /\ ~rows[i].processed
        BY <3>5 DEF Waits
      <4>2. i \in DOMAIN rows' /\ rows'[i] = rows[i]
        BY <2>2, <3>5, <4>1
      <4>3. QED
        BY <4>1, <4>2 DEF Waits
    <3>6. QED
      BY <3>4, <3>5
  <2>3. QED
    BY <1>2, <2>1, <2>2
<1>7. PoolTypes'
  BY <1>2, <1>3, <1>4, <1>5, <1>6 DEF PoolTypes
<1>8. Pool!PoolSound'
  <2>1. Pool!OncePerBlock'
    BY <1>2 DEF PoolInv, Pool!PoolSound, Pool!OncePerBlock
  <2>2. Pool!AcceptedIsKept'
    BY <1>2, <1>4, <1>5 DEF PoolInv, Pool!PoolSound, Pool!AcceptedIsKept
  <2>3. QED
    BY <2>1, <2>2 DEF Pool!PoolSound
<1>9. ASSUME NEW x \in replied PROVE x \in Over \/ Waits(x)'
  <2>1. x \in Over \/ Waits(x)
    BY <1>9 DEF PoolInv
  <2>2. QED
    BY <1>4, <1>6, <2>1 DEF Over
<1>10. QED
  BY <1>2, <1>4, <1>5, <1>7, <1>8, <1>9 DEF PoolInv, Over

LEMMA PoolCleanup ==
    ASSUME PoolInv, Pool!Cleanup
    PROVE  PoolInv'
<1>1. PICK old \in SUBSET DOMAIN rows :
        LET gone == {rows[i].sub : i \in old}
        IN  /\ rows' = Pool!Only(rows, DOMAIN rows \ old)
            /\ queue' = Pool!Only(queue, DOMAIN queue \ {place[s] : s \in gone \cap DOMAIN place})
            /\ expired' = expired \cup gone
  BY DEF Pool!Cleanup
<1>2. PICK gone : gone = {rows[i].sub : i \in old}
  OBVIOUS
<1>3. PICK out : out = {place[s] : s \in gone \cap DOMAIN place}
  OBVIOUS
<1>4. /\ gone = {rows[i].sub : i \in old}
      /\ out = {place[s] : s \in gone \cap DOMAIN place}
      /\ rows' = Pool!Only(rows, DOMAIN rows \ old)
      /\ queue' = Pool!Only(queue, DOMAIN queue \ out)
      /\ expired' = expired \cup gone
  BY <1>1, <1>2, <1>3
<1>5. place' = Pool!Indices(queue') /\ UNCHANGED <<handler, block, toRemove, packed, replied>>
  BY DEF Pool!Cleanup
<1>6. /\ queue \in Seq(Submissions) /\ place = Pool!Indices(queue) /\ rows \in Seq(PoolRows)
      /\ handler \in [Threads -> Handled] /\ toRemove \in Seq(packed)
  BY DEF PoolInv, PoolTypes
<1>7. /\ queue' \in Seq(Submissions)
      /\ Pool!ToSet(queue) \subseteq Pool!ToSet(queue') \cup gone
  <2>1. PICK D : D = DOMAIN queue \ out
    OBVIOUS
  <2>2. D \subseteq DOMAIN queue
    BY <2>1
  <2>3. PICK r \in Seq(Submissions) :
          r = Pool!Only(queue, D) /\ \A i \in D : \E k \in DOMAIN r : r[k] = queue[i]
    BY <1>6, <2>2, OnlyKeeps
  <2>4. queue' = r
    BY <1>4, <2>1, <2>3
  <2>5. /\ queue' \in Seq(Submissions)
        /\ \A i \in DOMAIN queue \ out : \E k \in DOMAIN queue' : queue'[k] = queue[i]
    BY <2>1, <2>3, <2>4
  <2>6. ASSUME NEW i \in out, i \in DOMAIN queue PROVE queue[i] \in gone
    <3>1. PICK s \in gone \cap DOMAIN place : i = place[s]
      BY <1>4, <2>6
    <3>2. s \in Pool!ToSet(queue)
      BY <1>6, IndicesPoint
    <3>3. queue[place[s]] = s
      BY <1>6, <3>2, IndicesPoint
    <3>4. QED
      BY <3>1, <3>3
  <2>7. ASSUME NEW x \in Pool!ToSet(queue), x \notin gone PROVE x \in Pool!ToSet(queue')
    <3>1. PICK i \in DOMAIN queue : queue[i] = x
      BY DEF Pool!ToSet
    <3>2. i \in DOMAIN queue \ out
      BY <2>6, <2>7, <3>1
    <3>3. PICK k \in DOMAIN queue' : queue'[k] = queue[i]
      BY <2>5, <3>2
    <3>4. QED
      BY <3>1, <3>3 DEF Pool!ToSet
  <2>8. QED
    BY <2>5, <2>7
<1>8. /\ rows' \in Seq(PoolRows)
      /\ \A x : Waits(x) /\ x \notin gone => Waits(x)'
  <2>1. PICK D : D = DOMAIN rows \ old
    OBVIOUS
  <2>2. D \subseteq DOMAIN rows
    BY <2>1
  <2>3. PICK r \in Seq(PoolRows) :
          r = Pool!Only(rows, D) /\ \A i \in D : \E k \in DOMAIN r : r[k] = rows[i]
    <3>1. rows \in Seq(PoolRows)
      BY <1>6
    <3>2. QED
      BY <2>2, <3>1, OnlyKeeps
  <2>4. rows' = r
    BY <1>4, <2>1, <2>3
  <2>5. /\ rows' \in Seq(PoolRows)
        /\ \A i \in DOMAIN rows \ old : \E k \in DOMAIN rows' : rows'[k] = rows[i]
    BY <2>1, <2>3, <2>4
  <2>6. ASSUME NEW x, Waits(x), x \notin gone PROVE Waits(x)'
    <3>1. PICK i \in DOMAIN rows : rows[i].sub = x /\ ~rows[i].processed
      BY <2>6 DEF Waits
    <3>2. i \in DOMAIN rows \ old
      BY <1>4, <2>6, <3>1
    <3>3. PICK k \in DOMAIN rows' : rows'[k] = rows[i]
      BY <2>5, <3>2
    <3>4. QED
      BY <3>1, <3>3 DEF Waits
  <2>7. QED
    BY <2>5, <2>6
<1>9. PoolTypes'
  BY <1>5, <1>6, <1>7, <1>8 DEF PoolTypes
<1>10. Pool!PoolSound'
  <2>1. Pool!OncePerBlock'
    BY <1>5 DEF PoolInv, Pool!PoolSound, Pool!OncePerBlock
  <2>2. Pool!AcceptedIsKept'
    BY <1>4, <1>5, <1>7 DEF PoolInv, Pool!PoolSound, Pool!AcceptedIsKept
  <2>3. QED
    BY <2>1, <2>2 DEF Pool!PoolSound
<1>11. ASSUME NEW x \in replied PROVE x \in packed \cup expired' \/ Waits(x)'
  <2>1. x \in Over \/ Waits(x)
    BY <1>11 DEF PoolInv
  <2>2. QED
    BY <1>4, <1>8, <2>1 DEF Over
<1>12. QED
  BY <1>4, <1>5, <1>7, <1>9, <1>10, <1>11 DEF PoolInv, Over

LEMMA PoolRestart ==
    ASSUME PoolInv, Pool!Restart
    PROVE  PoolInv'
<1>1. PICK D : D = {i \in DOMAIN rows : ~rows[i].processed}
  OBVIOUS
<1>2. PICK live : live = Pool!Only(rows, D)
  OBVIOUS
<1>3. /\ queue' = [i \in DOMAIN live |-> live[i].sub] /\ place' = Pool!Indices(queue')
      /\ handler' = [t \in Threads |-> Pool!Idle]
      /\ block' = <<>> /\ toRemove' = <<>>
      /\ UNCHANGED <<rows, packed, replied, expired>>
  BY <1>1, <1>2 DEF Pool!Restart, Pool!history
<1>4. rows \in Seq(PoolRows)
  BY DEF PoolInv, PoolTypes
<1>5. /\ live \in Seq(PoolRows)
      /\ \A i \in D : \E k \in DOMAIN live : live[k] = rows[i]
  <2>1. D \subseteq DOMAIN rows
    BY <1>1
  <2>2. QED
    BY <1>2, <1>4, <2>1, OnlyKeeps
<1>6. queue' \in Seq(Submissions) /\ DOMAIN queue' = DOMAIN live
  <2>1. Len(live) \in Nat /\ DOMAIN live = 1..Len(live)
    BY <1>5, LenProperties
  <2>2. \A i \in 1..Len(live) : live[i].sub \in Submissions
    <3>1. \A i \in 1..Len(live) : live[i] \in PoolRows
      BY <1>5, ElementOfSeq
    <3>2. QED
      BY <3>1 DEF PoolRows
  <2>3. [i \in 1..Len(live) |-> live[i].sub] \in Seq(Submissions)
    BY <2>1, <2>2, IsASeq
  <2>4. QED
    BY <1>3, <2>1, <2>3
<1>7. ASSUME NEW x, Waits(x) PROVE Waits(x)' /\ x \in Pool!ToSet(queue')
  <2>1. PICK i \in DOMAIN rows : rows[i].sub = x /\ ~rows[i].processed
    BY <1>7 DEF Waits
  <2>2. PICK k \in DOMAIN live : live[k] = rows[i]
    BY <1>1, <1>5, <2>1
  <2>3. k \in DOMAIN queue' /\ queue'[k] = x
    BY <1>3, <1>6, <2>1, <2>2
  <2>4. QED
    BY <1>3, <1>7, <2>3 DEF Waits, Pool!ToSet
<1>8. PoolTypes'
  BY <1>3, <1>4, <1>6 DEF PoolTypes, Handled
<1>9. \A x \in replied : x \in Over \/ Waits(x)
  BY DEF PoolInv
<1>10. Pool!PoolSound'
  <2>1. Pool!OncePerBlock'
    BY <1>3 DEF Pool!OncePerBlock
  <2>2. Pool!AcceptedIsKept'
    BY <1>3, <1>7, <1>9 DEF Pool!AcceptedIsKept, Over
  <2>3. QED
    BY <2>1, <2>2 DEF Pool!PoolSound
<1>11. \A t \in Threads : handler'[t].at # "queued"
  BY <1>3 DEF Pool!Idle
<1>12. QED
  BY <1>3, <1>7, <1>8, <1>9, <1>10, <1>11 DEF PoolInv, Over

\* However many threads submit, whatever the picker packs and removes, and
\* wherever clean-ups and restarts cut in: a block holds one submission of a
\* submitter, and a submission that was answered is queued, packed or deleted as
\* old (TXPool.py add_submit_tx_info, remove_submit_tx_info,
\* _cleanup_old_transactions, _load_from_database; PickTx.py).
THEOREM PoolKeepsAccepted == PoolAssumption => (Pool!Spec => []PoolSound)
<1> SUFFICES ASSUME PoolAssumption PROVE Pool!Spec => []PoolSound
  OBVIOUS
<1>1. Pool!Init => PoolInv
  BY PoolStarts
<1>2. PoolInv /\ [Pool!Next]_(Pool!poolVars) => PoolInv'
  <2> SUFFICES ASSUME PoolInv, [Pool!Next]_(Pool!poolVars) PROVE PoolInv'
    OBVIOUS
  <2>1. CASE UNCHANGED Pool!poolVars
    BY <2>1 DEF Pool!poolVars, PoolInv, PoolTypes, Pool!PoolSound, Pool!OncePerBlock,
                Pool!AcceptedIsKept, Waits, Over
  <2>2. CASE Pool!Next
    BY <2>2, PoolValidate, PoolEnqueue, PoolPersist, PoolPick, PoolRemovePicked, PoolCleanup,
       PoolRestart DEF Pool!Next
  <2>3. QED
    BY <2>1, <2>2
<1>3. PoolInv => PoolSound
  BY DEF PoolInv, PoolSound
<1>4. QED
  BY <1>1, <1>2, <1>3, PTL DEF Pool!Spec

-----------------------------------------------------------------------------
(* The V1 values *)

\* Genesis values have units, and no two of them share one.
ValuesAssumption ==
    /\ MaxUnits \in Nat
    /\ IsFiniteSet(GenesisValues) /\ GenesisValues \subseteq [lo : Nat, num : Nat \ {0}]
    /\ \A g, h \in GenesisValues :
          g # h => (g.lo .. (g.lo + g.num - 1)) \cap (h.lo .. (h.lo + h.num - 1)) = {}

\* A node of a collection.  Who it is recorded for does not matter here.
IsNode(v) ==
    /\ v = [lo |-> v.lo, num |-> v.num, state |-> v.state, heir |-> v.heir]
    /\ v.lo \in Nat /\ v.num \in Nat \ {0}

Ranges == [lo : Nat, num : Nat \ {0}]
UnitsIn(S) == UNION {Values!UnitsOf(v) : v \in S}
Distinct(S) == \A v, w \in S : v # w => Values!UnitsOf(v) \cap Values!UnitsOf(w) = {}

IsCollection(c) == IsFiniteSet(c) /\ (\A v \in c : IsNode(v)) /\ Distinct(c)

\* The units of a collection that can be spent, or will be.
Unspent(c) == UnitsIn({w \in c : w.state \in {"UNSPENT", "VERIFIED"}})

\* The units of a node: it has some, and they are those of its range.
LEMMA NodeUnits ==
    ASSUME NEW v, v.lo \in Nat, v.num \in Nat \ {0}
    PROVE  /\ Values!UnitsOf(v) = v.lo .. (v.lo + v.num - 1)
           /\ v.lo \in Values!UnitsOf(v)
BY DEF Values!UnitsOf

\* What a node counts is added to what the others count.
LEMMA TotalAdds ==
    ASSUME NEW S, IsFiniteSet(S), \A v \in S : IsNode(v), NEW x \in S
    PROVE  /\ Values!Total(S) \in Nat /\ Values!Total(S \ {x}) \in Nat
           /\ Values!Total(S) = Values!Total(S \ {x}) + x.num
<1> DEFINE Block(v) == {v} \X (1..v.num)
           All(T) == UNION {Block(v) : v \in T}
<1>1. \A T : Values!Total(T) = Cardinality(All(T))
  BY DEF Values!Total, Values!Cardinality, Cardinality
<1>2. ASSUME NEW v \in S
      PROVE  IsFiniteSet(Block(v)) /\ Cardinality(Block(v)) = v.num
  <2>1. v.num \in Nat /\ v.num > 0
    BY DEF IsNode
  <2>2. IsFiniteSet(1..v.num) /\ Cardinality(1..v.num) = v.num
    <3>1. 1 \in Int /\ v.num \in Int
      BY <2>1
    <3>2. /\ IsFiniteSet(1..v.num)
          /\ Cardinality(1..v.num) = IF 1 > v.num THEN 0 ELSE v.num - 1 + 1
      BY <3>1, FS_Interval
    <3>3. QED
      BY <2>1, <3>2
  <2>3. IsFiniteSet({v}) /\ Cardinality({v}) = 1
    BY FS_Singleton
  <2>4. IsFiniteSet(Block(v)) /\ Cardinality(Block(v)) = 1 * v.num
    BY <2>2, <2>3, FS_Product
  <2>5. QED
    BY <2>1, <2>4
<1>3. ASSUME NEW T \in SUBSET S
      PROVE  IsFiniteSet(All(T))
  <2>1. IsFiniteSet(T)
    BY FS_Subset
  <2>2. IsFiniteSet({Block(v) : v \in T})
    <3> DEFINE f == [v \in T |-> Block(v)]
               B == {Block(v) : v \in T}
    <3>1. f \in Surjection(T, B)
      <4>1. f \in [T -> B]
        OBVIOUS
      <4>2. \A b \in B : \E v \in T : f[v] = b
        OBVIOUS
      <4> HIDE DEF f, B
      <4>3. QED
        BY <4>1, <4>2 DEF Surjection
    <3> HIDE DEF f, B
    <3>2. IsFiniteSet(B)
      BY <2>1, <3>1, FS_Surjection
    <3>3. QED
      BY <3>2 DEF B
  <2>3. \A b \in {Block(v) : v \in T} : IsFiniteSet(b)
    BY <1>2
  <2>4. QED
    BY <2>2, <2>3, FS_UNION
<1>4. All(S) = All(S \ {x}) \cup Block(x)
  OBVIOUS
<1>5. All(S \ {x}) \cap Block(x) = {}
  OBVIOUS
<1>6. IsFiniteSet(All(S \ {x})) /\ IsFiniteSet(All(S))
  BY <1>3
<1>7. IsFiniteSet(Block(x)) /\ Cardinality(Block(x)) = x.num
  BY <1>2
<1>8. Values!Total(S) = Cardinality(All(S)) /\ Values!Total(S \ {x}) = Cardinality(All(S \ {x}))
  BY <1>1
<1> HIDE DEF All, Block
<1>9. Cardinality(All(S)) = Cardinality(All(S \ {x})) + x.num
  <2>1. PICK A, B : A = All(S \ {x}) /\ B = Block(x)
    OBVIOUS
  <2>2. Cardinality(A \cup B) = Cardinality(A) + Cardinality(B) - Cardinality(A \cap B)
    BY <1>6, <1>7, <2>1, FS_Union
  <2>3. Cardinality(A) \in Nat /\ Cardinality(A \cap B) = 0
    BY <1>5, <1>6, <2>1, FS_CardinalityType, FS_EmptySet
  <2>4. x.num \in Nat /\ Cardinality(B) = x.num
    BY <1>7, <2>1 DEF IsNode
  <2>5. Cardinality(A \cup B) = Cardinality(A) + x.num
    BY <2>2, <2>3, <2>4
  <2>6. QED
    BY <1>4, <2>1, <2>5
<1>10. QED
  BY <1>6, <1>8, <1>9, FS_CardinalityType

\* Whatever a payment selects: it is free, and only a part of the last value
\* is left over.
LEMMA SelectionCut ==
    ASSUME NEW c, IsCollection(c), NEW amount \in Nat \ {0},
           NEW sel \in Values!Selections(c, amount)
    PROVE  /\ sel.of \subseteq {v \in c : v.state = "UNSPENT"} /\ sel.last \in sel.of
           /\ Values!Total(sel.of) - amount \in Nat
           /\ Values!Total(sel.of) - amount < sel.last.num
<1> DEFINE F == Values!Free(c)
<1>1. F = {v \in c : v.state = "UNSPENT"} /\ F \subseteq c
  BY DEF Values!Free
<1> HIDE DEF F
<1>2. ASSUME NEW S, S \subseteq F
      PROVE  IsFiniteSet(S) /\ \A v \in S : IsNode(v)
  BY <1>1, <1>2, FS_Subset DEF IsCollection
<1>3. CASE \E v \in F : v.num = amount
  <2>1. PICK v \in F : sel = [of |-> {v}, last |-> v] /\ v.num = amount
    BY <1>3 DEF Values!Selections, F
  <2>2. sel.of = {v} /\ sel.last = v
    BY <2>1
  <2>3. IsFiniteSet({v}) /\ \A w \in {v} : IsNode(w)
    BY <1>2
  <2>4. Values!Total({v}) = Values!Total({v} \ {v}) + v.num
    BY <2>3, TotalAdds
  <2>5. {v} \ {v} = {} /\ Values!Total({}) = 0
    <3>1. Values!Total({}) = Cardinality(UNION {{w} \X (1..w.num) : w \in {}})
      BY DEF Values!Total, Values!Cardinality, Cardinality
    <3>2. UNION {{w} \X (1..w.num) : w \in {}} = {}
      OBVIOUS
    <3>3. QED
      BY <3>1, <3>2, FS_EmptySet
  <2>6. Values!Total({v}) = amount
    BY <2>1, <2>4, <2>5
  <2>7. Values!Total(sel.of) - amount = 0
    BY <2>2, <2>6
  <2>8. v.num \in Nat \ {0}
    BY <2>3 DEF IsNode
  <2>9. QED
    BY <1>1, <2>2, <2>7, <2>8
<1>4. CASE ~ \E v \in F : v.num = amount
  <2>1. /\ sel.of \subseteq F /\ sel.last \in sel.of
        /\ Values!Total(sel.of) >= amount /\ Values!Total(sel.of \ {sel.last}) < amount
    BY <1>4 DEF Values!Selections, F
  <2>2. PICK S, x : S = sel.of /\ x = sel.last
    OBVIOUS
  <2>3. IsFiniteSet(S) /\ (\A v \in S : IsNode(v)) /\ x \in S
    BY <1>2, <2>1, <2>2
  <2>4. /\ Values!Total(S) \in Nat /\ Values!Total(S \ {x}) \in Nat
        /\ Values!Total(S) = Values!Total(S \ {x}) + x.num
    BY <2>3, TotalAdds
  <2>5. x.num \in Nat
    BY <2>3 DEF IsNode
  <2>6. Values!Total(S) - amount \in Nat /\ Values!Total(S) - amount < x.num
    BY <2>1, <2>2, <2>4, <2>5
  <2>7. QED
    BY <1>1, <2>1, <2>2, <2>6
<1>5. QED
  BY <1>3, <1>4

\* The two parts of a split node.
LEMMA SplitParts ==
    ASSUME NEW v, IsNode(v), NEW change \in Nat, change < v.num
    PROVE  LET cut == Values!Split(v, change)
           IN  /\ IsNode(cut.paid) /\ cut.paid.state = v.state
               /\ Values!UnitsOf(cut.paid) \subseteq Values!UnitsOf(v)
               /\ cut.rest.state = v.state
               /\ change > 0 => IsNode(cut.rest)
               /\ Values!UnitsOf(cut.rest) \subseteq Values!UnitsOf(v)
               /\ Values!UnitsOf(cut.paid) \cap Values!UnitsOf(cut.rest) = {}
<1> DEFINE p == [v EXCEPT !.num = @ - change]
           r == [v EXCEPT !.lo = @ + v.num - change, !.num = change]
<1>1. Values!Split(v, change) = [paid |-> p, rest |-> r]
  BY DEF Values!Split
<1>2. v.lo \in Nat /\ v.num \in Nat /\ v.num > 0
  BY DEF IsNode
<1>3. /\ p = [lo |-> v.lo, num |-> v.num - change, state |-> v.state, heir |-> v.heir]
      /\ r = [lo |-> v.lo + v.num - change, num |-> change, state |-> v.state, heir |-> v.heir]
  <2>1. PICK lo, num, state, heir : v = [lo |-> lo, num |-> num, state |-> state, heir |-> heir]
    BY DEF IsNode
  <2>2. v.lo = lo /\ v.num = num /\ v.state = state /\ v.heir = heir
    BY <2>1
  <2>3. p = [lo |-> lo, num |-> num - change, state |-> state, heir |-> heir]
    BY <2>1
  <2>4. r = [lo |-> lo + num - change, num |-> change, state |-> state, heir |-> heir]
    <3>1. PICK z : z = [v EXCEPT !.lo = @ + v.num - change]
      OBVIOUS
    <3>2. z = [lo |-> lo + num - change, num |-> num, state |-> state, heir |-> heir]
      BY <2>1, <2>2, <3>1
    <3>3. r = [z EXCEPT !.num = change]
      BY <3>1
    <3>4. QED
      BY <3>2, <3>3
  <2>5. QED
    BY <2>2, <2>3, <2>4
<1> HIDE DEF p, r
<1>4. p.lo = v.lo /\ p.num = v.num - change /\ p.state = v.state /\ p.heir = v.heir
  BY <1>3
<1>5. r.lo = v.lo + v.num - change /\ r.num = change /\ r.state = v.state /\ r.heir = v.heir
  BY <1>3
<1>6. IsNode(p) /\ (change > 0 => IsNode(r))
  BY <1>2, <1>3, <1>4, <1>5 DEF IsNode
<1>7. /\ Values!UnitsOf(v) = v.lo .. (v.lo + v.num - 1)
      /\ Values!UnitsOf(p) = v.lo .. (v.lo + (v.num - change) - 1)
      /\ Values!UnitsOf(r) = (v.lo + v.num - change) .. (v.lo + v.num - change + change - 1)
  BY <1>4, <1>5 DEF Values!UnitsOf
<1>8. /\ Values!UnitsOf(p) \subseteq Values!UnitsOf(v)
      /\ Values!UnitsOf(r) \subseteq Values!UnitsOf(v)
      /\ Values!UnitsOf(p) \cap Values!UnitsOf(r) = {}
  BY <1>2, <1>7
<1>9. QED
  BY <1>1, <1>4, <1>5, <1>6, <1>8

\* A node that gets another state keeps its units.
LEMMA MarkedNode ==
    ASSUME NEW v, IsNode(v), NEW st
    PROVE  LET m == [v EXCEPT !.state = st]
           IN  /\ IsNode(m) /\ m.state = st /\ m.lo = v.lo /\ m.num = v.num
               /\ Values!UnitsOf(m) = Values!UnitsOf(v)
<1> DEFINE m == [v EXCEPT !.state = st]
<1>1. m = [lo |-> v.lo, num |-> v.num, state |-> st, heir |-> v.heir]
  BY DEF IsNode
<1> HIDE DEF m
<1>2. m.lo = v.lo /\ m.num = v.num /\ m.state = st /\ m.heir = v.heir
  BY <1>1
<1>3. IsNode(m)
  BY <1>1, <1>2 DEF IsNode
<1>4. Values!UnitsOf(m) = Values!UnitsOf(v)
  BY <1>2 DEF Values!UnitsOf
<1>5. QED
  BY <1>2, <1>3, <1>4 DEF m

\* Every node is replaced by one within it.
LEMMA Replaced ==
    ASSUME NEW c, IsCollection(c), NEW f, f = [v \in c |-> f[v]], NEW d, d = {f[v] : v \in c},
           \A v \in c : IsNode(f[v]) /\ Values!UnitsOf(f[v]) \subseteq Values!UnitsOf(v)
    PROVE  IsCollection(d)
<1>1. IsFiniteSet(d)
  <2>1. f \in Surjection(c, d)
    <3>1. f \in [c -> d]
      <4>1. \A v \in c : f[v] \in d
        OBVIOUS
      <4>2. QED
        BY <4>1
    <3>2. \A y \in d : \E v \in c : f[v] = y
      OBVIOUS
    <3>3. QED
      BY <3>1, <3>2 DEF Surjection
  <2>2. QED
    BY <2>1, FS_Surjection DEF IsCollection
<1>2. ASSUME NEW x \in d, NEW y \in d, x # y
      PROVE  Values!UnitsOf(x) \cap Values!UnitsOf(y) = {}
  <2>1. PICK v \in c, w \in c : x = f[v] /\ y = f[w]
    OBVIOUS
  <2>2. v # w
    BY <1>2, <2>1
  <2>3. Values!UnitsOf(v) \cap Values!UnitsOf(w) = {}
    BY <2>2 DEF IsCollection, Distinct
  <2>4. QED
    BY <2>1, <2>3
<1>3. QED
  BY <1>1, <1>2 DEF IsCollection, Distinct

\* No two claims share a unit: what the accounts hold, and what is on its way.
Moved(bs, i, k) == UnitsIn(bs[i].due[k].moved)
HandsApart(h, bs) ==
    /\ \A a, b \in V1Accounts : a # b => Unspent(h[a]) \cap Unspent(h[b]) = {}
    /\ \A a \in V1Accounts : \A i \in DOMAIN bs : \A k \in DOMAIN bs[i].due :
          Unspent(h[a]) \cap Moved(bs, i, k) = {}
    /\ \A i, j \in DOMAIN bs : \A k \in DOMAIN bs[i].due, m \in DOMAIN bs[j].due :
          i # j \/ k # m => Moved(bs, i, k) \cap Moved(bs, j, m) = {}
    /\ \A i \in DOMAIN bs : \A k \in DOMAIN bs[i].due : Distinct(bs[i].due[k].moved)

Due == [to : V1Accounts, moved : SUBSET Ranges]
Batch == [from : V1Accounts, mined : BOOLEAN, due : Seq(Due)]

Sound(h, bs) ==
    /\ h \in [V1Accounts -> {h[a] : a \in V1Accounts}]
    /\ \A a \in V1Accounts : IsCollection(h[a])
    /\ bs \in Seq(Batch)
    /\ \A i \in DOMAIN bs : Len(bs[i].due) <= 2
    /\ HandsApart(h, bs)

ValuesInv == clashed \/ Sound(holds, batches)

\* One account has less to spend, and nothing else moves.
LEMMA Shrinks ==
    ASSUME NEW h, NEW bs, Sound(h, bs), NEW a \in V1Accounts,
           NEW c, IsCollection(c), Unspent(c) \subseteq Unspent(h[a])
    PROVE  Sound([h EXCEPT ![a] = c], bs)
<1> DEFINE g == [h EXCEPT ![a] = c]
<1>1. DOMAIN h = V1Accounts
  BY DEF Sound
<1>2. g \in [V1Accounts -> {g[b] : b \in V1Accounts}]
  BY <1>1
<1>3. g[a] = c /\ \A b \in V1Accounts : b # a => g[b] = h[b]
  BY <1>1
<1> HIDE DEF g
<1>4. \A b \in V1Accounts : IsCollection(g[b]) /\ Unspent(g[b]) \subseteq Unspent(h[b])
  BY <1>3 DEF Sound
<1>5. HandsApart(g, bs)
  <2>1. HandsApart(h, bs)
    BY DEF Sound
  <2>2. \A b, d \in V1Accounts : b # d => Unspent(g[b]) \cap Unspent(g[d]) = {}
    BY <1>4, <2>1 DEF HandsApart
  <2>3. \A b \in V1Accounts : \A i \in DOMAIN bs : \A k \in DOMAIN bs[i].due :
           Unspent(g[b]) \cap Moved(bs, i, k) = {}
    BY <1>4, <2>1 DEF HandsApart
  <2>4. QED
    BY <2>1, <2>2, <2>3 DEF HandsApart
<1>6. Sound(g, bs)
  BY <1>2, <1>4, <1>5 DEF Sound
<1>7. QED
  BY <1>6 DEF g

\* A batch is marked, and what it owes stays.
LEMMA MinedKeeps ==
    ASSUME NEW h, NEW bs, Sound(h, bs), NEW i \in DOMAIN bs
    PROVE  Sound(h, [bs EXCEPT ![i].mined = TRUE])
<1> DEFINE cs == [bs EXCEPT ![i].mined = TRUE]
<1>1. bs \in Seq(Batch) /\ bs \in [1..Len(bs) -> Batch] /\ Len(bs) \in Nat /\ DOMAIN bs = 1..Len(bs)
  BY DEF Sound
<1>2. bs[i] \in Batch
  BY <1>1
<1>3. PICK y : y = [bs[i] EXCEPT !.mined = TRUE]
  OBVIOUS
<1>4. y \in Batch /\ y.due = bs[i].due
  BY <1>2, <1>3 DEF Batch
<1>5. cs = [bs EXCEPT ![i] = y]
  BY <1>3
<1> HIDE DEF cs
<1>6. cs \in [1..Len(bs) -> Batch] /\ \A j \in DOMAIN bs : cs[j].due = bs[j].due
  BY <1>1, <1>4, <1>5
<1>7. cs \in Seq(Batch) /\ DOMAIN cs = DOMAIN bs
  BY <1>1, <1>6, IsASeq
<1>8. \A j \in DOMAIN bs : \A k : Moved(cs, j, k) = Moved(bs, j, k)
  BY <1>6 DEF Moved
<1>9. HandsApart(h, cs)
  <2>1. HandsApart(h, bs)
    BY DEF Sound
  <2>2. /\ \A a, b \in V1Accounts : a # b => Unspent(h[a]) \cap Unspent(h[b]) = {}
        /\ \A a \in V1Accounts : \A j \in DOMAIN bs : \A k \in DOMAIN bs[j].due :
              Unspent(h[a]) \cap Moved(bs, j, k) = {}
        /\ \A l, j \in DOMAIN bs : \A k \in DOMAIN bs[l].due, m \in DOMAIN bs[j].due :
              l # j \/ k # m => Moved(bs, l, k) \cap Moved(bs, j, m) = {}
        /\ \A j \in DOMAIN bs : \A k \in DOMAIN bs[j].due : Distinct(bs[j].due[k].moved)
    BY <2>1 DEF HandsApart
  <2>3. \A a \in V1Accounts : \A j \in DOMAIN cs : \A k \in DOMAIN cs[j].due :
           Unspent(h[a]) \cap Moved(cs, j, k) = {}
    BY <1>6, <1>7, <1>8, <2>2
  <2>4. \A l, j \in DOMAIN cs : \A k \in DOMAIN cs[l].due, m \in DOMAIN cs[j].due :
           l # j \/ k # m => Moved(cs, l, k) \cap Moved(cs, j, m) = {}
    BY <1>6, <1>7, <1>8, <2>2
  <2>5. \A j \in DOMAIN cs : \A k \in DOMAIN cs[j].due : Distinct(cs[j].due[k].moved)
    BY <1>6, <1>7, <2>2
  <2>6. QED
    BY <2>2, <2>3, <2>4, <2>5 DEF HandsApart
<1>10. Sound(h, cs)
  BY <1>6, <1>7, <1>9 DEF Sound
<1>11. QED
  BY <1>10 DEF cs

\* Nodes D of a collection give way to parts of them: M, which are to be moved
\* (S), and R, which stay.
Gives(c, D, M, R, d, S) ==
    /\ D \subseteq c /\ \A v \in D : v.state = "UNSPENT"
    /\ IsFiniteSet(M) /\ IsFiniteSet(R) /\ M \cap R = {}
    /\ \A v \in M \cup R : IsNode(v) /\ v.state = "UNSPENT"
    /\ Distinct(M \cup R) /\ UnitsIn(M \cup R) \subseteq UnitsIn(D)
    /\ d = (c \ D) \cup R \cup {[v EXCEPT !.state = "PENDING"] : v \in M}
    /\ S = {[lo |-> v.lo, num |-> v.num] : v \in M}

LEMMA PickedMoves ==
    ASSUME NEW c, IsCollection(c), NEW D, NEW M, NEW R, NEW d, NEW S, Gives(c, D, M, R, d, S)
    PROVE  /\ IsCollection(d) /\ S \subseteq Ranges /\ Distinct(S)
           /\ Unspent(d) \subseteq Unspent(c) /\ UnitsIn(S) \subseteq Unspent(c)
           /\ Unspent(d) \cap UnitsIn(S) = {}
<1> DEFINE mark(v) == [v EXCEPT !.state = "PENDING"]
           f == [v \in M |-> mark(v)]
           K == {f[v] : v \in M}
<1>0. /\ D \subseteq c /\ (\A v \in D : v.state = "UNSPENT")
      /\ IsFiniteSet(M) /\ IsFiniteSet(R) /\ M \cap R = {}
      /\ (\A v \in M \cup R : IsNode(v) /\ v.state = "UNSPENT")
      /\ Distinct(M \cup R) /\ UnitsIn(M \cup R) \subseteq UnitsIn(D)
      /\ d = (c \ D) \cup R \cup {[v EXCEPT !.state = "PENDING"] : v \in M}
      /\ S = {[lo |-> v.lo, num |-> v.num] : v \in M}
  BY DEF Gives
<1>1. IsCollection(M) /\ IsCollection(R)
  BY <1>0 DEF IsCollection, Distinct
<1>2. \A v \in M : /\ IsNode(f[v]) /\ f[v].state = "PENDING" /\ f[v].lo = v.lo /\ f[v].num = v.num
                    /\ Values!UnitsOf(f[v]) = Values!UnitsOf(v)
  BY <1>0, MarkedNode
<1>3. K = {[v EXCEPT !.state = "PENDING"] : v \in M} /\ f = [v \in M |-> f[v]]
  OBVIOUS
<1> HIDE DEF mark, f
<1>4. IsCollection(K)
  BY <1>1, <1>2, <1>3, Replaced
<1>5. \A x \in K : \E v \in M : x.state = "PENDING" /\ Values!UnitsOf(x) = Values!UnitsOf(v)
  BY <1>2
<1> HIDE DEF K
<1>6. d = (c \ D) \cup R \cup K
  BY <1>0, <1>3
<1>7. ASSUME NEW v \in M \cup R, NEW w \in c \ D
      PROVE  Values!UnitsOf(v) \cap Values!UnitsOf(w) = {}
  <2>1. \A u \in Values!UnitsOf(v) : \E x \in D : u \in Values!UnitsOf(x)
    BY <1>0 DEF UnitsIn
  <2>2. \A x \in D : Values!UnitsOf(x) \cap Values!UnitsOf(w) = {}
    BY <1>0 DEF IsCollection, Distinct
  <2>3. QED
    BY <2>1, <2>2
<1>8. \A v \in M, w \in R : Values!UnitsOf(v) \cap Values!UnitsOf(w) = {}
  BY <1>0 DEF Distinct
<1>9. IsCollection(d)
  <2>1. IsFiniteSet(c \ D)
    BY FS_Difference DEF IsCollection
  <2>2. IsFiniteSet((c \ D) \cup R)
    BY <1>0, <2>1, FS_Union
  <2>3. IsFiniteSet(d)
    <3>1. IsFiniteSet(K)
      BY <1>4 DEF IsCollection
    <3>2. IsFiniteSet(((c \ D) \cup R) \cup K)
      BY <2>2, <3>1, FS_Union
    <3>3. QED
      BY <1>6, <3>2
  <2>4. \A v \in d : IsNode(v)
    BY <1>0, <1>4, <1>6 DEF IsCollection
  <2>5. \A v \in c \ D, w \in R : Values!UnitsOf(v) \cap Values!UnitsOf(w) = {}
    BY <1>7
  <2>6. \A v \in c \ D, w \in K : Values!UnitsOf(v) \cap Values!UnitsOf(w) = {}
    BY <1>5, <1>7
  <2>7. \A v \in R, w \in K : Values!UnitsOf(v) \cap Values!UnitsOf(w) = {}
    BY <1>5, <1>8
  <2>8. Distinct(c \ D) /\ Distinct(R) /\ Distinct(K)
    BY <1>1, <1>4 DEF IsCollection, Distinct
  <2>9. Distinct(d)
    BY <1>6, <2>5, <2>6, <2>7, <2>8 DEF Distinct
  <2>10. QED
    BY <2>3, <2>4, <2>9 DEF IsCollection
<1>10. /\ S \subseteq Ranges
       /\ \A s \in S : \E v \in M : /\ s = [lo |-> v.lo, num |-> v.num]
                                   /\ Values!UnitsOf(s) = Values!UnitsOf(v)
  <2>1. SUFFICES ASSUME NEW v \in M, NEW s, s = [lo |-> v.lo, num |-> v.num]
                 PROVE  s \in Ranges /\ Values!UnitsOf(s) = Values!UnitsOf(v)
    BY <1>0
  <2>2. v.lo \in Nat /\ v.num \in Nat \ {0}
    BY <1>0 DEF IsNode
  <2>3. s.lo = v.lo /\ s.num = v.num
    BY <2>1
  <2>4. QED
    BY <2>1, <2>2, <2>3 DEF Ranges, Values!UnitsOf
<1>11. Distinct(S)
  BY <1>1, <1>10 DEF IsCollection, Distinct
<1>12. UnitsIn(S) \subseteq UnitsIn(M)
  BY <1>10 DEF UnitsIn
<1>13. UnitsIn(D) \subseteq Unspent(c)
  <2>1. D \subseteq {w \in c : w.state \in {"UNSPENT", "VERIFIED"}}
    BY <1>0
  <2>2. QED
    BY <2>1 DEF UnitsIn, Unspent
<1>14. UnitsIn(M) \subseteq UnitsIn(M \cup R) /\ UnitsIn(R) \subseteq UnitsIn(M \cup R)
  BY DEF UnitsIn
<1>15. ASSUME NEW u \in Unspent(d)
       PROVE  u \in Unspent(c) /\ u \notin UnitsIn(S)
  <2>1. PICK x \in d : x.state \in {"UNSPENT", "VERIFIED"} /\ u \in Values!UnitsOf(x)
    BY DEF Unspent, UnitsIn
  <2>2. x \notin K
    BY <1>5, <2>1
  <2>3. CASE x \in R
    <3>1. u \in UnitsIn(R) /\ u \notin UnitsIn(M)
      BY <1>8, <2>1, <2>3 DEF UnitsIn
    <3>2. QED
      BY <1>0, <1>12, <1>13, <1>14, <3>1
  <2>4. CASE x \in c \ D
    <3>1. u \in Unspent(c)
      BY <2>1, <2>4 DEF Unspent, UnitsIn
    <3>2. u \notin UnitsIn(M)
      BY <1>7, <2>1, <2>4 DEF UnitsIn
    <3>3. QED
      BY <1>12, <3>1, <3>2
  <2>5. QED
    BY <1>6, <2>2, <2>3, <2>4
<1>16. QED
  BY <1>0, <1>9, <1>10, <1>11, <1>12, <1>13, <1>14, <1>15

\* What a payment picks: a sound collection is left, and what moves is taken
\* from what could be spent.
LEMMA PickMoves ==
    ASSUME NEW c, IsCollection(c), NEW amount \in Nat \ {0},
           NEW sel \in Values!Selections(c, amount), NEW p, p = Values!Picked(c, sel, amount)
    PROVE  /\ IsCollection(p.coll) /\ p.moved \subseteq Ranges /\ Distinct(p.moved)
           /\ Unspent(p.coll) \subseteq Unspent(c) /\ UnitsIn(p.moved) \subseteq Unspent(c)
           /\ Unspent(p.coll) \cap UnitsIn(p.moved) = {}
<1>1. PICK change, x, D : /\ change = Values!Total(sel.of) - amount
                          /\ x = sel.last /\ D = sel.of
  OBVIOUS
<1>2. /\ D \subseteq c /\ (\A v \in D : v.state = "UNSPENT") /\ x \in D
      /\ change \in Nat /\ change < x.num
  BY <1>1, SelectionCut
<1>3. IsNode(x) /\ x.state = "UNSPENT" /\ x \in c
  BY <1>2 DEF IsCollection
<1>4. PICK cut : cut = Values!Split(x, change)
  OBVIOUS
<1>5. /\ IsNode(cut.paid) /\ cut.paid.state = x.state
      /\ Values!UnitsOf(cut.paid) \subseteq Values!UnitsOf(x)
      /\ cut.rest.state = x.state
      /\ change > 0 => IsNode(cut.rest)
      /\ Values!UnitsOf(cut.rest) \subseteq Values!UnitsOf(x)
      /\ Values!UnitsOf(cut.paid) \cap Values!UnitsOf(cut.rest) = {}
  BY <1>2, <1>3, <1>4, SplitParts
<1>6. PICK M, R : /\ M = IF change = 0 THEN D ELSE (D \ {x}) \cup {cut.paid}
                  /\ R = IF change = 0 THEN {} ELSE {cut.rest}
  OBVIOUS
<1>7. /\ p.coll = (c \ D) \cup R \cup {[v EXCEPT !.state = "PENDING"] : v \in M}
      /\ p.moved = {[lo |-> v.lo, num |-> v.num] : v \in M}
  <2>1. p = [coll |-> (c \ D) \cup R \cup {[v EXCEPT !.state = "PENDING"] : v \in M},
             moved |-> {[lo |-> v.lo, num |-> v.num] : v \in M}]
    BY <1>1, <1>4, <1>6 DEF Values!Picked
  <2>2. QED
    BY <2>1
<1>8. IsFiniteSet(D) /\ (\A v \in D : IsNode(v)) /\ Distinct(D)
  BY <1>2, FS_Subset DEF IsCollection, Distinct
<1>9. /\ IsFiniteSet(M) /\ IsFiniteSet(R) /\ M \cap R = {}
      /\ \A v \in M \cup R : IsNode(v) /\ v.state = "UNSPENT"
      /\ Distinct(M \cup R) /\ UnitsIn(M \cup R) \subseteq UnitsIn(D)
  <2>1. CASE change = 0
    <3>1. M = D /\ R = {}
      BY <1>6, <2>1
    <3>2. M \cup R = D
      BY <3>1
    <3>3. QED
      BY <1>2, <1>8, <3>1, <3>2, FS_EmptySet
  <2>2. CASE change # 0
    <3>1. M = (D \ {x}) \cup {cut.paid} /\ R = {cut.rest} /\ change > 0
      BY <1>2, <1>6, <2>2
    <3>2. IsNode(cut.rest) /\ IsNode(cut.paid)
      BY <1>5, <3>1
    <3>3. IsFiniteSet(M) /\ IsFiniteSet(R)
      <4>1. IsFiniteSet(D \ {x})
        BY <1>8, FS_RemoveElement
      <4>2. QED
        BY <3>1, <4>1, FS_AddElement, FS_Singleton
    <3>4. \A v \in D \ {x} : /\ Values!UnitsOf(v) \cap Values!UnitsOf(cut.paid) = {}
                             /\ Values!UnitsOf(v) \cap Values!UnitsOf(cut.rest) = {}
      BY <1>2, <1>5, <1>8 DEF Distinct
    <3>5. Distinct(M \cup R)
      BY <1>5, <1>8, <3>1, <3>4 DEF Distinct
    <3>6. M \cap R = {}
      <4>1. Values!UnitsOf(cut.rest) # {}
        BY <3>2, NodeUnits DEF IsNode
      <4>2. cut.rest \notin M
        BY <1>5, <3>1, <3>4, <4>1
      <4>3. QED
        BY <3>1, <4>2
    <3>7. \A v \in M \cup R : IsNode(v) /\ v.state = "UNSPENT"
      BY <1>2, <1>3, <1>5, <1>8, <3>1, <3>2
    <3>8. UnitsIn(M \cup R) \subseteq UnitsIn(D)
      BY <1>2, <1>5, <3>1 DEF UnitsIn
    <3>9. QED
      BY <3>3, <3>5, <3>6, <3>7, <3>8
  <2>3. QED
    BY <2>1, <2>2
<1>10. PICK d, S : d = p.coll /\ S = p.moved
  OBVIOUS
<1>11. Gives(c, D, M, R, d, S)
  <2>1. /\ d = (c \ D) \cup R \cup {[v EXCEPT !.state = "PENDING"] : v \in M}
        /\ S = {[lo |-> v.lo, num |-> v.num] : v \in M}
    BY <1>7, <1>10
  <2>2. QED
    BY <1>2, <1>9, <2>1 DEF Gives
<1>12. /\ IsCollection(d) /\ S \subseteq Ranges /\ Distinct(S)
       /\ Unspent(d) \subseteq Unspent(c) /\ UnitsIn(S) \subseteq Unspent(c)
       /\ Unspent(d) \cap UnitsIn(S) = {}
  BY <1>11, PickedMoves
<1>13. QED
  BY <1>10, <1>12

\* A new batch takes what it moves from what its sender can spend.
LEMMA BatchAdded ==
    ASSUME NEW h, NEW bs, Sound(h, bs), NEW a \in V1Accounts,
           NEW c, IsCollection(c), Unspent(c) \subseteq Unspent(h[a]),
           NEW due \in Seq(Due), Len(due) <= 2,
           \A k \in DOMAIN due : /\ UnitsIn(due[k].moved) \subseteq Unspent(h[a])
                                 /\ Unspent(c) \cap UnitsIn(due[k].moved) = {}
                                 /\ Distinct(due[k].moved),
           \A k, m \in DOMAIN due :
               k # m => UnitsIn(due[k].moved) \cap UnitsIn(due[m].moved) = {}
    PROVE  Sound([h EXCEPT ![a] = c], Append(bs, [from |-> a, mined |-> FALSE, due |-> due]))
<1> DEFINE g == [h EXCEPT ![a] = c]
           x == [from |-> a, mined |-> FALSE, due |-> due]
           cs == Append(bs, x)
<1>1. Sound(g, bs)
  BY Shrinks
<1>2. g[a] = c /\ \A b \in V1Accounts : b # a => g[b] = h[b]
  BY DEF Sound
<1>3. x \in Batch /\ x.due = due
  BY DEF Batch
<1> HIDE DEF g, x
<1>4. bs \in Seq(Batch) /\ Len(bs) \in Nat /\ DOMAIN bs = 1..Len(bs)
  BY DEF Sound
<1>5. /\ cs \in Seq(Batch) /\ DOMAIN cs = 1..Len(bs) + 1
      /\ cs[Len(bs) + 1] = x /\ \A i \in DOMAIN bs : cs[i] = bs[i]
  BY <1>3, <1>4, AppendProperties
<1> HIDE DEF cs
<1>6. PICK n : n = Len(bs) + 1
  OBVIOUS
<1>7. n \notin DOMAIN bs /\ DOMAIN cs = DOMAIN bs \cup {n} /\ cs[n].due = due
  BY <1>3, <1>4, <1>5, <1>6
<1>8. \A i \in DOMAIN bs : cs[i].due = bs[i].due /\ \A k : Moved(cs, i, k) = Moved(bs, i, k)
  BY <1>5 DEF Moved
<1>9. \A k : Moved(cs, n, k) = UnitsIn(due[k].moved)
  BY <1>7 DEF Moved
<1>10. /\ \A b, d \in V1Accounts : b # d => Unspent(h[b]) \cap Unspent(h[d]) = {}
       /\ \A b \in V1Accounts : \A i \in DOMAIN bs : \A k \in DOMAIN bs[i].due :
             Unspent(h[b]) \cap Moved(bs, i, k) = {}
  BY DEF Sound, HandsApart
<1>11. /\ \A b, d \in V1Accounts : b # d => Unspent(g[b]) \cap Unspent(g[d]) = {}
       /\ \A b \in V1Accounts : \A i \in DOMAIN bs : \A k \in DOMAIN bs[i].due :
             Unspent(g[b]) \cap Moved(bs, i, k) = {}
       /\ \A i, j \in DOMAIN bs : \A k \in DOMAIN bs[i].due, m \in DOMAIN bs[j].due :
             i # j \/ k # m => Moved(bs, i, k) \cap Moved(bs, j, m) = {}
       /\ \A i \in DOMAIN bs : \A k \in DOMAIN bs[i].due : Distinct(bs[i].due[k].moved)
  BY <1>1 DEF Sound, HandsApart
<1>12. \A b \in V1Accounts : \A k \in DOMAIN due : Unspent(g[b]) \cap Moved(cs, n, k) = {}
  <2>1. SUFFICES ASSUME NEW b \in V1Accounts, NEW k \in DOMAIN due
                 PROVE  Unspent(g[b]) \cap UnitsIn(due[k].moved) = {}
    BY <1>9
  <2>2. CASE b = a
    BY <1>2, <2>2
  <2>3. CASE b # a
    <3>1. Unspent(h[b]) \cap Unspent(h[a]) = {}
      BY <1>10, <2>3
    <3>2. UnitsIn(due[k].moved) \subseteq Unspent(h[a])
      OBVIOUS
    <3>3. QED
      BY <1>2, <2>3, <3>1, <3>2
  <2>4. QED
    BY <2>2, <2>3
<1>13. \A i \in DOMAIN bs : \A k \in DOMAIN bs[i].due, m \in DOMAIN due :
          Moved(bs, i, k) \cap Moved(cs, n, m) = {}
  BY <1>9, <1>10
<1>14. \A b \in V1Accounts : \A i \in DOMAIN cs : \A k \in DOMAIN cs[i].due :
          Unspent(g[b]) \cap Moved(cs, i, k) = {}
  BY <1>7, <1>8, <1>11, <1>12
<1>15. ASSUME NEW i \in DOMAIN cs, NEW j \in DOMAIN cs,
              NEW k \in DOMAIN cs[i].due, NEW m \in DOMAIN cs[j].due, i # j \/ k # m
       PROVE  Moved(cs, i, k) \cap Moved(cs, j, m) = {}
  <2>1. CASE i \in DOMAIN bs /\ j \in DOMAIN bs
    BY <1>8, <1>11, <1>15, <2>1
  <2>2. CASE i \in DOMAIN bs /\ j = n
    BY <1>7, <1>8, <1>13, <2>2
  <2>3. CASE i = n /\ j \in DOMAIN bs
    BY <1>7, <1>8, <1>13, <2>3
  <2>4. CASE i = n /\ j = n
    <3>1. k \in DOMAIN due /\ m \in DOMAIN due /\ k # m
      BY <1>7, <1>15, <2>4
    <3>2. UnitsIn(due[k].moved) \cap UnitsIn(due[m].moved) = {}
      BY <3>1
    <3>3. QED
      BY <1>9, <2>4, <3>2
  <2>5. QED
    BY <1>7, <2>1, <2>2, <2>3, <2>4
<1>16. \A i \in DOMAIN cs : \A k \in DOMAIN cs[i].due : Distinct(cs[i].due[k].moved)
  BY <1>7, <1>8, <1>11
<1>17. HandsApart(g, cs)
  BY <1>11, <1>14, <1>15, <1>16 DEF HandsApart
<1>18. \A i \in DOMAIN cs : Len(cs[i].due) <= 2
  BY <1>1, <1>7, <1>8 DEF Sound
<1>19. Sound(g, cs)
  BY <1>1, <1>5, <1>17, <1>18 DEF Sound
<1>20. QED
  BY <1>19 DEF g, cs, x

\* A value arrives: it is no longer on its way, and its recipient can spend it.
LEMMA Arrives ==
    ASSUME NEW h, NEW bs, Sound(h, bs), NEW i \in DOMAIN bs, NEW k \in DOMAIN bs[i].due,
           NEW v \in bs[i].due[k].moved, NEW b \in V1Accounts,
           NEW c, IsCollection(c), Unspent(c) \subseteq Unspent(h[b]) \cup Values!UnitsOf(v)
    PROVE  Sound([h EXCEPT ![b] = c], [bs EXCEPT ![i].due[k].moved = @ \ {v}])
<1> DEFINE g == [h EXCEPT ![b] = c]
           cs == [bs EXCEPT ![i].due[k].moved = @ \ {v}]
<1>1. /\ g \in [V1Accounts -> {g[a] : a \in V1Accounts}]
      /\ g[b] = c /\ \A a \in V1Accounts : a # b => g[a] = h[a]
  BY DEF Sound
<1> HIDE DEF g
<1>2. bs \in Seq(Batch) /\ bs \in [1..Len(bs) -> Batch] /\ Len(bs) \in Nat /\ DOMAIN bs = 1..Len(bs)
  BY DEF Sound
<1>3. PICK D : D = bs[i].due
  OBVIOUS
<1>4. bs[i] \in Batch /\ D \in Seq(Due) /\ D \in [1..Len(D) -> Due] /\ Len(D) \in Nat
      /\ DOMAIN D = 1..Len(D) /\ k \in DOMAIN D
  BY <1>2, <1>3 DEF Batch
<1>5. D[k] \in Due
  BY <1>4
<1>6. PICK p : p = [D[k] EXCEPT !.moved = @ \ {v}]
  OBVIOUS
<1>7. p \in Due /\ p.moved = D[k].moved \ {v}
  BY <1>5, <1>6 DEF Due
<1>8. PICK E : E = [D EXCEPT ![k] = p]
  OBVIOUS
<1>9. E \in [1..Len(D) -> Due] /\ E[k] = p /\ \A m \in DOMAIN D : m # k => E[m] = D[m]
  BY <1>4, <1>7, <1>8
<1>10. E \in Seq(Due) /\ DOMAIN E = DOMAIN D /\ Len(E) = Len(D)
  BY <1>4, <1>9, IsASeq, LenProperties
<1>11. PICK y : y = [bs[i] EXCEPT !.due = E]
  OBVIOUS
<1>12. y \in Batch /\ y.due = E
  BY <1>4, <1>10, <1>11 DEF Batch
<1>13. cs = [bs EXCEPT ![i] = y]
  BY <1>3, <1>6, <1>8, <1>11
<1> HIDE DEF cs
<1>14. cs \in [1..Len(bs) -> Batch] /\ cs[i] = y /\ \A j \in DOMAIN bs : j # i => cs[j] = bs[j]
  BY <1>2, <1>12, <1>13
<1>15. cs \in Seq(Batch) /\ DOMAIN cs = DOMAIN bs
  BY <1>2, <1>14, IsASeq
<1>16. \A j \in DOMAIN bs : DOMAIN cs[j].due = DOMAIN bs[j].due /\ Len(cs[j].due) = Len(bs[j].due)
  BY <1>3, <1>10, <1>12, <1>14
<1>17. \A j \in DOMAIN bs : \A m \in DOMAIN bs[j].due :
          cs[j].due[m].moved = IF j = i /\ m = k THEN bs[i].due[k].moved \ {v}
                               ELSE bs[j].due[m].moved
  BY <1>3, <1>7, <1>9, <1>12, <1>14
<1>18. \A j \in DOMAIN bs : \A m \in DOMAIN bs[j].due : Moved(cs, j, m) \subseteq Moved(bs, j, m)
  BY <1>17 DEF Moved, UnitsIn
<1>19. /\ \A a, d \in V1Accounts : a # d => Unspent(h[a]) \cap Unspent(h[d]) = {}
       /\ \A a \in V1Accounts : \A j \in DOMAIN bs : \A m \in DOMAIN bs[j].due :
             Unspent(h[a]) \cap Moved(bs, j, m) = {}
       /\ \A l, j \in DOMAIN bs : \A n \in DOMAIN bs[l].due, m \in DOMAIN bs[j].due :
             l # j \/ n # m => Moved(bs, l, n) \cap Moved(bs, j, m) = {}
       /\ \A j \in DOMAIN bs : \A m \in DOMAIN bs[j].due : Distinct(bs[j].due[m].moved)
  BY DEF Sound, HandsApart
<1>20. Values!UnitsOf(v) \subseteq Moved(bs, i, k)
  BY DEF Moved, UnitsIn
<1>21. \A j \in DOMAIN bs : \A m \in DOMAIN bs[j].due : Moved(cs, j, m) \cap Values!UnitsOf(v) = {}
  <2>1. SUFFICES ASSUME NEW j \in DOMAIN bs, NEW m \in DOMAIN bs[j].due
                 PROVE  Moved(cs, j, m) \cap Values!UnitsOf(v) = {}
    OBVIOUS
  <2>2. CASE j = i /\ m = k
    <3>1. \A w \in bs[i].due[k].moved \ {v} : Values!UnitsOf(w) \cap Values!UnitsOf(v) = {}
      BY <1>19 DEF Distinct
    <3>2. Moved(cs, i, k) = UnitsIn(bs[i].due[k].moved \ {v})
      BY <1>17 DEF Moved
    <3>3. QED
      BY <2>2, <3>1, <3>2 DEF UnitsIn
  <2>3. CASE ~(j = i /\ m = k)
    <3>1. Moved(bs, j, m) \cap Moved(bs, i, k) = {}
      BY <1>19, <2>3
    <3>2. QED
      BY <1>18, <1>20, <3>1
  <2>4. QED
    BY <2>2, <2>3
<1>22. HandsApart(g, cs)
  <2>1. \A a, d \in V1Accounts : a # d => Unspent(g[a]) \cap Unspent(g[d]) = {}
    <3>1. \A a \in V1Accounts : Unspent(h[a]) \cap Values!UnitsOf(v) = {}
      BY <1>19, <1>20
    <3>2. QED
      BY <1>1, <1>19, <3>1
  <2>2. \A a \in V1Accounts : \A j \in DOMAIN cs : \A m \in DOMAIN cs[j].due :
           Unspent(g[a]) \cap Moved(cs, j, m) = {}
    <3>1. SUFFICES ASSUME NEW a \in V1Accounts, NEW j \in DOMAIN bs, NEW m \in DOMAIN bs[j].due
                   PROVE  Unspent(g[a]) \cap Moved(cs, j, m) = {}
      BY <1>15, <1>16
    <3>2. Unspent(h[a]) \cap Moved(cs, j, m) = {}
      BY <1>18, <1>19
    <3>3. Moved(cs, j, m) \cap Values!UnitsOf(v) = {}
      BY <1>21
    <3>4. QED
      BY <1>1, <3>2, <3>3
  <2>3. \A l, j \in DOMAIN cs : \A n \in DOMAIN cs[l].due, m \in DOMAIN cs[j].due :
           l # j \/ n # m => Moved(cs, l, n) \cap Moved(cs, j, m) = {}
    BY <1>15, <1>16, <1>18, <1>19
  <2>4. \A j \in DOMAIN cs : \A m \in DOMAIN cs[j].due : Distinct(cs[j].due[m].moved)
    <3>1. SUFFICES ASSUME NEW j \in DOMAIN bs, NEW m \in DOMAIN bs[j].due
                   PROVE  Distinct(cs[j].due[m].moved)
      BY <1>15, <1>16
    <3>2. Distinct(bs[j].due[m].moved)
      BY <1>19
    <3>3. cs[j].due[m].moved \subseteq bs[j].due[m].moved
      BY <1>17
    <3>4. QED
      BY <3>2, <3>3 DEF Distinct
  <2>5. QED
    BY <2>1, <2>2, <2>3, <2>4 DEF HandsApart
<1>23. \A a \in V1Accounts : IsCollection(g[a])
  BY <1>1 DEF Sound
<1>24. \A j \in DOMAIN cs : Len(cs[j].due) <= 2
  BY <1>15, <1>16 DEF Sound
<1>25. Sound(g, cs)
  BY <1>1, <1>15, <1>22, <1>23, <1>24 DEF Sound
<1>26. QED
  BY <1>25 DEF g, cs

-----------------------------------------------------------------------------
LEMMA ValuesStart == ValuesAssumption /\ Values!Init => ValuesInv
<1> SUFFICES ASSUME ValuesAssumption, Values!Init PROVE Sound(holds, batches)
  BY DEF ValuesInv
<1> DEFINE node(g) == Values!Node(g.lo, g.num, "UNSPENT", None)
           f == [g \in GenesisValues |-> node(g)]
           G == {f[g] : g \in GenesisValues}
<1>1. \A g \in GenesisValues : /\ IsNode(f[g]) /\ f[g].lo = g.lo /\ f[g].num = g.num
  <2>1. SUFFICES ASSUME NEW g \in GenesisValues
                 PROVE  IsNode(node(g)) /\ node(g).lo = g.lo /\ node(g).num = g.num
    OBVIOUS
  <2>2. g.lo \in Nat /\ g.num \in Nat \ {0}
    BY DEF ValuesAssumption
  <2>3. node(g) = [lo |-> g.lo, num |-> g.num, state |-> "UNSPENT", heir |-> None]
    BY DEF Values!Node
  <2> HIDE DEF node
  <2>4. node(g).lo = g.lo /\ node(g).num = g.num /\ node(g).state = "UNSPENT" /\ node(g).heir = None
    BY <2>3
  <2>5. QED
    BY <2>2, <2>3, <2>4 DEF IsNode
<1>2. holds = [a \in V1Accounts |-> IF a = Treasury THEN G ELSE {}] /\ batches = <<>>
  BY DEF Values!Init
<1>3. IsFiniteSet(G)
  <2>1. f \in Surjection(GenesisValues, G)
    <3>1. f \in [GenesisValues -> G] /\ \A y \in G : \E g \in GenesisValues : f[g] = y
      OBVIOUS
    <3>2. QED
      BY <3>1 DEF Surjection
  <2>2. QED
    BY <2>1, FS_Surjection DEF ValuesAssumption
<1>4. ASSUME NEW x \in G, NEW y \in G, x # y
      PROVE  Values!UnitsOf(x) \cap Values!UnitsOf(y) = {}
  <2>1. PICK g \in GenesisValues, h \in GenesisValues : x = f[g] /\ y = f[h]
    OBVIOUS
  <2>2. (g.lo .. (g.lo + g.num - 1)) \cap (h.lo .. (h.lo + h.num - 1)) = {}
    BY <1>4, <2>1 DEF ValuesAssumption
  <2> HIDE DEF f
  <2>3. QED
    BY <1>1, <2>1, <2>2 DEF Values!UnitsOf
<1>5. IsCollection(G)
  BY <1>1, <1>3, <1>4 DEF IsCollection, Distinct
<1> HIDE DEF G
<1>6. IsCollection({}) /\ Unspent({}) = {}
  BY FS_EmptySet DEF IsCollection, Distinct, Unspent, UnitsIn
<1>7. \A a \in V1Accounts : holds[a] = IF a = Treasury THEN G ELSE {}
  BY <1>2
<1>8. HandsApart(holds, batches)
  <2>1. \A a, b \in V1Accounts : a # b => Unspent(holds[a]) \cap Unspent(holds[b]) = {}
    BY <1>6, <1>7
  <2>2. DOMAIN batches = {}
    BY <1>2
  <2>3. QED
    BY <2>1, <2>2 DEF HandsApart
<1>9. batches \in Seq(Batch) /\ DOMAIN batches = {}
  BY <1>2
<1>10. \A a \in V1Accounts : IsCollection(holds[a])
  BY <1>5, <1>6, <1>7
<1>11. holds \in [V1Accounts -> {holds[a] : a \in V1Accounts}]
  BY <1>2
<1>12. QED
  BY <1>8, <1>9, <1>10, <1>11 DEF Sound

LEMMA ValuesCreate ==
    ASSUME ValuesAssumption, NEW a \in V1Accounts, Sound(holds, batches), Values!CreateBatch(a)
    PROVE  Sound(holds', batches')
<1>1. MaxUnits \in Nat /\ \A amount \in 1..MaxUnits : amount \in Nat \ {0}
  BY DEF ValuesAssumption
<1>2. IsCollection(holds[a])
  BY DEF Sound
<1>3. CASE Values!PayOne(a)
  <2>1. PICK b \in V1Accounts \ {a}, amount \in 1..MaxUnits :
           \E sel \in Values!Selections(holds[a], amount) :
              LET p == Values!Picked(holds[a], sel, amount)
              IN  /\ holds' = [holds EXCEPT ![a] = p.coll]
                  /\ batches' = Append(batches, [from |-> a, mined |-> FALSE,
                                                due |-> <<Values!Pay(b, p.moved)>>])
    BY <1>3 DEF Values!PayOne
  <2>2. PICK p, sel :
           /\ sel \in Values!Selections(holds[a], amount) /\ p = Values!Picked(holds[a], sel, amount)
           /\ holds' = [holds EXCEPT ![a] = p.coll]
           /\ batches' = Append(batches, [from |-> a, mined |-> FALSE,
                                         due |-> <<Values!Pay(b, p.moved)>>])
    BY <2>1
  <2>3. /\ IsCollection(p.coll) /\ p.moved \subseteq Ranges /\ Distinct(p.moved)
        /\ Unspent(p.coll) \subseteq Unspent(holds[a]) /\ UnitsIn(p.moved) \subseteq Unspent(holds[a])
        /\ Unspent(p.coll) \cap UnitsIn(p.moved) = {}
    BY <1>1, <1>2, <2>2, PickMoves
  <2>4. PICK due : due = <<Values!Pay(b, p.moved)>>
    OBVIOUS
  <2>5. due \in Seq(Due) /\ Len(due) <= 2 /\ DOMAIN due = {1} /\ due[1].moved = p.moved
    <3>1. Values!Pay(b, p.moved) \in Due /\ Values!Pay(b, p.moved).moved = p.moved
      BY <2>3 DEF Values!Pay, Due
    <3>2. QED
      BY <2>4, <3>1
  <2>6. \A k \in DOMAIN due : /\ UnitsIn(due[k].moved) \subseteq Unspent(holds[a])
                              /\ Unspent(p.coll) \cap UnitsIn(due[k].moved) = {}
                              /\ Distinct(due[k].moved)
    BY <2>3, <2>5
  <2>7. \A k, m \in DOMAIN due :
           k # m => UnitsIn(due[k].moved) \cap UnitsIn(due[m].moved) = {}
    BY <2>5
  <2>8. PICK c : c = p.coll
    OBVIOUS
  <2>9. Sound([holds EXCEPT ![a] = c],
              Append(batches, [from |-> a, mined |-> FALSE, due |-> due]))
    BY <2>3, <2>5, <2>6, <2>7, <2>8, BatchAdded
  <2>10. QED
    BY <2>2, <2>4, <2>8, <2>9
<1>4. CASE Values!PayTwo(a)
  <2>1. PICK b \in V1Accounts \ {a}, d \in V1Accounts \ {a}, x \in 1..MaxUnits, y \in 1..MaxUnits :
           \E sel \in Values!Selections(holds[a], x) :
              LET p == Values!Picked(holds[a], sel, x)
              IN  \/ /\ holds' = [holds EXCEPT ![a] = p.coll]
                     /\ UNCHANGED batches
                  \/ \E next \in Values!Selections(p.coll, y) :
                         LET q == Values!Picked(p.coll, next, y)
                         IN  /\ holds' = [holds EXCEPT ![a] = q.coll]
                             /\ batches' = Append(batches,
                                    [from |-> a, mined |-> FALSE,
                                     due |-> <<Values!Pay(b, p.moved), Values!Pay(d, q.moved)>>])
    BY <1>4 DEF Values!PayTwo
  <2>2. PICK p, sel :
           /\ sel \in Values!Selections(holds[a], x) /\ p = Values!Picked(holds[a], sel, x)
           /\ \/ /\ holds' = [holds EXCEPT ![a] = p.coll]
                 /\ UNCHANGED batches
              \/ \E next \in Values!Selections(p.coll, y) :
                     LET q == Values!Picked(p.coll, next, y)
                     IN  /\ holds' = [holds EXCEPT ![a] = q.coll]
                         /\ batches' = Append(batches,
                                [from |-> a, mined |-> FALSE,
                                 due |-> <<Values!Pay(b, p.moved), Values!Pay(d, q.moved)>>])
    BY <2>1
  <2>3. /\ IsCollection(p.coll) /\ p.moved \subseteq Ranges /\ Distinct(p.moved)
        /\ Unspent(p.coll) \subseteq Unspent(holds[a]) /\ UnitsIn(p.moved) \subseteq Unspent(holds[a])
        /\ Unspent(p.coll) \cap UnitsIn(p.moved) = {}
    BY <1>1, <1>2, <2>2, PickMoves
  <2>4. PICK e : e = p.coll
    OBVIOUS
  <2>5. CASE holds' = [holds EXCEPT ![a] = p.coll] /\ UNCHANGED batches
    <3>1. Sound([holds EXCEPT ![a] = e], batches)
      BY <2>3, <2>4, Shrinks
    <3>2. QED
      BY <2>4, <2>5, <3>1
  <2>6. CASE \E next \in Values!Selections(p.coll, y) :
                LET q == Values!Picked(p.coll, next, y)
                IN  /\ holds' = [holds EXCEPT ![a] = q.coll]
                    /\ batches' = Append(batches,
                           [from |-> a, mined |-> FALSE,
                            due |-> <<Values!Pay(b, p.moved), Values!Pay(d, q.moved)>>])
    <3>1. PICK q, next :
             /\ next \in Values!Selections(e, y) /\ q = Values!Picked(e, next, y)
             /\ holds' = [holds EXCEPT ![a] = q.coll]
             /\ batches' = Append(batches,
                    [from |-> a, mined |-> FALSE,
                     due |-> <<Values!Pay(b, p.moved), Values!Pay(d, q.moved)>>])
      BY <2>4, <2>6
    <3>2. /\ IsCollection(q.coll) /\ q.moved \subseteq Ranges /\ Distinct(q.moved)
          /\ Unspent(q.coll) \subseteq Unspent(e) /\ UnitsIn(q.moved) \subseteq Unspent(e)
          /\ Unspent(q.coll) \cap UnitsIn(q.moved) = {}
      BY <1>1, <2>3, <2>4, <3>1, PickMoves
    <3>3. PICK due : due = <<Values!Pay(b, p.moved), Values!Pay(d, q.moved)>>
      OBVIOUS
    <3>4. /\ due \in Seq(Due) /\ Len(due) <= 2 /\ DOMAIN due = {1, 2}
          /\ due[1].moved = p.moved /\ due[2].moved = q.moved
      <4>1. Values!Pay(b, p.moved) \in Due /\ Values!Pay(b, p.moved).moved = p.moved
        BY <2>3 DEF Values!Pay, Due
      <4>2. Values!Pay(d, q.moved) \in Due /\ Values!Pay(d, q.moved).moved = q.moved
        BY <3>2 DEF Values!Pay, Due
      <4>3. QED
        BY <3>3, <4>1, <4>2
    <3>5. Unspent(q.coll) \subseteq Unspent(holds[a])
      BY <2>3, <2>4, <3>2
    <3>6. \A k \in DOMAIN due : /\ UnitsIn(due[k].moved) \subseteq Unspent(holds[a])
                                /\ Unspent(q.coll) \cap UnitsIn(due[k].moved) = {}
                                /\ Distinct(due[k].moved)
      BY <2>3, <2>4, <3>2, <3>4
    <3>7. \A k, m \in DOMAIN due :
             k # m => UnitsIn(due[k].moved) \cap UnitsIn(due[m].moved) = {}
      BY <2>3, <2>4, <3>2, <3>4
    <3>8. PICK c : c = q.coll
      OBVIOUS
    <3>9. Sound([holds EXCEPT ![a] = c],
                Append(batches, [from |-> a, mined |-> FALSE, due |-> due]))
      BY <3>2, <3>4, <3>5, <3>6, <3>7, <3>8, BatchAdded
    <3>10. QED
      BY <3>1, <3>3, <3>8, <3>9
  <2>7. QED
    BY <2>2, <2>5, <2>6
<1>5. QED
  BY <1>3, <1>4 DEF Values!CreateBatch

\* The nodes of c are replaced by parts of them that can no sooner be spent.
Lessened(c, f, d) ==
    /\ f = [v \in c |-> f[v]] /\ d = {f[v] : v \in c}
    /\ \A v \in c : /\ IsNode(f[v]) /\ Values!UnitsOf(f[v]) \subseteq Values!UnitsOf(v)
                    /\ f[v].state \in {"UNSPENT", "VERIFIED"} =>
                           v.state \in {"UNSPENT", "VERIFIED"}

LEMMA LessenedShrinks ==
    ASSUME NEW h, NEW bs, Sound(h, bs), NEW a \in V1Accounts, NEW f, NEW d, Lessened(h[a], f, d)
    PROVE  Sound([h EXCEPT ![a] = d], bs)
<1>1. PICK c : c = h[a]
  OBVIOUS
<1>2. IsCollection(c)
  BY <1>1 DEF Sound
<1>3. f = [v \in c |-> f[v]] /\ d = {f[v] : v \in c}
  BY <1>1 DEF Lessened
<1>4. \A v \in c : /\ IsNode(f[v]) /\ Values!UnitsOf(f[v]) \subseteq Values!UnitsOf(v)
                   /\ f[v].state \in {"UNSPENT", "VERIFIED"} =>
                          v.state \in {"UNSPENT", "VERIFIED"}
  BY <1>1 DEF Lessened
<1>5. IsCollection(d)
  <2>1. \A v \in c : IsNode(f[v]) /\ Values!UnitsOf(f[v]) \subseteq Values!UnitsOf(v)
    BY <1>4
  <2>2. QED
    BY <1>2, <1>3, <2>1, Replaced
<1>6. Unspent(d) \subseteq Unspent(h[a])
  <2>1. SUFFICES ASSUME NEW x \in d, x.state \in {"UNSPENT", "VERIFIED"},
                        NEW u \in Values!UnitsOf(x)
                 PROVE  u \in Unspent(c)
    BY <1>1 DEF Unspent, UnitsIn
  <2>2. PICK v \in c : x = f[v]
    BY <1>3
  <2>3. v.state \in {"UNSPENT", "VERIFIED"} /\ u \in Values!UnitsOf(v)
    BY <1>4, <2>1, <2>2
  <2>4. QED
    BY <2>3 DEF Unspent, UnitsIn
<1>7. QED
  BY <1>5, <1>6, Shrinks

\* Another state, and another owner on record.
Relabels(m, v, st, heir) == m = [v EXCEPT !.state = st, !.heir = heir]

LEMMA RelabeledNode ==
    ASSUME NEW v, IsNode(v), NEW st, NEW heir, NEW m, Relabels(m, v, st, heir)
    PROVE  IsNode(m) /\ m.state = st /\ Values!UnitsOf(m) = Values!UnitsOf(v)
<1>1. m = [lo |-> v.lo, num |-> v.num, state |-> st, heir |-> heir]
  <2>1. PICK z : z = [v EXCEPT !.state = st]
    OBVIOUS
  <2>2. z = [lo |-> v.lo, num |-> v.num, state |-> st, heir |-> v.heir]
    BY <2>1 DEF IsNode
  <2>3. m = [z EXCEPT !.heir = heir]
    BY <2>1 DEF Relabels
  <2>4. QED
    BY <2>2, <2>3
<1>2. m.lo = v.lo /\ m.num = v.num /\ m.state = st /\ m.heir = heir
  BY <1>1
<1>3. IsNode(m)
  BY <1>1, <1>2 DEF IsNode
<1>4. Values!UnitsOf(m) = Values!UnitsOf(v)
  BY <1>2 DEF Values!UnitsOf
<1>5. QED
  BY <1>2, <1>3, <1>4

LEMMA ValuesCrash ==
    ASSUME ValuesAssumption, NEW a \in V1Accounts, Sound(holds, batches), Values!CrashInSplit(a)
    PROVE  Sound(holds', batches')
<1>0. PICK amount \in 1..MaxUnits : \E sel \in Values!Selections(holds[a], amount) :
         holds' = [holds EXCEPT ![a] =
            (@ \ {sel.last}) \cup {Values!Split(sel.last, Values!Total(sel.of) - amount).paid}]
  BY DEF Values!CrashInSplit
<1>1. PICK sel \in Values!Selections(holds[a], amount) :
         holds' = [holds EXCEPT ![a] =
            (@ \ {sel.last}) \cup {Values!Split(sel.last, Values!Total(sel.of) - amount).paid}]
  BY <1>0
<1>2. PICK x, p : x = sel.last /\ p = Values!Split(x, Values!Total(sel.of) - amount).paid
  OBVIOUS
<1>3. amount \in Nat \ {0}
  BY DEF ValuesAssumption
<1>4. IsCollection(holds[a])
  BY DEF Sound
<1>5. /\ x \in holds[a] /\ x.state = "UNSPENT" /\ IsNode(x)
      /\ Values!Total(sel.of) - amount \in Nat /\ Values!Total(sel.of) - amount < x.num
  <2>1. /\ sel.of \subseteq {v \in holds[a] : v.state = "UNSPENT"} /\ sel.last \in sel.of
        /\ Values!Total(sel.of) - amount \in Nat /\ Values!Total(sel.of) - amount < sel.last.num
    BY <1>3, <1>4, SelectionCut
  <2>2. QED
    BY <1>2, <1>4, <2>1 DEF IsCollection
<1>6. IsNode(p) /\ p.state = x.state /\ Values!UnitsOf(p) \subseteq Values!UnitsOf(x)
  BY <1>2, <1>5, SplitParts
<1>7. PICK f : f = [v \in holds[a] |-> IF v = x THEN p ELSE v]
  OBVIOUS
<1>8. f = [v \in holds[a] |-> f[v]]
  BY <1>7
<1>9. \A v \in holds[a] : /\ IsNode(f[v]) /\ Values!UnitsOf(f[v]) \subseteq Values!UnitsOf(v)
                          /\ f[v].state \in {"UNSPENT", "VERIFIED"} =>
                                 v.state \in {"UNSPENT", "VERIFIED"}
  BY <1>4, <1>6, <1>7 DEF IsCollection
<1>10. PICK d : d = (holds[a] \ {x}) \cup {p}
  OBVIOUS
<1>11. Lessened(holds[a], f, d)
  <2>1. d = {f[v] : v \in holds[a]}
    BY <1>5, <1>7, <1>10
  <2>2. QED
    BY <1>8, <1>9, <2>1 DEF Lessened
<1>12. holds' = [holds EXCEPT ![a] = d] /\ UNCHANGED batches
  BY <1>1, <1>2, <1>10 DEF Values!CrashInSplit
<1>13. QED
  BY <1>11, <1>12, LessenedShrinks

LEMMA ValuesConfirm ==
    ASSUME NEW i \in DOMAIN batches, Sound(holds, batches), Values!MarkConfirmed(i)
    PROVE  Sound(holds', batches')
<1> DEFINE paid == UNION {batches[i].due[k].moved : k \in DOMAIN batches[i].due}
<1>1. PICK a : a = batches[i].from
  OBVIOUS
<1>2. /\ holds' = [holds EXCEPT ![a] =
            {IF [lo |-> v.lo, num |-> v.num] \in paid THEN [v EXCEPT !.state = "CONFIRMED"] ELSE v : v \in @}]
      /\ UNCHANGED batches
  BY <1>1 DEF Values!MarkConfirmed
<1> HIDE DEF paid
<1>3. a \in V1Accounts
  <2>1. batches[i] \in Batch
    BY ElementOfSeq DEF Sound
  <2>2. QED
    BY <1>1, <2>1 DEF Batch
<1>4. \A v \in holds[a] : IsNode(v)
  BY <1>3 DEF Sound, IsCollection
<1>5. PICK f : f = [v \in holds[a] |->
                      IF [lo |-> v.lo, num |-> v.num] \in paid
                      THEN [v EXCEPT !.state = "CONFIRMED"] ELSE v]
  OBVIOUS
<1>6. f = [v \in holds[a] |-> f[v]]
  BY <1>5
<1>7. \A v \in holds[a] : /\ IsNode(f[v]) /\ Values!UnitsOf(f[v]) \subseteq Values!UnitsOf(v)
                          /\ f[v].state \in {"UNSPENT", "VERIFIED"} =>
                                 v.state \in {"UNSPENT", "VERIFIED"}
  <2>1. SUFFICES ASSUME NEW v \in holds[a]
                 PROVE  /\ IsNode(f[v]) /\ Values!UnitsOf(f[v]) \subseteq Values!UnitsOf(v)
                        /\ f[v].state \in {"UNSPENT", "VERIFIED"} =>
                               v.state \in {"UNSPENT", "VERIFIED"}
    OBVIOUS
  <2>2. PICK m : m = [v EXCEPT !.state = "CONFIRMED"]
    OBVIOUS
  <2>3. IsNode(m) /\ m.state = "CONFIRMED" /\ Values!UnitsOf(m) = Values!UnitsOf(v)
    BY <1>4, <2>2, MarkedNode
  <2>4. f[v] = m \/ f[v] = v
    BY <1>5, <2>2
  <2>5. QED
    BY <1>4, <2>3, <2>4
<1>8. PICK d : d = {f[v] : v \in holds[a]}
  OBVIOUS
<1>9. Lessened(holds[a], f, d)
  BY <1>6, <1>7, <1>8 DEF Lessened
<1>10. holds' = [holds EXCEPT ![a] = d]
  BY <1>2, <1>5, <1>8
<1>11. QED
  BY <1>2, <1>3, <1>9, <1>10, LessenedShrinks

LEMMA ValuesMine ==
    ASSUME NEW i \in DOMAIN batches, Sound(holds, batches), Values!Mine(i)
    PROVE  Sound(holds', batches')
<1> DEFINE due == batches[i].due
           list == Values!FlattenSeq([k \in DOMAIN due |->
                       Values!SetToSortSeq(due[k].moved, LAMBDA v, w : v.lo < w.lo)])
           at(v) == {n \in DOMAIN list : list[n].lo = v.lo}
           heir(n) == IF n <= Len(due) THEN due[n].to ELSE due[1].to
           new(v) == IF at(v) = {} THEN v
                     ELSE [v EXCEPT !.state = Values!SentState, !.heir = heir(Values!Max(at(v)))]
<1>1. PICK a : a = batches[i].from
  OBVIOUS
<1>2. /\ holds' = [holds EXCEPT ![a] = {new(v) : v \in @}]
      /\ batches' = [batches EXCEPT ![i].mined = TRUE]
  BY <1>1 DEF Values!Mine
<1>3. \A v : new(v) = v \/ \E h : new(v) = [v EXCEPT !.state = "ONCHAIN", !.heir = h]
  BY DEF Values!SentState
<1> HIDE DEF new
<1>4. a \in V1Accounts
  <2>1. batches[i] \in Batch
    BY ElementOfSeq DEF Sound
  <2>2. QED
    BY <1>1, <2>1 DEF Batch
<1>5. \A v \in holds[a] : IsNode(v)
  BY <1>4 DEF Sound, IsCollection
<1>6. PICK f : f = [v \in holds[a] |-> new(v)]
  OBVIOUS
<1>7. f = [v \in holds[a] |-> f[v]]
  BY <1>6
<1>8. \A v \in holds[a] : /\ IsNode(f[v]) /\ Values!UnitsOf(f[v]) \subseteq Values!UnitsOf(v)
                          /\ f[v].state \in {"UNSPENT", "VERIFIED"} =>
                                 v.state \in {"UNSPENT", "VERIFIED"}
  <2>1. SUFFICES ASSUME NEW v \in holds[a]
                 PROVE  /\ IsNode(f[v]) /\ Values!UnitsOf(f[v]) \subseteq Values!UnitsOf(v)
                        /\ f[v].state \in {"UNSPENT", "VERIFIED"} =>
                               v.state \in {"UNSPENT", "VERIFIED"}
    OBVIOUS
  <2>2. PICK h, m : m = [v EXCEPT !.state = "ONCHAIN", !.heir = h] /\ (f[v] = v \/ f[v] = m)
    BY <1>3, <1>6
  <2>3. IsNode(m) /\ m.state = "ONCHAIN" /\ Values!UnitsOf(m) = Values!UnitsOf(v)
    <3>1. IsNode(v)
      BY <1>5
    <3>2. Relabels(m, v, "ONCHAIN", h)
      BY <2>2 DEF Relabels
    <3>3. QED
      BY <3>1, <3>2, RelabeledNode
  <2>4. QED
    BY <1>5, <2>2, <2>3
<1>9. PICK d : d = {f[v] : v \in holds[a]}
  OBVIOUS
<1>10. Lessened(holds[a], f, d)
  BY <1>7, <1>8, <1>9 DEF Lessened
<1>11. holds' = [holds EXCEPT ![a] = d]
  BY <1>2, <1>6, <1>9
<1>12. Sound(holds', batches)
  BY <1>4, <1>10, <1>11, LessenedShrinks
<1>13. QED
  BY <1>2, <1>12, MinedKeeps

LEMMA ValuesConvert ==
    ASSUME NEW a \in V1Accounts, Sound(holds, batches), Values!Convert(a)
    PROVE  Sound(holds', batches')
<1>1. PICK x \in holds[a] : /\ x.state = "VERIFIED"
                           /\ holds' = [holds EXCEPT ![a] = (@ \ {x}) \cup {[x EXCEPT !.state = "UNSPENT"]}]
  BY DEF Values!Convert
<1>2. UNCHANGED batches
  BY DEF Values!Convert
<1>3. \A v \in holds[a] : IsNode(v)
  BY DEF Sound, IsCollection
<1>4. PICK p : p = [x EXCEPT !.state = "UNSPENT"]
  OBVIOUS
<1>5. IsNode(p) /\ Values!UnitsOf(p) = Values!UnitsOf(x)
  BY <1>3, <1>4, MarkedNode
<1>6. PICK f : f = [v \in holds[a] |-> IF v = x THEN p ELSE v]
  OBVIOUS
<1>7. f = [v \in holds[a] |-> f[v]]
  BY <1>6
<1>8. \A v \in holds[a] : /\ IsNode(f[v]) /\ Values!UnitsOf(f[v]) \subseteq Values!UnitsOf(v)
                          /\ f[v].state \in {"UNSPENT", "VERIFIED"} =>
                                 v.state \in {"UNSPENT", "VERIFIED"}
  BY <1>1, <1>3, <1>5, <1>6
<1>9. PICK d : d = (holds[a] \ {x}) \cup {p}
  OBVIOUS
<1>10. Lessened(holds[a], f, d)
  <2>1. d = {f[v] : v \in holds[a]}
    BY <1>6, <1>9
  <2>2. QED
    BY <1>7, <1>8, <2>1 DEF Lessened
<1>11. holds' = [holds EXCEPT ![a] = d]
  BY <1>1, <1>4, <1>9
<1>12. QED
  BY <1>2, <1>10, <1>11, LessenedShrinks

\* The recipient keeps nothing that shares units with the value, but possibly a
\* node of the same range.
LEMMA ValuesReceive ==
    ASSUME NEW i \in DOMAIN batches, NEW k \in DOMAIN batches[i].due,
           Sound(holds, batches), Values!Receive(i, k), ~clashed'
    PROVE  Sound(holds', batches')
<1> DEFINE b == batches[i].due[k].to
<1>1. PICK v \in batches[i].due[k].moved :
         /\ batches' = [batches EXCEPT ![i].due[k].moved = @ \ {v}]
         /\ clashed' = \E w \in holds[b] : Values!Overlap(w, v) /\ (w.lo # v.lo \/ w.num # v.num)
         /\ LET known == {w \in holds[b] : w.lo = v.lo}
            IN  holds' = [holds EXCEPT ![b] =
                   IF known = {} THEN @ \cup {Values!Node(v.lo, v.num, "VERIFIED", b)}
                   ELSE (@ \ known) \cup {[w EXCEPT !.state = "VERIFIED", !.heir = b] : w \in known}]
  BY DEF Values!Receive
<1>2. b \in V1Accounts /\ v \in Ranges
  <2>1. batches[i] \in Batch
    BY ElementOfSeq DEF Sound
  <2>2. batches[i].due \in Seq(Due)
    BY <2>1 DEF Batch
  <2>3. batches[i].due[k] \in Due
    BY <2>2, ElementOfSeq
  <2>4. QED
    BY <1>1, <2>3 DEF Due
<1> HIDE DEF b
<1>3. v.lo \in Nat /\ v.num \in Nat \ {0} /\ v.lo \in Values!UnitsOf(v)
  BY <1>2, NodeUnits DEF Ranges
<1>4. PICK c : c = holds[b]
  OBVIOUS
<1>5. IsCollection(c)
  BY <1>2, <1>4 DEF Sound
<1>6. \A w \in c : w.lo = v.lo \/ Values!UnitsOf(w) \cap Values!UnitsOf(v) = {}
  BY <1>1, <1>4 DEF Values!Overlap
<1>7. \A w \in c : w.lo = v.lo => w.num = v.num /\ Values!UnitsOf(w) = Values!UnitsOf(v)
  <2>1. SUFFICES ASSUME NEW w \in c, w.lo = v.lo
                 PROVE  w.num = v.num /\ Values!UnitsOf(w) = Values!UnitsOf(v)
    OBVIOUS
  <2>2. w.lo \in Values!UnitsOf(w)
    BY <1>5, NodeUnits DEF IsCollection, IsNode
  <2>3. w.num = v.num
    BY <1>1, <1>3, <1>4, <2>1, <2>2 DEF Values!Overlap
  <2>4. QED
    BY <2>1, <2>3 DEF Values!UnitsOf
<1>8. PICK K : K = {w \in c : w.lo = v.lo}
  OBVIOUS
<1>9. CASE K = {}
  <2>1. PICK n, d : n = Values!Node(v.lo, v.num, "VERIFIED", b) /\ d = c \cup {n}
    OBVIOUS
  <2>2. n = [lo |-> v.lo, num |-> v.num, state |-> "VERIFIED", heir |-> b]
    BY <2>1 DEF Values!Node
  <2>3. n.lo = v.lo /\ n.num = v.num /\ n.state = "VERIFIED" /\ n.heir = b
    BY <2>2
  <2>4. IsNode(n) /\ Values!UnitsOf(n) = Values!UnitsOf(v)
    BY <1>3, <2>2, <2>3 DEF IsNode, Values!UnitsOf
  <2>5. \A w \in c : Values!UnitsOf(w) \cap Values!UnitsOf(n) = {}
    BY <1>6, <1>8, <1>9, <2>4
  <2>6. IsFiniteSet(d)
    BY <1>5, <2>1, FS_AddElement DEF IsCollection
  <2>7. IsCollection(d)
    BY <1>5, <2>1, <2>4, <2>5, <2>6 DEF IsCollection, Distinct
  <2>8. Unspent(d) \subseteq Unspent(holds[b]) \cup Values!UnitsOf(v)
    BY <1>4, <2>1, <2>4 DEF Unspent, UnitsIn
  <2>9. holds' = [holds EXCEPT ![b] = d]
    BY <1>1, <1>4, <1>8, <1>9, <2>1
  <2>10. Sound([holds EXCEPT ![b] = d], [batches EXCEPT ![i].due[k].moved = @ \ {v}])
    BY <1>1, <1>2, <2>7, <2>8, Arrives
  <2>11. QED
    BY <1>1, <2>9, <2>10
<1>10. CASE K # {}
  <2>1. PICK f : f = [w \in c |-> IF w \in K THEN [w EXCEPT !.state = "VERIFIED", !.heir = b] ELSE w]
    OBVIOUS
  <2>2. PICK d : d = {f[w] : w \in c}
    OBVIOUS
  <2>3. f = [w \in c |-> f[w]]
    BY <2>1
  <2>4. \A w \in c : IsNode(f[w]) /\ Values!UnitsOf(f[w]) = Values!UnitsOf(w) /\ (w \notin K => f[w] = w)
    <3>1. SUFFICES ASSUME NEW w \in c
                   PROVE  IsNode(f[w]) /\ Values!UnitsOf(f[w]) = Values!UnitsOf(w) /\ (w \notin K => f[w] = w)
      OBVIOUS
    <3>2. PICK m : m = [w EXCEPT !.state = "VERIFIED", !.heir = b]
      OBVIOUS
    <3>3. IsNode(w)
      BY <1>5 DEF IsCollection
    <3>4. IsNode(m) /\ Values!UnitsOf(m) = Values!UnitsOf(w)
      <4>1. Relabels(m, w, "VERIFIED", b)
        BY <3>2 DEF Relabels
      <4>2. QED
        BY <3>3, <4>1, RelabeledNode
    <3>5. f[w] = IF w \in K THEN m ELSE w
      BY <2>1, <3>2
    <3>6. QED
      BY <3>3, <3>4, <3>5
  <2>5. IsCollection(d)
    <3>1. \A w \in c : IsNode(f[w]) /\ Values!UnitsOf(f[w]) \subseteq Values!UnitsOf(w)
      BY <2>4
    <3>2. QED
      BY <1>5, <2>2, <2>3, <3>1, Replaced
  <2>6. Unspent(d) \subseteq Unspent(holds[b]) \cup Values!UnitsOf(v)
    <3>1. SUFFICES ASSUME NEW x \in d, x.state \in {"UNSPENT", "VERIFIED"},
                          NEW u \in Values!UnitsOf(x)
                   PROVE  u \in Unspent(holds[b]) \cup Values!UnitsOf(v)
      BY DEF Unspent, UnitsIn
    <3>2. PICK w \in c : x = f[w]
      BY <2>2
    <3>3. CASE w \in K
      BY <1>7, <1>8, <2>4, <3>2, <3>3
    <3>4. CASE w \notin K
      <4>1. x = w
        BY <2>4, <3>2, <3>4
      <4>2. QED
        BY <1>4, <3>1, <4>1 DEF Unspent, UnitsIn
    <3>5. QED
      BY <3>3, <3>4
  <2>7. holds' = [holds EXCEPT ![b] = d]
    <3>1. (c \ K) \cup {[w EXCEPT !.state = "VERIFIED", !.heir = b] : w \in K} = d
      BY <1>8, <2>1, <2>2
    <3>2. QED
      BY <1>1, <1>4, <1>8, <1>10, <3>1
  <2>8. Sound([holds EXCEPT ![b] = d], [batches EXCEPT ![i].due[k].moved = @ \ {v}])
    BY <1>1, <1>2, <2>5, <2>6, Arrives
  <2>9. QED
    BY <1>1, <2>7, <2>8
<1>11. QED
  BY <1>9, <1>10

LEMMA ValuesStep == ValuesAssumption /\ ValuesInv /\ [Values!Next]_(Values!valueVars) => ValuesInv'
<1> SUFFICES ASSUME ValuesAssumption, ValuesInv, [Values!Next]_(Values!valueVars), ~clashed' PROVE Sound(holds', batches')
  BY DEF ValuesInv
<1>1. CASE UNCHANGED Values!valueVars
  BY <1>1 DEF ValuesInv, Values!valueVars
<1>2. CASE Values!Next
  <2>1. ~clashed
    BY <1>2 DEF Values!Next, Values!CreateBatch, Values!CrashInSplit, Values!MarkConfirmed,
                Values!Mine, Values!Receive, Values!Convert
  <2>2. Sound(holds, batches)
    BY <2>1 DEF ValuesInv
  <2>3. ASSUME NEW a \in V1Accounts, Values!CreateBatch(a) PROVE Sound(holds', batches')
    BY <2>2, <2>3, ValuesCreate
  <2>4. ASSUME NEW a \in V1Accounts, Values!CrashInSplit(a) PROVE Sound(holds', batches')
    BY <2>2, <2>4, ValuesCrash
  <2>5. ASSUME NEW i \in DOMAIN batches, Values!MarkConfirmed(i) PROVE Sound(holds', batches')
    BY <2>2, <2>5, ValuesConfirm
  <2>6. ASSUME NEW i \in DOMAIN batches, Values!Mine(i) PROVE Sound(holds', batches')
    BY <2>2, <2>6, ValuesMine
  <2>7. ASSUME NEW i \in DOMAIN batches, NEW k \in DOMAIN batches[i].due, Values!Receive(i, k)
        PROVE  Sound(holds', batches')
    BY <2>2, <2>7, ValuesReceive
  <2>8. ASSUME NEW a \in V1Accounts, Values!Convert(a) PROVE Sound(holds', batches')
    BY <2>2, <2>8, ValuesConvert
  <2>9. QED
    BY <1>2, <2>3, <2>4, <2>5, <2>6, <2>7, <2>8 DEF Values!Next
<1>3. QED
  BY <1>1, <1>2

LEMMA ValuesInvImplies == ValuesInv => UnitsOwnedOnce
<1> SUFFICES ASSUME Sound(holds, batches) PROVE Values!OwnedOnce /\ Values!NoOverlap
  BY DEF ValuesInv, UnitsOwnedOnce, Values!UnitsOwnedOnce
<1>1. Values!NoOverlap
  BY DEF Sound, IsCollection, Distinct, Values!NoOverlap, Values!Overlap
<1>2. \A a : Values!Spendable(a) = Unspent(holds[a])
  BY DEF Values!Spendable, Unspent, UnitsIn
<1>3. \A i, k : Values!Moving(i, k) = Moved(batches, i, k)
  BY DEF Values!Moving, Moved, UnitsIn
<1>4. Values!OwnedOnce
  <2>1. SUFFICES ASSUME NEW c \in Values!Claims, NEW d \in Values!Claims, c # d
                 PROVE  Values!ClaimOf(c) \cap Values!ClaimOf(d) = {}
    BY DEF Values!OwnedOnce
  <2>2. \A e \in Values!Claims :
           \/ \E a \in V1Accounts : e = <<a>> /\ Values!ClaimOf(e) = Unspent(holds[a])
           \/ \E i \in DOMAIN batches : \E k \in DOMAIN batches[i].due :
                 e = <<i, k>> /\ Values!ClaimOf(e) = Moved(batches, i, k)
           \/ Values!ClaimOf(e) = {}
    <3>1. SUFFICES ASSUME NEW e \in Values!Claims
                   PROVE  \/ \E a \in V1Accounts : e = <<a>> /\ Values!ClaimOf(e) = Unspent(holds[a])
                          \/ \E i \in DOMAIN batches : \E k \in DOMAIN batches[i].due :
                                e = <<i, k>> /\ Values!ClaimOf(e) = Moved(batches, i, k)
                          \/ Values!ClaimOf(e) = {}
      OBVIOUS
    <3>2. CASE \E a \in V1Accounts : e = <<a>>
      <4>1. PICK a \in V1Accounts : e = <<a>>
        BY <3>2
      <4>2. Len(e) = 1 /\ e[1] = a
        BY <4>1
      <4>3. QED
        BY <1>2, <4>1, <4>2 DEF Values!ClaimOf
    <3>3. CASE \E i \in DOMAIN batches, k \in 1..2 : e = <<i, k>>
      <4>1. PICK i \in DOMAIN batches, k \in 1..2 : e = <<i, k>>
        BY <3>3
      <4>2. Len(e) = 2 /\ e[1] = i /\ e[2] = k
        BY <4>1
      <4>3. Values!ClaimOf(e) = IF k \in DOMAIN batches[i].due THEN Moved(batches, i, k) ELSE {}
        BY <1>3, <4>2 DEF Values!ClaimOf
      <4>4. QED
        BY <4>1, <4>3
    <3>4. QED
      BY <3>2, <3>3 DEF Values!Claims
  <2>3. HandsApart(holds, batches)
    BY DEF Sound
  <2>4. QED
    BY <2>1, <2>2, <2>3 DEF HandsApart
<1>5. QED
  BY <1>1, <1>4

\* No unit of a V1 value is in two hands, and no account keeps overlapping
\* values, for any accounts, values, payments and crashes (VPBManager.py,
\* AccountPickValues.py, AccountValueCollection.py).
THEOREM NoUnitTwice == ValuesAssumption => (Values!Spec => []UnitsOwnedOnce)
<1> SUFFICES ASSUME ValuesAssumption PROVE Values!Spec => []UnitsOwnedOnce
  OBVIOUS
<1>1. Values!Init => ValuesInv
  BY ValuesStart
<1>2. ValuesInv /\ [Values!Next]_(Values!valueVars) => ValuesInv'
  BY ValuesStep
<1>3. ValuesInv => UnitsOwnedOnce
  BY ValuesInvImplies
<1>4. QED
  BY <1>1, <1>2, <1>3, PTL DEF Values!Spec

==============================================================================
