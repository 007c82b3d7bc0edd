------------------------------- MODULE AutoRun -------------------------------
(***************************************************************************)
(* Consensus daemons that choose their proposer by sortition and batch     *)
(* what they accept in a window (auto_run_mvp_consensus with a window in   *)
(* network_host.py, the loop of run_ez_v2_tcp_consensus.py): a bundle goes *)
(* to the proposer its first host selects for the next block, waits in     *)
(* that host's pool, and a tick of that host's loop drives a round once    *)
(* the window over an unchanged pool has passed.                           *)
(*                                                                         *)
(* Sortition is a function of height and round: the seed holds the tip,    *)
(* and every host keeps the claim it has signed for a seed.  Signatures    *)
(* are randomised, so a host that restarts draws again.  A round is one    *)
(* call; its votes are ConsensusNet's subject, and so is that one block    *)
(* is made at each height.  The peers that receipts are pushed to          *)
(* (_pending_previews) are left out: the push is opportunistic.            *)
(***************************************************************************)
EXTENDS Naturals, Sequences

CONSTANTS Hosts, Bundles,
          Winners,        \* the sortitions considered: a host for each height and round
          MaxRound, MaxSubmits, MaxCrashes, MaxMissed

VARIABLES winner,         \* select_best_proposer for each view
          up, pool,
          height, round,  \* the next block's height less one, the pacemaker's round
          armed,          \* _auto_run_snapshot_key: the view and pool the window is for
          due,            \* the window has passed
          routing,        \* a bundle on its way to the proposer selected for it
          driving,        \* the view and bundles of the round a tick is in
          blocks,         \* the chain: the bundles and the round of each block
          submits, stops, missed

autoVars == <<winner, up, pool, height, round, armed, due, routing, driving, blocks,
              submits, stops, missed>>

Unset == <<>>

View(h) == <<height[h] + 1, round[h]>>
Confirmed(n) == UNION {blocks[i].bundles : i \in 1..n}
Later(a, b) == IF a >= b THEN a ELSE b
AllUp == \A h \in Hosts : up[h]

Init ==
    /\ winner \in Winners
    /\ up = [h \in Hosts |-> TRUE]
    /\ pool = [h \in Hosts |-> {}]
    /\ height = [h \in Hosts |-> 0] /\ round = [h \in Hosts |-> 1]
    /\ armed = [h \in Hosts |-> Unset] /\ due = [h \in Hosts |-> FALSE]
    /\ routing = [h \in Hosts |-> Unset] /\ driving = [h \in Hosts |-> Unset]
    /\ blocks = <<>>
    /\ submits = 0 /\ stops = 0 /\ missed = 0

-----------------------------------------------------------------------------
\* _auto_route_mvp_bundle up to the forward: every host answers with its claim.
Route(h, b) ==
    /\ up[h] /\ AllUp /\ routing[h] = Unset /\ submits < MaxSubmits
    /\ b \notin Confirmed(height[h])
    /\ routing' = [routing EXCEPT ![h] = <<b, winner[View(h)]>>]
    /\ submits' = submits + 1
    /\ UNCHANGED <<winner, up, pool, height, round, armed, due, driving, blocks, stops, missed>>

\* _track_pending_mvp_bundle at the selected host, which takes the lock its
\* tick holds through a round: the bundle enters the pool unless it is there or
\* confirmed, and the window starts again.
Track(h) ==
    /\ up[h] /\ routing[h] # Unset
    /\ LET b == routing[h][1] w == routing[h][2]
           taken == up[w] /\ b \notin pool[w] \cup Confirmed(height[w])
       IN  /\ up[w] => driving[w] = Unset
           /\ IF taken
              THEN /\ pool' = [pool EXCEPT ![w] = @ \cup {b}]
                   /\ armed' = [armed EXCEPT ![w] = <<View(w), pool'[w]>>]
                   /\ due' = [due EXCEPT ![w] = FALSE]
              ELSE UNCHANGED <<pool, armed, due>>
    /\ routing' = [routing EXCEPT ![h] = Unset]
    /\ UNCHANGED <<winner, up, height, round, driving, blocks, submits, stops, missed>>

\* The window over the armed snapshot passes.
Elapse(h) ==
    /\ up[h] /\ armed[h] # Unset /\ ~due[h]
    /\ due' = [due EXCEPT ![h] = TRUE]
    /\ UNCHANGED <<winner, up, pool, height, round, armed, routing, driving, blocks, submits, stops, missed>>

Ticking(h) == up[h] /\ driving[h] = Unset

\* drive_auto_mvp_consensus_tick with nothing to propose.
TickEmpty(h) ==
    /\ Ticking(h) /\ pool[h] = {} /\ armed[h] # Unset
    /\ armed' = [armed EXCEPT ![h] = Unset]
    /\ due' = [due EXCEPT ![h] = FALSE]
    /\ UNCHANGED <<winner, up, pool, height, round, routing, driving, blocks, submits, stops, missed>>

\* Mutant: every tick starts the window again.
TickArmAlways(h) ==
    /\ Ticking(h) /\ pool[h] # {}
    /\ armed' = [armed EXCEPT ![h] = <<View(h), pool[h]>>]
    /\ due' = [due EXCEPT ![h] = FALSE]
    /\ UNCHANGED <<winner, up, pool, height, round, routing, driving, blocks, submits, stops, missed>>

\* The snapshot is another one than the window was for: a new window.
TickArm(h) ==
    /\ Ticking(h) /\ pool[h] # {} /\ armed[h] # <<View(h), pool[h]>>
    /\ armed' = [armed EXCEPT ![h] = <<View(h), pool[h]>>]
    /\ due' = [due EXCEPT ![h] = FALSE]
    /\ UNCHANGED <<winner, up, pool, height, round, routing, driving, blocks, submits, stops, missed>>

Due(h) == Ticking(h) /\ pool[h] # {} /\ armed[h] = <<View(h), pool[h]>> /\ due[h]

\* The window has passed and this host is the proposer: run_mvp_consensus_round
\* starts, under the lock.  A host that is not the proposer does nothing.
TickDrive(h) ==
    /\ Due(h) /\ AllUp /\ winner[View(h)] = h
    /\ driving' = [driving EXCEPT ![h] = <<View(h), pool[h]>>]
    /\ UNCHANGED <<winner, up, pool, height, round, armed, due, routing, blocks, submits, stops, missed>>

\* An exception of the tick leaves the daemon's loop, which has no handler for
\* it: the process ends.
Ends(h) ==
    /\ up' = [up EXCEPT ![h] = FALSE]
    /\ pool' = [pool EXCEPT ![h] = {}]
    /\ armed' = [armed EXCEPT ![h] = Unset] /\ due' = [due EXCEPT ![h] = FALSE]
    /\ routing' = [routing EXCEPT ![h] = Unset]
    /\ driving' = [driving EXCEPT ![h] = Unset]

\* A call to a peer raises: cause holds, or the transport has timed out.
Raises(cause) ==
    \/ cause /\ UNCHANGED missed
    \/ missed < MaxMissed /\ missed' = missed + 1

\* A claim cannot be had from a peer.
TickFails(h) ==
    /\ Due(h) /\ Raises(~AllUp)
    /\ Ends(h)
    /\ UNCHANGED <<winner, height, round, blocks, submits, stops>>

\* Every peer votes for a block on its own tip that nobody has made yet.
Votes(h) ==
    LET v == driving[h][1] IN
    /\ AllUp
    /\ \A p \in Hosts : height[p] + 1 = v[1] /\ v[2] + 1 >= round[p]
    /\ Len(blocks) + 1 = v[1]

\* The round commits, and the tick forgets the snapshot.
Commit(h) ==
    /\ up[h] /\ driving[h] # Unset /\ Votes(h)
    /\ blocks' = Append(blocks, [bundles |-> driving[h][2], round |-> driving[h][1][2]])
    /\ height' = [height EXCEPT ![h] = @ + 1]
    /\ round' = [round EXCEPT ![h] = Later(@, driving[h][1][2] + 1)]
    /\ pool' = [pool EXCEPT ![h] = @ \ driving[h][2]]
    /\ driving' = [driving EXCEPT ![h] = Unset]
    /\ armed' = [armed EXCEPT ![h] = Unset] /\ due' = [due EXCEPT ![h] = FALSE]
    /\ UNCHANGED <<winner, up, routing, submits, stops, missed>>

\* A peer is down, behind or ahead: the round raises, perhaps with a
\* certificate that has moved the driver's round.
RoundFails(h) ==
    /\ up[h] /\ driving[h] # Unset /\ Raises(~Votes(h))
    /\ Ends(h)
    /\ \E r \in {round[h], Later(round[h], driving[h][1][2] + 1)} :
         r <= MaxRound /\ round' = [round EXCEPT ![h] = r]
    /\ UNCHANGED <<winner, height, blocks, submits, stops>>

\* The announcement of the next block reaches a host.
Follow(h) ==
    /\ up[h] /\ height[h] < Len(blocks)
    /\ height' = [height EXCEPT ![h] = @ + 1]
    /\ pool' = [pool EXCEPT ![h] = @ \ blocks[height[h] + 1].bundles]
    /\ UNCHANGED <<winner, up, round, armed, due, routing, driving, blocks, submits, stops, missed>>

\* The finalization of a block reaches a host, mostly after its announcement,
\* or is lost: its certificate moves the round, then the block is applied if it
\* is the next one.
Finalize(h) ==
    \E i \in 1..Len(blocks) :
        /\ up[h] /\ round[h] <= blocks[i].round
        /\ round' = [round EXCEPT ![h] = blocks[i].round + 1]
        /\ IF height[h] + 1 = i
           THEN /\ height' = [height EXCEPT ![h] = i]
                /\ pool' = [pool EXCEPT ![h] = @ \ blocks[i].bundles]
           ELSE UNCHANGED <<height, pool>>
        /\ UNCHANGED <<winner, up, armed, due, routing, driving, blocks, submits, stops, missed>>

Crash(h) ==
    /\ up[h] /\ stops < MaxCrashes
    /\ Ends(h)
    /\ stops' = stops + 1
    /\ UNCHANGED <<winner, height, round, blocks, submits, missed>>

\* The claims a host has made are only in its memory: it draws new ones, which
\* may win or lose any view to the claims of the others.
Restart(h) ==
    /\ ~up[h]
    /\ up' = [up EXCEPT ![h] = TRUE]
    /\ winner' \in {w \in Winners : \A v \in DOMAIN w : winner[v] = h \/ w[v] \in {winner[v], h}}
    /\ UNCHANGED <<pool, height, round, armed, due, routing, driving, blocks, submits, stops, missed>>

\* What the daemon's loop does in this state.
Loop(h) == TickEmpty(h) \/ TickArm(h) \/ TickDrive(h) \/ TickFails(h) \/ Commit(h) \/ RoundFails(h)

Next ==
    \E h \in Hosts :
        \/ \E b \in Bundles : Route(h, b)
        \/ Track(h) \/ Elapse(h) \/ Loop(h) \/ Follow(h) \/ Finalize(h)
        \/ Crash(h) \/ Restart(h)

\* The daemon's loop goes round, and time passes.
Fairness == \A h \in Hosts : WF_autoVars(Loop(h)) /\ WF_autoVars(Elapse(h))

Spec == Init /\ [][Next]_autoVars /\ Fairness

-----------------------------------------------------------------------------
\* A proposer with bundles acts: a host does not stay for ever the one selected
\* for its own view with bundles in its pool.  The windows that submissions keep
\* restarting, the rounds and blocks of others and restarts delay its round,
\* which commits, loses to another block or ends its process
\* (drive_auto_mvp_consensus_tick).
ProposerActs == \A h \in Hosts : []<>~(up[h] /\ pool[h] # {} /\ winner[View(h)] = h)

\* A bundle in a pool ends up in a block while its host runs.  The code breaks
\* it: a pool whose host is not selected for the next block stays, for nobody
\* forwards it again (network_host.py:850; the comment at 912-915 says of the
\* synchronous path that a bundle must not be left without a trigger to commit).
PooledIsCommitted ==
    \A h \in Hosts : \A b \in Bundles :
        (up[h] /\ b \in pool[h]) ~> (~up[h] \/ b \in Confirmed(Len(blocks)))

\* Only a crash of its own ends a daemon.  The code breaks it: an exception of
\* the tick, say for a peer that is down, ends the loop.
EndsAlone == [][\A h \in Hosts : up[h] /\ ~up'[h] => stops' > stops]_autoVars
=============================================================================
