------------------------------ MODULE MCParts ------------------------------
(***************************************************************************)
(* The parts of the repository that share no state with each other, each a *)
(* module of its own, side by side for TLC: a behaviour picks one part and *)
(* takes the steps of its specification; the others stay as they began.    *)
(***************************************************************************)
EXTENDS Parts, LocalNet

CONSTANTS h1, h2, idA, idB, pkg, p1, p2

VARIABLES part

\* PeerSync
VARIABLES tip, down, news, bundle, unconfirmed, order, last, fetched, resetSeen, at, faults
peerVars == <<tip, down, news, bundle, unconfirmed, order, last, fetched, resetSeen, at, faults>>

Peer == INSTANCE PeerSync WITH
    Peers <- {p1, p2}, MaxHeight <- 2, MaxFaults <- 1, pending <- unconfirmed

\* V1History: three accounts, a value that can be split and one that cannot.
VARIABLES coll, queued, ledger, proofsDue, vpbs, checkpoints
historyVars == <<coll, queued, ledger, proofsDue, vpbs, checkpoints>>

Histories == INSTANCE V1History WITH
    Accounts <- {p1, p2, pkg}, Treasury <- p1, Nobody <- None, MaxBlocks <- 3,
    Genesis <- {[lo |-> 0, num |-> 2], [lo |-> 2, num |-> 1]}

\* V1Collection: two values, one of which can be split.
VARIABLES vals, nextNode, misses, short, repaired
collectionVars == <<vals, nextNode, misses, short, repaired>>

Collections == INSTANCE V1Collection WITH
    Ranges <- {[lo |-> 0, num |-> 2], [lo |-> 2, num |-> 1]},
    States <- {"UNSPENT", "PENDING", "CONFIRMED"}, MaxNodes <- 2, MaxFailures <- 1,
    c <- vals, fresh <- nextNode, failures <- misses

\* V1Vault: two genesis values and one that is received, one payment, one fault.
VARIABLES vault, nodeId, submitted, paid, torn, killed, cameWith, dropped
vaultVars == <<vault, nodeId, submitted, paid, torn, killed, cameWith, dropped>>

Vault == INSTANCE V1Vault WITH
    Genesis <- <<[lo |-> 0, num |-> 2], [lo |-> 2, num |-> 1]>>,
    Foreign <- [lo |-> 3, num |-> 1], Nobody <- None,
    MaxNodes <- 3, MaxPays <- 1, MaxFaults <- 1,
    s <- vault, fresh <- nodeId, bundle <- submitted, pays <- paid,
    failures <- torn, crashes <- killed, due <- cameWith

\* Selection: up to three records of one to three units, with a checkpoint,
\* one away from a checkpoint, or without any.
VARIABLES records, amount, index, exact, best
selectionVars == <<records, amount, index, exact, best>>

Kind(s, c, d, u, h) == [size |-> s, checkpoint |-> c, distance |-> d, units |-> u, height |-> h]
Choice == INSTANCE Selection WITH
    Kinds <- UNION {{Kind(s, TRUE, 1, 2, 1), Kind(s, FALSE, 1, 3, 2), Kind(s, FALSE, 99, 1, 1)} :
                        s \in 1..3},
    MaxRecords <- 3, MaxAmount <- 6, Inf <- 99

\* LocalNet: two wallets, one of which starts with two units.
OneGift == [a \in {p1, p2} |-> IF a = p1 THEN {1..2} ELSE {}]

\* Commitments: a state tree of eight places, blocks of up to five entries,
\* claim sets of up to three ranges.
VARIABLES items, leaves, claims
commitVars == <<items, leaves, claims>>

Commit == INSTANCE Commitments WITH
    Depth <- 3, Keys <- {0, 1, 2, 5, 7}, Hashes <- {1, 2}, Contents <- 1..4, MaxLeaves <- 5,
    LastUnit <- 4, MaxRanges <- 3

\* V1Values, of Parts: the treasury starts with two values, or with three.
TwoValues == {[lo |-> 0, num |-> 1], [lo |-> 1, num |-> 2]}
ThreeValues == {[lo |-> 0, num |-> 1], [lo |-> 1, num |-> 1], [lo |-> 2, num |-> 2]}

\* V1Chain, of Parts: two forks from the genesis block, the second one longer.
TwoForks == [b \in 1..5 |-> IF b = 3 THEN 0 ELSE b - 1]

\* V1Pool, of Parts: two submissions of one submitter, one of another.
ThreeSubmissions == {[submitter |-> p1, time |-> 1], [submitter |-> p1, time |-> 2],
                     [submitter |-> p2, time |-> 3]}

\* ConsensusThreads: one validator that has voted for
\* block A in round 1 and is asked for block B, for votes of round 2 that carry a
\* lock or none, and to observe a timeout certificate.
Proposing(r, b, j) == [height |-> 1, round |-> r, block |-> <<b>>, justify |-> j]
LockFor(b) == [height |-> 1, round |-> 2, phase |-> "precommit", block |-> <<b>>]

Voted == [height |-> 1, round |-> 1, phase |-> "prepare", voter |-> p1, block |-> <<idA>>]
Calls == {Voting(Proposing(1, idB, NoQC), "prepare"),
          Voting(Proposing(2, idA, LockFor(idA)), "commit"),
          Voting(Proposing(2, idB, NoQC), "commit"),
          TimedOut(1)}

\* AutoRun: two consensus daemons, two bundles, every sortition of the first
\* three views that two submissions can reach.
VARIABLES winner, up, inPool, height, round, armed, due, routing, driving, made,
          routed, ends, missed
autoVars == <<winner, up, inPool, height, round, armed, due, routing, driving, made,
              routed, ends, missed>>

Views == (1..3) \X (1..4)
Auto == INSTANCE AutoRun WITH
    Hosts <- {p1, p2}, Bundles <- {idA, idB},
    Winners <- {[v \in Views |-> IF v \in owed THEN p2 ELSE p1] :
                    owed \in SUBSET {<<1, 1>>, <<2, 1>>, <<2, 2>>}},
    MaxRound <- 3, MaxSubmits <- 2, MaxCrashes <- 1, MaxMissed <- 1,
    pool <- inPool, blocks <- made, submits <- routed, stops <- ends

-----------------------------------------------------------------------------
vars == <<part, appVars, nodeVars, peerVars, chainVars, poolVars, valueVars, historyVars, collectionVars, vaultVars, selectionVars, threadVars, autoVars, routerVars, localVars, commitVars>>

PartsInit ==
    /\ part \in {"app", "node", "peer", "v1chain", "v1pool", "v1values", "v1history", "v1collection", "v1vault", "selection", "threads", "autorun", "router", "localnet", "commitments"}
    /\ App!Init /\ Node!Init /\ Peer!Init
    /\ OldChain!Init /\ Pool!Init /\ Values!Init /\ Histories!Init
    /\ Collections!Init /\ Vault!Init /\ Choice!Init
    /\ Init /\ Auto!Init /\ Route!Init /\ LocalInit /\ Commit!Init
    /\ part # "autorun" => winner = [v \in Views |-> p1]
    /\ part # "router" => reach = {}

AppNext ==
    /\ part = "app" /\ App!Next
    /\ UNCHANGED <<part, nodeVars, peerVars, chainVars, poolVars, valueVars, historyVars, collectionVars, vaultVars, selectionVars, threadVars, autoVars, routerVars, localVars, commitVars>>
NodeNext ==
    /\ part = "node" /\ Node!Next
    /\ UNCHANGED <<part, appVars, peerVars, chainVars, poolVars, valueVars, historyVars, collectionVars, vaultVars, selectionVars, threadVars, autoVars, routerVars, localVars, commitVars>>
PeerNext ==
    /\ part = "peer" /\ Peer!Next
    /\ UNCHANGED <<part, appVars, nodeVars, chainVars, poolVars, valueVars, historyVars, collectionVars, vaultVars, selectionVars, threadVars, autoVars, routerVars, localVars, commitVars>>
ChainNext ==
    /\ part = "v1chain" /\ OldChain!Next
    /\ UNCHANGED <<part, appVars, nodeVars, peerVars, poolVars, valueVars, historyVars, collectionVars, vaultVars, selectionVars, threadVars, autoVars, routerVars, localVars, commitVars>>
PoolNext ==
    /\ part = "v1pool" /\ Pool!Next
    /\ UNCHANGED <<part, appVars, nodeVars, peerVars, chainVars, valueVars, historyVars, collectionVars, vaultVars, selectionVars, threadVars, autoVars, routerVars, localVars, commitVars>>
ValuesNext ==
    /\ part = "v1values" /\ Values!Next
    /\ UNCHANGED <<part, appVars, nodeVars, peerVars, chainVars, poolVars, historyVars, collectionVars, vaultVars, selectionVars, threadVars, autoVars, routerVars, localVars, commitVars>>
HistoriesNext ==
    /\ part = "v1history" /\ Histories!Next
    /\ UNCHANGED <<part, appVars, nodeVars, peerVars, chainVars, poolVars, valueVars, collectionVars, vaultVars, selectionVars, threadVars, autoVars, routerVars, localVars, commitVars>>
CollectionsNext ==
    /\ part = "v1collection" /\ Collections!Next
    /\ UNCHANGED <<part, appVars, nodeVars, peerVars, chainVars, poolVars, valueVars, historyVars, vaultVars, selectionVars, threadVars, autoVars, routerVars, localVars, commitVars>>
VaultNext ==
    /\ part = "v1vault" /\ Vault!Next
    /\ UNCHANGED <<part, appVars, nodeVars, peerVars, chainVars, poolVars, valueVars, historyVars, collectionVars, selectionVars, threadVars, autoVars, routerVars, localVars, commitVars>>
ChoiceNext ==
    /\ part = "selection" /\ Choice!Next
    /\ UNCHANGED <<part, appVars, nodeVars, peerVars, chainVars, poolVars, valueVars, historyVars, collectionVars, vaultVars, threadVars, autoVars, routerVars, localVars, commitVars>>
CoreNext ==
    /\ part = "threads" /\ Next
    /\ UNCHANGED <<part, appVars, nodeVars, peerVars, chainVars, poolVars, valueVars, historyVars, collectionVars, vaultVars, selectionVars, autoVars, routerVars, localVars, commitVars>>
AutoNext ==
    /\ part = "autorun" /\ Auto!Next
    /\ UNCHANGED <<part, appVars, nodeVars, peerVars, chainVars, poolVars, valueVars, historyVars, collectionVars, vaultVars, selectionVars, threadVars, routerVars, localVars, commitVars>>
RouteNext ==
    /\ part = "router" /\ Route!Next
    /\ UNCHANGED <<part, appVars, nodeVars, peerVars, chainVars, poolVars, valueVars, historyVars, collectionVars, vaultVars, selectionVars, threadVars, autoVars, localVars, commitVars>>
NetNext ==
    /\ part = "localnet" /\ LocalNext
    /\ UNCHANGED <<part, appVars, nodeVars, peerVars, chainVars, poolVars, valueVars, historyVars, collectionVars, vaultVars, selectionVars, threadVars, autoVars, routerVars, commitVars>>
CommitNext ==
    /\ part = "commitments" /\ Commit!Next
    /\ UNCHANGED <<part, appVars, nodeVars, peerVars, chainVars, poolVars, valueVars, historyVars, collectionVars, vaultVars, selectionVars, threadVars, autoVars, routerVars, localVars>>

PartsNext ==
    \/ AppNext \/ NodeNext \/ PeerNext \/ ChainNext
    \/ PoolNext \/ ValuesNext \/ HistoriesNext \/ CollectionsNext \/ VaultNext
    \/ ChoiceNext \/ CoreNext \/ AutoNext \/ RouteNext \/ NetNext \/ CommitNext

\* The loops of the account daemon, of the consensus daemons and of the router
\* keep running, and their timers run out.
Fairness ==
    /\ WF_peerVars(part = "peer" /\ Peer!Loop)
    /\ \A h \in {p1, p2} : /\ WF_autoVars(part = "autorun" /\ Auto!Loop(h))
                           /\ WF_autoVars(part = "autorun" /\ Auto!Elapse(h))
    /\ WF_routerVars(part = "router" /\ Route!Tick)
    /\ WF_routerVars(part = "router" /\ Route!Maintain)

PartsSpec == PartsInit /\ [][PartsNext]_vars /\ Fairness

\* Besides, what is routed or announced to a consensus daemon arrives, and one
\* that has ended is started again.
ArrivingSpec ==
    /\ PartsSpec
    /\ \A h \in {p1, p2} : /\ WF_autoVars(part = "autorun" /\ Auto!Track(h))
                           /\ WF_autoVars(part = "autorun" /\ Auto!Follow(h))
                           /\ WF_autoVars(part = "autorun" /\ Auto!Restart(h))

-----------------------------------------------------------------------------
(* An invariant of a part is evaluated where that part has moved.             *)

\* The account daemon ends up knowing the highest head it can reach, and a
\* receipt it can reach ends the wait for it (PeerSync); a seed that can be
\* reached is greeted (Router); a selected proposer with bundles in its pool
\* acts (AutoRun).
LoopsCatchUp ==
    /\ <>[](part = "peer" => Peer!CaughtUp) /\ Peer!ReceiptArrives
    /\ Route!SeedsGreeted
    /\ Auto!ProposerActs

\* What stands for values says what it should.  The history that goes with a V1
\* value convinces its recipient of what the chain says (V1History), the indexes
\* of an account's values agree (V1Collection), and what it can spend is
\* documented in its databases through crashes (V1Vault); the plan of a payment
\* is the cheapest one (Selection), and proofs, roots and claim sets stand for
\* what they were made of (Commitments).
ValuesSound ==
    /\ part = "v1history" => Histories!HistoryKept
    /\ part = "v1collection" => Collections!CollectionSound
    /\ part = "v1vault" => Vault!VaultSound
    /\ part = "selection" => Choice!SelectionIsCheapest
    /\ part = "commitments" => Commit!CommitmentsSound

\* Without its condition: a piece that comes back breaks it (V1Values).
OwnedOnce == Values!OwnedOnce

\* The recorded owner of a value that left is its recipient (V1Values).
HeirRecorded == Values!HeirRecorded

\* Without its condition: a recipient refuses histories of values that are
\* paid to it in a block (V1History).
PaidValueAccepted == Histories!PaidValueAccepted

\* Without its condition: removing one value takes the genesis unit from the
\* others (V1Vault).
GenesisUnitKept == Vault!GenesisUnitKept

\* Without the order: the values are loaded in the order they were last stored
\* (V1Collection).
ReloadKeepsOrder == Collections!ReloadKeepsOrder

\* Without a condition on the reads: a validation that reads nothing deletes
\* every row (V1Collection).
ValidationKeepsRows == Collections!ValidationKeepsRows

\* Without its condition: a clock that is set back breaks it (Router).
HandledOnce == Route!HandledOnce

\* A bundle in a pool ends up in a block: a host that is not selected breaks it
\* (AutoRun).
PooledIsCommitted == Auto!PooledIsCommitted

\* Only a crash of its own ends a daemon: an exception of a tick breaks it
\* (AutoRun).
EndsAlone == Auto!EndsAlone
=============================================================================
