------------------------------ MODULE PeerSync ------------------------------
(***************************************************************************)
(* How an account host follows the chain through several consensus peers   *)
(* (network_host.py, V2AccountHost): the recovery loop of its daemon, the  *)
(* messages that arrive meanwhile, peers that lag, vanish and come back, a *)
(* network that starts over, and the host's own restart.  A request is one *)
(* step; the recovery loop and the handlers run in threads of their own.   *)
(***************************************************************************)
EXTENDS Naturals, Sequences, FiniteSets, SequencesExt

CONSTANTS
    Peers,          \* the consensus peers, as the account lists them
    None,
    MaxHeight,
    MaxFaults       \* bound on the outages, the new starts and the restarts together

VARIABLES
    tip,            \* the head of each peer: an epoch and a height in it
    down,           \* the peers that cannot be reached
    news,           \* announced blocks under way; one may never arrive
    bundle,         \* the account's bundle: in the pool, in a block, or lost with the pool
    pending,        \* the wallet holds the pending bundle
    order,          \* consensus_peer_ids; the first one is preferred
    last,           \* last_seen_chain
    fetched,        \* fetched_blocks, as a set of blocks
    resetSeen,      \* _detected_chain_reset
    at,             \* where the recovery loop is
    faults

vars == <<tip, down, news, bundle, pending, order, last, fetched,
          resetSeen, at, faults>>
env == <<tip, down, news, bundle, faults>>

FirstHead == [epoch |-> 0, height |-> 0]
\* Between its rounds the loop is about to call recover_network_state, which
\* begins with refresh_chain_state.
Idle == [pc |-> "query", then |-> "clear", prev |-> None, best |-> None, todo |-> {}]
Up == Peers \ down

\* The account has just submitted a bundle.
Init ==
    /\ tip = [p \in Peers |-> FirstHead] /\ down = {} /\ news = {}
    /\ bundle = [st |-> "pool", block |-> FirstHead] /\ pending = TRUE
    /\ order = SetToSeq(Peers) /\ last = None /\ fetched = {} /\ resetSeen = FALSE
    /\ at = Idle /\ faults = 0

-----------------------------------------------------------------------------
(* The peers *)

\* Peer p applies the next block: one that another peer has, or a new one,
\* which may hold the pooled bundle; whoever makes a block announces it.
Grow(p) ==
    LET next == [tip[p] EXCEPT !.height = @ + 1]
        new == \A q \in Peers : tip[q].height < next.height
    IN  /\ next.height <= MaxHeight
        /\ tip' = [tip EXCEPT ![p] = next]
        /\ IF new THEN /\ bundle' \in {bundle, IF bundle.st = "pool"
                                              THEN [st |-> "block", block |-> next] ELSE bundle}
                       /\ news' = news \cup {next}
                  ELSE UNCHANGED <<bundle, news>>
        /\ UNCHANGED <<down, pending, order, last, fetched, resetSeen,
                       at, faults>>

GoesDown(p) ==
    /\ p \in Up /\ faults < MaxFaults /\ faults' = faults + 1
    /\ down' = down \cup {p}
    /\ UNCHANGED <<tip, news, bundle, pending, order, last, fetched,
                   resetSeen, at>>

ComesUp(p) ==
    /\ p \in down
    /\ down' = down \ {p}
    /\ UNCHANGED <<tip, news, bundle, pending, order, last, fetched,
                   resetSeen, at, faults>>

\* The operator starts the network over, with another genesis.
StartOver ==
    /\ faults < MaxFaults /\ faults' = faults + 1
    /\ \E p \in Peers : tip[p].height > 0
    /\ tip' = [p \in Peers |-> [epoch |-> tip[p].epoch + 1, height |-> 0]]
    /\ bundle' = IF bundle.st = "pool" THEN [bundle EXCEPT !.st = "lost"] ELSE bundle
    /\ news' = {}
    /\ UNCHANGED <<down, pending, order, last, fetched, resetSeen, at>>

-----------------------------------------------------------------------------
(* The account host *)

Promoted(p) == <<p>> \o SelectSeq(order, LAMBDA q : q # p)

\* The peer that answers _send_to_consensus: the first one that is up.
Answering(p) ==
    /\ p \in Up
    /\ \E i \in DOMAIN order : order[i] = p /\ \A j \in 1..(i - 1) : order[j] \in down

Has(p, block) == tip[p].epoch = block.epoch /\ tip[p].height >= block.height
HasReceipt(p) == bundle.st = "block" /\ Has(p, bundle.block)

\* The answer to a receipt request is a message of its own, handled at once.
ReceiptFrom(ps) ==
    pending' = (pending /\ \A p \in ps : ~HasReceipt(p))

\* _known_chain_is_ahead_of
KnownAheadOf(cursor) ==
    last # None /\ (\/ cursor.height < last.height
                    \/ cursor.height = last.height /\ cursor # last)

\* Storing a block replaces the one at its height.
Stored(block) == {b \in fetched : b.height # block.height} \cup {block}

\* A new block's announcement: the block is stored, a receipt in it is asked
\* for, its sender first, and the cursor moves to it, forward or back.
Announced(n) ==
    /\ n \in news /\ news' = news \ {n}
    /\ fetched' = Stored(n)
    /\ IF pending /\ bundle = [st |-> "block", block |-> n]
       THEN /\ ReceiptFrom(Up)
            /\ \/ \E p \in Up : order' = Promoted(p)
               \/ Up = {} /\ UNCHANGED order
       ELSE UNCHANGED <<pending, order>>
    /\ last' = n
    /\ UNCHANGED <<tip, down, bundle, resetSeen, at, faults>>

\* Mutant: the first peer that answers is the best one.
HighestIsFirst(p) == Answering(p)

\* _query_best_chain_state_from_consensus_peers: the first of the highest heads
\* in the order of preference; nobody answers: the loop gives up.
Highest(p) ==
    /\ p \in Up
    /\ \A i, j \in DOMAIN order :
          order[i] = p /\ order[j] \in Up =>
             \/ tip[order[j]].height < tip[p].height
             \/ tip[order[j]].height = tip[p].height /\ i <= j

Query ==
    /\ at.pc = "query"
    /\ IF Up = {} THEN at' = Idle
       ELSE \E p \in Peers : /\ Highest(p)
                             /\ at' = [at EXCEPT !.pc = "settle", !.prev = last,
                                                 !.best = [peer |-> p, cursor |-> tip[p]]]
    /\ UNCHANGED <<env, pending, order, last, fetched, resetSeen>>

\* _reconcile_fetched_blocks_with_chain_cursor: a head that is lower than the
\* last one, or another at its height, is the head of a chain that started over.
Trimmed(cursor) ==
    LET low == {b \in fetched : b.height <= cursor.height}
    IN  IF \E b \in low : b.height = cursor.height /\ b # cursor THEN {} ELSE low

LooksReset(cursor, prev) ==
    /\ fetched # {}
    /\ \/ cursor.height = 0
       \/ prev # None /\ prev.height > cursor.height
       \/ prev # None /\ prev.height = cursor.height /\ prev # cursor
       \/ Trimmed(cursor) # fetched

\* On to the next of the heights that sync_chain_blocks wants, or to the next
\* round.
NextBlock(todo) == IF todo = {} THEN Idle ELSE [Idle EXCEPT !.pc = "block", !.todo = todo]
Rest == at.todo \ {Min(at.todo)}

Settle ==
    /\ at.pc = "settle"
    /\ last' = at.best.cursor
    /\ order' = Promoted(at.best.peer)
    /\ fetched' = Trimmed(at.best.cursor)
    /\ resetSeen' = (resetSeen \/ LooksReset(at.best.cursor, at.prev))
    /\ at' = IF at.then = "again" /\ at.best.peer = order[1] THEN NextBlock(Rest)
             ELSE [Idle EXCEPT !.pc = at.then, !.todo = at.todo]
    /\ UNCHANGED <<env, pending>>

\* Back in recover_network_state: a reset clears the pending bundles, and the
\* genesis values are asked for.
Clear ==
    /\ at.pc = "clear"
    /\ pending' = (pending /\ ~resetSeen)
    /\ resetSeen' = FALSE
    /\ IF Up = {} THEN at' = Idle /\ UNCHANGED order
       ELSE /\ \E p \in Peers : Answering(p) /\ order' = Promoted(p)
            /\ at' = [at EXCEPT !.pc = "receipts"]
    /\ UNCHANGED <<env, last, fetched>>

\* _refresh_best_peer_if_preferred_stale, before each request of the loop: the
\* loop refreshes first and makes the request then.
Stale == order[1] \in Up /\ KnownAheadOf(tip[order[1]])

RefreshFirst(pc, then) ==
    /\ at.pc = pc /\ Stale
    /\ at' = [at EXCEPT !.pc = "query", !.then = then]
    /\ UNCHANGED <<env, pending, order, last, fetched, resetSeen>>

\* sync_pending_receipts: every peer is asked, in order, until one has it; then
\* sync_chain_blocks refreshes.
Ask ==
    /\ at.pc = "ask" \/ (at.pc = "receipts" /\ (~pending \/ ~Stale))
    /\ ReceiptFrom(Up)
    /\ IF pending /\ Up # {}
       THEN \E p \in Up : /\ HasReceipt(p) \/ \A q \in Up : ~HasReceipt(q)
                          /\ order' = Promoted(p)
       ELSE UNCHANGED order
    /\ at' = [at EXCEPT !.pc = "query", !.then = "blocks"]
    /\ UNCHANGED <<env, last, fetched, resetSeen>>

\* sync_chain_blocks asks for the heights above the highest block it has.
Top(blocks) == Max({b.height : b \in blocks} \cup {0})

Blocks ==
    /\ at.pc = "blocks"
    /\ at' = NextBlock((Top(fetched) + 1)..last.height)
    /\ UNCHANGED <<env, pending, order, last, fetched, resetSeen>>

\* fetch_block: the answer is a message of its own; a peer that misses the block
\* makes the host refresh, and ask once more if it then prefers another peer.
TakeBlock(block) ==
    /\ fetched' = Stored(block)
    /\ last' = IF last = None \/ block.height >= last.height THEN block ELSE last

Fetch ==
    /\ at.pc \in {"fetch", "again"} \/ (at.pc = "block" /\ ~Stale)
    /\ IF Up = {} THEN at' = Idle /\ UNCHANGED <<order, last, fetched>>
       ELSE \E p \in Peers :
               /\ Answering(p) /\ order' = Promoted(p)
               /\ IF Min(at.todo) <= tip[p].height
                  THEN /\ TakeBlock([tip[p] EXCEPT !.height = Min(at.todo)])
                       /\ at' = NextBlock(Rest)
                  ELSE /\ UNCHANGED <<last, fetched>>
                       /\ at' = IF at.pc = "again" THEN NextBlock(Rest)
                                ELSE [at EXCEPT !.pc = "query", !.then = "again"]
    /\ UNCHANGED <<env, pending, resetSeen>>

\* The host's process ends and starts again from its state file, which is
\* written at every change but a promotion; or it is told to forget that file
\* and the pending bundles (reset_ephemeral_state).
Restart(forget) ==
    /\ faults < MaxFaults /\ faults' = faults + 1
    /\ \E p \in Peers : order' = Promoted(p)
    /\ IF forget THEN pending' = FALSE /\ fetched' = {} /\ last' = None
                 ELSE UNCHANGED <<pending, fetched, last>>
    /\ resetSeen' = FALSE /\ at' = Idle
    /\ UNCHANGED <<tip, down, news, bundle>>

-----------------------------------------------------------------------------
Loop ==
    \/ Query \/ Settle \/ Clear \/ Ask \/ Blocks \/ Fetch
    \/ pending /\ RefreshFirst("receipts", "ask")
    \/ RefreshFirst("block", "fetch")

Next ==
    \/ \E p \in Peers : Grow(p) \/ GoesDown(p) \/ ComesUp(p)
    \/ StartOver
    \/ \E n \in news : Announced(n)
    \/ Loop \/ \E forget \in BOOLEAN : Restart(forget)

Spec == Init /\ [][Next]_vars

\* The daemon calls recover_network_state for as long as it runs.
FairSpec == Spec /\ WF_vars(Loop)

-----------------------------------------------------------------------------
Best == {tip[p] : p \in {q \in Up : \A r \in Up : tip[r].height <= tip[q].height}}

\* Whatever the host was told in between, and whichever peers lag, once the
\* peers that can be reached stay as they are it knows the highest head and has
\* stored that block.
CaughtUp == Up # {} => last \in Best /\ (last.height > 0 => last \in fetched)
CatchesUp == <>[]CaughtUp

\* A bundle in a block does not stay pending while a peer that has its receipt
\* can be reached.
ReceiptArrives ==
    <>[](\E p \in Up : HasReceipt(p)) => []<>(~pending)

\* Not so in the code: without a fault, a bundle stops being pending only when
\* its receipt arrives.
NeverDropped ==
    [][pending /\ ~pending' /\ faults' = 0 => \E p \in Up : HasReceipt(p)]_vars
=============================================================================
