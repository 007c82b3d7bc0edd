------------------------------ MODULE V1Pool -------------------------------
(***************************************************************************)
(* The V1 transaction pool (EZ_V1/EZ_Tx_Pool/TXPool.py) and the picker     *)
(* that empties it into blocks (PickTx.py): handler threads validate,      *)
(* queue and store submissions in three steps with the lock held only in   *)
(* the last two, the miner takes a copy of the queue and removes what it   *)
(* packed one by one, and a restart loads the rows not marked processed.   *)
(*                                                                         *)
(* A submission is a record of its submitter and its time stamp; the       *)
(* record is its hash.  Malformed submissions change nothing.              *)
(***************************************************************************)
EXTENDS Naturals, Sequences, SequencesExt, FiniteSets, FiniteSetsExt

CONSTANTS Threads, Submissions, PerBlock, MaxSubmits, MaxStops, MaxCleanups

VARIABLES
    queue,     \* pool
    place,     \* hash_index: the queued hashes and their positions
    rows,      \* submit_tx_infos: [sub, processed], in the order of insertion
    handler,   \* what each thread is at: [at, sub]
    block,     \* selected_submit_tx_infos of the last package
    toRemove,  \* what the miner still has to remove
    packed, answered, expired,  \* history: packed, told "added", deleted as old
    submits, stops, cleanups    \* bounds

poolVars == <<queue, place, rows, handler, block, toRemove, packed, answered,
              expired, submits, stops, cleanups>>
bounds == <<submits, stops, cleanups>>
history == <<packed, answered, expired>>

Idle == [at |-> "idle"]

\* The elements of q at the positions in D, in their order.
Only(q, D) ==
    [k \in 1..Cardinality(D) |-> q[CHOOSE i \in D : Cardinality({j \in D : j <= i}) = k]]

\* _rebuild_indices: of equal hashes the last position counts.
Indices(q) == [s \in ToSet(q) |-> Max({i \in DOMAIN q : q[i] = s})]

Init ==
    /\ queue = <<>> /\ place = Indices(queue) /\ rows = <<>>
    /\ handler = [t \in Threads |-> Idle]
    /\ block = <<>> /\ toRemove = <<>>
    /\ packed = {} /\ answered = {} /\ expired = {}
    /\ submits = 0 /\ stops = 0 /\ cleanups = 0

-----------------------------------------------------------------------------
(* Submitting. *)

\* validate_submit_tx_info: the submitter has nothing in submitter_index.
Validate(t, s) ==
    /\ handler[t] = Idle /\ submits < MaxSubmits
    /\ submits' = submits + 1
    /\ \A i \in DOMAIN queue : queue[i].submitter # s.submitter
    /\ handler' = [handler EXCEPT ![t] = [at |-> "validated", sub |-> s]]
    /\ UNCHANGED <<queue, place, rows, block, toRemove, history, stops, cleanups>>

\* add_submit_tx_info under the lock.
Enqueue(t) ==
    /\ handler[t].at = "validated"
    /\ queue' = Append(queue, handler[t].sub)
    /\ place' = Indices(queue')
    /\ handler' = [handler EXCEPT ![t].at = "queued"]
    /\ UNCHANGED <<rows, block, toRemove, history, bounds>>

\* _persist_to_database: INSERT OR REPLACE, and the answer.
Persist(t) ==
    /\ handler[t].at = "queued"
    /\ LET s == handler[t].sub
       IN  /\ rows' = Append(Only(rows, {i \in DOMAIN rows : rows[i].sub # s}),
                             [sub |-> s, processed |-> FALSE])
           /\ answered' = answered \cup {s}
    /\ handler' = [handler EXCEPT ![t] = Idle]
    /\ UNCHANGED <<queue, place, block, toRemove, packed, expired, bounds>>

-----------------------------------------------------------------------------
(* Packing. *)

\* BUG: every queued submission goes into the block.
OnePerSubmitterAll(q) == q

\* _filter_unique_submitters: the first submission of each submitter.
OnePerSubmitter(q) ==
    Only(q, {i \in DOMAIN q : \A j \in 1..(i - 1) : q[j].submitter # q[i].submitter})

\* Newest first; those of one time stay in their order.
Newest(q) ==
    LET Ahead(i) == {j \in DOMAIN q : \/ q[j].time > q[i].time
                                      \/ q[j].time = q[i].time /\ j <= i}
    IN  [k \in DOMAIN q |-> q[CHOOSE i \in DOMAIN q : Cardinality(Ahead(i)) = k]]

\* The order of _select_transactions: "fifo", or newest first for "fee".
Ordered(q, strategy) == IF strategy = "fee" THEN Newest(q) ELSE q

\* pick_transactions: the package is made from a copy of the queue.
Pick(strategy) ==
    /\ toRemove = <<>> /\ queue # <<>>
    /\ LET chosen == OnePerSubmitter(Ordered(queue, strategy))
       IN  block' = SubSeq(chosen, 1, IF Len(chosen) < PerBlock THEN Len(chosen) ELSE PerBlock)
    /\ toRemove' = block'
    /\ packed' = packed \cup ToSet(block')
    /\ UNCHANGED <<queue, place, rows, handler, answered, expired, bounds>>

\* BUG: the positions found before the removal stay in use.
RebuiltStale(q, s) == [x \in DOMAIN place \ {s} |-> place[x]]

\* The indices once s is out of the queue.
Rebuilt(q, s) == Indices(q)

\* remove_submit_tx_info under the lock: nothing for an unknown hash.
RemovePicked ==
    /\ toRemove # <<>>
    /\ toRemove' = Tail(toRemove)
    /\ LET s == Head(toRemove)
       IN  IF s \in DOMAIN place
           THEN /\ rows' = [i \in DOMAIN rows |->
                               IF rows[i].sub = s THEN [rows[i] EXCEPT !.processed = TRUE] ELSE rows[i]]
                /\ queue' = RemoveAt(queue, place[s])
                /\ place' = Rebuilt(queue', s)
           ELSE UNCHANGED <<rows, queue, place>>
    /\ UNCHANGED <<handler, block, history, bounds>>

-----------------------------------------------------------------------------
\* _cleanup_old_transactions under the lock: the unprocessed rows of the
\* chosen submissions are deleted, and with each row the queued copy that
\* hash_index has.
Cleanup ==
    /\ cleanups < MaxCleanups
    /\ cleanups' = cleanups + 1
    /\ \E now \in {s.time : s \in Submissions} :
          LET old == {i \in DOMAIN rows : ~rows[i].processed /\ rows[i].sub.time <= now}
              gone == {rows[i].sub : i \in old}
          IN  /\ old # {}
              /\ rows' = Only(rows, DOMAIN rows \ old)
              /\ queue' = Only(queue, DOMAIN queue \ {place[s] : s \in gone \cap DOMAIN place})
              /\ expired' = expired \cup gone
    /\ place' = Indices(queue')
    /\ UNCHANGED <<handler, block, toRemove, packed, answered, submits, stops>>

\* The process stops and _load_from_database fills a new pool.
Restart ==
    /\ stops < MaxStops
    /\ stops' = stops + 1
    /\ LET live == Only(rows, {i \in DOMAIN rows : ~rows[i].processed})
       IN  queue' = [i \in DOMAIN live |-> live[i].sub]
    /\ place' = Indices(queue')
    /\ handler' = [t \in Threads |-> Idle]
    /\ block' = <<>> /\ toRemove' = <<>>
    /\ UNCHANGED <<rows, history, submits, cleanups>>

Next ==
    \/ \E t \in Threads, s \in Submissions : Validate(t, s)
    \/ \E t \in Threads : Enqueue(t)
    \/ \E t \in Threads : Persist(t)
    \/ \E strategy \in {"fifo", "fee"} : Pick(strategy)
    \/ RemovePicked
    \/ Cleanup
    \/ Restart

Spec == Init /\ [][Next]_poolVars

-----------------------------------------------------------------------------
\* A block holds at most one submission of each submitter.
OncePerBlock ==
    \A i, j \in DOMAIN block : block[i].submitter = block[j].submitter => i = j

\* A submission whose sender was told that it was added is in the queue, was
\* packed or was deleted as old.
AcceptedIsKept == answered \subseteq ToSet(queue) \cup packed \cup expired

\* Both hold when two submissions of one submitter pass the validation before
\* either is queued (validate_submit_tx_info reads submitter_index without the
\* lock), and however submissions, removals, clean-ups and restarts cut into
\* each other (add_submit_tx_info, remove_submit_tx_info,
\* _cleanup_old_transactions, _load_from_database).
PoolSound == OncePerBlock /\ AcceptedIsKept
=============================================================================
