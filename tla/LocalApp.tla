------------------------------ MODULE LocalApp ------------------------------
(***************************************************************************)
(* The local V2 application: the HTTP service's /tx/send and /tx/faucet    *)
(* (EZ_App/service.py), the transaction engine (EZ_App/runtime.py) and the *)
(* session it opens per request (EZ_V2/app_client.py), for one wallet.     *)
(* Requests run in threads of one process; a step ends at each write to a  *)
(* file or database, and the process may crash between any two.  Every     *)
(* payment and every faucet call moves one unit, named by its index.       *)
(***************************************************************************)
EXTENDS Naturals, Sequences, FiniteSets

CONSTANTS
    Threads,        \* handler threads of the service
    Ids,            \* client_tx_ids that clients use
    Packages,       \* transfer packages that others put in the mailbox
    None,
    MaxMints, MaxRequests, MaxCrashes, MaxSaveFailures,     \* bounds
    TornWrites      \* a crash may leave a file that was being written empty

VARIABLES
    ids,            \* tx_idempotency.json
    cursor,         \* v2_faucet_state.json
    history,        \* tx_history.json
    spendable, pending, minted,     \* the wallet database
    received, accepted,             \* packages recorded, and marked accepted
    allocated, blocks,              \* the consensus database
    mailbox, outbox,                \* the mailbox database
    th,             \* the handler threads
    answered,       \* ids whose sender was told that the payment is done
    requests, crashes, failures

disk == <<ids, cursor, history, spendable, pending, minted, received, accepted,
          allocated, blocks, mailbox, outbox>>
vars == <<ids, cursor, history, spendable, pending, minted, received, accepted,
          allocated, blocks, mailbox, outbox, th, answered, requests, crashes, failures>>

Free == [pc |-> "idle", id |-> None, unit |-> None, pkg |-> None, seen |-> {}, events |-> {}]

Init ==
    /\ ids = {} /\ cursor = 0 /\ history = {}
    /\ spendable = {} /\ pending = None /\ minted = <<>>
    /\ received = [p \in Packages |-> 0] /\ accepted = {}
    /\ allocated = {} /\ blocks = {}
    /\ mailbox = Packages /\ outbox = {}
    /\ th = [h \in Threads |-> Free]
    /\ answered = {} /\ requests = 0 /\ crashes = 0 /\ failures = 0

\* v2_backend_lock is held from Open to the end of the session, and
\* idempotency_lock from Enter to Save or to an error.
InSession(h) == th[h].pc \in {"sync", "inbox", "mark", "claim", "readEvent", "writeEvent",
                              "record", "allocate", "check", "produce", "confirm", "queue"}
HoldsIds(h) == th[h].id # None /\ (InSession(h) \/ th[h].pc \in {"open", "save"})

GoTo(h, pc) == th' = [th EXCEPT ![h].pc = pc]
Done(h) == th' = [th EXCEPT ![h] = Free]
NoFault == UNCHANGED <<requests, crashes, failures>>

\* POST /tx/send and POST /tx/faucet reach the engine.
Send(h, id) ==
    /\ th[h].pc = "idle" /\ requests < MaxRequests
    /\ th' = [th EXCEPT ![h] = [Free EXCEPT !.pc = "enter", !.id = id]]
    /\ requests' = requests + 1
    /\ UNCHANGED <<disk, answered, crashes, failures>>

Faucet(h) ==
    /\ th[h].pc = "idle" /\ Len(minted) < MaxMints
    /\ th' = [th EXCEPT ![h] = [Free EXCEPT !.pc = "open"]]
    /\ UNCHANGED <<disk, answered, requests, crashes, failures>>

\* Mutant: the file of ids is not consulted.
EnterAnyway(h) ==
    /\ th[h].pc = "enter"
    /\ \A g \in Threads : ~HoldsIds(g)
    /\ GoTo(h, "open")
    /\ UNCHANGED <<disk, answered>> /\ NoFault

\* TxEngine.send takes the lock and refuses an id it has on file.
Enter(h) ==
    /\ th[h].pc = "enter"
    /\ \A g \in Threads : ~HoldsIds(g)
    /\ IF th[h].id \in ids THEN Done(h) ELSE GoTo(h, "open")
    /\ UNCHANGED <<disk, answered>> /\ NoFault

\* A session opens; the faucet first takes its range and moves the cursor.
Open(h) ==
    /\ th[h].pc = "open"
    /\ \A g \in Threads : ~InSession(g)
    /\ IF th[h].id # None
       THEN GoTo(h, "sync") /\ UNCHANGED cursor
       ELSE /\ th' = [th EXCEPT ![h].pc = "record", ![h].unit = cursor]
            /\ cursor' = cursor + 1
    /\ UNCHANGED <<ids, history, spendable, pending, minted, received, accepted,
                   allocated, blocks, mailbox, outbox, answered>> /\ NoFault

\* register_genesis_value: the wallet first, then the consensus store.
Record(h) ==
    /\ th[h].pc = "record"
    /\ minted' = Append(minted, th[h].unit)
    /\ spendable' = spendable \cup {th[h].unit}
    /\ GoTo(h, "allocate")
    /\ UNCHANGED <<ids, cursor, history, pending, received, accepted, allocated,
                   blocks, mailbox, outbox, answered>> /\ NoFault

Allocate(h) ==
    /\ th[h].pc = "allocate"
    /\ allocated' = allocated \cup {th[h].unit}
    /\ GoTo(h, "sync")
    /\ UNCHANGED <<ids, cursor, history, spendable, pending, minted, received, accepted,
                   blocks, mailbox, outbox, answered>> /\ NoFault

\* recover_wallet_state: a pending bundle that is in a block gets its receipt.
Sync(h) ==
    /\ th[h].pc = "sync"
    /\ pending' = IF pending \in blocks THEN None ELSE pending
    /\ GoTo(h, "inbox")
    /\ UNCHANGED <<ids, cursor, history, spendable, minted, received, accepted,
                   allocated, blocks, mailbox, outbox, answered>> /\ NoFault

\* sync_incoming_transfers, one package at a time: the record, the mark that it
\* was accepted, and the claim in the mailbox are three transactions.
Accept(h, p) ==
    /\ th[h].pc = "inbox" /\ p \in mailbox
    /\ IF p \in accepted
       THEN /\ mailbox' = mailbox \ {p}
            /\ UNCHANGED <<received, th>>
       ELSE /\ received' = [received EXCEPT ![p] = @ + 1]
            /\ th' = [th EXCEPT ![h].pc = "mark", ![h].pkg = p]
            /\ UNCHANGED mailbox
    /\ UNCHANGED <<ids, cursor, history, spendable, pending, minted, accepted,
                   allocated, blocks, outbox, answered>> /\ NoFault

Mark(h) ==
    /\ th[h].pc = "mark"
    /\ accepted' = accepted \cup {th[h].pkg}
    /\ GoTo(h, "claim")
    /\ UNCHANGED <<ids, cursor, history, spendable, pending, minted, received,
                   allocated, blocks, mailbox, outbox, answered>> /\ NoFault

Claim(h) ==
    /\ th[h].pc = "claim"
    /\ mailbox' = mailbox \ {th[h].pkg}
    /\ th' = [th EXCEPT ![h].pc = "inbox", ![h].events = @ \cup {th[h].pkg}]
    /\ UNCHANGED <<ids, cursor, history, spendable, pending, minted, received, accepted,
                   allocated, blocks, outbox, answered>> /\ NoFault

\* Once the mailbox is read, its events go to the history, one at a time.
Synced(h) ==
    /\ th[h].pc = "inbox" /\ mailbox = {}
    /\ IF th[h].events # {} THEN GoTo(h, "readEvent")
       ELSE IF th[h].id # None THEN GoTo(h, "check") ELSE Done(h)
    /\ UNCHANGED <<disk, answered>> /\ NoFault

\* append_history reads the file and writes it back, without a lock.
ReadHistory(h) ==
    /\ th[h].pc \in {"readEvent", "read"}
    /\ th' = [th EXCEPT ![h].seen = history,
                        ![h].pc = IF @ = "read" THEN "write" ELSE "writeEvent"]
    /\ UNCHANGED <<disk, answered>> /\ NoFault

WriteEvent(h) ==
    /\ th[h].pc = "writeEvent"
    /\ \E p \in th[h].events :
          /\ history' = th[h].seen \cup {p}
          /\ th' = [th EXCEPT ![h].pc = "inbox", ![h].events = @ \ {p}, ![h].seen = {}]
    /\ UNCHANGED <<ids, cursor, spendable, pending, minted, received, accepted,
                   allocated, blocks, mailbox, outbox, answered>> /\ NoFault

\* _submit_transaction_v2 refuses, or builds the bundle and submits it to the
\* pool of its session, which lives in memory.
Check(h) ==
    /\ th[h].pc = "check"
    /\ \/ /\ pending # None \/ spendable = {}
          /\ Done(h) /\ UNCHANGED <<spendable, pending>>
       \/ /\ pending = None
          /\ \E u \in spendable :
                /\ pending' = [id |-> th[h].id, unit |-> u]
                /\ spendable' = spendable \ {u}
          /\ GoTo(h, "produce")
    /\ UNCHANGED <<ids, cursor, history, minted, received, accepted, allocated,
                   blocks, mailbox, outbox, answered>> /\ NoFault

\* produce_block: the block is saved, or saving fails and the request with it.
Produce(h) ==
    /\ th[h].pc = "produce"
    /\ \/ /\ blocks' = blocks \cup {pending}
          /\ GoTo(h, "confirm") /\ UNCHANGED failures
       \/ /\ failures < MaxSaveFailures /\ failures' = failures + 1
          /\ Done(h) /\ UNCHANGED blocks
    /\ UNCHANGED <<ids, cursor, history, spendable, pending, minted, received, accepted,
                   allocated, mailbox, outbox, answered, requests, crashes>>

\* The receipt is delivered to the wallet of the session.
Confirm(h) ==
    /\ th[h].pc = "confirm"
    /\ pending' = None
    /\ th' = [th EXCEPT ![h].pc = "queue", ![h].unit = pending.unit]
    /\ UNCHANGED <<ids, cursor, history, spendable, minted, received, accepted,
                   allocated, blocks, mailbox, outbox, answered>> /\ NoFault

\* queue_outgoing_transfer_packages; then the session closes.
Queue(h) ==
    /\ th[h].pc = "queue"
    /\ outbox' = outbox \cup {th[h].unit}
    /\ GoTo(h, "save")
    /\ UNCHANGED <<ids, cursor, history, spendable, pending, minted, received, accepted,
                   allocated, blocks, mailbox, answered>> /\ NoFault

\* _save_idempotency writes what was read under the lock and this id.
Save(h) ==
    /\ th[h].pc = "save"
    /\ ids' = ids \cup {th[h].id}
    /\ GoTo(h, "read")
    /\ UNCHANGED <<cursor, history, spendable, pending, minted, received, accepted,
                   allocated, blocks, mailbox, outbox, answered>> /\ NoFault

\* The service appends the payment to the history and answers the client.
Answer(h) ==
    /\ th[h].pc = "write"
    /\ history' = th[h].seen \cup {th[h].id}
    /\ answered' = answered \cup {th[h].id}
    /\ Done(h)
    /\ UNCHANGED <<ids, cursor, spendable, pending, minted, received, accepted,
                   allocated, blocks, mailbox, outbox>> /\ NoFault

\* The process dies.  write_text truncates a file before it fills it: a file
\* that reads as no JSON counts as empty when it is loaded.
Crash ==
    /\ crashes < MaxCrashes /\ crashes' = crashes + 1
    /\ th' = [h \in Threads |-> Free]
    /\ \/ UNCHANGED <<ids, cursor, history>>
       \/ /\ TornWrites
          /\ \E h \in Threads :
                \/ th[h].pc = "save" /\ ids' = {} /\ UNCHANGED <<cursor, history>>
                \/ /\ th[h].pc = "open" /\ th[h].id = None
                   /\ cursor' = 0 /\ UNCHANGED <<ids, history>>
                \/ /\ th[h].pc \in {"write", "writeEvent"}
                   /\ history' = {} /\ UNCHANGED <<ids, cursor>>
    /\ UNCHANGED <<spendable, pending, minted, received, accepted, allocated, blocks,
                   mailbox, outbox, answered, requests, failures>>

Step(h) ==
    \/ Enter(h) \/ Open(h) \/ Record(h) \/ Allocate(h) \/ Sync(h)
    \/ \E p \in Packages : Accept(h, p)
    \/ Mark(h) \/ Claim(h) \/ Synced(h) \/ ReadHistory(h) \/ WriteEvent(h)
    \/ Check(h) \/ Produce(h) \/ Confirm(h) \/ Queue(h) \/ Save(h) \/ Answer(h)

Next ==
    \/ \E h \in Threads : Step(h) \/ Faucet(h) \/ \E id \in Ids : Send(h, id)
    \/ Crash

Spec == Init /\ [][Next]_vars

-----------------------------------------------------------------------------
\* Once a client was told that the payment of a client_tx_id is done, no block
\* ever pays under that id again, whatever threads, retries and crashes do.
AnsweredNeverPaidAgain ==
    [][\A id \in answered :
          {b \in blocks' : b.id = id} = {b \in blocks : b.id = id}]_vars

\* The faucet never mints a unit twice, and what it allocated or what a block
\* spends was minted: crashes leave gaps, never overlaps.
MintsDisjoint ==
    /\ \A i, j \in DOMAIN minted : minted[i] = minted[j] => i = j
    /\ allocated \cup spendable \cup {b.unit : b \in blocks}
          \subseteq {minted[i] : i \in DOMAIN minted}

\* Nothing is paid twice, and nothing is minted twice.
NothingPaidTwice == AnsweredNeverPaidAgain /\ []MintsDisjoint
=============================================================================
