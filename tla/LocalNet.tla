------------------------------- MODULE LocalNet -------------------------------
(***************************************************************************)
(* Wallets and one consensus node in one process (EZ_V2/runtime_v2.py,     *)
(* EZ_V2/localnet.py): calls instead of messages, so that a wallet         *)
(* operation is one step.  The node applies the receipts of a block to the *)
(* wallets that are registered and want it; the others ask later, and only *)
(* the receipt cache is asked.  The node can be restarted, the wallets     *)
(* stay.  Transfer packages are handed over by the callers, any time and   *)
(* more than once.                                                         *)
(***************************************************************************)
EXTENDS WalletStore

CONSTANTS
    Manual,       \* accounts added with auto_confirm_receipts = False
    CacheBlocks,  \* receipt_cache_blocks
    MaxBundles,   \* bound: bundles of one account
    MaxRefused,   \* bound: bundles consensus refuses for their limits or expiry
    MaxRestarts   \* bound: restarts of the node and wallets that are unregistered

ASSUME LocalAssumption ==
    /\ {CacheBlocks, MaxBundles, MaxRefused, MaxRestarts} \subseteq Nat
    /\ \A a \in Accounts : \A v, w \in Genesis[a] : v # w => v \cap w = {}
    /\ \A a, b \in Accounts : a # b => (UNION Genesis[a]) \cap (UNION Genesis[b]) = {}

VARIABLES
    store,       \* the wallets
    built,       \* bundles built, by account
    refused,     \* bundles consensus refuses whenever they come
    pool,        \* the node's bundle pool, in memory only
    blocks,      \* the node's blocks, also stored
    registered,  \* _wallets
    auto,        \* the accounts of _wallet_auto_confirm
    restarts

localVars == <<store, built, refused, pool, blocks, registered, auto, restarts>>

\* The promises of the wallets, and the chain they are measured by: those of
\* Payments, with no message ever on its way.
P == INSTANCE Payments WITH
    Threads <- 1, LossyPush <- FALSE, MidCrash <- FALSE, MaxAttempts <- MaxBundles,
    MaxCrashes <- 0, MaxTimeouts <- 0, MaxMisses <- 0,
    up <- [a \in Accounts |-> TRUE], jobs <- [a \in Accounts |-> {}],
    call <- [a \in Accounts |-> [state |-> "none"]], attempts <- built, submissions <- {},
    receiptsTo <- [a \in Accounts |-> {}], packagesTo <- [a \in Accounts |-> {}],
    crashes <- 0, timeouts <- 0, misses <- 0

\* All transactions of a wallet operation.
Done(s, writes) ==
    LET after[i \in 0..Len(writes)] == IF i = 0 THEN s ELSE Apply(after[i - 1], writes[i])
    IN  after[Len(writes)]

-----------------------------------------------------------------------------
LocalInit ==
    /\ store = [a \in Accounts |-> FirstStore(a)]
    /\ built = [a \in Accounts |-> 0]
    /\ refused = {} /\ pool = {} /\ blocks = <<>>
    /\ registered = Accounts /\ auto = Accounts \ Manual
    /\ restarts = 0

\* V2AccountNode.submit_payment: a refusal is an exception, and the bundle
\* stays pending.
SubmitPayment(a, to, values) ==
    /\ built[a] < MaxBundles
    /\ store[a].pending = {}
    /\ built' = [built EXCEPT ![a] = @ + 1]
    /\ LET b == [sender |-> a, n |-> built[a] + 1, seq |-> NextSequence(store[a]),
                 to |-> to, values |-> values]
       IN  /\ store' = [store EXCEPT ![a] = Done(@, BuildWrites(@, b))]
           /\ \/ /\ pool' = IF P!Takes(b) THEN pool \cup {b} ELSE pool
                 /\ UNCHANGED refused
              \/ /\ Cardinality(refused) < MaxRefused
                 /\ refused' = refused \cup {b}
                 /\ UNCHANGED pool
    /\ UNCHANGED <<blocks, registered, auto, restarts>>

\* submit_bundle, with the submission the caller has kept.
SubmitAgain(b) ==
    /\ b \notin refused
    /\ P!Takes(b)
    /\ pool' = pool \cup {b}
    /\ UNCHANGED <<store, built, refused, blocks, registered, auto, restarts>>

\* _apply_receipt_to_wallet
Confirmed(s, u) == IF AcceptsReceipt(s, u) THEN Done(s, ConfirmWrites(s, u)) ELSE s

\* _deliver_receipt
Receives(a) == a \in registered \cap auto

\* produce_block: the pool goes into a block that is stored, and the wallets
\* get its receipts.
ProduceBlock ==
    /\ pool # {}
    /\ pool' = {}
    /\ blocks' = Append(blocks, pool)
    /\ store' = [a \in Accounts |->
          LET own == {[bundle |-> b, height |-> Len(blocks) + 1] :
                          b \in {x \in pool : x.sender = a}}
          IN  IF own # {} /\ Receives(a)
              THEN Confirmed(store[a], CHOOSE u \in own : TRUE)
              ELSE store[a]]
    /\ UNCHANGED <<built, refused, registered, auto, restarts>>

\* ReceiptCache: the receipts of the last blocks, also after load_chain_state.
Cached(h) == h > Len(blocks) - CacheBlocks

\* BUG: a bundle without receipt is given up.
SyncOrRollback(a) ==
    /\ a \in registered
    /\ \E b \in store[a].pending :
          LET known == {u \in P!ReceiptsFor(a) : u.bundle.seq = b.seq /\ Cached(u.height)}
          IN  store' = [store EXCEPT ![a] =
                  IF known = {} THEN Done(@, RollbackWrites(@, b))
                  ELSE Confirmed(@, CHOOSE u \in known : TRUE)]
    /\ UNCHANGED <<built, refused, pool, blocks, registered, auto, restarts>>

\* sync_wallet_receipts
SyncWalletReceipts(a) ==
    /\ a \in registered
    /\ \E b \in store[a].pending :
          LET known == {u \in P!ReceiptsFor(a) : u.bundle.seq = b.seq /\ Cached(u.height)}
          IN  store' = [store EXCEPT ![a] =
                  IF known = {} THEN Done(@, MissingWrites(@, b))
                  ELSE Confirmed(@, CHOOSE u \in known : TRUE)]
    /\ UNCHANGED <<built, refused, pool, blocks, registered, auto, restarts>>

\* What export_transfer_package can still make of the sender's records.
Exportable(a) == UNION {PackagesOf(store[a].records, u) : u \in store[a].confirmed}

\* deliver_transfer_package, for a package that is not refused.
DeliverTransferPackage(a, p) ==
    /\ p \in Exportable(a)
    /\ p.bundle.to \in registered
    /\ p \notin store[p.bundle.to].accepted /\ Valid(p)
    /\ store' = [store EXCEPT ![p.bundle.to] = Done(@, ReceiveWrites(@, p))]
    /\ UNCHANGED <<built, refused, pool, blocks, registered, auto, restarts>>

\* BUG: a node that starts again puts the wallets' bundles back into the pool of
\* the blocks it has already.
RestartWithPending ==
    /\ restarts < MaxRestarts
    /\ restarts' = restarts + 1
    /\ pool' = UNION {store[a].pending : a \in Accounts}
    /\ registered' = Accounts /\ auto' = Accounts
    /\ UNCHANGED <<store, built, refused, blocks>>

\* restart_consensus: every wallet is registered with the default of the network.
RestartConsensus ==
    /\ restarts < MaxRestarts
    /\ restarts' = restarts + 1
    /\ pool' = {}
    /\ registered' = Accounts /\ auto' = Accounts
    /\ UNCHANGED <<store, built, refused, blocks>>

UnregisterWallet(a) ==
    /\ a \in registered
    /\ restarts < MaxRestarts
    /\ restarts' = restarts + 1
    /\ registered' = registered \ {a} /\ auto' = auto \ {a}
    /\ UNCHANGED <<store, built, refused, pool, blocks>>

\* register_wallet, with the flag of its account; the wallet gets the headers
\* of all blocks, so that it knows those of any receipt.
RegisterWallet(a) ==
    /\ a \notin registered
    /\ registered' = registered \cup {a}
    /\ auto' = IF a \in Manual THEN auto ELSE auto \cup {a}
    /\ UNCHANGED <<store, built, refused, pool, blocks, restarts>>

LocalNext ==
    \/ \E a \in Accounts :
        \/ \E to \in Accounts \ {a}, values \in Selections(store[a].records) \ {{}} :
              SubmitPayment(a, to, values)
        \/ \E b \in store[a].pending : SubmitAgain(b)
        \/ SyncWalletReceipts(a)
        \/ \E p \in Exportable(a) : DeliverTransferPackage(a, p)
        \/ UnregisterWallet(a) \/ RegisterWallet(a)
    \/ ProduceBlock
    \/ RestartConsensus

LocalSpec == LocalInit /\ [][LocalNext]_localVars

-----------------------------------------------------------------------------
(* Safety *)

\* A unit is at hand for its owner: in the owner's records, in a package that
\* the sender can still make, or in a bundle whose receipt the sender awaits.
\* Awaited(h): a receipt of height h can still be got.
AtHand(u, Awaited(_)) ==
    LET o == P!OwnerOf(u)
    IN  \/ \E r \in store[o].records : u \in r.value /\ r.status # "archived"
        \/ \E a \in Accounts : \E p \in Exportable(a) :
              p.bundle.to = o /\ u \in p.value /\ Valid(p) /\ p \notin store[o].accepted
        \/ \E a \in Accounts : \E b \in store[a].pending :
              /\ b.to = o /\ u \in UNION b.values
              /\ \E w \in P!ReceiptsFor(a) : w.bundle = b /\ Awaited(w.height)

Any(h) == TRUE

\* The wallets in the process keep the promises of Payments through restarts of
\* the node, late registrations and repeated deliveries, and no unit is lost
\* between a block, its receipts and the packages (runtime_v2.py).
LocalSound ==
    /\ P!SpendableIsOwned
    /\ P!LocksMatchPending /\ P!PendingAwaitsReceipt
    /\ P!NextBundleExecutable
    /\ \A u \in P!Allocated : AtHand(u, Any)

\* Does not hold: a receipt that the node has stored is out of reach for a
\* wallet that asks after the window of the cache, and with it the payment
\* (sync_wallet_receipts asks the runtime's cache and never the store).
ReceiptInReach == \A u \in P!Allocated : AtHand(u, Cached)

\* Does not hold: who added its account with auto_confirm_receipts = False
\* applies its receipts by hand, also after restart_consensus.
ManualStaysManual == auto \cap Manual = {}

\* Does not hold: a bundle that consensus refused is released, as the account
\* hosts do (submit_payment of localnet.py has no rollback).
RefusedIsReleased == \A b \in refused : b \notin store[b.sender].pending

=============================================================================
