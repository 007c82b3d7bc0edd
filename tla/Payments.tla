------------------------------- MODULE Payments -------------------------------
(***************************************************************************)
(* Account hosts that pay each other (V2AccountHost in                     *)
(* EZ_V2/network_host.py): a host builds a bundle and submits it to        *)
(* consensus, applies the receipt when the block is final, and then sends  *)
(* each recipient its transfer package.  Wallet operations are several     *)
(* database transactions, and other handlers and crashes come in between.  *)
(*                                                                         *)
(* The consensus hosts are the external part: a pool that takes an         *)
(* account's next bundle, blocks that confirm the pool, and receipts.      *)
(***************************************************************************)
EXTENDS WalletStore

CONSTANTS Threads,          \* handlers of one host at work at a time
          LossyPush,        \* receipts that are pushed may be lost
          MidCrash,         \* a crash may hit a handler at work
          MaxAttempts,      \* bundles per account
          MaxCrashes, MaxTimeouts, MaxMisses

ASSUME PaymentsAssumption ==
    /\ Threads \in Nat \ {0}
    /\ {MaxAttempts, MaxCrashes, MaxTimeouts, MaxMisses} \subseteq Nat
    /\ LossyPush \in BOOLEAN /\ MidCrash \in BOOLEAN
    /\ \A a \in Accounts : \A v, w \in Genesis[a] : v # w => v \cap w = {}
    /\ \A a, b \in Accounts : a # b => (UNION Genesis[a]) \cap (UNION Genesis[b]) = {}

VARIABLES
    up,             \* the host runs
    store,          \* its wallet database
    jobs,           \* handlers that still have transactions to commit
    call,           \* the submission the host waits for, or NoCall
    attempts,       \* bundles built
    submissions,    \* on their way to consensus
    pool, blocks,   \* the consensus hosts
    receiptsTo,     \* receipts on their way
    packagesTo,     \* transfer packages on their way
    crashes, timeouts, misses

consensus == <<pool, blocks>>
mail == <<receiptsTo, packagesTo>>
faults == <<crashes, timeouts, misses>>
vars == <<up, store, jobs, call, attempts, submissions, consensus, mail, faults>>

\* A handler: the transactions left, and what it sends after the last one.
Jobs == [writes : Seq(Transactions), submit : SUBSET Bundles, deliver : SUBSET Packages]

NoCall == [state |-> "none"]

Calls == {NoCall} \cup [state : {"sent", "accepted", "refused"}, bundle : Bundles]

TypeOK ==
    /\ up \in [Accounts -> BOOLEAN]
    /\ store \in [Accounts -> Stores]
    /\ jobs \in [Accounts -> SUBSET Jobs]
    /\ call \in [Accounts -> Calls]
    /\ attempts \in [Accounts -> 0..MaxAttempts]
    /\ submissions \in SUBSET Bundles
    /\ pool \in SUBSET Bundles
    /\ blocks \in Seq(SUBSET Bundles)
    /\ receiptsTo \in [Accounts -> SUBSET ConfirmedUnits]
    /\ packagesTo \in [Accounts -> SUBSET Packages]
    /\ crashes \in 0..MaxCrashes /\ timeouts \in 0..MaxTimeouts /\ misses \in 0..MaxMisses

Init ==
    /\ up = [a \in Accounts |-> TRUE]
    /\ store = [a \in Accounts |-> FirstStore(a)]
    /\ jobs = [a \in Accounts |-> {}]
    /\ call = [a \in Accounts |-> NoCall]
    /\ attempts = [a \in Accounts |-> 0]
    /\ submissions = {}
    /\ pool = {} /\ blocks = <<>>
    /\ receiptsTo = [a \in Accounts |-> {}]
    /\ packagesTo = [a \in Accounts |-> {}]
    /\ crashes = 0 /\ timeouts = 0 /\ misses = 0

-----------------------------------------------------------------------------
(* The hosts' handlers *)

Free(a) == up[a] /\ Cardinality(jobs[a]) < Threads

Starts(a, job) == jobs' = [jobs EXCEPT ![a] = @ \cup {job}]

Only(writes) == [writes |-> writes, submit |-> {}, deliver |-> {}]

\* submit_payment up to build_payment_bundle, one call at a time.
Build(a, to, values) ==
    /\ Free(a) /\ call[a] = NoCall /\ \A job \in jobs[a] : job.submit = {}
    /\ attempts[a] < MaxAttempts
    /\ store[a].pending = {}
    /\ attempts' = [attempts EXCEPT ![a] = @ + 1]
    /\ LET b == [sender |-> a, n |-> attempts[a] + 1, seq |-> NextSequence(store[a]),
                 to |-> to, values |-> values]
       IN  Starts(a, [writes |-> BuildWrites(store[a], b), submit |-> {b}, deliver |-> {}])
    /\ UNCHANGED <<up, store, call, submissions, consensus, mail, faults>>

\* The next transaction of a handler.
Write(a, job) ==
    /\ job \in jobs[a] /\ job.writes # <<>>
    /\ store' = [store EXCEPT ![a] = Apply(@, Head(job.writes))]
    /\ jobs' = [jobs EXCEPT ![a] = (@ \ {job}) \cup {[job EXCEPT !.writes = Tail(@)]}]
    /\ UNCHANGED <<up, call, attempts, submissions, consensus, mail, faults>>

\* A handler has committed everything: submit_payment calls consensus, and
\* _on_receipt sends the packages, which a host that is down never gets.
Finish(a, job) ==
    /\ job \in jobs[a] /\ job.writes = <<>>
    /\ jobs' = [jobs EXCEPT ![a] = @ \ {job}]
    /\ submissions' = submissions \cup job.submit
    /\ call' = IF job.submit = {} THEN call
               ELSE [call EXCEPT ![a] = [state |-> "sent",
                                         bundle |-> CHOOSE b \in job.submit : TRUE]]
    /\ packagesTo' = [c \in Accounts |->
           IF up[c] THEN packagesTo[c] \cup {p \in job.deliver : p.bundle.to = c}
           ELSE packagesTo[c]]
    /\ UNCHANGED <<up, store, attempts, consensus, receiptsTo, faults>>

\* The answer to the submission: a refusal rolls the bundle back.
Answer(a) ==
    /\ up[a] /\ call[a] # NoCall
    /\ \/ /\ call[a].state = "accepted"
          /\ UNCHANGED jobs
       \/ /\ call[a].state = "refused" /\ Free(a)
          /\ IF call[a].bundle \in store[a].pending
             THEN Starts(a, Only(RollbackWrites(store[a], call[a].bundle)))
             ELSE UNCHANGED jobs
    /\ call' = [call EXCEPT ![a] = NoCall]
    /\ UNCHANGED <<up, store, attempts, submissions, consensus, mail, faults>>

\* No answer in time: the bundle is rolled back, whatever became of it.
Timeout(a) ==
    /\ Free(a) /\ call[a] # NoCall /\ call[a].state # "refused"
    /\ timeouts < MaxTimeouts
    /\ timeouts' = timeouts + 1
    /\ IF call[a].bundle \in store[a].pending
       THEN Starts(a, Only(RollbackWrites(store[a], call[a].bundle)))
       ELSE UNCHANGED jobs
    /\ call' = [call EXCEPT ![a] = NoCall]
    /\ UNCHANGED <<up, store, attempts, submissions, consensus, mail, crashes, misses>>

\* _on_receipt
TakeReceipt(a, u) ==
    /\ Free(a)
    /\ u \in receiptsTo[a]
    /\ receiptsTo' = [receiptsTo EXCEPT ![a] = @ \ {u}]
    /\ IF AcceptsReceipt(store[a], u)
       THEN Starts(a, [writes |-> ConfirmWrites(store[a], u), submit |-> {},
                       deliver |-> PackagesOf(RecordsConfirmed(store[a].records, u), u)])
       ELSE UNCHANGED jobs
    /\ UNCHANGED <<up, store, call, attempts, submissions, consensus, packagesTo, faults>>

\* _on_transfer_package
TakePackage(a, p) ==
    /\ Free(a)
    /\ p \in packagesTo[a]
    /\ packagesTo' = [packagesTo EXCEPT ![a] = @ \ {p}]
    /\ IF p \notin store[a].accepted /\ Valid(p)
       THEN Starts(a, Only(ReceiveWrites(store[a], p)))
       ELSE UNCHANGED jobs
    /\ UNCHANGED <<up, store, call, attempts, submissions, consensus, receiptsTo, faults>>

\* The receipts consensus has for an account.
ReceiptsFor(a) ==
    UNION {{[bundle |-> b, height |-> h] : b \in {x \in blocks[h] : x.sender = a}}
            : h \in 1..Len(blocks)}

\* Mutant: nobody asks for a receipt whose values were marked missing.
PullLocked(a, b) ==
    /\ Free(a)
    /\ b \in store[a].pending /\ b.seq \notin ReceiptSeqs(store[a])
    /\ \E r \in store[a].records : IsPieceOf(r, b) /\ r.status = "pending"
    /\ \E u \in ReceiptsFor(a) \ receiptsTo[a] :
          /\ u.bundle.seq = b.seq
          /\ receiptsTo' = [receiptsTo EXCEPT ![a] = @ \cup {u}]
    /\ UNCHANGED <<up, store, jobs, call, attempts, submissions, consensus, packagesTo, faults>>

\* sync_pending_receipts, for the bundle b: consensus sends the receipt.
Pull(a, b) ==
    /\ Free(a)
    /\ b \in store[a].pending /\ b.seq \notin ReceiptSeqs(store[a])
    /\ \E u \in ReceiptsFor(a) \ receiptsTo[a] :
          /\ u.bundle.seq = b.seq
          /\ receiptsTo' = [receiptsTo EXCEPT ![a] = @ \cup {u}]
    /\ UNCHANGED <<up, store, jobs, call, attempts, submissions, consensus, packagesTo, faults>>

\* ... or the peers that answer do not have it (yet).
PullMissed(a, b) ==
    /\ Free(a)
    /\ misses < MaxMisses
    /\ misses' = misses + 1
    /\ b \in store[a].pending /\ b.seq \notin ReceiptSeqs(store[a])
    /\ Starts(a, Only(MissingWrites(store[a], b)))
    /\ UNCHANGED <<up, store, call, attempts, submissions, consensus, mail, crashes, timeouts>>

\* The handlers' threads end and the mail to the host is lost.
Crash(a) ==
    /\ up[a] /\ crashes < MaxCrashes
    /\ MidCrash \/ (jobs[a] = {} /\ call[a] = NoCall)
    /\ crashes' = crashes + 1
    /\ up' = [up EXCEPT ![a] = FALSE]
    /\ jobs' = [jobs EXCEPT ![a] = {}]
    /\ call' = [call EXCEPT ![a] = NoCall]
    /\ receiptsTo' = [receiptsTo EXCEPT ![a] = {}]
    /\ packagesTo' = [packagesTo EXCEPT ![a] = {}]
    /\ UNCHANGED <<store, attempts, submissions, consensus, timeouts, misses>>

\* V2AccountHost.__init__: everything is read from the database.
Restart(a) ==
    /\ ~up[a]
    /\ up' = [up EXCEPT ![a] = TRUE]
    /\ UNCHANGED <<store, jobs, call, attempts, submissions, consensus, mail, faults>>

-----------------------------------------------------------------------------
(* Consensus *)

ConfirmedSeq(a) == Cardinality(ReceiptsFor(a))

\* BundlePool.submit
Takes(b) ==
    /\ b.seq = ConfirmedSeq(b.sender) + 1
    /\ \A p \in pool : p.sender = b.sender => p = b

\* A submission arrives; its sender may have stopped waiting for the answer.
Arrive(b) ==
    /\ b \in submissions
    /\ submissions' = submissions \ {b}
    /\ pool' = IF Takes(b) THEN pool \cup {b} ELSE pool
    /\ call' = [a \in Accounts |->
           IF call[a] = [state |-> "sent", bundle |-> b]
           THEN [state |-> IF Takes(b) THEN "accepted" ELSE "refused", bundle |-> b]
           ELSE call[a]]
    /\ UNCHANGED <<up, store, jobs, attempts, blocks, mail, faults>>

\* A block confirms the pool and the receipts are pushed to hosts that are up.
Commit ==
    /\ pool # {}
    /\ pool' = {}
    /\ blocks' = Append(blocks, pool)
    /\ \E reached \in IF LossyPush THEN SUBSET Accounts ELSE {Accounts} :
          receiptsTo' = [a \in Accounts |->
              IF a \in reached /\ up[a]
              THEN receiptsTo[a] \cup
                   {[bundle |-> b, height |-> Len(blocks) + 1] : b \in {x \in pool : x.sender = a}}
              ELSE receiptsTo[a]]
    /\ UNCHANGED <<up, store, jobs, call, attempts, submissions, packagesTo, faults>>

-----------------------------------------------------------------------------

Next ==
    \/ \E a \in Accounts :
        \/ \E to \in Accounts \ {a}, values \in Selections(store[a].records) \ {{}} :
              Build(a, to, values)
        \/ \E job \in jobs[a] : Write(a, job) \/ Finish(a, job)
        \/ Answer(a)
        \/ Timeout(a)
        \/ \E u \in receiptsTo[a] : TakeReceipt(a, u)
        \/ \E p \in packagesTo[a] : TakePackage(a, p)
        \/ \E b \in store[a].pending : Pull(a, b) \/ PullMissed(a, b)
        \/ Crash(a)
        \/ Restart(a)
    \/ \E b \in submissions : Arrive(b)
    \/ Commit

Spec == Init /\ [][Next]_vars

\* Handlers and daemons run on: consensus answers and makes blocks, and the
\* account daemon's loop keeps asking for the receipts it lacks.
FairSpec ==
    /\ Spec
    /\ \A a \in Accounts :
          /\ WF_vars(\E job \in jobs[a] : Write(a, job) \/ Finish(a, job))
          /\ WF_vars(Answer(a))
          /\ WF_vars(\E u \in receiptsTo[a] : TakeReceipt(a, u))
          /\ WF_vars(\E p \in packagesTo[a] : TakePackage(a, p))
          /\ WF_vars(\E b \in store[a].pending : Pull(a, b))
          /\ WF_vars(Restart(a))
    /\ WF_vars(\E b \in submissions : Arrive(b))
    /\ WF_vars(Commit)

-----------------------------------------------------------------------------
(* What the chain says *)

Confirmed == UNION {blocks[h] : h \in 1..Len(blocks)}

\* The owner of a unit: the receiver of the last confirmed bundle that spends
\* it, else the account it was allocated to ("nobody" when there is none).
OwnerOf(u) ==
    LET spends == {h \in 1..Len(blocks) : \E b \in blocks[h] : u \in UNION b.values}
        last   == CHOOSE h \in spends : \A g \in spends : g <= h
        start  == {a \in Accounts : u \in UNION Genesis[a]}
    IN  IF spends # {} THEN (CHOOSE b \in blocks[last] : u \in UNION b.values).to
        ELSE IF start # {} THEN CHOOSE a \in start : TRUE
        ELSE "nobody"

Allocated == UNION {UNION Genesis[a] : a \in Accounts}

GiftsOf(block) == {[from |-> b.sender, to |-> b.to, units |-> UNION b.values] : b \in block}

O == INSTANCE Ownership WITH
        Units <- Allocated,
        owner <- [u \in Allocated |-> OwnerOf(u)],
        gifts <- [h \in 1..Len(blocks) |-> GiftsOf(blocks[h])]

\* The chain checks no value: that only owners give units away, each once, is
\* the wallets' doing (Ownership.tla).
OwnershipSpec == O!Spec

-----------------------------------------------------------------------------
(* Safety *)

Idle(a) == up[a] /\ jobs[a] = {}

\* What a wallet offers to spend is, by the chain, its own.
SpendableIsOwned ==
    \A a \in Accounts : \A r \in Spendable(store[a].records) : \A u \in r.value : OwnerOf(u) = a

\* A wallet between two handlers: the values locked for a bundle belong to a
\* pending row, and the pieces of a pending row are locked, so that the receipt
\* or a rollback will release each of them.
LocksMatchPending ==
    \A a \in Accounts : Idle(a) =>
        /\ \A r \in store[a].records : r.status \in {"pending", "missing"} =>
              \E b \in store[a].pending : IsPieceOf(r, b)
        /\ \A b \in store[a].pending :
              /\ \A v \in b.values :
                    \E r \in store[a].records : IsPieceOf(r, b) /\ r.value = v
              /\ \A r \in store[a].records : IsPieceOf(r, b) => r.status \in {"pending", "missing"}

\* A pending row still has its receipt to come: sync_pending_receipts asks for no
\* receipt that is already stored.
PendingAwaitsReceipt ==
    \A a \in Accounts : Idle(a) =>
        \A b \in store[a].pending : b.seq \notin ReceiptSeqs(store[a])

\* The next bundle of a wallet with nothing pending continues the chain.
NextBundleExecutable ==
    \A a \in Accounts : Idle(a) /\ store[a].pending = {} =>
        NextSequence(store[a]) = ConfirmedSeq(a) + 1

\* No package is sent that its receiver refuses.
PackagesValid == \A a \in Accounts : \A p \in packagesTo[a] : Valid(p)

\* The witness of a value lists every bundle its owner confirmed since the value
\* was acquired.
WitnessComplete ==
    \A a \in Accounts : Idle(a) => \A r \in Spendable(store[a].records) :
        {r.chain[i] : i \in 1..Len(r.chain)} = {u \in store[a].receipts : u.height > r.acquired}

-----------------------------------------------------------------------------
(* Liveness *)

\* A bundle that is pending is one day resolved.
PendingResolves ==
    \A a \in Accounts : store[a].pending # {} ~> store[a].pending = {}

\* What a confirmed bundle pays out arrives in the receiver's wallet.
PaymentsArrive ==
    \A a, c \in Accounts, n \in 1..MaxAttempts :
        (\E b \in Confirmed : b.sender = a /\ b.n = n /\ b.to = c) ~>
            (\A b \in Confirmed : b.sender = a /\ b.n = n => \A v \in b.values :
                \E p \in store[c].accepted : p.bundle = b /\ p.value = v)

=============================================================================
