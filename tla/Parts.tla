-------------------------------- MODULE Parts --------------------------------
(***************************************************************************)
(* The parts about which PartsProofs proves theorems, side by side: the    *)
(* threads of a validator, which this module extends, and six that it      *)
(* instantiates.  They share constants, but no state.                      *)
(***************************************************************************)
EXTENDS ConsensusThreads

CONSTANT None

-----------------------------------------------------------------------------
(* LocalApp, with the Threads and MaxCrashes of ConsensusThreads *)

CONSTANTS Ids, Incoming, MaxMints, MaxRequests, MaxSaveFailures, TornWrites
VARIABLES ids, cursor, history, spendable, pending, minted, received, accepted,
          allocated, settled, mailbox, outbox, tasks, answered, requests, kills, failures
appVars == <<ids, cursor, history, spendable, pending, minted, received, accepted,
             allocated, settled, mailbox, outbox, tasks, answered, requests, kills, failures>>

App == INSTANCE LocalApp WITH
    Packages <- Incoming, blocks <- settled, th <- tasks, crashes <- kills

\* A client_tx_id whose sender was answered is never paid again, and the faucet
\* never mints a unit twice (service.py, runtime.py).
NothingPaidTwice == App!NothingPaidTwice

-----------------------------------------------------------------------------
(* NodeManager *)

CONSTANT MaxPids
VARIABLES procs, v2pid, v2state, pidFile, external, waiting, reply
nodeVars == <<procs, v2pid, v2state, pidFile, external, waiting, reply>>

Node == INSTANCE NodeManager

\* Every daemon that runs is in the pid file of its kind (node_manager.py).
DaemonsAreKnown == Node!DaemonsAreKnown

-----------------------------------------------------------------------------
(* Router *)

CONSTANTS Msgs, Seeds, Window, Skew, Skews, Retries, Base, Longest, MaxSteps, MaxStops
VARIABLES sent, age, wire, seen, handled, stepped, reach, greetings, retryIn, downs
routerVars == <<sent, age, wire, seen, handled, stepped, reach, greetings, retryIn, downs>>

Route == INSTANCE Router WITH failures <- greetings, stops <- downs

\* A message is handled once while the clock is not set back (router.py).
HandledOnceUnlessStepped == Route!HandledOnceUnlessStepped

-----------------------------------------------------------------------------
(* V1Chain *)

CONSTANTS ForkBlocks, ForkParent, Confirmations, MaxForkHeight, MaxReloads
VARIABLES chain, disk, reloads
chainVars == <<chain, disk, reloads>>

OldChain == INSTANCE V1Chain WITH Blocks <- ForkBlocks, Parent <- ForkParent

\* The V1 main chain is the longest path of the tree; blocks leave it only for
\* a longer one, and a crash loses at most the block being saved
\* (Blockchain.py).
LongestChainKept == OldChain!LongestChainKept

-----------------------------------------------------------------------------
(* V1Pool, with the Threads of ConsensusThreads *)

CONSTANTS Submissions, PerBlock, MaxSubmits, MaxCleanups
VARIABLES queue, place, rows, handler, block, toRemove, packed, replied, expired,
          submits, stops, cleanups
poolVars == <<queue, place, rows, handler, block, toRemove, packed, replied, expired,
              submits, stops, cleanups>>

Pool == INSTANCE V1Pool WITH answered <- replied

\* One submission per submitter in a block, and none accepted is lost
\* (TXPool.py, PickTx.py).
PoolSound == Pool!PoolSound

-----------------------------------------------------------------------------
(* V1Values, with the MaxCrashes of ConsensusThreads *)

CONSTANTS V1Accounts, Treasury, GenesisValues, MaxUnits, MaxBatches
VARIABLES holds, batches, clashed, cuts
valueVars == <<holds, batches, clashed, cuts>>

Values == INSTANCE V1Values WITH
    Accounts <- V1Accounts, Genesis <- GenesisValues, Units <- MaxUnits, Nobody <- None,
    crashes <- cuts

\* No unit of V1 value is in two hands, as long as nobody receives a piece of a
\* value it sent before (AccountPickValues.py, VPBManager.py).
UnitsOwnedOnce == Values!UnitsOwnedOnce
=============================================================================
