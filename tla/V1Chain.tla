------------------------------ MODULE V1Chain ------------------------------
(***************************************************************************)
(* The V1 main chain (EZ_V1/EZ_Main_Chain/Blockchain.py): a tree of forks  *)
(* whose longest path is the main chain, saved whole after every addition  *)
(* in four files that are written one after the other, and loaded again    *)
(* from whichever copy can be read.                                        *)
(*                                                                         *)
(* A block is a member of Blocks, its hash itself; Parent gives the block  *)
(* its pre_hash names, 0 being the genesis block.  A block with a wrong    *)
(* index, hash or signature changes nothing and is left out.               *)
(***************************************************************************)
EXTENDS Naturals, Sequences, SequencesExt, FiniteSetsExt

CONSTANTS Blocks, Parent, Confirmations, MaxForkHeight, MaxReloads

VARIABLES
    chain,   \* the state in memory, see Fresh
    disk,    \* the chain file and the metadata file, as JSON and as pickle
    reloads  \* bound on the restarts

chainVars == <<chain, disk, reloads>>

GenesisBlock == 0
Absent == [state |-> "absent"]
Torn == [state |-> "torn"]
Whole(c) == [state |-> "whole", of |-> c]
Files == <<"json", "jsonMeta", "pkl", "pklMeta">>

Path[b \in Blocks \cup {GenesisBlock}] ==
    IF b = GenesisBlock THEN <<GenesisBlock>> ELSE Append(Path[Parent[b]], b)

Height(b) == Len(Path[b]) - 1

\* _initialize_genesis_block: the state of a node that found nothing to load.
Fresh == [nodes |-> {GenesisBlock}, tip |-> GenesisBlock, main |-> <<GenesisBlock>>,
          confirmed |-> {GenesisBlock}, orphaned |-> {}]

Init ==
    /\ chain = Fresh
    /\ disk = [f \in ToSet(Files) |-> Absent]
    /\ reloads = 0

-----------------------------------------------------------------------------
(* Adding a block. *)

\* get_latest_confirmed_block_index; 0 stands for None.
ConfirmedIndex(c) ==
    LET latest == Len(c.main) - 1
    IN  IF latest + 1 > Confirmations THEN latest + 1 - Confirmations ELSE 0

\* _update_consensus_status.  A node at or below the confirmed index is
\* confirmed, whichever fork it is on.
Settled(c) ==
    IF ConfirmedIndex(c) = 0 THEN c
    ELSE LET deep == {b \in c.nodes : Height(b) <= ConfirmedIndex(c)}
             stale == {b \in c.nodes \ deep : Height(b) + MaxForkHeight < Height(c.tip)}
         IN  [c EXCEPT !.confirmed = @ \cup deep, !.orphaned = @ \cup stale]

\* The block extends the tip of the main chain.
Extended(c, b) ==
    [c EXCEPT !.nodes = @ \cup {b}, !.tip = b, !.main = Append(@, b)]

\* BUG: a tie makes the newcomer the main chain.
LongerTie(c, b) == Height(b) >= Height(c.tip)
\* BUG: a fork never becomes the main chain.
LongerNever(c, b) == FALSE

\* _process_fork_resolution: only a strictly longer fork takes over.
Longer(c, b) == Height(b) > Height(c.tip)

\* _update_main_chain: the main chain becomes the path to the new tip.
Switched(c, b) == [c EXCEPT !.tip = b, !.main = Path[b]]

\* The block hangs elsewhere in the tree.
Forked(c, b) ==
    LET grown == [c EXCEPT !.nodes = @ \cup {b}]
    IN  IF Longer(c, b) THEN Switched(grown, b) ELSE grown

Added(c, b) == Settled(IF Parent[b] = c.tip THEN Extended(c, b) ELSE Forked(c, b))

-----------------------------------------------------------------------------
(* Saving and loading. *)

\* BUG: the pickle is the only copy that is read.
LoadedPickleOnly(d) == IF d.pkl.state = "whole" THEN d.pkl.of ELSE Fresh

\* _load_from_storage: the pickle pair, the JSON pair when one of them cannot
\* be read, and a fresh start when that fails as well.
Loaded(d) ==
    LET Readable(f, g) == d[f].state = "whole" /\ d[g].state = "whole"
    IN  IF Readable("pkl", "pklMeta") THEN d.pkl.of
        ELSE IF Readable("json", "jsonMeta") THEN d.json.of
        ELSE Fresh

\* save_to_storage when the first k files were written and the next one was
\* left as `last`: written as a whole (Len(Files) files), or cut.
Saved(d, c, k, last) ==
    [f \in ToSet(Files) |->
        CASE \E i \in 1..k : Files[i] = f -> Whole(c)
          [] k < Len(Files) /\ Files[k + 1] = f -> last
          [] OTHER -> d[f]]

-----------------------------------------------------------------------------
\* add_block to its end, with the automatic save.
AddBlock(b) ==
    /\ Parent[b] \in chain.nodes
    /\ chain' = Added(chain, b)
    /\ disk' = Saved(disk, Added(chain, b), Len(Files), Torn)
    /\ UNCHANGED reloads

\* The process stops inside the save and starts again.
CrashInSave(b, k) ==
    /\ reloads < MaxReloads
    /\ Parent[b] \in chain.nodes
    /\ \E last \in {Torn, disk[Files[k + 1]]} :
          disk' = Saved(disk, Added(chain, b), k, last)
    /\ chain' = Loaded(disk')
    /\ reloads' = reloads + 1

\* The process stops between two additions and starts again.
Restart ==
    /\ reloads < MaxReloads
    /\ chain' = Loaded(disk)
    /\ reloads' = reloads + 1
    /\ UNCHANGED disk

Next ==
    \/ \E b \in Blocks : AddBlock(b)
    \/ \E b \in Blocks, k \in 0..(Len(Files) - 1) : CrashInSave(b, k)
    \/ Restart

Spec == Init /\ [][Next]_chainVars

-----------------------------------------------------------------------------
\* The main chain is the path to the tip, no block of the tree is higher than
\* the tip, and every block of the main chain up to the confirmed index is
\* confirmed, however blocks, forks, crashes and reloads follow each other
\* (add_block, _process_fork_resolution, _update_consensus_status).
MainChainLongest ==
    /\ chain.main = Path[chain.tip]
    /\ \A b \in chain.nodes : Height(b) <= Height(chain.tip)
    /\ \A i \in 1..Len(chain.main) : i - 1 <= ConfirmedIndex(chain) => chain.main[i] \in chain.confirmed

\* While the process runs the main chain only grows, and a block leaves it
\* only for a strictly longer chain; a crash loses at most the addition it
\* interrupts, provided that the save before it was completed (when two saves in
\* a row are interrupted, both copies may be cut and the chain is gone:
\* save_to_storage, _load_from_storage, _update_main_chain).
LosesAtMostLast ==
    [][ /\ reloads' = reloads => \/ IsPrefix(chain.main, chain'.main)
                                 \/ Len(chain'.main) > Len(chain.main)
        /\ reloads' # reloads => \/ chain' = chain
                                 \/ \E b \in Blocks : chain' = Added(chain, b)
                                 \/ \E f, g \in ToSet(Files) : disk[f] # disk[g] ]_chainVars

LongestChainKept == []MainChainLongest /\ LosesAtMostLast
=============================================================================
