------------------------------- MODULE Pruning -------------------------------
(***************************************************************************)
(* Blockchain pruning: the pass of the LMDB database that deletes the      *)
(* prunable part of the transactions of the blocks outside the seed's      *)
(* stripe (BlockchainLMDB::prune_worker), with the places that call it.    *)
(*                                                                         *)
(* Every block carries one transaction, named by the block's height.  The  *)
(* transactions of the heights in V1Txs have version 1 and are never       *)
(* pruned.  A pass commits its work at checkpoints: the process may stop   *)
(* after one and the rest of the pass is then lost.                        *)
(***************************************************************************)
EXTENDS Stripes, FiniteSets

CONSTANTS
    V1Txs,           \* the heights whose transaction has version 1
    CommitCount,     \* the pruned records after which a pass commits (4096)
    MaxHeight,       \* bound on the chain
    MaxPops,         \* bound on the blocks popped
    MaxStops         \* bound on the passes that are cut short

VARIABLES
    height,          \* the number of blocks of the main chain
    seed,            \* the stored pruning seed, 0 when the chain is not pruned
    txs_prunable,    \* the heights whose prunable data is stored
    txs_prunable_tip,\* the heights recorded as not yet examined
    pops,            \* blocks popped so far
    stops            \* passes cut short so far

vars == <<height, seed, txs_prunable, txs_prunable_tip, pops, stops>>

ASSUME PruningBounds ==
    /\ V1Txs \subseteq Nat
    /\ CommitCount \in Nat \ {0}
    /\ {MaxHeight, MaxPops, MaxStops} \subseteq Nat

-----------------------------------------------------------------------------
Init ==
    /\ height = 1                      \* the genesis block
    /\ seed = 0
    /\ txs_prunable = {0}
    /\ txs_prunable_tip = {}
    /\ pops = 0
    /\ stops = 0

(* A block is stored.  Its transaction is recorded for a later update when  *)
(* the chain is pruned already.                                             *)
add_transaction_data ==
    /\ height < MaxHeight
    /\ height' = height + 1
    /\ txs_prunable' = txs_prunable \union {height}
    /\ txs_prunable_tip' = IF seed # 0 THEN txs_prunable_tip \union {height}
                                       ELSE txs_prunable_tip
    /\ UNCHANGED <<seed, pops, stops>>

(* The top block is popped, its transaction removed from every table.       *)
remove_transaction_data ==
    /\ height > 1
    /\ pops < MaxPops
    /\ pops' = pops + 1
    /\ height' = height - 1
    /\ txs_prunable' = txs_prunable \ {height - 1}
    /\ txs_prunable_tip' = txs_prunable_tip \ {height - 1}
    /\ UNCHANGED <<seed, stops>>

(* Faulty: the blocks of the tip are pruned as well.                        *)
PrunableTooEarly(h, s) ==
    /\ ((h \div StripeSize) % NumStripes) + 1 # SeedStripe(s)
    /\ h \notin V1Txs

(* What a pass deletes of the heights it has examined.                      *)
Prunable(h, s) == ~has_unpruned_block(h, height, s) /\ h \notin V1Txs

(* A full pass over the transactions in done, of the whole table unless it  *)
(* is cut short.                                                            *)
PassOver(done, s) ==
    /\ seed' = s
    /\ txs_prunable' = txs_prunable \ {h \in done : Prunable(h, s)}
    /\ txs_prunable_tip' =
           txs_prunable_tip \union {h \in done : h + TipBlocks >= height}

(* Faulty: every record that was examined is dropped, those of the tip too. *)
UpdateForgets(done) ==
    LET left == {h \in done : h + TipBlocks < height}
    IN  /\ txs_prunable' = txs_prunable \ {h \in left : Prunable(h, seed)}
        /\ txs_prunable_tip' = txs_prunable_tip \ done
        /\ seed' = seed

(* A pass over the recorded transactions in done: those that have left the  *)
(* tip are pruned or kept for good, and no longer recorded.                 *)
UpdateOver(done) ==
    LET left == {h \in done : h + TipBlocks < height}
    IN  /\ txs_prunable' = txs_prunable \ {h \in left : Prunable(h, seed)}
        /\ txs_prunable_tip' = txs_prunable_tip \ left
        /\ seed' = seed

(* The seeds a pass may run with: the stored one, or that of any stripe     *)
(* when the chain is not pruned yet.                                        *)
PassSeeds == IF seed # 0 THEN {seed}
             ELSE {make_pruning_seed(stripe) : stripe \in 1..NumStripes}

(* prune_mode_prune: the operator or the start-up option asks for pruning.  *)
prune_blockchain ==
    /\ \E s \in PassSeeds : PassOver(0..(height - 1), s)
    /\ UNCHANGED <<height, pops, stops>>

(* prune_mode_update: after incoming blocks, at start-up and periodically.  *)
update_pruning ==
    /\ seed # 0
    /\ UpdateOver(txs_prunable_tip)
    /\ UNCHANGED <<height, pops, stops>>

(* The records deleted since the last commit are enough for a checkpoint.   *)
AtCheckpoint(done, s) ==
    Cardinality({h \in done \intersect txs_prunable : Prunable(h, s)}) >= CommitCount

(* The process stops after the checkpoint: the transactions are examined in *)
(* the order of their hashes, so any set of them may be done.  At the next  *)
(* start a chain with a seed is only updated.                               *)
PruneStopped ==
    /\ stops < MaxStops
    /\ stops' = stops + 1
    /\ \E s \in PassSeeds, done \in SUBSET (0..(height - 1)) :
           /\ done # 0..(height - 1)
           /\ AtCheckpoint(done, s)
           /\ PassOver(done, s)
    /\ UNCHANGED <<height, pops>>

UpdateStopped ==
    /\ stops < MaxStops
    /\ stops' = stops + 1
    /\ seed # 0
    /\ \E last \in txs_prunable_tip :
           LET done == {h \in txs_prunable_tip : h <= last}
           IN  AtCheckpoint(done, seed) /\ UpdateOver(done)
    /\ UNCHANGED <<height, pops>>

Next ==
    \/ add_transaction_data
    \/ remove_transaction_data
    \/ prune_blockchain
    \/ update_pruning
    \/ PruneStopped
    \/ UpdateStopped

(* core::on_idle calls update_blockchain_pruning for as long as the daemon  *)
(* runs.                                                                    *)
Spec == Init /\ [][Next]_vars /\ WF_vars(update_pruning)

-----------------------------------------------------------------------------
(* Type correctness of the tables: no height outside the chain is stored.   *)
TypeOK ==
    /\ height \in Nat \ {0}
    /\ seed \in Seeds
    /\ txs_prunable \subseteq 0..(height - 1)
    /\ txs_prunable_tip \subseteq 0..(height - 1)
    /\ pops \in Nat
    /\ stops \in Nat

(* What the node tells its peers it has (has_unpruned_block with its seed   *)
(* and height), it has: check_pruning finds no missing prunable data.       *)
HasWhatItClaims ==
    \A h \in 0..(height - 1) :
        has_unpruned_block(h, height, seed) => h \in txs_prunable

(* As long as no block is popped that is so, passes that were cut short     *)
(* included.                                                                *)
ClaimsUntilPopped == pops = 0 => HasWhatItClaims

(* When every pass has run to its end, check_pruning finds no data of a     *)
(* pruned height, except what the next update is going to delete, whatever  *)
(* was popped and stored again.                                             *)
NothingLeftBehind ==
    stops = 0 => \A h \in txs_prunable : Prunable(h, seed) => h \in txs_prunable_tip

(* get_next_unpruned_block_height is the first height at or after h that is *)
(* kept in full, whatever the stripe, next to the tip included.             *)
NextUnprunedIsLeast ==
    \A h \in 0..(height - 1), s \in Seeds :
        LET n == get_next_unpruned_block_height(h, height, s)
        IN  /\ n >= h
            /\ has_unpruned_block(n, height, s)
            /\ \A i \in h..(n - 1) : ~has_unpruned_block(i, height, s)

(* The block hashes find_blockchain_supplement offers to a peer that wants  *)
(* full blocks, from a common block it still has up to                      *)
(* get_next_pruned_block_height, are of blocks stored in full (on a chain   *)
(* that was not popped).                                                    *)
OffersOnlyStored ==
    pops = 0 =>
        \A start \in 0..(height - 1) :
            get_next_unpruned_block_height(start, height, seed) = start =>
                \A i \in start..(get_next_pruned_block_height(start, height, seed) - 1) :
                    i \in txs_prunable

(* Stored data that the chain no longer claims.                             *)
Leftover(h) == h \in txs_prunable /\ Prunable(h, seed)

(* The prunable data of a block that stops being claimed is eventually      *)
(* deleted, unless a pass is cut short or the chain is popped below it.     *)
PrunedEventually ==
    \A h \in 0..MaxHeight : Leftover(h) /\ stops = 0 ~> ~Leftover(h) \/ stops # 0
=============================================================================
