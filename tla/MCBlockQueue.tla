---------------------------- MODULE MCBlockQueue ----------------------------
(* Two peers on a fork, one of them pruned.                                *)
EXTENDS BlockQueue, TLC

CONSTANTS A, B

(* B has left A's chain after the first block.  A keeps only the first     *)
(* stripe (heights 0 and 1) in full, and its tip (height 3).               *)
ForkHashes == {"1", "2", "3", "2b", "3b"}
ForkChain == A :> <<"1", "2", "3">> @@ B :> <<"1", "2b", "3b">>
ForkSeeds == A :> make_pruning_seed(1) @@ B :> 0

(* The node itself keeps the second stripe.                                *)
OwnSeed == make_pruning_seed(2)
=============================================================================
