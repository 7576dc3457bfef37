---------------------------- MODULE MCBlockSync -----------------------------
(* Two peers for the model-checking runs of BlockSync.                     *)
EXTENDS BlockSync, TLC

CONSTANTS A, B

Seeds0 == A :> 0 @@ B :> 0

(* B has left A's chain after the first block.                             *)
ForkHashes == {"1", "2", "2b", "3b"}
ForkChain == A :> <<"1", "2">> @@ B :> <<"1", "2b", "3b">>
=============================================================================
