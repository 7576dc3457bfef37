------------------------------ MODULE MCPruning ------------------------------
(* Small stripes, with transactions of version 1 at the start of the chain. *)
EXTENDS Pruning

EarlyTxs == {1}
=============================================================================
