---------------------------- MODULE MCBlockchain ----------------------------
(* Block trees on which Blockchain is checked.                              *)
EXTENDS Blockchain, TLC

LineOf(parent) ==
    LET line[b \in DOMAIN parent] ==
            IF b = "g" THEN {b} ELSE {b} \union line[parent[b]]
    IN  line
HeightOf(parent) == [b \in DOMAIN parent |-> Cardinality(LineOf(parent)[b]) - 1]

(* Fork: three chains over g.  x, y and w spend the same key image; z is in *)
(* both a2 and b2.  b3 spends again what b1 spent, d3 pays a wrong reward,  *)
(* v in e2 has wrong inputs, and f2 spends one key image twice, so that     *)
(* writing it fails after its first transaction; all four promise more work *)
(* than c3, the best block that is right.                                   *)
ForkParent == "g" :> "g" @@ "a1" :> "g" @@ "a2" :> "a1" @@ "a3" :> "a2" @@ "d3" :> "a2"
    @@ "f2" :> "a1" @@ "b1" :> "g" @@ "b2" :> "b1" @@ "b3" :> "b2" @@ "c3" :> "b2" @@ "e2" :> "b1"
ForkWork == "g" :> 0 @@ "a1" :> 1 @@ "a2" :> 2 @@ "a3" :> 3 @@ "d3" :> 5 @@ "f2" :> 5
    @@ "b1" :> 1 @@ "b2" :> 2 @@ "b3" :> 6 @@ "c3" :> 4 @@ "e2" :> 5
ForkTxs == [b \in DOMAIN ForkParent |->
    CASE b = "a1" -> <<"x">> [] b = "b1" -> <<"y">> [] b \in {"a2", "b2"} -> <<"z">>
      [] b = "b3" -> <<"w">> [] b = "e2" -> <<"v">> [] b = "f2" -> <<"p", "q">> [] OTHER -> <<>>]
ForkBlocks == DOMAIN ForkParent
ForkLine == LineOf(ForkParent)
ForkHeights == HeightOf(ForkParent)
ForkTx == {"p", "q", "v", "w", "x", "y", "z"}
ForkKeyImage == "p" :> 4 @@ "q" :> 4 @@ "v" :> 3 @@ "w" :> 1 @@ "x" :> 1 @@ "y" :> 1 @@ "z" :> 2

(* Long: two chains of four and a late branch, for checkpoints.  b4 spends  *)
(* again what b1 spent.                                                     *)
LongParent == "g" :> "g" @@ "a1" :> "g" @@ "a2" :> "a1" @@ "a3" :> "a2" @@ "a4" :> "a3"
    @@ "b1" :> "g" @@ "b2" :> "b1" @@ "b3" :> "b2" @@ "b4" :> "b3" @@ "c3" :> "a2"
LongBlocks == DOMAIN LongParent
LongLine == LineOf(LongParent)
LongHeights == HeightOf(LongParent)
LongTxs == [b \in LongBlocks |->
    CASE b \in {"a1", "b3"} -> <<"x">> [] b = "b1" -> <<"z">> [] b = "a3" -> <<"y">>
      [] b = "b4" -> <<"w">> [] OTHER -> <<>>]
LongTx == {"w", "x", "y", "z"}
LongKeyImage == "w" :> 2 @@ "x" :> 1 @@ "y" :> 2 @@ "z" :> 2

(* Every block keeps arriving, batches are closed, the steps of a switch    *)
(* follow each other, and at some time the node has stopped for the last    *)
(* time.                                                                    *)
FairSpec ==
    /\ Spec
    /\ \A b \in Blocks : SF_vars(add_new_block(b))
    /\ WF_vars(prepare_handle_incoming_blocks)
    /\ WF_vars(cleanup_handle_incoming_blocks)
    /\ WF_vars(SwitchStep)
    /\ <>[][\A keep \in BOOLEAN : ~Restart(keep)]_vars
=============================================================================
