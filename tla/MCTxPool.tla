------------------------------ MODULE MCTxPool ------------------------------
(* Transactions and blocks on which TxPool is checked.                      *)
EXTENDS TxPool, TLC

(* a and b spend the same key image, b and c another; the rate of a is the  *)
(* lowest.  c spends an output of block b1, which mines a, and comes with   *)
(* blocks only.  a and b are handed in not to be relayed, b also privately. *)
SmallTx == {"a", "b", "c"}
SmallInputs == "a" :> <<1>> @@ "b" :> <<2, 1>> @@ "c" :> <<2>>
SmallNeeds == "a" :> "g" @@ "b" :> "g" @@ "c" :> "b1"
SmallWeight == "a" :> 1 @@ "b" :> 1 @@ "c" :> 1
SmallByRate == <<"b", "c", "a">>
SmallByHash == <<"a", "b", "c">>
SmallParent == "g" :> "g" @@ "b1" :> "g" @@ "b2" :> "b1" @@ "d1" :> "g"
SmallBlock == DOMAIN SmallParent
SmallTxs == "g" :> <<>> @@ "b1" :> <<"a">> @@ "b2" :> <<"c">> @@ "d1" :> <<"b">>
SmallVersion == "g" :> 1 @@ "b1" :> 1 @@ "b2" :> 2 @@ "d1" :> 1
SmallBarred == 1 :> {} @@ 2 :> {"b"}
SmallCheap == 1 :> {} @@ 2 :> {"a"}
SmallOffers == "a" :> {"none"} @@ "b" :> {"none", "local"} @@ "c" :> {}

(* Relaying: a arrives in the stem phase and may come round again, b is     *)
(* forwarded from an anonymity network.  Block b1 mines a.                  *)
RelayedTx == {"a", "b"}
RelayInputs == "a" :> <<1>> @@ "b" :> <<2>>
RelayNeeds == "a" :> "g" @@ "b" :> "g"
RelayWeight == "a" :> 1 @@ "b" :> 1
RelayByRate == <<"b", "a">>
RelayParent == "g" :> "g" @@ "b1" :> "g"
RelayBlock == DOMAIN RelayParent
RelayTxs == "g" :> <<>> @@ "b1" :> <<"a">>
RelayVersion == "g" :> 1 @@ "b1" :> 1
RelayBarred == 1 :> {}
RelayOffers == "a" :> {"stem"} @@ "b" :> {"forward"}
=============================================================================
