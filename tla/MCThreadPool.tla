---------------------------- MODULE MCThreadPool ----------------------------
(* Two clients and one worker.                                             *)
EXTENDS ThreadPool, TLC

(* j1 submits two leaves, the second throws, and j4, which throws.  j3      *)
(* submits a leaf.                                                          *)
NestedJob == {"j1", "j2", "j3", "j4", "l1", "l2", "l3", "l4"}
NestedWork ==
    "c1" :> <<"j1", "j2">> @@ "c2" :> <<"l3", "j3">> @@
    "j1" :> <<"l1", "l2", "j4">> @@ "j3" :> <<"l4">> @@
    [j \in {"j2", "j4", "l1", "l2", "l3", "l4"} |-> <<>>]
=============================================================================
