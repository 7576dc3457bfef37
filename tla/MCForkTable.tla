---------------------------- MODULE MCForkTable -----------------------------
(* Tables for the model-checking runs of ForkTable.                        *)
EXTENDS ForkTable

E(v, h, p, t) == [version |-> v, height |-> h, threshold |-> p, time |-> t]

(* Every table of at most three entries over small values, in and out of   *)
(* order; the first fork, when registered, is the original version.        *)
SmallEntries == {E(v, h, p, t) : v \in 0 .. 3, h \in {1, 2, 4}, p \in {0, 101}, t \in 1 .. 2}
SmallTables ==
  {<<>>} \cup {<<E(1, 1, 0, 0), f, g>> : f \in SmallEntries, g \in SmallEntries}

(* hardforks.cpp, mainnet_hard_forks; times relative to 1640996600.        *)
MainnetTables == { <<
  E(1, 1, 0, -299618600), E(2, 10, 0, 100), E(3, 20, 0, 97), E(4, 60, 0, 100), E(5, 80, 0, 110),
  E(6, 90, 0, 170), E(7, 100, 0, 230), E(8, 110, 0, 290), E(9, 120, 0, 350), E(10, 130, 0, 470),
  E(11, 140, 0, 590), E(12, 150, 0, 710), E(13, 160, 0, 770), E(14, 170, 0, 1010)>> }
=============================================================================
