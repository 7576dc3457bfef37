-------------------------- MODULE BlockchainProofs --------------------------
(***************************************************************************)
(* Proofs about Blockchain, for every block tree: the main chain is always *)
(* valid, and the original chain can be restored after a failed switch.    *)
(***************************************************************************)
EXTENDS Blockchain, WellFoundedInduction, TLAPS

(* The provers of a leaf that names none, with their time limits.           *)
USE SMTT(30), ZenonT(30)

(* The heights of a chain that starts with the genesis block.               *)
Numbered(s) == \A i \in 1..Len(s) : Height[s[i]] = i - 1

(* No block of s is refused for its header, its reward or its inputs.       *)
Clean(s) ==
    \A i \in 1..Len(s) :
        /\ s[i] \notin BadHeader \union BadReward
        /\ \A m \in 1..Len(Txs[s[i]]) : Txs[s[i]][m] \notin BadInputs

Valid(s) ==
    /\ s \in Seq(Blocks)
    /\ s # <<>>
    /\ s[1] = Genesis
    /\ Linked(s)
    /\ Numbered(s)
    /\ SpendsOnce(s)
    /\ Clean(s)

(* The first part of the invariant: chains.                                 *)
ChainInv ==
    /\ TypeOK
    /\ Valid(main)
    /\ batch.state # "closed" => Valid(batch.main)
    /\ Genesis \notin alt
    /\ Genesis \notin batch.alt
    /\ points \subseteq {Genesis} \union NewPoints
    /\ Genesis \notin Elems(reorg.todo)
    /\ Genesis \notin Elems(reorg.original)
    /\ reorg.mode # "idle" => batch.state # "closed" /\ reorg.split \in 1..Len(main)

-----------------------------------------------------------------------------
(* A set of naturals that is not empty has a least element.                 *)
LEMMA LeastNat ==
    ASSUME NEW S \in SUBSET Nat, S # {}
    PROVE  \E n \in S : \A m \in S : n <= m
<1>1. PICK n \in S : \A m \in S : <<m, n>> \notin OpToRel(<, Nat)
  BY NatLessThanWellFounded, WFMin, Zenon
<1>2. \A m \in S : ~(m < n)
  BY <1>1, Zenon DEF OpToRel
<1> QED
  BY <1>2

(* The ancestors of a block have every height up to its own, no more.       *)
LEMMA Ancestors ==
    ASSUME NEW b \in Blocks
    PROVE  /\ Genesis \in Line[b]
           /\ \A a \in Line[b] : Height[a] <= Height[b]
           /\ \A h \in 0..Height[b] : \E a \in Line[b] : Height[a] = h
<1> DEFINE Has(x) == /\ Genesis \in Line[x]
                     /\ \A a \in Line[x] : Height[a] <= Height[x]
                     /\ \A h \in 0..Height[x] : \E a \in Line[x] : Height[a] = h
           Bad == {x \in Blocks : ~Has(x)}
           H == {Height[x] : x \in Bad}
<1>1. SUFFICES ASSUME Bad # {} PROVE FALSE
  OBVIOUS
<1>0. Bad \subseteq Blocks /\ \A x \in Blocks : x \notin Bad => Has(x)
  OBVIOUS
<1>2. H \subseteq Nat /\ H # {}
  <2> HIDE DEF Bad
  <2> QED BY <1>1, <1>0, TreeAssumption
<1>3. PICK n \in H : \A m \in H : n <= m
  <2> HIDE DEF H
  <2> QED BY <1>2, LeastNat
<1>4. PICK x \in Bad : Height[x] = n
  OBVIOUS
<1>5. CASE x = Genesis
  BY <1>4, <1>5, TreeAssumption
<1>6. CASE x # Genesis
  <2>1. Parent[x] \in Blocks /\ Height[x] = Height[Parent[x]] + 1
    BY Zenon, <1>6, TreeAssumption
  <2>2. Parent[x] \notin Bad
    <3>1. Height[x] \in Nat /\ Height[Parent[x]] \in Nat
      BY <1>0, <2>1, TreeAssumption
    <3>2. Parent[x] \in Bad => n <= Height[Parent[x]]
      BY <1>3
    <3> HIDE DEF Bad
    <3> QED BY <2>1, <3>1, <3>2, <1>4
  <2>3. Has(Parent[x])
    BY <2>1, <2>2
  <2>4. Line[x] = {x} \union Line[Parent[x]]
    BY Zenon, <1>6, TreeAssumption
  <2>5. Height[x] \in Nat /\ Height[Parent[x]] \in Nat /\ \A a \in Line[x] : Height[a] \in Nat
    BY <2>1, TreeAssumption
  <2>6. Genesis \in Line[x] /\ \A a \in Line[x] : Height[a] <= Height[x]
    BY <2>1, <2>3, <2>4, <2>5
  <2>7. ASSUME NEW h \in 0..Height[x] PROVE \E a \in Line[x] : Height[a] = h
    <3>1. CASE h = Height[x]
      BY <3>1, <2>4
    <3>2. CASE h # Height[x]
      <4>1. h \in 0..Height[Parent[x]]
        BY <3>2, <2>1, <2>5
      <4> QED BY <4>1, <2>3, <2>4
    <3> QED BY <3>1, <3>2
  <2> QED BY <2>6, <2>7
<1> QED BY <1>5, <1>6

(* Where the alternative ancestors of p end, and that all above are         *)
(* alternative.                                                             *)
LEMMA ForkHeightIs ==
    ASSUME NEW p \in Blocks, Genesis \notin alt
    PROVE  /\ ForkHeight(p) \in 0..Height[p]
           /\ \A a \in Line[p] : Height[a] > ForkHeight(p) => a \in alt
<1> DEFINE S == {Height[a] : a \in Line[p] \ alt}
           D == {Height[p] - h : h \in S}
<1>1. Height[p] \in Nat /\ \A a \in Line[p] : Height[a] \in Nat
  BY TreeAssumption
<1>2. \A h \in S : h \in 0..Height[p]
  BY <1>1, Ancestors
<1>3. 0 \in S
  BY Ancestors, TreeAssumption
<1>4. D \subseteq Nat /\ D # {}
  <2> HIDE DEF S
  <2> QED BY <1>1, <1>2, <1>3
<1>5. PICK d \in D : \A e \in D : d <= e
  <2> HIDE DEF D
  <2> QED BY <1>4, LeastNat
<1>6. PICK h \in S : d = Height[p] - h
  OBVIOUS
<1>7. \A g \in S : g <= h
  <2> HIDE DEF S
  <2>1. ASSUME NEW g \in S PROVE g <= h
    <3>1. g \in Nat /\ h \in Nat
      BY <1>1, <1>2
    <3>2. Height[p] - g \in D
      OBVIOUS
    <3>3. Height[p] - h <= Height[p] - g
      BY <3>2, <1>5, <1>6
    <3> QED BY <1>1, <3>1, <3>3
  <2> QED BY <2>1
<1>8. \A a \in Line[p] \ alt : Height[a] <= h
  BY <1>7
<1>9. ForkHeight(p) \in S /\ \A a \in Line[p] \ alt : Height[a] <= ForkHeight(p)
  BY <1>6, <1>8, Zenon DEF ForkHeight
<1> QED
  <2> HIDE DEF S
  <2> QED BY <1>1, <1>2, <1>9

(* The chain that build_alt_chain returns consists of alternative blocks.   *)
LEMMA AltChainIs ==
    ASSUME NEW p \in Blocks, alt \subseteq Blocks, Genesis \notin alt
    PROVE  build_alt_chain(p) \in Seq(alt)
<1> DEFINE f == ForkHeight(p)
           n == Height[p] - f
<1>1. f \in 0..Height[p] /\ Height[p] \in Nat
  BY ForkHeightIs, TreeAssumption
<1>2. n \in Nat
  BY <1>1
<1>3. ASSUME NEW i \in 1..n PROVE Ancestor(p, f + i) \in alt
  <2>1. f + i \in 0..Height[p] /\ f + i > f
    <3> HIDE DEF f
    <3> QED BY <1>1
  <2>2. \E a \in Line[p] : Height[a] = f + i
    <3> HIDE DEF f
    <3> QED BY <2>1, Ancestors
  <2>3. Ancestor(p, f + i) \in Line[p] /\ Height[Ancestor(p, f + i)] = f + i
    <3> HIDE DEF f
    <3> QED BY <2>2, Zenon DEF Ancestor
  <2> QED BY <2>1, <2>3, ForkHeightIs
<1>4. build_alt_chain(p) = [i \in 1..n |-> Ancestor(p, f + i)]
  BY DEF build_alt_chain
<1> HIDE DEF f, n
<1> QED BY <1>2, <1>3, <1>4

-----------------------------------------------------------------------------
(* A block is added exactly when nothing is wrong with it and each of its   *)
(* transactions is in the pool, not yet written and spends a new key image. *)
LEMMA Added ==
    ASSUME NEW p, NEW b \in Blocks
    PROVE  MainVerdict(p, b) = "added" <=>
               /\ Parent[b] = Top
               /\ b \notin BadHeader \union BadReward
               /\ check_block(b)
               /\ \A i \in 1..Len(Txs[b]) : ~Missing(p, b, i) /\ ~WrongInputs(b, i)
               /\ ~SpendsTwice(b)
<1> DEFINE n == Len(Txs[b])
           Sound(i) == ~Missing(p, b, i) /\ ~WrongInputs(b, i)
           First(i) == \A j \in 1..i - 1 : Sound(j)
           Fails == {i \in 1..n : ~Sound(i)}
<1>1. n \in Nat
  BY TreeAssumption
<1>2. ASSUME Fails # {} PROVE \E i \in 1..n : First(i) /\ ~Sound(i)
  <2>1. Fails \in SUBSET Nat
    BY <1>1
  <2>2. PICK i \in Fails : \A j \in Fails : i <= j
    <3> HIDE DEF Fails
    <3> QED BY <1>2, <2>1, LeastNat
  <2>3. ASSUME NEW j \in 1..i - 1 PROVE Sound(j)
    <3>1. j \in 1..n /\ ~(i <= j)
      BY <1>1, <2>1
    <3> HIDE DEF Sound
    <3> QED BY <3>1, <2>2
  <2> QED BY <2>2, <2>3
<1>3. (\A i \in 1..n : Sound(i)) <=>
          /\ ~\E i \in 1..n : First(i) /\ Missing(p, b, i)
          /\ ~\E i \in 1..n : First(i) /\ WrongInputs(b, i)
  <2>1. (\A i \in 1..n : Sound(i)) \/ Fails # {}
    OBVIOUS
  <2>2. \A i \in 1..n : Sound(i) <=> ~Missing(p, b, i) /\ ~WrongInputs(b, i)
    OBVIOUS
  <2> HIDE DEF Sound, Fails
  <2> QED BY <1>2, <2>1, <2>2
<1> DEFINE U == Parent[b] # Top \/ b \in BadHeader \/ ~check_block(b)
           M == \E i \in 1..n : First(i) /\ Missing(p, b, i)
           W == \E i \in 1..n : First(i) /\ WrongInputs(b, i)
<1>4. MainVerdict(p, b) =
        IF U \/ M THEN "failed" ELSE IF W THEN "invalid"
        ELSE IF b \in BadReward THEN "failed" ELSE IF SpendsTwice(b) THEN "aborted"
        ELSE "added"
  BY DEF MainVerdict
<1>5. MainVerdict(p, b) = "added" <=> ~U /\ ~M /\ ~W /\ b \notin BadReward /\ ~SpendsTwice(b)
  <2> HIDE DEF U, M, W
  <2> QED BY <1>4
<1>6. ~M /\ ~W <=> \A i \in 1..n : Sound(i)
  BY <1>3
<1> HIDE DEF M, W, Sound, n
<1>7. (\A i \in 1..n : Sound(i)) <=> \A i \in 1..Len(Txs[b]) : ~Missing(p, b, i) /\ ~WrongInputs(b, i)
  BY DEF Sound, n
<1> QED BY <1>5, <1>6, <1>7 DEF U

LEMMA ElemsOf == ASSUME NEW S, NEW s \in Seq(S) PROVE Elems(s) \subseteq S
  BY DEF Elems

LEMMA TxsOfType == ASSUME NEW S \in SUBSET Blocks PROVE TxsOf(S) \subseteq Tx
  BY TreeAssumption DEF TxsOf, Elems

(* A prefix of a valid chain is valid.                                      *)
LEMMA PrefixValid ==
    ASSUME NEW s, Valid(s), NEW k \in 1..Len(s)
    PROVE  Valid(SubSeq(s, 1, k))
<1> DEFINE t == SubSeq(s, 1, k)
<1>1. s \in Seq(Blocks) /\ Len(s) \in Nat
  BY DEF Valid
<1>2. t \in Seq(Blocks) /\ Len(t) = k /\ \A i \in 1..k : t[i] = s[i]
  BY <1>1
<1> HIDE DEF t
<1>3. t # <<>> /\ t[1] = Genesis
  BY <1>2 DEF Valid
<1>4. Linked(t)
  BY <1>1, <1>2 DEF Valid, Linked
<1>5. Numbered(t)
  BY <1>1, <1>2 DEF Valid, Numbered
<1>6. SpendsOnce(t)
  <2>1. \A i, j \in 1..Len(s) : \A m \in 1..Len(Txs[s[i]]), n \in 1..Len(Txs[s[j]]) :
          KeyImage[Txs[s[i]][m]] = KeyImage[Txs[s[j]][n]] => i = j /\ m = n
    BY Zenon DEF Valid, SpendsOnce
  <2>2. SUFFICES ASSUME NEW i \in 1..k, NEW j \in 1..k,
                        NEW m \in 1..Len(Txs[t[i]]), NEW n \in 1..Len(Txs[t[j]]),
                        KeyImage[Txs[t[i]][m]] = KeyImage[Txs[t[j]][n]]
                 PROVE  i = j /\ m = n
    BY <1>2 DEF SpendsOnce
  <2>3. i \in 1..Len(s) /\ j \in 1..Len(s) /\ t[i] = s[i] /\ t[j] = s[j]
    BY <1>1, <1>2
  <2>4. m \in 1..Len(Txs[s[i]]) /\ n \in 1..Len(Txs[s[j]])
    BY <2>3
  <2>5. KeyImage[Txs[s[i]][m]] = KeyImage[Txs[s[j]][n]]
    BY <2>2, <2>3
  <2>6. \A a \in 1..Len(Txs[s[i]]), c \in 1..Len(Txs[s[j]]) :
          KeyImage[Txs[s[i]][a]] = KeyImage[Txs[s[j]][c]] => i = j /\ a = c
    BY Zenon, <2>1, <2>3
  <2> QED BY Zenon, <2>4, <2>5, <2>6
<1>7. Clean(t)
  BY <1>1, <1>2 DEF Valid, Clean
<1>8. Valid(t)
  BY <1>2, <1>3, <1>4, <1>5, <1>6, <1>7 DEF Valid
<1> QED BY <1>8 DEF t

(* A block that handle_block_to_main_chain adds keeps the chain valid.      *)
LEMMA AddedValid ==
    ASSUME NEW p, NEW b \in Blocks, b # Genesis, Valid(main),
           MainVerdict(p, b) = "added"
    PROVE  Valid(Append(main, b))
<1> DEFINE t == Append(main, b)
           n == Len(main)
<1>1. main \in Seq(Blocks) /\ n \in Nat \ {0}
  BY DEF Valid
<1>2. /\ t \in Seq(Blocks) /\ Len(t) = n + 1
      /\ \A i \in 1..n : t[i] = main[i]
      /\ t[n + 1] = b
  BY <1>1
<1>3. /\ Parent[b] = main[n]
      /\ b \notin BadHeader \union BadReward
      /\ \A i \in 1..Len(Txs[b]) : ~Missing(p, b, i) /\ ~WrongInputs(b, i)
      /\ ~SpendsTwice(b)
  BY Added DEF Top
<1> HIDE DEF t
<1>4. t # <<>> /\ t[1] = Genesis
  BY <1>1, <1>2 DEF Valid
<1>5. Linked(t)
  BY <1>1, <1>2, <1>3 DEF Valid, Linked
<1>6. Numbered(t)
  <2>1. Height[b] = Height[main[n]] + 1
    BY <1>3, TreeAssumption
  <2>2. Height[main[n]] = n - 1
    BY <1>1 DEF Valid, Numbered
  <2> QED BY <1>1, <1>2, <2>1, <2>2 DEF Valid, Numbered
<1>7. Clean(t)
  BY <1>1, <1>2, <1>3 DEF Valid, Clean, WrongInputs
<1>8. SpendsOnce(t)
  <2>1. ASSUME NEW i \in 1..n, NEW m \in 1..Len(Txs[main[i]]), NEW k \in 1..Len(Txs[b])
        PROVE  KeyImage[Txs[main[i]][m]] # KeyImage[Txs[b][k]]
    <3>1. Txs[main[i]][m] \in Written
      BY DEF Written, TxsOf, InMain, Elems
    <3>2. KeyImage[Txs[b][k]] \notin Spent
      BY <1>3 DEF WrongInputs
    <3> QED BY Zenon, <3>1, <3>2 DEF Spent
  <2>2. \A m, k \in 1..Len(Txs[b]) : KeyImage[Txs[b][m]] = KeyImage[Txs[b][k]] => m = k
    BY <1>3 DEF SpendsTwice
  <2>3. \A i, j \in 1..n : \A m \in 1..Len(Txs[main[i]]), k \in 1..Len(Txs[main[j]]) :
          KeyImage[Txs[main[i]][m]] = KeyImage[Txs[main[j]][k]] => i = j /\ m = k
    BY DEF Valid, SpendsOnce
  <2>4. SUFFICES ASSUME NEW i \in 1..n + 1, NEW j \in 1..n + 1,
                        NEW m \in 1..Len(Txs[t[i]]), NEW k \in 1..Len(Txs[t[j]]),
                        KeyImage[Txs[t[i]][m]] = KeyImage[Txs[t[j]][k]]
                 PROVE  i = j /\ m = k
    BY Zenon, <1>2 DEF SpendsOnce
  <2>5. CASE i \in 1..n /\ j \in 1..n
    <3>1. t[i] = main[i] /\ t[j] = main[j]
      BY <2>5, <1>2
    <3>2. m \in 1..Len(Txs[main[i]]) /\ k \in 1..Len(Txs[main[j]])
      BY <3>1
    <3>3. KeyImage[Txs[main[i]][m]] = KeyImage[Txs[main[j]][k]]
      BY Zenon, <2>4, <3>1
    <3>4. \A a \in 1..Len(Txs[main[i]]), c \in 1..Len(Txs[main[j]]) :
            KeyImage[Txs[main[i]][a]] = KeyImage[Txs[main[j]][c]] => i = j /\ a = c
      BY Zenon, <2>3, <2>5
    <3> QED BY Zenon, <3>2, <3>3, <3>4
  <2>6. CASE i \in 1..n /\ j = n + 1
    BY <2>1, <2>4, <2>6, <1>2
  <2>7. CASE i = n + 1 /\ j \in 1..n
    BY <2>1, <2>4, <2>7, <1>2
  <2>8. CASE i = n + 1 /\ j = n + 1
    BY <2>2, <2>4, <2>8, <1>2
  <2> QED BY <2>5, <2>6, <2>7, <2>8, <1>1
<1>9. Valid(t)
  BY <1>2, <1>4, <1>5, <1>6, <1>7, <1>8 DEF Valid
<1> QED BY <1>9 DEF t

(* check_against_checkpoints keeps the genesis block, and what it keeps     *)
(* passes the checkpoints.                                                  *)
LEMMA Kept ==
    ASSUME NEW m, Valid(m), NEW pts \in SUBSET ({Genesis} \union NewPoints)
    PROVE  /\ KeptLength(m, pts) \in 1..Len(m)
           /\ \A i \in 1..KeptLength(m, pts) : \A q \in pts : Height[q] = i - 1 => m[i] = q
<1> DEFINE V == Violated(m, pts)
           H == {Height[q] : q \in V}
<1>1. m \in Seq(Blocks) /\ Len(m) \in Nat \ {0} /\ m[1] = Genesis
  BY DEF Valid
<1>2. \A q \in pts : q \in Blocks /\ Height[q] \in Nat
  BY TreeAssumption, PointsAssumption
<1>3. CASE V = {}
  <2>1. KeptLength(m, pts) = Len(m)
    BY <1>3 DEF KeptLength
  <2> QED BY <2>1, <1>1, <1>2, <1>3 DEF Violated
<1>4. CASE V # {}
  <2>1. H \in SUBSET Nat /\ H # {}
    BY <1>2, <1>4 DEF Violated
  <2>2. PICK h \in H : \A g \in H : h <= g
    <3> HIDE DEF H
    <3> QED BY <2>1, LeastNat
  <2>3. PICK f \in V : Height[f] = h
    OBVIOUS
  <2>4. \A q \in V : Height[f] <= Height[q]
    BY <2>2, <2>3
  <2> DEFINE F == FirstViolated(m, pts)
  <2>5. F \in V /\ \A q \in V : Height[F] <= Height[q]
    BY <2>3, <2>4, Zenon DEF FirstViolated
  <2> HIDE DEF F
  <2>6. F \in pts /\ Height[F] < Len(m) /\ m[Height[F] + 1] # F
    BY <2>5 DEF Violated
  <2>7. Height[F] >= 3
    BY <2>6, <1>1, PointsAssumption, TreeAssumption
  <2>8. KeptLength(m, pts) = Height[F] - 2
    BY <1>4 DEF KeptLength, F
  <2>9. Height[F] \in Nat
    BY <2>6, <1>2
  <2>10. ASSUME NEW i \in 1..Height[F] - 2, NEW q \in pts, Height[q] = i - 1
         PROVE  m[i] = q
    <3>1. q \notin V
      BY <2>5, <2>9, <2>10
    <3>2. Height[q] < Len(m) /\ Height[q] + 1 = i
      BY <2>6, <2>9, <2>10, <1>1
    <3> QED BY <3>1, <3>2 DEF Violated
  <2> QED BY <2>6, <2>7, <2>8, <2>9, <2>10, <1>1
<1> QED BY <1>3, <1>4

-----------------------------------------------------------------------------
ReorgType ==
    [mode : {"idle", "connect", "restore", "push"}, todo : Seq(Blocks),
     chain : Seq(Blocks), split : Nat, original : Seq(Blocks), discard : BOOLEAN]

BatchType ==
    [state : {"closed", "open", "stop", "abort"}, count : 0..MaxBatch,
     residue : SUBSET Tx, main : Seq(Blocks), alt : SUBSET Blocks, pool : SUBSET Tx]

LEMMA IdleType == Idle \in ReorgType
  BY DEF Idle, ReorgType

LEMMA ClosedType == Closed \in BatchType
  BY TreeAssumption DEF Closed, BatchType

(* What a block does to the batch: it stays open, and what it will be       *)
(* undone to stays as it is.                                                *)
LEMMA BatchAfterType ==
    ASSUME batch \in BatchType, batch.state # "closed", NEW v, NEW b \in Blocks,
           NEW c \in 0..MaxBatch
    PROVE  LET r == [BatchAfter(v, b) EXCEPT !.count = c]
           IN  /\ r \in BatchType
               /\ r.state # "closed"
               /\ r.main = batch.main /\ r.alt = batch.alt /\ r.pool = batch.pool
               /\ v = "aborted" => r.state = "abort"
               /\ v = "added" => r.state = batch.state /\ r.residue = batch.residue
               /\ v \notin {"added", "aborted"} =>
                     /\ r.state = (IF batch.state = "abort" THEN "abort" ELSE "stop")
                     /\ r.residue = batch.residue
<1>1. Residue(b) \in SUBSET Tx
  BY TreeAssumption DEF Residue
<1>2. CASE v = "added"
  BY Zenon, <1>2 DEF BatchAfter, BatchType
<1>3. CASE v = "aborted"
  BY Zenon, <1>1, <1>3 DEF BatchAfter, BatchType
<1>4. CASE v # "added" /\ v # "aborted"
  BY ZenonT(40), <1>4 DEF BatchAfter, BatchType
<1> QED BY <1>2, <1>3, <1>4

(* A block that is stored or added advances the count of its batch.         *)
LEMMA BatchAfterCount ==
    ASSUME batch \in BatchType, batch.count < MaxBatch, NEW v, NEW b \in Blocks
    PROVE  \E c \in 0..MaxBatch : BatchAfter(v, b) = [BatchAfter(v, b) EXCEPT !.count = c]
<1>1. batch.count \in 0..MaxBatch /\ batch.count + 1 \in 0..MaxBatch
  BY TreeAssumption DEF BatchType
<1>2. CASE v = "added"
  BY Zenon, <1>1, <1>2 DEF BatchAfter, BatchType
<1>3. CASE v = "aborted"
  BY ZenonT(40), <1>1, <1>3 DEF BatchAfter, BatchType
<1>4. CASE v # "added" /\ v # "aborted"
  BY ZenonT(40), <1>1, <1>4 DEF BatchAfter, BatchType
<1> QED BY <1>2, <1>3, <1>4

(* A block of the main chain is at the height its position says.            *)
LEMMA OnMain ==
    ASSUME Valid(main), NEW x \in Blocks, x # Genesis, Parent[x] \in InMain
    PROVE  Height[x] \in 1..Len(main) /\ main[Height[x]] = Parent[x]
<1>1. PICK i \in 1..Len(main) : main[i] = Parent[x]
  BY DEF InMain, Elems
<1>2. Height[main[i]] = i - 1 /\ Height[x] = Height[Parent[x]] + 1
  BY TreeAssumption DEF Valid, Numbered
<1> QED BY <1>1, <1>2 DEF Valid

(* The chain a switch starts with hangs on the main chain.                  *)
LEMMA SwitchStart ==
    ASSUME ChainInv, NEW b \in Blocks, b \notin InMain, StoredAsAlternative(b)
    PROVE  LET c == Append(build_alt_chain(Parent[b]), b)
           IN  /\ c \in Seq(Blocks)
               /\ Genesis \notin Elems(c)
               /\ Height[c[1]] \in 1..Len(main)
<1> DEFINE d == build_alt_chain(Parent[b])
           c == Append(d, b)
<1>1. alt \subseteq Blocks /\ Genesis \notin alt /\ Valid(main)
  BY DEF ChainInv, TypeOK
<1>2. b # Genesis
  <2>1. Genesis \in InMain
    BY <1>1 DEF Valid, InMain, Elems
  <2> QED BY <2>1
<1>3. Parent[b] \in Blocks
  BY TreeAssumption
<1>4. d \in Seq(alt)
  BY Zenon, <1>1, <1>3, AltChainIs
<1>5. IF d = <<>> THEN Parent[b] \in InMain ELSE Parent[d[1]] \in InMain
  BY DEF StoredAsAlternative, Attached
<1> HIDE DEF d
<1>6. d \in Seq(Blocks) /\ Len(d) \in Nat
  BY <1>1, <1>4
<1>7. c \in Seq(Blocks) /\ Len(c) = Len(d) + 1 /\ c[Len(d) + 1] = b /\ \A i \in 1..Len(d) : c[i] = d[i]
  BY <1>6
<1>8. \A i \in 1..Len(d) : d[i] \in alt
  BY <1>4
<1> HIDE DEF c
<1>9. Genesis \notin Elems(c)
  <2>1. \A i \in 1..Len(c) : c[i] = b \/ c[i] \in alt
    BY <1>6, <1>7, <1>8
  <2> QED BY Zenon, <1>1, <1>2, <2>1 DEF Elems
<1>10. c[1] \in Blocks /\ c[1] # Genesis /\ Parent[c[1]] \in InMain
  <2>1. CASE d = <<>>
    BY <2>1, <1>2, <1>5, <1>7
  <2>2. CASE d # <<>>
    <3>1. 1 \in 1..Len(d)
      BY <2>2, <1>6
    <3> QED BY <2>2, <3>1, <1>1, <1>5, <1>7, <1>8
  <2> QED BY Zenon, <2>1, <2>2
<1>11. Height[c[1]] \in 1..Len(main)
  BY <1>1, <1>10, OnMain
<1> QED BY <1>7, <1>9, <1>11 DEF c, d

-----------------------------------------------------------------------------
LEMMA TypeIs ==
    TypeOK <=> /\ main \in Seq(Blocks) /\ main # <<>> /\ main[1] = Genesis
               /\ alt \subseteq Blocks
               /\ invalid \subseteq Blocks
               /\ pool \subseteq Tx
               /\ points \subseteq Blocks
               /\ reorg \in ReorgType
               /\ batch \in BatchType
               /\ thrown \in BOOLEAN
  BY Zenon DEF TypeOK, ReorgType, BatchType

LEMMA ChainInit == Init => ChainInv
<1> SUFFICES ASSUME Init PROVE ChainInv
  OBVIOUS
<1>1. /\ main = <<Genesis>> /\ alt = {} /\ invalid = {} /\ pool = {} /\ points = {Genesis}
      /\ reorg = Idle /\ batch = Closed /\ thrown = FALSE
  BY Zenon DEF Init
<1>2. <<Genesis>> \in Seq(Blocks) /\ Len(<<Genesis>>) = 1 /\ <<Genesis>>[1] = Genesis
  BY TreeAssumption
<1>3. Txs[Genesis] = <<>> /\ Height[Genesis] = 0 /\ Genesis \notin BadHeader \union BadReward
  BY Zenon, TreeAssumption
<1>4. Valid(main)
  BY <1>1, <1>2, <1>3 DEF Valid, Linked, Numbered, SpendsOnce, Clean
<1>5. TypeOK
  BY Zenon, <1>1, <1>2, IdleType, ClosedType, TypeIs, TreeAssumption
<1> QED
  BY <1>1, <1>4, <1>5 DEF ChainInv, Idle, Closed, Elems

(* Returning to the chain m cut at k, with other parts of the state typed.  *)
LEMMA CutValid ==
    ASSUME NEW m, Valid(m), NEW k \in 1..Len(m)
    PROVE  /\ Valid(SubSeq(m, 1, k))
           /\ SubSeq(m, k + 1, Len(m)) \in Seq(Blocks)
           /\ Len(SubSeq(m, 1, k)) = k
           /\ Genesis \notin Elems(SubSeq(m, k + 1, Len(m)))
           /\ TxsOf(Elems(SubSeq(m, k + 1, Len(m)))) \subseteq Tx
<1>1. m \in Seq(Blocks) /\ Len(m) \in Nat /\ Numbered(m)
  BY DEF Valid
<1>2. Valid(SubSeq(m, 1, k)) /\ Len(SubSeq(m, 1, k)) = k
  BY <1>1, PrefixValid
<1> DEFINE t == SubSeq(m, k + 1, Len(m))
<1>3. t \in Seq(Blocks) /\ Len(t) = Len(m) - k /\ \A i \in 1..Len(m) - k : t[i] = m[k + i]
  BY <1>1
<1> HIDE DEF t
<1>4. Genesis \notin Elems(t)
  <2>1. SUFFICES ASSUME NEW i \in 1..Len(t), t[i] = Genesis PROVE FALSE
    BY DEF Elems
  <2>2. k + i \in 1..Len(m) /\ k + i # 1 /\ m[k + i] = Genesis
    BY <1>1, <1>3, <2>1
  <2>3. Height[Genesis] = k + i - 1
    BY <1>1, <2>2 DEF Numbered
  <2> QED BY <2>2, <2>3, TreeAssumption
<1>5. TxsOf(Elems(t)) \subseteq Tx
  BY <1>3, ElemsOf, TxsOfType
<1> QED BY Zenon, <1>2, <1>3, <1>4, <1>5 DEF t

LEMMA HeadTail ==
    ASSUME NEW s \in Seq(Blocks), s # <<>>, Genesis \notin Elems(s)
    PROVE  /\ Head(s) \in Blocks /\ Head(s) # Genesis /\ Head(s) \in Elems(s)
           /\ Tail(s) \in Seq(Blocks) /\ Genesis \notin Elems(Tail(s))
<1>1. Len(s) \in Nat \ {0} /\ Head(s) = s[1]
  OBVIOUS
<1>2. Tail(s) \in Seq(Blocks) /\ Len(Tail(s)) = Len(s) - 1 /\ \A i \in 1..Len(s) - 1 : Tail(s)[i] = s[i + 1]
  BY <1>1
<1> QED BY <1>1, <1>2 DEF Elems

(* Everything the invariant asks of the next state.                         *)
Fits ==
    /\ Valid(main') /\ alt' \subseteq Blocks /\ invalid' \subseteq Blocks
    /\ pool' \subseteq Tx
    /\ points' \subseteq {Genesis} \union NewPoints
    /\ reorg' \in ReorgType /\ batch' \in BatchType /\ thrown' \in BOOLEAN
    /\ batch'.state # "closed" => Valid(batch'.main)
    /\ Genesis \notin alt' /\ Genesis \notin batch'.alt
    /\ Genesis \notin Elems(reorg'.todo) /\ Genesis \notin Elems(reorg'.original)
    /\ reorg'.mode # "idle" => batch'.state # "closed" /\ reorg'.split \in 1..Len(main')

LEMMA FitsIs == Fits => ChainInv'
<1> SUFFICES ASSUME Fits PROVE ChainInv'
  BY Zenon
<1>1. main' \in Seq(Blocks) /\ main' # <<>> /\ main'[1] = Genesis
  BY Zenon DEF Fits, Valid
<1>2. points' \subseteq Blocks
  BY Zenon, TreeAssumption, PointsAssumption DEF Fits
<1>3. TypeOK'
  BY <1>1, <1>2 DEF Fits, TypeOK, ReorgType, BatchType
<1> QED BY <1>3 DEF Fits, ChainInv

LEMMA ChainStep == ChainInv /\ [Next]_vars => ChainInv'
<1> SUFFICES ASSUME ChainInv, [Next]_vars PROVE ChainInv'
  BY Zenon
<1>0. /\ TypeOK /\ Valid(main)
      /\ main \in Seq(Blocks) /\ alt \subseteq Blocks /\ invalid \subseteq Blocks
      /\ pool \subseteq Tx /\ points \subseteq Blocks /\ reorg \in ReorgType
      /\ batch \in BatchType /\ thrown \in BOOLEAN
      /\ batch.state # "closed" => Valid(batch.main)
      /\ Genesis \notin alt /\ Genesis \notin batch.alt
      /\ points \subseteq {Genesis} \union NewPoints
      /\ Genesis \notin Elems(reorg.todo) /\ Genesis \notin Elems(reorg.original)
      /\ reorg.mode # "idle" => batch.state # "closed" /\ reorg.split \in 1..Len(main)
  BY Zenon, TypeIs DEF ChainInv
<1>00. /\ reorg.todo \in Seq(Blocks) /\ reorg.original \in Seq(Blocks)
      /\ reorg.chain \in Seq(Blocks) /\ reorg.split \in Nat /\ reorg.discard \in BOOLEAN
      /\ batch.count \in 0..MaxBatch /\ batch.residue \in SUBSET Tx
      /\ batch.main \in Seq(Blocks) /\ batch.alt \in SUBSET Blocks /\ batch.pool \in SUBSET Tx
  BY <1>0 DEF ReorgType, BatchType
<1>01. Idle.todo = <<>> /\ Idle.original = <<>> /\ Idle.mode = "idle" /\ Elems(<<>>) = {}
  BY DEF Idle, Elems
<1>02. Closed.state = "closed" /\ Closed.alt = {}
  BY DEF Closed
<1>03. SUFFICES Fits
  BY Zenon, FitsIs
<1>1. CASE UNCHANGED vars
  BY <1>0, <1>1 DEF vars, Fits
<1>2. CASE prepare_handle_incoming_blocks
  <2>1. batch' \in BatchType /\ batch'.main = main /\ batch'.alt = alt /\ batch'.state = "open"
    <3>1. Closed \in BatchType
      BY ClosedType
    <3>2. batch' = [Closed EXCEPT !.state = "open", !.main = main, !.alt = alt, !.pool = pool]
      BY Zenon, <1>2 DEF prepare_handle_incoming_blocks
    <3> QED BY Zenon, <3>1, <3>2, <1>0 DEF BatchType
  <2> QED BY <1>2, <1>0, <2>1 DEF prepare_handle_incoming_blocks, Fits
<1>3. CASE cleanup_handle_incoming_blocks
  <2>1. Valid(main') /\ alt' \subseteq Blocks /\ pool' \subseteq Tx /\ Genesis \notin alt'
    BY <1>3, <1>0, <1>00 DEF cleanup_handle_incoming_blocks
  <2>2. batch' = Closed /\ reorg' = reorg /\ reorg.mode = "idle"
        /\ invalid' = invalid /\ points' = points /\ thrown' = thrown
    BY <1>3 DEF cleanup_handle_incoming_blocks
  <2> QED BY Zenon, <1>0, <1>02, <2>1, <2>2, ClosedType DEF Fits
<1>4. ASSUME NEW b \in Blocks, add_new_block(b) PROVE Fits
  <2> DEFINE q == pool \union (Elems(Txs[b]) \ Written)
  <2>1. /\ batch.state = "open" /\ batch.count < MaxBatch /\ reorg.mode = "idle"
        /\ b \notin InMain /\ points' = points /\ thrown' = thrown
        /\ IF Parent[b] = Top THEN handle_block_to_main_chain(q, b)
                              ELSE handle_alternative_block(q, b)
    BY Zenon, <1>4 DEF add_new_block
  <2>2. q \subseteq Tx
    <3>1. Elems(Txs[b]) \subseteq Tx
      BY Zenon, ElemsOf, TreeAssumption
    <3> QED BY Zenon, <3>1, <1>0 DEF Fits
  <2>3. b # Genesis
    <3>1. Genesis \in InMain
      BY <1>0 DEF Valid, InMain, Elems
    <3> QED BY Zenon, <2>1, <3>1
  <2> HIDE DEF q
  <2>4. CASE Parent[b] = Top
    <3> DEFINE v == MainVerdict(q, b)
    <3>1. /\ IF v = "added" THEN main' = Append(main, b) /\ pool' = q \ Elems(Txs[b])
                            ELSE main' = main /\ pool' = q
          /\ invalid' = IF v = "invalid" THEN invalid \union {b} ELSE invalid
          /\ batch' = BatchAfter(v, b) /\ alt' = alt /\ reorg' = reorg
      BY Zenon, <2>1, <2>4 DEF handle_block_to_main_chain
    <3>2. v = "added" => Valid(Append(main, b))
      BY <1>0, <2>3, AddedValid
    <3> HIDE DEF v
    <3>3. Valid(main') /\ pool' \subseteq Tx /\ invalid' \subseteq Blocks
      BY Zenon, <3>1, <3>2, <1>0, <2>2
    <3>4. batch' \in BatchType /\ batch'.state # "closed" /\ batch'.main = batch.main /\ batch'.alt = batch.alt
      BY <1>0, <2>1, <3>1, BatchAfterType, BatchAfterCount
    <3> QED BY Zenon, <1>0, <2>1, <3>1, <3>3, <3>4 DEF Fits
  <2>5. CASE Parent[b] # Top
    <3>1. handle_alternative_block(q, b)
      BY <2>1, <2>5
    <3>2. batch' \in BatchType /\ batch'.state # "closed" /\ batch'.main = batch.main /\ batch'.alt = batch.alt
      <4>1. \/ batch' = [batch EXCEPT !.count = @ + 1]
            \/ batch' = [batch EXCEPT !.count = @ + 1, !.state = "stop"]
        BY ZenonT(40), <3>1, <1>0, <2>1 DEF handle_alternative_block, BatchType
      <4>2. batch.count + 1 \in 0..MaxBatch
        <5>1. MaxBatch \in Nat
          BY TreeAssumption
        <5>2. batch.count \in 0..MaxBatch /\ batch.count < MaxBatch
          BY Zenon, <1>00, <2>1
        <5> QED BY <5>1, <5>2
      <4> QED BY Zenon, <4>1, <4>2, <1>0, <2>1 DEF BatchType
    <3>3. CASE StoredAsAlternative(b) /\ BecomesMain(b)
      <4> DEFINE c == Append(build_alt_chain(Parent[b]), b)
                 k == Height[c[1]]
                 t == SubSeq(main, k + 1, Len(main))
      <4>1. c \in Seq(Blocks) /\ Genesis \notin Elems(c) /\ k \in 1..Len(main)
        BY Zenon, <2>1, <3>3, SwitchStart
      <4>2. /\ main' = SubSeq(main, 1, k) /\ pool' = q \union TxsOf(Elems(t))
            /\ reorg' = [mode |-> "connect", todo |-> c, chain |-> c, split |-> k,
                         original |-> t, discard |-> b \in points]
            /\ alt' = alt \union {b} /\ invalid' = invalid
        BY Zenon, <3>1, <3>3 DEF handle_alternative_block, BeginSwitch
      <4> HIDE DEF c, k
      <4>3. Valid(SubSeq(main, 1, k)) /\ t \in Seq(Blocks) /\ Len(SubSeq(main, 1, k)) = k
            /\ Genesis \notin Elems(t) /\ TxsOf(Elems(t)) \subseteq Tx
        BY Zenon, <4>1, <1>0, CutValid
      <4> HIDE DEF t
      <4>4. reorg' \in ReorgType /\ reorg'.todo = c /\ reorg'.original = t /\ reorg'.split = k
        <5>1. main \in Seq(Blocks) /\ k \in Nat
          BY <4>1, <1>0 DEF Valid
        <5>2. (b \in points) \in BOOLEAN
          OBVIOUS
        <5> QED BY Zenon, <4>1, <4>2, <4>3, <5>1, <5>2 DEF ReorgType
      <4>5. reorg'.split \in 1..Len(main')
        BY <4>1, <4>2, <4>3, <4>4
      <4> QED BY Zenon, <1>0, <2>1, <2>2, <2>3, <3>2, <4>1, <4>2, <4>3, <4>4, <4>5 DEF Fits
    <3>4. CASE ~(StoredAsAlternative(b) /\ BecomesMain(b))
      <4>1. /\ main' = main /\ reorg' = reorg /\ pool' = q /\ invalid' = invalid
            /\ alt' \subseteq alt \union {b}
        BY <3>1, <3>4 DEF handle_alternative_block
      <4> QED BY <1>0, <2>1, <2>2, <2>3, <3>2, <4>1 DEF Fits
    <3> QED BY <3>3, <3>4
  <2> QED BY Zenon, <2>4, <2>5
<1>5. CASE ConnectNext
  <2> DEFINE b == Head(reorg.todo)
             v == MainVerdict(pool, b)
             u == SubSeq(main, reorg.split + 1, Len(main))
  <2>1. /\ reorg.mode = "connect" /\ reorg.todo # <<>>
        /\ batch' = [BatchAfter(v, b) EXCEPT !.count = batch.count]
        /\ points' = points /\ thrown' = thrown
    BY <1>5 DEF ConnectNext
  <2>2. b \in Blocks /\ b # Genesis /\ Tail(reorg.todo) \in Seq(Blocks) /\ Genesis \notin Elems(Tail(reorg.todo))
    BY <1>0, <1>00, <2>1, HeadTail
  <2>3. batch' \in BatchType /\ batch'.state # "closed" /\ batch'.main = batch.main /\ batch'.alt = batch.alt
    BY <1>0, <1>00, <2>1, <2>2, BatchAfterType
  <2>4. CASE v = "added"
    <3>1. /\ main' = Append(main, b) /\ pool' = pool \ Elems(Txs[b])
          /\ reorg' = [reorg EXCEPT !.todo = Tail(@)] /\ alt' = alt /\ invalid' = invalid
      BY <1>5, <2>4 DEF ConnectNext
    <3>2. Valid(Append(main, b)) /\ Len(Append(main, b)) = Len(main) + 1
      BY <1>0, <2>2, <2>4, AddedValid
    <3>3. reorg' \in ReorgType /\ reorg'.todo = Tail(reorg.todo) /\ reorg'.original = reorg.original
          /\ reorg'.split = reorg.split
      BY Zenon, <3>1, <1>0, <1>00, <2>2 DEF ReorgType
    <3>4. Len(main) \in Nat /\ reorg.split \in 1..Len(main)
      BY <1>0, <2>1
    <3>5. reorg'.split \in 1..Len(main')
      BY <3>1, <3>2, <3>3, <3>4
    <3> QED BY <1>0, <2>1, <2>2, <2>3, <3>1, <3>2, <3>3, <3>5 DEF Fits
  <2>5. CASE v # "added"
    <3>1. /\ main' = SubSeq(main, 1, reorg.split) /\ pool' = pool \union TxsOf(Elems(u))
          /\ invalid' = invalid \union Elems(reorg.todo) /\ alt' = alt \ Elems(reorg.todo)
          /\ reorg' = [reorg EXCEPT !.mode = "restore", !.todo = reorg.original]
      BY <1>5, <2>5 DEF ConnectNext
    <3>2. Valid(SubSeq(main, 1, reorg.split)) /\ Len(SubSeq(main, 1, reorg.split)) = reorg.split
          /\ TxsOf(Elems(u)) \subseteq Tx
      BY <1>0, <2>1, CutValid
    <3>3. reorg' \in ReorgType /\ reorg'.todo = reorg.original /\ reorg'.original = reorg.original
          /\ reorg'.split = reorg.split
      BY Zenon, <3>1, <1>0, <1>00 DEF ReorgType
    <3>4. Elems(reorg.todo) \subseteq Blocks
      BY Zenon, <1>00, ElemsOf
    <3>5. reorg'.split \in 1..Len(main')
      BY <3>1, <3>2, <3>3, <1>0, <2>1
    <3> HIDE DEF u
    <3> QED BY <1>0, <2>1, <2>3, <3>1, <3>2, <3>3, <3>4, <3>5 DEF Fits
  <2> QED BY <2>4, <2>5
<1>6. CASE Connected
  <2>1. /\ reorg.mode = "connect"
        /\ \E t \in {<<>>, reorg.original} : reorg' = [reorg EXCEPT !.mode = "push", !.todo = t]
        /\ main' = main /\ alt' = alt /\ invalid' = invalid /\ pool' = pool /\ points' = points
        /\ batch' = batch /\ thrown' = thrown
    BY Zenon, <1>6 DEF Connected
  <2>2. reorg' \in ReorgType /\ reorg'.original = reorg.original /\ reorg'.split = reorg.split
        /\ reorg'.todo \in {<<>>, reorg.original}
    <3>1. PICK t \in {<<>>, reorg.original} : reorg' = [reorg EXCEPT !.mode = "push", !.todo = t]
      BY Zenon, <2>1
    <3>2. t \in Seq(Blocks)
      <4>1. <<>> \in Seq(Blocks)
        OBVIOUS
      <4> QED BY Zenon, <4>1, <1>00, <3>1
    <3> QED BY Zenon, <3>1, <3>2, <1>0 DEF ReorgType
  <2> QED BY Zenon, <1>0, <1>01, <2>1, <2>2 DEF Fits
<1>7. CASE RestoreNext
  <2> DEFINE b == Head(reorg.todo)
             v == MainVerdict(pool, b)
  <2>1. /\ reorg.mode = "restore" /\ reorg.todo # <<>>
        /\ batch' = [BatchAfter(v, b) EXCEPT !.count = batch.count]
        /\ invalid' = (IF v = "invalid" THEN invalid \union {b} ELSE invalid)
        /\ points' = points /\ thrown' = thrown /\ alt' = alt
    BY <1>7 DEF RestoreNext
  <2>2. b \in Blocks /\ b # Genesis /\ Tail(reorg.todo) \in Seq(Blocks) /\ Genesis \notin Elems(Tail(reorg.todo))
    BY Zenon, <1>0, <1>00, <2>1, HeadTail
  <2>3. batch' \in BatchType /\ batch'.state # "closed" /\ batch'.main = batch.main /\ batch'.alt = batch.alt
    BY <1>0, <1>00, <2>1, <2>2, BatchAfterType
  <2>4. CASE v = "added"
    <3>1. /\ main' = Append(main, b) /\ pool' = pool \ Elems(Txs[b])
          /\ reorg' = [reorg EXCEPT !.todo = Tail(@)]
      BY <1>7, <2>4 DEF RestoreNext
    <3>2. Valid(Append(main, b)) /\ Len(Append(main, b)) = Len(main) + 1
      BY <1>0, <2>2, <2>4, AddedValid
    <3>3. reorg' \in ReorgType /\ reorg'.todo = Tail(reorg.todo) /\ reorg'.original = reorg.original
          /\ reorg'.split = reorg.split
      BY ZenonT(40), <3>1, <1>0, <1>00, <2>2 DEF ReorgType
    <3>4. Len(main) \in Nat /\ reorg.split \in 1..Len(main)
      BY <1>0, <2>1
    <3>5. reorg'.split \in 1..Len(main')
      BY <3>1, <3>2, <3>3, <3>4
    <3>6. invalid' \subseteq Blocks
      BY Zenon, <1>0, <2>1, <2>2
    <3> QED BY Zenon, <1>0, <2>1, <2>2, <2>3, <3>1, <3>2, <3>3, <3>5, <3>6 DEF Fits
  <2>5. CASE v # "added"
    <3>1. reorg' = Idle /\ main' = main /\ pool' = pool
      BY Zenon, <1>7, <2>5 DEF RestoreNext
    <3>2. invalid' \subseteq Blocks
      BY <1>0, <2>1, <2>2
    <3> QED BY Zenon, <1>0, <1>01, <2>1, <2>3, <3>1, <3>2, IdleType DEF Fits
  <2> QED BY <2>4, <2>5
<1>8. CASE Restored
  BY <1>8, <1>0, <1>01, IdleType DEF Restored, Fits
<1>9. CASE PushNext
  <2> DEFINE b == Head(reorg.todo)
  <2>1. /\ reorg.mode = "push" /\ reorg.todo # <<>> /\ alt' \subseteq alt \union {b}
        /\ reorg' = [reorg EXCEPT !.todo = Tail(@)]
        /\ main' = main /\ invalid' = invalid /\ pool' = pool /\ points' = points
        /\ batch' = batch /\ thrown' = thrown
    BY <1>9 DEF PushNext
  <2>2. b \in Blocks /\ b # Genesis /\ Tail(reorg.todo) \in Seq(Blocks) /\ Genesis \notin Elems(Tail(reorg.todo))
    BY <1>0, <1>00, <2>1, HeadTail
  <2>3. reorg' \in ReorgType /\ reorg'.todo = Tail(reorg.todo) /\ reorg'.original = reorg.original
        /\ reorg'.split = reorg.split /\ reorg'.mode = "push"
    BY ZenonT(40), <2>1, <1>0, <1>00, <2>2 DEF ReorgType
  <2> HIDE DEF b
  <2> QED BY <1>0, <2>1, <2>2, <2>3 DEF Fits
<1>10. CASE Pushed
  BY Zenon, <1>10, <1>0, <1>01, IdleType DEF Pushed, Fits
<1>11. ASSUME NEW n \in 1..Len(main) - 1, pop_blocks(n) PROVE Fits
  <2> DEFINE k == Len(main) - n
  <2>1. k \in 1..Len(main)
    BY <1>0
  <2>2. /\ batch.state = "closed" /\ main' = SubSeq(main, 1, k)
        /\ pool' = pool \union TxsOf(Elems(SubSeq(main, k + 1, Len(main))))
        /\ UNCHANGED <<alt, invalid, points, reorg, batch, thrown>>
    BY Zenon, <1>11 DEF pop_blocks
  <2> HIDE DEF k
  <2>3. Valid(SubSeq(main, 1, k)) /\ TxsOf(Elems(SubSeq(main, k + 1, Len(main)))) \subseteq Tx
    BY Zenon, <2>1, <1>0, CutValid
  <2> QED BY Zenon, <1>0, <2>2, <2>3 DEF Fits
<1>12. CASE flush_invalid_blocks
  BY Zenon, <1>12, <1>0 DEF flush_invalid_blocks, Fits
<1>13. ASSUME NEW t \in Tx, DropTx(t) PROVE Fits
  BY Zenon, <1>13, <1>0 DEF DropTx, Fits
<1>14. ASSUME NEW F \in SUBSET NewPoints, update_checkpoints(F) PROVE Fits
  <2> DEFINE pts == points \union load_checkpoints_from_json(F)
             k == KeptLength(main, pts)
  <2>1. pts \in SUBSET ({Genesis} \union NewPoints)
    BY Zenon, <1>0 DEF load_checkpoints_from_json
  <2>2. /\ reorg.mode = "idle" /\ points' = pts /\ main' = SubSeq(main, 1, k)
        /\ pool' = pool \union TxsOf(Elems(SubSeq(main, k + 1, Len(main))))
        /\ thrown' = Throws(main, pts)
        /\ UNCHANGED <<alt, invalid, reorg, batch>>
    BY Zenon, <1>14 DEF update_checkpoints
  <2>3. k \in 1..Len(main)
    BY Zenon, <2>1, <1>0, Kept
  <2>4. thrown' \in BOOLEAN
    BY Zenon, <2>2 DEF Throws
  <2> HIDE DEF k, pts
  <2>5. Valid(SubSeq(main, 1, k)) /\ TxsOf(Elems(SubSeq(main, k + 1, Len(main)))) \subseteq Tx
    BY <2>3, <1>0, CutValid
  <2> QED BY Zenon, <1>0, <2>1, <2>2, <2>4, <2>5 DEF Fits
<1>15. ASSUME NEW keep \in BOOLEAN, Restart(keep) PROVE Fits
  <2> DEFINE m == IF batch.state = "closed" THEN main ELSE batch.main
             a == IF batch.state = "closed" THEN alt ELSE batch.alt
             p == IF batch.state = "closed" THEN pool ELSE batch.pool
             k == KeptLength(m, points)
  <2>1. Valid(m) /\ a \subseteq Blocks /\ Genesis \notin a /\ p \subseteq Tx
    BY Zenon, <1>0, <1>00
  <2>2. /\ main' = SubSeq(m, 1, k) /\ pool' = p \union TxsOf(Elems(SubSeq(m, k + 1, Len(m))))
        /\ alt' = (IF keep THEN a ELSE {}) /\ invalid' = {} /\ reorg' = Idle /\ batch' = Closed
        /\ thrown' = FALSE /\ points' = points
    BY Zenon, <1>15 DEF Restart
  <2> HIDE DEF m, a, p
  <2>3. k \in 1..Len(m)
    BY <1>0, <2>1, Kept
  <2> HIDE DEF k
  <2>4. Valid(SubSeq(m, 1, k)) /\ TxsOf(Elems(SubSeq(m, k + 1, Len(m)))) \subseteq Tx
    BY Zenon, <2>1, <2>3, CutValid
  <2> QED BY ZenonT(40), <1>0, <1>01, <1>02, <2>1, <2>2, <2>4, IdleType, ClosedType DEF Fits
<1> QED
  BY ZenonT(60), <1>1, <1>2, <1>3, <1>4, <1>5, <1>6, <1>7, <1>8, <1>9, <1>10, <1>11, <1>12, <1>13,
     <1>14, <1>15
     DEF Next, SwitchStep

LEMMA ChainIsValid == ChainInv => MainValid
<1> SUFFICES ASSUME ChainInv PROVE MainValid
  BY Zenon
<1>1. Valid(main)
  BY DEF ChainInv
<1>2. InMain \intersect (BadHeader \union BadReward) = {}
  BY <1>1 DEF Valid, Clean, InMain, Elems
<1>3. TxsOf(InMain) \intersect BadInputs = {}
  <2> SUFFICES ASSUME NEW x \in TxsOf(InMain) PROVE x \notin BadInputs
    BY Zenon
  <2>1. PICK b \in Elems(main) : x \in Elems(Txs[b])
    BY Zenon DEF TxsOf, InMain
  <2>2. PICK i \in 1..Len(main) : b = main[i]
    BY Zenon DEF Elems
  <2>3. PICK m \in 1..Len(Txs[b]) : x = Txs[b][m]
    BY Zenon, <2>1 DEF Elems
  <2> QED BY Zenon, <1>1, <2>2, <2>3 DEF Valid, Clean
<1> QED BY <1>1, <1>2, <1>3 DEF MainValid, Valid

(* The state of the chain is always of its type: every step of add_new_block,*)
(* switch_to_alternative_blockchain, update_checkpoints and the restart.     *)
THEOREM TypeCorrect == Spec => []TypeOK
<1>1. ChainInv => TypeOK
  BY DEF ChainInv
<1> QED BY <1>1, ChainInit, ChainStep, PTL DEF Spec

(* For every tree of blocks the main chain stays valid: linked, no key image *)
(* spent twice, no block that handle_block_to_main_chain has to refuse.      *)
THEOREM MainStaysValid == Spec => []MainValid
  BY ChainInit, ChainStep, ChainIsValid, PTL DEF Spec

-----------------------------------------------------------------------------
(* The second part of the invariant: what a failed switch restores.         *)
(* The chain s passes the checkpoints pts.                                  *)
Agrees(s, pts) ==
    \A i \in 1..Len(s) : \A q \in pts : Height[q] = Height[s[i]] => q = s[i]

(* The blocks t, whose transactions are at hand, can return on top of m.    *)
Returns(m, t, at, pts) ==
    /\ Valid(m \o t)
    /\ Agrees(m \o t, pts)
    /\ TxsOf(Elems(t)) \subseteq at

RestoreInv ==
    /\ Agrees(main, points)
    /\ batch.state = "abort" => \E b \in Blocks : SpendsTwice(b)
    /\ batch.state # "abort" => batch.residue = {}
    /\ reorg.mode = "connect" =>
          /\ batch.state # "abort"
          /\ Returns(SubSeq(main, 1, reorg.split), reorg.original,
                     pool \union TxsOf(Elems(SubSeq(main, reorg.split + 1, Len(main)))),
                     points)
    /\ reorg.mode = "restore" /\ batch.state # "abort" =>
          Returns(main, reorg.todo, pool, points)

(* An aborted batch can bring back blocks that conflict with a checkpoint    *)
(* that was loaded meanwhile; without one of the two that cannot happen.     *)
Calm == NewPoints = {} \/ \A b \in Blocks : ~SpendsTwice(b)

LEMMA ConcatIs ==
    ASSUME NEW a \in Seq(Blocks), NEW b \in Seq(Blocks)
    PROVE  /\ a \o b \in Seq(Blocks) /\ Len(a \o b) = Len(a) + Len(b)
           /\ \A i \in 1..Len(a) + Len(b) :
                  (a \o b)[i] = IF i <= Len(a) THEN a[i] ELSE b[i - Len(a)]
  OBVIOUS

LEMMA AppendHead ==
    ASSUME NEW m \in Seq(Blocks), NEW t \in Seq(Blocks), t # <<>>
    PROVE  Append(m, Head(t)) \o Tail(t) = m \o t
<1>1. /\ Len(m) \in Nat /\ Len(t) \in Nat \ {0} /\ Head(t) = t[1] /\ Head(t) \in Blocks
      /\ Tail(t) \in Seq(Blocks) /\ Len(Tail(t)) = Len(t) - 1
      /\ \A i \in 1..Len(t) - 1 : Tail(t)[i] = t[i + 1]
  OBVIOUS
<1> DEFINE a == Append(m, Head(t))
<1>2. /\ a \in Seq(Blocks) /\ Len(a) = Len(m) + 1 /\ a[Len(m) + 1] = t[1]
      /\ \A i \in 1..Len(m) : a[i] = m[i]
  BY <1>1
<1> HIDE DEF a
<1> DEFINE u == Tail(t)
           n == Len(m)
<1>3. /\ u \in Seq(Blocks) /\ Len(u) = Len(t) - 1 /\ n \in Nat
      /\ \A i \in 1..Len(t) - 1 : u[i] = t[i + 1]
  BY Zenon, <1>1
<1> HIDE DEF u
<1>4. /\ a \o u \in Seq(Blocks) /\ Len(a \o u) = n + Len(t)
      /\ \A i \in 1..n + Len(t) : (a \o u)[i] = IF i <= n + 1 THEN a[i] ELSE u[i - (n + 1)]
  <2>1. /\ a \o u \in Seq(Blocks) /\ Len(a \o u) = Len(a) + Len(u)
        /\ \A i \in 1..Len(a) + Len(u) : (a \o u)[i] = IF i <= Len(a) THEN a[i] ELSE u[i - Len(a)]
    BY Zenon, <1>2, <1>3, ConcatIs
  <2>2. Len(a) = n + 1 /\ Len(a) + Len(u) = n + Len(t)
    BY <1>1, <1>2, <1>3
  <2> QED BY Zenon, <2>1, <2>2
<1>5. /\ m \o t \in Seq(Blocks) /\ Len(m \o t) = n + Len(t)
      /\ \A i \in 1..n + Len(t) : (m \o t)[i] = IF i <= n THEN m[i] ELSE t[i - n]
  OBVIOUS
<1>6. ASSUME NEW i \in 1..n + Len(t) PROVE (a \o u)[i] = (m \o t)[i]
  <2>1. CASE i <= n
    BY <1>2, <1>3, <1>4, <1>5, <2>1
  <2>2. CASE i = n + 1
    <3>1. (a \o u)[i] = a[n + 1] /\ (m \o t)[i] = t[i - n] /\ i - n = 1
      BY <1>3, <1>4, <1>5, <2>2
    <3> QED BY Zenon, <1>2, <3>1
  <2>3. CASE i > n + 1
    <3>1. (a \o u)[i] = u[i - (n + 1)] /\ (m \o t)[i] = t[i - n]
      BY <1>3, <1>4, <1>5, <2>3
    <3>2. i - (n + 1) \in 1..Len(t) - 1 /\ (i - (n + 1)) + 1 = i - n
      BY <1>1, <1>3, <2>3
    <3>3. u[i - (n + 1)] = t[(i - (n + 1)) + 1]
      BY Zenon, <1>3, <3>2
    <3> QED BY Zenon, <3>1, <3>2, <3>3
  <2>4. i <= n \/ i = n + 1 \/ i > n + 1
    BY <1>1, <1>3
  <2> QED BY Zenon, <2>1, <2>2, <2>3, <2>4
<1> HIDE DEF n
<1>7. a \o u = m \o t
  BY <1>4, <1>5, <1>6
<1> QED BY Zenon, <1>7 DEF a, u

LEMMA CutConcat ==
    ASSUME NEW m \in Seq(Blocks), NEW k \in 1..Len(m)
    PROVE  SubSeq(m, 1, k) \o SubSeq(m, k + 1, Len(m)) = m
<1> DEFINE a == SubSeq(m, 1, k)
           t == SubSeq(m, k + 1, Len(m))
<1>1. Len(m) \in Nat
  OBVIOUS
<1>2. /\ a \in Seq(Blocks) /\ Len(a) = k /\ \A i \in 1..k : a[i] = m[i]
      /\ t \in Seq(Blocks) /\ Len(t) = Len(m) - k /\ \A i \in 1..Len(m) - k : t[i] = m[k + i]
  BY <1>1
<1> HIDE DEF a, t
<1>3. a \o t \in Seq(Blocks) /\ Len(a \o t) = Len(m)
  <2>1. a \o t \in Seq(Blocks) /\ Len(a \o t) = Len(a) + Len(t)
    BY Zenon, <1>2, ConcatIs
  <2>2. Len(a) + Len(t) = Len(m)
    BY <1>1, <1>2
  <2> QED BY <2>1, <2>2
<1>4. ASSUME NEW i \in 1..Len(m) PROVE (a \o t)[i] = m[i]
  <2>1. CASE i <= k
    BY <1>1, <1>2, <2>1
  <2>2. CASE ~(i <= k)
    <3>1. (a \o t)[i] = t[i - k]
      BY <1>1, <1>2, <2>2
    <3>2. t[i - k] = m[k + (i - k)]
      <4>1. i - k \in 1..Len(m) - k
        BY <1>1, <2>2
      <4> QED BY <1>2, <4>1
    <3>3. k + (i - k) = i
      BY <1>1
    <3> QED BY Zenon, <3>1, <3>2, <3>3
  <2> QED BY ZenonT(40), <2>1, <2>2
<1> QED BY <1>3, <1>4 DEF a, t

(* The next block that a roll back returns is accepted.                     *)
LEMMA Returnable ==
    ASSUME Valid(main), batch.residue = {}, NEW t \in Seq(Blocks), t # <<>>,
           Genesis \notin Elems(t), Returns(main, t, pool, points)
    PROVE  LET b == Head(t)
           IN  /\ MainVerdict(pool, b) = "added"
               /\ Returns(Append(main, b), Tail(t), pool \ Elems(Txs[b]), points)
<1> DEFINE b == Head(t)
           u == Tail(t)
           n == Len(main)
           w == main \o t
<1>1. b \in Blocks /\ b \in Elems(t) /\ b = t[1] /\ Len(t) \in Nat \ {0}
  BY HeadTail
<1>2. u \in Seq(Blocks) /\ Len(u) = Len(t) - 1 /\ \A i \in 1..Len(u) : u[i] = t[i + 1]
  BY <1>1
<1>3. main \in Seq(Blocks) /\ n \in Nat \ {0}
  BY DEF Valid
<1>4. /\ w \in Seq(Blocks) /\ Len(w) = n + Len(t)
      /\ \A i \in 1..n + Len(t) : w[i] = IF i <= n THEN main[i] ELSE t[i - n]
  BY <1>3
<1>5. Valid(w) /\ Agrees(w, points) /\ TxsOf(Elems(t)) \subseteq pool
  BY DEF Returns
<1>6. Append(main, b) \o u = w
  BY Zenon, <1>3, AppendHead
<1> HIDE DEF b, u, n, w
<1>7. n + 1 \in 1..Len(w) /\ w[n + 1] = b /\ \A i \in 1..n : i \in 1..Len(w) /\ w[i] = main[i]
  BY <1>1, <1>3, <1>4
<1>8. ASSUME NEW i \in 1..Len(u) PROVE n + 1 + i \in 1..Len(w) /\ w[n + 1 + i] = u[i]
  <2> DEFINE k == n + 1 + i
  <2>1. k \in 1..n + Len(t) /\ k \in 1..Len(w) /\ ~(k <= n) /\ k - n = i + 1
    BY <1>1, <1>2, <1>3, <1>4
  <2> HIDE DEF k
  <2>2. w[k] = t[k - n]
    BY Zenon, <1>4, <2>1
  <2>3. u[i] = t[i + 1]
    BY Zenon, <1>2
  <2> QED BY Zenon, <2>1, <2>2, <2>3 DEF k
(* Where a transaction of b spends, no other transaction of w does.         *)
<1>9. ASSUME NEW i \in 1..Len(w), NEW m \in 1..Len(Txs[w[i]]), NEW j \in 1..Len(Txs[b]),
             KeyImage[Txs[w[i]][m]] = KeyImage[Txs[b][j]]
      PROVE  i = n + 1 /\ m = j
  <2>1. \A x, y \in 1..Len(w) : \A k \in 1..Len(Txs[w[x]]), l \in 1..Len(Txs[w[y]]) :
            KeyImage[Txs[w[x]][k]] = KeyImage[Txs[w[y]][l]] => x = y /\ k = l
    BY Zenon, <1>5 DEF Valid, SpendsOnce
  <2>2. \A k \in 1..Len(Txs[w[i]]), l \in 1..Len(Txs[w[n + 1]]) :
            KeyImage[Txs[w[i]][k]] = KeyImage[Txs[w[n + 1]][l]] => i = n + 1 /\ k = l
    BY Zenon, <1>7, <2>1
  <2> QED BY Zenon, <1>7, <1>9, <2>2
<1>10. Parent[b] = Top
  <2>1. w[n + 1] # Genesis /\ Parent[w[n + 1]] = w[n + 1 - 1]
    BY <1>3, <1>5, <1>7 DEF Valid, Linked
  <2>2. n + 1 - 1 = n /\ w[n] = main[n]
    BY <1>3, <1>7
  <2> QED BY <1>7, <2>1, <2>2 DEF Top, n
<1>11. b \notin BadHeader \union BadReward /\ \A m \in 1..Len(Txs[b]) : Txs[b][m] \notin BadInputs
  BY Zenon, <1>5, <1>7 DEF Valid, Clean
<1>12. check_block(b)
  BY Zenon, <1>5, <1>7 DEF Agrees, check_block
<1>13. ~SpendsTwice(b)
  <2>1. \A i, j \in 1..Len(Txs[b]) : KeyImage[Txs[b][i]] = KeyImage[Txs[b][j]] => i = j
    BY <1>7, <1>9
  <2> QED BY Zenon, <2>1 DEF SpendsTwice
<1>14. ASSUME NEW j \in 1..Len(Txs[b]) PROVE KeyImage[Txs[b][j]] \notin Spent
  <2>1. SUFFICES ASSUME NEW i \in 1..n, NEW m \in 1..Len(Txs[main[i]]),
                        KeyImage[Txs[main[i]][m]] = KeyImage[Txs[b][j]]
                 PROVE  FALSE
    <3>1. SUFFICES ASSUME NEW x \in Written, KeyImage[x] = KeyImage[Txs[b][j]] PROVE FALSE
      BY DEF Spent
    <3>2. PICK y \in InMain : x \in Elems(Txs[y])
      BY <3>1 DEF Written, TxsOf
    <3>3. PICK i \in 1..n : y = main[i]
      BY Zenon, <3>2 DEF InMain, Elems, n
    <3>4. PICK m \in 1..Len(Txs[y]) : x = Txs[y][m]
      BY Zenon, <3>2 DEF Elems
    <3> QED BY Zenon, <2>1, <3>1, <3>3, <3>4
  <2>2. i = n + 1
    BY <1>7, <1>9, <2>1
  <2> QED BY <1>3, <2>2
<1>15. ASSUME NEW j \in 1..Len(Txs[b]) PROVE ~Missing(pool, b, j)
  <2>1. Txs[b][j] \notin Written
    BY Zenon, <1>14 DEF Spent
  <2>2. Txs[b][j] \in pool
    BY <1>1, <1>5 DEF TxsOf, Elems
  <2>3. ASSUME NEW i \in 1..j - 1, Txs[b][i] = Txs[b][j] PROVE FALSE
    <3>1. i \in 1..Len(Txs[b]) /\ i # j
      <4>1. Len(Txs[b]) \in Nat
        BY <1>1, TreeAssumption
      <4> QED BY <4>1
    <3> QED BY Zenon, <1>13, <2>3, <3>1 DEF SpendsTwice
  <2> QED BY Zenon, <2>1, <2>2, <2>3 DEF Missing
<1>16. MainVerdict(pool, b) = "added"
  BY <1>1, <1>10, <1>11, <1>12, <1>13, <1>14, <1>15, Added DEF WrongInputs
<1>17. TxsOf(Elems(u)) \subseteq pool \ Elems(Txs[b])
  <2>1. SUFFICES ASSUME NEW i \in 1..Len(u), NEW m \in 1..Len(Txs[u[i]])
                 PROVE  Txs[u[i]][m] \in pool /\ Txs[u[i]][m] \notin Elems(Txs[b])
    BY DEF TxsOf, Elems
  <2>2. i + 1 \in 1..Len(t) /\ u[i] = t[i + 1]
    BY <1>1, <1>2
  <2>3. Txs[u[i]][m] \in pool
    BY <1>5, <2>2 DEF TxsOf, Elems
  <2>4. ASSUME NEW j \in 1..Len(Txs[b]), Txs[u[i]][m] = Txs[b][j] PROVE FALSE
    <3>1. n + 1 + i = n + 1
      <4>1. n + 1 + i \in 1..Len(w) /\ w[n + 1 + i] = u[i]
        BY <1>8
      <4>2. m \in 1..Len(Txs[w[n + 1 + i]]) /\ Txs[w[n + 1 + i]][m] = Txs[b][j]
        BY <2>4, <4>1
      <4> QED BY Zenon, <1>9, <4>1, <4>2
    <3> QED BY <1>2, <1>3, <3>1
  <2> QED BY Zenon, <2>3, <2>4 DEF Elems
<1>18. Returns(Append(main, b), u, pool \ Elems(Txs[b]), points)
  BY <1>5, <1>6, <1>17 DEF Returns
<1> QED BY Zenon, <1>16, <1>18 DEF b, u

-----------------------------------------------------------------------------
LEMMA GenesisAgrees ==
    ASSUME NEW s, Valid(s), NEW pts \in SUBSET {Genesis}
    PROVE  Agrees(s, pts)
<1>1. SUFFICES ASSUME NEW i \in 1..Len(s), Height[Genesis] = Height[s[i]] PROVE Genesis = s[i]
  BY DEF Agrees
<1>2. i = 1
  <2>1. Height[s[i]] = i - 1
    BY Zenon DEF Valid, Numbered
  <2>2. Height[Genesis] = 0 /\ i \in Int
    BY TreeAssumption DEF Valid
  <2> QED BY <1>1, <2>1, <2>2
<1> QED BY <1>2 DEF Valid

LEMMA PrefixAgrees ==
    ASSUME NEW s, Valid(s), NEW pts, Agrees(s, pts), NEW k \in 1..Len(s)
    PROVE  Agrees(SubSeq(s, 1, k), pts)
<1> DEFINE t == SubSeq(s, 1, k)
<1>1. s \in Seq(Blocks) /\ Len(s) \in Nat
  BY DEF Valid
<1>2. Len(t) = k /\ \A i \in 1..k : t[i] = s[i] /\ i \in 1..Len(s)
  BY <1>1
<1> HIDE DEF t
<1>3. Agrees(t, pts)
  BY <1>2 DEF Agrees
<1> QED BY <1>3 DEF t

LEMMA AppendAgrees ==
    ASSUME Valid(main), Agrees(main, points), NEW b \in Blocks, check_block(b)
    PROVE  Agrees(Append(main, b), points)
<1> DEFINE t == Append(main, b)
           n == Len(main)
<1>1. /\ n \in Nat /\ Len(t) = n + 1 /\ t[n + 1] = b /\ \A i \in 1..n : t[i] = main[i]
  BY DEF Valid
<1> HIDE DEF t
<1>2. ASSUME NEW i \in 1..n + 1 PROVE \A q \in points : Height[q] = Height[t[i]] => q = t[i]
  <2>1. CASE i = n + 1
    BY Zenon, <1>1, <2>1 DEF check_block
  <2>2. CASE i \in 1..n
    BY Zenon, <1>1, <2>2 DEF Agrees
  <2> QED BY <1>1, <2>1, <2>2
<1>3. Agrees(t, points)
  BY <1>1, <1>2 DEF Agrees
<1> QED BY <1>3 DEF t

LEMMA KeptAgrees ==
    ASSUME NEW m, Valid(m), NEW pts \in SUBSET ({Genesis} \union NewPoints)
    PROVE  Agrees(SubSeq(m, 1, KeptLength(m, pts)), pts)
<1> DEFINE k == KeptLength(m, pts)
           t == SubSeq(m, 1, k)
<1>1. k \in 1..Len(m) /\ \A i \in 1..k : \A q \in pts : Height[q] = i - 1 => m[i] = q
  BY Kept
<1> HIDE DEF k
<1>2. m \in Seq(Blocks) /\ Len(m) \in Nat /\ \A i \in 1..k : Height[m[i]] = i - 1
  BY <1>1 DEF Valid, Numbered
<1>3. Len(t) = k /\ \A i \in 1..k : t[i] = m[i]
  BY <1>1, <1>2
<1> HIDE DEF t
<1>4. Agrees(t, pts)
  BY <1>1, <1>2, <1>3 DEF Agrees
<1> QED BY Zenon, <1>4 DEF t, k

LEMMA Aborted ==
    ASSUME NEW p, NEW b, MainVerdict(p, b) = "aborted"
    PROVE  SpendsTwice(b)
  BY DEF MainVerdict

(* Appending to main beyond the split.                                      *)
LEMMA AppendSplit ==
    ASSUME NEW m \in Seq(Blocks), NEW b \in Blocks, NEW k \in 1..Len(m)
    PROVE  /\ SubSeq(Append(m, b), 1, k) = SubSeq(m, 1, k)
           /\ Elems(SubSeq(Append(m, b), k + 1, Len(m) + 1))
                  = Elems(SubSeq(m, k + 1, Len(m))) \union {b}
<1> DEFINE a == Append(m, b)
           n == Len(m)
<1>1. n \in Nat /\ a \in Seq(Blocks) /\ Len(a) = n + 1 /\ a[n + 1] = b /\ \A i \in 1..n : a[i] = m[i]
  OBVIOUS
<1> HIDE DEF a
<1>2. SubSeq(a, 1, k) = SubSeq(m, 1, k)
  <2>1. /\ SubSeq(a, 1, k) \in Seq(Blocks) /\ Len(SubSeq(a, 1, k)) = k
        /\ \A i \in 1..k : SubSeq(a, 1, k)[i] = a[i]
    BY <1>1
  <2>2. /\ SubSeq(m, 1, k) \in Seq(Blocks) /\ Len(SubSeq(m, 1, k)) = k
        /\ \A i \in 1..k : SubSeq(m, 1, k)[i] = m[i]
    BY <1>1
  <2>3. \A i \in 1..k : a[i] = m[i]
    BY <1>1
  <2> QED BY <2>1, <2>2, <2>3
<1> DEFINE u == SubSeq(a, k + 1, n + 1)
           v == SubSeq(m, k + 1, n)
<1>3. Len(u) = n + 1 - k /\ \A i \in 1..n + 1 - k : u[i] = a[k + i]
  BY <1>1
<1>4. Len(v) = n - k /\ \A i \in 1..n - k : v[i] = m[k + i]
  BY <1>1
<1> HIDE DEF n, u, v
<1>5. k \in 1..n
  BY Zenon DEF n
<1>6. \A i \in 1..n - k : i \in 1..n + 1 - k /\ u[i] = v[i]
  BY <1>1, <1>3, <1>4, <1>5
<1>7. n + 1 - k \in 1..n + 1 - k /\ u[n + 1 - k] = b
  <2>1. k + (n + 1 - k) = n + 1 /\ n + 1 - k \in 1..n + 1 - k
    BY <1>1, <1>5
  <2> QED BY Zenon, <1>1, <1>3, <2>1
<1>8. \A i \in 1..n + 1 - k : i \in 1..n - k \/ i = n + 1 - k
  BY <1>1, <1>5
<1>9. Elems(u) = Elems(v) \union {b}
  BY <1>3, <1>4, <1>6, <1>7, <1>8 DEF Elems
<1> QED BY Zenon, <1>2, <1>9 DEF a, u, v, n

LEMMA RestoreInit == Init => RestoreInv
<1> SUFFICES ASSUME Init PROVE RestoreInv
  OBVIOUS
<1>1. Valid(main)
  BY ChainInit DEF ChainInv
<1>2. points = {Genesis} /\ reorg = Idle /\ batch = Closed
  BY DEF Init
<1>3. Agrees(main, points)
  BY Zenon, <1>1, <1>2, GenesisAgrees
<1> QED BY Zenon, <1>2, <1>3 DEF RestoreInv, Idle, Closed

LEMMA RestoreStep == Calm /\ ChainInv /\ RestoreInv /\ [Next]_vars => RestoreInv'
<1> SUFFICES ASSUME Calm, ChainInv, RestoreInv, [Next]_vars PROVE RestoreInv'
  BY Zenon
<1>0. /\ Valid(main) /\ main \in Seq(Blocks)
      /\ reorg \in ReorgType /\ batch \in BatchType
      /\ batch.state # "closed" => Valid(batch.main)
      /\ points \in SUBSET ({Genesis} \union NewPoints)
      /\ Genesis \notin Elems(reorg.todo) /\ Genesis \notin Elems(reorg.original)
      /\ reorg.mode # "idle" => batch.state # "closed" /\ reorg.split \in 1..Len(main)
  BY Zenon, TypeIs DEF ChainInv
<1>00. /\ reorg.todo \in Seq(Blocks) /\ reorg.original \in Seq(Blocks)
       /\ batch.count \in 0..MaxBatch
  BY Zenon, <1>0 DEF ReorgType, BatchType
<1>01. Idle.mode = "idle" /\ Closed.state = "closed" /\ Closed.residue = {}
  BY Zenon DEF Idle, Closed
<1>02. /\ Agrees(main, points)
       /\ batch.state = "abort" => \E b \in Blocks : SpendsTwice(b)
       /\ batch.state # "abort" => batch.residue = {}
  BY Zenon DEF RestoreInv
<1>1. CASE UNCHANGED vars
  BY Zenon, <1>1 DEF vars, RestoreInv
<1>2. CASE prepare_handle_incoming_blocks
  <2>1. batch'.state = "open" /\ batch'.residue = {} /\ reorg' = reorg /\ main' = main /\ points' = points
    BY <1>2 DEF prepare_handle_incoming_blocks, Closed
  <2>2. reorg.mode = "idle"
    BY Zenon, <1>2, <1>0 DEF prepare_handle_incoming_blocks
  <2> QED BY <1>02, <2>1, <2>2 DEF RestoreInv
<1>3. CASE cleanup_handle_incoming_blocks
  <2>1. batch' = Closed /\ reorg' = reorg /\ reorg.mode = "idle" /\ points' = points
        /\ main' = (IF batch.state = "abort" THEN batch.main ELSE main)
    BY Zenon, <1>3 DEF cleanup_handle_incoming_blocks
  <2>2. Agrees(main', points)
    <3>1. CASE batch.state = "abort"
      <4>1. points \in SUBSET {Genesis}
        BY Zenon, <1>0, <1>02, <3>1 DEF Calm
      <4> QED BY Zenon, <1>0, <2>1, <3>1, <4>1, GenesisAgrees
    <3> QED BY Zenon, <1>02, <2>1, <3>1
  <2> QED BY Zenon, <1>01, <2>1, <2>2 DEF RestoreInv
<1>4. ASSUME NEW b \in Blocks, add_new_block(b) PROVE RestoreInv'
  <2> DEFINE q == pool \union (Elems(Txs[b]) \ Written)
  <2>1. /\ batch.state = "open" /\ batch.count < MaxBatch /\ reorg.mode = "idle"
        /\ b \notin InMain /\ points' = points
        /\ IF Parent[b] = Top THEN handle_block_to_main_chain(q, b)
                              ELSE handle_alternative_block(q, b)
    BY Zenon, <1>4 DEF add_new_block
  <2>2. batch.residue = {}
    BY Zenon, <1>02, <2>1
  <2> HIDE DEF q
  <2>3. CASE Parent[b] = Top
    <3> DEFINE v == MainVerdict(q, b)
    <3>1. /\ main' = (IF v = "added" THEN Append(main, b) ELSE main)
          /\ batch' = BatchAfter(v, b) /\ reorg' = reorg
      BY Zenon, <2>1, <2>3 DEF handle_block_to_main_chain
    <3>2. v = "added" => check_block(b)
      BY Added
    <3>3. v = "aborted" => SpendsTwice(b)
      BY Zenon, Aborted
    <3> HIDE DEF v
    <3>4. Agrees(main', points)
      BY Zenon, <1>0, <1>02, <3>1, <3>2, AppendAgrees
    <3>5. PICK c \in 0..MaxBatch : BatchAfter(v, b) = [BatchAfter(v, b) EXCEPT !.count = c]
      BY Zenon, <1>0, <2>1, BatchAfterCount
    <3>6. /\ v = "added" => batch'.state = "open" /\ batch'.residue = {}
          /\ v \notin {"added", "aborted"} => batch'.state = "stop" /\ batch'.residue = {}
          /\ v = "aborted" => batch'.state = "abort"
      BY <1>0, <2>1, <2>2, <3>1, <3>5, BatchAfterType
    <3>7. /\ batch'.state = "abort" => \E x \in Blocks : SpendsTwice(x)
          /\ batch'.state # "abort" => batch'.residue = {}
      BY <3>3, <3>6
    <3> QED BY Zenon, <2>1, <3>1, <3>4, <3>7 DEF RestoreInv
  <2>4. CASE Parent[b] # Top
    <3>1. handle_alternative_block(q, b)
      BY <2>1, <2>4
    <3>2. batch'.state \in {"open", "stop"} /\ batch'.residue = {}
      <4>1. \/ batch' = [batch EXCEPT !.count = @ + 1]
            \/ batch' = [batch EXCEPT !.count = @ + 1, !.state = "stop"]
        BY ZenonT(40), <3>1, <1>0, <2>1 DEF handle_alternative_block, BatchType
      <4> QED BY Zenon, <4>1, <1>0, <2>1, <2>2 DEF BatchType
    <3>3. CASE StoredAsAlternative(b) /\ BecomesMain(b)
      <4> DEFINE c == Append(build_alt_chain(Parent[b]), b)
                 k == Height[c[1]]
                 m == SubSeq(main, 1, k)
                 t == SubSeq(main, k + 1, Len(main))
      <4>1. k \in 1..Len(main)
        BY Zenon, <2>1, <3>3, SwitchStart
      <4>2. /\ main' = m /\ pool' = q \union TxsOf(Elems(t))
            /\ reorg'.mode = "connect" /\ reorg'.split = k /\ reorg'.original = t
        BY <3>1, <3>3 DEF handle_alternative_block, BeginSwitch
      <4> HIDE DEF c, k
      <4>3. m \o t = main /\ m \in Seq(Blocks) /\ Len(m) = k
        BY Zenon, <1>0, <4>1, CutConcat, CutValid DEF Valid
      <4>4. Agrees(m, points)
        BY Zenon, <1>0, <1>02, <4>1, PrefixAgrees
      <4> HIDE DEF m, t
      <4>5. SubSeq(m, 1, k) = m
        BY <4>3
      <4>6. Returns(SubSeq(m, 1, k), t, pool' \union TxsOf(Elems(SubSeq(m, k + 1, Len(m)))), points)
        BY ZenonT(40), <1>0, <1>02, <4>2, <4>3, <4>5 DEF Returns
      <4> QED BY Zenon, <2>1, <3>2, <4>2, <4>4, <4>6 DEF RestoreInv
    <3>4. CASE ~(StoredAsAlternative(b) /\ BecomesMain(b))
      <4>1. main' = main /\ reorg' = reorg
        BY Zenon, <3>1, <3>4 DEF handle_alternative_block
      <4> QED BY Zenon, <1>02, <2>1, <3>2, <4>1 DEF RestoreInv
    <3> QED BY <3>3, <3>4
  <2> QED BY Zenon, <2>3, <2>4
<1>5. CASE ConnectNext
  <2> DEFINE b == Head(reorg.todo)
             v == MainVerdict(pool, b)
             k == reorg.split
             m == SubSeq(main, 1, k)
             u == SubSeq(main, k + 1, Len(main))
  <2>1. /\ reorg.mode = "connect" /\ reorg.todo # <<>>
        /\ batch' = [BatchAfter(v, b) EXCEPT !.count = batch.count]
        /\ points' = points
    BY <1>5 DEF ConnectNext
  <2>2. b \in Blocks /\ k \in 1..Len(main)
    BY Zenon, <1>0, <1>00, <2>1, HeadTail
  <2>3. batch.state # "abort" /\ batch.residue = {}
        /\ Returns(m, reorg.original, pool \union TxsOf(Elems(u)), points)
    BY Zenon, <2>1 DEF RestoreInv
  <2>4. /\ v = "aborted" => batch'.state = "abort"
        /\ v = "added" => batch'.state = batch.state /\ batch'.residue = {}
        /\ v \notin {"added", "aborted"} => batch'.state = "stop" /\ batch'.residue = {}
    BY <1>0, <1>00, <2>1, <2>2, <2>3, BatchAfterType
  <2>5. CASE v = "added"
    <3>1. /\ main' = Append(main, b) /\ pool' = pool \ Elems(Txs[b])
          /\ reorg' = [reorg EXCEPT !.todo = Tail(@)]
      BY <1>5, <2>5 DEF ConnectNext
    <3>2. Agrees(main', points)
      BY Zenon, <1>0, <1>02, <2>2, <2>5, <3>1, Added, AppendAgrees
    <3>3. reorg'.mode = "connect" /\ reorg'.split = k /\ reorg'.original = reorg.original
      BY <1>0, <2>1, <3>1 DEF ReorgType
    <3> HIDE DEF k
    <3>4. /\ SubSeq(main', 1, k) = m
          /\ Elems(SubSeq(main', k + 1, Len(main'))) = Elems(u) \union {b}
      <4>1. Len(main') = Len(main) + 1
        BY <1>0, <2>2, <3>1
      <4>2. /\ SubSeq(Append(main, b), 1, k) = SubSeq(main, 1, k)
            /\ Elems(SubSeq(Append(main, b), k + 1, Len(main) + 1))
                 = Elems(SubSeq(main, k + 1, Len(main))) \union {b}
        <5> HIDE DEF b
        <5> QED BY <1>0, <2>2, AppendSplit
      <4> QED BY Zenon, <3>1, <4>1, <4>2
    <3> HIDE DEF m, u, b, v
    <3>5. pool \union TxsOf(Elems(u)) \subseteq pool' \union TxsOf(Elems(u) \union {b})
      BY <3>1 DEF TxsOf
    <3>6. Returns(SubSeq(main', 1, k), reorg.original,
                  pool' \union TxsOf(Elems(SubSeq(main', k + 1, Len(main')))), points)
      BY Zenon, <2>3, <3>4, <3>5 DEF Returns
    <3> QED BY ZenonT(60), <2>1, <2>3, <2>4, <2>5, <3>2, <3>3, <3>6 DEF RestoreInv
  <2>6. CASE v # "added"
    <3>1. /\ main' = m /\ pool' = pool \union TxsOf(Elems(u))
          /\ reorg' = [reorg EXCEPT !.mode = "restore", !.todo = reorg.original]
      BY <1>5, <2>6 DEF ConnectNext
    <3>2. reorg'.mode = "restore" /\ reorg'.todo = reorg.original
      BY Zenon, <1>0, <3>1 DEF ReorgType
    <3>3. v = "aborted" => \E x \in Blocks : SpendsTwice(x)
      BY <2>2, Aborted
    <3>4. Agrees(main', points)
      BY Zenon, <1>0, <1>02, <2>2, <3>1, PrefixAgrees
    <3> HIDE DEF m, u, b, v
    <3>5. Returns(main', reorg'.todo, pool', points)
      BY Zenon, <2>3, <3>1, <3>2
    <3> QED BY Zenon, <2>1, <2>4, <2>6, <3>2, <3>3, <3>4, <3>5 DEF RestoreInv
  <2> QED BY Zenon, <2>5, <2>6
<1>6. CASE Connected
  <2>1. reorg'.mode = "push" /\ main' = main /\ points' = points /\ batch' = batch
    BY <1>6, <1>0 DEF Connected, ReorgType
  <2> QED BY <1>02, <2>1 DEF RestoreInv
<1>7. CASE RestoreNext
  <2> DEFINE b == Head(reorg.todo)
             v == MainVerdict(pool, b)
  <2>1. /\ reorg.mode = "restore" /\ reorg.todo # <<>>
        /\ batch' = [BatchAfter(v, b) EXCEPT !.count = batch.count]
        /\ points' = points
        /\ v = "added" => /\ main' = Append(main, b) /\ pool' = pool \ Elems(Txs[b])
                          /\ reorg' = [reorg EXCEPT !.todo = Tail(@)]
        /\ v # "added" => main' = main /\ reorg' = Idle
    BY <1>7 DEF RestoreNext
  <2>2. b \in Blocks
    BY Zenon, <1>0, <1>00, <2>1, HeadTail
  <2>3. /\ v = "added" => batch'.state = batch.state /\ batch'.residue = batch.residue
        /\ batch.state = "abort" => batch'.state = "abort"
    BY <1>0, <1>00, <2>1, <2>2, BatchAfterType
  <2>4. Agrees(main', points)
    BY ZenonT(40), <1>0, <1>02, <2>1, <2>2, Added, AppendAgrees
  <2>5. CASE batch.state = "abort"
    <3>1. reorg'.mode # "connect"
      BY Zenon, <1>0, <1>01, <2>1 DEF ReorgType
    <3> QED BY <1>02, <2>1, <2>3, <2>4, <2>5, <3>1 DEF RestoreInv
  <2>6. CASE batch.state # "abort"
    <3>1. Returns(main, reorg.todo, pool, points) /\ batch.residue = {}
      BY Zenon, <1>02, <2>1, <2>6 DEF RestoreInv
    <3>2. v = "added" /\ Returns(Append(main, b), Tail(reorg.todo), pool \ Elems(Txs[b]), points)
      BY ZenonT(40), <1>0, <1>00, <2>1, <3>1, Returnable
    <3>3. reorg'.mode = "restore" /\ reorg'.todo = Tail(reorg.todo)
      BY Zenon, <1>0, <2>1, <3>2 DEF ReorgType
    <3> QED BY Zenon, <2>1, <2>3, <2>4, <2>6, <3>1, <3>2, <3>3 DEF RestoreInv
  <2> QED BY <2>5, <2>6
<1>8. CASE Restored
  BY Zenon, <1>8, <1>01, <1>02 DEF Restored, RestoreInv
<1>9. CASE PushNext
  <2>1. reorg'.mode = "push" /\ main' = main /\ points' = points /\ batch' = batch
    BY Zenon, <1>9, <1>0 DEF PushNext, ReorgType
  <2> QED BY <1>02, <2>1 DEF RestoreInv
<1>10. CASE Pushed
  BY <1>10, <1>01, <1>02 DEF Pushed, RestoreInv
<1>11. ASSUME NEW n \in 1..Len(main) - 1, pop_blocks(n) PROVE RestoreInv'
  <2> DEFINE k == Len(main) - n
  <2>1. k \in 1..Len(main)
    BY <1>0
  <2>2. main' = SubSeq(main, 1, k) /\ points' = points /\ reorg' = reorg /\ batch' = batch
        /\ reorg.mode = "idle"
    BY Zenon, <1>11, <1>0 DEF pop_blocks
  <2> HIDE DEF k
  <2>3. Agrees(main', points)
    BY Zenon, <1>0, <1>02, <2>1, <2>2, PrefixAgrees
  <2> QED BY ZenonT(40), <1>02, <2>2, <2>3 DEF RestoreInv
<1>12. CASE flush_invalid_blocks
  BY <1>12 DEF flush_invalid_blocks, RestoreInv
<1>13. ASSUME NEW t \in Tx, DropTx(t) PROVE RestoreInv'
  BY ZenonT(40), <1>13, <1>0, <1>02 DEF DropTx, RestoreInv
<1>14. ASSUME NEW F \in SUBSET NewPoints, update_checkpoints(F) PROVE RestoreInv'
  <2> DEFINE pts == points \union load_checkpoints_from_json(F)
  <2>1. pts \in SUBSET ({Genesis} \union NewPoints)
    BY Zenon, <1>0 DEF load_checkpoints_from_json
  <2>2. reorg.mode = "idle" /\ points' = pts /\ main' = SubSeq(main, 1, KeptLength(main, pts))
        /\ reorg' = reorg /\ batch' = batch
    BY Zenon, <1>14 DEF update_checkpoints
  <2> HIDE DEF pts
  <2>3. Agrees(main', points')
    BY Zenon, <1>0, <2>1, <2>2, KeptAgrees
  <2> QED BY ZenonT(40), <1>02, <2>2, <2>3 DEF RestoreInv
<1>15. ASSUME NEW keep \in BOOLEAN, Restart(keep) PROVE RestoreInv'
  <2> DEFINE m == IF batch.state = "closed" THEN main ELSE batch.main
  <2>1. Valid(m)
    BY Zenon, <1>0
  <2>2. main' = SubSeq(m, 1, KeptLength(m, points)) /\ reorg' = Idle /\ batch' = Closed
        /\ points' = points
    BY Zenon, <1>15 DEF Restart
  <2> HIDE DEF m
  <2>3. Agrees(main', points)
    BY <1>0, <2>1, <2>2, KeptAgrees
  <2> QED BY Zenon, <1>01, <2>2, <2>3 DEF RestoreInv
<1> QED
  BY ZenonT(60), <1>1, <1>2, <1>3, <1>4, <1>5, <1>6, <1>7, <1>8, <1>9, <1>10, <1>11, <1>12, <1>13,
     <1>14, <1>15
     DEF Next, SwitchStep

(* A failed switch_to_alternative_blockchain can always be rolled back: the  *)
(* blocks of the original chain are accepted again, so that the "PANIC!" of  *)
(* rollback_blockchain_switching is out of reach, provided that no aborted   *)
(* batch can meet a newly loaded checkpoint.                                 *)
THEOREM RestoreNeverFails == Calm => (Spec => []RestoreSucceeds)
<1> SUFFICES ASSUME Calm PROVE Spec => []RestoreSucceeds
  OBVIOUS
<1>1. ChainInv /\ RestoreInv => RestoreSucceeds
  <2> SUFFICES ASSUME ChainInv, RestoreInv, reorg.mode = "restore", reorg.todo # <<>>,
                      batch.state # "abort"
               PROVE  MainVerdict(pool, Head(reorg.todo)) = "added"
    BY Zenon DEF RestoreSucceeds
  <2>1. /\ Valid(main) /\ reorg.todo \in Seq(Blocks) /\ Genesis \notin Elems(reorg.todo)
    BY Zenon, TypeIs DEF ChainInv, ReorgType
  <2>2. batch.residue = {} /\ Returns(main, reorg.todo, pool, points)
    BY DEF RestoreInv
  <2> QED BY Zenon, <2>1, <2>2, Returnable
<1>2. Calm /\ ChainInv /\ RestoreInv /\ [Next]_vars => RestoreInv'
  BY RestoreStep
<1>3. ChainInv /\ RestoreInv /\ [Next]_vars => ChainInv' /\ RestoreInv'
  BY Zenon, <1>2, ChainStep
<1> QED BY <1>1, <1>3, ChainInit, RestoreInit, PTL DEF Spec

-----------------------------------------------------------------------------
(* What each step does to the fields the invariants speak about.            *)

(* The pool once the transactions of b have joined it.                      *)
With(b) == pool \union (Elems(Txs[b]) \ Written)

(* What a batch will be undone to, and the checkpoints, stay as they are.   *)
InBatch ==
    /\ batch.state # "closed" /\ batch'.state # "closed"
    /\ batch'.main = batch.main /\ batch'.alt = batch.alt /\ batch'.pool = batch.pool
    /\ points' = points

SwitchKept ==
    /\ reorg'.chain = reorg.chain /\ reorg'.split = reorg.split
    /\ reorg'.original = reorg.original /\ reorg'.discard = reorg.discard

Quiet == UNCHANGED <<main, alt, pool, points, reorg, batch>> /\ invalid' \in {invalid, {}}

Opens ==
    /\ batch.state = "closed" /\ reorg.mode = "idle"
    /\ batch'.state = "open" /\ batch'.main = main /\ batch'.alt = alt /\ batch'.pool = pool
    /\ UNCHANGED <<main, alt, invalid, pool, points, reorg>>

Closes ==
    /\ batch.state # "closed" /\ reorg.mode = "idle" /\ batch'.state = "closed"
    /\ IF batch.state = "abort"
       THEN main' = batch.main /\ alt' = batch.alt /\ pool' = batch.pool
       ELSE UNCHANGED <<main, alt, pool>>
    /\ UNCHANGED <<invalid, points, reorg>>

Arrives(b) ==
    /\ b # Genesis /\ b \notin InMain \union alt \union invalid
    /\ batch.state = "open" /\ reorg.mode = "idle" /\ InBatch

Extends(b) ==
    /\ Arrives(b) /\ Parent[b] = Top /\ UNCHANGED <<alt, reorg>>
    /\ IF MainVerdict(With(b), b) = "added"
       THEN main' = Append(main, b) /\ pool' = With(b) \ Elems(Txs[b])
       ELSE main' = main /\ pool' = With(b)
    /\ invalid' = IF MainVerdict(With(b), b) = "invalid" THEN invalid \union {b} ELSE invalid
    /\ batch'.state = "abort" => MainVerdict(With(b), b) = "aborted"

Stores(b) ==
    /\ Arrives(b) /\ StoredAsAlternative(b) /\ ~BecomesMain(b)
    /\ alt' = alt \union {b} /\ pool' = With(b) /\ batch'.state # "abort"
    /\ UNCHANGED <<main, invalid, reorg>>

Ignores(b) ==
    /\ Arrives(b) /\ pool' = With(b) /\ batch'.state # "abort"
    /\ UNCHANGED <<main, alt, invalid, reorg>>

SwitchChain(b) == Append(build_alt_chain(Parent[b]), b)

Switches(b) ==
    /\ Arrives(b) /\ StoredAsAlternative(b) /\ BecomesMain(b) /\ batch'.state # "abort"
    /\ Height[SwitchChain(b)[1]] \in 1..Len(main)
    /\ reorg'.mode = "connect" /\ reorg'.todo = SwitchChain(b) /\ reorg'.chain = SwitchChain(b)
    /\ reorg'.split = Height[SwitchChain(b)[1]] /\ reorg'.discard = (b \in points)
    /\ reorg'.original = SubSeq(main, reorg'.split + 1, Len(main))
    /\ main' = SubSeq(main, 1, reorg'.split)
    /\ pool' = With(b) \union TxsOf(Elems(reorg'.original))
    /\ alt' = alt \union {b} /\ invalid' = invalid

Connects(b) ==
    /\ InBatch /\ reorg.mode = "connect" /\ reorg'.mode = "connect" /\ SwitchKept
    /\ reorg.todo # <<>> /\ b = Head(reorg.todo) /\ reorg'.todo = Tail(reorg.todo)
    /\ MainVerdict(pool, b) = "added"
    /\ main' = Append(main, b) /\ pool' = pool \ Elems(Txs[b])
    /\ batch'.state = batch.state /\ UNCHANGED <<alt, invalid>>

Fails(b) ==
    /\ InBatch /\ reorg.mode = "connect" /\ reorg'.mode = "restore" /\ SwitchKept
    /\ reorg.todo # <<>> /\ b = Head(reorg.todo) /\ reorg'.todo = reorg.original
    /\ MainVerdict(pool, b) # "added"
    /\ main' = SubSeq(main, 1, reorg.split)
    /\ pool' = pool \union TxsOf(Elems(SubSeq(main, reorg.split + 1, Len(main))))
    /\ invalid' = invalid \union Elems(reorg.todo) /\ alt' = alt \ Elems(reorg.todo)
    /\ batch'.state = "abort" => batch.state = "abort" \/ MainVerdict(pool, b) = "aborted"

Finishes ==
    /\ reorg.mode = "connect" /\ reorg.todo = <<>> /\ reorg'.mode = "push" /\ SwitchKept
    /\ reorg'.todo = IF reorg.discard THEN <<>> ELSE reorg.original
    /\ UNCHANGED <<main, alt, invalid, pool, points, batch>>

Restores(b) ==
    /\ InBatch /\ reorg.mode = "restore" /\ reorg'.mode = "restore" /\ SwitchKept
    /\ reorg.todo # <<>> /\ b = Head(reorg.todo) /\ reorg'.todo = Tail(reorg.todo)
    /\ MainVerdict(pool, b) = "added"
    /\ main' = Append(main, b) /\ pool' = pool \ Elems(Txs[b])
    /\ batch'.state = batch.state /\ UNCHANGED <<alt, invalid>>

Panics(b) ==
    /\ InBatch /\ reorg.mode = "restore" /\ reorg'.mode = "idle"
    /\ reorg.todo # <<>> /\ b = Head(reorg.todo) /\ MainVerdict(pool, b) # "added"
    /\ batch.state = "abort" => batch'.state = "abort"
    /\ UNCHANGED <<main, pool, alt>>

Ends ==
    /\ reorg.mode = "restore" /\ reorg.todo = <<>> /\ reorg'.mode = "idle"
    /\ UNCHANGED <<main, alt, invalid, pool, points, batch>>

Pushes(b) ==
    /\ reorg.mode = "push" /\ reorg'.mode = "push" /\ SwitchKept
    /\ reorg.todo # <<>> /\ b = Head(reorg.todo) /\ reorg'.todo = Tail(reorg.todo)
    /\ alt' = IF StoredAsAlternative(b) THEN alt \union {b} ELSE alt
    /\ UNCHANGED <<main, invalid, pool, points, batch>>

Merges ==
    /\ reorg.mode = "push" /\ reorg.todo = <<>> /\ reorg'.mode = "idle"
    /\ alt' = alt \ Elems(reorg.chain)
    /\ UNCHANGED <<main, invalid, pool, points, batch>>

(* pop_blocks and update_checkpoints.                                       *)
Cuts(k) ==
    /\ reorg.mode = "idle" /\ points \subseteq points'
    /\ MayPop \/ k = KeptLength(main, points')
    /\ main' = SubSeq(main, 1, k)
    /\ pool' = pool \union TxsOf(Elems(SubSeq(main, k + 1, Len(main))))
    /\ UNCHANGED <<alt, invalid, reorg, batch>>

Drops(t) == MayDrop /\ pool' = pool \ {t} /\ UNCHANGED <<main, alt, invalid, points, reorg, batch>>

Restarts(k) ==
    LET m == IF batch.state = "closed" THEN main ELSE batch.main
        a == IF batch.state = "closed" THEN alt ELSE batch.alt
        p == IF batch.state = "closed" THEN pool ELSE batch.pool
    IN  /\ k \in 1..Len(m) /\ k = KeptLength(m, points)
        /\ main' = SubSeq(m, 1, k)
        /\ pool' = p \union TxsOf(Elems(SubSeq(m, k + 1, Len(m))))
        /\ alt' \in {a, {}} /\ invalid' = {} /\ points' = points
        /\ reorg'.mode = "idle" /\ batch'.state = "closed"

Event ==
    \/ Quiet \/ Opens \/ Closes
    \/ \E b \in Blocks : Extends(b) \/ Stores(b) \/ Ignores(b) \/ Switches(b)
    \/ \E b \in Blocks : Connects(b) \/ Fails(b) \/ Restores(b) \/ Panics(b) \/ Pushes(b)
    \/ Finishes \/ Ends \/ Merges
    \/ \E k \in 1..Len(main) : Cuts(k)
    \/ \E t \in Tx : Drops(t)
    \/ \E k \in Nat : Restarts(k)

(* Every step is one of these.                                              *)
LEMMA Events == ChainInv /\ [Next]_vars => Event
<1> SUFFICES ASSUME ChainInv, [Next]_vars PROVE Event
  BY Zenon
<1>0. /\ Valid(main) /\ main \in Seq(Blocks)
      /\ reorg \in ReorgType /\ batch \in BatchType
      /\ batch.state # "closed" => Valid(batch.main)
      /\ points \in SUBSET ({Genesis} \union NewPoints)
      /\ Genesis \notin Elems(reorg.todo)
      /\ reorg.mode # "idle" => batch.state # "closed" /\ reorg.split \in 1..Len(main)
  BY Zenon, TypeIs DEF ChainInv
<1>00. reorg.todo \in Seq(Blocks) /\ batch.count \in 0..MaxBatch
  BY Zenon, <1>0 DEF ReorgType, BatchType
<1>01. Idle.mode = "idle" /\ Closed.state = "closed"
  BY Zenon DEF Idle, Closed
<1>1. CASE UNCHANGED vars
  BY Zenon, <1>1 DEF vars, Event, Quiet
<1>2. CASE prepare_handle_incoming_blocks
  <2>1. reorg.mode = "idle"
    BY Zenon, <1>0, <1>2 DEF prepare_handle_incoming_blocks
  <2>2. Opens
    BY Zenon, <1>2, <2>1 DEF prepare_handle_incoming_blocks, Opens, Closed
  <2> QED BY <2>2 DEF Event
<1>3. CASE cleanup_handle_incoming_blocks
  <2>1. Closes
    BY Zenon, <1>3, <1>01 DEF cleanup_handle_incoming_blocks, Closes
  <2> QED BY Zenon, <2>1 DEF Event
<1>4. ASSUME NEW b \in Blocks, add_new_block(b) PROVE Event
  <2>1. /\ batch.state = "open" /\ batch.count < MaxBatch /\ reorg.mode = "idle"
        /\ b \notin InMain \union alt \union invalid /\ points' = points
        /\ IF Parent[b] = Top THEN handle_block_to_main_chain(With(b), b)
                              ELSE handle_alternative_block(With(b), b)
    BY Zenon, <1>4 DEF add_new_block, With
  <2>2. b # Genesis
    <3>1. Genesis \in InMain
      BY <1>0 DEF Valid, InMain, Elems
    <3> QED BY Zenon, <2>1, <3>1
  <2>3. CASE Parent[b] = Top
    <3> DEFINE v == MainVerdict(With(b), b)
    <3>1. /\ IF v = "added" THEN main' = Append(main, b) /\ pool' = With(b) \ Elems(Txs[b])
                            ELSE main' = main /\ pool' = With(b)
          /\ invalid' = IF v = "invalid" THEN invalid \union {b} ELSE invalid
          /\ batch' = BatchAfter(v, b) /\ alt' = alt /\ reorg' = reorg
      <4>1. handle_block_to_main_chain(With(b), b)
        BY <2>1, <2>3
      <4> QED BY Zenon, <4>1 DEF handle_block_to_main_chain
    <3>2. PICK c \in 0..MaxBatch : BatchAfter(v, b) = [BatchAfter(v, b) EXCEPT !.count = c]
      <4> HIDE DEF v
      <4> QED BY Zenon, <1>0, <2>1, BatchAfterCount
    <3>3. /\ batch'.state # "closed" /\ batch'.main = batch.main /\ batch'.alt = batch.alt
          /\ batch'.pool = batch.pool
          /\ batch'.state = "abort" => v = "aborted"
      <4> HIDE DEF v
      <4> QED BY <1>0, <2>1, <3>1, <3>2, BatchAfterType
    <3>4. Extends(b)
      BY Zenon, <2>1, <2>2, <2>3, <3>1, <3>3 DEF Extends, Arrives, InBatch
    <3> QED BY <3>4 DEF Event
  <2>4. CASE Parent[b] # Top
    <3>1. handle_alternative_block(With(b), b)
      BY <2>1, <2>4
    <3>2. /\ batch'.state \in {"open", "stop"} /\ batch'.main = batch.main /\ batch'.alt = batch.alt
          /\ batch'.pool = batch.pool
      <4>1. \/ batch' = [batch EXCEPT !.count = @ + 1]
            \/ batch' = [batch EXCEPT !.count = @ + 1, !.state = "stop"]
        BY ZenonT(40), <3>1, <1>0, <2>1 DEF handle_alternative_block, BatchType
      <4> QED BY Zenon, <4>1, <1>0, <2>1 DEF BatchType
    <3>3. Arrives(b)
      BY Zenon, <2>1, <2>2, <3>2 DEF Arrives, InBatch
    <3>4. CASE StoredAsAlternative(b) /\ BecomesMain(b)
      <4> DEFINE c == SwitchChain(b)
                 k == Height[c[1]]
                 t == SubSeq(main, k + 1, Len(main))
      <4>1. k \in 1..Len(main)
        <5>1. b \notin InMain /\ StoredAsAlternative(b)
          BY <2>1, <3>4
        <5> QED BY Zenon, <5>1, SwitchStart DEF SwitchChain
      <4>2. /\ main' = SubSeq(main, 1, k) /\ pool' = With(b) \union TxsOf(Elems(t))
            /\ reorg' = [mode |-> "connect", todo |-> c, chain |-> c, split |-> k,
                         original |-> t, discard |-> b \in points]
            /\ alt' = alt \union {b} /\ invalid' = invalid
        BY <3>1, <3>4 DEF handle_alternative_block, BeginSwitch, SwitchChain
      <4>3. /\ reorg'.mode = "connect" /\ reorg'.todo = c /\ reorg'.chain = c /\ reorg'.split = k
            /\ reorg'.original = t /\ reorg'.discard = (b \in points)
        <5> HIDE DEF c, k, t
        <5> QED BY <4>2
      <4>4. Switches(b)
        <5> HIDE DEF c
        <5> QED BY Zenon, <3>2, <3>3, <3>4, <4>1, <4>2, <4>3 DEF Switches, c
      <4> QED BY <4>4 DEF Event
    <3>5. CASE StoredAsAlternative(b) /\ ~BecomesMain(b)
      <4>1. Stores(b)
        BY Zenon, <3>1, <3>2, <3>3, <3>5 DEF handle_alternative_block, Stores
      <4> QED BY <4>1 DEF Event
    <3>6. CASE ~StoredAsAlternative(b)
      <4>1. Ignores(b)
        BY Zenon, <3>1, <3>2, <3>3, <3>6 DEF handle_alternative_block, Ignores
      <4> QED BY <4>1 DEF Event
    <3> QED BY <3>4, <3>5, <3>6
  <2> QED BY <2>3, <2>4
<1>5. ASSUME NEW b, b = Head(reorg.todo), reorg.todo # <<>>, reorg.mode # "idle",
             batch' = [BatchAfter(MainVerdict(pool, b), b) EXCEPT !.count = batch.count]
      PROVE  /\ b \in Blocks /\ batch.state # "closed" /\ batch'.state # "closed"
             /\ batch'.main = batch.main /\ batch'.alt = batch.alt /\ batch'.pool = batch.pool
             /\ MainVerdict(pool, b) = "added" => batch'.state = batch.state
             /\ batch'.state = "abort" => batch.state = "abort" \/ MainVerdict(pool, b) = "aborted"
             /\ batch.state = "abort" => batch'.state = "abort"
  <2> DEFINE v == MainVerdict(pool, b)
  <2>1. b \in Blocks /\ batch.state # "closed"
    BY Zenon, <1>0, <1>00, <1>5, HeadTail
  <2>2. batch' = [BatchAfter(v, b) EXCEPT !.count = batch.count]
    BY <1>5
  <2> HIDE DEF v
  <2>3. /\ batch'.state # "closed"
        /\ batch'.main = batch.main /\ batch'.alt = batch.alt /\ batch'.pool = batch.pool
        /\ v = "aborted" => batch'.state = "abort"
        /\ v = "added" => batch'.state = batch.state
        /\ v \notin {"added", "aborted"} => batch'.state = (IF batch.state = "abort" THEN "abort" ELSE "stop")
    BY <1>0, <1>00, <2>1, <2>2, BatchAfterType
  <2> QED BY <2>1, <2>3 DEF v
<1>6. CASE ConnectNext
  <2> DEFINE b == Head(reorg.todo)
             v == MainVerdict(pool, b)
  <2>1. /\ reorg.mode = "connect" /\ reorg.todo # <<>> /\ points' = points
        /\ batch' = [BatchAfter(v, b) EXCEPT !.count = batch.count]
    BY Zenon, <1>6 DEF ConnectNext
  <2>2. /\ b \in Blocks /\ InBatch
        /\ v = "added" => batch'.state = batch.state
        /\ batch'.state = "abort" => batch.state = "abort" \/ v = "aborted"
    BY Zenon, <1>5, <2>1 DEF InBatch
  <2>3. CASE v = "added"
    <3>1. /\ main' = Append(main, b) /\ pool' = pool \ Elems(Txs[b])
          /\ reorg' = [reorg EXCEPT !.todo = Tail(@)] /\ alt' = alt /\ invalid' = invalid
      BY <1>6, <2>3 DEF ConnectNext
    <3>2. reorg'.mode = "connect" /\ reorg'.todo = Tail(reorg.todo) /\ SwitchKept
      BY Zenon, <1>0, <2>1, <3>1 DEF ReorgType, SwitchKept
    <3>3. Connects(b)
      BY Zenon, <2>1, <2>2, <2>3, <3>1, <3>2 DEF Connects
    <3> QED BY Zenon, <2>2, <3>3 DEF Event
  <2>4. CASE v # "added"
    <3>1. /\ main' = SubSeq(main, 1, reorg.split)
          /\ pool' = pool \union TxsOf(Elems(SubSeq(main, reorg.split + 1, Len(main))))
          /\ invalid' = invalid \union Elems(reorg.todo) /\ alt' = alt \ Elems(reorg.todo)
          /\ reorg' = [reorg EXCEPT !.mode = "restore", !.todo = reorg.original]
      BY Zenon, <1>6, <2>4 DEF ConnectNext
    <3>2. reorg'.mode = "restore" /\ reorg'.todo = reorg.original /\ SwitchKept
      BY Zenon, <1>0, <2>1, <3>1 DEF ReorgType, SwitchKept
    <3>3. Fails(b)
      BY Zenon, <2>1, <2>2, <2>4, <3>1, <3>2 DEF Fails
    <3> QED BY Zenon, <2>2, <3>3 DEF Event
  <2> QED BY <2>3, <2>4
<1>7. CASE Connected
  <2>1. /\ reorg.mode = "connect" /\ reorg.todo = <<>>
        /\ reorg' = [reorg EXCEPT !.mode = "push", !.todo = IF reorg.discard THEN <<>> ELSE reorg.original]
        /\ UNCHANGED <<main, alt, invalid, pool, points, batch>>
    BY <1>7 DEF Connected
  <2>2. /\ reorg'.mode = "push" /\ reorg'.todo = (IF reorg.discard THEN <<>> ELSE reorg.original) /\ SwitchKept
    BY Zenon, <1>0, <2>1 DEF ReorgType, SwitchKept
  <2>3. Finishes
    BY Zenon, <2>1, <2>2 DEF Finishes
  <2> QED BY <2>3 DEF Event
<1>8. CASE RestoreNext
  <2> DEFINE b == Head(reorg.todo)
             v == MainVerdict(pool, b)
  <2>1. /\ reorg.mode = "restore" /\ reorg.todo # <<>> /\ points' = points /\ alt' = alt
        /\ batch' = [BatchAfter(v, b) EXCEPT !.count = batch.count]
        /\ invalid' = (IF v = "invalid" THEN invalid \union {b} ELSE invalid)
    BY Zenon, <1>8 DEF RestoreNext
  <2>2. /\ b \in Blocks /\ InBatch
        /\ v = "added" => batch'.state = batch.state
        /\ batch.state = "abort" => batch'.state = "abort"
    BY Zenon, <1>5, <2>1 DEF InBatch
  <2>3. CASE v = "added"
    <3>1. /\ main' = Append(main, b) /\ pool' = pool \ Elems(Txs[b])
          /\ reorg' = [reorg EXCEPT !.todo = Tail(@)]
      BY <1>8, <2>3 DEF RestoreNext
    <3>2. reorg'.mode = "restore" /\ reorg'.todo = Tail(reorg.todo) /\ SwitchKept
      BY Zenon, <1>0, <2>1, <3>1 DEF ReorgType, SwitchKept
    <3>3. Restores(b)
      BY Zenon, <2>1, <2>2, <2>3, <3>1, <3>2 DEF Restores
    <3> QED BY Zenon, <2>2, <3>3 DEF Event
  <2>4. CASE v # "added"
    <3>1. reorg' = Idle /\ main' = main /\ pool' = pool
      BY <1>8, <2>4 DEF RestoreNext
    <3>2. Panics(b)
      BY Zenon, <1>01, <2>1, <2>2, <2>4, <3>1 DEF Panics
    <3> QED BY Zenon, <2>2, <3>2 DEF Event
  <2> QED BY <2>3, <2>4
<1>9. CASE Restored
  <2>1. Ends
    BY Zenon, <1>01, <1>9 DEF Restored, Ends
  <2> QED BY Zenon, <2>1 DEF Event
<1>10. CASE PushNext
  <2> DEFINE b == Head(reorg.todo)
  <2>1. /\ reorg.mode = "push" /\ reorg.todo # <<>>
        /\ alt' = (IF StoredAsAlternative(b) THEN alt \union {b} ELSE alt)
        /\ reorg' = [reorg EXCEPT !.todo = Tail(@)]
        /\ UNCHANGED <<main, invalid, pool, points, batch>>
    BY <1>10 DEF PushNext
  <2>2. reorg'.mode = "push" /\ reorg'.todo = Tail(reorg.todo) /\ SwitchKept
    BY Zenon, <1>0, <2>1 DEF ReorgType, SwitchKept
  <2>3. b \in Blocks
    BY Zenon, <1>0, <1>00, <2>1, HeadTail
  <2>4. Pushes(b)
    BY Zenon, <2>1, <2>2 DEF Pushes
  <2> QED BY <2>3, <2>4 DEF Event
<1>11. CASE Pushed
  <2>1. Merges
    BY Zenon, <1>01, <1>11 DEF Pushed, Merges
  <2> QED BY Zenon, <2>1 DEF Event
<1>12. ASSUME NEW n \in 1..Len(main) - 1, pop_blocks(n) PROVE Event
  <2> DEFINE k == Len(main) - n
  <2>1. k \in 1..Len(main)
    BY <1>0
  <2>2. reorg.mode = "idle"
    BY Zenon, <1>0, <1>12 DEF pop_blocks
  <2>3. Cuts(k)
    BY Zenon, <1>12, <2>2 DEF pop_blocks, Cuts
  <2> QED BY Zenon, <2>1, <2>3 DEF Event
<1>13. CASE flush_invalid_blocks
  BY Zenon, <1>13 DEF flush_invalid_blocks, Event, Quiet
<1>14. ASSUME NEW t \in Tx, DropTx(t) PROVE Event
  <2>1. Drops(t)
    BY Zenon, <1>14 DEF DropTx, Drops
  <2> QED BY Zenon, <2>1 DEF Event
<1>15. ASSUME NEW F \in SUBSET NewPoints, update_checkpoints(F) PROVE Event
  <2> DEFINE pts == points \union load_checkpoints_from_json(F)
             k == KeptLength(main, pts)
  <2>1. pts \in SUBSET ({Genesis} \union NewPoints)
    BY Zenon, <1>0 DEF load_checkpoints_from_json
  <2>2. k \in 1..Len(main)
    BY Zenon, <1>0, <2>1, Kept
  <2>3. /\ reorg.mode = "idle" /\ points' = pts /\ main' = SubSeq(main, 1, k)
        /\ pool' = pool \union TxsOf(Elems(SubSeq(main, k + 1, Len(main))))
        /\ UNCHANGED <<alt, invalid, reorg, batch>>
    BY Zenon, <1>15 DEF update_checkpoints
  <2>4. points \subseteq pts
    BY Zenon
  <2> HIDE DEF pts
  <2>5. Cuts(k)
    BY Zenon, <2>3, <2>4 DEF Cuts
  <2> QED BY Zenon, <2>2, <2>5 DEF Event
<1>16. ASSUME NEW keep \in BOOLEAN, Restart(keep) PROVE Event
  <2> DEFINE m == IF batch.state = "closed" THEN main ELSE batch.main
             a == IF batch.state = "closed" THEN alt ELSE batch.alt
             p == IF batch.state = "closed" THEN pool ELSE batch.pool
             k == KeptLength(m, points)
  <2>1. Valid(m)
    BY Zenon, <1>0
  <2>2. /\ main' = SubSeq(m, 1, k) /\ pool' = p \union TxsOf(Elems(SubSeq(m, k + 1, Len(m))))
        /\ alt' = (IF keep THEN a ELSE {}) /\ invalid' = {} /\ reorg' = Idle /\ batch' = Closed
        /\ points' = points
    BY Zenon, <1>16 DEF Restart
  <2>3. k \in 1..Len(m)
    <3> HIDE DEF m
    <3> QED BY Zenon, <1>0, <2>1, Kept
  <2>4. k \in Nat
    <3> HIDE DEF m, k
    <3> QED BY <2>1, <2>3 DEF Valid
  <2>5. alt' \in {a, {}}
    <3> HIDE DEF a, m, p, k
    <3> QED BY <2>2
  <2>6. Restarts(k)
    BY Zenon, <1>01, <2>2, <2>3, <2>5 DEF Restarts
  <2> HIDE DEF k
  <2> QED BY Zenon, <2>4, <2>6 DEF Event
<1> QED
  BY <1>1, <1>2, <1>3, <1>4, <1>6, <1>7, <1>8, <1>9, <1>10, <1>11, <1>12, <1>13, <1>14, <1>15, <1>16
  DEF Next, SwitchStep

-----------------------------------------------------------------------------
(* Work grows along a chain.                                                *)
LEMMA WorkRises ==
    ASSUME NEW s, Valid(s), NEW i \in 1..Len(s)
    PROVE  Work[s[i]] <= Work[s[Len(s)]]
<1>0. s \in Seq(Blocks) /\ Linked(s)
  BY DEF Valid
<1>00. Len(s) \in Nat /\ \A j \in 1..Len(s) : s[j] \in Blocks
  BY <1>0
<1>1. Len(s) \in Nat /\ \A j \in 1..Len(s) : s[j] \in Blocks /\ Work[s[j]] \in Nat
  <2>1. \A x \in Blocks : Work[x] \in Nat
    BY Zenon, TreeAssumption
  <2> QED BY Zenon, <1>00, <2>1
<1> DEFINE D == {d \in 0..Len(s) - 1 : Work[s[Len(s) - d]] > Work[s[Len(s)]]}
<1>2. D = {}
  <2>1. SUFFICES ASSUME D # {} PROVE FALSE
    OBVIOUS
  <2>2. D \in SUBSET Nat
    OBVIOUS
  <2>3. PICK d \in D : \A e \in D : d <= e
    <3> HIDE DEF D
    <3> QED BY Zenon, <2>1, <2>2, LeastNat
  <2>4. d \in 1..Len(s) - 1 /\ Work[s[Len(s) - d]] > Work[s[Len(s)]]
    BY <1>1
  <2> DEFINE j == Len(s) - (d - 1)
  <2>5. j \in 2..Len(s) /\ j - 1 = Len(s) - d /\ d - 1 \in 0..Len(s) - 1
    BY <1>1, <2>4
  <2>6. s[j] \in Blocks \ {Genesis} /\ Parent[s[j]] = s[j - 1]
    BY <1>0, <1>1, <2>5 DEF Linked
  <2>7. Work[s[j]] > Work[s[Len(s) - d]]
    BY Zenon, <2>5, <2>6, TreeAssumption
  <2>8. Work[s[j]] > Work[s[Len(s)]]
    <3>1. Work[s[j]] \in Nat /\ Work[s[Len(s) - d]] \in Nat /\ Work[s[Len(s)]] \in Nat
      <4>1. j \in 1..Len(s) /\ Len(s) - d \in 1..Len(s) /\ Len(s) \in 1..Len(s)
        BY <1>1, <2>4
      <4> HIDE DEF j
      <4> QED BY Zenon, <1>1, <4>1
    <3> QED BY <2>4, <2>7, <3>1
  <2>9. d - 1 \in D
    BY Zenon, <2>5, <2>8
  <2>10. d <= d - 1
    <3> HIDE DEF D
    <3> QED BY Zenon, <2>3, <2>9
  <2> QED BY <1>1, <2>4, <2>10
<1>3. Len(s) - i \in 0..Len(s) - 1 /\ Len(s) - (Len(s) - i) = i
  BY <1>1
<1>4. ~(Work[s[i]] > Work[s[Len(s)]])
  BY Zenon, <1>2, <1>3
<1> QED BY <1>1, <1>4

LEMMA ElemsAppend ==
    ASSUME NEW S, NEW s \in Seq(S), NEW b \in S
    PROVE  Elems(Append(s, b)) = Elems(s) \union {b}
<1>1. /\ Len(s) \in Nat /\ Len(Append(s, b)) = Len(s) + 1
      /\ \A i \in 1..Len(s) : Append(s, b)[i] = s[i]
      /\ Append(s, b)[Len(s) + 1] = b
  OBVIOUS
<1> QED BY <1>1 DEF Elems

LEMMA ElemsPrefix ==
    ASSUME NEW S, NEW s \in Seq(S), NEW k \in 0..Len(s)
    PROVE  /\ SubSeq(s, 1, k) \in Seq(S) /\ Len(SubSeq(s, 1, k)) = k
           /\ \A i \in 1..k : SubSeq(s, 1, k)[i] = s[i]
           /\ Elems(SubSeq(s, 1, k)) = {s[i] : i \in 1..k}
           /\ Elems(SubSeq(s, 1, k)) \subseteq Elems(s)
<1>1. /\ SubSeq(s, 1, k) \in Seq(S) /\ Len(SubSeq(s, 1, k)) = k
      /\ \A i \in 1..k : SubSeq(s, 1, k)[i] = s[i]
  OBVIOUS
<1>2. 1..k \subseteq 1..Len(s)
  OBVIOUS
<1> DEFINE t == SubSeq(s, 1, k)
<1> HIDE DEF t
<1>3. Elems(t) = {s[i] : i \in 1..k}
  BY Zenon, <1>1 DEF Elems, t
<1>4. Elems(t) \subseteq Elems(s)
  BY Zenon, <1>2, <1>3 DEF Elems
<1> QED BY Zenon, <1>1, <1>3, <1>4 DEF t

LEMMA ElemsSuffix ==
    ASSUME NEW S, NEW s \in Seq(S), NEW k \in 0..Len(s)
    PROVE  /\ SubSeq(s, k + 1, Len(s)) \in Seq(S) /\ Len(SubSeq(s, k + 1, Len(s))) = Len(s) - k
           /\ \A i \in 1..Len(s) - k : SubSeq(s, k + 1, Len(s))[i] = s[k + i]
           /\ Elems(SubSeq(s, k + 1, Len(s))) = {s[i] : i \in k + 1..Len(s)}
<1>1. /\ SubSeq(s, k + 1, Len(s)) \in Seq(S) /\ Len(SubSeq(s, k + 1, Len(s))) = Len(s) - k
      /\ \A i \in 1..Len(s) - k : SubSeq(s, k + 1, Len(s))[i] = s[k + i]
  OBVIOUS
<1> DEFINE t == SubSeq(s, k + 1, Len(s))
<1>0. /\ Len(t) = Len(s) - k /\ \A i \in 1..Len(s) - k : t[i] = s[k + i]
  BY Zenon, <1>1
<1> HIDE DEF t
<1>3. ASSUME NEW i \in 1..Len(t) PROVE t[i] \in {s[j] : j \in k + 1..Len(s)}
  <2>1. k + i \in k + 1..Len(s)
    BY <1>0
  <2> QED BY Zenon, <1>0, <2>1
<1>4. ASSUME NEW j \in k + 1..Len(s) PROVE s[j] \in Elems(t)
  <2>1. j - k \in 1..Len(t) /\ k + (j - k) = j
    BY <1>0
  <2> QED BY Zenon, <1>0, <2>1 DEF Elems
<1>5. Elems(t) = {s[j] : j \in k + 1..Len(s)}
  BY Zenon, <1>3, <1>4 DEF Elems
<1> QED BY Zenon, <1>1, <1>5 DEF t

LEMMA ElemsTail ==
    ASSUME NEW S, NEW s \in Seq(S), s # <<>>
    PROVE  /\ Head(s) \in Elems(s) /\ Elems(Tail(s)) \subseteq Elems(s) /\ Tail(s) \in Seq(S)
           /\ Elems(s) = {Head(s)} \union Elems(Tail(s))
<1>1. Len(s) \in Nat \ {0} /\ Head(s) = s[1]
  OBVIOUS
<1>2. /\ Tail(s) \in Seq(S) /\ Len(Tail(s)) = Len(s) - 1
      /\ \A i \in 1..Len(s) - 1 : Tail(s)[i] = s[i + 1]
  BY <1>1
<1> DEFINE t == Tail(s)
<1>3. Len(t) = Len(s) - 1 /\ \A i \in 1..Len(s) - 1 : t[i] = s[i + 1]
  BY <1>2
<1> HIDE DEF t
<1>4. ASSUME NEW i \in 1..Len(t) PROVE t[i] \in Elems(s)
  <2>1. i + 1 \in 1..Len(s) /\ t[i] = s[i + 1]
    BY <1>1, <1>3
  <2> QED BY Zenon, <2>1 DEF Elems
<1>5. ASSUME NEW i \in 1..Len(s) PROVE s[i] \in {Head(s)} \union Elems(t)
  <2>1. CASE i = 1
    BY Zenon, <1>1, <2>1
  <2>2. CASE i # 1
    <3>1. i - 1 \in 1..Len(t) /\ t[i - 1] = s[(i - 1) + 1]
      BY <1>1, <1>3, <2>2
    <3>2. (i - 1) + 1 = i
      OBVIOUS
    <3> QED BY Zenon, <3>1, <3>2 DEF Elems
  <2> QED BY Zenon, <2>1, <2>2
<1>6. Head(s) \in Elems(s)
  BY <1>1 DEF Elems
<1>7. Elems(t) \subseteq Elems(s)
  BY Zenon, <1>4 DEF Elems
<1>8. Elems(s) \subseteq {Head(s)} \union Elems(t)
  BY <1>5 DEF Elems
<1> QED BY Zenon, <1>2, <1>6, <1>7, <1>8 DEF t

(* Both parts of a chain that is cut.                                       *)
LEMMA CutElems ==
    ASSUME NEW m \in Seq(Blocks), NEW k \in 1..Len(m)
    PROVE  /\ Elems(SubSeq(m, 1, k)) = {m[i] : i \in 1..k}
           /\ Elems(SubSeq(m, k + 1, Len(m))) = {m[i] : i \in k + 1..Len(m)}
           /\ Elems(SubSeq(m, 1, k)) \subseteq Elems(m)
           /\ Elems(SubSeq(m, k + 1, Len(m))) \subseteq Elems(m)
           /\ Elems(m) = Elems(SubSeq(m, 1, k)) \union Elems(SubSeq(m, k + 1, Len(m)))
<1>1. k \in 0..Len(m) /\ 1..Len(m) = (1..k) \union (k + 1..Len(m))
  OBVIOUS
<1>2. Elems(SubSeq(m, 1, k)) = {m[i] : i \in 1..k}
  BY <1>1, ElemsPrefix
<1>3. Elems(SubSeq(m, k + 1, Len(m))) = {m[i] : i \in k + 1..Len(m)}
  BY Zenon, <1>1, ElemsSuffix
<1>4. Elems(m) = {m[i] : i \in 1..k} \union {m[i] : i \in k + 1..Len(m)}
  BY Zenon, <1>1 DEF Elems
<1> QED BY Zenon, <1>2, <1>3, <1>4

-----------------------------------------------------------------------------
(* Chains of a switch, ancestors and transactions.                          *)

LastOf(s) == s[Len(s)]

LEMMA SwitchChainIs ==
    ASSUME NEW b \in Blocks, Parent[b] \in Blocks, alt \subseteq Blocks, Genesis \notin alt
    PROVE  /\ SwitchChain(b) \in Seq(Blocks) /\ SwitchChain(b) # <<>>
           /\ Elems(SwitchChain(b)) \subseteq alt \union {b}
           /\ LastOf(SwitchChain(b)) = b
<1>1. build_alt_chain(Parent[b]) \in Seq(alt)
  BY Zenon, AltChainIs
<1>2. build_alt_chain(Parent[b]) \in Seq(alt \union {b})
  BY <1>1
<1>3. /\ SwitchChain(b) \in Seq(alt \union {b})
      /\ Len(SwitchChain(b)) = Len(build_alt_chain(Parent[b])) + 1
      /\ SwitchChain(b)[Len(SwitchChain(b))] = b
  BY <1>2 DEF SwitchChain
<1>4. Len(build_alt_chain(Parent[b])) \in Nat
  BY <1>1
<1>5. SwitchChain(b) # <<>>
  BY <1>3, <1>4
<1>6. SwitchChain(b) \in Seq(Blocks)
  BY <1>3
<1> QED BY <1>3, <1>5, <1>6, ElemsOf DEF LastOf

(* The ancestors of a block are one per height, each the parent of the next.*)
LEMMA LineIs ==
    ASSUME NEW b \in Blocks
    PROVE  /\ b \in Line[b]
           /\ \A a \in Line[b] : a # Genesis => Parent[a] \in Line[b]
           /\ \A a, c \in Line[b] : Height[a] = Height[c] => a = c
<1> DEFINE Has(x) == /\ x \in Line[x]
                     /\ \A a \in Line[x] : a # Genesis => Parent[a] \in Line[x]
                     /\ \A a, c \in Line[x] : Height[a] = Height[c] => a = c
           Bad == {x \in Blocks : ~Has(x)}
           H == {Height[x] : x \in Bad}
<1>1. SUFFICES ASSUME Bad # {} PROVE FALSE
  BY Zenon
<1>0. Bad \subseteq Blocks /\ \A x \in Blocks : x \notin Bad => Has(x)
  BY Zenon
<1>2. H \subseteq Nat /\ H # {}
  <2> HIDE DEF Bad
  <2> QED BY <1>1, <1>0, TreeAssumption
<1>3. PICK n \in H : \A m \in H : n <= m
  <2> HIDE DEF H
  <2> QED BY <1>2, LeastNat
<1>4. PICK x \in Bad : Height[x] = n
  BY Zenon
<1>5. CASE x = Genesis
  <2>1. Line[x] = {x}
    BY Zenon, <1>5, TreeAssumption
  <2> QED BY Zenon, <1>4, <1>5, <2>1
<1>6. CASE x # Genesis
  <2>1. Parent[x] \in Blocks /\ Height[x] = Height[Parent[x]] + 1
    BY Zenon, <1>6, TreeAssumption
  <2>2. Parent[x] \notin Bad
    <3>1. Height[x] \in Nat /\ Height[Parent[x]] \in Nat
      BY Zenon, <1>0, <2>1, TreeAssumption
    <3>2. Parent[x] \in Bad => n <= Height[Parent[x]]
      BY <1>3
    <3> HIDE DEF Bad
    <3> QED BY <2>1, <3>1, <3>2, <1>4
  <2>3. Has(Parent[x])
    BY Zenon, <2>1, <2>2
  <2>4. Line[x] = {x} \union Line[Parent[x]]
    BY Zenon, <1>6, TreeAssumption
  <2>5. \A a \in Line[Parent[x]] : Height[a] # Height[x]
    <3>1. Line[Parent[x]] \subseteq Blocks
      BY <2>1, TreeAssumption
    <3>2. \A a \in Line[Parent[x]] : Height[a] \in Nat /\ Height[a] <= Height[Parent[x]]
      BY Zenon, <2>1, <3>1, Ancestors, TreeAssumption
    <3>3. Height[Parent[x]] \in Nat
      BY Zenon, <2>1, TreeAssumption
    <3> QED BY <2>1, <3>2, <3>3
  <2>6. x \in Line[x] /\ \A a \in Line[x] : a # Genesis => Parent[a] \in Line[x]
    BY Zenon, <2>3, <2>4
  <2>7. \A a, c \in Line[x] : Height[a] = Height[c] => a = c
    BY Zenon, <2>3, <2>4, <2>5
  <2> QED BY Zenon, <2>6, <2>7
<1> QED BY Zenon, <1>5, <1>6

(* Along a linked chain, what comes before is an ancestor.                  *)
LEMMA LinkedLine ==
    ASSUME NEW s \in Seq(Blocks), Linked(s), NEW i \in 1..Len(s), NEW j \in i..Len(s)
    PROVE  s[i] \in Line[s[j]]
<1> DEFINE B == {k \in i..Len(s) : s[i] \notin Line[s[k]]}
<1>1. Len(s) \in Nat /\ \A k \in 1..Len(s) : s[k] \in Blocks
  OBVIOUS
<1>2. B = {}
  <2>1. SUFFICES ASSUME B # {} PROVE FALSE
    BY Zenon
  <2>2. B \in SUBSET Nat
    BY <1>1
  <2>3. PICK k \in B : \A m \in B : k <= m
    <3> HIDE DEF B
    <3> QED BY Zenon, <2>1, <2>2, LeastNat
  <2>4. k \in i..Len(s) /\ s[i] \notin Line[s[k]]
    BY Zenon
  <2>5. k # i
    BY Zenon, <1>1, <2>4, LineIs
  <2>6. k \in 2..Len(s) /\ k - 1 \in i..Len(s) /\ k \in 1..Len(s)
    BY <1>1, <2>4, <2>5
  <2>7. s[k] \in Blocks \ {Genesis} /\ Parent[s[k]] = s[k - 1]
    BY <1>1, <2>6 DEF Linked
  <2>8. Line[s[k]] = {s[k]} \union Line[s[k - 1]]
    BY Zenon, <2>7, TreeAssumption
  <2>9. k - 1 \in B
    BY Zenon, <2>4, <2>6, <2>8
  <2>10. k <= k - 1
    <3> HIDE DEF B
    <3> QED BY Zenon, <2>3, <2>9
  <2> QED BY <2>6, <2>10
<1> QED BY Zenon, <1>2

LEMMA TxsOfUnion == ASSUME NEW S, NEW T PROVE TxsOf(S \union T) = TxsOf(S) \union TxsOf(T)
  BY DEF TxsOf

LEMMA TxsOfOne == ASSUME NEW b PROVE TxsOf({b}) = Elems(Txs[b])
  BY Zenon DEF TxsOf

LEMMA InvalidHeader ==
    ASSUME NEW p, NEW b, MainVerdict(p, b) = "invalid"
    PROVE  b \notin BadHeader
  BY DEF MainVerdict

=============================================================================
