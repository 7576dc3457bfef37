----------------------- MODULE BlockchainSwitchProofs -----------------------
(***************************************************************************)
(* More proofs about Blockchain, for every block tree: what a switch does  *)
(* to the alternative blocks, to the blocks marked as invalid and to the   *)
(* work of the main chain.                                                 *)
(*                                                                         *)
(* Every step is one of the kinds that Event lists, by its effect on the   *)
(* fields that the invariants speak about; each invariant is shown to be   *)
(* preserved by each kind of step.                                         *)
(***************************************************************************)
EXTENDS BlockchainProofs

(* The provers of a leaf that names none, with their time limits.           *)
USE SMTT(30), ZenonT(30)

-----------------------------------------------------------------------------
(* The main chain and the alternative blocks.                               *)

(* Outside a switch, and while one is undone, no block of the main chain is *)
(* an alternative one; nor in what a batch would be undone to.              *)
Disjoint ==
    /\ reorg.mode \in {"idle", "restore"} => InMain \intersect alt = {}
    /\ reorg.mode = "restore" => Elems(reorg.todo) \intersect alt = {}
    /\ batch.state # "closed" => Elems(batch.main) \intersect batch.alt = {}

(* What the main chain has above the split comes from the alternative       *)
(* chain and has passed the checkpoints.                                    *)
Replaced ==
    /\ \A i \in reorg.split + 1..Len(main) : main[i] \in Elems(reorg.chain) /\ check_block(main[i])
    /\ Elems(reorg.original) \intersect Elems(reorg.chain) = {}
    /\ \A x \in Elems(reorg.original) : Height[x] >= reorg.split

Connecting ==
    reorg.mode = "connect" =>
        /\ \A i \in 1..reorg.split : main[i] \notin alt
        /\ Elems(reorg.chain) \subseteq alt
        /\ Elems(reorg.todo) \subseteq Elems(reorg.chain)
        /\ IF reorg.todo = <<>> THEN Top = LastOf(reorg.chain)
           ELSE LastOf(reorg.todo) = LastOf(reorg.chain)
        /\ Replaced
        /\ Elems(reorg.original) \intersect alt = {}
        /\ \A x \in Elems(reorg.original) \intersect points : Height[x] < Height[LastOf(reorg.chain)]
        /\ ~reorg.discard => \A x \in Elems(reorg.original) : Work[x] < Work[LastOf(reorg.chain)]

Pushing ==
    reorg.mode = "push" =>
        /\ InMain \intersect alt \subseteq Elems(reorg.chain)
        /\ Elems(reorg.original) \intersect InMain = {}
        /\ Elems(reorg.todo) \subseteq Elems(reorg.original)
        /\ reorg.todo # <<>> =>
              \A x \in Elems(reorg.original) : x \notin points /\ Work[x] < Work[Top]

Apart == Disjoint /\ Connecting /\ Pushing

LEMMA LengthIs == \A s \in Seq(Blocks) : s # <<>> => Len(s) \in Nat \ {0}
  OBVIOUS

LEMMA ApartStep == ChainInv /\ Apart /\ [Next]_vars => Apart'
<1> SUFFICES ASSUME ChainInv, Apart, [Next]_vars PROVE Apart'
  OBVIOUS
<1>e. Event
  BY Events
<1>0. /\ Valid(main) /\ main \in Seq(Blocks) /\ Len(main) \in Nat \ {0}
      /\ alt \subseteq Blocks /\ Genesis \notin alt
      /\ reorg \in ReorgType /\ batch \in BatchType
      /\ batch.state # "closed" => Valid(batch.main)
      /\ reorg.mode # "idle" => batch.state # "closed" /\ reorg.split \in 1..Len(main)
  BY TypeIs DEF ChainInv, Valid
<1>00. /\ reorg.todo \in Seq(Blocks) /\ reorg.chain \in Seq(Blocks) /\ reorg.original \in Seq(Blocks)
       /\ reorg.mode \in {"idle", "connect", "restore", "push"} /\ reorg.discard \in BOOLEAN
  BY <1>0 DEF ReorgType
<1>1. ASSUME NEW k \in 1..Len(main)
      PROVE  /\ Elems(SubSeq(main, 1, k)) = {main[i] : i \in 1..k}
             /\ Elems(SubSeq(main, 1, k)) \subseteq InMain
  BY Zenon, <1>0, CutElems DEF InMain
<1>2. CASE Quiet
  BY ZenonT(60), <1>2 DEF Quiet, Apart, Disjoint, Connecting, Pushing, Replaced, InMain, Top, check_block
<1>3. CASE Opens
  BY Zenon, <1>3 DEF Opens, Apart, Disjoint, Connecting, Pushing, InMain
<1>4. CASE Closes
  BY Zenon, <1>4 DEF Closes, Apart, Disjoint, Connecting, Pushing, InMain
<1>5. ASSUME NEW b \in Blocks, Extends(b) PROVE Apart'
  <2>1. /\ reorg' = reorg /\ reorg.mode = "idle" /\ alt' = alt /\ b \notin alt
        /\ main' \in {main, Append(main, b)} /\ InBatch
    BY <1>5 DEF Extends, Arrives
  <2>2. Elems(main') \subseteq InMain \union {b}
    BY ZenonT(60), <1>0, <2>1, ElemsAppend DEF InMain
  <2> QED BY Zenon, <2>1, <2>2 DEF Apart, Disjoint, Connecting, Pushing, InBatch, InMain
<1>6. ASSUME NEW b \in Blocks, Stores(b) \/ Ignores(b) PROVE Apart'
  <2>1. /\ reorg' = reorg /\ reorg.mode = "idle" /\ alt' \in {alt, alt \union {b}}
        /\ b \notin InMain /\ main' = main /\ InBatch
    BY <1>6 DEF Stores, Ignores, Arrives
  <2> QED BY <2>1 DEF Apart, Disjoint, Connecting, Pushing, InBatch, InMain
<1>7. ASSUME NEW b \in Blocks, Switches(b) PROVE Apart'
  <2> DEFINE c == SwitchChain(b)
             k == Height[c[1]]
  <2>1. /\ b # Genesis /\ b \notin InMain \union alt /\ reorg.mode = "idle" /\ InBatch
        /\ k \in 1..Len(main) /\ StoredAsAlternative(b) /\ BecomesMain(b)
        /\ reorg'.mode = "connect" /\ reorg'.todo = c /\ reorg'.chain = c
        /\ reorg'.split = k /\ reorg'.discard = (b \in points)
        /\ reorg'.original = SubSeq(main, k + 1, Len(main))
        /\ main' = SubSeq(main, 1, k) /\ alt' = alt \union {b}
    BY <1>7 DEF Switches, Arrives
  <2>2. InMain \intersect alt = {}
    BY <2>1 DEF Apart, Disjoint
  <2>3. Parent[b] \in Blocks
    BY TreeAssumption
  <2>4. /\ c \in Seq(Blocks) /\ c # <<>> /\ Elems(c) \subseteq alt \union {b} /\ LastOf(c) = b
    BY <1>0, <2>3, SwitchChainIs
  <2> HIDE DEF c
  <2>5. /\ Len(main') = k /\ \A i \in 1..k : main'[i] = main[i] /\ main[i] \in InMain
    BY <1>0, <2>1, ElemsPrefix DEF InMain, Elems
  <2>6. Elems(reorg'.original) = {main[i] : i \in k + 1..Len(main)}
    BY <1>0, <2>1, ElemsSuffix
  <2>7. Elems(reorg'.original) \subseteq InMain
    <3>1. k + 1..Len(main) \subseteq 1..Len(main)
      BY <1>0, <2>1
    <3> HIDE DEF k
    <3> QED BY Zenon, <2>6, <3>1 DEF InMain, Elems
  <2>8. ASSUME NEW x \in Elems(reorg'.original)
        PROVE  /\ x \in Blocks /\ Height[x] >= k /\ Height[x] < Len(main)
               /\ Work[x] <= Work[Top]
    <3>1. PICK i \in k + 1..Len(main) : x = main[i]
      BY Zenon, <2>6
    <3>2. i \in 1..Len(main)
      BY <1>0, <2>1, <3>1
    <3>3. Height[x] = i - 1 /\ x \in Blocks
      BY <1>0, <3>1, <3>2 DEF Valid, Numbered
    <3>4. Work[x] <= Work[Top]
      BY Zenon, <1>0, <3>1, <3>2, WorkRises DEF Top
    <3> HIDE DEF k
    <3> QED BY <1>0, <2>1, <3>1, <3>2, <3>3, <3>4
  <2>9. \A x \in Elems(reorg'.original) \intersect points : Height[x] < Height[b]
    <3>1. is_alternative_block_allowed(Len(main), Height[b])
      BY Zenon, <2>1 DEF StoredAsAlternative
    <3>2. SUFFICES ASSUME NEW x \in Elems(reorg'.original), x \in points PROVE Height[x] < Height[b]
      OBVIOUS
    <3>3. Height[x] <= Len(main)
      <4>1. Height[x] < Len(main) /\ Height[x] \in Nat
        BY Zenon, <2>8, TreeAssumption
      <4> QED BY <1>0, <4>1
    <3> QED BY Zenon, <3>1, <3>2, <3>3 DEF is_alternative_block_allowed
  <2>10. b \notin points => \A x \in Elems(reorg'.original) : Work[x] < Work[b]
    <3>1. SUFFICES ASSUME b \notin points, NEW x \in Elems(reorg'.original) PROVE Work[x] < Work[b]
      OBVIOUS
    <3>2. Work[Top] < Work[b]
      BY Zenon, <2>1, <3>1 DEF BecomesMain
    <3>3. x \in Blocks /\ Top \in Blocks /\ Work[x] <= Work[Top]
      BY <1>0, <2>8 DEF Top
    <3>4. \A y \in Blocks : Work[y] \in Nat
      BY Zenon, TreeAssumption
    <3> QED BY <3>2, <3>3, <3>4
  <2>11. Replaced'
    <3>1. k \in Nat /\ k + 1..Len(main') = {}
      BY <1>0, <2>1, <2>5
    <3>2. Elems(reorg'.original) \intersect Elems(c) = {}
      BY Zenon, <2>1, <2>2, <2>4, <2>7
    <3>3. \A x \in Elems(reorg'.original) : Height[x] >= k
      BY Zenon, <2>8
    <3> HIDE DEF k
    <3> QED BY Zenon, <2>1, <3>1, <3>2, <3>3 DEF Replaced
  <2>12. \A i \in 1..k : main'[i] \notin alt'
    BY <2>1, <2>2, <2>5
  <2>13. Elems(reorg'.original) \intersect alt' = {}
    BY Zenon, <2>1, <2>2, <2>7
  <2>14. points' = points
    BY <2>1 DEF InBatch
  <2>15. Connecting'
    <3> HIDE DEF k
    <3> QED BY ZenonT(60), <2>1, <2>4, <2>9, <2>10, <2>11, <2>12, <2>13, <2>14 DEF Connecting
  <2> QED BY <2>1, <2>15 DEF Apart, Disjoint, Pushing, InBatch
<1>8. ASSUME NEW b \in Blocks, Connects(b) PROVE Apart'
  <2>1. /\ reorg.mode = "connect" /\ reorg'.mode = "connect" /\ SwitchKept
        /\ reorg.todo # <<>> /\ b = Head(reorg.todo) /\ reorg'.todo = Tail(reorg.todo)
        /\ MainVerdict(pool, b) = "added" /\ main' = Append(main, b) /\ alt' = alt /\ InBatch
        /\ points' = points
    BY Zenon, <1>8 DEF Connects, InBatch
  <2>2. check_block(b)
    BY Zenon, <2>1, Added
  <2>3. /\ Len(main') = Len(main) + 1 /\ \A i \in 1..Len(main) : main'[i] = main[i]
        /\ main'[Len(main) + 1] = b
    BY <1>0, <2>1
  <2>4. b \in Elems(reorg.chain) /\ Elems(reorg'.todo) \subseteq Elems(reorg.chain)
    BY Zenon, <1>00, <2>1, ElemsTail DEF Apart, Connecting
  <2>5. Replaced'
    <3>1. ASSUME NEW i \in reorg.split + 1..Len(main')
          PROVE  main'[i] \in Elems(reorg.chain) /\ check_block(main'[i])
      <4>1. CASE i = Len(main) + 1
        BY Zenon, <2>2, <2>3, <2>4, <4>1
      <4>2. CASE i # Len(main) + 1
        <5>1. i \in reorg.split + 1..Len(main) /\ i \in 1..Len(main)
          BY <1>0, <2>1, <2>3, <4>2
        <5> QED BY Zenon, <2>1, <2>3, <5>1 DEF Apart, Connecting, Replaced
      <4> QED BY Zenon, <4>1, <4>2
    <3>3. \A i \in reorg.split + 1..Len(main') : main'[i] \in Elems(reorg.chain) /\ check_block(main[i])'
      BY Zenon, <2>1, <3>1 DEF check_block
    <3>4. /\ Elems(reorg.original) \intersect Elems(reorg.chain) = {}
          /\ \A x \in Elems(reorg.original) : Height[x] >= reorg.split
      BY Zenon, <2>1 DEF Apart, Connecting, Replaced
    <3> QED BY Zenon, <2>1, <3>3, <3>4 DEF Replaced, SwitchKept
  <2>6. IF reorg'.todo = <<>> THEN main'[Len(main')] = LastOf(reorg.chain)
        ELSE LastOf(reorg'.todo) = LastOf(reorg.chain)
    <3>1. LastOf(reorg.todo) = LastOf(reorg.chain)
      BY Zenon, <2>1 DEF Apart, Connecting
    <3> DEFINE s == reorg.todo
    <3>2. /\ s \in Seq(Blocks) /\ s # <<>> /\ Len(s) \in Nat \ {0} /\ Head(s) = s[1]
      BY <1>00, <2>1
    <3>3. /\ Len(Tail(s)) = Len(s) - 1 /\ Tail(s) \in Seq(Blocks)
          /\ \A i \in 1..Len(s) - 1 : Tail(s)[i] = s[i + 1]
      BY <3>2
    <3> HIDE DEF s
    <3>4. CASE Tail(s) = <<>>
      <4>1. Len(s) = 1
        BY <3>2, <3>3, <3>4
      <4>2. b = LastOf(s)
        BY Zenon, <2>1, <3>2, <4>1 DEF LastOf, s
      <4> QED BY Zenon, <2>1, <2>3, <3>1, <3>4, <4>2 DEF s
    <3>5. CASE Tail(s) # <<>>
      <4>1. Len(Tail(s)) # 0
        BY <3>3, <3>5
      <4>2. Len(s) - 1 \in 1..Len(s) - 1 /\ (Len(s) - 1) + 1 = Len(s)
        BY <3>2, <3>3, <4>1
      <4>3. LastOf(Tail(s)) = LastOf(s)
        BY Zenon, <3>3, <4>2 DEF LastOf
      <4> QED BY Zenon, <2>1, <3>1, <3>5, <4>3 DEF s
    <3> QED BY Zenon, <3>4, <3>5
  <2>7. \A i \in 1..reorg.split : main'[i] \notin alt
    <3>1. 1..reorg.split \subseteq 1..Len(main)
      BY <1>0, <2>1
    <3> QED BY ZenonT(60), <2>1, <2>3, <3>1 DEF Apart, Connecting
  <2>8. Connecting'
    <3>1. Top' = main'[Len(main')]
      BY Zenon DEF Top
    <3>2. /\ Elems(reorg.chain) \subseteq alt /\ Elems(reorg.original) \intersect alt = {}
          /\ \A x \in Elems(reorg.original) \intersect points : Height[x] < Height[LastOf(reorg.chain)]
          /\ ~reorg.discard => \A x \in Elems(reorg.original) : Work[x] < Work[LastOf(reorg.chain)]
      BY Zenon, <2>1 DEF Apart, Connecting
    <3>3. /\ reorg'.chain = reorg.chain /\ reorg'.split = reorg.split
          /\ reorg'.original = reorg.original /\ reorg'.discard = reorg.discard
      BY Zenon, <2>1 DEF SwitchKept
    <3> QED BY ZenonT(60), <2>1, <2>4, <2>5, <2>6, <2>7, <3>1, <3>2, <3>3 DEF Connecting
  <2> QED BY Zenon, <2>1, <2>8 DEF Apart, Disjoint, Pushing, InBatch
<1>9. ASSUME NEW b \in Blocks, Fails(b) PROVE Apart'
  <2>1. /\ reorg.mode = "connect" /\ reorg'.mode = "restore" /\ reorg'.todo = reorg.original
        /\ main' = SubSeq(main, 1, reorg.split) /\ alt' = alt \ Elems(reorg.todo) /\ InBatch
    BY Zenon, <1>9 DEF Fails
  <2>2. Elems(main') = {main[i] : i \in 1..reorg.split}
    BY Zenon, <1>0, <1>1, <2>1
  <2> QED BY <2>1, <2>2 DEF Apart, Disjoint, Connecting, Pushing, InBatch, InMain
<1>10. CASE Finishes
  <2>1. /\ reorg.mode = "connect" /\ reorg.todo = <<>> /\ reorg'.mode = "push" /\ SwitchKept
        /\ reorg'.todo = (IF reorg.discard THEN <<>> ELSE reorg.original)
        /\ UNCHANGED <<main, alt, points, batch>>
    BY Zenon, <1>10 DEF Finishes
  <2>2. Connecting /\ Replaced /\ Top = LastOf(reorg.chain)
    BY Zenon, <2>1 DEF Apart, Connecting
  <2>3. ASSUME NEW x \in InMain
        PROVE  /\ x \in Elems(reorg.chain) \/ x \notin alt
               /\ x \notin Elems(reorg.original)
    <3>1. PICK i \in 1..Len(main) : x = main[i]
      BY Zenon DEF InMain, Elems
    <3>2. CASE i \in 1..reorg.split
      <4>1. Height[x] < reorg.split
        BY <1>0, <2>1, <3>1, <3>2 DEF Valid, Numbered
      <4>2. x \in Blocks /\ Height[x] \in Nat
        <5>1. x \in Blocks
          BY <1>0, <3>1
        <5> QED BY Zenon, <5>1, TreeAssumption
      <4>3. x \notin Elems(reorg.original)
        BY <1>0, <2>1, <2>2, <4>1, <4>2 DEF Replaced
      <4> QED BY ZenonT(60), <2>1, <2>2, <3>1, <3>2, <4>3 DEF Connecting
    <3>3. CASE i \in reorg.split + 1..Len(main)
      BY Zenon, <2>2, <3>1, <3>3 DEF Replaced
    <3> QED BY <1>0, <2>1, <3>2, <3>3
  <2>4. ASSUME NEW x \in Elems(reorg.original) PROVE x \notin points
    <3>1. SUFFICES ASSUME x \in points PROVE FALSE
      BY Zenon
    <3>2. Height[x] < Height[Top] /\ Height[x] >= reorg.split
      BY Zenon, <2>1, <2>2, <3>1 DEF Connecting, Replaced
    <3>3. x \in Blocks /\ Height[x] \in Nat
      BY Zenon, <1>00, ElemsOf, TreeAssumption
    <3>4. Height[Top] = Len(main) - 1
      BY <1>0 DEF Valid, Numbered, Top
    <3> DEFINE i == Height[x] + 1
    <3>5. i \in reorg.split + 1..Len(main) /\ i \in 1..Len(main)
      BY <1>0, <2>1, <3>2, <3>3, <3>4
    <3>6. Height[main[i]] = Height[x]
      BY <1>0, <3>3, <3>5 DEF Valid, Numbered
    <3>7. check_block(main[i]) /\ main[i] \in Elems(reorg.chain)
      BY Zenon, <2>2, <3>5 DEF Replaced
    <3>8. x = main[i]
      BY Zenon, <3>1, <3>6, <3>7 DEF check_block
    <3> QED BY Zenon, <2>2, <3>7, <3>8 DEF Replaced
  <2>5. ~reorg.discard => \A x \in Elems(reorg.original) : Work[x] < Work[Top]
    BY Zenon, <2>1, <2>2 DEF Connecting
  <2>6. Elems(<<>>) = {}
    BY DEF Elems
  <2>7. Pushing'
    <3>1. Elems(reorg'.todo) \subseteq Elems(reorg.original)
      BY Zenon, <2>1, <2>6
    <3>2. reorg'.todo # <<>> => ~reorg.discard
      BY Zenon, <2>1
    <3>3. InMain \intersect alt \subseteq Elems(reorg.chain) /\ Elems(reorg.original) \intersect InMain = {}
      BY Zenon, <2>3
    <3>4. Top' = Top /\ InMain' = InMain
      BY Zenon, <2>1 DEF Top, InMain
    <3> QED BY Zenon, <2>1, <2>4, <2>5, <3>1, <3>2, <3>3, <3>4 DEF Pushing, SwitchKept
  <2> QED BY ZenonT(60), <2>1, <2>7 DEF Apart, Disjoint, Connecting
<1>11. ASSUME NEW b \in Blocks, Restores(b) PROVE Apart'
  <2>1. /\ reorg.mode = "restore" /\ reorg'.mode = "restore"
        /\ reorg.todo # <<>> /\ b = Head(reorg.todo) /\ reorg'.todo = Tail(reorg.todo)
        /\ main' = Append(main, b) /\ alt' = alt /\ InBatch
    BY Zenon, <1>11 DEF Restores
  <2>2. b \in Elems(reorg.todo) /\ Elems(reorg'.todo) \subseteq Elems(reorg.todo)
    BY Zenon, <1>00, <2>1, ElemsTail
  <2>3. Elems(main') = InMain \union {b}
    BY <1>0, <2>1, ElemsAppend DEF InMain
  <2> QED BY ZenonT(60), <2>1, <2>2, <2>3 DEF Apart, Disjoint, Connecting, Pushing, InBatch, InMain
<1>12. ASSUME NEW b \in Blocks, Panics(b) PROVE Apart'
  BY Zenon, <1>12 DEF Panics, Apart, Disjoint, Connecting, Pushing, InBatch, InMain
<1>13. CASE Ends
  BY Zenon, <1>13 DEF Ends, Apart, Disjoint, Connecting, Pushing, InMain
<1>14. ASSUME NEW b \in Blocks, Pushes(b) PROVE Apart'
  <2>1. /\ reorg.mode = "push" /\ reorg'.mode = "push" /\ SwitchKept
        /\ reorg.todo # <<>> /\ b = Head(reorg.todo) /\ reorg'.todo = Tail(reorg.todo)
        /\ alt' \in {alt, alt \union {b}} /\ UNCHANGED <<main, points, batch>>
    BY Zenon, <1>14 DEF Pushes
  <2>2. b \in Elems(reorg.todo) /\ Elems(reorg'.todo) \subseteq Elems(reorg.todo)
    BY Zenon, <1>00, <2>1, ElemsTail
  <2>3. Pushing'
    BY Zenon, <2>1, <2>2 DEF Apart, Pushing, SwitchKept, InMain, Top
  <2> QED BY Zenon, <2>1, <2>3 DEF Apart, Disjoint, Connecting
<1>15. CASE Merges
  BY Zenon, <1>15 DEF Merges, Apart, Disjoint, Connecting, Pushing, InMain
<1>16. ASSUME NEW k \in 1..Len(main), Cuts(k) PROVE Apart'
  <2>1. reorg.mode = "idle" /\ main' = SubSeq(main, 1, k) /\ UNCHANGED <<alt, reorg, batch>>
    BY Zenon, <1>16 DEF Cuts
  <2>2. Elems(main') \subseteq InMain
    BY Zenon, <1>0, <1>1, <2>1
  <2> QED BY Zenon, <2>1, <2>2 DEF Apart, Disjoint, Connecting, Pushing, InMain
<1>17. ASSUME NEW t \in Tx, Drops(t) PROVE Apart'
  BY ZenonT(60), <1>17 DEF Drops, Apart, Disjoint, Connecting, Pushing, Replaced, InMain, Top, check_block
<1>18. ASSUME NEW k \in Nat, Restarts(k) PROVE Apart'
  <2> DEFINE m == IF batch.state = "closed" THEN main ELSE batch.main
             a == IF batch.state = "closed" THEN alt ELSE batch.alt
  <2>1. /\ k \in 1..Len(m) /\ main' = SubSeq(m, 1, k) /\ alt' \in {a, {}}
        /\ reorg'.mode = "idle" /\ batch'.state = "closed"
    BY <1>18 DEF Restarts
  <2>2. Elems(m) \intersect a = {}
    <3>1. batch.state = "closed" => reorg.mode = "idle"
      BY Zenon, <1>0, <1>00
    <3> QED BY Zenon, <3>1 DEF Apart, Disjoint, InMain
  <2>3. m \in Seq(Blocks)
    BY Zenon, <1>0 DEF Valid
  <2> HIDE DEF m, a
  <2>4. Elems(main') \subseteq Elems(m)
    BY <2>1, <2>3, ElemsPrefix
  <2> QED BY <2>1, <2>2, <2>4 DEF Apart, Disjoint, Connecting, Pushing, InMain
<1> QED
  BY ZenonT(60), <1>e, <1>2, <1>3, <1>4, <1>5, <1>6, <1>7, <1>8, <1>9, <1>10, <1>11, <1>12, <1>13, <1>14, <1>15,
     <1>16, <1>17, <1>18 DEF Event

LEMMA ApartInit == Init => Apart
  BY DEF Init, Idle, Closed, Apart, Disjoint, Connecting, Pushing, InMain

(* Whatever pops, checkpoints, aborts and restarts came before, putting the *)
(* old chain among the alternative blocks after a switch never makes one of *)
(* its blocks the head of the best chain again: it has less work than the   *)
(* new one, and none of its blocks is a checkpoint.                         *)
THEOREM SwitchesDoNotNest == Spec => []NoNestedSwitch
<1>1. ChainInv /\ Apart => NoNestedSwitch
  <2>1. SUFFICES ASSUME ChainInv, Apart, reorg.mode = "push", reorg.todo # <<>>
                 PROVE  ~BecomesMain(Head(reorg.todo))
    BY DEF NoNestedSwitch
  <2> DEFINE b == Head(reorg.todo)
  <2>2. reorg.todo \in Seq(Blocks) /\ main \in Seq(Blocks) /\ Len(main) \in Nat \ {0}
    <3>1. reorg \in ReorgType /\ main \in Seq(Blocks) /\ main # <<>>
      BY Zenon, <2>1, TypeIs DEF ChainInv, Valid
    <3> QED BY <3>1 DEF ReorgType
  <2>3. b \in Elems(reorg.todo)
    BY ZenonT(60), <2>1, <2>2, ElemsTail
  <2>4. b \notin points /\ Work[b] < Work[Top]
    BY Zenon, <2>1, <2>3 DEF Apart, Pushing
  <2>5. Work[b] \in Nat /\ Work[Top] \in Nat
    <3>1. b \in Blocks /\ Top \in Blocks
      BY <2>2, <2>3, ElemsOf DEF Top
    <3> QED BY Zenon, <3>1, TreeAssumption
  <2> QED BY <2>4, <2>5 DEF BecomesMain
<1>2. ChainInv /\ Apart /\ [Next]_vars => ChainInv' /\ Apart'
  BY ChainStep, ApartStep
<1> QED BY <1>1, <1>2, ChainInit, ApartInit, PTL DEF Spec

-----------------------------------------------------------------------------
(* Checkpoints.                                                             *)

(* Once a batch is over the main chain passes every checkpoint, those       *)
(* loaded in the middle of the batch included, unless an aborted batch      *)
(* brings back what a new checkpoint made check_against_checkpoints remove. *)
THEOREM PointsAreEnforced == Calm => (Spec => []PointsEnforced)
<1> SUFFICES ASSUME Calm PROVE Spec => []PointsEnforced
  BY Zenon
<1>1. ChainInv /\ RestoreInv => PointsEnforced
  <2> SUFFICES ASSUME ChainInv, RestoreInv, NEW p \in points, Height[p] < Len(main)
               PROVE  main[Height[p] + 1] = p
    BY Zenon DEF PointsEnforced, Violated
  <2>1. Valid(main) /\ main \in Seq(Blocks) /\ p \in Blocks
    BY DEF ChainInv, TypeOK
  <2>2. Height[p] \in Nat
    BY Zenon, <2>1, TreeAssumption
  <2> DEFINE i == Height[p] + 1
  <2>3. i \in 1..Len(main)
    BY <2>1, <2>2
  <2>4. Height[main[i]] = Height[p]
    BY <2>2, <2>3, <2>1 DEF Valid, Numbered
  <2> QED BY Zenon, <2>3, <2>4 DEF RestoreInv, Agrees
<1>2. ChainInv /\ RestoreInv /\ [Next]_vars => ChainInv' /\ RestoreInv'
  BY Zenon, RestoreStep, ChainStep
<1> QED BY <1>1, <1>2, ChainInit, RestoreInit, PTL DEF Spec

-----------------------------------------------------------------------------
(* No block of a switch that is undone is refused.                          *)
LEMMA NoPanic ==
    ASSUME ChainInv, RestoreInv, batch.state # "abort", NEW b \in Blocks
    PROVE  ~Panics(b)
<1> SUFFICES ASSUME Panics(b) PROVE FALSE
  BY Zenon
<1>1. /\ Valid(main) /\ reorg.todo \in Seq(Blocks) /\ Genesis \notin Elems(reorg.todo)
  BY Zenon, TypeIs DEF ChainInv, ReorgType
<1>2. reorg.mode = "restore" /\ reorg.todo # <<>> /\ MainVerdict(pool, Head(reorg.todo)) # "added"
  BY Zenon DEF Panics
<1>3. batch.residue = {} /\ Returns(main, reorg.todo, pool, points)
  BY Zenon, <1>2 DEF RestoreInv
<1> QED BY Zenon, <1>1, <1>2, <1>3, Returnable

(* No block spends a key image twice, so that no batch is aborted.          *)
Once == \A b \in Blocks : ~SpendsTwice(b)

(* What is marked as invalid is known neither as main nor as alternative.   *)
Unmarked ==
    /\ (InMain \union alt) \intersect invalid = {}
    /\ reorg.mode \in {"connect", "push"} => Elems(reorg.original) \intersect invalid = {}
    /\ reorg.mode = "restore" => Elems(reorg.todo) \intersect invalid = {}

LEMMA UnmarkedStep == Once /\ ChainInv /\ RestoreInv /\ Apart /\ Unmarked /\ [Next]_vars => Unmarked'
<1> SUFFICES ASSUME Once, ChainInv, RestoreInv, Apart, Unmarked, [Next]_vars PROVE Unmarked'
  OBVIOUS
<1>e. Event
  BY Events
<1>0. /\ Valid(main) /\ main \in Seq(Blocks) /\ Len(main) \in Nat \ {0}
      /\ alt \subseteq Blocks
      /\ reorg \in ReorgType /\ batch \in BatchType
      /\ reorg.mode # "idle" => batch.state # "closed" /\ reorg.split \in 1..Len(main)
      /\ batch.state # "abort"
  BY ZenonT(60), TypeIs, LengthIs DEF ChainInv, Valid, RestoreInv, Once
<1>00. reorg.todo \in Seq(Blocks) /\ reorg.chain \in Seq(Blocks) /\ reorg.original \in Seq(Blocks)
  BY <1>0 DEF ReorgType
<1>1. ASSUME NEW k \in 1..Len(main)
      PROVE  /\ Elems(SubSeq(main, 1, k)) = {main[i] : i \in 1..k}
             /\ Elems(SubSeq(main, 1, k)) \subseteq InMain
             /\ Elems(SubSeq(main, k + 1, Len(main))) \subseteq InMain
  BY Zenon, <1>0, CutElems DEF InMain
<1>2. CASE Quiet
  BY Zenon, <1>2 DEF Quiet, Unmarked, InMain
<1>3. CASE Opens
  BY Zenon, <1>3 DEF Opens, Unmarked, InMain
<1>4. CASE Closes
  BY Zenon, <1>0, <1>4 DEF Closes, Unmarked, InMain
<1>5. ASSUME NEW b \in Blocks, Extends(b) PROVE Unmarked'
  <2> DEFINE v == MainVerdict(With(b), b)
  <2>1. /\ reorg' = reorg /\ reorg.mode = "idle" /\ alt' = alt /\ b \notin InMain \union alt \union invalid
        /\ IF v = "added" THEN main' = Append(main, b) ELSE main' = main
        /\ invalid' = IF v = "invalid" THEN invalid \union {b} ELSE invalid
    BY Zenon, <1>5 DEF Extends, Arrives
  <2> HIDE DEF v
  <2>2. CASE v = "added"
    <3>1. Elems(main') = InMain \union {b} /\ invalid' = invalid
      BY ZenonT(60), <1>0, <2>1, <2>2, ElemsAppend DEF InMain
    <3> QED BY Zenon, <2>1, <3>1 DEF Unmarked, InMain
  <2>3. CASE v # "added"
    BY Zenon, <2>1, <2>3 DEF Unmarked, InMain
  <2> QED BY Zenon, <2>2, <2>3
<1>6. ASSUME NEW b \in Blocks, Stores(b) \/ Ignores(b) PROVE Unmarked'
  <2>1. /\ reorg' = reorg /\ reorg.mode = "idle" /\ alt' \in {alt, alt \union {b}}
        /\ b \notin invalid /\ main' = main /\ invalid' = invalid
    BY Zenon, <1>6 DEF Stores, Ignores, Arrives
  <2> QED BY Zenon, <2>1 DEF Unmarked, InMain
<1>7. ASSUME NEW b \in Blocks, Switches(b) PROVE Unmarked'
  <2>1. /\ b \notin invalid /\ reorg'.split \in 1..Len(main)
        /\ reorg'.mode = "connect" /\ reorg'.original = SubSeq(main, reorg'.split + 1, Len(main))
        /\ main' = SubSeq(main, 1, reorg'.split) /\ alt' = alt \union {b} /\ invalid' = invalid
    BY Zenon, <1>7 DEF Switches, Arrives
  <2>2. Elems(main') \subseteq InMain /\ Elems(reorg'.original) \subseteq InMain
    BY Zenon, <1>1, <2>1
  <2> QED BY Zenon, <2>1, <2>2 DEF Unmarked, InMain
<1>8. ASSUME NEW b \in Blocks, Connects(b) PROVE Unmarked'
  <2>1. /\ reorg.mode = "connect" /\ reorg'.mode = "connect" /\ SwitchKept
        /\ reorg.todo # <<>> /\ b = Head(reorg.todo)
        /\ main' = Append(main, b) /\ alt' = alt /\ invalid' = invalid
    BY Zenon, <1>8 DEF Connects
  <2>2. b \in alt
    BY ZenonT(60), <1>00, <2>1, ElemsTail DEF Apart, Connecting
  <2>3. Elems(main') = InMain \union {b}
    BY <1>0, <2>1, ElemsAppend DEF InMain
  <2> QED BY ZenonT(60), <2>1, <2>2, <2>3 DEF Unmarked, InMain, SwitchKept
<1>9. ASSUME NEW b \in Blocks, Fails(b) PROVE Unmarked'
  <2>1. /\ reorg.mode = "connect" /\ reorg'.mode = "restore" /\ reorg'.todo = reorg.original
        /\ main' = SubSeq(main, 1, reorg.split) /\ alt' = alt \ Elems(reorg.todo)
        /\ invalid' = invalid \union Elems(reorg.todo)
    BY Zenon, <1>9 DEF Fails
  <2>2. Elems(main') = {main[i] : i \in 1..reorg.split} /\ Elems(main') \subseteq InMain
    BY Zenon, <1>0, <1>1, <2>1
  <2>3. /\ Elems(reorg.todo) \subseteq alt /\ Elems(reorg.original) \intersect alt = {}
        /\ \A i \in 1..reorg.split : main[i] \notin alt
    BY Zenon, <2>1 DEF Apart, Connecting
  <2>4. Elems(main') \intersect alt = {}
    BY Zenon, <2>2, <2>3
  <2> QED BY Zenon, <2>1, <2>2, <2>3, <2>4 DEF Unmarked, InMain
<1>10. CASE Finishes
  BY Zenon, <1>10 DEF Finishes, Unmarked, InMain, SwitchKept
<1>11. ASSUME NEW b \in Blocks, Restores(b) PROVE Unmarked'
  <2>1. /\ reorg.mode = "restore" /\ reorg'.mode = "restore"
        /\ reorg.todo # <<>> /\ b = Head(reorg.todo) /\ reorg'.todo = Tail(reorg.todo)
        /\ main' = Append(main, b) /\ alt' = alt /\ invalid' = invalid
    BY Zenon, <1>11 DEF Restores
  <2>2. b \in Elems(reorg.todo) /\ Elems(reorg'.todo) \subseteq Elems(reorg.todo)
    BY Zenon, <1>00, <2>1, ElemsTail
  <2>3. Elems(main') = InMain \union {b}
    BY <1>0, <2>1, ElemsAppend DEF InMain
  <2> QED BY Zenon, <2>1, <2>2, <2>3 DEF Unmarked, InMain
<1>12. ASSUME NEW b \in Blocks, Panics(b) PROVE Unmarked'
  BY Zenon, <1>0, <1>12, NoPanic
<1>13. CASE Ends
  BY Zenon, <1>13 DEF Ends, Unmarked, InMain
<1>14. ASSUME NEW b \in Blocks, Pushes(b) PROVE Unmarked'
  <2>1. /\ reorg.mode = "push" /\ reorg'.mode = "push" /\ SwitchKept
        /\ reorg.todo # <<>> /\ b = Head(reorg.todo)
        /\ alt' \in {alt, alt \union {b}} /\ UNCHANGED <<main, invalid>>
    BY Zenon, <1>14 DEF Pushes
  <2>2. b \in Elems(reorg.original)
    BY Zenon, <1>00, <2>1, ElemsTail DEF Apart, Pushing
  <2> QED BY Zenon, <2>1, <2>2 DEF Unmarked, InMain, SwitchKept
<1>15. CASE Merges
  BY Zenon, <1>15 DEF Merges, Unmarked, InMain
<1>16. ASSUME NEW k \in 1..Len(main), Cuts(k) PROVE Unmarked'
  <2>1. reorg.mode = "idle" /\ main' = SubSeq(main, 1, k) /\ UNCHANGED <<alt, reorg, invalid>>
    BY Zenon, <1>16 DEF Cuts
  <2>2. Elems(main') \subseteq InMain
    BY Zenon, <1>0, <1>1, <2>1
  <2> QED BY Zenon, <2>1, <2>2 DEF Unmarked, InMain
<1>17. ASSUME NEW t \in Tx, Drops(t) PROVE Unmarked'
  BY Zenon, <1>17 DEF Drops, Unmarked, InMain
<1>18. ASSUME NEW k \in Nat, Restarts(k) PROVE Unmarked'
  BY <1>18 DEF Restarts, Unmarked
<1> QED
  BY ZenonT(60), <1>e, <1>2, <1>3, <1>4, <1>5, <1>6, <1>7, <1>8, <1>9, <1>10, <1>11, <1>12, <1>13, <1>14, <1>15,
     <1>16, <1>17, <1>18 DEF Event

(* Between batches no block of the main chain is stored as an alternative   *)
(* block or marked as invalid, when no batch is aborted (what a batch       *)
(* marked as invalid stays marked when it is undone).                       *)
THEOREM BlocksKnownOnce == Once => (Spec => []KnownOnce)
<1> SUFFICES ASSUME Once PROVE Spec => []KnownOnce
  OBVIOUS
<1> DEFINE I == ChainInv /\ RestoreInv /\ Apart /\ Unmarked
<1>1. Calm
  BY DEF Calm, Once
<1>2. Init => I
  <2>1. Init => Unmarked
    BY DEF Init, Unmarked, Idle
  <2> QED BY Zenon, <2>1, ChainInit, RestoreInit, ApartInit
<1>3. I /\ [Next]_vars => I'
  BY Zenon, <1>1, ChainStep, RestoreStep, ApartStep, UnmarkedStep
<1>4. I => KnownOnce
  <2> SUFFICES ASSUME I, batch.state = "closed" PROVE InMain \intersect (alt \union invalid) = {}
    BY Zenon DEF KnownOnce
  <2>1. reorg.mode = "idle"
    BY DEF ChainInv
  <2> QED BY <2>1 DEF Unmarked, Apart, Disjoint
<1> QED BY <1>2, <1>3, <1>4, PTL DEF Spec

-----------------------------------------------------------------------------
(* The main chain has the most work.                                        *)

(* Nothing but a switch removes blocks from the main chain.                 *)
OnlySwitches == NewPoints = {} /\ ~MayPop

(* No block of S has more work than w.                                      *)
Below(S, w) == \A a \in S : Work[a] <= w

BestInv ==
    /\ reorg.mode = "idle" /\ batch.state # "abort" => Below(alt, Work[Top])
    /\ batch.state # "closed" => Below(batch.alt, Work[LastOf(batch.main)])
    /\ reorg.mode = "connect" =>
          LET w == Work[LastOf(SubSeq(main, 1, reorg.split) \o reorg.original)]
          IN  /\ Below(alt \ {LastOf(reorg.chain)}, w)
              /\ Work[LastOf(reorg.chain)] > w
    /\ reorg.mode = "restore" /\ batch.state # "abort" =>
          Below(alt, Work[LastOf(main \o reorg.todo)])
    /\ reorg.mode = "push" => Below(alt \union Elems(reorg.todo), Work[Top])

LEMMA NothingCut ==
    ASSUME OnlySwitches, NEW m, Valid(m), NEW pts \in SUBSET ({Genesis} \union NewPoints)
    PROVE  SubSeq(m, 1, KeptLength(m, pts)) = m
<1>1. m \in Seq(Blocks) /\ m # <<>> /\ m[1] = Genesis
  BY Zenon DEF Valid
<1>2. Violated(m, pts) = {}
  BY <1>1, TreeAssumption DEF Violated, OnlySwitches
<1>3. KeptLength(m, pts) = Len(m)
  BY <1>2 DEF KeptLength
<1>4. SubSeq(m, 1, Len(m)) = m
  <2>1. /\ SubSeq(m, 1, Len(m)) \in Seq(Blocks) /\ Len(SubSeq(m, 1, Len(m))) = Len(m)
        /\ \A i \in 1..Len(m) : SubSeq(m, 1, Len(m))[i] = m[i]
    BY <1>1
  <2> QED BY <1>1, <2>1
<1> QED BY Zenon, <1>3, <1>4

LEMMA BelowMore ==
    ASSUME NEW S \in SUBSET Blocks, NEW a \in Blocks, NEW b \in Blocks, Below(S, Work[a]), Work[a] <= Work[b]
    PROVE  Below(S, Work[b])
<1>1. \A x \in Blocks : Work[x] \in Nat
  BY Zenon, TreeAssumption
<1>2. \A x \in S : x \in Blocks /\ Work[x] <= Work[a]
  BY Zenon DEF Below
<1> QED BY <1>1, <1>2 DEF Below

LEMMA BestStep ==
    OnlySwitches /\ ChainInv /\ RestoreInv /\ Apart /\ BestInv /\ [Next]_vars => BestInv'
<1> SUFFICES ASSUME OnlySwitches, ChainInv, RestoreInv, Apart, BestInv, [Next]_vars PROVE BestInv'
  OBVIOUS
<1>e. Event
  BY Events
<1>0. /\ Valid(main) /\ main \in Seq(Blocks) /\ Len(main) \in Nat \ {0}
      /\ alt \subseteq Blocks /\ Genesis \notin alt
      /\ reorg \in ReorgType /\ batch \in BatchType
      /\ batch.state # "closed" => Valid(batch.main)
      /\ points \in SUBSET ({Genesis} \union NewPoints)
      /\ reorg.mode # "idle" => batch.state # "closed" /\ reorg.split \in 1..Len(main)
  BY ZenonT(60), TypeIs, LengthIs DEF ChainInv, Valid
<1>00. /\ reorg.todo \in Seq(Blocks) /\ reorg.chain \in Seq(Blocks) /\ reorg.original \in Seq(Blocks)
       /\ reorg.mode \in {"idle", "connect", "restore", "push"}
       /\ Top \in Blocks /\ \A x \in Blocks : Work[x] \in Nat
  <2>1. \A x \in Blocks : Work[x] \in Nat
    BY Zenon, TreeAssumption
  <2>2. Top \in Blocks
    BY <1>0 DEF Top
  <2> QED BY Zenon, <1>0, <2>1, <2>2 DEF ReorgType
<1>01. points' \in SUBSET ({Genesis} \union NewPoints)
  BY Zenon, ChainStep DEF ChainInv
<1>2. CASE Quiet
  BY Zenon, <1>2 DEF Quiet, BestInv, Top
<1>3. CASE Opens
  <2>1. LastOf(main) = Top
    BY Zenon DEF LastOf, Top
  <2> QED BY Zenon, <1>3, <2>1 DEF Opens, BestInv, Top
<1>4. CASE Closes
  <2>1. LastOf(batch.main) = batch.main[Len(batch.main)]
    BY Zenon DEF LastOf
  <2> QED BY Zenon, <1>4, <2>1 DEF Closes, BestInv, Top
<1>5. ASSUME NEW b \in Blocks, Extends(b) PROVE BestInv'
  <2>1. /\ reorg' = reorg /\ reorg.mode = "idle" /\ alt' = alt /\ b # Genesis /\ Parent[b] = Top
        /\ batch.state = "open" /\ main' \in {main, Append(main, b)} /\ InBatch
    BY Zenon, <1>5 DEF Extends, Arrives
  <2>2. Below(alt, Work[Top])
    BY Zenon, <2>1 DEF BestInv
  <2>3. Work[Top] <= Work[b]
    <3>1. Work[b] > Work[Top]
      BY Zenon, <2>1, TreeAssumption
    <3> QED BY <1>00, <3>1
  <2>4. Below(alt, Work[b])
    BY ZenonT(60), <1>0, <1>00, <2>2, <2>3, BelowMore
  <2>5. main' = main \/ main'[Len(main')] = b
    BY <1>0, <2>1
  <2>6. Below(alt, Work[main'[Len(main')]])
    BY Zenon, <2>2, <2>4, <2>5 DEF Top
  <2> QED BY Zenon, <2>1, <2>6 DEF BestInv, InBatch, Top
<1>6. ASSUME NEW b \in Blocks, Stores(b) \/ Ignores(b) PROVE BestInv'
  <2>1. /\ reorg' = reorg /\ reorg.mode = "idle" /\ batch.state = "open"
        /\ alt' = alt \/ (alt' = alt \union {b} /\ ~BecomesMain(b))
        /\ main' = main /\ InBatch
    BY Zenon, <1>6 DEF Stores, Ignores, Arrives
  <2>2. ~BecomesMain(b) => Work[b] <= Work[Top]
    BY <1>00 DEF BecomesMain
  <2>3. Below(alt', Work[Top])
    BY Zenon, <2>1, <2>2 DEF BestInv, Below
  <2> QED BY Zenon, <2>1, <2>3 DEF BestInv, InBatch, Top
<1>7. ASSUME NEW b \in Blocks, Switches(b) PROVE BestInv'
  <2>1. /\ b # Genesis /\ reorg.mode = "idle" /\ batch.state = "open" /\ InBatch /\ BecomesMain(b)
        /\ reorg'.mode = "connect" /\ reorg'.chain = SwitchChain(b) /\ reorg'.split \in 1..Len(main)
        /\ reorg'.original = SubSeq(main, reorg'.split + 1, Len(main))
        /\ main' = SubSeq(main, 1, reorg'.split) /\ alt' = alt \union {b}
    BY Zenon, <1>7 DEF Switches, Arrives
  <2>2. Parent[b] \in Blocks
    BY Zenon, TreeAssumption
  <2>3. LastOf(reorg'.chain) = b
    BY Zenon, <1>0, <2>1, <2>2, SwitchChainIs
  <2>4. SubSeq(main', 1, reorg'.split) = main'
    <3> DEFINE k == reorg'.split
               m == main'
    <3>1. m \in Seq(Blocks) /\ Len(m) = k /\ k \in Nat
      <4>1. m = SubSeq(main, 1, k) /\ k \in 1..Len(main)
        BY Zenon, <2>1
      <4> HIDE DEF m, k
      <4>2. Valid(m) /\ Len(m) = k
        BY Zenon, <1>0, <4>1, CutValid
      <4> QED BY <1>0, <4>1, <4>2 DEF Valid
    <3>2. SubSeq(m, 1, k) \in Seq(Blocks) /\ Len(SubSeq(m, 1, k)) = k /\ \A i \in 1..k : SubSeq(m, 1, k)[i] = m[i]
      <4> HIDE DEF m, k
      <4> QED BY <3>1
    <3> HIDE DEF m, k
    <3>3. SubSeq(m, 1, k) = m
      BY <3>1, <3>2
    <3> QED BY Zenon, <3>3 DEF m, k
  <2>5. SubSeq(main', 1, reorg'.split) \o reorg'.original = main
    BY Zenon, <1>0, <2>1, <2>4, CutConcat
  <2>6. LastOf(main) = Top
    BY Zenon DEF LastOf, Top
  <2>7. Below(alt, Work[Top]) /\ b \notin points
    <3>1. b \notin points
      BY Zenon, <1>0, <2>1 DEF OnlySwitches
    <3> QED BY Zenon, <2>1, <3>1 DEF BestInv
  <2>8. Work[b] > Work[Top]
    BY Zenon, <1>00, <2>1, <2>7 DEF BecomesMain
  <2>9. Below(alt' \ {b}, Work[Top])
    BY ZenonT(60), <2>1, <2>7 DEF Below
  <2> QED BY ZenonT(60), <2>1, <2>3, <2>5, <2>6, <2>8, <2>9 DEF BestInv, InBatch
<1>8. ASSUME NEW b \in Blocks, Connects(b) PROVE BestInv'
  <2>1. /\ reorg.mode = "connect" /\ reorg'.mode = "connect" /\ SwitchKept
        /\ main' = Append(main, b) /\ alt' = alt /\ InBatch
    BY Zenon, <1>8 DEF Connects
  <2>2. SubSeq(main', 1, reorg.split) = SubSeq(main, 1, reorg.split)
    BY Zenon, <1>0, <2>1, AppendSplit
  <2> QED BY Zenon, <2>1, <2>2 DEF BestInv, InBatch, SwitchKept
<1>9. ASSUME NEW b \in Blocks, Fails(b) PROVE BestInv'
  <2>1. /\ reorg.mode = "connect" /\ reorg'.mode = "restore" /\ reorg'.todo = reorg.original
        /\ reorg.todo # <<>> /\ main' = SubSeq(main, 1, reorg.split)
        /\ alt' = alt \ Elems(reorg.todo) /\ InBatch
    BY Zenon, <1>9 DEF Fails
  <2>2. LastOf(reorg.chain) \in Elems(reorg.todo)
    <3>1. LastOf(reorg.todo) = LastOf(reorg.chain)
      BY Zenon, <2>1 DEF Apart, Connecting
    <3>2. Len(reorg.todo) \in 1..Len(reorg.todo)
      BY <1>00, <2>1
    <3> QED BY Zenon, <3>1, <3>2 DEF LastOf, Elems
  <2>3. Below(alt', Work[LastOf(SubSeq(main, 1, reorg.split) \o reorg.original)])
    BY Zenon, <2>1, <2>2 DEF BestInv, Below
  <2> QED BY Zenon, <2>1, <2>3 DEF BestInv, InBatch
<1>10. CASE Finishes
  <2>1. /\ reorg.mode = "connect" /\ reorg.todo = <<>> /\ reorg'.mode = "push"
        /\ reorg'.todo = (IF reorg.discard THEN <<>> ELSE reorg.original)
        /\ UNCHANGED <<main, alt, batch>>
    BY Zenon, <1>10 DEF Finishes
  <2> DEFINE o == SubSeq(main, 1, reorg.split) \o reorg.original
  <2>2. /\ Top = LastOf(reorg.chain)
        /\ ~reorg.discard => \A x \in Elems(reorg.original) : Work[x] < Work[LastOf(reorg.chain)]
    BY Zenon, <2>1 DEF Apart, Connecting
  <2>3. Valid(o)
    BY Zenon, <2>1 DEF RestoreInv, Returns
  <2>4. LastOf(o) \in Blocks
    <3> HIDE DEF o
    <3> QED BY <2>3 DEF LastOf, Valid
  <2>5. Below(alt \ {Top}, Work[LastOf(o)]) /\ Work[Top] > Work[LastOf(o)]
    BY Zenon, <2>1, <2>2 DEF BestInv
  <2> HIDE DEF o
  <2>6. Below(alt \ {Top}, Work[Top])
    <3>1. alt \ {Top} \in SUBSET Blocks /\ Work[LastOf(o)] <= Work[Top]
      BY <1>0, <1>00, <2>4, <2>5
    <3> QED BY ZenonT(60), <1>00, <2>4, <2>5, <3>1, BelowMore
  <2>7. Below(alt, Work[Top])
    BY <1>00, <2>6 DEF Below
  <2>8. Elems(<<>>) = {}
    BY DEF Elems
  <2>9. Below(Elems(reorg'.todo), Work[Top])
    <3>1. CASE reorg.discard
      BY Zenon, <2>1, <2>8, <3>1 DEF Below
    <3>2. CASE ~reorg.discard
      <4>1. \A x \in Elems(reorg.original) : x \in Blocks /\ Work[x] < Work[Top]
        BY Zenon, <1>00, <2>2, <3>2, ElemsOf
      <4> QED BY <1>00, <2>1, <3>2, <4>1 DEF Below
    <3> QED BY Zenon, <3>1, <3>2
  <2>10. Below(alt \union Elems(reorg'.todo), Work[Top])
    BY Zenon, <2>7, <2>9 DEF Below
  <2> QED BY ZenonT(60), <2>1, <2>10 DEF BestInv, Top
<1>11. ASSUME NEW b \in Blocks, Restores(b) PROVE BestInv'
  <2>1. /\ reorg.mode = "restore" /\ reorg'.mode = "restore"
        /\ reorg.todo # <<>> /\ b = Head(reorg.todo) /\ reorg'.todo = Tail(reorg.todo)
        /\ main' = Append(main, b) /\ alt' = alt /\ InBatch /\ batch'.state = batch.state
    BY Zenon, <1>11 DEF Restores
  <2>2. main' \o reorg'.todo = main \o reorg.todo
    BY Zenon, <1>0, <1>00, <2>1, AppendHead
  <2> QED BY Zenon, <2>1, <2>2 DEF BestInv, InBatch
<1>12. ASSUME NEW b \in Blocks, Panics(b) PROVE BestInv'
  <2>1. batch.state = "abort" /\ batch'.state = "abort" /\ reorg'.mode = "idle" /\ InBatch
    BY Zenon, <1>12, NoPanic DEF Panics
  <2> QED BY Zenon, <2>1 DEF BestInv, InBatch
<1>13. CASE Ends
  <2>1. reorg.mode = "restore" /\ reorg.todo = <<>> /\ reorg'.mode = "idle" /\ UNCHANGED <<main, alt, batch>>
    BY Zenon, <1>13 DEF Ends
  <2>2. LastOf(main \o reorg.todo) = Top
    <3>1. main \o <<>> = main
      BY <1>0
    <3> QED BY Zenon, <2>1, <3>1 DEF LastOf, Top
  <2> QED BY Zenon, <2>1, <2>2 DEF BestInv, Top
<1>14. ASSUME NEW b \in Blocks, Pushes(b) PROVE BestInv'
  <2>1. /\ reorg.mode = "push" /\ reorg'.mode = "push"
        /\ reorg.todo # <<>> /\ b = Head(reorg.todo) /\ reorg'.todo = Tail(reorg.todo)
        /\ alt' \in {alt, alt \union {b}} /\ UNCHANGED <<main, batch>>
    BY Zenon, <1>14 DEF Pushes
  <2>2. alt' \union Elems(reorg'.todo) \subseteq alt \union Elems(reorg.todo)
    BY <1>00, <2>1, ElemsTail
  <2> QED BY Zenon, <2>1, <2>2 DEF BestInv, Below, Top
<1>15. CASE Merges
  BY Zenon, <1>15 DEF Merges, BestInv, Below, Top
<1>16. ASSUME NEW k \in 1..Len(main), Cuts(k) PROVE BestInv'
  <2>1. /\ main' = SubSeq(main, 1, KeptLength(main, points')) /\ reorg.mode = "idle"
        /\ UNCHANGED <<alt, reorg, batch>>
    BY Zenon, <1>16 DEF Cuts, OnlySwitches
  <2>2. main' = main
    BY Zenon, <1>0, <1>01, <2>1, NothingCut
  <2> QED BY Zenon, <2>1, <2>2 DEF BestInv, Top
<1>17. ASSUME NEW t \in Tx, Drops(t) PROVE BestInv'
  BY <1>17 DEF Drops, BestInv, Top
<1>18. ASSUME NEW k \in Nat, Restarts(k) PROVE BestInv'
  <2> DEFINE m == IF batch.state = "closed" THEN main ELSE batch.main
             a == IF batch.state = "closed" THEN alt ELSE batch.alt
  <2>1. /\ main' = SubSeq(m, 1, KeptLength(m, points)) /\ alt' \in {a, {}}
        /\ reorg'.mode = "idle" /\ batch'.state = "closed"
    BY ZenonT(60), <1>18 DEF Restarts
  <2>2. Below(a, Work[LastOf(m)])
    <3>1. batch.state = "closed" => reorg.mode = "idle"
      BY Zenon, <1>0, <1>00
    <3> QED BY ZenonT(60), <3>1 DEF BestInv, LastOf, Top
  <2>3. Valid(m)
    BY Zenon, <1>0
  <2> HIDE DEF m, a
  <2>4. main' = m
    BY Zenon, <1>0, <2>1, <2>3, NothingCut
  <2>5. Below(alt', Work[LastOf(m)])
    BY Zenon, <2>1, <2>2 DEF Below
  <2> QED BY ZenonT(60), <2>1, <2>4, <2>5 DEF BestInv, LastOf, Top
<1> QED
  BY <1>e, <1>2, <1>3, <1>4, <1>5, <1>6, <1>7, <1>8, <1>9, <1>10, <1>11, <1>12, <1>13, <1>14, <1>15,
     <1>16, <1>17, <1>18 DEF Event

(* Between blocks no alternative block that was stored, on whatever branch, *)
(* has more work than the main chain: a switch that succeeds or is rolled   *)
(* back and a batch that is aborted all leave it so, where blocks are       *)
(* neither popped by hand nor rolled back to a new checkpoint.              *)
THEOREM BestIsMain == OnlySwitches => (Spec => []BestKnown)
<1> SUFFICES ASSUME OnlySwitches PROVE Spec => []BestKnown
  OBVIOUS
<1> DEFINE I == ChainInv /\ RestoreInv /\ Apart /\ BestInv
<1>1. Calm
  BY Zenon DEF Calm, OnlySwitches
<1>2. Init => I
  <2>1. Init => BestInv
    BY DEF Init, BestInv, Idle, Closed, Below
  <2> QED BY <2>1, ChainInit, RestoreInit, ApartInit
<1>3. I /\ [Next]_vars => I'
  BY <1>1, ChainStep, RestoreStep, ApartStep, BestStep
<1>4. I => BestKnown
  BY Zenon DEF BestInv, BestKnown, Below
<1> QED BY <1>2, <1>3, <1>4, PTL DEF Spec

-----------------------------------------------------------------------------
(* Blocks marked as invalid.                                                *)

(* The chain a switch connects is linked, on top of what is left of main.   *)
LEMMA SwitchChainLinked ==
    ASSUME Valid(main), alt \subseteq Blocks, Genesis \notin alt,
           NEW b \in Blocks, b # Genesis, Attached(Parent[b])
    PROVE  /\ Linked(SwitchChain(b))
           /\ Height[SwitchChain(b)[1]] \in 1..Len(main) =>
                 Parent[SwitchChain(b)[1]] = main[Height[SwitchChain(b)[1]]]
<1> DEFINE p == Parent[b]
           f == ForkHeight(p)
           n == Height[p] - f
           a == build_alt_chain(p)
           c == SwitchChain(b)
<1>1. p \in Blocks /\ Height[p] \in Nat /\ Height[b] = Height[p] + 1 /\ Height[b] \in Nat
  BY Zenon, TreeAssumption
<1>2. f \in 0..Height[p]
  BY Zenon, <1>1, ForkHeightIs
<1> HIDE DEF p, f
<1>3. n \in Nat
  BY <1>1, <1>2
<1>4. a = [i \in 1..n |-> Ancestor(p, f + i)]
  BY Zenon DEF build_alt_chain, f, p
<1>5. a \in Seq(alt) /\ a \in Seq(Blocks)
  BY <1>1, AltChainIs
<1>6. Len(a) = n
  BY <1>3, <1>4, <1>5
<1>7. ASSUME NEW i \in 1..n PROVE a[i] \in Line[p] /\ Height[a[i]] = f + i
  <2>1. f + i \in 0..Height[p]
    BY <1>1, <1>2, <1>3
  <2>2. \E x \in Line[p] : Height[x] = f + i
    BY Zenon, <1>1, <2>1, Ancestors
  <2>3. Ancestor(p, f + i) \in Line[p] /\ Height[Ancestor(p, f + i)] = f + i
    BY <2>2, Zenon DEF Ancestor
  <2> HIDE DEF a
  <2> QED BY Zenon, <1>4, <2>3
<1> HIDE DEF a, n
<1>8. /\ c = Append(a, b) /\ Len(c) = n + 1 /\ c[n + 1] = b /\ \A i \in 1..n : c[i] = a[i]
  <2>1. c = Append(a, b)
    BY Zenon DEF SwitchChain, a, p
  <2> HIDE DEF c
  <2> QED BY <1>5, <1>6, <2>1
<1> HIDE DEF c
<1>9. ASSUME NEW i \in 2..n PROVE a[i] # Genesis /\ Parent[a[i]] = a[i - 1]
  <2>1. i \in 1..n /\ i - 1 \in 1..n /\ f + i > 0 /\ f + (i - 1) = (f + i) - 1
    BY <1>1, <1>2, <1>3
  <2>2. /\ a[i] \in Line[p] /\ Height[a[i]] = f + i
        /\ a[i - 1] \in Line[p] /\ Height[a[i - 1]] = f + (i - 1)
    BY Zenon, <1>7, <2>1
  <2>3. a[i] # Genesis
    BY <2>1, <2>2, TreeAssumption
  <2>4. a[i] \in Blocks
    BY <1>5, <1>6, <2>1
  <2>5. Height[a[i]] = Height[Parent[a[i]]] + 1 /\ Parent[a[i]] \in Blocks
    BY Zenon, <2>3, <2>4, TreeAssumption
  <2>6. Height[Parent[a[i]]] \in Nat
    BY Zenon, <2>5, TreeAssumption
  <2>7. Height[Parent[a[i]]] = Height[a[i - 1]]
    BY <1>1, <1>2, <2>1, <2>2, <2>5, <2>6
  <2>8. Parent[a[i]] \in Line[p]
    BY ZenonT(60), <1>1, <2>2, <2>3, LineIs
  <2> QED BY Zenon, <1>1, <2>2, <2>3, <2>7, <2>8, LineIs
<1>10. n # 0 => a[n] = p
  <2>1. SUFFICES ASSUME n # 0 PROVE a[n] = p
    BY Zenon
  <2>2. n \in 1..n /\ f + n = Height[p]
    BY <1>1, <1>2, <1>3, <2>1 DEF n
  <2>3. a[n] \in Line[p] /\ Height[a[n]] = Height[p]
    BY Zenon, <1>7, <2>2
  <2> QED BY Zenon, <1>1, <2>3, LineIs
<1>11. Linked(c)
  <2>1. SUFFICES ASSUME NEW i \in 2..n + 1 PROVE c[i] # Genesis /\ Parent[c[i]] = c[i - 1]
    BY Zenon, <1>8 DEF Linked
  <2>2. CASE i = n + 1
    <3>1. n # 0 /\ i - 1 = n /\ n \in 1..n
      BY <1>3, <2>1, <2>2
    <3> QED BY Zenon, <1>8, <1>10, <2>2, <3>1 DEF p
  <2>3. CASE i # n + 1
    <3>1. i \in 2..n /\ i \in 1..n /\ i - 1 \in 1..n
      BY <1>3, <2>1, <2>3
    <3> QED BY Zenon, <1>8, <1>9, <3>1
  <2> QED BY Zenon, <2>2, <2>3
<1>12. Parent[c[1]] \in InMain /\ c[1] # Genesis /\ c[1] \in Blocks
  <2>1. CASE n = 0
    <3>1. a = <<>>
      BY <1>5, <1>6, <2>1
    <3>2. p \in InMain
      BY Zenon, <3>1 DEF Attached, a, p
    <3> QED BY <1>8, <2>1, <3>2 DEF p
  <2>2. CASE n # 0
    <3>1. a # <<>> /\ 1 \in 1..n
      BY <1>3, <1>6, <2>2
    <3>2. Parent[a[1]] \in InMain
      BY Zenon, <3>1 DEF Attached, a, p
    <3>3. a[1] \in alt
      BY <1>5, <1>6, <3>1
    <3> QED BY Zenon, <1>8, <3>1, <3>2, <3>3
  <2> QED BY Zenon, <2>1, <2>2
<1>13. ASSUME Height[c[1]] \in 1..Len(main) PROVE Parent[c[1]] = main[Height[c[1]]]
  <2>1. PICK i \in 1..Len(main) : Parent[c[1]] = main[i]
    BY Zenon, <1>12 DEF InMain, Elems
  <2>2. Height[Parent[c[1]]] = i - 1
    BY Zenon, <2>1 DEF Valid, Numbered
  <2>3. Height[c[1]] = Height[Parent[c[1]]] + 1
    BY Zenon, <1>12, TreeAssumption
  <2>4. Height[c[1]] = i
    <3>1. i \in Int
      OBVIOUS
    <3> QED BY <2>2, <2>3, <3>1
  <2> QED BY Zenon, <2>1, <2>4
<1> QED BY Zenon, <1>11, <1>13 DEF c

(* A block on top that verification refuses although its transactions are   *)
(* at hand is wrong.                                                        *)
LEMMA RefusedIsWrong ==
    ASSUME Valid(main), batch.residue = {}, NEW p, NEW b \in Blocks, b # Genesis, Parent[b] = Top,
           b \notin BadHeader, Elems(Txs[b]) \subseteq p \union TxsOf(InMain),
           MainVerdict(p, b) # "added"
    PROVE  Wrong(b)
<1>1. main \in Seq(Blocks) /\ Len(main) \in Nat \ {0} /\ Linked(main)
  BY ZenonT(60), LengthIs DEF Valid
<1>2. ASSUME NEW i \in 1..Len(main) PROVE main[i] \in Line[b] \ {b}
  <2>1. Len(main) \in i..Len(main) /\ Len(main) \in 1..Len(main)
    BY <1>1
  <2>2. main[i] \in Line[Top]
    <3>1. main[i] \in Line[main[Len(main)]]
      BY Zenon, <1>1, <2>1, LinkedLine
    <3> QED BY Zenon, <3>1 DEF Top
  <2>3. Line[b] = {b} \union Line[Top]
    BY Zenon, TreeAssumption
  <2>4. Height[b] = Height[Top] + 1
    BY TreeAssumption
  <2>5. Height[main[i]] = i - 1 /\ Height[Top] = Len(main) - 1
    BY Zenon, <1>1, <2>1 DEF Valid, Numbered, Top
  <2>6. main[i] # b
    <3>1. i - 1 # (Len(main) - 1) + 1
      BY <1>1
    <3> QED BY ZenonT(60), <2>4, <2>5, <3>1
  <2> QED BY Zenon, <2>2, <2>3, <2>6
<1>3. ASSUME NEW t \in Written, NEW i \in 1..Len(Txs[b]), KeyImage[t] = KeyImage[Txs[b][i]]
      PROVE  Wrong(b)
  <2>1. t \in TxsOf(InMain)
    BY Zenon DEF Written
  <2>2. PICK x \in InMain : t \in Elems(Txs[x])
    BY Zenon, <2>1 DEF TxsOf
  <2>3. x \in Line[b] \ {b}
    BY Zenon, <1>2, <2>2 DEF InMain, Elems
  <2>4. Txs[b][i] \in Elems(Txs[b])
    BY Zenon DEF Elems
  <2> QED BY Zenon, <1>3, <2>2, <2>3, <2>4 DEF Wrong
<1>4. CASE b \in BadReward \/ ~check_block(b) \/ SpendsTwice(b)
  BY Zenon, <1>4 DEF Wrong
<1>5. ASSUME NEW i \in 1..Len(Txs[b]), Missing(p, b, i) PROVE Wrong(b)
  <2>1. Txs[b][i] \in Elems(Txs[b])
    BY Zenon DEF Elems
  <2>2. CASE Txs[b][i] \in Written
    BY Zenon, <1>3, <2>2
  <2>3. CASE Txs[b][i] \notin p
    <3>1. Txs[b][i] \in Written
      BY Zenon, <2>1, <2>3 DEF Written
    <3> QED BY Zenon, <1>3, <3>1
  <2>4. ASSUME NEW j \in 1..i - 1, Txs[b][j] = Txs[b][i] PROVE Wrong(b)
    <3>1. Len(Txs[b]) \in Nat
      BY TreeAssumption
    <3>2. j \in 1..Len(Txs[b]) /\ j # i
      BY <3>1
    <3> QED BY Zenon, <2>4, <3>2 DEF Wrong, SpendsTwice
  <2> QED BY Zenon, <1>5, <2>2, <2>3, <2>4 DEF Missing
<1>6. ASSUME NEW i \in 1..Len(Txs[b]), WrongInputs(b, i) PROVE Wrong(b)
  <2>1. Txs[b][i] \in Elems(Txs[b])
    BY DEF Elems
  <2>2. CASE Txs[b][i] \in BadInputs
    BY ZenonT(60), <2>1, <2>2 DEF Wrong
  <2>3. CASE KeyImage[Txs[b][i]] \in Spent
    BY Zenon, <1>3, <2>3 DEF Spent
  <2> QED BY ZenonT(60), <1>6, <2>2, <2>3 DEF WrongInputs
<1> QED BY Zenon, <1>4, <1>5, <1>6, Added

(* The transactions the node can still find.                                *)
AtHand == pool \union TxsOf(InMain)

BlameInv ==
    /\ NeverBlamesValid
    /\ alt \intersect BadHeader = {}
    /\ TxsOf(alt) \subseteq AtHand
    /\ batch.state # "closed" =>
          /\ batch.alt \intersect BadHeader = {}
          /\ TxsOf(batch.alt) \subseteq batch.pool \union TxsOf(Elems(batch.main))
    /\ reorg.mode = "connect" =>
          /\ Linked(reorg.todo)
          /\ reorg.todo # <<>> => Parent[reorg.todo[1]] = Top
    /\ reorg.mode = "push" => TxsOf(Elems(reorg.original)) \subseteq AtHand

(* No step loses a transaction of the pool and the main chain together.     *)
LEMMA AtHandGrows ==
    ASSUME ChainInv, batch.residue = {}, batch.state # "abort", ~MayDrop, Event
    PROVE  (\E k \in Nat : Restarts(k)) \/ AtHand \subseteq AtHand'
<1>0. main \in Seq(Blocks) /\ Written = TxsOf(InMain) /\ (reorg.mode # "idle" => reorg.split \in 1..Len(main))
  BY Zenon DEF ChainInv, TypeOK, Written
<1>1. ASSUME NEW q, pool \subseteq q, NEW b \in Blocks, main' = Append(main, b), pool' = q \ Elems(Txs[b])
      PROVE  AtHand \subseteq AtHand'
  <2>1. Elems(main') = InMain \union {b}
    BY <1>0, <1>1, ElemsAppend DEF InMain
  <2>2. TxsOf(Elems(main')) = TxsOf(InMain) \union Elems(Txs[b])
    <3>1. TxsOf(InMain \union {b}) = TxsOf(InMain) \union TxsOf({b})
      BY Zenon, TxsOfUnion
    <3>2. TxsOf({b}) = Elems(Txs[b])
      BY Zenon, TxsOfOne
    <3> QED BY Zenon, <2>1, <3>1, <3>2
  <2> QED BY Zenon, <1>1, <2>2 DEF AtHand, InMain
<1>2. ASSUME NEW q, pool \subseteq q, NEW k \in 1..Len(main), main' = SubSeq(main, 1, k),
             pool' = q \union TxsOf(Elems(SubSeq(main, k + 1, Len(main))))
      PROVE  AtHand \subseteq AtHand'
  <2>1. InMain = Elems(main') \union Elems(SubSeq(main, k + 1, Len(main)))
    BY Zenon, <1>0, <1>2, CutElems DEF InMain
  <2>2. TxsOf(InMain) = TxsOf(Elems(main')) \union TxsOf(Elems(SubSeq(main, k + 1, Len(main))))
    BY Zenon, <2>1, TxsOfUnion
  <2> QED BY Zenon, <1>2, <2>2 DEF AtHand, InMain
<1>3. ASSUME main' = main, pool \subseteq pool' PROVE AtHand \subseteq AtHand'
  BY Zenon, <1>3 DEF AtHand, InMain
<1>4. \A b : pool \subseteq With(b)
  BY Zenon DEF With
<1>5. CASE Quiet \/ Opens \/ Closes \/ Finishes \/ Ends \/ Merges
  <2>1. main' = main /\ pool' = pool
    BY Zenon, <1>5 DEF Quiet, Opens, Closes, Finishes, Ends, Merges
  <2> QED BY Zenon, <1>3, <2>1
<1>6. ASSUME NEW b \in Blocks, Extends(b) PROVE AtHand \subseteq AtHand'
  <2>1. \/ main' = Append(main, b) /\ pool' = With(b) \ Elems(Txs[b])
        \/ main' = main /\ pool' = With(b)
    BY Zenon, <1>6 DEF Extends
  <2> QED BY Zenon, <1>1, <1>3, <1>4, <2>1
<1>7. ASSUME NEW b \in Blocks, Stores(b) \/ Ignores(b) PROVE AtHand \subseteq AtHand'
  <2>1. main' = main /\ pool' = With(b)
    BY Zenon, <1>7 DEF Stores, Ignores
  <2> QED BY Zenon, <1>3, <1>4, <2>1
<1>8. ASSUME NEW b \in Blocks, Switches(b) PROVE AtHand \subseteq AtHand'
  <2>1. /\ reorg'.split \in 1..Len(main) /\ main' = SubSeq(main, 1, reorg'.split)
        /\ pool' = With(b) \union TxsOf(Elems(SubSeq(main, reorg'.split + 1, Len(main))))
    BY Zenon, <1>8 DEF Switches
  <2> QED BY ZenonT(60), <1>2, <1>4, <2>1
<1>9. ASSUME NEW b \in Blocks, Connects(b) \/ Restores(b) PROVE AtHand \subseteq AtHand'
  <2>1. main' = Append(main, b) /\ pool' = pool \ Elems(Txs[b])
    BY Zenon, <1>9 DEF Connects, Restores
  <2> QED BY Zenon, <1>1, <2>1
<1>10. ASSUME NEW b \in Blocks, Fails(b) PROVE AtHand \subseteq AtHand'
  <2>1. /\ reorg.split \in 1..Len(main) /\ main' = SubSeq(main, 1, reorg.split)
        /\ pool' = pool \union TxsOf(Elems(SubSeq(main, reorg.split + 1, Len(main))))
    BY Zenon, <1>0, <1>10 DEF Fails
  <2> QED BY ZenonT(60), <1>2, <2>1
<1>11. ASSUME NEW b \in Blocks, Panics(b) \/ Pushes(b) PROVE AtHand \subseteq AtHand'
  <2>1. main' = main /\ pool' = pool
    BY Zenon, <1>11 DEF Panics, Pushes
  <2> QED BY Zenon, <1>3, <2>1
<1>12. ASSUME NEW k \in 1..Len(main), Cuts(k) PROVE AtHand \subseteq AtHand'
  <2>1. /\ main' = SubSeq(main, 1, k)
        /\ pool' = pool \union TxsOf(Elems(SubSeq(main, k + 1, Len(main))))
    BY Zenon, <1>12 DEF Cuts
  <2> QED BY Zenon, <1>2, <2>1
<1>13. ASSUME NEW t \in Tx, Drops(t) PROVE FALSE
  BY Zenon, <1>13 DEF Drops
<1> QED
  BY ZenonT(60), <1>5, <1>6, <1>7, <1>8, <1>9, <1>10, <1>11, <1>12, <1>13 DEF Event

LEMMA BlameStep ==
    Once /\ ~MayDrop /\ ChainInv /\ RestoreInv /\ Apart /\ BlameInv /\ [Next]_vars => BlameInv'
<1> SUFFICES ASSUME Once, ~MayDrop, ChainInv, RestoreInv, Apart, BlameInv, [Next]_vars PROVE BlameInv'
  OBVIOUS
<1>e. Event
  BY Events
<1>0. /\ Valid(main) /\ main \in Seq(Blocks) /\ Len(main) \in Nat \ {0}
      /\ alt \subseteq Blocks /\ Genesis \notin alt /\ Genesis \notin Elems(reorg.todo)
      /\ reorg \in ReorgType /\ batch \in BatchType
      /\ batch.state # "closed" => Valid(batch.main)
      /\ reorg.mode # "idle" => batch.state # "closed" /\ reorg.split \in 1..Len(main)
      /\ batch.state # "abort" /\ batch.residue = {}
  BY ZenonT(60), TypeIs, LengthIs DEF ChainInv, Valid, RestoreInv, Once
<1>00. /\ reorg.todo \in Seq(Blocks) /\ reorg.chain \in Seq(Blocks) /\ reorg.original \in Seq(Blocks)
       /\ reorg.mode \in {"idle", "connect", "restore", "push"}
       /\ Written = TxsOf(InMain)
  BY Zenon, <1>0 DEF ReorgType, Written
<1>01. (\E k \in Nat : Restarts(k)) \/ AtHand \subseteq AtHand'
  BY Zenon, <1>e, <1>0, AtHandGrows
<1>02. ASSUME points \subseteq points', NEW a, Wrong(a) PROVE Wrong(a)'
  BY Zenon, <1>02 DEF Wrong, check_block
<1>03. ASSUME points \subseteq points', invalid' \subseteq invalid PROVE NeverBlamesValid'
  BY Zenon, <1>02, <1>03 DEF BlameInv, NeverBlamesValid
<1>04. ASSUME NEW b \in Blocks PROVE Elems(Txs[b]) \subseteq With(b) \union TxsOf(InMain)
  BY Zenon, <1>00 DEF With
<1>05. ASSUME AtHand \subseteq AtHand', alt' \subseteq alt PROVE TxsOf(alt') \subseteq AtHand'
  BY Zenon, <1>05 DEF BlameInv, TxsOf
<1>2. CASE Quiet
  <2>1. AtHand' = AtHand /\ NeverBlamesValid'
    BY Zenon, <1>2, <1>03 DEF Quiet, AtHand, InMain
  <2> QED BY Zenon, <1>2, <2>1 DEF Quiet, BlameInv, Top
<1>3. CASE Opens
  <2>1. AtHand' = AtHand /\ NeverBlamesValid' /\ AtHand = pool \union TxsOf(Elems(main))
    BY Zenon, <1>3, <1>03 DEF Opens, AtHand, InMain
  <2> QED BY Zenon, <1>3, <2>1 DEF Opens, BlameInv, Top
<1>4. CASE Closes
  <2>1. AtHand' = AtHand /\ NeverBlamesValid'
    BY ZenonT(60), <1>0, <1>4, <1>03 DEF Closes, AtHand, InMain
  <2> QED BY Zenon, <1>0, <1>4, <2>1 DEF Closes, BlameInv, Top
<1>5. ASSUME NEW b \in Blocks, Extends(b) PROVE BlameInv'
  <2> DEFINE v == MainVerdict(With(b), b)
  <2>1. /\ reorg' = reorg /\ reorg.mode = "idle" /\ alt' = alt /\ b # Genesis /\ Parent[b] = Top
        /\ invalid' = IF v = "invalid" THEN invalid \union {b} ELSE invalid
        /\ InBatch /\ points' = points
    BY Zenon, <1>5 DEF Extends, Arrives, InBatch
  <2>2. AtHand \subseteq AtHand'
    BY Zenon, <1>01, <2>1 DEF InBatch, Restarts
  <2>3. NeverBlamesValid'
    <3>1. CASE v # "invalid"
      BY Zenon, <1>03, <2>1, <3>1
    <3>2. CASE v = "invalid"
      <4>1. b \notin BadHeader
        BY Zenon, <3>2, InvalidHeader
      <4>2. Wrong(b)
        BY ZenonT(60), <1>0, <1>04, <2>1, <3>2, <4>1, RefusedIsWrong
      <4>3. b \in Line[b] /\ Wrong(b)'
        BY ZenonT(60), <1>02, <2>1, <4>2, LineIs
      <4>4. \A x \in invalid : \E a \in Line[x] : Wrong(a)'
        BY Zenon, <1>02, <2>1 DEF BlameInv, NeverBlamesValid
      <4> QED BY Zenon, <2>1, <4>3, <4>4 DEF NeverBlamesValid
    <3> QED BY Zenon, <3>1, <3>2
  <2> HIDE DEF v
  <2> QED BY ZenonT(60), <1>05, <2>1, <2>2, <2>3 DEF BlameInv, InBatch
<1>6. ASSUME NEW b \in Blocks, pool' = With(b), main' = main PROVE TxsOf({b}) \subseteq AtHand'
  BY Zenon, <1>04, <1>6, TxsOfOne DEF AtHand, InMain
<1>7. ASSUME NEW b \in Blocks, Stores(b) \/ Ignores(b) PROVE BlameInv'
  <2>1. /\ reorg' = reorg /\ reorg.mode = "idle" /\ InBatch /\ points' = points /\ invalid' = invalid
        /\ alt' = alt \/ (alt' = alt \union {b} /\ b \notin BadHeader)
        /\ main' = main /\ pool' = With(b)
    BY Zenon, <1>7 DEF Stores, Ignores, Arrives, InBatch, StoredAsAlternative
  <2>2. AtHand \subseteq AtHand'
    BY ZenonT(60), <1>01, <2>1 DEF InBatch, Restarts
  <2>3. TxsOf(alt) \subseteq AtHand' /\ TxsOf({b}) \subseteq AtHand'
    BY Zenon, <1>6, <2>1, <2>2 DEF BlameInv
  <2>4. TxsOf(alt') \subseteq AtHand'
    BY <2>1, <2>3, TxsOfUnion
  <2> QED BY ZenonT(60), <1>03, <2>1, <2>4 DEF BlameInv, InBatch
<1>8. ASSUME NEW b \in Blocks, Switches(b) PROVE BlameInv'
  <2>1. /\ b # Genesis /\ InBatch /\ points' = points /\ StoredAsAlternative(b) /\ invalid' = invalid
        /\ reorg'.mode = "connect" /\ reorg'.todo = SwitchChain(b)
        /\ Height[SwitchChain(b)[1]] \in 1..Len(main) /\ alt' = alt \union {b}
        /\ main' = SubSeq(main, 1, Height[SwitchChain(b)[1]])
        /\ pool' = With(b) \union TxsOf(Elems(reorg'.original))
        /\ reorg'.original = SubSeq(main, Height[SwitchChain(b)[1]] + 1, Len(main))
    BY Zenon, <1>8 DEF Switches, Arrives, InBatch
  <2>2. AtHand \subseteq AtHand'
    BY Zenon, <1>01, <2>1 DEF InBatch, Restarts
  <2>3. TxsOf({b}) \subseteq AtHand'
    <3>1. Elems(Txs[b]) \subseteq With(b) \union AtHand
      BY <1>04 DEF AtHand
    <3>2. With(b) \subseteq AtHand'
      BY Zenon, <2>1 DEF AtHand
    <3> QED BY ZenonT(60), <2>2, <3>1, <3>2, TxsOfOne
  <2>4. TxsOf(alt') \subseteq AtHand'
    <3>1. TxsOf(alt) \subseteq AtHand
      BY Zenon DEF BlameInv
    <3> QED BY <2>1, <2>2, <2>3, <3>1, TxsOfUnion
  <2>5. alt' \intersect BadHeader = {}
    BY Zenon, <2>1 DEF StoredAsAlternative, BlameInv
  <2>6. Linked(SwitchChain(b)) /\ Parent[SwitchChain(b)[1]] = main[Height[SwitchChain(b)[1]]]
    BY ZenonT(60), <1>0, <2>1, SwitchChainLinked DEF StoredAsAlternative
  <2> DEFINE k == Height[SwitchChain(b)[1]]
  <2>7. main'[Len(main')] = main[k]
    <3>1. main' = SubSeq(main, 1, k) /\ k \in 1..Len(main) /\ k \in 0..Len(main)
      BY <1>0, <2>1
    <3> HIDE DEF k
    <3>2. Len(SubSeq(main, 1, k)) = k /\ \A i \in 1..k : SubSeq(main, 1, k)[i] = main[i]
      BY <1>0, <3>1, ElemsPrefix
    <3>3. k \in 1..k
      BY <1>0, <3>1
    <3> QED BY <3>1, <3>2, <3>3
  <2>8. Linked(reorg'.todo) /\ Parent[reorg'.todo[1]] = Top'
    BY ZenonT(60), <2>1, <2>6, <2>7 DEF Top
  <2>9. Linked(reorg.todo)' <=> Linked(reorg'.todo)
    BY DEF Linked
  <2> QED BY ZenonT(60), <1>03, <2>1, <2>4, <2>5, <2>8, <2>9 DEF BlameInv, InBatch
<1>9. ASSUME NEW b \in Blocks, Connects(b) PROVE BlameInv'
  <2>1. /\ reorg.mode = "connect" /\ reorg'.mode = "connect" /\ points' = points
        /\ reorg.todo # <<>> /\ b = Head(reorg.todo) /\ reorg'.todo = Tail(reorg.todo)
        /\ main' = Append(main, b) /\ alt' = alt /\ invalid' = invalid /\ InBatch
    BY ZenonT(60), <1>9 DEF Connects, InBatch
  <2>2. AtHand \subseteq AtHand'
    BY Zenon, <1>01, <2>1 DEF InBatch, Restarts
  <2> DEFINE s == reorg.todo
             t == reorg'.todo
  <2>3. /\ s \in Seq(Blocks) /\ Len(s) \in Nat \ {0} /\ Head(s) = s[1] /\ t = Tail(s)
        /\ \A i \in 2..Len(s) : s[i] # Genesis /\ Parent[s[i]] = s[i - 1]
    BY <1>00, <2>1 DEF BlameInv, Linked
  <2>4. b = s[1] /\ Top' = b
    BY <1>0, <2>1, <2>3 DEF Top
  <2> HIDE DEF s, t
  <2>5. Len(t) = Len(s) - 1 /\ \A i \in 1..Len(s) - 1 : t[i] = s[i + 1]
    BY <2>3
  <2>6. \A i \in 2..Len(t) : t[i] # Genesis /\ Parent[t[i]] = t[i - 1]
    <3>1. SUFFICES ASSUME NEW i \in 2..Len(t) PROVE t[i] # Genesis /\ Parent[t[i]] = t[i - 1]
      BY Zenon
    <3>2. /\ i \in 1..Len(s) - 1 /\ i - 1 \in 1..Len(s) - 1 /\ i + 1 \in 2..Len(s)
          /\ (i - 1) + 1 = i /\ (i + 1) - 1 = i
      BY <2>3, <2>5
    <3>3. t[i] = s[i + 1] /\ t[i - 1] = s[i]
      BY Zenon, <2>5, <3>2
    <3> QED BY Zenon, <2>3, <3>2, <3>3
  <2>7. t # <<>> => Parent[t[1]] = b
    <3>1. SUFFICES ASSUME t # <<>> PROVE Parent[t[1]] = b
      BY Zenon
    <3>2. t \in Seq(Blocks)
      BY <2>3
    <3>3. Len(t) # 0
      BY <3>1, <3>2
    <3>4. 1 \in 1..Len(s) - 1 /\ 2 \in 2..Len(s) /\ 1 + 1 = 2 /\ 2 - 1 = 1
      BY <2>3, <2>5, <3>3
    <3>5. t[1] = s[2] /\ Parent[s[2]] = s[1]
      BY ZenonT(60), <2>3, <2>5, <3>4
    <3> QED BY Zenon, <2>4, <3>5
  <2>8. Linked(reorg.todo)' /\ (reorg'.todo # <<>> => Parent[reorg'.todo[1]] = Top')
    BY Zenon, <2>4, <2>6, <2>7 DEF Linked, t
  <2> QED BY ZenonT(60), <1>03, <1>05, <2>1, <2>2, <2>8 DEF BlameInv, InBatch
<1>10. ASSUME NEW b \in Blocks, Fails(b) PROVE BlameInv'
  <2>1. /\ reorg.mode = "connect" /\ reorg'.mode = "restore" /\ points' = points
        /\ reorg.todo # <<>> /\ b = Head(reorg.todo) /\ MainVerdict(pool, b) # "added"
        /\ alt' = alt \ Elems(reorg.todo) /\ invalid' = invalid \union Elems(reorg.todo) /\ InBatch
    BY ZenonT(60), <1>10 DEF Fails, InBatch
  <2>2. AtHand \subseteq AtHand'
    BY Zenon, <1>01, <2>1 DEF InBatch, Restarts
  <2>3. /\ Linked(reorg.todo) /\ Parent[b] = Top /\ b = reorg.todo[1] /\ b \in Elems(reorg.todo)
        /\ Len(reorg.todo) \in Nat \ {0}
    BY <1>00, <2>1, ElemsTail DEF BlameInv
  <2>4. b \in alt /\ b # Genesis
    BY Zenon, <1>0, <2>1, <2>3 DEF Apart, Connecting
  <2>5. b \notin BadHeader /\ Elems(Txs[b]) \subseteq pool \union TxsOf(InMain)
    BY Zenon, <2>4 DEF BlameInv, AtHand, TxsOf
  <2>6. Wrong(b)
    BY ZenonT(60), <1>0, <2>1, <2>3, <2>4, <2>5, RefusedIsWrong
  <2>7. ASSUME NEW x \in Elems(reorg.todo) PROVE b \in Line[x]
    <3>1. PICK j \in 1..Len(reorg.todo) : x = reorg.todo[j]
      BY Zenon DEF Elems
    <3>2. 1 \in 1..Len(reorg.todo)
      BY <2>3
    <3> QED BY ZenonT(60), <1>00, <2>3, <3>1, <3>2, LinkedLine
  <2>8. Wrong(b)' /\ \A x \in invalid : \E a \in Line[x] : Wrong(a)'
    BY ZenonT(60), <1>02, <2>1, <2>6 DEF BlameInv, NeverBlamesValid
  <2>9. NeverBlamesValid'
    BY ZenonT(60), <2>1, <2>7, <2>8 DEF NeverBlamesValid
  <2> QED BY Zenon, <1>05, <2>1, <2>2, <2>9 DEF BlameInv, InBatch
<1>11. CASE Finishes
  <2>1. /\ reorg.mode = "connect" /\ reorg'.mode = "push" /\ reorg'.original = reorg.original
        /\ UNCHANGED <<main, alt, invalid, pool, points, batch>>
    BY Zenon, <1>11 DEF Finishes, SwitchKept
  <2>2. TxsOf(Elems(reorg.original)) \subseteq
            pool \union TxsOf(Elems(SubSeq(main, reorg.split + 1, Len(main))))
    BY ZenonT(60), <2>1 DEF RestoreInv, Returns
  <2>3. TxsOf(Elems(SubSeq(main, reorg.split + 1, Len(main)))) \subseteq TxsOf(InMain)
    <3>1. Elems(SubSeq(main, reorg.split + 1, Len(main))) \subseteq InMain
      BY Zenon, <1>0, <2>1, CutElems DEF InMain
    <3> QED BY Zenon, <3>1 DEF TxsOf
  <2>4. AtHand' = AtHand /\ TxsOf(Elems(reorg.original)) \subseteq AtHand
    BY ZenonT(60), <2>1, <2>2, <2>3 DEF AtHand, InMain
  <2> QED BY ZenonT(60), <1>03, <2>1, <2>4 DEF BlameInv
<1>12. ASSUME NEW b \in Blocks, Restores(b) PROVE BlameInv'
  <2>1. /\ reorg.mode = "restore" /\ reorg'.mode = "restore" /\ points' = points
        /\ alt' = alt /\ invalid' = invalid /\ InBatch
    BY Zenon, <1>12 DEF Restores, InBatch
  <2>2. AtHand \subseteq AtHand'
    BY Zenon, <1>01, <2>1 DEF InBatch, Restarts
  <2> QED BY Zenon, <1>03, <1>05, <2>1, <2>2 DEF BlameInv, InBatch
<1>13. ASSUME NEW b \in Blocks, Panics(b) PROVE BlameInv'
  BY Zenon, <1>0, <1>13, NoPanic
<1>14. CASE Ends
  <2>1. AtHand' = AtHand /\ NeverBlamesValid'
    BY Zenon, <1>14, <1>03 DEF Ends, AtHand, InMain
  <2> QED BY Zenon, <1>14, <2>1 DEF Ends, BlameInv
<1>15. ASSUME NEW b \in Blocks, Pushes(b) PROVE BlameInv'
  <2>1. /\ reorg.mode = "push" /\ reorg'.mode = "push" /\ reorg'.original = reorg.original
        /\ reorg.todo # <<>> /\ b = Head(reorg.todo)
        /\ alt' = alt \/ (alt' = alt \union {b} /\ b \notin BadHeader)
        /\ UNCHANGED <<main, invalid, pool, points, batch>>
    BY Zenon, <1>15 DEF Pushes, SwitchKept, StoredAsAlternative
  <2>2. AtHand' = AtHand
    BY Zenon, <2>1 DEF AtHand, InMain
  <2>3. b \in Elems(reorg.original)
    BY ZenonT(60), <1>00, <2>1, ElemsTail DEF Apart, Pushing
  <2>4. TxsOf({b}) \subseteq AtHand /\ TxsOf(alt) \subseteq AtHand
    BY ZenonT(60), <2>1, <2>3 DEF BlameInv, TxsOf
  <2>5. TxsOf(alt') \subseteq AtHand
    BY <2>1, <2>4, TxsOfUnion
  <2> QED BY Zenon, <1>03, <2>1, <2>2, <2>5 DEF BlameInv
<1>16. CASE Merges
  <2>1. AtHand' = AtHand /\ NeverBlamesValid'
    BY Zenon, <1>16, <1>03 DEF Merges, AtHand, InMain
  <2>2. TxsOf(alt') \subseteq AtHand'
    BY ZenonT(60), <1>05, <1>16, <2>1 DEF Merges
  <2> QED BY ZenonT(60), <1>16, <2>1, <2>2 DEF Merges, BlameInv
<1>17. ASSUME NEW k \in 1..Len(main), Cuts(k) PROVE BlameInv'
  <2>1. /\ reorg.mode = "idle" /\ points \subseteq points' /\ UNCHANGED <<alt, invalid, reorg, batch>>
    BY Zenon, <1>17 DEF Cuts
  <2>3. AtHand \subseteq AtHand'
    <3>1. InMain = Elems(SubSeq(main, 1, k)) \union Elems(SubSeq(main, k + 1, Len(main)))
      BY Zenon, <1>0, CutElems DEF InMain
    <3>2. TxsOf(InMain) = TxsOf(Elems(SubSeq(main, 1, k))) \union TxsOf(Elems(SubSeq(main, k + 1, Len(main))))
      BY Zenon, <3>1, TxsOfUnion
    <3> QED BY Zenon, <1>17, <3>2 DEF Cuts, AtHand, InMain
  <2> QED BY Zenon, <1>03, <1>05, <2>1, <2>3 DEF BlameInv
<1>18. ASSUME NEW t \in Tx, Drops(t) PROVE BlameInv'
  BY Zenon, <1>18 DEF Drops
<1>19. ASSUME NEW k \in Nat, Restarts(k) PROVE BlameInv'
  <2> DEFINE m == IF batch.state = "closed" THEN main ELSE batch.main
             a == IF batch.state = "closed" THEN alt ELSE batch.alt
             p == IF batch.state = "closed" THEN pool ELSE batch.pool
  <2>1. /\ k \in 1..Len(m) /\ main' = SubSeq(m, 1, k) /\ alt' \in {a, {}} /\ invalid' = {}
        /\ pool' = p \union TxsOf(Elems(SubSeq(m, k + 1, Len(m))))
        /\ reorg'.mode = "idle" /\ batch'.state = "closed"
    BY <1>19 DEF Restarts
  <2>2. /\ a \intersect BadHeader = {} /\ TxsOf(a) \subseteq p \union TxsOf(Elems(m))
    BY ZenonT(60) DEF BlameInv, AtHand, InMain
  <2>3. m \in Seq(Blocks)
    BY Zenon, <1>0 DEF Valid
  <2> HIDE DEF m, a, p
  <2>4. Elems(m) = Elems(SubSeq(m, 1, k)) \union Elems(SubSeq(m, k + 1, Len(m)))
    BY Zenon, <2>1, <2>3, CutElems
  <2>5. TxsOf(Elems(m)) = TxsOf(Elems(SubSeq(m, 1, k))) \union TxsOf(Elems(SubSeq(m, k + 1, Len(m))))
    BY Zenon, <2>4, TxsOfUnion
  <2>6. TxsOf(a) \subseteq AtHand'
    BY Zenon, <2>1, <2>2, <2>5 DEF AtHand, InMain
  <2>7. TxsOf(alt') \subseteq AtHand' /\ alt' \intersect BadHeader = {}
    BY Zenon, <2>1, <2>2, <2>6 DEF TxsOf
  <2> QED BY ZenonT(60), <2>1, <2>7 DEF BlameInv, NeverBlamesValid
<1> QED
  BY ZenonT(60), <1>e, <1>2, <1>3, <1>4, <1>5, <1>7, <1>8, <1>9, <1>10, <1>11, <1>12, <1>13, <1>14, <1>15,
     <1>16, <1>17, <1>18, <1>19 DEF Event

(* A block is marked as invalid only if it or an ancestor is wrong in a way *)
(* no order of events changes: no switch, roll back, pop or restart makes   *)
(* a node refuse a good block for good.  Assumed are that no block spends a *)
(* key image twice (the transactions an aborted batch leaves behind would   *)
(* be held against blocks returned), and that no transaction of an          *)
(* alternative block expires from the pool before the block is connected.   *)
THEOREM OnlyWrongBlamed == Once /\ ~MayDrop => (Spec => []NeverBlamesValid)
<1> SUFFICES ASSUME Once, ~MayDrop PROVE Spec => []NeverBlamesValid
  OBVIOUS
<1> DEFINE I == ChainInv /\ RestoreInv /\ Apart /\ BlameInv
<1>1. Calm
  BY DEF Calm, Once
<1>2. Init => I
  <2>1. Init => BlameInv
    <3> SUFFICES ASSUME Init PROVE BlameInv
      BY Zenon
    <3>1. invalid = {} /\ alt = {} /\ batch.state = "closed" /\ reorg.mode = "idle"
      BY DEF Init, Idle, Closed
    <3>2. TxsOf(alt) = {}
      BY Zenon, <3>1 DEF TxsOf
    <3> QED BY Zenon, <3>1, <3>2 DEF BlameInv, NeverBlamesValid
  <2> QED BY Zenon, <2>1, ChainInit, RestoreInit, ApartInit
<1>3. I /\ [Next]_vars => I'
  BY Zenon, <1>1, ChainStep, RestoreStep, ApartStep, BlameStep
<1>4. I => NeverBlamesValid
  BY DEF BlameInv
<1> QED BY <1>2, <1>3, <1>4, PTL DEF Spec
=============================================================================
