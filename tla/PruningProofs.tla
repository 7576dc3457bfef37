---------------------------- MODULE PruningProofs ----------------------------
(***************************************************************************)
(* What the pruned database keeps, for every stripe size, number of        *)
(* stripes, size of the tip and chain.                                     *)
(*                                                                         *)
(* The stripe of a block does not depend on the height of the chain: it    *)
(* only takes effect once the block leaves the tip.  Claimed is therefore  *)
(* anti-monotonic in the height (ClaimsShrink), and the second theorem     *)
(* rests on an invariant in which the height does not appear.              *)
(***************************************************************************)
EXTENDS Pruning, TLAPS

(* A block outside the seed's stripe, whether it has left the tip or not.   *)
OtherStripe(h, s) ==
    /\ SeedStripe(s) # 0
    /\ ((h \div StripeSize) % NumStripes) + 1 # SeedStripe(s)

(* Every stored transaction that will have to be pruned is recorded.        *)
Recorded ==
    \A h \in txs_prunable : OtherStripe(h, seed) /\ h \notin V1Txs => h \in txs_prunable_tip

-----------------------------------------------------------------------------
(* A block that is claimed is of the seed's stripe, or in the tip.          *)
LEMMA ClaimedMeans ==
    ASSUME NEW h \in Nat, NEW H \in Nat, NEW s
    PROVE  has_unpruned_block(h, H, s) <=> ~OtherStripe(h, s) \/ h + TipBlocks >= H
  <1> DEFINE st == ((h \div StripeSize) % NumStripes) + 1
  <1>1. st # 0
    <2>1. h \div StripeSize \in Nat
      BY SizesAssumption
    <2>2. (h \div StripeSize) % NumStripes \in Nat
      BY <2>1, SizesAssumption
    <2> QED
      BY <2>2
  <1>2. get_pruning_stripe(h, H) = IF h + TipBlocks >= H THEN 0 ELSE st
    BY DEF get_pruning_stripe
  <1>3. OtherStripe(h, s) <=> SeedStripe(s) # 0 /\ st # SeedStripe(s)
    BY DEF OtherStripe
  <1>4. has_unpruned_block(h, H, s) <=> \/ SeedStripe(s) = 0
                                        \/ get_pruning_stripe(h, H) = 0
                                        \/ get_pruning_stripe(h, H) = SeedStripe(s)
    BY DEF has_unpruned_block
  <1> HIDE DEF st
  <1> QED
    BY <1>1, <1>2, <1>3, <1>4

(* What is claimed at a height was claimed at every smaller one.            *)
LEMMA ClaimsShrink ==
    ASSUME NEW h \in Nat, NEW H \in Nat, NEW s, has_unpruned_block(h, H + 1, s)
    PROVE  has_unpruned_block(h, H, s)
  BY ClaimedMeans, SizesAssumption

(* A chain without a seed claims every block.                               *)
LEMMA NoSeedClaimsAll ==
    ASSUME NEW h, NEW H
    PROVE  has_unpruned_block(h, H, 0)
  BY DEF has_unpruned_block, SeedStripe

LEMMA PassSeedsAreSeeds == ASSUME TypeOK PROVE PassSeeds \subseteq Seeds
  BY DEF TypeOK, PassSeeds, Seeds

-----------------------------------------------------------------------------
LEMMA TypeInit == Init => TypeOK
  BY DEF Init, TypeOK, Seeds

(* A pass, complete or not, keeps the types of the tables.                  *)
LEMMA PassType ==
    ASSUME TypeOK, NEW s \in PassSeeds, NEW done \in SUBSET (0..(height - 1)),
           PassOver(done, s)
    PROVE  /\ seed' \in Seeds
           /\ txs_prunable' \subseteq 0..(height - 1)
           /\ txs_prunable_tip' \subseteq 0..(height - 1)
  BY Zenon, PassSeedsAreSeeds DEF TypeOK, PassOver

LEMMA UpdateType ==
    ASSUME TypeOK, NEW done, UpdateOver(done)
    PROVE  /\ seed' \in Seeds
           /\ txs_prunable' \subseteq 0..(height - 1)
           /\ txs_prunable_tip' \subseteq 0..(height - 1)
  BY Zenon DEF TypeOK, UpdateOver

LEMMA TypeStep == TypeOK /\ [Next]_vars => TypeOK'
  <1> SUFFICES ASSUME TypeOK, [Next]_vars PROVE TypeOK'
    OBVIOUS
  <1>1. CASE add_transaction_data
    BY <1>1 DEF TypeOK, add_transaction_data
  <1>2. CASE remove_transaction_data
    BY <1>2 DEF TypeOK, remove_transaction_data
  <1>3. CASE prune_blockchain
    <2>1. PICK s \in PassSeeds : PassOver(0..(height - 1), s)
      BY <1>3 DEF prune_blockchain
    <2>2. UNCHANGED <<height, pops, stops>>
      BY <1>3 DEF prune_blockchain
    <2> QED
      BY <2>1, <2>2, PassType DEF TypeOK
  <1>4. CASE update_pruning
    BY <1>4, UpdateType DEF TypeOK, update_pruning
  <1>5. CASE PruneStopped
    <2>1. PICK s \in PassSeeds, done \in SUBSET (0..(height - 1)) : PassOver(done, s)
      BY <1>5 DEF PruneStopped
    <2>2. UNCHANGED <<height, pops>> /\ stops' = stops + 1
      BY <1>5 DEF PruneStopped
    <2> QED
      BY <2>1, <2>2, PassType DEF TypeOK
  <1>6. CASE UpdateStopped
    <2>1. PICK last \in txs_prunable_tip : UpdateOver({h \in txs_prunable_tip : h <= last})
      BY <1>6 DEF UpdateStopped
    <2>2. UNCHANGED <<height, pops>> /\ stops' = stops + 1
      BY <1>6 DEF UpdateStopped
    <2> QED
      BY <2>1, <2>2, UpdateType DEF TypeOK
  <1>7. CASE UNCHANGED vars
    BY <1>7 DEF TypeOK, vars
  <1> QED
    BY <1>1, <1>2, <1>3, <1>4, <1>5, <1>6, <1>7 DEF Next

-----------------------------------------------------------------------------
(* A pass deletes nothing that is claimed with its seed.                    *)
LEMMA PassKeepsClaims ==
    ASSUME TypeOK, HasWhatItClaims, height' = height,
           NEW s \in PassSeeds, NEW done, PassOver(done, s)
    PROVE  HasWhatItClaims'
  <1> SUFFICES ASSUME NEW h \in 0..(height - 1), has_unpruned_block(h, height, s)
               PROVE  h \in txs_prunable'
    BY DEF HasWhatItClaims, PassOver, has_unpruned_block, get_pruning_stripe
  <1>1. has_unpruned_block(h, height, seed)
    BY NoSeedClaimsAll DEF PassSeeds
  <1>2. h \in txs_prunable
    BY <1>1 DEF HasWhatItClaims
  <1> QED
    BY <1>2 DEF PassOver, Prunable

LEMMA UpdateKeepsClaims ==
    ASSUME HasWhatItClaims, height' = height, NEW done, UpdateOver(done)
    PROVE  HasWhatItClaims'
  BY DEF HasWhatItClaims, UpdateOver, Prunable, has_unpruned_block, get_pruning_stripe

LEMMA ClaimsStep ==
    ASSUME TypeOK, ClaimsUntilPopped, [Next]_vars
    PROVE  ClaimsUntilPopped'
  <1> SUFFICES ASSUME pops' = 0 PROVE HasWhatItClaims'
    BY DEF ClaimsUntilPopped
  <1>8. pops \in Nat
    BY DEF TypeOK
  <1>9. CASE remove_transaction_data
    BY <1>8, <1>9 DEF remove_transaction_data
  <1> SUFFICES ASSUME ~remove_transaction_data PROVE HasWhatItClaims'
    BY <1>9
  <1>10. pops = 0
    BY DEF Next, vars, add_transaction_data, prune_blockchain, update_pruning,
           PruneStopped, UpdateStopped
  <1>11. HasWhatItClaims
    BY <1>10 DEF ClaimsUntilPopped
  <1>1. CASE add_transaction_data
    <2> SUFFICES ASSUME NEW h \in 0..height, has_unpruned_block(h, height + 1, seed)
                 PROVE  h \in txs_prunable \union {height}
      <3>1. height' = height + 1 /\ seed' = seed
            /\ txs_prunable' = txs_prunable \union {height}
        BY <1>1 DEF add_transaction_data
      <3>2. height \in Nat
        BY DEF TypeOK
      <3> QED
        BY <3>1, <3>2 DEF HasWhatItClaims, has_unpruned_block, get_pruning_stripe
    <2>1. CASE h = height
      BY <2>1
    <2>2. CASE h # height
      <3>1. h \in 0..(height - 1) /\ h \in Nat /\ height \in Nat
        BY <2>2 DEF TypeOK
      <3>2. has_unpruned_block(h, height, seed)
        BY <3>1, ClaimsShrink
      <3> QED
        BY <1>11, <3>1, <3>2 DEF HasWhatItClaims
    <2> QED
      BY <2>1, <2>2
  <1>3. CASE prune_blockchain
    BY <1>3, <1>11, PassKeepsClaims DEF prune_blockchain
  <1>4. CASE update_pruning
    BY <1>4, <1>11, UpdateKeepsClaims DEF update_pruning
  <1>5. CASE PruneStopped
    BY <1>5, <1>11, PassKeepsClaims DEF PruneStopped
  <1>6. CASE UpdateStopped
    <2>1. PICK last \in txs_prunable_tip : UpdateOver({h \in txs_prunable_tip : h <= last})
      BY <1>6 DEF UpdateStopped
    <2> QED
      BY <1>6, <1>11, <2>1, UpdateKeepsClaims DEF UpdateStopped
  <1>7. CASE UNCHANGED vars
    BY <1>7, <1>11 DEF HasWhatItClaims, vars, has_unpruned_block, get_pruning_stripe
  <1> QED
    BY <1>1, <1>3, <1>4, <1>5, <1>6, <1>7 DEF Next

(* Until its first pop a chain has the full data of every block that its    *)
(* seed and its height tell other nodes to ask it for, passes that are cut  *)
(* short at a checkpoint (prune_worker, db_lmdb.cpp) included.              *)
THEOREM ClaimsHold == Spec => []ClaimsUntilPopped
  <1>1. Init => TypeOK /\ ClaimsUntilPopped
    <2>1. Init => HasWhatItClaims
      BY DEF Init, HasWhatItClaims
    <2> QED
      BY <2>1, TypeInit DEF ClaimsUntilPopped
  <1>2. (TypeOK /\ ClaimsUntilPopped) /\ [Next]_vars => (TypeOK /\ ClaimsUntilPopped)'
    BY TypeStep, ClaimsStep
  <1> QED
    BY <1>1, <1>2, PTL DEF Spec

-----------------------------------------------------------------------------
(* A complete pass records the tip and prunes the rest.                     *)
LEMMA PassRecords ==
    ASSUME TypeOK, Recorded, NEW s \in PassSeeds, PassOver(0..(height - 1), s)
    PROVE  Recorded'
  <1> SUFFICES ASSUME NEW h \in txs_prunable, ~Prunable(h, s), OtherStripe(h, s), h \notin V1Txs
               PROVE  h + TipBlocks >= height
    BY DEF Recorded, PassOver, TypeOK, OtherStripe
  <1>1. has_unpruned_block(h, height, s)
    BY DEF Prunable
  <1>2. h \in Nat /\ height \in Nat
    BY DEF TypeOK
  <1> QED
    BY <1>1, <1>2, ClaimedMeans

(* An update, complete or not, drops the record of a block only when it has *)
(* decided about it.                                                        *)
LEMMA UpdateRecords ==
    ASSUME TypeOK, Recorded, NEW done, UpdateOver(done)
    PROVE  Recorded'
  <1> SUFFICES ASSUME NEW h \in txs_prunable, h \in done, h + TipBlocks < height,
                      OtherStripe(h, seed), h \notin V1Txs
               PROVE  Prunable(h, seed)
    BY DEF Recorded, UpdateOver, OtherStripe
  <1>1. h \in Nat /\ height \in Nat
    BY DEF TypeOK
  <1>2. ~has_unpruned_block(h, height, seed)
    BY <1>1, ClaimedMeans, SizesAssumption
  <1> QED
    BY <1>2 DEF Prunable

LEMMA RecordedStep ==
    ASSUME TypeOK, stops = 0 => Recorded, [Next]_vars
    PROVE  stops' = 0 => Recorded'
  <1> SUFFICES ASSUME stops' = 0 PROVE Recorded'
    OBVIOUS
  <1>8. stops \in Nat
    BY DEF TypeOK
  <1>5. CASE PruneStopped
    BY <1>5, <1>8 DEF PruneStopped
  <1>6. CASE UpdateStopped
    BY <1>6, <1>8 DEF UpdateStopped
  <1> SUFFICES ASSUME ~PruneStopped, ~UpdateStopped PROVE Recorded'
    BY <1>5, <1>6
  <1>9. Recorded
    BY DEF Next, vars, add_transaction_data, remove_transaction_data, prune_blockchain,
           update_pruning
  <1>1. CASE add_transaction_data
    <2>1. seed = 0 => ~\E h : OtherStripe(h, seed)
      BY DEF OtherStripe, SeedStripe
    <2> QED
      BY <1>1, <1>9, <2>1 DEF add_transaction_data, Recorded, OtherStripe
  <1>2. CASE remove_transaction_data
    BY <1>2, <1>9 DEF remove_transaction_data, Recorded, OtherStripe
  <1>3. CASE prune_blockchain
    BY <1>3, <1>9, PassRecords DEF prune_blockchain
  <1>4. CASE update_pruning
    BY <1>4, <1>9, UpdateRecords DEF update_pruning
  <1>7. CASE UNCHANGED vars
    BY <1>7, <1>9 DEF Recorded, vars, OtherStripe
  <1> QED
    BY <1>1, <1>2, <1>3, <1>4, <1>7 DEF Next

(* When every pass runs to its end, the data of a block that is no longer   *)
(* claimed is always one the next update_pruning deletes, whatever blocks   *)
(* were popped and stored again in between.                                 *)
THEOREM NothingForgotten == Spec => []NothingLeftBehind
  <1> DEFINE IInv == TypeOK /\ (stops = 0 => Recorded)
  <1>1. Init => IInv
    <2>1. Init => Recorded
      BY DEF Init, Recorded, OtherStripe, SeedStripe
    <2> QED
      BY <2>1, TypeInit
  <1>2. IInv /\ [Next]_vars => IInv'
    BY TypeStep, RecordedStep
  <1>3. IInv => NothingLeftBehind
    <2> SUFFICES ASSUME TypeOK, Recorded, NEW h \in txs_prunable, Prunable(h, seed)
                 PROVE  h \in txs_prunable_tip
      BY DEF NothingLeftBehind
    <2>1. h \in Nat /\ height \in Nat
      BY DEF TypeOK
    <2>2. OtherStripe(h, seed) /\ h \notin V1Txs
      BY <2>1, ClaimedMeans DEF Prunable
    <2> QED
      BY <2>2 DEF Recorded
  <1> HIDE DEF IInv
  <1> QED
    BY <1>1, <1>2, <1>3, PTL DEF Spec

-----------------------------------------------------------------------------
(* Division with a remainder, and that quotient and remainder are the only  *)
(* ones.                                                                    *)
LEMMA Quotient ==
    ASSUME NEW a \in Nat, NEW b \in Nat \ {0}
    PROVE  /\ a \div b \in Nat
           /\ a % b \in 0..(b - 1)
           /\ a = b * (a \div b) + (a % b)
  OBVIOUS

LEMMA TimesGrows ==
    ASSUME NEW b \in Nat \ {0}, NEW d \in Int
    PROVE  /\ d >= 1 => b * d >= b
           /\ d <= -1 => b * d <= -b
  OBVIOUS

LEMMA QuotientIs ==
    ASSUME NEW a \in Nat, NEW b \in Nat \ {0}, NEW k \in Nat, NEW r \in 0..(b - 1),
           a = b * k + r
    PROVE  a \div b = k /\ a % b = r
  <1> DEFINE q == a \div b
             m == a % b
  <1>1. q \in Nat /\ m \in 0..(b - 1) /\ a = b * q + m
    BY Zenon, Quotient
  <1> HIDE DEF q, m
  <1>2. b * (q - k) = r - m
    BY <1>1
  <1>3. q - k \in Int /\ ~(q - k >= 1) /\ ~(q - k <= -1)
    BY <1>1, <1>2, TimesGrows
  <1> QED
    BY <1>1, <1>3 DEF q, m

(* Division does not decrease when the dividend grows.                      *)
LEMMA QuotientGrows ==
    ASSUME NEW b \in Nat \ {0}, NEW a \in Nat, NEW c \in Nat, a <= c
    PROVE  a \div b <= c \div b
  <1> DEFINE q == a \div b
             p == c \div b
  <1>1. q \in Nat /\ a >= b * q
    BY Quotient
  <1>2. p \in Nat /\ c < b * p + b
    BY Quotient
  <1> HIDE DEF q, p
  <1>3. b * (q - p) < b
    BY <1>1, <1>2
  <1>4. ~(q - p >= 1)
    BY <1>1, <1>2, <1>3, TimesGrows
  <1> QED
    BY <1>1, <1>2, <1>4 DEF q, p

(* Below the start of the k-th group of b there are only the groups before. *)
LEMMA BelowMultiple ==
    ASSUME NEW b \in Nat \ {0}, NEW a \in Nat, NEW k \in Nat
    PROVE  /\ a < b * k => a \div b < k
           /\ a >= b * k => a \div b >= k
  <1> DEFINE q == a \div b
  <1>1. q \in Nat /\ a >= b * q /\ a < b * q + b
    BY Quotient
  <1> HIDE DEF q
  <1>2. a < b * k => ~(q - k >= 0)
    <2>1. q - k >= 0 => b * (q - k) >= 0
      BY <1>1
    <2> QED
      BY <1>1, <2>1
  <1>3. a >= b * k => ~(q - k <= -1)
    BY <1>1, TimesGrows
  <1> QED
    BY <1>1, <1>2, <1>3 DEF q

(* The next index after q that is t modulo n: the group of q has it ahead,  *)
(* or the following group has it.                                           *)
NextIndex(q, t, n) == n * (IF t > q % n THEN q \div n ELSE q \div n + 1) + t

LEMMA NextIndexIsNext ==
    ASSUME NEW n \in Nat \ {0}, NEW q \in Nat, NEW t \in 0..(n - 1), q % n # t
    PROVE  /\ NextIndex(q, t, n) \in Nat
           /\ NextIndex(q, t, n) > q
           /\ NextIndex(q, t, n) % n = t
           /\ \A j \in q..(NextIndex(q, t, n) - 1) : j % n # t
  <1> DEFINE m == q % n
             c == q \div n
             Q == NextIndex(q, t, n)
  <1>1. c \in Nat /\ m \in 0..(n - 1) /\ q = n * c + m /\ m # t
    BY Zenon, Quotient
  <1>2. Q = n * (IF t > m THEN c ELSE c + 1) + t
    BY DEF NextIndex
  <1> HIDE DEF m, c, Q
  <1>3. CASE t > m
    <2>1. Q = n * c + t /\ n * c \in Nat
      BY <1>1, <1>2, <1>3
    <2>2. Q \in Nat /\ Q > q
      BY <1>1, <1>3, <2>1
    <2>3. Q % n = t
      BY <1>1, <2>1, <2>2, QuotientIs
    <2>4. ASSUME NEW j \in q..(Q - 1) PROVE j % n # t
      <3> DEFINE r == j - n * c
      <3>1. j \in Nat /\ r \in 0..(n - 1) /\ j = n * c + r /\ r # t
        BY <1>1, <2>1
      <3> HIDE DEF r
      <3> QED
        BY Zenon, <1>1, <3>1, QuotientIs
    <2> QED
      BY <2>2, <2>3, <2>4 DEF Q
  <1>4. CASE t < m
    <2>1. Q = n * (c + 1) + t /\ n * (c + 1) = n * c + n /\ n * c \in Nat /\ c + 1 \in Nat
      BY <1>1, <1>2, <1>4
    <2>2. Q \in Nat /\ Q > q
      BY <1>1, <1>4, <2>1
    <2>3. Q % n = t
      BY <1>1, <2>1, <2>2, QuotientIs
    <2>4. ASSUME NEW j \in q..(Q - 1) PROVE j % n # t
      <3>1. CASE j < n * c + n
        <4> DEFINE r == j - n * c
        <4>1. j \in Nat /\ r \in 0..(n - 1) /\ j = n * c + r /\ r # t
          BY <1>1, <1>4, <2>1, <3>1
        <4> HIDE DEF r
        <4> QED
          BY Zenon, <1>1, <4>1, QuotientIs
      <3>2. CASE j >= n * c + n
        <4> DEFINE r == j - n * (c + 1)
        <4>1. j \in Nat /\ r \in 0..(n - 1) /\ j = n * (c + 1) + r /\ r # t
          BY <1>1, <2>1, <3>2
        <4> HIDE DEF r
        <4> QED
          BY <2>1, <4>1, QuotientIs
      <3>3. j \in Int /\ n * c + n \in Int
        BY <1>1, <2>1
      <3> QED
        BY <3>1, <3>2, <3>3
    <2> QED
      BY <2>2, <2>3, <2>4 DEF Q
  <1> QED
    BY <1>1, <1>3, <1>4

-----------------------------------------------------------------------------
(* The seed of a stripe names that stripe, and every seed but 0 names one.  *)
LEMMA SeedOfStripe ==
    ASSUME NEW st \in 1..NumStripes
    PROVE  SeedStripe(make_pruning_seed(st)) = st
  <1>1. LogStripes \in Nat /\ LogStripes >= 1 /\ st - 1 \in 0..127
    BY SizesAssumption
  <1> DEFINE sd == make_pruning_seed(st)
  <1>2. sd \in Nat /\ sd = 128 * LogStripes + (st - 1) /\ sd # 0
    BY <1>1 DEF make_pruning_seed
  <1> HIDE DEF sd
  <1>3. sd % 128 = st - 1
    <2>1. 128 \in Nat \ {0} /\ st - 1 \in 0..(128 - 1)
      BY <1>1
    <2> QED
      BY <1>1, <1>2, <2>1, QuotientIs
  <1>4. SeedStripe(sd) = 1 + (st - 1)
    BY <1>2, <1>3 DEF SeedStripe
  <1> QED
    BY <1>4 DEF sd

LEMMA StripeOfSeed ==
    ASSUME NEW s \in Seeds, SeedStripe(s) # 0
    PROVE  SeedStripe(s) \in 1..NumStripes
  <1>1. s # 0
    BY DEF SeedStripe
  <1>2. PICK st \in 1..NumStripes : s = make_pruning_seed(st)
    BY <1>1 DEF Seeds
  <1> QED
    BY <1>2, SeedOfStripe

-----------------------------------------------------------------------------
(* Where get_next_unpruned_block_height looks for the seed's stripe.        *)
LEMMA StartIsNextIndex ==
    ASSUME NEW h \in Nat, NEW s \in Seeds, SeedStripe(s) # 0
    PROVE  StripeStart(h, s)
             = StripeSize * NextIndex(h \div StripeSize, SeedStripe(s) - 1, NumStripes)
  <1> DEFINE q == h \div StripeSize
             m == q % NumStripes
             c == q \div NumStripes
             t == SeedStripe(s) - 1
  <1>1. StripeSize \in Nat \ {0} /\ NumStripes \in Nat \ {0} /\ t \in 0..(NumStripes - 1)
    BY StripeOfSeed, SizesAssumption
  <1>2. q \in Nat
    BY Zenon, <1>1, Quotient
  <1>3. m \in 0..(NumStripes - 1) /\ c \in Nat
    BY Zenon, <1>1, <1>2, Quotient
  <1>4. StripeStart(h, s) = (IF SeedStripe(s) > m + 1 THEN c ELSE c + 1) * (StripeSize * NumStripes)
                              + t * StripeSize
    BY Zenon DEF StripeStart
  <1>5. NextIndex(q, t, NumStripes) = NumStripes * (IF t > m THEN c ELSE c + 1) + t
    BY Zenon DEF NextIndex
  <1>6. SeedStripe(s) > m + 1 <=> t > m
    BY <1>1, <1>3, StripeOfSeed
  <1> HIDE DEF q, m, c, t
  <1>7. PICK k \in Nat : k = IF t > m THEN c ELSE c + 1
    BY <1>3
  <1>8. k * (StripeSize * NumStripes) + t * StripeSize = StripeSize * (NumStripes * k + t)
    BY <1>1, <1>7
  <1> QED
    BY <1>4, <1>5, <1>6, <1>7, <1>8 DEF q, t

(* From a block outside the seed's stripe up to that start there are only   *)
(* blocks outside the stripe, and the block at the start is in it.          *)
LEMMA StartIsNext ==
    ASSUME NEW h \in Nat, NEW s \in Seeds, OtherStripe(h, s)
    PROVE  /\ StripeStart(h, s) \in Nat
           /\ StripeStart(h, s) > h
           /\ ~OtherStripe(StripeStart(h, s), s)
           /\ \A i \in h..(StripeStart(h, s) - 1) : OtherStripe(i, s)
  <1> DEFINE q == h \div StripeSize
             t == SeedStripe(s) - 1
             Q == NextIndex(q, t, NumStripes)
             n == StripeStart(h, s)
  <1>1. StripeSize \in Nat \ {0} /\ NumStripes \in Nat \ {0}
    BY SizesAssumption
  <1>2. SeedStripe(s) # 0 /\ SeedStripe(s) \in 1..NumStripes
    BY StripeOfSeed DEF OtherStripe
  <1>3. t \in 0..(NumStripes - 1) /\ SeedStripe(s) = t + 1
    BY <1>1, <1>2
  <1>4. ASSUME NEW i \in Nat
        PROVE  OtherStripe(i, s) <=> (i \div StripeSize) % NumStripes # t
    <2>1. (i \div StripeSize) % NumStripes \in Nat
      BY <1>1, Quotient
    <2> HIDE DEF t
    <2> QED
      BY <1>2, <1>3, <2>1 DEF OtherStripe
  <1>5. q \in Nat /\ q % NumStripes # t
    <2>1. q \in Nat
      BY Zenon, <1>1, Quotient
    <2> QED
      BY Zenon, <2>1, <1>4
  <1>6. /\ Q \in Nat /\ Q > q /\ Q % NumStripes = t
        /\ \A j \in q..(Q - 1) : j % NumStripes # t
    BY Zenon, <1>1, <1>3, <1>5, NextIndexIsNext
  <1>7. n = StripeSize * Q
    BY Zenon, <1>2, StartIsNextIndex
  <1> HIDE DEF q, t, Q, n
  <1>8. n \in Nat
    BY <1>1, <1>6, <1>7
  <1>9. n > h
    <2>1. q = h \div StripeSize
      BY DEF q
    <2>2. h >= n => q >= Q
      BY <1>1, <1>6, <1>7, <2>1, BelowMultiple
    <2> QED
      BY <1>5, <1>6, <1>8, <2>2
  <1>10. n \div StripeSize = Q
    <2>1. n = StripeSize * Q + 0 /\ 0 \in 0..(StripeSize - 1)
      BY <1>1, <1>6, <1>7, <1>8
    <2> QED
      BY <1>1, <1>6, <1>8, <2>1, QuotientIs
  <1>11. ASSUME NEW i \in h..(n - 1) PROVE OtherStripe(i, s)
    <2>1. i \in Nat /\ i >= h /\ i < StripeSize * Q
      BY <1>7, <1>8
    <2>2. i \div StripeSize < Q
      BY Zenon, <1>1, <1>6, <2>1, BelowMultiple
    <2>3. i \div StripeSize >= q
      BY <1>1, <2>1, QuotientGrows DEF q
    <2>4. i \div StripeSize \in Nat
      BY Zenon, <1>1, <2>1, Quotient
    <2>5. i \div StripeSize \in q..(Q - 1)
      BY <1>5, <1>6, <2>2, <2>3, <2>4
    <2> QED
      BY Zenon, <1>4, <1>6, <2>1, <2>5
  <1>12. ~OtherStripe(n, s)
    BY Zenon, <1>4, <1>6, <1>8, <1>10
  <1> QED
    BY Zenon, <1>8, <1>9, <1>11, <1>12 DEF n

(* get_next_unpruned_block_height, for every chain: the first height at or  *)
(* after h that is kept in full.                                            *)
LEMMA NextUnpruned ==
    ASSUME NEW H \in Nat, NEW h \in Nat, h < H, NEW s \in Seeds, NEW n,
           n = get_next_unpruned_block_height(h, H, s)
    PROVE  /\ n \in Nat
           /\ n >= h
           /\ has_unpruned_block(n, H, s)
           /\ \A i \in h..(n - 1) : ~has_unpruned_block(i, H, s)
           /\ has_unpruned_block(h, H, s) \/ (n <= StripeStart(h, s) /\ n + TipBlocks <= H)
  <1>0. TipBlocks \in Nat
    BY SizesAssumption
  <1>1. CASE has_unpruned_block(h, H, s)
    <2>1. n = h
      BY <1>1 DEF get_next_unpruned_block_height
    <2> QED
      BY <1>0, <1>1, <2>1
  <1>2. CASE ~has_unpruned_block(h, H, s)
    <2> DEFINE st == StripeStart(h, s)
    <2>1. OtherStripe(h, s) /\ h + TipBlocks < H
      BY <1>0, <1>2, ClaimedMeans
    <2>2. /\ st \in Nat /\ st > h /\ ~OtherStripe(st, s)
          /\ \A i \in h..(st - 1) : OtherStripe(i, s)
      BY Zenon, <2>1, StartIsNext
    <2>3. n = IF st + TipBlocks > H THEN H - TipBlocks ELSE st
      BY <1>0, <1>2, <2>1 DEF get_next_unpruned_block_height
    <2> HIDE DEF st
    <2>4. n \in Nat /\ n >= h /\ n <= st /\ n + TipBlocks <= H
      BY <1>0, <2>1, <2>2, <2>3
    <2>5. n + TipBlocks >= H \/ n = st
      BY <1>0, <2>1, <2>2, <2>3
    <2>6. has_unpruned_block(n, H, s)
      BY Zenon, <2>2, <2>4, <2>5, ClaimedMeans
    <2>7. ASSUME NEW i \in h..(n - 1) PROVE ~has_unpruned_block(i, H, s)
      <3>1. i \in Nat /\ i \in h..(st - 1) /\ ~(i + TipBlocks >= H)
        BY <1>0, <2>2, <2>4
      <3> QED
        BY Zenon, <2>2, <3>1, ClaimedMeans
    <2> QED
      BY Zenon, <2>4, <2>6, <2>7 DEF st
  <1> QED
    BY <1>1, <1>2

(* The index after q is the next one of its remainder.                      *)
LEMMA NextIndexAfter ==
    ASSUME NEW n \in Nat \ {0}, NEW q \in Nat, NEW t,
           t = ((q % n) + 1) % n, t # q % n
    PROVE  NextIndex(q, t, n) = q + 1
  <1> DEFINE m == q % n
             c == q \div n
  <1>1. c \in Nat /\ m \in 0..(n - 1) /\ q = n * c + m
    BY Zenon, Quotient
  <1>2. NextIndex(q, t, n) = n * (IF t > m THEN c ELSE c + 1) + t
    BY Zenon DEF NextIndex
  <1>3. t = (m + 1) % n /\ t # m
    OBVIOUS
  <1> HIDE DEF m, c
  <1>4. CASE m + 1 < n
    <2>1. m + 1 = n * 0 + (m + 1) /\ m + 1 \in 0..(n - 1) /\ m + 1 \in Nat
      BY <1>1, <1>4
    <2>2. t = m + 1
      BY Zenon, <1>3, <2>1, QuotientIs, 0 \in Nat
    <2>3. NextIndex(q, t, n) = n * c + t
      BY <1>1, <1>2, <2>2
    <2>4. n * c \in Nat
      BY <1>1
    <2> QED
      BY <1>1, <2>2, <2>3, <2>4
  <1>5. CASE m + 1 = n
    <2>1. n = n * 1 + 0 /\ 0 \in 0..(n - 1) /\ 1 \in Nat
      OBVIOUS
    <2>2. n % n = 0
      BY Zenon, <2>1, QuotientIs, n \in Nat
    <2>5. t = 0
      BY <1>3, <1>5, <2>2
    <2>3. NextIndex(q, t, n) = n * (c + 1) + t
      BY <1>1, <1>2, <2>5
    <2>4. n * (c + 1) = n * c + n /\ n * c \in Nat
      BY <1>1
    <2> QED
      BY <1>1, <1>5, <2>5, <2>3, <2>4
  <1> QED
    BY <1>1, <1>4, <1>5

(* A block that has left the tip is kept until the stripe after the seed's  *)
(* begins: get_next_pruned_block_height passes over no pruned block.        *)
LEMMA KeptUntilNextPruned ==
    ASSUME NEW H \in Nat, NEW h \in Nat, h < H, NEW s \in Seeds,
           has_unpruned_block(h, H, s),
           NEW i \in h..(get_next_pruned_block_height(h, H, s) - 1)
    PROVE  i \in 0..(H - 1) /\ has_unpruned_block(i, H, s)
  <1> DEFINE n == get_next_pruned_block_height(h, H, s)
             z == make_pruning_seed(1 + (SeedStripe(s) % NumStripes))
  <1>0. TipBlocks \in Nat /\ NumStripes \in Nat \ {0} /\ StripeSize \in Nat \ {0}
    BY SizesAssumption
  <1>1. CASE SeedStripe(s) = 0 \/ h + TipBlocks >= H
    <2>1. n = H
      BY <1>1 DEF get_next_pruned_block_height
    <2>2. i \in 0..(H - 1) /\ i \in Nat /\ i >= h
      BY <2>1
    <2>3. i + TipBlocks >= H \/ SeedStripe(s) = 0
      BY <1>0, <1>1, <2>2
    <2> QED
      BY Zenon, <2>2, <2>3, ClaimedMeans DEF OtherStripe
  <1>2. CASE ~(SeedStripe(s) = 0 \/ h + TipBlocks >= H)
    <2>1. n = get_next_unpruned_block_height(h, H, z)
      BY Zenon, <1>2 DEF get_next_pruned_block_height
    <2>2. SeedStripe(s) \in 1..NumStripes
      BY Zenon, <1>2, StripeOfSeed
    <2>3. SeedStripe(s) % NumStripes \in 0..(NumStripes - 1)
      <3>1. SeedStripe(s) \in Nat
        BY <1>0, <2>2
      <3> QED
        BY Zenon, <1>0, <3>1, Quotient
    <2>4. 1 + (SeedStripe(s) % NumStripes) \in 1..NumStripes
      BY <1>0, <2>3
    <2>5. z \in Seeds /\ SeedStripe(z) = 1 + (SeedStripe(s) % NumStripes)
      BY Zenon, <2>4, SeedOfStripe DEF Seeds
    <2>6. ~(h + TipBlocks >= H) /\ ~OtherStripe(h, s)
      BY Zenon, <1>2, ClaimedMeans
    <2>7. n \in Nat /\ \A j \in h..(n - 1) : ~has_unpruned_block(j, H, z)
      BY Zenon, <2>1, <2>5, NextUnpruned
    <2>8. ~has_unpruned_block(h, H, z)
      <3>1. h \in h..(n - 1)
        BY <2>7
      <3> QED
        BY Zenon, <2>7, <3>1
    <2>9. n <= StripeStart(h, z) /\ n + TipBlocks <= H
      <3>1. has_unpruned_block(h, H, z) \/ (n <= StripeStart(h, z) /\ n + TipBlocks <= H)
        BY <2>1, <2>5, NextUnpruned
      <3> QED
        BY Zenon, <2>8, <3>1
    <2> DEFINE q == h \div StripeSize
               t == SeedStripe(z) - 1
    <2>10. q \in Nat /\ q % NumStripes \in Nat
      <3>1. q \in Nat
        BY Zenon, <1>0, Quotient
      <3> HIDE DEF q
      <3> QED
        BY <1>0, <3>1, Quotient
    <2>11. (q % NumStripes) + 1 = SeedStripe(s)
      BY Zenon, <1>2, <2>6 DEF OtherStripe
    <2>12. t = ((q % NumStripes) + 1) % NumStripes
      BY <2>3, <2>5, <2>11
    <2>13. OtherStripe(h, z)
      BY Zenon, <2>8, ClaimedMeans
    <2>14. SeedStripe(z) # 0 /\ SeedStripe(z) # (q % NumStripes) + 1
      BY Zenon, <2>13 DEF OtherStripe
    <2>15. NextIndex(q, t, NumStripes) = q + 1
      <3>1. t # q % NumStripes
        BY <2>3, <2>5, <2>10, <2>14
      <3> QED
        BY Zenon, <1>0, <2>10, <2>12, <3>1, NextIndexAfter
    <2>16. StripeStart(h, z) = StripeSize * (q + 1)
      BY Zenon, <2>5, <2>14, <2>15, StartIsNextIndex
    <2> HIDE DEF n, z, t
    <2>17. i \in Nat /\ i >= h /\ i < n
      BY <2>7 DEF n
    <2>18. i < StripeSize * (q + 1) /\ i + TipBlocks < H /\ StripeSize * (q + 1) \in Nat
      <3> HIDE DEF q
      <3>1. StripeSize * (q + 1) \in Nat
        BY <1>0, <2>10
      <3> QED
        BY <1>0, <2>7, <2>9, <2>16, <2>17, <3>1
    <2>19. i \div StripeSize = q
      <3>1. i \div StripeSize \in Nat
        BY Zenon, <1>0, <2>17, Quotient
      <3>2. i \div StripeSize >= q
        BY <1>0, <2>17, QuotientGrows
      <3>3. i \div StripeSize < q + 1
        <4>1. q + 1 \in Nat
          BY <2>10
        <4> QED
          BY Zenon, <1>0, <2>17, <2>18, <4>1, BelowMultiple
      <3> HIDE DEF q
      <3> QED
        BY <2>10, <3>1, <3>2, <3>3
    <2>20. ~OtherStripe(i, s)
      BY Zenon, <2>11, <2>19 DEF OtherStripe
    <2>21. i \in 0..(H - 1)
      BY <1>0, <2>17, <2>18
    <2> QED
      BY Zenon, <2>17, <2>20, <2>21, ClaimedMeans
  <1> QED
    BY <1>1, <1>2

-----------------------------------------------------------------------------
LEMMA TypeAlways == Spec => []TypeOK
  BY TypeInit, TypeStep, PTL DEF Spec

(* In every state, whatever the stripe and the chain,                       *)
(* get_next_unpruned_block_height (common/pruning.cpp) returns the first    *)
(* height at or after h that a node with that seed keeps in full: it skips  *)
(* no such block and never stops before one, at the edge of the tip too.    *)
THEOREM NextUnprunedHolds == Spec => []NextUnprunedIsLeast
  <1>1. TypeOK => NextUnprunedIsLeast
    <2> SUFFICES ASSUME TypeOK, NEW h \in 0..(height - 1), NEW s \in Seeds,
                        NEW n, n = get_next_unpruned_block_height(h, height, s)
                 PROVE  /\ n >= h
                        /\ has_unpruned_block(n, height, s)
                        /\ \A i \in h..(n - 1) : ~has_unpruned_block(i, height, s)
      BY Zenon DEF NextUnprunedIsLeast
    <2>1. height \in Nat /\ h \in Nat /\ h < height
      BY DEF TypeOK
    <2> QED
      BY Zenon, <2>1, NextUnpruned
  <1> QED
    BY <1>1, TypeAlways, PTL

(* Until its first pop a node stores in full every block it offers to a     *)
(* peer that asks for full blocks: Blockchain::find_blockchain_supplement   *)
(* cuts its answer at get_next_pruned_block_height.                         *)
THEOREM OffersHold == Spec => []OffersOnlyStored
  <1>1. TypeOK /\ ClaimsUntilPopped => OffersOnlyStored
    <2> SUFFICES ASSUME TypeOK, ClaimsUntilPopped, pops = 0, NEW start \in 0..(height - 1),
                        get_next_unpruned_block_height(start, height, seed) = start,
                        NEW i \in start..(get_next_pruned_block_height(start, height, seed) - 1)
                 PROVE  i \in txs_prunable
      BY Zenon DEF OffersOnlyStored
    <2>1. height \in Nat /\ start \in Nat /\ start < height /\ seed \in Seeds
      BY DEF TypeOK
    <2>2. has_unpruned_block(start, height, seed)
      BY Zenon, <2>1, NextUnpruned
    <2>3. i \in 0..(height - 1) /\ has_unpruned_block(i, height, seed)
      BY Zenon, <2>1, <2>2, KeptUntilNextPruned
    <2> QED
      BY Zenon, <2>3 DEF ClaimsUntilPopped, HasWhatItClaims
  <1> QED
    BY <1>1, TypeAlways, ClaimsHold, PTL
=============================================================================
