--------------------------- MODULE HardForkProofs ---------------------------
(***************************************************************************)
(* Proofs about HardFork, for every fork table, window and height bound.   *)
(***************************************************************************)
EXTENDS HardFork, TLAPS, FiniteSetTheorems, WellFoundedInduction

(* The provers of a leaf that names none, with their time limits.           *)
USE SMTT(30), ZenonT(30)

-----------------------------------------------------------------------------
(* Maxima of bounded sets of positive integers.                            *)

(* A non-empty subset of 1..n has a maximum, and Max returns it.           *)
LEMMA MaxProperties ==
  ASSUME NEW n \in Nat, NEW S \in SUBSET (1 .. n), S # {}
  PROVE  /\ Max(S) \in S
         /\ \A y \in S : y <= Max(S)
<1> DEFINE T == {t \in Nat : \E x \in S : t = n - x}
<1>0. \A x \in S : x \in Nat /\ n - x \in Nat
  OBVIOUS
<1>1. T \subseteq Nat /\ T # {}
  BY Zenon, <1>0
<1>2. PICK t \in T : \A y \in T : ~(<<y, t>> \in OpToRel(<, Nat))
  <2> HIDE DEF T
  <2> QED BY <1>1, NatLessThanWellFounded, WFMin, Zenon
<1>3. \A y \in T : t <= y
  <2> HIDE DEF T
  <2>1. \A y \in T : ~(y < t)
    BY <1>1, <1>2, Zenon DEF OpToRel
  <2> QED BY <1>1, <2>1
<1>4. PICK m \in S : t = n - m
  BY <1>2
<1>5. \A y \in S : m >= y
  BY <1>0, <1>3, <1>4
<1> QED
  BY Zenon, <1>0, <1>4, <1>5 DEF Max

(* Likewise for the minimum.                                               *)
LEMMA MinProperties ==
  ASSUME NEW n \in Nat, NEW S \in SUBSET (1 .. n), S # {}
  PROVE  /\ Min(S) \in S
         /\ \A y \in S : Min(S) <= y
<1>1. S \subseteq Nat
  OBVIOUS
<1>2. PICK m \in S : \A y \in S : ~(<<y, m>> \in OpToRel(<, Nat))
  BY <1>1, NatLessThanWellFounded, WFMin, Zenon
<1>3. \A y \in S : ~(y < m)
  BY <1>1, <1>2, Zenon DEF OpToRel
<1>4. \A y \in S : m <= y
  BY <1>1, <1>3
<1> QED
  BY Zenon, <1>1, <1>4 DEF Min

-----------------------------------------------------------------------------
(* The operators of the class.                                             *)

(* The forks of a release, as the proofs use them.                         *)
LEMMA ReleaseFacts ==
  ASSUME NEW r \in DOMAIN Releases
  PROVE  /\ Releases[r] \in Seq(Fork) /\ Len(Releases[r]) \in Nat \ {0}
         /\ DOMAIN Releases[r] = 1 .. Len(Releases[r])
         /\ \A i \in 1 .. Len(Releases[r]) :
              /\ Releases[r][i] \in Fork
              /\ Releases[r][i].version \in Versions /\ Releases[r][i].version \in Nat \ {0}
              /\ Releases[r][i].height \in Nat
         /\ r \in Nat /\ r >= 1
<1>1. Releases[r] \in Seq(Fork) /\ Releases[r] # <<>> /\ r \in Nat /\ r >= 1
  BY ReleasesAssumption
<1>2. Len(Releases[r]) \in Nat \ {0} /\ DOMAIN Releases[r] = 1 .. Len(Releases[r])
  BY <1>1
<1>3. \A i \in 1 .. Len(Releases[r]) : Releases[r][i] \in Fork
  BY <1>1
<1> QED
  BY Zenon, <1>1, <1>2, <1>3, VersionsAssumption DEF Fork

(* ScheduledIndex is the last fork at or below the height, or the first.   *)
LEMMA ScheduledProperties ==
  ASSUME NEW r \in DOMAIN Releases, NEW h \in Int
  PROVE  LET fs == Releases[r]
             k == ScheduledIndex(fs, h)
         IN  /\ k \in DOMAIN fs
             /\ k = 1 \/ h >= fs[k].height
             /\ \A n \in DOMAIN fs : (n = 1 \/ h >= fs[n].height) => n <= k
<1> DEFINE fs == Releases[r]
           due == {n \in DOMAIN fs : n = 1 \/ h >= fs[n].height}
<1>1. due \in SUBSET (1 .. Len(fs)) /\ Len(fs) \in Nat /\ 1 \in due
  BY ReleaseFacts
<1>2. Max(due) \in due /\ \A y \in due : y <= Max(due)
  <2> HIDE DEF due
  <2> QED BY Zenon, <1>1, MaxProperties
<1>3. ScheduledIndex(fs, h) = Max(due)
  BY DEF ScheduledIndex
<1> QED
  BY <1>2, <1>3

LEMMA ScheduledNat ==
  ASSUME NEW r \in DOMAIN Releases, NEW h \in Int
  PROVE  ScheduledIndex(Releases[r], h) \in Nat
<1>1. ScheduledIndex(Releases[r], h) \in DOMAIN Releases[r]
  BY ScheduledProperties
<1> QED BY <1>1, ReleaseFacts

(* A vote count never lowers the index, and stays within the table.        *)
LEMMA VotedType ==
  ASSUME NEW r \in DOMAIN Releases, NEW h, NEW counts, NEW current \in DOMAIN Releases[r]
  PROVE  /\ Voted(Releases[r], h, counts, current) \in DOMAIN Releases[r]
         /\ Voted(Releases[r], h, counts, current) >= current
<1> DEFINE fs == Releases[r]
           enough == {n \in DOMAIN fs : /\ h >= fs[n].height
                                        /\ accumulated_votes(fs, n, counts) >= threshold(fs[n])}
           voted == get_voted_fork_index(fs, h, counts, current)
<1>1. enough \in SUBSET (1 .. Len(fs)) /\ Len(fs) \in Nat
  BY ReleaseFacts
<1>2. enough # {} => Max(enough) \in enough
  <2> HIDE DEF enough
  <2> QED BY Zenon, <1>1, MaxProperties
<1>3. voted = IF enough = {} THEN current ELSE Max(enough)
  BY DEF get_voted_fork_index
<1>4. voted \in DOMAIN fs
  <2> HIDE DEF voted
  <2> QED BY <1>2, <1>3
<1>5. Voted(fs, h, counts, current) = IF voted > current THEN voted ELSE current
  BY DEF Voted
<1> HIDE DEF voted
<1> QED
  BY <1>4, <1>5, ReleaseFacts

(* Votes counted in the model are versions.                                *)
LEMMA EffectiveVote ==
  ASSUME NEW r \in DOMAIN Releases, NEW b \in Block
  PROVE  get_effective_version(r, get_block_vote(b)) \in Versions
<1>1. get_block_vote(b) \in Versions
  BY VersionsAssumption DEF Block, get_block_vote
<1> QED
  BY <1>1, ReleaseFacts DEF get_effective_version

(* The window a rescan reads.                                              *)
LEMMA VotesBetweenType ==
  ASSUME NEW r \in DOMAIN Releases, chain \in Seq(Block),
         NEW from \in Nat, NEW to \in Nat, from <= to, to < Len(chain)
  PROVE  /\ VotesBetween(r, from, to) \in Seq(Versions)
         /\ Len(VotesBetween(r, from, to)) = to - from + 1
<1>1. \A i \in 1 .. to - from + 1 : chain[from + i] \in Block
  OBVIOUS
<1>2. \A i \in 1 .. to - from + 1 :
        get_effective_version(r, get_block_vote(chain[from + i])) \in Versions
  BY <1>1, EffectiveVote
<1> QED
  BY <1>2 DEF VotesBetween

(* Counting the votes of a window gives natural numbers.                   *)
LEMMA CountVotesType ==
  ASSUME NEW w \in Seq(Versions)
  PROVE  CountVotes(w) \in [Versions -> Int]
<1>1. IsFiniteSet(DOMAIN w)
  BY FS_Interval, DOMAIN w = 1 .. Len(w), Len(w) \in Int
<1>2. ASSUME NEW v PROVE Cardinality({i \in DOMAIN w : w[i] = v}) \in Int
  <2> DEFINE W == {i \in DOMAIN w : w[i] = v}
  <2>1. W \in SUBSET DOMAIN w
    OBVIOUS
  <2>2. IsFiniteSet(W)
    <3> HIDE DEF W
    <3> QED BY <1>1, <2>1, FS_Subset
  <2>3. Cardinality(W) \in Nat
    <3> HIDE DEF W
    <3> QED BY <2>2, FS_CardinalityType
  <2> QED BY <2>3
<1> QED
  BY Zenon, <1>2 DEF CountVotes

(* The window and counters after an add().                                 *)
LEMMA AddTypes ==
  ASSUME TypeOK, NEW b \in Block
  PROVE  /\ WindowAfter(b) \in Seq(Versions)
         /\ WindowAfter(b) # <<>> /\ Len(WindowAfter(b)) <= WindowSize
         /\ VotesAfter(b) \in [Versions -> Int]
<1> DEFINE vote == get_effective_version(release, get_block_vote(b))
           w == SubSeq(versions, Surplus + 1, Len(versions))
<1>1. release \in DOMAIN Releases /\ versions \in Seq(Versions) /\ Len(versions) <= WindowSize
  BY DEF TypeOK
<1>2. vote \in Versions
  BY <1>1, EffectiveVote
<1>3. Surplus \in 0 .. Len(versions) /\ Len(versions) - Surplus < WindowSize
  BY <1>1, WindowAssumption DEF Surplus
<1>4. w \in Seq(Versions) /\ Len(w) = Len(versions) - Surplus
  BY <1>1, <1>3
<1>5. WindowAfter(b) = Append(w, vote)
  BY DEF WindowAfter
<1>6. /\ WindowAfter(b) \in Seq(Versions)
      /\ WindowAfter(b) # <<>> /\ Len(WindowAfter(b)) <= WindowSize
  <2> HIDE DEF w, vote
  <2>1. Append(w, vote) \in Seq(Versions) /\ Append(w, vote) # <<>>
        /\ Len(Append(w, vote)) = Len(w) + 1
    BY <1>2, <1>4
  <2> QED BY <2>1, <1>1, <1>3, <1>4, <1>5, WindowAssumption
<1>7. ASSUME NEW v PROVE Cardinality({i \in 1 .. Surplus : versions[i] = v}) \in Int
  <2> DEFINE W == {i \in 1 .. Surplus : versions[i] = v}
  <2>1. IsFiniteSet(1 .. Surplus) /\ W \in SUBSET (1 .. Surplus)
    BY <1>3, FS_Interval
  <2>2. Cardinality(W) \in Nat
    <3> HIDE DEF W
    <3> QED BY Zenon, <2>1, FS_Subset, FS_CardinalityType
  <2> QED BY <2>2
<1>8. VotesAfter(b) \in [Versions -> Int]
  <2> DEFINE gone(v) == Cardinality({i \in 1 .. Surplus : versions[i] = v})
             count(v) == last_versions[v] - gone(v) + (IF v = vote THEN 1 ELSE 0)
  <2>1. VotesAfter(b) = [v \in Versions |-> count(v)]
    BY DEF VotesAfter
  <2>2. ASSUME NEW v \in Versions PROVE count(v) \in Int
    <3>1. gone(v) \in Int
      BY Zenon, <1>7
    <3>2. last_versions[v] \in Int
      BY DEF TypeOK
    <3> HIDE DEF gone, vote
    <3> QED BY <3>1, <3>2
  <2> HIDE DEF count
  <2> QED BY <2>1, <2>2
<1> QED
  BY <1>6, <1>8

-----------------------------------------------------------------------------
(* Type correctness.                                                       *)

(* The part of the invariant that makes the types inductive: every stored  *)
(* block has a recorded version, the window is not empty, and the loops of *)
(* a switch stay within the chain.                                         *)
Shape ==
  /\ mode # "startup" => chain # <<>>
  /\ chain # <<>> => versions # <<>>
  /\ \A h \in 0 .. Len(chain) - 1 : hf_versions[h] \in Versions
  /\ mode = "disconnect" => split \in 1 .. Len(chain) - 1
  /\ mode \in {"connect", "rollback", "restore", "reorg-switch", "reorg-rollback", "reorg-restore"}
       => split \in 1 .. Len(chain)
  /\ Reorganizing => cursor \in 1 .. Len(chain)

TypeInv == TypeOK /\ Shape

(* add() keeps the types, whether or not it accepts the block.             *)
LEMMA HFAddTypes ==
  ASSUME TypeOK, NEW b \in Block, NEW h \in Heights, HFAdd(b, h)
  PROVE  /\ hf_versions' \in [Heights -> Versions \cup {0}]
         /\ \A i \in Heights : hf_versions[i] \in Versions => hf_versions'[i] \in Versions
         /\ do_check(b) => hf_versions'[h] \in Versions
         /\ versions' \in Seq(Versions) /\ Len(versions') <= WindowSize
         /\ versions # <<>> \/ do_check(b) => versions' # <<>>
         /\ last_versions' \in [Versions -> Int]
         /\ current_fork_index' \in DOMAIN heights
<1>1. CASE ~do_check(b)
  BY <1>1 DEF HFAdd, TypeOK
<1>2. CASE do_check(b)
  <2>1. get_current_version \in Versions
    BY Zenon, ReleaseFacts DEF get_current_version, heights, TypeOK
  <2>2. hf_versions' = [hf_versions EXCEPT ![h] = get_current_version]
    BY <1>2 DEF HFAdd
  <2>3. versions' = WindowAfter(b) /\ last_versions' = VotesAfter(b)
        /\ current_fork_index' = Voted(heights, h + 1, VotesAfter(b), current_fork_index)
    BY <1>2 DEF HFAdd
  <2>4. current_fork_index' \in DOMAIN heights
    BY <2>3, VotedType DEF heights, TypeOK
  <2>5. hf_versions \in [Heights -> Versions \cup {0}]
    BY DEF TypeOK
  <2> QED BY Zenon, <2>1, <2>2, <2>3, <2>4, <2>5, AddTypes
<1> QED BY <1>1, <1>2

(* The window and index reorganize starts from.                            *)
LEMMA HFReorganizeTypes ==
  ASSUME TypeOK, NEW bh \in 0 .. Len(chain) - 1, HFReorganize(bh)
  PROVE  /\ versions' \in Seq(Versions) /\ Len(versions') <= WindowSize /\ versions' # <<>>
         /\ last_versions' \in [Versions -> Int]
         /\ current_fork_index' \in DOMAIN heights
         /\ LoweredIndex(bh) \in DOMAIN heights
<1> DEFINE from == IF bh >= WindowSize - 1 THEN bh - (WindowSize - 1) ELSE 0
<1>1. /\ release \in DOMAIN Releases /\ chain \in Seq(Block)
      /\ from \in Nat /\ bh \in Nat /\ from <= bh /\ bh < Len(chain) /\ bh - from + 1 <= WindowSize
  BY WindowAssumption DEF TypeOK
<1>2. ReorgWindow(bh) = VotesBetween(release, from, bh)
  BY DEF ReorgWindow
<1> HIDE DEF from
<1>3. ReorgWindow(bh) \in Seq(Versions) /\ Len(ReorgWindow(bh)) = bh - from + 1
  BY Zenon, <1>1, <1>2, VotesBetweenType
<1>4. /\ versions' = ReorgWindow(bh) /\ last_versions' = CountVotes(ReorgWindow(bh))
      /\ current_fork_index' = Voted(heights, bh + 1, CountVotes(ReorgWindow(bh)), LoweredIndex(bh))
  BY DEF HFReorganize
<1>5. LoweredIndex(bh) \in DOMAIN heights
  <2> DEFINE start_version == IF bh = 0 THEN OriginalVersion ELSE hf_versions[bh]
             S == {n \in 1 .. current_fork_index : n = 1 \/ heights[n].version <= start_version}
  <2>1. current_fork_index \in Nat /\ current_fork_index \in 1 .. Len(heights)
        /\ DOMAIN heights = 1 .. Len(heights) /\ Len(heights) \in Nat
    BY <1>1, ReleaseFacts DEF heights, TypeOK
  <2>2. S \in SUBSET (1 .. current_fork_index) /\ 1 \in S
    BY <2>1
  <2>3. LoweredIndex(bh) = Max(S)
    BY DEF LoweredIndex
  <2> HIDE DEF S
  <2>4. Max(S) \in S
    BY Zenon, <2>1, <2>2, MaxProperties
  <2>5. Max(S) \in 1 .. current_fork_index
    BY ZenonT(40), <2>2, <2>4
  <2> QED BY <2>1, <2>3, <2>5
<1>6. current_fork_index' \in DOMAIN heights
  BY <1>1, <1>4, <1>5, VotedType DEF heights
<1>7. last_versions' \in [Versions -> Int]
  BY <1>3, <1>4, CountVotesType
<1>8. versions' # <<>>
  BY <1>1, <1>3, <1>4
<1> QED
  BY Zenon, <1>1, <1>3, <1>4, <1>5, <1>6, <1>7, <1>8
(* Storing a block keeps the types and records a version for it.           *)
LEMMA StoreTypes ==
  ASSUME TypeInv, NEW b \in Block, StoreBlock(b)
  PROVE  /\ chain' \in Seq(Block) /\ Len(chain') = Len(chain) + 1 /\ Len(chain') <= MaxHeight
         /\ chain' # <<>>
         /\ hf_versions' \in [Heights -> Versions \cup {0}]
         /\ \A h \in 0 .. Len(chain') - 1 : hf_versions'[h] \in Versions
         /\ versions' \in Seq(Versions) /\ Len(versions') <= WindowSize /\ versions' # <<>>
         /\ last_versions' \in [Versions -> Int]
         /\ current_fork_index' \in DOMAIN heights
<1>1. chain \in Seq(Block) /\ Len(chain) < MaxHeight /\ chain' = Append(chain, b) /\ do_check(b)
      /\ HFAdd(b, Len(chain))
  BY DEF StoreBlock, TypeInv, TypeOK
<1>2. chain' \in Seq(Block) /\ Len(chain') = Len(chain) + 1 /\ chain' # <<>>
  BY <1>1
<1>3. Len(chain) \in Heights /\ \A h \in 0 .. Len(chain) - 1 : h \in Heights
  BY <1>1, BoundsAssumption DEF Heights
<1>4. TypeOK /\ \A h \in 0 .. Len(chain) - 1 : hf_versions[h] \in Versions
  BY DEF TypeInv, Shape
<1>5. /\ hf_versions' \in [Heights -> Versions \cup {0}]
      /\ \A i \in Heights : hf_versions[i] \in Versions => hf_versions'[i] \in Versions
      /\ hf_versions'[Len(chain)] \in Versions
      /\ versions' \in Seq(Versions) /\ Len(versions') <= WindowSize /\ versions' # <<>>
      /\ last_versions' \in [Versions -> Int]
      /\ current_fork_index' \in DOMAIN heights
  BY <1>1, <1>3, <1>4, HFAddTypes
<1>6. \A h \in 0 .. Len(chain') - 1 : h = Len(chain) \/ h \in 0 .. Len(chain) - 1
  BY <1>1, <1>2
<1> QED
  BY <1>1, <1>2, <1>3, <1>4, <1>5, <1>6, BoundsAssumption

(* A sequence without its last element.                                    *)
LEMMA FrontType ==
  ASSUME NEW S, NEW s \in Seq(S), s # <<>>
  PROVE  /\ SubSeq(s, 1, Len(s) - 1) \in Seq(S)
         /\ Len(SubSeq(s, 1, Len(s) - 1)) = Len(s) - 1
         /\ Len(s) > 1 => SubSeq(s, 1, Len(s) - 1) # <<>>
         /\ \A i \in 1 .. Len(s) - 1 : SubSeq(s, 1, Len(s) - 1)[i] = s[i]
<1> DEFINE n == Len(s) - 1
<1>1. n \in Nat /\ \A i \in 1 .. n : s[i] \in S
  OBVIOUS
<1>2. /\ SubSeq(s, 1, n) \in Seq(S) /\ Len(SubSeq(s, 1, n)) = IF 1 <= n THEN n - 1 + 1 ELSE 0
      /\ \A i \in 1 .. n - 1 + 1 : SubSeq(s, 1, n)[i] = s[1 + i - 1]
  <2> HIDE DEF n
  <2> QED BY <1>1
<1>3. Len(SubSeq(s, 1, n)) = n
  <2> HIDE DEF n
  <2> QED BY <1>1, <1>2
<1>4. \A i \in 1 .. n : SubSeq(s, 1, n)[i] = s[i]
  <2> HIDE DEF n
  <2> QED BY <1>1, <1>2
<1>5. n > 0 => SubSeq(s, 1, n) # <<>>
  <2> HIDE DEF n
  <2> QED BY <1>1, <1>3
<1> QED BY <1>1, <1>2, <1>3, <1>4, <1>5

(* Popping a block keeps the types; the window keeps its length.           *)
LEMMA PopTypes ==
  ASSUME TypeInv, PopTop
  PROVE  /\ chain' \in Seq(Block) /\ Len(chain') = Len(chain) - 1 /\ Len(chain') <= MaxHeight
         /\ chain' # <<>>
         /\ \A h \in 0 .. Len(chain') - 1 : hf_versions[h] \in Versions
         /\ versions' \in Seq(Versions) /\ Len(versions') <= WindowSize /\ versions' # <<>>
         /\ last_versions' \in [Versions -> Int]
         /\ current_fork_index' \in DOMAIN heights
<1> DEFINE h == Len(chain) - 1
           front == hf_versions[h]
           rest == SubSeq(versions, 1, Len(versions) - 1)
<1>1. /\ TypeOK /\ chain \in Seq(Block) /\ Len(chain) > 1 /\ Len(chain) <= MaxHeight
      /\ chain' = SubSeq(chain, 1, Len(chain) - 1) /\ HFPop(h)
  BY DEF PopTop, TypeInv, TypeOK
<1>2. /\ chain' \in Seq(Block) /\ Len(chain') = Len(chain) - 1 /\ Len(chain') <= MaxHeight
      /\ chain' # <<>>
  <2>1. chain # <<>>
    BY <1>1
  <2> QED BY <1>1, <2>1, BoundsAssumption, FrontType
<1>3. front \in Versions /\ versions # <<>> /\ \A i \in 0 .. Len(chain') - 1 : hf_versions[i] \in Versions
  BY <1>1, <1>2 DEF TypeInv, Shape
<1>4. versions \in Seq(Versions) /\ Len(versions) <= WindowSize /\ Len(versions) \in Nat \ {0}
  BY <1>1, <1>3 DEF TypeOK
<1>5. rest \in Seq(Versions) /\ Len(rest) = Len(versions) - 1
  BY <1>3, <1>4, FrontType, Zenon
<1>6. /\ versions' = <<front>> \o rest
      /\ last_versions' = [v \in Versions |-> last_versions[v]
                             - (IF v = versions[Len(versions)] THEN 1 ELSE 0) + (IF v = front THEN 1 ELSE 0)]
      /\ current_fork_index' = ScheduledIndex(heights, h)
  BY <1>1 DEF HFPop
<1>7. versions' \in Seq(Versions) /\ Len(versions') = Len(versions) /\ versions' # <<>>
  <2> HIDE DEF rest, front
  <2>1. <<front>> \in Seq(Versions) /\ Len(<<front>>) = 1
    BY <1>3
  <2>2. <<front>> \o rest \in Seq(Versions) /\ Len(<<front>> \o rest) = 1 + Len(rest)
    BY <1>5, <2>1
  <2> QED BY <1>4, <1>5, <1>6, <2>2
<1>8. last_versions' \in [Versions -> Int]
  <2>1. last_versions \in [Versions -> Int]
    BY <1>1 DEF TypeOK
  <2> HIDE DEF front
  <2> QED BY <1>6, <2>1
<1>9. current_fork_index' \in DOMAIN heights
  BY <1>1, <1>6, ScheduledProperties DEF heights, TypeOK
<1> QED
  BY Zenon, <1>2, <1>3, <1>4, <1>7, <1>8, <1>9

(* The window and index a restart reads from the database.                 *)
LEMMA RescanTypes ==
  ASSUME TypeInv, chain # <<>>, NEW r \in DOMAIN Releases
  PROVE  /\ RescanWindow(r) \in Seq(Versions) /\ Len(RescanWindow(r)) <= WindowSize
         /\ RescanWindow(r) # <<>>
         /\ RescanIndex(r) \in DOMAIN Releases[r]
<1> DEFINE from == IF Len(chain) > WindowSize THEN Len(chain) - WindowSize ELSE 0
           lastv == hf_versions[Len(chain) - 1]
           known == {n \in DOMAIN Releases[r] : Releases[r][n].version = lastv}
           start == IF known = {} THEN Len(Releases[r]) ELSE Min(known)
<1>1. chain \in Seq(Block) /\ Len(chain) \in Nat \ {0}
  BY DEF TypeInv, TypeOK
<1>2. /\ from \in Nat /\ from <= Len(chain) - 1 /\ Len(chain) - 1 - from + 1 <= WindowSize
      /\ Len(chain) - 1 \in Nat /\ Len(chain) - 1 < Len(chain)
  BY <1>1, WindowAssumption
<1>3. RescanWindow(r) = VotesBetween(r, from, Len(chain) - 1)
  BY DEF RescanWindow
<1>4. RescanWindow(r) \in Seq(Versions) /\ Len(RescanWindow(r)) = Len(chain) - 1 - from + 1
  <2> HIDE DEF from
  <2> QED BY ZenonT(60), <1>1, <1>2, <1>3, VotesBetweenType
<1>5. start \in DOMAIN Releases[r]
  <2>1. DOMAIN Releases[r] = 1 .. Len(Releases[r]) /\ Len(Releases[r]) \in Nat \ {0}
    BY ReleaseFacts
  <2>2. known \in SUBSET (1 .. Len(Releases[r]))
    BY <2>1
  <2>3. known # {} => Min(known) \in known
    <3> HIDE DEF known
    <3> QED BY Zenon, <2>1, <2>2, MinProperties
  <2> HIDE DEF known
  <2>4. CASE known = {}
    BY <2>1, <2>4
  <2>5. CASE known # {}
    BY ZenonT(40), <2>1, <2>2, <2>3, <2>5
  <2> QED BY <2>4, <2>5
<1>6. RescanIndex(r) = Voted(Releases[r], Len(chain), CountVotes(RescanWindow(r)), start)
  BY DEF RescanIndex
<1>7. RescanIndex(r) \in DOMAIN Releases[r]
  <2> HIDE DEF start
  <2> QED BY <1>5, <1>6, VotedType
<1> QED
  BY <1>1, <1>2, <1>4, <1>7

LEMMA TypeInit == Init => TypeInv
<1> SUFFICES ASSUME Init PROVE TypeInv
  OBVIOUS
<1>1. <<>> \in Seq(Block) /\ <<>> \in Seq(Versions) /\ Len(<<>>) = 0
  OBVIOUS
<1>2. CountVotes(<<>>) \in [Versions -> Int]
  BY Zenon, <1>1, CountVotesType
<1>3. current_fork_index \in DOMAIN heights
  BY ReleaseFacts DEF Init, heights
<1>4. hf_versions \in [Heights -> Versions \cup {0}]
  BY DEF Init
<1>5. TypeOK
  <2>1. popped \in BOOLEAN
    BY ZenonT(40) DEF Init
  <2>2. /\ chain \in Seq(Block) /\ Len(chain) <= MaxHeight /\ release \in DOMAIN Releases
        /\ versions \in Seq(Versions) /\ Len(versions) <= WindowSize
        /\ split \in 0 .. MaxHeight /\ saved \in Seq(Block)
    BY <1>1, BoundsAssumption, WindowAssumption DEF Init
  <2>3. mode \in Modes /\ cursor \in Nat /\ last_versions \in [Versions -> Int]
    BY <1>2 DEF Init, Modes
  <2> QED BY Zenon, <1>3, <1>4, <2>1, <2>2, <2>3 DEF TypeOK
<1>6. Shape
  BY <1>1 DEF Init, Shape, Reorganizing
<1> QED BY <1>5, <1>6 DEF TypeInv

LEMMA TypeStep == TypeInv /\ [Next]_vars => TypeInv'
<1> SUFFICES ASSUME TypeInv, [Next]_vars PROVE TypeInv'
  OBVIOUS
<1> USE DEF TypeInv
<1>0. Len(chain) \in Nat /\ WindowSize \in Nat /\ MaxHeight \in Nat
  BY BoundsAssumption, WindowAssumption DEF TypeOK
<1>1. CASE AddGenesis
  <2> DEFINE b == [major |-> OriginalVersion, minor |-> 0]
  <2>1. b \in Block /\ StoreBlock(b)
    BY <1>1, VersionsAssumption DEF AddGenesis, Block
  <2> HIDE DEF b
  <2> QED BY Zenon, <1>1, <2>1, StoreTypes DEF AddGenesis, TypeOK, Shape, Reorganizing, heights
<1>2. CASE StartupPop
  <2>1. /\ chain' \in Seq(Block) /\ Len(chain') = Len(chain) - 1
        /\ Len(chain) \in Nat /\ chain # <<>>
    BY <1>2, FrontType DEF StartupPop, TypeOK
  <2>2. TypeOK'
    BY <1>0, <1>2, <2>1 DEF StartupPop, TypeOK, heights
  <2>3. \A h \in 0 .. Len(chain') - 1 : h \in 0 .. Len(chain) - 1
    BY <1>0, <2>1
  <2>4. Shape'
    BY <1>2, <2>1, <2>3 DEF StartupPop, Shape, Reorganizing
  <2> QED BY Zenon, <2>2, <2>4
<1>3. CASE StartupDone
  <2>1. CASE cursor > 0
    <3>1. Len(chain) - 1 \in 0 .. Len(chain) - 1 /\ HFReorganize(Len(chain) - 1)
      BY <1>3, <2>1 DEF StartupDone, TypeOK
    <3> QED BY <1>3, <2>1, <3>1, HFReorganizeTypes DEF StartupDone, TypeOK, Shape, Reorganizing, heights, Modes
  <2>2. CASE ~(cursor > 0)
    BY <1>3, <2>2 DEF StartupDone, TypeOK, Shape, Reorganizing, heights, Modes
  <2> QED BY Zenon, <2>1, <2>2
<1>4. ASSUME NEW r \in DOMAIN Releases, Restart(r) PROVE TypeInv'
  <2>1. chain # <<>>
    BY Zenon, <1>4 DEF Restart, Shape
  <2> QED BY Zenon, <1>4, <2>1, RescanTypes, CountVotesType
          DEF Restart, TypeOK, Shape, Reorganizing, heights, Modes
<1>5. ASSUME NEW b \in Block, AddBlock(b) PROVE TypeInv'
  BY Zenon, <1>5, StoreTypes DEF AddBlock, TypeOK, Shape, Reorganizing, heights
<1>6. ASSUME NEW b \in Block, ConnectBlock(b) PROVE TypeInv'
  BY <1>6, StoreTypes DEF ConnectBlock, TypeOK, Shape, Reorganizing, heights
<1>7. CASE PopBlock
  BY Zenon, <1>7, PopTypes DEF PopBlock, TypeOK, Shape, Reorganizing, heights
<1>8. ASSUME NEW s \in SplitHeights, StartSwitch(s) PROVE TypeInv'
  <2>1. SubSeq(chain, s + 1, Len(chain)) \in Seq(Block)
    BY <1>8 DEF StartSwitch, TypeOK
  <2> QED BY <1>0, <1>8, <2>1 DEF StartSwitch, TypeOK, Shape, Reorganizing, heights, hfvars, Modes
<1>9. CASE Disconnect
  <2>1. /\ mode = "disconnect" /\ PopTop /\ mode' = IF Len(chain) - 1 = split THEN "connect" ELSE "disconnect"
        /\ UNCHANGED <<hf_versions, release, cursor, split, saved, popped>>
    BY Zenon, <1>9 DEF Disconnect
  <2>2. split \in 1 .. Len(chain) - 1 /\ Len(chain') = Len(chain) - 1 /\ Len(chain') \in Nat
    BY <1>0, <2>1, PopTypes DEF Shape
  <2>3. /\ mode' = "connect" => split' \in 1 .. Len(chain')
        /\ mode' = "disconnect" => split' \in 1 .. Len(chain') - 1
        /\ mode' \in {"connect", "disconnect"}
    BY <1>0, <2>1, <2>2
  <2>4. TypeOK'
    BY Zenon, <2>1, <2>3, PopTypes DEF TypeOK, heights, Modes
  <2>5. Shape'
    BY Zenon, <2>1, <2>3, PopTypes DEF Shape, Reorganizing
  <2> QED BY <2>4, <2>5
<1>10. CASE SwitchDone
  <2>1. split - 1 \in 0 .. Len(chain) - 1 /\ HFReorganize(split - 1)
    BY <1>0, <1>10 DEF SwitchDone, TypeOK, Shape
  <2> QED BY <1>10, <2>1, HFReorganizeTypes DEF SwitchDone, TypeOK, Shape, Reorganizing, heights, Modes
<1>11. CASE ConnectFails
  BY <1>11 DEF ConnectFails, TypeOK, Shape, Reorganizing, heights, hfvars, Modes
<1>12. CASE RollbackPop
  <2>1. /\ mode = "rollback" /\ PopTop /\ Len(chain) # split
        /\ UNCHANGED <<hf_versions, release, mode, cursor, split, saved, popped>>
    BY <1>12 DEF RollbackPop
  <2>2. split \in 1 .. Len(chain) /\ Len(chain') = Len(chain) - 1 /\ Len(chain') \in Nat
    BY <1>0, <2>1, PopTypes DEF Shape
  <2>3. split' \in 1 .. Len(chain')
    BY <1>0, <2>1, <2>2
  <2>4. TypeOK'
    BY Zenon, <2>1, PopTypes DEF TypeOK, heights
  <2>5. Shape'
    BY Zenon, <2>1, <2>3, PopTypes DEF Shape, Reorganizing
  <2> QED BY <2>4, <2>5
<1>13. CASE RollbackRescan
  <2>1. split - 1 \in 0 .. Len(chain) - 1 /\ HFReorganize(split - 1)
    BY <1>0, <1>13 DEF RollbackRescan, TypeOK, Shape
  <2> QED BY <1>13, <2>1, HFReorganizeTypes DEF RollbackRescan, TypeOK, Shape, Reorganizing, heights, Modes
<1>14. CASE RestoreBlock
  <2>1. Head(saved) \in Block /\ Tail(saved) \in Seq(Block)
    BY <1>14 DEF RestoreBlock, TypeOK
  <2>2. /\ mode = "restore" /\ StoreBlock(Head(saved)) /\ saved' = Tail(saved)
        /\ UNCHANGED <<release, mode, cursor, split, popped>>
    BY <1>14 DEF RestoreBlock
  <2>3. split \in 1 .. Len(chain) /\ Len(chain') = Len(chain) + 1
    BY Zenon, <2>1, <2>2, StoreTypes DEF Shape
  <2>4. split' \in 1 .. Len(chain')
    BY <1>0, <2>2, <2>3
  <2>5. TypeOK'
    BY Zenon, <2>1, <2>2, StoreTypes DEF TypeOK, heights
  <2>6. Shape'
    BY Zenon, <2>1, <2>2, <2>4, StoreTypes DEF Shape, Reorganizing
  <2> QED BY <2>5, <2>6
<1>15. CASE RestorePanics
  BY <1>0, <1>15 DEF RestorePanics, TypeOK, Shape, Reorganizing, heights, hfvars, Modes
<1>16. CASE RestoreDone
  <2>1. split - 1 \in 0 .. Len(chain) - 1 /\ HFReorganize(split - 1)
    BY <1>0, <1>16 DEF RestoreDone, TypeOK, Shape
  <2> QED BY <1>16, <2>1, HFReorganizeTypes DEF RestoreDone, TypeOK, Shape, Reorganizing, heights, Modes
<1>17. CASE ReorgAdd
  <2>1. chain[cursor + 1] \in Block /\ cursor \in Heights
    BY <1>0, <1>17 DEF ReorgAdd, TypeOK, Heights, Shape
  <2>2. \A h \in 0 .. Len(chain) - 1 : h \in Heights
    BY <1>0 DEF Heights, TypeOK
  <2>3. /\ hf_versions' \in [Heights -> Versions \cup {0}]
        /\ \A i \in Heights : hf_versions[i] \in Versions => hf_versions'[i] \in Versions
        /\ versions' \in Seq(Versions) /\ Len(versions') <= WindowSize
        /\ versions # <<>> => versions' # <<>>
        /\ last_versions' \in [Versions -> Int]
        /\ current_fork_index' \in DOMAIN heights
    BY Zenon, <1>17, <2>1, HFAddTypes DEF ReorgAdd
  <2>4. TypeOK'
    BY <1>0, <1>17, <2>3 DEF ReorgAdd, TypeOK, heights
  <2>5. cursor' \in 1 .. Len(chain') /\ UNCHANGED <<chain, mode, split>>
    BY <1>0, <1>17 DEF ReorgAdd, TypeOK, Shape
  <2>6. Shape'
    BY <1>17, <2>2, <2>3, <2>5 DEF ReorgAdd, Shape, Reorganizing
  <2> QED BY <2>4, <2>6
<1>18. CASE ReorgDone
  <2>1. <<>> \in Seq(Block) /\ 0 \in 0 .. MaxHeight
    BY <1>0
  <2>2. mode' \in {"restore", "run"} /\ (mode' = "restore" => mode = "reorg-rollback")
    BY <1>18 DEF ReorgDone
  <2>3. TypeOK'
    BY ZenonT(40), <1>18, <2>1, <2>2 DEF ReorgDone, TypeOK, heights, hfvars, Modes
  <2>4. Shape'
    BY Zenon, <1>18, <2>2 DEF ReorgDone, Shape, Reorganizing, hfvars
  <2> QED BY <2>3, <2>4
<1>19. CASE UNCHANGED vars
  BY <1>19 DEF vars, TypeOK, Shape, Reorganizing, heights
<1> QED
  BY ZenonT(60), <1>1, <1>2, <1>3, <1>4, <1>5, <1>6, <1>7, <1>8, <1>9, <1>10, <1>11, <1>12, <1>13, <1>14,
     <1>15, <1>16, <1>17, <1>18, <1>19 DEF Next

(* Every variable keeps its type, for every table, threshold and window:   *)
(* the fork index never leaves the table, the window never outgrows        *)
(* window_size and every vote in it is a version.                          *)
THEOREM TypeCorrect == Spec => []TypeOK
<1>1. TypeInv => TypeOK
  BY DEF TypeInv
<1> QED BY TypeInit, TypeStep, <1>1, PTL DEF Spec

-----------------------------------------------------------------------------
(* With voting disabled the fork object follows the schedule.              *)

At(r, h) == Releases[r][ScheduledIndex(Releases[r], h)].version

(* Block b may stand at height h under release r.                          *)
Fits(r, h, b) == b.major = At(r, h) /\ get_block_vote(b) >= At(r, h)

(* The stored chain and the recorded versions are those release r expects. *)
ChainOn(r) ==
  \A h \in 0 .. Len(chain) - 1 : Fits(r, h, chain[h + 1]) /\ hf_versions[h] = At(r, h)

(* The disconnected blocks, the first of them at height h.                 *)
SavedOn(h) == \A i \in 1 .. Len(saved) : Fits(release, h + i - 1, saved[i])

(* While a new release starts, the chain is still that of an older one r,  *)
(* and the index is at least the one scheduled for the current height.     *)
StartupInv ==
  IF chain = <<>>
  THEN cursor = 0 /\ current_fork_index = 1
  ELSE /\ \E r \in DOMAIN Releases : r <= release /\ ChainOn(r)
       /\ current_fork_index >= ScheduledIndex(heights, Len(chain))
       /\ cursor = 0 => current_fork_index = ScheduledIndex(heights, Len(chain))

ScheduleInv ==
  /\ mode = "startup" => StartupInv
  /\ mode # "startup" => ChainOn(release)
  /\ mode \in {"run", "disconnect", "connect", "rollback", "restore"} =>
       current_fork_index = ScheduledIndex(heights, Len(chain))
  /\ Reorganizing => current_fork_index = ScheduledIndex(heights, cursor)
  /\ mode \in {"disconnect", "connect", "rollback"} => SavedOn(split)
  /\ mode \in {"restore", "reorg-rollback"} => SavedOn(Len(chain))

IInv == TypeInv /\ ScheduleInv

(* The schedule is monotone in the height and starts with the first fork.  *)
LEMMA ScheduleOrder ==
  ASSUME NEW r \in DOMAIN Releases
  PROVE  /\ \A g, h \in Nat : g <= h => ScheduledIndex(Releases[r], g) <= ScheduledIndex(Releases[r], h)
         /\ ScheduledIndex(Releases[r], 0) = 1
<1> DEFINE fs == Releases[r]
<1>0. DOMAIN fs = 1 .. Len(fs) /\ Len(fs) \in Nat \ {0} /\ \A i \in 1 .. Len(fs) : fs[i].height \in Nat
  BY ReleaseFacts
<1>1. ASSUME NEW g \in Nat, NEW h \in Nat, g <= h
      PROVE  ScheduledIndex(fs, g) <= ScheduledIndex(fs, h)
  <2>1. /\ ScheduledIndex(fs, g) \in DOMAIN fs
        /\ ScheduledIndex(fs, g) = 1 \/ g >= fs[ScheduledIndex(fs, g)].height
    BY ScheduledProperties
  <2>2. \A n \in DOMAIN fs : (n = 1 \/ h >= fs[n].height) => n <= ScheduledIndex(fs, h)
    BY ScheduledProperties
  <2> HIDE DEF fs
  <2> QED BY <1>0, <1>1, <2>1, <2>2
<1>2. ScheduledIndex(fs, 0) = 1
  <2>1. /\ ScheduledIndex(fs, 0) \in DOMAIN fs
        /\ ScheduledIndex(fs, 0) = 1 \/ 0 >= fs[ScheduledIndex(fs, 0)].height
    BY ScheduledProperties
  <2>2. \A n \in DOMAIN fs : 1 < n => fs[1].height < fs[n].height
    BY <1>0, ReleasesAssumption
  <2> HIDE DEF fs
  <2> QED BY <1>0, <2>1, <2>2
<1> QED BY Zenon, <1>1, <1>2

(* With every threshold 0, a vote count finds the scheduled fork, whatever *)
(* the counters hold.                                                      *)
LEMMA VotedScheduled ==
  ASSUME VotingDisabled, NEW r \in DOMAIN Releases, NEW h \in Nat,
         NEW counts \in [Versions -> Int], NEW current \in DOMAIN Releases[r],
         current <= ScheduledIndex(Releases[r], h)
  PROVE  Voted(Releases[r], h, counts, current) = ScheduledIndex(Releases[r], h)
<1> DEFINE fs == Releases[r]
           k == ScheduledIndex(fs, h)
           enough == {n \in DOMAIN fs : /\ h >= fs[n].height
                                        /\ accumulated_votes(fs, n, counts) >= threshold(fs[n])}
           voted == get_voted_fork_index(fs, h, counts, current)
<1>0. DOMAIN fs = 1 .. Len(fs) /\ Len(fs) \in Nat \ {0} /\ \A i \in 1 .. Len(fs) : fs[i].height \in Nat
  BY ReleaseFacts
<1>1. ASSUME NEW n \in DOMAIN fs
      PROVE  accumulated_votes(fs, n, counts) >= threshold(fs[n])
  <2> DEFINE P == (n .. Len(fs)) \X (1 .. WindowSize)
             Q == {p \in P : p[2] <= counts[fs[p[1]].version]}
  <2>1. IsFiniteSet(n .. Len(fs)) /\ IsFiniteSet(1 .. WindowSize)
    BY <1>0, FS_Interval, WindowAssumption
  <2>2. IsFiniteSet(P)
    BY ZenonT(40), <2>1, FS_Product
  <2>3. Q \in SUBSET P
    OBVIOUS
  <2>4. IsFiniteSet(Q)
    <3> HIDE DEF P, Q
    <3> QED BY Zenon, <2>2, <2>3, FS_Subset
  <2>5. Cardinality(Q) \in Nat
    <3> HIDE DEF P, Q
    <3> QED BY Zenon, <2>4, FS_CardinalityType
  <2>6. accumulated_votes(fs, n, counts) = Cardinality(Q)
    BY DEF accumulated_votes
  <2>7. fs[n].threshold = 0
    BY DEF VotingDisabled
  <2>8. threshold(fs[n]) = 0
    BY <2>7, WindowAssumption DEF threshold
  <2> HIDE DEF Q
  <2> QED BY <2>5, <2>6, <2>8
<1>2. \A n : n \in enough <=> n \in DOMAIN fs /\ h >= fs[n].height
  BY <1>1
<1>3. enough \in SUBSET (1 .. Len(fs))
  BY <1>0
<1>4. enough # {} => Max(enough) \in enough /\ \A y \in enough : y <= Max(enough)
  <2> HIDE DEF enough
  <2> QED BY Zenon, <1>0, <1>3, MaxProperties
<1>5. /\ k \in DOMAIN fs /\ (k = 1 \/ h >= fs[k].height)
      /\ \A n \in DOMAIN fs : (n = 1 \/ h >= fs[n].height) => n <= k
  BY ScheduledProperties
<1>6. voted = IF enough = {} THEN current ELSE Max(enough)
  BY Zenon DEF get_voted_fork_index
<1>7. Voted(fs, h, counts, current) = IF voted > current THEN voted ELSE current
  BY Zenon DEF Voted
<1> HIDE DEF enough, voted, fs, k
<1>8. CASE enough = {}
  <2>1. k = 1
    BY Zenon, <1>2, <1>5, <1>8
  <2> QED BY <1>0, <1>6, <1>7, <1>8, <2>1 DEF fs, k
<1>9. CASE enough # {}
  <2>1. Max(enough) \in DOMAIN fs /\ Max(enough) <= k
    BY Zenon, <1>2, <1>4, <1>5, <1>9
  <2>2. k <= Max(enough)
    BY <1>0, <1>2, <1>4, <1>5, <1>9, <2>1
  <2>3. voted = k
    BY <1>0, <1>5, <1>6, <1>9, <2>1, <2>2
  <2> QED BY <1>0, <1>5, <1>7, <2>3 DEF fs, k
<1> QED BY Zenon, <1>8, <1>9 DEF fs, k

(* Different forks have different versions.                                *)
LEMMA VersionsOrdered ==
  ASSUME NEW r \in DOMAIN Releases, NEW m \in DOMAIN Releases[r], NEW n \in DOMAIN Releases[r]
  PROVE  m <= n <=> Releases[r][m].version <= Releases[r][n].version
<1>1. m \in Nat /\ n \in Nat /\ Releases[r][m].version \in Nat /\ Releases[r][n].version \in Nat
  BY ReleaseFacts
<1>2. /\ m < n => Releases[r][m].version < Releases[r][n].version
      /\ n < m => Releases[r][n].version < Releases[r][m].version
  BY ReleasesAssumption
<1>3. m = n => Releases[r][m].version = Releases[r][n].version
  BY Zenon
<1> QED BY <1>1, <1>2, <1>3

(* add() accepts a fitting block at the scheduled index and moves the      *)
(* index to the one scheduled for the next height.                         *)
LEMMA AddOnSchedule ==
  ASSUME VotingDisabled, TypeOK, NEW b \in Block, NEW h \in Heights, HFAdd(b, h),
         current_fork_index = ScheduledIndex(heights, h), Fits(release, h, b) \/ do_check(b)
  PROVE  /\ Fits(release, h, b)
         /\ hf_versions' = [hf_versions EXCEPT ![h] = At(release, h)]
         /\ current_fork_index' = ScheduledIndex(heights, h + 1)
<1>1. release \in DOMAIN Releases /\ current_fork_index \in DOMAIN heights
  BY DEF TypeOK
<1>2. heights[current_fork_index].version = At(release, h)
  BY Zenon DEF At, heights
<1>3. Fits(release, h, b) /\ do_check(b)
  BY Zenon, <1>2 DEF do_check, Accepts, Fits
<1>4. hf_versions' = [hf_versions EXCEPT ![h] = At(release, h)]
  BY Zenon, <1>2, <1>3 DEF HFAdd, get_current_version
<1>5. current_fork_index' = Voted(heights, h + 1, VotesAfter(b), current_fork_index)
  BY <1>3 DEF HFAdd
<1>6. h \in Nat /\ h + 1 \in Nat /\ h <= h + 1
  BY BoundsAssumption DEF Heights
<1>7. current_fork_index <= ScheduledIndex(heights, h + 1)
  BY Zenon, <1>1, <1>6, ScheduleOrder DEF heights
<1>8. VotesAfter(b) \in [Versions -> Int]
  BY Zenon, AddTypes
<1> QED BY Zenon, <1>1, <1>3, <1>4, <1>5, <1>6, <1>7, <1>8, VotedScheduled DEF heights

(* reorganize lowers the index to the one scheduled for block bh and then  *)
(* raises it to the one scheduled for the next.                            *)
LEMMA ReorganizeOnSchedule ==
  ASSUME VotingDisabled, TypeOK, NEW bh \in 0 .. Len(chain) - 1, HFReorganize(bh),
         hf_versions[bh] = At(release, bh),
         current_fork_index >= ScheduledIndex(heights, bh)
  PROVE  current_fork_index' = ScheduledIndex(heights, bh + 1)
<1> DEFINE k == ScheduledIndex(heights, bh)
           start_version == IF bh = 0 THEN OriginalVersion ELSE hf_versions[bh]
           S == {n \in 1 .. current_fork_index : n = 1 \/ heights[n].version <= start_version}
<1>1. /\ release \in DOMAIN Releases /\ bh \in Nat /\ bh + 1 \in Nat
      /\ DOMAIN heights = 1 .. Len(heights) /\ Len(heights) \in Nat \ {0}
      /\ current_fork_index \in 1 .. Len(heights)
  BY ReleaseFacts DEF TypeOK, heights
<1>2. k \in DOMAIN heights
  <2>1. DOMAIN Releases[release] = DOMAIN heights
    BY Zenon DEF heights
  <2>3. bh \in Int
    BY <1>1
  <2>2. ScheduledIndex(Releases[release], bh) \in DOMAIN Releases[release]
    BY Zenon, <1>1, <2>3, ScheduledProperties
  <2> QED
    BY Zenon, <2>1, <2>2 DEF heights
<1>3. start_version = heights[k].version
  <2>1. CASE bh = 0
    BY Zenon, <1>1, <2>1, ScheduleOrder, ReleasesAssumption DEF heights
  <2>2. CASE bh # 0
    BY <2>2 DEF At, heights
  <2> QED BY Zenon, <2>1, <2>2
<1> HIDE DEF start_version, k
<1>4. k \in S /\ \A n \in S : n <= k
  <2>1. ASSUME NEW n \in DOMAIN heights PROVE n <= k <=> heights[n].version <= heights[k].version
    BY Zenon, <1>1, <1>2, VersionsOrdered DEF heights
  <2>2. k <= current_fork_index
    BY Zenon, <1>1, <1>2 DEF k
  <2>3. k \in S
    BY <1>1, <1>2, <1>3, <2>1, <2>2
  <2>4. ASSUME NEW n \in S PROVE n <= k
    BY <1>1, <1>2, <1>3, <2>1, <2>4
  <2> QED BY Zenon, <2>3, <2>4
<1>5. S \in SUBSET (1 .. current_fork_index) /\ current_fork_index \in Nat
  BY <1>1
<1>6. LoweredIndex(bh) = Max(S)
  BY DEF LoweredIndex, start_version
<1> HIDE DEF S
<1>7. Max(S) \in S /\ \A y \in S : y <= Max(S)
  BY ZenonT(40), <1>4, <1>5, MaxProperties
<1>8. LoweredIndex(bh) = k
  BY <1>1, <1>2, <1>4, <1>5, <1>6, <1>7
<1>9. current_fork_index' = Voted(heights, bh + 1, last_versions', k)
  BY <1>8 DEF HFReorganize
<1>10. last_versions' \in [Versions -> Int]
  BY Zenon, HFReorganizeTypes
<1>11. k <= ScheduledIndex(heights, bh + 1)
  BY <1>1, ScheduleOrder DEF heights, k
<1> QED BY Zenon, <1>1, <1>2, <1>9, <1>10, <1>11, VotedScheduled DEF heights

(* A newer release schedules at least as much, and where it agrees with an *)
(* older one at some height, it agrees at every height below.              *)
LEMMA UpgradeAgrees ==
  ASSUME NEW q \in DOMAIN Releases, NEW r \in DOMAIN Releases, q <= r, NEW h \in Nat
  PROVE  /\ ScheduledIndex(Releases[q], h) \in DOMAIN Releases[r]
         /\ Releases[r][ScheduledIndex(Releases[q], h)].version = At(q, h)
         /\ ScheduledIndex(Releases[q], h) <= ScheduledIndex(Releases[r], h)
         /\ ScheduledIndex(Releases[q], h) = ScheduledIndex(Releases[r], h) =>
              \A g \in 0 .. h : At(q, g) = At(r, g)
<1> DEFINE fq == Releases[q]
           fr == Releases[r]
           j == [x \in Nat |-> ScheduledIndex(fq, x)]
           k == [x \in Nat |-> ScheduledIndex(fr, x)]
<1>1. /\ DOMAIN fq = 1 .. Len(fq) /\ DOMAIN fr = 1 .. Len(fr)
      /\ Len(fq) \in Nat /\ Len(fr) \in Nat
      /\ \A i \in DOMAIN fr : fr[i].height \in Nat
  BY Zenon, ReleaseFacts
<1>2. Len(fq) <= Len(fr) /\ \A i \in DOMAIN fq : fq[i] = fr[i]
  BY Zenon, ReleasesAssumption
<1>3. \A x \in Nat :
        /\ j[x] \in DOMAIN fq /\ (j[x] = 1 \/ x >= fq[j[x]].height)
        /\ \A n \in DOMAIN fq : (n = 1 \/ x >= fq[n].height) => n <= j[x]
        /\ k[x] \in DOMAIN fr /\ (k[x] = 1 \/ x >= fr[k[x]].height)
        /\ \A n \in DOMAIN fr : (n = 1 \/ x >= fr[n].height) => n <= k[x]
  BY ScheduledProperties
<1>4. \A x \in Nat : At(q, x) = fq[j[x]].version /\ At(r, x) = fr[k[x]].version
  BY Zenon DEF At
<1> HIDE DEF fq, fr, j, k
<1>5. j[h] \in DOMAIN fr /\ fr[j[h]] = fq[j[h]] /\ j[h] <= k[h]
  BY <1>1, <1>2, <1>3
<1>6. ASSUME j[h] = k[h], NEW g \in 0 .. h PROVE j[g] = k[g]
  <2>1. g \in Nat /\ g <= h
    OBVIOUS
  <2>2. k[g] = 1 \/ h >= fr[k[g]].height
    BY <1>1, <1>3, <2>1
  <2>3. k[g] <= j[h]
    BY Zenon, <1>3, <1>6, <2>1, <2>2
  <2>4. k[g] \in DOMAIN fq
    BY <1>1, <1>3, <2>1, <2>3
  <2>5. k[g] <= j[g]
    BY Zenon, <1>2, <1>3, <2>1, <2>4
  <2>6. j[g] <= k[g]
    <3>1. j[g] \in DOMAIN fq /\ (j[g] = 1 \/ g >= fq[j[g]].height)
      BY Zenon, <1>3, <2>1
    <3>2. j[g] \in DOMAIN fr /\ fr[j[g]] = fq[j[g]]
      BY <1>1, <1>2, <3>1
    <3> QED BY Zenon, <1>3, <2>1, <3>1, <3>2
  <2> QED BY <1>1, <1>3, <2>1, <2>5, <2>6
<1>7. ASSUME j[h] = k[h], NEW g \in 0 .. h PROVE At(q, g) = At(r, g)
  <2>1. g \in Nat /\ j[g] = k[g]
    BY <1>6, <1>7
  <2>2. j[g] \in DOMAIN fq
    BY Zenon, <1>3, <2>1
  <2>3. fq[j[g]] = fr[k[g]]
    BY <1>2, <2>1, <2>2
  <2> QED BY Zenon, <1>4, <2>1, <2>3
<1> QED BY Zenon, <1>4, <1>5, <1>7 DEF fq, fr, j, k

(* When the top block agrees with the running release, so does the chain.  *)
LEMMA TopAgreesMeansOn ==
  ASSUME TypeOK, chain # <<>>, TopAgrees, NEW q \in DOMAIN Releases, q <= release, ChainOn(q)
  PROVE  ChainOn(release)
<1> DEFINE h == Len(chain) - 1
           j == ScheduledIndex(Releases[q], h)
           k == ScheduledIndex(heights, h)
<1>1. /\ release \in DOMAIN Releases /\ chain \in Seq(Block) /\ h \in Nat
      /\ h \in 0 .. Len(chain) - 1 /\ h + 1 = Len(chain)
  BY DEF TypeOK
<1>2. chain[Len(chain)].major = At(q, h)
  BY Zenon, <1>1 DEF ChainOn, Fits
<1>3. /\ j \in DOMAIN heights /\ heights[j].version = At(q, h) /\ j <= k
      /\ j = k => \A g \in 0 .. h : At(q, g) = At(release, g)
  BY <1>1, UpgradeAgrees DEF heights
<1>4. k \in DOMAIN heights /\ heights[1].version = OriginalVersion /\ 1 \in DOMAIN heights
  <2>1. k \in DOMAIN heights
    BY <1>1, ScheduledProperties DEF heights
  <2>2. 1 \in DOMAIN heights
    BY <1>1, ReleaseFacts DEF heights
  <2>3. heights[1].version = OriginalVersion
    BY Zenon, <1>1, ReleasesAssumption DEF heights
  <2> QED BY Zenon, <2>1, <2>2, <2>3
<1>5. /\ j \in Nat /\ k \in Nat /\ j >= 1 /\ k >= 1
      /\ heights[k].version \in Nat /\ heights[j].version \in Nat \ {0} /\ heights[1].version \in Nat \ {0}
  <2>1. \A i \in DOMAIN heights : i \in Nat /\ i >= 1 /\ heights[i].version \in Nat \ {0}
    BY <1>1, ReleaseFacts DEF heights
  <2> HIDE DEF j, k
  <2> QED BY Zenon, <1>3, <1>4, <2>1
<1>6. get_ideal_version(h) = heights[k].version
  BY Zenon, <1>4 DEF get_ideal_version
<1>7. heights[k].version <= 1 \/ heights[k].version = heights[j].version
  BY Zenon, <1>2, <1>3, <1>6 DEF TopAgrees
<1> HIDE DEF h, j, k
<1>8. k <= j
  <2>1. CASE heights[k].version <= 1
    <3>1. heights[k].version <= heights[1].version
      BY <1>5, <2>1
    <3>2. k <= 1
      BY Zenon, <1>1, <1>4, <3>1, VersionsOrdered DEF heights
    <3> QED BY <1>5, <3>2
  <2>2. CASE heights[k].version = heights[j].version
    BY Zenon, <1>1, <1>3, <1>4, <1>5, <2>2, VersionsOrdered DEF heights
  <2> QED BY Zenon, <1>7, <2>1, <2>2
<1>9. \A g \in 0 .. h : At(q, g) = At(release, g)
  BY <1>3, <1>5, <1>8
<1> QED BY <1>9 DEF ChainOn, Fits, h

(* Storing a block on a chain that is on schedule keeps it there.          *)
LEMMA StoreOnSchedule ==
  ASSUME VotingDisabled, TypeInv, NEW b \in Block, StoreBlock(b), ChainOn(release),
         current_fork_index = ScheduledIndex(heights, Len(chain)), release' = release
  PROVE  /\ ChainOn(release)'
         /\ current_fork_index' = ScheduledIndex(heights, Len(chain'))
         /\ Len(chain') = Len(chain) + 1
<1>1. /\ TypeOK /\ chain \in Seq(Block) /\ Len(chain) \in Heights /\ Len(chain) \in Nat
      /\ chain' = Append(chain, b) /\ do_check(b) /\ HFAdd(b, Len(chain))
  BY BoundsAssumption DEF StoreBlock, TypeInv, TypeOK, Heights
<1>2. /\ Fits(release, Len(chain), b)
      /\ hf_versions' = [hf_versions EXCEPT ![Len(chain)] = At(release, Len(chain))]
      /\ current_fork_index' = ScheduledIndex(heights, Len(chain) + 1)
  BY Zenon, <1>1, AddOnSchedule
<1>3. /\ Len(chain') = Len(chain) + 1 /\ chain'[Len(chain) + 1] = b
      /\ \A i \in 1 .. Len(chain) : chain'[i] = chain[i]
  BY <1>1
<1>4. hf_versions \in [Heights -> Versions \cup {0}] /\ \A h \in 0 .. Len(chain) - 1 : h \in Heights
  BY <1>1, BoundsAssumption DEF TypeOK, Heights
<1>5. ASSUME NEW h \in 0 .. Len(chain') - 1
      PROVE  Fits(release, h, chain'[h + 1]) /\ hf_versions'[h] = At(release, h)
  <2>1. CASE h = Len(chain)
    BY Zenon, <1>1, <1>2, <1>3, <1>4, <2>1
  <2>2. CASE h # Len(chain)
    <3>1. h \in 0 .. Len(chain) - 1 /\ h + 1 \in 1 .. Len(chain)
      BY <1>1, <1>3, <2>2
    <3>2. Fits(release, h, chain[h + 1]) /\ hf_versions[h] = At(release, h)
      BY Zenon, <3>1 DEF ChainOn
    <3> QED BY Zenon, <1>2, <1>3, <1>4, <2>2, <3>1, <3>2
  <2> QED BY Zenon, <2>1, <2>2
<1>6. ChainOn(release)'
  BY Zenon, <1>5 DEF ChainOn, Fits, At
<1> QED BY Zenon, <1>2, <1>3, <1>6

(* Popping a block keeps the rest on schedule.                             *)
LEMMA PopOnSchedule ==
  ASSUME TypeInv, PopTop, ChainOn(release), UNCHANGED <<release, hf_versions>>
  PROVE  /\ ChainOn(release)'
         /\ current_fork_index' = ScheduledIndex(heights, Len(chain'))
<1>1. /\ chain \in Seq(Block) /\ chain # <<>> /\ Len(chain) \in Nat
      /\ chain' = SubSeq(chain, 1, Len(chain) - 1) /\ HFPop(Len(chain) - 1)
  BY DEF PopTop, TypeInv, TypeOK
<1>2. /\ Len(chain') = Len(chain) - 1
      /\ \A i \in 1 .. Len(chain) - 1 : chain'[i] = chain[i]
  BY <1>1, FrontType
<1>3. current_fork_index' = ScheduledIndex(heights, Len(chain) - 1)
  BY <1>1 DEF HFPop
<1>4. \A h \in 0 .. Len(chain') - 1 : h \in 0 .. Len(chain) - 1 /\ chain'[h + 1] = chain[h + 1]
  BY <1>1, <1>2
<1> QED BY Zenon, <1>2, <1>3, <1>4 DEF ChainOn, Fits, At

LEMMA ScheduleInit == Init => ScheduleInv
  BY DEF Init, ScheduleInv, StartupInv, Reorganizing

(* A restart: the rescan finds the fork of the top block, and the vote     *)
(* count raises the index to the one scheduled for the next height.        *)
LEMMA RestartOnSchedule ==
  ASSUME VotingDisabled, TypeInv, chain # <<>>, ChainOn(release),
         NEW r \in DOMAIN Releases, release <= r
  PROVE  RescanIndex(r) = ScheduledIndex(Releases[r], Len(chain))
<1> DEFINE h == Len(chain) - 1
           lastv == hf_versions[h]
           known == {n \in DOMAIN Releases[r] : Releases[r][n].version = lastv}
           start == IF known = {} THEN Len(Releases[r]) ELSE Min(known)
           j == ScheduledIndex(heights, h)
<1>1. /\ release \in DOMAIN Releases /\ chain \in Seq(Block) /\ Len(chain) \in Nat \ {0}
      /\ h \in Nat /\ h \in 0 .. Len(chain) - 1 /\ h <= Len(chain)
  BY DEF TypeInv, TypeOK
<1>2. lastv = At(release, h)
  BY <1>1 DEF ChainOn
<1>3. /\ j \in DOMAIN Releases[r] /\ Releases[r][j].version = lastv
      /\ j <= ScheduledIndex(Releases[r], h)
  BY Zenon, <1>1, <1>2, UpgradeAgrees DEF heights
<1>4. DOMAIN Releases[r] = 1 .. Len(Releases[r]) /\ Len(Releases[r]) \in Nat
  BY Zenon, ReleaseFacts
<1> HIDE DEF j, h
<1>5. known = {j}
  <2>1. ASSUME NEW n \in known PROVE n = j
    <3>1. n \in DOMAIN Releases[r] /\ Releases[r][n].version = Releases[r][j].version
      BY Zenon, <1>3, <2>1
    <3>2. Releases[r][j].version \in Nat
      BY Zenon, <1>3, <1>4, ReleaseFacts
    <3>3. n <= j /\ j <= n
      BY <1>3, <3>1, <3>2, VersionsOrdered
    <3> QED BY <1>3, <1>4, <3>1, <3>3
  <2> QED BY Zenon, <1>3, <2>1
<1>6. start = j
  <2>1. Min({j}) = j
    BY <1>3, <1>4 DEF Min
  <2> HIDE DEF known
  <2> QED BY Zenon, <1>5, <2>1
<1>7. ScheduledIndex(Releases[r], h) <= ScheduledIndex(Releases[r], Len(chain))
  BY Zenon, <1>1, ScheduleOrder
<1>8. /\ ScheduledIndex(Releases[r], h) \in DOMAIN Releases[r]
      /\ ScheduledIndex(Releases[r], Len(chain)) \in DOMAIN Releases[r]
  BY <1>1, ScheduledProperties
<1>9. j <= ScheduledIndex(Releases[r], Len(chain))
  BY <1>3, <1>4, <1>7, <1>8
<1>10. CountVotes(RescanWindow(r)) \in [Versions -> Int]
  BY Zenon, RescanTypes, CountVotesType
<1>11. RescanIndex(r) = Voted(Releases[r], Len(chain), CountVotes(RescanWindow(r)), start)
  BY Zenon DEF RescanIndex, h
<1> HIDE DEF start
<1> QED BY <1>1, <1>3, <1>6, <1>9, <1>10, <1>11, VotedScheduled

LEMMA ScheduleStep ==
  ASSUME VotingDisabled, TypeInv, TypeInv', ScheduleInv, [Next]_vars
  PROVE  ScheduleInv'
<1>0. /\ TypeOK /\ Shape /\ release \in DOMAIN Releases /\ chain \in Seq(Block) /\ Len(chain) \in Nat
      /\ split \in Nat /\ cursor \in Nat /\ saved \in Seq(Block) /\ Len(saved) \in Nat
  BY DEF TypeInv, TypeOK
<1>1. CASE AddGenesis
  <2> DEFINE b == [major |-> OriginalVersion, minor |-> 0]
  <2>1. b \in Block /\ StoreBlock(b)
    BY Zenon, <1>1, VersionsAssumption DEF AddGenesis, Block
  <2>2. chain = <<>> /\ Len(chain) = 0 /\ current_fork_index = 1 /\ cursor = 0 /\ mode = "startup"
    BY Zenon, <1>1 DEF AddGenesis, ScheduleInv, StartupInv
  <2>3. current_fork_index = ScheduledIndex(heights, Len(chain)) /\ ChainOn(release)
    BY <1>0, <2>2, ScheduleOrder DEF heights, ChainOn
  <2>4. UNCHANGED <<release, mode, cursor>>
    BY Zenon, <1>1 DEF AddGenesis
  <2> HIDE DEF b
  <2>5. /\ ChainOn(release)' /\ current_fork_index' = ScheduledIndex(heights, Len(chain'))
        /\ Len(chain') = Len(chain) + 1
    BY Zenon, <2>1, <2>3, <2>4, StoreOnSchedule
  <2>6. release' \in DOMAIN Releases /\ release' <= release' /\ heights' = heights
    BY <1>0, <2>4, ReleaseFacts DEF heights
  <2>7. chain' # <<>>
    BY <2>2, <2>5
  <2>8. ScheduledIndex(heights, Len(chain')) \in Nat
    BY <1>0, <2>2, <2>5, ScheduledNat DEF heights
  <2>9. \E r \in DOMAIN Releases : r <= release' /\ ChainOn(r)'
    BY Zenon, <2>4, <2>5, <2>6 DEF ChainOn
  <2>10. StartupInv'
    BY <2>5, <2>6, <2>7, <2>8, <2>9 DEF StartupInv
  <2> QED BY Zenon, <2>2, <2>4, <2>10 DEF ScheduleInv, Reorganizing
<1>2. CASE StartupPop
  <2>1. /\ mode = "startup" /\ chain # <<>> /\ ~TopAgrees /\ cursor' = cursor + 1
        /\ chain' = SubSeq(chain, 1, Len(chain) - 1)
        /\ UNCHANGED <<hf_versions, release, current_fork_index, mode>>
    BY Zenon, <1>2 DEF StartupPop
  <2>2. PICK q \in DOMAIN Releases : q <= release /\ ChainOn(q)
    BY Zenon, <2>1 DEF ScheduleInv, StartupInv
  <2>3. /\ Len(chain') = Len(chain) - 1 /\ Len(chain) > 0
        /\ \A i \in 1 .. Len(chain) - 1 : chain'[i] = chain[i]
    BY <1>0, <2>1, FrontType
  <2>4. Len(chain) # 1
    <3> SUFFICES ASSUME Len(chain) = 1 PROVE TopAgrees
      BY Zenon, <2>1
    <3>1. chain[1].major = At(q, 0)
      BY <2>2 DEF ChainOn, Fits
    <3>2. At(q, 0) = OriginalVersion
      BY Zenon, <2>2, ScheduleOrder, ReleasesAssumption DEF At
    <3>3. get_ideal_version(0) = OriginalVersion
      BY Zenon, <1>0, ScheduleOrder DEF get_ideal_version, heights
    <3> QED BY <3>1, <3>2, <3>3 DEF TopAgrees
  <2>5. ChainOn(q)'
    <3>1. \A h \in 0 .. Len(chain') - 1 : h \in 0 .. Len(chain) - 1 /\ chain'[h + 1] = chain[h + 1]
      BY <1>0, <2>3
    <3> QED BY Zenon, <2>1, <2>2, <3>1 DEF ChainOn, Fits, At
  <2>6. current_fork_index' >= ScheduledIndex(heights', Len(chain'))
    <3>1. ScheduledIndex(heights, Len(chain) - 1) <= ScheduledIndex(heights, Len(chain))
      BY <1>0, <2>3, ScheduleOrder DEF heights
    <3>2. current_fork_index >= ScheduledIndex(heights, Len(chain))
      BY Zenon, <2>1 DEF ScheduleInv, StartupInv
    <3>3. /\ ScheduledIndex(heights, Len(chain) - 1) \in Nat /\ ScheduledIndex(heights, Len(chain)) \in Nat
          /\ heights' = heights
      BY <1>0, <2>1, ScheduledNat DEF heights
    <3>4. current_fork_index \in Nat
      BY <1>0, ReleaseFacts DEF heights, TypeOK
    <3>5. current_fork_index >= ScheduledIndex(heights, Len(chain) - 1)
      BY <3>1, <3>2, <3>3, <3>4
    <3> QED BY Zenon, <2>1, <2>3, <3>3, <3>5
  <2>7. chain' # <<>>
    BY <1>0, <2>3, <2>4
  <2>8. cursor' # 0
    BY <1>0, <2>1
  <2>9. \E r \in DOMAIN Releases : r <= release' /\ ChainOn(r)'
    BY Zenon, <2>1, <2>2, <2>5
  <2>10. StartupInv'
    BY Zenon, <2>6, <2>7, <2>8, <2>9 DEF StartupInv
  <2> QED BY Zenon, <2>1, <2>10 DEF ScheduleInv, Reorganizing
<1>3. CASE StartupDone
  <2>1. /\ mode = "startup" /\ chain # <<>> /\ TopAgrees
        /\ UNCHANGED <<chain, hf_versions, release>> /\ heights' = heights
    BY Zenon, <1>3 DEF StartupDone, heights
  <2>2. ChainOn(release)
    BY Zenon, <1>0, <2>1, TopAgreesMeansOn DEF ScheduleInv, StartupInv
  <2>3. ChainOn(release)'
    BY Zenon, <2>1, <2>2 DEF ChainOn, Fits, At
  <2>4. CASE cursor > 0
    <3>1. /\ HFReorganize(Len(chain) - 1) /\ mode' = "reorg-startup" /\ cursor' = Len(chain)
          /\ Len(chain) - 1 \in 0 .. Len(chain) - 1
      BY <1>0, <1>3, <2>1, <2>4 DEF StartupDone
    <3>2. hf_versions[Len(chain) - 1] = At(release, Len(chain) - 1)
      BY Zenon, <2>2, <3>1 DEF ChainOn
    <3>3. current_fork_index >= ScheduledIndex(heights, Len(chain) - 1)
      <4>1. current_fork_index >= ScheduledIndex(heights, Len(chain))
        BY Zenon, <2>1 DEF ScheduleInv, StartupInv
      <4>2. ScheduledIndex(heights, Len(chain) - 1) <= ScheduledIndex(heights, Len(chain))
        BY <1>0, <3>1, ScheduleOrder DEF heights
      <4>3. /\ ScheduledIndex(heights, Len(chain) - 1) \in Nat /\ ScheduledIndex(heights, Len(chain)) \in Nat
        BY <1>0, ScheduledNat DEF heights
      <4>4. current_fork_index \in Nat
        BY <1>0, ReleaseFacts DEF heights, TypeOK
      <4> QED BY <4>1, <4>2, <4>3, <4>4
    <3>4. current_fork_index' = ScheduledIndex(heights, Len(chain) - 1 + 1)
      BY Zenon, <1>0, <3>1, <3>2, <3>3, ReorganizeOnSchedule
    <3>5. current_fork_index' = ScheduledIndex(heights', cursor')
      BY <1>0, <2>1, <3>1, <3>4
    <3> QED BY Zenon, <2>3, <3>1, <3>5 DEF ScheduleInv, Reorganizing
  <2>5. CASE ~(cursor > 0)
    <3>1. cursor = 0 /\ mode' = "run" /\ current_fork_index' = current_fork_index
      BY <1>0, <1>3, <2>5 DEF StartupDone
    <3>2. current_fork_index = ScheduledIndex(heights, Len(chain))
      BY Zenon, <2>1, <3>1 DEF ScheduleInv, StartupInv
    <3> QED BY Zenon, <2>1, <2>3, <3>1, <3>2 DEF ScheduleInv, Reorganizing
  <2> QED BY Zenon, <2>4, <2>5
<1>4. ASSUME NEW r \in DOMAIN Releases, Restart(r) PROVE ScheduleInv'
  <2>1. /\ mode = "run" /\ release' = r /\ r >= release /\ current_fork_index' = RescanIndex(r)
        /\ mode' = "startup" /\ cursor' = 0 /\ UNCHANGED <<chain, hf_versions>>
    BY Zenon, <1>4 DEF Restart
  <2>2. ChainOn(release) /\ chain # <<>> /\ release <= r
    BY Zenon, <1>0, <2>1, ReleaseFacts DEF ScheduleInv, Shape
  <2>3. current_fork_index' = ScheduledIndex(heights', Len(chain'))
    BY Zenon, <2>1, <2>2, RestartOnSchedule DEF heights
  <2>4. ScheduledIndex(heights', Len(chain')) \in Nat
    BY <1>0, <2>1, ScheduledNat DEF heights
  <2>5. \E q \in DOMAIN Releases : q <= release' /\ ChainOn(q)'
    <3>1. ChainOn(release) /\ release \in DOMAIN Releases /\ release <= release'
      BY Zenon, <1>0, <2>1, <2>2
    <3>2. \A q : ChainOn(q) => ChainOn(q)'
      BY Zenon, <2>1 DEF ChainOn, Fits, At
    <3> QED BY Zenon, <3>1, <3>2
  <2>6. StartupInv'
    BY <2>1, <2>2, <2>3, <2>4, <2>5 DEF StartupInv
  <2> QED BY Zenon, <2>1, <2>6 DEF ScheduleInv, Reorganizing
<1>5. ASSUME NEW b \in Block, AddBlock(b) PROVE ScheduleInv'
  <2>1. mode = "run" /\ StoreBlock(b) /\ UNCHANGED <<release, mode>>
    BY Zenon, <1>5 DEF AddBlock
  <2>2. ChainOn(release) /\ current_fork_index = ScheduledIndex(heights, Len(chain))
    BY Zenon, <2>1 DEF ScheduleInv
  <2>3. ChainOn(release)' /\ current_fork_index' = ScheduledIndex(heights, Len(chain'))
    BY Zenon, <2>1, <2>2, StoreOnSchedule
  <2> QED BY Zenon, <2>1, <2>3 DEF ScheduleInv, Reorganizing, heights
<1>6. ASSUME NEW b \in Block, ConnectBlock(b) PROVE ScheduleInv'
  <2>1. mode = "connect" /\ StoreBlock(b) /\ UNCHANGED <<release, mode, split, saved>>
    BY Zenon, <1>6 DEF ConnectBlock
  <2>2. ChainOn(release) /\ current_fork_index = ScheduledIndex(heights, Len(chain)) /\ SavedOn(split)
    BY Zenon, <2>1 DEF ScheduleInv
  <2>3. ChainOn(release)' /\ current_fork_index' = ScheduledIndex(heights, Len(chain'))
    BY Zenon, <2>1, <2>2, StoreOnSchedule
  <2>4. SavedOn(split)'
    BY Zenon, <2>1, <2>2 DEF SavedOn, Fits, At
  <2> QED BY Zenon, <2>1, <2>3, <2>4 DEF ScheduleInv, Reorganizing, heights
<1>7. CASE PopBlock
  <2>1. mode = "run" /\ PopTop /\ UNCHANGED <<hf_versions, release, mode>>
    BY Zenon, <1>7 DEF PopBlock
  <2>2. ChainOn(release)' /\ current_fork_index' = ScheduledIndex(heights, Len(chain'))
    BY Zenon, <2>1, PopOnSchedule DEF ScheduleInv
  <2> QED BY Zenon, <2>1, <2>2 DEF ScheduleInv, Reorganizing, heights
<1>8. ASSUME NEW s \in SplitHeights, StartSwitch(s) PROVE ScheduleInv'
  <2>1. /\ mode = "run" /\ mode' = "disconnect" /\ split' = s /\ s \in 1 .. Len(chain) - 1
        /\ saved' = SubSeq(chain, s + 1, Len(chain))
        /\ UNCHANGED <<chain, hf_versions, release, current_fork_index>>
    BY Zenon, <1>8 DEF StartSwitch, hfvars
  <2>2. /\ Len(saved') = Len(chain) - s
        /\ \A i \in 1 .. Len(chain) - s : saved'[i] = chain[s + i]
    BY <1>0, <2>1
  <2>3. ChainOn(release) /\ current_fork_index = ScheduledIndex(heights, Len(chain))
    BY Zenon, <2>1 DEF ScheduleInv
  <2>4. ASSUME NEW i \in 1 .. Len(saved') PROVE Fits(release, s + i - 1, saved'[i])
    <3>1. s + i - 1 \in 0 .. Len(chain) - 1 /\ (s + i - 1) + 1 = s + i
      BY <1>0, <2>1, <2>2
    <3>2. Fits(release, s + i - 1, chain[(s + i - 1) + 1])
      BY Zenon, <2>3, <3>1 DEF ChainOn
    <3> QED BY Zenon, <2>2, <3>1, <3>2
  <2>5. SavedOn(split)'
    BY ZenonT(40), <2>1, <2>4 DEF SavedOn, Fits, At
  <2>6. ChainOn(release)'
    BY Zenon, <2>1, <2>3 DEF ChainOn, Fits, At
  <2> QED BY Zenon, <2>1, <2>3, <2>5, <2>6 DEF ScheduleInv, Reorganizing, heights
<1>9. CASE Disconnect
  <2>1. /\ mode = "disconnect" /\ PopTop /\ mode' \in {"connect", "disconnect"}
        /\ UNCHANGED <<hf_versions, release, split, saved>>
    BY Zenon, <1>9 DEF Disconnect
  <2>2. ChainOn(release)' /\ current_fork_index' = ScheduledIndex(heights, Len(chain'))
    BY Zenon, <2>1, PopOnSchedule DEF ScheduleInv
  <2>3. SavedOn(split)'
    BY Zenon, <2>1 DEF ScheduleInv, SavedOn, Fits, At
  <2> QED BY Zenon, <2>1, <2>2, <2>3 DEF ScheduleInv, Reorganizing, heights
<1>10. ASSUME mode \in {"connect", "rollback", "restore"}, HFReorganize(split - 1), cursor' = split,
              mode' \in {"reorg-switch", "reorg-rollback", "reorg-restore"},
              mode' = "reorg-rollback" => mode = "rollback" /\ Len(chain) = split,
              UNCHANGED <<chain, hf_versions, release, split, saved>>
       PROVE  ScheduleInv'
  <2>1. split \in 1 .. Len(chain) /\ split - 1 \in 0 .. Len(chain) - 1 /\ split - 1 <= Len(chain)
    BY <1>0, <1>10 DEF Shape
  <2>2. ChainOn(release) /\ current_fork_index = ScheduledIndex(heights, Len(chain))
    BY Zenon, <1>10 DEF ScheduleInv
  <2>3. hf_versions[split - 1] = At(release, split - 1)
    BY Zenon, <2>1, <2>2 DEF ChainOn
  <2>4. current_fork_index >= ScheduledIndex(heights, split - 1)
    <3>1. ScheduledIndex(heights, split - 1) <= ScheduledIndex(heights, Len(chain))
      BY <1>0, <2>1, ScheduleOrder DEF heights
    <3>2. split - 1 \in Int /\ Len(chain) \in Int
      BY <1>0
    <3>3. ScheduledIndex(heights, split - 1) \in Nat /\ ScheduledIndex(heights, Len(chain)) \in Nat
      BY Zenon, <1>0, <3>2, ScheduledNat DEF heights
    <3> QED BY Zenon, <2>2, <3>1, <3>3
  <2>5. current_fork_index' = ScheduledIndex(heights, split - 1 + 1)
    BY <1>0, <1>10, <2>1, <2>3, <2>4, ReorganizeOnSchedule
  <2>6. current_fork_index' = ScheduledIndex(heights', cursor')
    BY <1>0, <1>10, <2>5 DEF heights
  <2>7. ChainOn(release)'
    BY Zenon, <1>10, <2>2 DEF ChainOn, Fits, At
  <2>8. mode' = "reorg-rollback" => SavedOn(Len(chain))'
    BY Zenon, <1>10 DEF ScheduleInv, SavedOn, Fits, At
  <2> QED BY Zenon, <1>10, <2>6, <2>7, <2>8 DEF ScheduleInv, Reorganizing
<1>11. CASE SwitchDone
  BY Zenon, <1>10, <1>11 DEF SwitchDone
<1>12. CASE RollbackRescan
  BY Zenon, <1>10, <1>12 DEF RollbackRescan
<1>13. CASE RestoreDone
  BY Zenon, <1>10, <1>13 DEF RestoreDone
<1>14. CASE ConnectFails
  <2>1. /\ mode = "connect" /\ mode' = "rollback"
        /\ UNCHANGED <<chain, hf_versions, release, current_fork_index, split, saved>>
    BY Zenon, <1>14 DEF ConnectFails, hfvars
  <2> QED BY Zenon, <2>1 DEF ScheduleInv, Reorganizing, heights, ChainOn, SavedOn, Fits, At
<1>15. CASE RollbackPop
  <2>1. mode = "rollback" /\ PopTop /\ UNCHANGED <<hf_versions, release, mode, split, saved>>
    BY Zenon, <1>15 DEF RollbackPop
  <2>2. ChainOn(release)' /\ current_fork_index' = ScheduledIndex(heights, Len(chain'))
    BY Zenon, <2>1, PopOnSchedule DEF ScheduleInv
  <2>3. SavedOn(split)'
    BY Zenon, <2>1 DEF ScheduleInv, SavedOn, Fits, At
  <2> QED BY Zenon, <2>1, <2>2, <2>3 DEF ScheduleInv, Reorganizing, heights
<1>16. CASE RestoreBlock
  <2>1. /\ mode = "restore" /\ saved # <<>> /\ StoreBlock(Head(saved)) /\ saved' = Tail(saved)
        /\ UNCHANGED <<release, mode>>
    BY Zenon, <1>16 DEF RestoreBlock
  <2>2. /\ Head(saved) \in Block /\ Len(Tail(saved)) = Len(saved) - 1
        /\ \A i \in 1 .. Len(Tail(saved)) : Tail(saved)[i] = saved[i + 1]
    BY <1>0, <2>1
  <2>3. ChainOn(release) /\ current_fork_index = ScheduledIndex(heights, Len(chain)) /\ SavedOn(Len(chain))
    BY Zenon, <2>1 DEF ScheduleInv
  <2>4. /\ ChainOn(release)' /\ current_fork_index' = ScheduledIndex(heights, Len(chain'))
        /\ Len(chain') = Len(chain) + 1
    BY Zenon, <2>1, <2>2, <2>3, StoreOnSchedule
  <2>5. ASSUME NEW i \in 1 .. Len(saved') PROVE Fits(release, Len(chain') + i - 1, saved'[i])
    <3>1. i + 1 \in 1 .. Len(saved) /\ Len(chain) + (i + 1) - 1 = Len(chain') + i - 1
      BY <1>0, <2>1, <2>2, <2>4
    <3>2. Fits(release, Len(chain) + (i + 1) - 1, saved[i + 1])
      BY Zenon, <2>3, <3>1 DEF SavedOn
    <3> QED BY Zenon, <2>1, <2>2, <3>1, <3>2
  <2>6. SavedOn(Len(chain))'
    BY Zenon, <2>1, <2>5 DEF SavedOn, Fits, At
  <2> QED BY Zenon, <2>1, <2>4, <2>6 DEF ScheduleInv, Reorganizing, heights
<1>17. CASE RestorePanics
  <2>1. /\ mode = "restore" /\ mode' = "run"
        /\ UNCHANGED <<chain, hf_versions, release, current_fork_index>>
    BY <1>17 DEF RestorePanics, hfvars
  <2> QED BY Zenon, <2>1 DEF ScheduleInv, Reorganizing, heights, ChainOn, Fits, At
<1>18. CASE ReorgAdd
  <2>1. /\ Reorganizing /\ cursor < Len(chain) /\ HFAdd(chain[cursor + 1], cursor) /\ cursor' = cursor + 1
        /\ UNCHANGED <<chain, release, mode, split, saved>>
    BY Zenon, <1>18 DEF ReorgAdd
  <2>2. cursor \in Heights /\ cursor \in 0 .. Len(chain) - 1 /\ chain[cursor + 1] \in Block
    BY <1>0, <2>1, BoundsAssumption DEF Heights, TypeOK
  <2>3. mode # "startup" /\ ChainOn(release) /\ current_fork_index = ScheduledIndex(heights, cursor)
    BY Zenon, <2>1 DEF ScheduleInv, Reorganizing
  <2>4. Fits(release, cursor, chain[cursor + 1]) /\ hf_versions[cursor] = At(release, cursor)
    BY Zenon, <2>2, <2>3 DEF ChainOn
  <2>5. /\ hf_versions' = [hf_versions EXCEPT ![cursor] = At(release, cursor)]
        /\ current_fork_index' = ScheduledIndex(heights, cursor + 1)
    BY Zenon, <1>0, <2>1, <2>2, <2>3, <2>4, AddOnSchedule
  <2>6. hf_versions' = hf_versions
    BY Zenon, <1>0, <2>4, <2>5 DEF TypeOK
  <2>7. ChainOn(release)'
    <3>1. chain' = chain /\ release' = release /\ hf_versions' = hf_versions
      BY Zenon, <2>1, <2>6
    <3>2. ChainOn(release)
      BY Zenon, <2>3
    <3> HIDE <1>0, <2>1, <2>2, <2>3, <2>4, <2>5, <2>6
    <3> QED BY Zenon, <3>1, <3>2 DEF ChainOn, Fits, At
  <2>8. mode' = "reorg-rollback" => SavedOn(Len(chain))'
    BY Zenon, <2>1 DEF ScheduleInv, SavedOn, Fits, At
  <2>9. mode' \notin {"run", "disconnect", "connect", "rollback", "restore", "startup"}
    BY Zenon, <2>1 DEF Reorganizing
  <2> QED BY ZenonT(40), <2>1, <2>5, <2>7, <2>8, <2>9 DEF ScheduleInv, heights
<1>19. CASE ReorgDone
  <2>1. /\ Reorganizing /\ cursor = Len(chain) /\ mode' \in {"run", "restore"}
        /\ mode' = "restore" => mode = "reorg-rollback" /\ saved' = saved
        /\ UNCHANGED <<chain, hf_versions, release, current_fork_index>>
    BY Zenon, <1>19 DEF ReorgDone, hfvars
  <2>2. ChainOn(release) /\ current_fork_index = ScheduledIndex(heights, Len(chain))
    BY Zenon, <2>1 DEF ScheduleInv, Reorganizing
  <2>3. ChainOn(release)'
    BY Zenon, <2>1, <2>2 DEF ChainOn, Fits, At
  <2>4. mode' = "restore" => SavedOn(Len(chain))'
    BY Zenon, <2>1 DEF ScheduleInv, SavedOn, Fits, At
  <2> QED BY Zenon, <2>1, <2>2, <2>3, <2>4 DEF ScheduleInv, Reorganizing, heights
<1>20. CASE UNCHANGED vars
  BY ZenonT(40), <1>20 DEF vars, ScheduleInv, StartupInv, Reorganizing, heights, ChainOn, SavedOn, Fits, At
<1> QED
  BY ZenonT(60), <1>1, <1>2, <1>3, <1>4, <1>5, <1>6, <1>7, <1>8, <1>9, <1>11, <1>12, <1>13, <1>14, <1>15,
     <1>16, <1>17, <1>18, <1>19, <1>20 DEF Next

(* With voting disabled the version the next block must carry is, in every *)
(* reachable state, the one scheduled for its height: pops, switches,      *)
(* failed switches and upgrades that pop blocks at start-up included.      *)
THEOREM FollowsSchedule == Spec => []OnSchedule
<1>1. CASE VotingDisabled
  <2>1. Init => IInv
    BY Zenon, TypeInit, ScheduleInit DEF IInv
  <2>2. IInv /\ [Next]_vars => IInv'
    BY Zenon, <1>1, TypeStep, ScheduleStep DEF IInv
  <2>3. IInv => OnSchedule
    BY DEF IInv, ScheduleInv, OnSchedule
  <2> QED BY <2>1, <2>2, <2>3, PTL DEF Spec
<1>2. CASE ~VotingDisabled
  <2>1. OnSchedule
    BY <1>2 DEF OnSchedule
  <2> QED BY <2>1, PTL
<1> QED BY Zenon, <1>1, <1>2

(* With voting disabled a failed chain switch is always undone: the fork   *)
(* object accepts every original block again.                              *)
THEOREM RollbackRestores ==
  ASSUME VotingDisabled
  PROVE  Spec => []NoRollbackPanic
<1>1. Init => IInv
  BY Zenon, TypeInit, ScheduleInit DEF IInv
<1>2. IInv /\ [Next]_vars => IInv'
  BY Zenon, TypeStep, ScheduleStep DEF IInv
<1>3. IInv => NoRollbackPanic
  <2> SUFFICES ASSUME IInv, mode = "restore", saved # <<>> PROVE do_check(Head(saved))
    BY Zenon DEF NoRollbackPanic
  <2>1. SavedOn(Len(chain)) /\ current_fork_index = ScheduledIndex(heights, Len(chain))
    BY Zenon DEF IInv, ScheduleInv
  <2>2. saved \in Seq(Block) /\ Len(chain) \in Nat /\ 1 \in 1 .. Len(saved) /\ Head(saved) = saved[1]
        /\ Len(chain) + 1 - 1 = Len(chain)
    BY DEF IInv, TypeInv, TypeOK
  <2>3. Fits(release, Len(chain), Head(saved))
    BY Zenon, <2>1, <2>2 DEF SavedOn
  <2> QED BY Zenon, <2>1, <2>3 DEF Fits, At, do_check, Accepts, heights
<1> QED BY <1>1, <1>2, <1>3, PTL DEF Spec

-----------------------------------------------------------------------------
(* The recorded versions are those of the stored blocks.                   *)

(* The version recorded for the height of a stored block is the block's.   *)
Recorded == \A h \in 0 .. Len(chain) - 1 : hf_versions[h] = chain[h + 1].major

(* add() writes the version of the block it accepts, at the block's height,*)
(* and nothing for a block it refuses.                                     *)
LEMMA AddRecords ==
  ASSUME TypeOK, NEW b \in Block, NEW h \in Heights, HFAdd(b, h)
  PROVE  hf_versions' = IF do_check(b) THEN [hf_versions EXCEPT ![h] = b.major] ELSE hf_versions
BY Zenon DEF HFAdd, do_check, Accepts, get_current_version

(* A block is stored only after the version check, so add() accepts it.    *)
LEMMA StoreRecords ==
  ASSUME TypeInv, Recorded, NEW b \in Block, StoreBlock(b)
  PROVE  Recorded'
<1>1. /\ TypeOK /\ chain \in Seq(Block) /\ Len(chain) \in Nat /\ chain' = Append(chain, b) /\ do_check(b)
      /\ HFAdd(b, Len(chain)) /\ Len(chain) \in Heights
      /\ hf_versions \in [Heights -> Versions \cup {0}]
  BY BoundsAssumption DEF StoreBlock, TypeInv, TypeOK, Heights
<1>2. hf_versions' = [hf_versions EXCEPT ![Len(chain)] = b.major]
  BY Zenon, <1>1, AddRecords
<1>3. /\ Len(chain') = Len(chain) + 1 /\ chain'[Len(chain) + 1] = b
      /\ \A i \in 1 .. Len(chain) : chain'[i] = chain[i]
  BY <1>1
<1>4. ASSUME NEW h \in 0 .. Len(chain') - 1 PROVE hf_versions'[h] = chain'[h + 1].major
  <2>1. CASE h = Len(chain)
    BY Zenon, <1>1, <1>2, <1>3, <2>1
  <2>2. CASE h # Len(chain)
    <3>1. h \in 0 .. Len(chain) - 1 /\ h + 1 \in 1 .. Len(chain)
      BY <1>1, <1>3, <2>2
    <3>2. hf_versions'[h] = hf_versions[h] /\ chain'[h + 1] = chain[h + 1]
      BY <1>1, <1>2, <1>3, <2>2, <3>1
    <3> QED BY Zenon, <3>1, <3>2 DEF Recorded
  <2> QED BY Zenon, <2>1, <2>2
<1> QED BY Zenon, <1>4 DEF Recorded

(* Popping leaves the table alone and shortens the chain.                  *)
LEMMA FrontRecorded ==
  ASSUME TypeInv, Recorded, chain # <<>>, chain' = SubSeq(chain, 1, Len(chain) - 1),
         hf_versions' = hf_versions
  PROVE  Recorded'
<1>1. /\ chain \in Seq(Block) /\ Len(chain) \in Nat
  BY DEF TypeInv, TypeOK
<1>2. Len(chain') = Len(chain) - 1 /\ \A i \in 1 .. Len(chain) - 1 : chain'[i] = chain[i]
  BY Zenon, <1>1, FrontType
<1>3. \A h \in 0 .. Len(chain') - 1 : h \in 0 .. Len(chain) - 1 /\ chain'[h + 1] = chain[h + 1]
  BY <1>1, <1>2
<1> QED BY Zenon, <1>3 DEF Recorded

LEMMA RecordedStep ==
  ASSUME TypeInv, Recorded, [Next]_vars
  PROVE  Recorded'
<1>1. CASE UNCHANGED <<chain, hf_versions>>
  BY Zenon, <1>1 DEF Recorded
<1>2. ASSUME NEW b \in Block, StoreBlock(b) PROVE Recorded'
  BY <1>2, StoreRecords
<1>3. CASE PopTop /\ hf_versions' = hf_versions
  <2>1. chain # <<>> /\ chain' = SubSeq(chain, 1, Len(chain) - 1)
    BY <1>3 DEF PopTop
  <2> QED BY Zenon, <1>3, <2>1, FrontRecorded
<1>4. CASE AddGenesis
  <2> DEFINE b == [major |-> OriginalVersion, minor |-> 0]
  <2>1. b \in Block /\ StoreBlock(b)
    BY Zenon, <1>4, VersionsAssumption DEF AddGenesis, Block
  <2> HIDE DEF b
  <2> QED BY Zenon, <1>2, <2>1
<1>5. CASE StartupPop
  BY Zenon, <1>5, FrontRecorded DEF StartupPop
<1>6. CASE RestoreBlock
  <2>1. Head(saved) \in Block /\ StoreBlock(Head(saved))
    BY <1>6 DEF RestoreBlock, TypeInv, TypeOK
  <2> QED BY Zenon, <1>2, <2>1
<1>7. CASE ReorgAdd
  <2>1. /\ TypeOK /\ chain \in Seq(Block) /\ Len(chain) \in Nat /\ cursor \in 0 .. Len(chain) - 1
        /\ HFAdd(chain[cursor + 1], cursor) /\ chain' = chain
        /\ hf_versions \in [Heights -> Versions \cup {0}]
    BY <1>7 DEF ReorgAdd, TypeInv, TypeOK
  <2>2. chain[cursor + 1] \in Block /\ cursor \in Heights
    <3>1. Len(chain) <= MaxHeight /\ MaxHeight \in Nat
      BY Zenon, <2>1, BoundsAssumption DEF TypeOK
    <3> QED BY <2>1, <3>1 DEF Heights
  <2>3. hf_versions' = IF do_check(chain[cursor + 1])
                       THEN [hf_versions EXCEPT ![cursor] = chain[cursor + 1].major] ELSE hf_versions
    BY Zenon, <2>1, <2>2, AddRecords
  <2>4. hf_versions' = hf_versions
    BY Zenon, <2>1, <2>2, <2>3 DEF Recorded
  <2> QED BY Zenon, <1>1, <2>1, <2>4
<1>8. CASE StartupDone \/ (\E r \in DOMAIN Releases : Restart(r)) \/ (\E s \in SplitHeights : StartSwitch(s))
           \/ SwitchDone \/ ConnectFails \/ RollbackRescan \/ RestorePanics \/ RestoreDone \/ ReorgDone
  <2>1. UNCHANGED <<chain, hf_versions>>
    BY Zenon, <1>8 DEF StartupDone, Restart, StartSwitch, SwitchDone, ConnectFails, RollbackRescan, RestorePanics,
                RestoreDone, ReorgDone
  <2> QED BY Zenon, <1>1, <2>1
<1>9. CASE \E b \in Block : AddBlock(b) \/ ConnectBlock(b)
  BY Zenon, <1>2, <1>9 DEF AddBlock, ConnectBlock
<1>10. CASE PopBlock \/ Disconnect \/ RollbackPop
  BY Zenon, <1>3, <1>10 DEF PopBlock, Disconnect, RollbackPop
<1>11. CASE UNCHANGED vars
  BY Zenon, <1>1, <1>11 DEF vars
<1> QED
  BY Zenon, <1>4, <1>5, <1>6, <1>7, <1>8, <1>9, <1>10, <1>11 DEF Next

(* For every table, with voting or without, the version the database holds *)
(* for a height is that of the block stored there: the loop of add() after *)
(* a switch never records another one, even for a block it refuses.        *)
THEOREM VersionsAreRecorded == Spec => []RecordedVersions
<1> DEFINE I == TypeInv /\ Recorded
<1>1. Init => I
  BY TypeInit DEF Init, Recorded
<1>2. I /\ [Next]_vars => I'
  BY Zenon, TypeStep, RecordedStep
<1>3. I => RecordedVersions
  BY Zenon DEF Recorded, RecordedVersions
<1> QED BY <1>1, <1>2, <1>3, PTL DEF Spec

-----------------------------------------------------------------------------
(* The counters agree with the window.                                     *)

(* Two sets of integers, one the other shifted, have as many elements.     *)
LEMMA ShiftCount ==
  ASSUME NEW n \in Nat, NEW S \in SUBSET (1 .. n), NEW T \in SUBSET Int, NEW k \in Int,
         \A i \in S : i + k \in T, \A j \in T : j - k \in S
  PROVE  IsFiniteSet(S) /\ IsFiniteSet(T) /\ Cardinality(T) = Cardinality(S) /\ Cardinality(S) \in Nat
<1>1. IsFiniteSet(S)
  <2>1. IsFiniteSet(1 .. n)
    BY FS_Interval
  <2> QED BY Zenon, <2>1, FS_Subset
<1> DEFINE f == [i \in S |-> i + k]
<1>2. f \in Injection(S, T)
  BY DEF Injection, IsInjective
<1>3. \A j \in T : \E i \in S : f[i] = j
  <2> TAKE j \in T
  <2>1. j - k \in S /\ f[j - k] = j
    OBVIOUS
  <2> QED BY Zenon, <2>1
<1>4. f \in Surjection(S, T)
  <2>1. f \in [S -> T]
    BY Zenon
  <2> HIDE DEF f
  <2> QED BY <1>3, <2>1, Zenon DEF Surjection
<1>5. ExistsBijection(S, T)
  <2> HIDE DEF f
  <2> QED BY Zenon, <1>2, <1>4 DEF ExistsBijection, Bijection
<1>6. Cardinality(S) \in Nat
  BY Zenon, <1>1, FS_CardinalityType
<1> QED BY Zenon, <1>1, <1>5, <1>6, FS_Bijection

(* The positions i in from .. to where w holds v.                          *)
Places(w, from, to, v) == {i \in from .. to : w[i] = v}

(* How often v occurs in the whole of w, when it is cut in two.            *)
LEMMA CountSplit ==
  ASSUME NEW w \in Seq(Versions), NEW k \in 0 .. Len(w), NEW v
  PROVE  LET S == Places(w, 1, Len(w), v)
             A == Places(w, 1, k, v)
             B == Places(w, k + 1, Len(w), v)
         IN  /\ IsFiniteSet(A) /\ IsFiniteSet(B)
             /\ Cardinality(A) \in Nat /\ Cardinality(B) \in Nat
             /\ Cardinality(S) = Cardinality(A) + Cardinality(B)
<1> DEFINE S == Places(w, 1, Len(w), v)
           A == Places(w, 1, k, v)
           B == Places(w, k + 1, Len(w), v)
<1>1. S = A \cup B /\ A \cap B = {} /\ A \in SUBSET (1 .. k) /\ B \in SUBSET (k + 1 .. Len(w))
      /\ k \in Int /\ k + 1 \in Int /\ Len(w) \in Int
  BY DEF Places
<1> HIDE DEF S, A, B
<1>2. IsFiniteSet(A) /\ IsFiniteSet(B)
  <2>1. IsFiniteSet(1 .. k) /\ IsFiniteSet(k + 1 .. Len(w))
    BY <1>1, FS_Interval
  <2> QED BY Zenon, <1>1, <2>1, FS_Subset
<1>3. Cardinality(A \cap B) = 0
  BY Zenon, <1>1, FS_EmptySet
<1>4. /\ Cardinality(A) \in Nat /\ Cardinality(B) \in Nat
      /\ Cardinality(S) = Cardinality(A) + Cardinality(B) - Cardinality(A \cap B)
  BY Zenon, <1>1, <1>2, FS_CardinalityType, FS_Union
<1>5. Cardinality(S) = Cardinality(A) + Cardinality(B)
  BY <1>3, <1>4
<1> QED BY Zenon, <1>2, <1>4, <1>5 DEF S, A, B

(* Counting after one more vote.                                           *)
LEMMA CountAppend ==
  ASSUME NEW w \in Seq(Versions), NEW x \in Versions, NEW v
  PROVE  Cardinality(Places(Append(w, x), 1, Len(w) + 1, v))
           = Cardinality(Places(w, 1, Len(w), v)) + (IF v = x THEN 1 ELSE 0)
<1> DEFINE S == Places(w, 1, Len(w), v)
           T == Places(Append(w, x), 1, Len(w) + 1, v)
<1>1. S \in SUBSET (1 .. Len(w)) /\ Len(w) \in Nat
  BY DEF Places
<1>2. T = IF v = x THEN S \cup {Len(w) + 1} ELSE S
  BY DEF Places
<1>3. Len(w) + 1 \notin S
  BY DEF Places
<1> HIDE DEF S, T
<1>4. IsFiniteSet(S) /\ Cardinality(S) \in Nat
  <2>1. IsFiniteSet(1 .. Len(w))
    BY <1>1, FS_Interval
  <2> QED BY Zenon, <1>1, <2>1, FS_Subset, FS_CardinalityType
<1>5. CASE v = x
  BY Zenon, <1>2, <1>3, <1>4, <1>5, FS_AddElement DEF S, T
<1>6. CASE v # x
  <2>1. T = S
    BY Zenon, <1>2, <1>6
  <2> QED BY <1>4, <1>6, <2>1 DEF S, T
<1> QED BY Zenon, <1>5, <1>6

(* add(): the counters it updates are those of the window it leaves.       *)
LEMMA AddCounts ==
  ASSUME TypeInv, CountsMatchWindow, NEW b \in Block
  PROVE  VotesAfter(b) = CountVotes(WindowAfter(b))
<1> DEFINE vote == get_effective_version(release, get_block_vote(b))
           w == SubSeq(versions, Surplus + 1, Len(versions))
<1>1. release \in DOMAIN Releases /\ versions \in Seq(Versions) /\ Len(versions) <= WindowSize
  BY Zenon DEF TypeInv, TypeOK
<1>2. vote \in Versions
  BY Zenon, <1>1, EffectiveVote
<1>3. Surplus \in 0 .. Len(versions) /\ Len(versions) \in Nat
  BY <1>1, WindowAssumption DEF Surplus
<1>4. /\ w \in Seq(Versions) /\ Len(w) = Len(versions) - Surplus
      /\ \A i \in 1 .. Len(versions) - Surplus : w[i] = versions[Surplus + i]
  BY <1>1, <1>3
<1>5. ASSUME NEW v \in Versions PROVE VotesAfter(b)[v] = CountVotes(WindowAfter(b))[v]
  <2> DEFINE S == Places(versions, 1, Len(versions), v)
             A == Places(versions, 1, Surplus, v)
             B == Places(versions, Surplus + 1, Len(versions), v)
             T == Places(w, 1, Len(w), v)
             U == Places(Append(w, vote), 1, Len(w) + 1, v)
             one == IF v = vote THEN 1 ELSE 0
  <2>1. Cardinality(A) \in Nat /\ Cardinality(B) \in Nat /\ Cardinality(S) = Cardinality(A) + Cardinality(B)
    BY Zenon, <1>1, <1>3, CountSplit
  <2>2. Cardinality(B) = Cardinality(T)
    <3>1. T \in SUBSET (1 .. Len(versions) - Surplus) /\ Len(versions) - Surplus \in Nat
      BY <1>3, <1>4 DEF Places
    <3>2. B \in SUBSET Int /\ Surplus \in Int
      BY <1>3 DEF Places
    <3>3. \A i \in T : i + Surplus \in B
      BY <1>3, <1>4 DEF Places
    <3>4. \A j \in B : j - Surplus \in T
      <4> SUFFICES ASSUME NEW j \in B PROVE j - Surplus \in T
        BY Zenon
      <4>1. j - Surplus \in 1 .. Len(versions) - Surplus /\ Surplus + (j - Surplus) = j /\ versions[j] = v
        BY <1>3 DEF Places
      <4>2. w[j - Surplus] = v /\ j - Surplus \in 1 .. Len(w)
        <5> HIDE DEF w
        <5> QED BY Zenon, <4>1, <1>4
      <4> QED BY Zenon, <4>2 DEF Places
    <3> HIDE DEF T, B
    <3> QED BY Zenon, <3>1, <3>2, <3>3, <3>4, ShiftCount
  <2>3. Cardinality(U) = Cardinality(T) + one
    <3> HIDE DEF w, vote
    <3> QED BY Zenon, <1>2, <1>4, CountAppend
  <2>4. CountVotes(WindowAfter(b))[v] = Cardinality(U)
    <3>1. DOMAIN Append(w, vote) = 1 .. Len(w) + 1
      <4> HIDE DEF w, vote
      <4> QED BY <1>2, <1>4
    <3> QED BY Zenon, <3>1 DEF CountVotes, WindowAfter, Places
  <2>5. last_versions[v] = Cardinality(S)
    <3>1. DOMAIN versions = 1 .. Len(versions)
      BY <1>1
    <3> QED BY Zenon, <3>1 DEF CountsMatchWindow, CountVotes, Places
  <2>6. VotesAfter(b)[v] = last_versions[v] - Cardinality(A) + one
    BY DEF VotesAfter, Places
  <2> HIDE DEF S, A, B, T, U, vote
  <2> QED BY <2>1, <2>2, <2>3, <2>4, <2>5, <2>6
<1>6. VotesAfter(b) = [v \in Versions |-> VotesAfter(b)[v]]
      /\ CountVotes(WindowAfter(b)) = [v \in Versions |-> CountVotes(WindowAfter(b))[v]]
  BY Zenon DEF VotesAfter, CountVotes
<1> QED BY Zenon, <1>5, <1>6

(* on_block_popped(): a vote leaves at the back, one enters at the front.  *)
LEMMA PopCounts ==
  ASSUME TypeInv, CountsMatchWindow, PopTop
  PROVE  CountsMatchWindow'
<1> DEFINE front == hf_versions[Len(chain) - 1]
           n == Len(versions) - 1
           last == versions[Len(versions)]
           rest == SubSeq(versions, 1, n)
           w == <<front>> \o rest
<1>1. /\ TypeOK /\ chain \in Seq(Block) /\ Len(chain) > 1 /\ Len(chain) \in Nat /\ HFPop(Len(chain) - 1)
  BY DEF PopTop, TypeInv, TypeOK
<1>2. front \in Versions /\ versions # <<>>
  BY <1>1 DEF TypeInv, Shape
<1>3. versions \in Seq(Versions) /\ Len(versions) \in Nat \ {0} /\ n \in 0 .. Len(versions) /\ n \in Nat
  BY <1>1, <1>2 DEF TypeOK
<1>4. rest \in Seq(Versions) /\ Len(rest) = n /\ \A i \in 1 .. n : rest[i] = versions[i]
  BY <1>2, <1>3, FrontType, Zenon
<1>5. /\ versions' = w
      /\ last_versions' = [v \in Versions |-> last_versions[v]
                             - (IF v = last THEN 1 ELSE 0) + (IF v = front THEN 1 ELSE 0)]
  BY Zenon, <1>1 DEF HFPop
<1>6. w \in Seq(Versions) /\ Len(w) = n + 1 /\ w[1] = front /\ \A i \in 1 .. n : w[i + 1] = versions[i]
  <2> HIDE DEF rest, front, n
  <2>1. <<front>> \in Seq(Versions) /\ Len(<<front>>) = 1 /\ <<front>>[1] = front
    BY <1>2
  <2>2. /\ w \in Seq(Versions) /\ Len(w) = 1 + Len(rest)
        /\ \A i \in 1 .. 1 + Len(rest) : w[i] = IF i <= 1 THEN <<front>>[i] ELSE rest[i - 1]
    BY <1>4, <2>1
  <2>3. ASSUME NEW i \in 1 .. n PROVE w[i + 1] = versions[i]
    <3>1. i + 1 \in 1 .. 1 + Len(rest) /\ ~(i + 1 <= 1) /\ i + 1 - 1 = i
      BY <1>3, <1>4
    <3>2. w[i + 1] = rest[i + 1 - 1]
      <4> HIDE DEF w
      <4> QED BY <2>2, <3>1
    <3> QED BY Zenon, <3>1, <3>2, <1>4
  <2>4. w[1] = front
    <3> HIDE DEF w
    <3> QED BY <1>3, <1>4, <2>1, <2>2
  <2> HIDE DEF w
  <2> QED BY <1>3, <1>4, <2>2, <2>3, <2>4
<1>7. ASSUME NEW v \in Versions PROVE last_versions'[v] = CountVotes(w)[v]
  <2> DEFINE S == Places(versions, 1, Len(versions), v)
             A == Places(versions, 1, n, v)
             B == Places(versions, n + 1, Len(versions), v)
             T == Places(w, 1, Len(w), v)
             C == Places(w, 1, 1, v)
             D == Places(w, 1 + 1, Len(w), v)
             out == IF v = last THEN 1 ELSE 0
             in == IF v = front THEN 1 ELSE 0
  <2>1. Cardinality(A) \in Nat /\ Cardinality(B) \in Nat /\ Cardinality(S) = Cardinality(A) + Cardinality(B)
    <3> HIDE DEF n
    <3> QED BY Zenon, <1>3, CountSplit
  <2>2. Cardinality(C) \in Nat /\ Cardinality(D) \in Nat /\ Cardinality(T) = Cardinality(C) + Cardinality(D)
    <3>1. 1 \in 0 .. Len(w)
      <4> HIDE DEF w
      <4> QED BY <1>3, <1>6
    <3> HIDE DEF w
    <3> QED BY Zenon, <1>6, <3>1, CountSplit
  <2>3. Cardinality(B) = out
    <3>1. B = IF v = last THEN {Len(versions)} ELSE {}
      BY <1>3 DEF Places
    <3> HIDE DEF B, last
    <3>2. CASE v = last
      BY Zenon, <3>1, <3>2, FS_Singleton
    <3>3. CASE v # last
      BY Zenon, <3>1, <3>3, FS_EmptySet
    <3> QED BY Zenon, <3>2, <3>3
  <2>4. Cardinality(C) = in
    <3>1. C = IF v = front THEN {1} ELSE {}
      <4> HIDE DEF w, front
      <4> QED BY <1>6 DEF Places
    <3> HIDE DEF C, front
    <3>2. CASE v = front
      BY Zenon, <3>1, <3>2, FS_Singleton
    <3>3. CASE v # front
      BY Zenon, <3>1, <3>3, FS_EmptySet
    <3> QED BY <3>2, <3>3
  <2>5. Cardinality(D) = Cardinality(A)
    <3> HIDE DEF w
    <3>1. A \in SUBSET (1 .. n) /\ D \in SUBSET Int
      BY <1>3 DEF Places
    <3>2. \A i \in A : i + 1 \in D
      BY <1>3, <1>6 DEF Places
    <3>3. \A j \in D : j - 1 \in A
      <4> SUFFICES ASSUME NEW j \in D PROVE j - 1 \in A
        BY Zenon
      <4>1. j - 1 \in 1 .. n /\ (j - 1) + 1 = j /\ w[j] = v
        BY <1>3, <1>6 DEF Places
      <4> QED BY Zenon, <4>1, <1>6 DEF Places
    <3>4. n \in Nat /\ 1 \in Int
      BY <1>3
    <3> HIDE DEF A, D, n
    <3> QED BY Zenon, <3>1, <3>2, <3>3, <3>4, ShiftCount
  <2>6. last_versions[v] = Cardinality(S) /\ CountVotes(w)[v] = Cardinality(T)
    <3>1. DOMAIN versions = 1 .. Len(versions)
      BY <1>3
    <3>2. DOMAIN w = 1 .. Len(w)
      <4> HIDE DEF w
      <4> QED BY <1>6
    <3> HIDE DEF w
    <3> QED BY Zenon, <3>1, <3>2 DEF CountsMatchWindow, CountVotes, Places
  <2>7. last_versions'[v] = last_versions[v] - out + in
    BY Zenon, <1>5
  <2> HIDE DEF S, A, B, T, C, D, out, in, w
  <2>8. out \in Nat /\ in \in Nat
    BY Zenon, <2>1, <2>2, <2>3, <2>4
  <2> QED BY <2>1, <2>2, <2>3, <2>4, <2>5, <2>6, <2>7, <2>8
<1>8. last_versions' = [v \in Versions |-> last_versions'[v]]
      /\ CountVotes(w) = [v \in Versions |-> CountVotes(w)[v]]
  BY Zenon, <1>5 DEF CountVotes
<1>9. last_versions' = CountVotes(w)
  <2> HIDE DEF w
  <2> QED BY Zenon, <1>7, <1>8
<1> QED BY Zenon, <1>5, <1>9 DEF CountsMatchWindow, CountVotes

LEMMA CountsStep ==
  ASSUME TypeInv, CountsMatchWindow, [Next]_vars
  PROVE  CountsMatchWindow'
<1>1. CASE UNCHANGED <<versions, last_versions>>
  BY Zenon, <1>1 DEF CountsMatchWindow, CountVotes
<1>2. ASSUME NEW b \in Block, NEW h, HFAdd(b, h) PROVE CountsMatchWindow'
  <2>1. CASE do_check(b)
    BY <1>2, <2>1, AddCounts DEF HFAdd, CountsMatchWindow, CountVotes
  <2>2. CASE ~do_check(b)
    BY Zenon, <1>1, <1>2, <2>2 DEF HFAdd
  <2> QED BY Zenon, <2>1, <2>2
<1>3. ASSUME NEW bh, HFReorganize(bh) PROVE CountsMatchWindow'
  BY Zenon, <1>3 DEF HFReorganize, CountsMatchWindow, CountVotes
<1>4. CASE AddGenesis
  <2> DEFINE b == [major |-> OriginalVersion, minor |-> 0]
  <2>1. b \in Block /\ HFAdd(b, Len(chain))
    BY Zenon, <1>4, VersionsAssumption DEF AddGenesis, StoreBlock, Block
  <2> HIDE DEF b
  <2> QED BY Zenon, <1>2, <2>1
<1>5. CASE StartupPop \/ (\E s \in SplitHeights : StartSwitch(s)) \/ ConnectFails \/ RestorePanics \/ ReorgDone
           \/ UNCHANGED vars
  BY Zenon, <1>1, <1>5 DEF StartupPop, StartSwitch, ConnectFails, RestorePanics, ReorgDone, vars, hfvars
<1>6. CASE StartupDone
  BY Zenon, <1>1, <1>3, <1>6 DEF StartupDone
<1>7. CASE \E r \in DOMAIN Releases : Restart(r)
  BY Zenon, <1>7 DEF Restart, CountsMatchWindow, CountVotes
<1>8. CASE \E b \in Block : AddBlock(b) \/ ConnectBlock(b)
  BY Zenon, <1>2, <1>8 DEF AddBlock, ConnectBlock, StoreBlock
<1>9. CASE PopBlock \/ Disconnect \/ RollbackPop
  BY Zenon, <1>9, PopCounts DEF PopBlock, Disconnect, RollbackPop
<1>10. CASE SwitchDone \/ RollbackRescan \/ RestoreDone
  BY Zenon, <1>3, <1>10 DEF SwitchDone, RollbackRescan, RestoreDone
<1>11. CASE RestoreBlock
  <2>1. Head(saved) \in Block /\ HFAdd(Head(saved), Len(chain))
    BY <1>11 DEF RestoreBlock, StoreBlock, TypeInv, TypeOK
  <2> QED BY Zenon, <1>2, <2>1
<1>12. CASE ReorgAdd
  <2>1. chain \in Seq(Block) /\ cursor \in 1 .. Len(chain) /\ cursor < Len(chain)
        /\ HFAdd(chain[cursor + 1], cursor)
    BY Zenon, <1>12 DEF ReorgAdd, TypeInv, TypeOK, Shape
  <2>2. chain[cursor + 1] \in Block
    BY <2>1
  <2> QED BY Zenon, <1>2, <2>1, <2>2
<1> QED
  BY ZenonT(60), <1>4, <1>5, <1>6, <1>7, <1>8, <1>9, <1>10, <1>11, <1>12 DEF Next

(* For every table and window size, the counters always agree with the     *)
(* window, through adds, pops, rescans and restarts: last_versions[] is    *)
(* never decremented below zero.                                           *)
THEOREM CountersAgree == Spec => []CountsMatchWindow
<1> DEFINE I == TypeInv /\ CountsMatchWindow
<1>1. Init => I
  BY Zenon, TypeInit DEF Init, CountsMatchWindow
<1>2. I /\ [Next]_vars => I'
  BY TypeStep, CountsStep
<1> QED BY <1>1, <1>2, PTL DEF Spec

-----------------------------------------------------------------------------
(* The window and the restart, with voting disabled.                       *)

(* Where the window of the first n blocks starts.                          *)
WindowStart(n) == IF n > WindowSize THEN n - WindowSize ELSE 0

(* The effective votes of the last WindowSize of the first n blocks of c.  *)
LastVotes(r, c, n) ==
  [i \in 1 .. n - WindowStart(n) |-> get_effective_version(r, get_block_vote(c[WindowStart(n) + i]))]

(* Both rescans read that window.                                          *)
LEMMA RescanIsLast ==
  ASSUME NEW r, Len(chain) \in Nat
  PROVE  RescanWindow(r) = LastVotes(r, chain, Len(chain))
<1> DEFINE n == Len(chain)
<1>1. n - 1 - WindowStart(n) + 1 = n - WindowStart(n)
  BY WindowAssumption DEF WindowStart
<1> QED BY Zenon, <1>1 DEF RescanWindow, VotesBetween, LastVotes, WindowStart

LEMMA ReorgIsLast ==
  ASSUME NEW n \in Nat \ {0}
  PROVE  ReorgWindow(n - 1) = LastVotes(release, chain, n)
<1> DEFINE from == IF n - 1 >= WindowSize - 1 THEN n - 1 - (WindowSize - 1) ELSE 0
<1>1. from = WindowStart(n) /\ n - 1 - from + 1 = n - WindowStart(n)
  BY WindowAssumption DEF WindowStart
<1>2. ReorgWindow(n - 1) = VotesBetween(release, from, n - 1)
  BY DEF ReorgWindow
<1> HIDE DEF from
<1> QED BY Zenon, <1>1, <1>2 DEF VotesBetween, LastVotes

(* add() shifts the window by one block: block n + 1 of d, whose first n   *)
(* blocks are those of c.                                                  *)
LEMMA AddShifts ==
  ASSUME TypeOK, NEW c \in Seq(Block), NEW d \in Seq(Block), NEW n \in 0 .. Len(c), n + 1 \in 1 .. Len(d),
         \A i \in 1 .. n : d[i] = c[i], versions = LastVotes(release, c, n)
  PROVE  WindowAfter(d[n + 1]) = LastVotes(release, d, n + 1)
<1> DEFINE vote(b) == get_effective_version(release, get_block_vote(b))
           k == WindowStart(n)
           m == WindowStart(n + 1)
           w == SubSeq(versions, Surplus + 1, Len(versions))
           new == vote(d[n + 1])
<1>1. n \in Nat /\ k \in 0 .. n /\ m \in 0 .. n /\ n - k <= WindowSize
  BY WindowAssumption DEF WindowStart
<1>2. versions \in Seq(Versions) /\ Len(versions) = n - k /\ \A i \in 1 .. n - k : versions[i] = vote(c[k + i])
  <2>1. versions \in Seq(Versions)
    BY Zenon DEF TypeOK
  <2>2. DOMAIN versions = 1 .. n - k /\ n - k \in Nat
    BY <1>1 DEF LastVotes
  <2>3. \A i \in 1 .. n - k : versions[i] = vote(c[k + i])
    BY Zenon DEF LastVotes
  <2>4. Len(versions) = n - k
    <3> HIDE DEF k
    <3> QED BY <2>1, <2>2
  <2> QED BY Zenon, <2>1, <2>3, <2>4
<1>3. Surplus = m - k /\ Surplus \in 0 .. Len(versions)
  BY <1>1, <1>2, WindowAssumption DEF Surplus, WindowStart
<1>4. w \in Seq(Versions) /\ Len(w) = n - m /\ \A i \in 1 .. n - m : w[i] = vote(c[m + i])
  <2>1. /\ w \in Seq(Versions) /\ Len(w) = Len(versions) - Surplus
        /\ \A i \in 1 .. Len(versions) - Surplus : w[i] = versions[Surplus + i]
    <3>1. versions \in Seq(Versions) /\ Len(versions) \in Nat /\ Surplus \in 0 .. Len(versions)
      BY <1>2, <1>3
    <3> QED BY <3>1
  <2> HIDE DEF w, k, m, vote
  <2>2. ASSUME NEW i \in 1 .. n - m PROVE w[i] = vote(c[m + i])
    <3>1. i \in 1 .. Len(versions) - Surplus /\ Surplus + i \in 1 .. n - k /\ k + (Surplus + i) = m + i
      BY <1>1, <1>2, <1>3
    <3> QED BY Zenon, <1>2, <2>1, <3>1
  <2> QED BY <1>1, <1>2, <1>3, <2>1, <2>2
<1>5. new \in Versions
  <2>1. d[n + 1] \in Block /\ release \in DOMAIN Releases
    BY DEF TypeOK
  <2> QED BY Zenon, <2>1, EffectiveVote
<1>6. WindowAfter(d[n + 1]) = Append(w, new)
  BY Zenon DEF WindowAfter
<1> DEFINE a == Append(w, new)
           l == LastVotes(release, d, n + 1)
<1>7. a = [i \in 1 .. (n + 1) - m |-> a[i]] /\ a[(n + 1) - m] = new /\ \A i \in 1 .. n - m : a[i] = w[i]
  <2> HIDE DEF w, new, m
  <2>1. /\ a \in Seq(Versions) /\ Len(a) = Len(w) + 1 /\ a[Len(w) + 1] = new
        /\ \A i \in 1 .. Len(w) : a[i] = w[i]
    BY <1>4, <1>5
  <2>2. Len(w) + 1 = (n + 1) - m
    BY <1>1, <1>4
  <2> HIDE DEF a
  <2> QED BY <1>4, <2>1, <2>2
<1>8. l = [i \in 1 .. (n + 1) - m |-> l[i]] /\ \A i \in 1 .. (n + 1) - m : l[i] = vote(d[m + i])
  BY Zenon DEF LastVotes
<1>9. ASSUME NEW i \in 1 .. (n + 1) - m PROVE a[i] = vote(d[m + i])
  <2> HIDE DEF a, m, k, w
  <2>1. CASE i = (n + 1) - m
    <3>1. m + i = n + 1
      BY <1>1, <2>1
    <3> QED BY Zenon, <1>7, <2>1, <3>1
  <2>2. CASE i # (n + 1) - m
    <3>1. i \in 1 .. n - m /\ m + i \in 1 .. n
      BY <1>1, <2>2
    <3> QED BY Zenon, <1>4, <1>7, <3>1
  <2> QED BY Zenon, <2>1, <2>2
<1>10. a = l
  <2> HIDE DEF a, l, m, vote
  <2> QED BY Zenon, <1>7, <1>8, <1>9
<1> QED BY Zenon, <1>6, <1>10

(* The window is the last votes wherever the code relies on it: outside    *)
(* the pops of a switch or of pop_blocks(), up to the cursor of the loop   *)
(* of add().                                                               *)
WindowInv ==
  /\ mode = "startup" /\ cursor = 0 => versions = LastVotes(release, chain, Len(chain))
  /\ mode = "run" /\ ~popped => versions = LastVotes(release, chain, Len(chain))
  /\ mode = "restore" => versions = LastVotes(release, chain, Len(chain))
  /\ Reorganizing => versions = LastVotes(release, chain, cursor)

LEMMA AppendIs ==
  ASSUME NEW s \in Seq(Block), NEW e \in Block
  PROVE  /\ Append(s, e) \in Seq(Block) /\ Len(Append(s, e)) = Len(s) + 1
         /\ Append(s, e)[Len(s) + 1] = e
         /\ \A i \in 1 .. Len(s) : Append(s, e)[i] = s[i]
  OBVIOUS

(* A stored block enters the window.                                       *)
LEMMA StoreWindow ==
  ASSUME TypeInv, NEW b \in Block, StoreBlock(b), release' = release,
         versions = LastVotes(release, chain, Len(chain))
  PROVE  versions' = LastVotes(release', chain', Len(chain'))
<1>1. /\ TypeOK /\ chain \in Seq(Block) /\ Len(chain) \in Nat /\ chain' = Append(chain, b)
      /\ versions' = WindowAfter(b)
  BY DEF StoreBlock, HFAdd, TypeInv, TypeOK
<1>2. /\ chain' \in Seq(Block) /\ Len(chain') = Len(chain) + 1 /\ chain'[Len(chain) + 1] = b
      /\ \A i \in 1 .. Len(chain) : chain'[i] = chain[i]
  BY Zenon, <1>1, AppendIs
<1>3. Len(chain) \in 0 .. Len(chain) /\ Len(chain) + 1 \in 1 .. Len(chain')
  BY <1>1, <1>2
<1>4. WindowAfter(chain'[Len(chain) + 1]) = LastVotes(release, chain', Len(chain) + 1)
  BY Zenon, <1>1, <1>2, <1>3, AddShifts
<1> QED BY Zenon, <1>1, <1>2, <1>4

LEMMA WindowStep ==
  ASSUME VotingDisabled, IInv, WindowInv, [Next]_vars
  PROVE  WindowInv'
<1>0. TypeInv /\ TypeOK /\ chain \in Seq(Block) /\ Len(chain) \in Nat /\ ScheduleInv /\ cursor \in Nat
  BY DEF IInv, TypeInv, TypeOK
<1>1. CASE AddGenesis
  <2> DEFINE b == [major |-> OriginalVersion, minor |-> 0]
  <2>1. b \in Block /\ StoreBlock(b) /\ mode = "startup" /\ chain = <<>> /\ UNCHANGED <<release, mode, cursor>>
    BY Zenon, <1>1, VersionsAssumption DEF AddGenesis, Block
  <2> HIDE DEF b
  <2>2. cursor = 0
    BY Zenon, <1>0, <2>1 DEF ScheduleInv, StartupInv
  <2>3. versions' = LastVotes(release', chain', Len(chain'))
    BY Zenon, <1>0, <2>1, <2>2, StoreWindow DEF WindowInv
  <2> QED BY Zenon, <2>1, <2>3 DEF WindowInv, Reorganizing
<1>2. CASE StartupPop
  BY <1>0, <1>2 DEF StartupPop, WindowInv, Reorganizing
<1>3. ASSUME NEW n \in 1 .. Len(chain), HFReorganize(n - 1), UNCHANGED <<chain, release>>, cursor' = n,
             mode' \in {"reorg-switch", "reorg-rollback", "reorg-restore", "reorg-startup"}
      PROVE  WindowInv'
  <2>1. versions' = LastVotes(release, chain, n)
    BY <1>0, <1>3, ReorgIsLast DEF HFReorganize
  <2> QED BY Zenon, <1>3, <2>1 DEF WindowInv, Reorganizing
<1>4. CASE StartupDone
  <2>1. mode = "startup" /\ chain # <<>> /\ UNCHANGED <<chain, release, popped>>
    BY Zenon, <1>4 DEF StartupDone
  <2>2. CASE cursor > 0
    <3>1. Len(chain) \in 1 .. Len(chain)
      BY <1>0, <2>1
    <3> QED BY ZenonT(60), <1>3, <1>4, <2>1, <2>2, <3>1 DEF StartupDone
  <2>3. CASE ~(cursor > 0)
    <3>1. cursor = 0 /\ mode' = "run" /\ versions' = versions
      BY <1>0, <1>4, <2>3 DEF StartupDone
    <3> QED BY Zenon, <2>1, <3>1 DEF WindowInv, Reorganizing
  <2> QED BY Zenon, <2>2, <2>3
<1>5. ASSUME NEW r \in DOMAIN Releases, Restart(r) PROVE WindowInv'
  <2>1. versions' = RescanWindow(r) /\ release' = r /\ chain' = chain /\ mode' = "startup"
    BY Zenon, <1>5 DEF Restart
  <2>2. versions' = LastVotes(r, chain, Len(chain))
    BY Zenon, <1>0, <2>1, RescanIsLast
  <2> QED BY Zenon, <2>1, <2>2 DEF WindowInv, Reorganizing
<1>6. ASSUME NEW b \in Block, AddBlock(b) PROVE WindowInv'
  <2>1. mode = "run" /\ StoreBlock(b) /\ UNCHANGED <<release, mode, popped>>
    BY Zenon, <1>6 DEF AddBlock
  <2>2. ~popped => versions' = LastVotes(release', chain', Len(chain'))
    BY Zenon, <1>0, <2>1, StoreWindow DEF WindowInv
  <2> QED BY Zenon, <2>1, <2>2 DEF WindowInv, Reorganizing
<1>7. CASE \/ \E b \in Block : ConnectBlock(b)
           \/ PopBlock \/ Disconnect \/ RollbackPop \/ ConnectFails
           \/ \E s \in SplitHeights : StartSwitch(s)
  <2>1. mode' \in {"connect", "disconnect", "rollback"} \/ (mode' = "run" /\ popped')
    BY Zenon, <1>7 DEF ConnectBlock, PopBlock, Disconnect, RollbackPop, ConnectFails, StartSwitch
  <2> QED BY Zenon, <2>1 DEF WindowInv, Reorganizing
<1>8. CASE SwitchDone \/ RollbackRescan \/ RestoreDone
  <2>1. /\ split \in 1 .. Len(chain) /\ HFReorganize(split - 1) /\ UNCHANGED <<chain, release>>
        /\ cursor' = split /\ mode' \in {"reorg-switch", "reorg-rollback", "reorg-restore"}
    BY Zenon, <1>0, <1>8 DEF SwitchDone, RollbackRescan, RestoreDone, TypeInv, Shape
  <2> QED BY Zenon, <1>3, <2>1
<1>9. CASE RestoreBlock
  <2>1. /\ mode = "restore" /\ StoreBlock(Head(saved)) /\ Head(saved) \in Block
        /\ UNCHANGED <<release, mode>>
    BY <1>0, <1>9 DEF RestoreBlock, TypeOK
  <2>2. versions' = LastVotes(release', chain', Len(chain'))
    BY Zenon, <1>0, <2>1, StoreWindow DEF WindowInv
  <2> QED BY Zenon, <2>1, <2>2 DEF WindowInv, Reorganizing
<1>10. CASE RestorePanics
  BY Zenon, <1>10 DEF RestorePanics, WindowInv, Reorganizing, hfvars
<1>11. CASE ReorgAdd
  <2>1. /\ Reorganizing /\ cursor \in 0 .. Len(chain) /\ cursor + 1 \in 1 .. Len(chain) /\ cursor \in Heights
        /\ HFAdd(chain[cursor + 1], cursor) /\ cursor' = cursor + 1 /\ UNCHANGED <<chain, release, mode>>
    <3>1. Len(chain) <= MaxHeight /\ MaxHeight \in Nat
      BY Zenon, <1>0, BoundsAssumption DEF TypeOK
    <3> QED BY <1>0, <1>11, <3>1 DEF ReorgAdd, Heights
  <2>2. mode # "startup" /\ cursor \in 0 .. Len(chain) - 1
    BY <1>0, <2>1 DEF Reorganizing
  <2>3. Fits(release, cursor, chain[cursor + 1]) /\ current_fork_index = ScheduledIndex(heights, cursor)
    BY Zenon, <1>0, <2>1, <2>2 DEF ScheduleInv, ChainOn
  <2>4. do_check(chain[cursor + 1])
    BY Zenon, <2>3 DEF Fits, At, do_check, Accepts, heights
  <2>5. versions' = WindowAfter(chain[cursor + 1])
    BY Zenon, <2>1, <2>4 DEF HFAdd
  <2>6. versions = LastVotes(release, chain, cursor)
    BY Zenon, <2>1 DEF WindowInv
  <2>7. versions' = LastVotes(release, chain, cursor + 1)
    BY ZenonT(60), <1>0, <2>1, <2>5, <2>6, AddShifts
  <2> QED BY Zenon, <2>1, <2>7 DEF WindowInv, Reorganizing
<1>12. CASE ReorgDone
  <2>1. /\ Reorganizing /\ cursor = Len(chain) /\ mode' \in {"run", "restore"}
        /\ UNCHANGED <<chain, release, versions>>
    BY Zenon, <1>12 DEF ReorgDone, hfvars
  <2> QED BY Zenon, <2>1 DEF WindowInv, Reorganizing
<1>13. CASE UNCHANGED vars
  BY <1>13 DEF vars, WindowInv, Reorganizing
<1> QED
  BY ZenonT(60), <1>1, <1>2, <1>4, <1>5, <1>6, <1>7, <1>8, <1>9, <1>10, <1>11, <1>12, <1>13 DEF Next

(* With voting disabled the window of a running daemon is, away from       *)
(* pop_blocks(), the votes of exactly the last WindowSize blocks: the      *)
(* rescans repair what the pops of a switch or a rollback push into it.    *)
THEOREM WindowRepaired ==
  ASSUME VotingDisabled
  PROVE  Spec => []WindowIsLastVotes
<1> DEFINE I == IInv /\ WindowInv
<1>1. Init => I
  <2> SUFFICES ASSUME Init PROVE WindowInv
    BY Zenon, TypeInit, ScheduleInit DEF IInv
  <2>1. chain = <<>> /\ versions = <<>> /\ mode = "startup" /\ Len(chain) = 0
    BY DEF Init
  <2>2. LastVotes(release, chain, 0) = <<>>
    <3>1. WindowStart(0) = 0
      <4>1. ~(0 > WindowSize)
        BY WindowAssumption
      <4> QED BY <4>1 DEF WindowStart
    <3> QED BY <3>1 DEF LastVotes
  <2> QED BY Zenon, <2>1, <2>2 DEF WindowInv, Reorganizing
<1>2. I /\ [Next]_vars => I'
  BY Zenon, TypeStep, ScheduleStep, WindowStep DEF IInv
<1>3. I => WindowIsLastVotes
  <2> SUFFICES ASSUME I, mode = "run", ~popped PROVE versions = RescanWindow(release)
    BY Zenon DEF WindowIsLastVotes
  <2>1. Len(chain) \in Nat
    BY DEF IInv, TypeInv, TypeOK
  <2> QED BY Zenon, <2>1, RescanIsLast DEF WindowInv
<1> QED BY <1>1, <1>2, <1>3, PTL DEF Spec

(* With voting disabled a daemon that stops and starts again finds, from   *)
(* the database alone, the fork index it was running with.                 *)
THEOREM RestartKeepsFork ==
  ASSUME VotingDisabled
  PROVE  Spec => []RestartAgrees
<1>1. Init => IInv
  BY TypeInit, ScheduleInit DEF IInv
<1>2. IInv /\ [Next]_vars => IInv'
  BY TypeStep, ScheduleStep DEF IInv
<1>3. IInv => RestartAgrees
  <2> SUFFICES ASSUME IInv, mode = "run" PROVE current_fork_index = RescanIndex(release)
    BY Zenon DEF RestartAgrees
  <2>1. /\ TypeInv /\ ChainOn(release) /\ chain # <<>> /\ release \in DOMAIN Releases
        /\ current_fork_index = ScheduledIndex(heights, Len(chain))
    BY Zenon DEF IInv, ScheduleInv, TypeInv, TypeOK, Shape
  <2>2. release <= release
    BY <2>1, ReleaseFacts
  <2> QED BY Zenon, <2>1, <2>2, RestartOnSchedule DEF heights
<1> QED BY <1>1, <1>2, <1>3, PTL DEF Spec
=============================================================================
