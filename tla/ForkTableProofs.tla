-------------------------- MODULE ForkTableProofs ---------------------------
(***************************************************************************)
(* Whatever table a network defines, the forks that get registered are in  *)
(* order: the assumption HardFork makes of its releases.  The queries that *)
(* search the registered forks give what their reference definitions over  *)
(* all heights say.                                                        *)
(***************************************************************************)
EXTENDS ForkTable, TLAPS, SequenceTheorems, WellFoundedInduction

(* The provers of a leaf that names none, with their time limits.          *)
USE SMTT(30), ZenonT(30)

Inv == TypeOK /\ Ordered

LEMMA InvInit == Init => Inv
<1> SUFFICES ASSUME Init PROVE Inv
  OBVIOUS
<1>0. ready \in BOOLEAN
  BY Zenon DEF Init
<1>1. table \in Seq(Entry) /\ <<>> \in Seq(Entry)
  BY TablesAssumption, EmptySeq DEF Init
<1>2. table \in Tables /\ next \in 1 .. Len(table) + 1 /\ heights = <<>>
  BY <1>1 DEF Init
<1> QED BY <1>0, <1>1, <1>2 DEF Inv, TypeOK, Ordered

(* Appending an accepted entry keeps the order: it exceeds the last entry, *)
(* which is the largest.                                                   *)
LEMMA AppendOrdered ==
  ASSUME heights \in Seq(Entry), Ordered, NEW f \in Entry, Accepted(f),
         heights' = Append(heights, f)
  PROVE  Ordered'
<1>1. /\ Len(heights') = Len(heights) + 1 /\ Len(heights) \in Nat
      /\ DOMAIN heights' = 1 .. Len(heights) + 1 /\ DOMAIN heights = 1 .. Len(heights)
      /\ \A i \in 1 .. Len(heights) : heights'[i] = heights[i] /\ heights[i] \in Entry
      /\ heights'[Len(heights) + 1] = f
  BY AppendProperties
<1>2. /\ f.version \in Nat /\ f.height \in Nat /\ f.time \in Int
      /\ \A i \in 1 .. Len(heights) :
           heights[i].version \in Nat /\ heights[i].height \in Nat /\ heights[i].time \in Int
  BY Zenon, <1>1 DEF Entry
<1>3. ASSUME NEW i \in 1 .. Len(heights)
      PROVE  heights[i].version < f.version /\ heights[i].height < f.height /\ heights[i].time < f.time
  <2>1. Last.version < f.version /\ Last.height < f.height /\ Last.time < f.time
    BY <1>1, <1>2 DEF Accepted, Last
  <2>2. CASE i = Len(heights)
    BY <2>1, <2>2 DEF Last
  <2>3. CASE i < Len(heights)
    <3>1. heights[i].version < Last.version /\ heights[i].height < Last.height /\ heights[i].time < Last.time
      BY <1>1, <2>3 DEF Ordered, Last
    <3>2. /\ Last.version \in Nat /\ Last.height \in Nat /\ Last.time \in Int
          /\ heights[i].version \in Nat /\ heights[i].height \in Nat /\ heights[i].time \in Int
      BY <1>1, <1>2 DEF Last
    <3>3. heights[i].version < f.version
      BY SMTT(30), <1>2, <2>1, <3>1, <3>2
    <3>4. heights[i].height < f.height
      BY SMTT(30), <1>2, <2>1, <3>1, <3>2
    <3>5. heights[i].time < f.time
      BY <1>2, <2>1, <3>1, <3>2
    <3> QED BY <3>3, <3>4, <3>5
  <2> QED BY <1>1, <2>2, <2>3
<1>4. \A i \in DOMAIN heights' : heights'[i].version # 0 /\ heights'[i].threshold <= 100
  BY <1>1 DEF Ordered, Accepted
<1>5. ASSUME NEW i \in DOMAIN heights', NEW j \in DOMAIN heights', i < j
      PROVE  /\ heights'[i].version < heights'[j].version
             /\ heights'[i].height < heights'[j].height
             /\ heights'[i].time < heights'[j].time
  <2>1. i \in 1 .. Len(heights)
    BY <1>1, <1>5
  <2>2. CASE j = Len(heights) + 1
    BY <1>1, <1>3, <2>1, <2>2
  <2>3. CASE j \in 1 .. Len(heights)
    BY <1>1, <1>5, <2>1, <2>3 DEF Ordered
  <2> QED BY <1>1, <2>2, <2>3
<1> QED BY <1>4, <1>5 DEF Ordered

LEMMA InvStep == Inv /\ [Next]_vars => Inv'
<1> SUFFICES ASSUME Inv, [Next]_vars PROVE Inv'
  OBVIOUS
<1>0. /\ table \in Seq(Entry) /\ Len(table) \in Nat /\ next \in 1 .. Len(table) + 1
      /\ heights \in Seq(Entry) /\ ready \in BOOLEAN /\ table \in Tables
  BY TablesAssumption DEF Inv, TypeOK
<1>1. CASE add_fork
  <2>1. table[next] \in Entry /\ table' = table /\ next' \in 1 .. Len(table') + 1 /\ ready' = ready
    BY <1>0, <1>1 DEF add_fork
  <2>2. CASE Accepted(table[next])
    <3>1. heights' = Append(heights, table[next])
      BY <1>1, <2>2 DEF add_fork
    <3>2. heights' \in Seq(Entry)
      BY <1>0, <2>1, <3>1, AppendProperties
    <3>3. Ordered'
      BY <1>0, <2>1, <2>2, <3>1, AppendOrdered DEF Inv
    <3> QED BY <1>0, <2>1, <3>2, <3>3 DEF Inv, TypeOK
  <2>3. CASE ~Accepted(table[next])
    <3>1. heights' = heights
      BY <1>1, <2>3 DEF add_fork
    <3> QED BY <1>0, <2>1, <3>1 DEF Inv, TypeOK, Ordered
  <2> QED BY <2>2, <2>3
<1>2. CASE init
  <2>1. ready' \in BOOLEAN /\ table' = table /\ next' = next
    BY <1>2 DEF init
  <2>2. CASE heights # <<>>
    BY <1>0, <1>2, <2>1, <2>2 DEF init, Inv, TypeOK, Ordered
  <2>3. CASE heights = <<>>
    <3> DEFINE e == [version |-> OriginalVersion, height |-> 0, threshold |-> 0, time |-> 0]
    <3>1. heights' = <<e>> /\ e \in Entry /\ e.version # 0 /\ e.threshold <= 100
      BY <1>2, <2>3, OriginalAssumption DEF init, Entry
    <3> HIDE DEF e
    <3>2. heights' \in Seq(Entry) /\ DOMAIN heights' = 1 .. 1 /\ heights'[1] = e
      BY <3>1
    <3>3. Ordered'
      BY <3>1, <3>2 DEF Ordered
    <3> QED BY <1>0, <2>1, <3>2, <3>3 DEF Inv, TypeOK
  <2> QED BY <2>2, <2>3
<1>3. CASE UNCHANGED vars
  BY <1>3 DEF vars, Inv, TypeOK, Ordered
<1> QED BY <1>1, <1>2, <1>3 DEF Next

(* Registration keeps the forks in strictly increasing order of version,   *)
(* height and time, for every table.                                       *)
THEOREM RegistrationOrdered == Spec => []Ordered
<1>1. Inv => Ordered
  BY DEF Inv
<1> QED BY InvInit, InvStep, <1>1, PTL DEF Spec

-----------------------------------------------------------------------------
(* What the queries rely on once init() has run.                           *)
Registered ==
  /\ \A i \in DOMAIN heights : heights[i].height <= Horizon /\ heights[i].version >= OriginalVersion
  /\ ready => heights # <<>>

LEMMA RegisteredStep == Inv /\ Registered /\ [Next]_vars => Registered'
<1> SUFFICES ASSUME Inv, Registered, [Next]_vars PROVE Registered'
  OBVIOUS
<1>0. /\ table \in Seq(Entry) /\ Len(table) \in Nat /\ next \in 1 .. Len(table) + 1
      /\ heights \in Seq(Entry) /\ table \in Tables
  BY TablesAssumption DEF Inv, TypeOK
<1>1. CASE add_fork
  <2>1. table[next] \in Entry /\ next \in DOMAIN table /\ ready' = ready
    BY <1>0, <1>1 DEF add_fork
  <2>2. CASE Accepted(table[next])
    <3>1. heights' = Append(heights, table[next])
      BY Zenon, <1>1, <2>2 DEF add_fork
    <3>2. table[next].height <= Horizon /\ table[next].version >= OriginalVersion
      BY Zenon, <1>0, <2>1, <2>2, HorizonAssumption DEF Accepted
    <3>3. /\ Len(heights) \in Nat /\ heights' # <<>>
          /\ DOMAIN heights' = 1 .. Len(heights) + 1 /\ DOMAIN heights = 1 .. Len(heights)
          /\ \A i \in 1 .. Len(heights) : heights'[i] = heights[i]
          /\ heights'[Len(heights) + 1] = table[next]
      BY <1>0, <2>1, <3>1, AppendProperties
    <3>4. ASSUME NEW i \in 1 .. Len(heights) + 1
          PROVE  heights'[i].height <= Horizon /\ heights'[i].version >= OriginalVersion
      <4>1. CASE i = Len(heights) + 1
        BY Zenon, <3>2, <3>3, <4>1
      <4>2. CASE i \in 1 .. Len(heights)
        BY Zenon, <3>3, <4>2 DEF Registered
      <4> QED BY <3>3, <4>1, <4>2
    <3> QED BY Zenon, <3>3, <3>4 DEF Registered
  <2>3. CASE ~Accepted(table[next])
    BY Zenon, <1>1, <2>3 DEF add_fork, Registered
  <2> QED BY <2>2, <2>3
<1>2. CASE init
  <2>2. CASE heights # <<>>
    BY Zenon, <1>2, <2>2 DEF init, Registered
  <2>3. CASE heights = <<>>
    <3> DEFINE e == [version |-> OriginalVersion, height |-> 0, threshold |-> 0, time |-> 0]
    <3>1. heights' = <<e>>
      BY Zenon, <1>2, <2>3 DEF init
    <3>2. e.height <= Horizon /\ e.version >= OriginalVersion
      BY OriginalAssumption, HorizonAssumption
    <3> HIDE DEF e
    <3>3. DOMAIN heights' = 1 .. 1 /\ heights'[1] = e /\ heights' # <<>>
      BY <3>1
    <3>4. \A i \in DOMAIN heights' : i = 1
      BY <3>3
    <3> QED BY Zenon, <3>2, <3>3, <3>4 DEF Registered
  <2> QED BY <2>2, <2>3
<1>3. CASE UNCHANGED vars
  BY Zenon, <1>3 DEF vars, Registered
<1> QED BY Zenon, <1>1, <1>2, <1>3 DEF Next

LEMMA InvAlways == Spec => [](Inv /\ Registered)
<1>1. Init => Registered
  BY DEF Init, Registered
<1> QED BY <1>1, InvInit, InvStep, RegisteredStep, PTL DEF Spec

-----------------------------------------------------------------------------
(* A non-empty subset of 1..n has a maximum, and Max returns it.           *)
LEMMA MaxProperties ==
  ASSUME NEW n \in Nat, NEW S \in SUBSET (1 .. n), S # {}
  PROVE  /\ Max(S) \in S
         /\ \A y \in S : y <= Max(S)
<1> DEFINE T == {t \in Nat : \E x \in S : t = n - x}
<1>0. \A x \in S : x \in Nat /\ n - x \in Nat
  OBVIOUS
<1>1. T \subseteq Nat /\ T # {}
  BY Zenon, <1>0
<1>2. PICK t \in T : \A y \in T : ~(<<y, t>> \in OpToRel(<, Nat))
  <2> HIDE DEF T
  <2> QED BY <1>1, NatLessThanWellFounded, WFMin, Zenon
<1>3. \A y \in T : t <= y
  <2> HIDE DEF T
  <2>1. \A y \in T : ~(y < t)
    BY <1>1, <1>2, Zenon DEF OpToRel
  <2> QED BY <1>1, <2>1
<1>4. PICK m \in S : t = n - m
  BY <1>2
<1>5. \A y \in S : m >= y
  BY <1>0, <1>3, <1>4
<1> QED
  BY Zenon, <1>0, <1>4, <1>5 DEF Max

(* The least element of a set is its Min.                                  *)
LEMMA MinIs ==
  ASSUME NEW S \in SUBSET Int, NEW m \in S, \A y \in S : m <= y
  PROVE  Min(S) = m
<1>1. Min(S) \in S /\ \A y \in S : Min(S) <= y
  BY Zenon DEF Min
<1> DEFINE k == Min(S)
<1>2. k \in Int /\ m \in Int /\ k <= m /\ m <= k
  BY Zenon, <1>1
<1> HIDE DEF k
<1>3. k = m
  BY <1>2
<1> QED BY <1>3 DEF k

(* The registered forks, as the queries use them.                          *)
LEMMA Forks ==
  ASSUME Inv, Registered, ready
  PROVE  /\ Len(heights) \in Nat \ {0} /\ DOMAIN heights = 1 .. Len(heights)
         /\ \A i \in 1 .. Len(heights) :
              /\ heights[i].version \in Nat /\ heights[i].height \in 0 .. Horizon
              /\ OriginalVersion <= heights[i].version
         /\ \A i, j \in 1 .. Len(heights) :
              i < j <=> heights[i].version < heights[j].version
         /\ \A i, j \in 1 .. Len(heights) :
              i < j <=> heights[i].height < heights[j].height
<1>1. heights \in Seq(Entry) /\ heights # <<>>
  BY DEF Inv, TypeOK, Registered
<1>2. Len(heights) \in Nat \ {0} /\ DOMAIN heights = 1 .. Len(heights)
  BY <1>1
<1>3. \A i \in 1 .. Len(heights) : heights[i] \in Entry
  BY <1>1
<1>4. \A i \in 1 .. Len(heights) : heights[i].version \in Nat /\ heights[i].height \in Nat
  BY Zenon, <1>3 DEF Entry
<1>5. \A i \in 1 .. Len(heights) :
        heights[i].height \in 0 .. Horizon /\ OriginalVersion <= heights[i].version
  BY <1>2, <1>4, HorizonAssumption, OriginalAssumption DEF Registered
<1>6. \A i, j \in 1 .. Len(heights) :
        i < j => heights[i].version < heights[j].version /\ heights[i].height < heights[j].height
  BY Zenon, <1>2 DEF Inv, Ordered
<1>7. ASSUME NEW i \in 1 .. Len(heights), NEW j \in 1 .. Len(heights)
      PROVE  /\ i < j <=> heights[i].version < heights[j].version
             /\ i < j <=> heights[i].height < heights[j].height
  BY <1>2, <1>4, <1>6
<1> QED BY Zenon, <1>2, <1>4, <1>5, <1>7

-----------------------------------------------------------------------------
(* The ideal version is the original one, or that of a fork that is due; a *)
(* fork that is due bounds it from below.                                  *)
LEMMA Ideal ==
  ASSUME Inv, Registered, ready, NEW h \in Int
  PROVE  /\ \/ get_ideal_version(h) = OriginalVersion
            \/ \E d \in 2 .. Len(heights) :
                 h >= heights[d].height /\ get_ideal_version(h) = heights[d].version
         /\ \A n \in 2 .. Len(heights) :
              h >= heights[n].height => get_ideal_version(h) >= heights[n].version
         /\ get_ideal_version(h) \in Nat /\ get_ideal_version(h) >= OriginalVersion
<1> DEFINE due == {n \in 2 .. Len(heights) : h >= heights[n].height}
           v == get_ideal_version(h)
<1>1. Len(heights) \in Nat \ {0} /\ due \subseteq 2 .. Len(heights)
  BY Zenon, Forks
<1>2. due \in SUBSET (1 .. Len(heights))
  BY <1>1
<1>3. v = IF due = {} THEN OriginalVersion ELSE heights[Max(due)].version
  BY Zenon DEF get_ideal_version
<1>4. CASE due = {}
  <2>1. v = OriginalVersion
    BY Zenon, <1>3, <1>4
  <2>2. v \in Nat /\ v >= OriginalVersion
    BY <2>1, OriginalAssumption
  <2> QED BY Zenon, <1>4, <2>1, <2>2
<1>5. CASE due # {}
  <2> DEFINE M == Max(due)
  <2>1. M \in due /\ \A y \in due : y <= M
    BY Zenon, <1>1, <1>2, <1>5, MaxProperties
  <2>2. v = heights[M].version
    BY Zenon, <1>3, <1>5
  <2> HIDE DEF v, M
  <2>3. M \in 2 .. Len(heights) /\ M \in 1 .. Len(heights) /\ h >= heights[M].height
    BY <1>1, <2>1
  <2>4. v \in Nat /\ v >= OriginalVersion
    BY Zenon, <2>2, <2>3, Forks, OriginalAssumption
  <2>5. ASSUME NEW n \in 2 .. Len(heights), h >= heights[n].height
        PROVE  v >= heights[n].version
    <3>1. n <= M /\ n \in 1 .. Len(heights)
      BY <1>1, <2>1, <2>5
    <3>2. CASE n = M
      BY <2>2, <2>4, <3>2
    <3>3. CASE n < M
      <4>1. heights[n].version < heights[M].version /\ heights[n].version \in Nat
        BY Zenon, <2>3, <3>1, <3>3, Forks
      <4> QED BY <2>2, <2>4, <4>1
    <3> QED BY <2>3, <3>1, <3>2, <3>3
  <2> QED BY Zenon, <2>2, <2>3, <2>4, <2>5 DEF v
<1> QED BY <1>4, <1>5

(* The forks that are due at h are those up to the last one.               *)
LEMMA IdealUpTo ==
  ASSUME Inv, Registered, ready, NEW h \in Int, NEW k \in 1 .. Len(heights),
         k < Len(heights) => h < heights[k + 1].height
  PROVE  /\ get_ideal_version(h) <= heights[k].version
         /\ k = 1 => get_ideal_version(h) = OriginalVersion
         /\ k # 1 /\ h >= heights[k].height => get_ideal_version(h) = heights[k].version
<1> DEFINE v == get_ideal_version(h)
<1>0. /\ Len(heights) \in Nat \ {0} /\ heights[k].version \in Nat
      /\ OriginalVersion <= heights[k].version /\ OriginalVersion \in Nat
  BY Zenon, Forks, OriginalAssumption
<1>1. ASSUME NEW d \in 2 .. Len(heights), h >= heights[d].height
      PROVE  d <= k
  <2>1. CASE d >= k + 1
    <3>1. d \in 1 .. Len(heights) /\ k < Len(heights) /\ k + 1 \in 1 .. Len(heights)
      BY <1>0, <2>1
    <3>2. heights[d].height \in Int /\ heights[k + 1].height \in Int
      BY <3>1, Forks
    <3>3. heights[d].height < heights[k + 1].height
      BY <1>1, <3>1, <3>2
    <3>4. d < k + 1
      BY Zenon, <3>1, <3>3, Forks
    <3> QED BY <2>1, <3>4
  <2> QED BY <1>0, <2>1
<1>2. v \in Nat /\ v >= OriginalVersion
  BY Zenon, Ideal
<1>3. CASE v = OriginalVersion
  <2>1. v <= heights[k].version
    BY Zenon, <1>0, <1>3
  <2>2. ASSUME k # 1, h >= heights[k].height PROVE v = heights[k].version
    <3>1. k \in 2 .. Len(heights)
      BY <1>0, <2>2
    <3>2. v >= heights[k].version
      BY Zenon, <2>2, <3>1, Ideal
    <3> HIDE DEF v
    <3> QED BY <1>0, <1>2, <2>1, <3>2
  <2> QED BY Zenon, <1>3, <2>1, <2>2
<1>4. CASE \E d \in 2 .. Len(heights) : h >= heights[d].height /\ v = heights[d].version
  <2>1. PICK d \in 2 .. Len(heights) : h >= heights[d].height /\ v = heights[d].version
    BY Zenon, <1>4
  <2>2. d <= k /\ k # 1 /\ d \in 1 .. Len(heights)
    BY <1>0, <1>1, <2>1
  <2> HIDE DEF v
  <2>3. v <= heights[k].version
    <3>1. d < k => v < heights[k].version
      BY Zenon, <2>1, <2>2, Forks
    <3> QED BY <1>0, <1>2, <2>1, <2>2, <3>1
  <2>4. ASSUME h >= heights[k].height PROVE v = heights[k].version
    <3>1. k \in 2 .. Len(heights)
      BY <1>0, <2>2
    <3>2. v >= heights[k].version
      BY Zenon, <2>4, <3>1, Ideal DEF v
    <3> QED BY <1>0, <1>2, <2>3, <3>2
  <2> QED BY Zenon, <2>2, <2>3, <2>4 DEF v
<1> QED BY Zenon, <1>3, <1>4, Ideal

-----------------------------------------------------------------------------
(* The walk down the table stops at the first fork of at least version v,  *)
(* and the ideal version is below v before that fork's height.             *)
LEMMA EarliestHolds ==
  ASSUME Inv, Registered, ready, NEW v \in heights[1].version + 1 .. Last.version
  PROVE  get_earliest_ideal_height_for_version(v)
           = Min({h \in 0 .. Horizon : get_ideal_version(h) >= v})
<1> DEFINE older == {n \in DOMAIN heights : heights[n].version < v}
           M == Max(older)
           S == {h \in 0 .. Horizon : get_ideal_version(h) >= v}
<1>1. /\ Len(heights) \in Nat \ {0} /\ DOMAIN heights = 1 .. Len(heights)
      /\ 1 \in 1 .. Len(heights) /\ Len(heights) \in 1 .. Len(heights)
  BY Forks
<1>2. heights[1].version \in Nat /\ Last.version \in Nat /\ Last = heights[Len(heights)]
  BY Zenon, <1>1, Forks DEF Last
<1>3. v \in Nat /\ heights[1].version < v /\ v <= Last.version
  BY <1>2
<1>4. older \in SUBSET (1 .. Len(heights)) /\ 1 \in older
  BY Zenon, <1>1, <1>3
<1>5. M \in older /\ \A n \in older : n <= M
  BY Zenon, <1>1, <1>4, MaxProperties
<1>6. get_earliest_ideal_height_for_version(v)
        = IF M + 1 > Len(heights) THEN Never ELSE heights[M + 1].height
  BY Zenon, <1>4 DEF get_earliest_ideal_height_for_version
<1> HIDE DEF M
<1>7. M \in 1 .. Len(heights) /\ heights[M].version < v /\ heights[M].version \in Nat
  BY Zenon, <1>1, <1>5, Forks
<1>8. M # Len(heights)
  <2>1. PICK x, y : x = heights[M].version /\ y = Last.version
    OBVIOUS
  <2>2. x \in Nat /\ y \in Nat /\ x < v /\ v <= y
    BY Zenon, <1>2, <1>3, <1>7, <2>1
  <2>3. x # y
    BY <1>3, <2>2
  <2> QED BY Zenon, <1>2, <2>1, <2>3
<1>9. M + 1 \in 2 .. Len(heights) /\ M + 1 \in 1 .. Len(heights) /\ M < Len(heights)
      /\ ~(M + 1 > Len(heights)) /\ ~(M + 1 <= M)
  <2>1. PICK L \in Nat : L = Len(heights)
    BY Zenon, <1>1
  <2>2. M \in 1 .. L /\ M # L
    BY Zenon, <1>7, <1>8, <2>1
  <2> QED BY <2>1, <2>2
<1>10. heights[M + 1].version \in Nat /\ heights[M + 1].height \in 0 .. Horizon
  BY Zenon, <1>9, Forks
<1>11. heights[M + 1].version >= v
  <2>1. M + 1 \notin older
    BY Zenon, <1>5, <1>9
  <2>2. ~(heights[M + 1].version < v)
    BY Zenon, <1>1, <1>9, <2>1
  <2> QED BY <1>3, <1>10, <2>2
<1> DEFINE m == heights[M + 1].height
<1>12. m \in S
  <2>1. m \in Int /\ m >= m
    BY <1>10
  <2>2. get_ideal_version(m) >= heights[M + 1].version /\ get_ideal_version(m) \in Nat
    BY Zenon, <1>9, <2>1, Ideal
  <2>3. PICK g : g = get_ideal_version(m)
    OBVIOUS
  <2>4. g >= v
    BY <1>3, <1>10, <1>11, <2>2, <2>3
  <2> QED BY Zenon, <1>10, <2>3, <2>4
<1>13. ASSUME NEW h \in S PROVE m <= h
  <2>1. h \in Int /\ get_ideal_version(h) >= v
    OBVIOUS
  <2>2. CASE h < m
    <3>1. get_ideal_version(h) <= heights[M].version
      BY Zenon, <1>7, <2>1, <2>2, IdealUpTo
    <3>2. PICK g : g = get_ideal_version(h)
      OBVIOUS
    <3>3. g \in Nat
      BY Zenon, <2>1, <3>2, Ideal
    <3> QED BY <1>3, <1>7, <2>1, <3>1, <3>2, <3>3
  <2>3. m \in Int
    BY <1>10
  <2> HIDE DEF m
  <2> QED BY <2>1, <2>2, <2>3
<1>14. S \in SUBSET Int
  BY HorizonAssumption
<1> HIDE DEF S, m
<1>15. Min(S) = m
  BY Zenon, <1>12, <1>13, <1>14, MinIs
<1> QED BY Zenon, <1>6, <1>9, <1>15 DEF S, m

(* The first later height with a greater ideal version is that of the fork *)
(* after the last one reached.                                             *)
LEMMA NextHolds ==
  ASSUME Inv, Registered, ready, NEW h \in heights[1].height .. Horizon, NEW later,
         later = {g \in h + 1 .. Horizon : get_ideal_version(g) > get_ideal_version(h)}
  PROVE  get_next_version(h) = IF later = {} THEN Last.version ELSE get_ideal_version(Min(later))
<1> DEFINE reached == {n \in DOMAIN heights : h >= heights[n].height}
           M == Max(reached)
           L == Len(heights)
<1>1. /\ L \in Nat \ {0} /\ DOMAIN heights = 1 .. L /\ 1 \in 1 .. L /\ L \in 1 .. L
  BY Forks
<1>2. heights[1].height \in 0 .. Horizon /\ heights[1].version \in Nat
  BY Zenon, <1>1, Forks
<1>3. h \in Int /\ h \in Nat /\ h <= Horizon /\ h >= heights[1].height /\ Horizon \in Nat
  BY <1>2, HorizonAssumption
<1>4. reached \in SUBSET (1 .. L) /\ 1 \in reached
  BY Zenon, <1>1, <1>3
<1>5. M \in reached /\ \A n \in reached : n <= M
  BY Zenon, <1>1, <1>4, MaxProperties
<1>6. get_next_version(h) = heights[IF M = L THEN M ELSE M + 1].version
  BY Zenon, <1>4 DEF get_next_version
<1>7. Last = heights[L]
  BY Zenon DEF Last
<1> HIDE DEF M, L
<1>8. M \in 1 .. L /\ h >= heights[M].height /\ heights[M].version \in Nat
  BY Zenon, <1>1, <1>5, Forks DEF L
<1>9. M < L => M + 1 \in 1 .. L /\ h < heights[M + 1].height
  <2> SUFFICES ASSUME M < L PROVE M + 1 \in 1 .. L /\ h < heights[M + 1].height
    OBVIOUS
  <2>1. M + 1 \in 1 .. L /\ ~(M + 1 <= M)
    BY <1>1, <1>8
  <2>2. ~(h >= heights[M + 1].height)
    BY Zenon, <1>1, <1>5, <2>1
  <2>3. heights[M + 1].height \in 0 .. Horizon
    BY Zenon, <2>1, Forks DEF L
  <2> QED BY <1>3, <2>1, <2>2, <2>3
<1> DEFINE v == get_ideal_version(h)
<1>10. /\ v <= heights[M].version /\ v \in Nat /\ v >= OriginalVersion
       /\ M = 1 => v = OriginalVersion
       /\ M # 1 => v = heights[M].version
  BY Zenon, <1>3, <1>8, <1>9, Ideal, IdealUpTo DEF L
<1> HIDE DEF v
(* Before the height of the next fork the ideal version stays.             *)
<1>11. ASSUME NEW g \in Int, M < L => g < heights[M + 1].height
       PROVE  ~(get_ideal_version(g) > v)
  <2> DEFINE w == get_ideal_version(g)
  <2>1. w <= heights[M].version /\ w \in Nat /\ (M = 1 => w = OriginalVersion)
    BY Zenon, <1>8, <1>11, Ideal, IdealUpTo DEF L
  <2> HIDE DEF w
  <2>2. ~(w > v)
    BY <1>8, <1>10, <2>1, OriginalAssumption
  <2> QED BY <2>2 DEF w
<1>12. CASE M = L
  <2>1. later = {}
    <3> SUFFICES ASSUME NEW g \in later PROVE FALSE
      OBVIOUS
    <3>1. g \in Int /\ get_ideal_version(g) > v
      BY <1>3 DEF v
    <3>2. ~(M < L)
      BY <1>1, <1>12
    <3> QED BY Zenon, <1>11, <3>1, <3>2
  <2> QED BY Zenon, <1>6, <1>7, <1>12, <2>1
<1>13. CASE M < L
  <2> DEFINE m == heights[M + 1].height
  <2>1. M + 1 \in 1 .. L /\ h < m /\ M + 1 # 1 /\ M # L /\ M < M + 1
    BY <1>1, <1>8, <1>9, <1>13
  <2>2. /\ m \in 0 .. Horizon /\ heights[M + 1].version \in Nat
        /\ heights[M].version < heights[M + 1].version
    BY Zenon, <1>8, <2>1, Forks DEF L
  <2>3. M + 1 < L => m < heights[M + 1 + 1].height
    <3> SUFFICES ASSUME M + 1 < L PROVE m < heights[M + 1 + 1].height
      OBVIOUS
    <3>1. M + 1 + 1 \in 1 .. L /\ M + 1 < M + 1 + 1
      BY <1>1, <1>8
    <3> QED BY Zenon, <2>1, <3>1, Forks DEF L
  <2>4. get_ideal_version(m) = heights[M + 1].version
    <3>1. m \in Int /\ m >= m
      BY <2>2
    <3> QED BY Zenon, <2>1, <2>3, <3>1, IdealUpTo DEF L
  <2> HIDE DEF m
  <2>5. m \in later
    <3>1. m \in h + 1 .. Horizon
      BY <1>3, <2>1, <2>2
    <3>2. heights[M + 1].version > v
      BY <1>8, <1>10, <2>2
    <3> QED BY Zenon, <2>4, <3>1, <3>2 DEF v
  <2>6. ASSUME NEW g \in later PROVE m <= g
    <3>1. g \in Int /\ get_ideal_version(g) > v
      BY <1>3 DEF v
    <3>2. ~(g < m)
      BY Zenon, <1>11, <3>1 DEF m
    <3> QED BY <2>2, <3>1, <3>2
  <2>7. later \in SUBSET Int
    BY <1>3
  <2>8. Min(later) = m
    BY Zenon, <2>5, <2>6, <2>7, MinIs
  <2> QED BY Zenon, <1>6, <2>1, <2>4, <2>5, <2>8
<1> QED BY <1>1, <1>8, <1>12, <1>13

(* get_earliest_ideal_height_for_version and get_next_version, which       *)
(* search the registered forks, give what their reference definitions over *)
(* the heights say, for every table that Blockchain::init registers.       *)
THEOREM QueriesHold == Spec => []QueriesAgree
<1>1. Inv /\ Registered => EarliestIsLeast
  BY Zenon, EarliestHolds DEF EarliestIsLeast
<1>2. Inv /\ Registered => NextIsNext
  BY Zenon, NextHolds DEF NextIsNext
<1>3. Inv /\ Registered => QueriesAgree
  BY Zenon, <1>1, <1>2 DEF QueriesAgree
<1> QED BY <1>3, InvAlways, PTL
=============================================================================
