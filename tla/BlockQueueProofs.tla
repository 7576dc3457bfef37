-------------------------- MODULE BlockQueueProofs --------------------------
(***************************************************************************)
(* The bookkeeping of the block queue, for any number of connections, any  *)
(* chains and seeds and any sequence of calls.                             *)
(*                                                                         *)
(* Good is the conjunction of the invariants as a predicate on a queue.    *)
(* One lemma per method shows that the method maps good queues to good     *)
(* ones; add_blocks is the delicate one, because it passes through a queue *)
(* in which the hashes of the span it replaces are requested and held by   *)
(* no span.                                                                *)
(***************************************************************************)
EXTENDS BlockQueue, FiniteSetTheorems, WellFoundedInduction, TLAPS

(* The provers of a leaf that names none, with their time limits.           *)
USE SMTT(30), ZenonT(30)

UniqueStarts(q) == \A s, t \in q.blocks : s.start = t.start => s = t

Good(q) ==
    /\ q \in Queue
    /\ UniqueStarts(q)
    /\ IsFiniteSet(q.blocks)
    /\ q.requested \subseteq HashesOf(q.blocks)
    /\ q.have \subseteq HashesOf(Filled(q))
    /\ q.have \subseteq q.requested

-----------------------------------------------------------------------------
(* A non-empty set of naturals has a least element.                         *)
LEMMA LeastExists ==
    ASSUME NEW T \in SUBSET Nat, T # {}
    PROVE  \E m \in T : \A y \in T : m <= y
  <1>1. PICK m \in T : \A y \in T : ~(<<y, m>> \in OpToRel(<, Nat))
    BY NatLessThanWellFounded, WFMin, Zenon
  <1>2. \A y \in T : ~(y < m)
    BY <1>1, Zenon DEF OpToRel
  <1> QED
    BY <1>2

(* A hash is listed by some span of a set exactly when it is one of its     *)
(* hashes.                                                                  *)
LEMMA HashesOfMember ==
    ASSUME NEW S, NEW x
    PROVE  x \in HashesOf(S) <=> \E s \in S : x \in Elems(s.hashes)
  BY DEF HashesOf

LEMMA ElemsType == ASSUME NEW hs \in Seq(Hashes) PROVE Elems(hs) \subseteq Hashes
  BY DEF Elems

LEMMA ElemsEmpty == Elems(<<>>) = {}
  BY DEF Elems

(* erase_block keeps the bookkeeping, whichever spans it erases.            *)
LEMMA EraseGood ==
    ASSUME NEW q, Good(q), NEW S \in SUBSET q.blocks
    PROVE  Good(erase_block(q, S))
  <1> DEFINE r == erase_block(q, S)
  <1>1. /\ r.blocks = q.blocks \ S
        /\ r.requested = q.requested \ HashesOf(S)
        /\ r.have = q.have \ HashesOf(S)
    BY DEF erase_block
  <1>2. r \in Queue
    BY DEF Good, Queue, erase_block
  <1> HIDE DEF r
  <1>3. UniqueStarts(r)
    BY <1>1 DEF UniqueStarts, Good
  <1>4. r.requested \subseteq HashesOf(r.blocks)
    BY <1>1, HashesOfMember DEF Good
  <1>5. r.have \subseteq HashesOf(Filled(r))
    <2>1. Filled(r) = Filled(q) \ S
      BY <1>1 DEF Filled
    <2> QED
      BY <1>1, <2>1, HashesOfMember DEF Good
  <1>6. r.have \subseteq r.requested
    BY <1>1 DEF Good
  <1>7. IsFiniteSet(r.blocks)
    <2>1. r.blocks \in SUBSET q.blocks /\ IsFiniteSet(q.blocks)
      BY <1>1 DEF Good
    <2> QED
      BY Zenon, <2>1, FS_Subset
  <1> QED
    BY <1>2, <1>3, <1>4, <1>5, <1>6, <1>7 DEF Good, r

(* Inserting a span keeps it too.                                           *)
LEMMA InsertGood ==
    ASSUME NEW q, Good(q), NEW s \in Span
    PROVE  Good(Insert(q, s))
  <1>1. CASE \E t \in q.blocks : t.start = s.start
    BY <1>1 DEF Insert
  <1>2. CASE ~\E t \in q.blocks : t.start = s.start
    <2> DEFINE r == [q EXCEPT !.blocks = @ \union {s}]
    <2>1. Insert(q, s) = r
      BY <1>2 DEF Insert
    <2>2. /\ r.blocks = q.blocks \union {s}
          /\ r.requested = q.requested
          /\ r.have = q.have
          /\ r \in Queue
      BY DEF Good, Queue
    <2> HIDE DEF r
    <2>3. UniqueStarts(r)
      BY <1>2, <2>2 DEF UniqueStarts, Good
    <2>4. r.requested \subseteq HashesOf(r.blocks)
      BY <2>2, HashesOfMember DEF Good
    <2>5. Filled(q) \subseteq Filled(r)
      BY <2>2 DEF Filled
    <2>6. r.have \subseteq HashesOf(Filled(r))
      BY <2>2, <2>5, HashesOfMember DEF Good
    <2>7. IsFiniteSet(r.blocks)
      BY ZenonT(60), <2>2, FS_AddElement DEF Good
    <2> QED
      BY <2>1, <2>2, <2>3, <2>4, <2>6, <2>7 DEF Good
  <1> QED
    BY <1>1, <1>2

(* set_span_hashes keeps it: at most one span starts at the height.         *)
LEMMA SetHashesGood ==
    ASSUME NEW q, Good(q), NEW h \in Nat, NEW c \in Connections, NEW hs \in Seq(Hashes)
    PROVE  Good(set_span_hashes(q, h, c, hs))
  <1> DEFINE S == {s \in q.blocks : s.start = h /\ s.conn = c}
             r == erase_block(q, S)
             T == {[s EXCEPT !.hashes = hs] : s \in S}
             u == [r EXCEPT !.blocks = @ \union T, !.requested = @ \union Elems(hs)]
  <1>1. CASE S = {}
    BY <1>1 DEF set_span_hashes
  <1>2. CASE S # {}
    <2>1. set_span_hashes(q, h, c, hs) = u
      BY <1>2 DEF set_span_hashes
    <2>2. Good(r) /\ r.blocks = q.blocks \ S
      BY Zenon, EraseGood DEF erase_block
    <2>3. PICK s0 \in S : S = {s0}
      BY <1>2 DEF Good, UniqueStarts
    <2>4. s0 \in Span /\ s0.start = h
      BY DEF Good, Queue
    <2> DEFINE t == [s0 EXCEPT !.hashes = hs]
    <2>5. T = {t}
      BY <2>3
    <2>6. t \in Span /\ t.start = h /\ t.hashes = hs
      BY <2>4 DEF Span
    <2>7. \A s \in r.blocks : s.start # h
      BY <2>2, <2>3, <2>4 DEF Good, UniqueStarts
    <2>8. /\ u.blocks = r.blocks \union {t}
          /\ u.requested = r.requested \union Elems(hs)
          /\ u.have = r.have
          /\ u \in Queue
      BY Zenon, <2>2, <2>5, <2>6, ElemsType DEF Good, Queue
    <2> HIDE DEF u, r, S, T, t
    <2>9. UniqueStarts(u)
      BY <2>2, <2>6, <2>7, <2>8 DEF Good, UniqueStarts
    <2>10. u.requested \subseteq HashesOf(u.blocks)
      BY <2>2, <2>6, <2>8, HashesOfMember DEF Good
    <2>11. Filled(r) \subseteq Filled(u)
      BY <2>8 DEF Filled
    <2>12. u.have \subseteq HashesOf(Filled(u)) /\ u.have \subseteq u.requested
      BY <2>2, <2>8, <2>11, HashesOfMember DEF Good
    <2>13. IsFiniteSet(u.blocks)
      <3>1. IsFiniteSet(r.blocks)
        BY <2>2 DEF Good
      <3>2. IsFiniteSet(r.blocks \union {t})
        BY Zenon, <3>1, FS_AddElement
      <3> QED
        BY <2>8, <3>2
    <2> QED
      BY Zenon, <2>1, <2>8, <2>9, <2>10, <2>12, <2>13 DEF Good
  <1> QED
    BY <1>1, <1>2

(* add_blocks keeps it: the hashes of the span that is replaced are listed  *)
(* by the span that replaces it.                                            *)
LEMMA AddBlocksGood ==
    ASSUME NEW q, Good(q), NEW h \in Nat, NEW c \in Connections,
           NEW bcel \in Seq(Hashes), bcel # <<>>
    PROVE  Good(add_blocks(q, h, bcel, c))
  <1> DEFINE S == {s \in q.blocks : s.start = h}
             e == erase_block(q, S)
             n == [start |-> h, nblocks |-> Len(bcel), conn |-> c,
                   hashes |-> <<>>, blocks |-> bcel]
             r == Insert(e, n)
             hs == (CHOOSE s \in S : TRUE).hashes
             v == [r EXCEPT !.requested = @ \union Elems(hs),
                            !.have = @ \union Elems(hs)]
  <1>1. n \in Span
    <2>1. Len(bcel) \in Nat \ {0}
      OBVIOUS
    <2> QED
      BY <2>1 DEF Span
  <1>2. Good(e) /\ e.blocks = q.blocks \ S
    BY Zenon, EraseGood DEF erase_block
  <1>3. Good(r)
    BY <1>1, <1>2, InsertGood
  <1>4. CASE S = {}
    BY <1>3, <1>4 DEF add_blocks
  <1>5. CASE S # {}
    <2>1. add_blocks(q, h, bcel, c) = set_span_hashes(v, h, c, hs)
      BY <1>5 DEF add_blocks
    <2>2. hs \in Seq(Hashes)
      BY <1>5 DEF Good, Queue, Span
    <2>3. r = [e EXCEPT !.blocks = @ \union {n}]
      BY <1>2 DEF Insert
    <2>4. /\ v.blocks = e.blocks \union {n}
          /\ v.requested = e.requested \union Elems(hs)
          /\ v.have = e.have \union Elems(hs)
      BY Zenon, <1>2, <1>3, <2>3 DEF Good, Queue
    <2> DEFINE V == {s \in v.blocks : s.start = h /\ s.conn = c}
               w == erase_block(v, V)
               m == [n EXCEPT !.hashes = hs]
               u == [w EXCEPT !.blocks = @ \union {[s EXCEPT !.hashes = hs] : s \in V},
                              !.requested = @ \union Elems(hs)]
    <2>5. \A s \in e.blocks : s.start # h
      BY <1>2
    <2>6. V = {n}
      BY <2>4, <2>5
    <2>7. set_span_hashes(v, h, c, hs) = u
      BY Zenon, <2>6 DEF set_span_hashes
    <2>8. HashesOf(V) = {}
      <3>1. n.hashes = <<>>
        OBVIOUS
      <3>2. \A s \in V : Elems(s.hashes) = {}
        BY <2>6, <3>1, ElemsEmpty
      <3> HIDE DEF V
      <3> QED
        BY <3>2, HashesOfMember
    <2>9. n \notin e.blocks
      BY <2>5
    <2>10. /\ w.blocks = e.blocks
           /\ w.requested = v.requested
           /\ w.have = v.have
      BY Zenon, <2>4, <2>6, <2>8, <2>9 DEF erase_block
    <2>11. {[s EXCEPT !.hashes = hs] : s \in V} = {m}
      BY ZenonT(40), <2>6
    <2>12. /\ u.blocks = e.blocks \union {m}
           /\ u.requested = e.requested \union Elems(hs)
           /\ u.have = e.have \union Elems(hs)
      <3>1. w \in [blocks : {w.blocks}, requested : {w.requested}, have : {w.have}]
        BY DEF erase_block
      <3> HIDE DEF w, V, m
      <3> QED
        BY Zenon, <2>4, <2>10, <2>11, <3>1
    <2>13. m \in Span /\ m.start = h /\ m.hashes = hs /\ m.blocks # <<>>
      BY <1>1, <2>2 DEF Span
    <2>14. u \in Queue
      <3>1. e \in Queue
        BY <1>2 DEF Good
      <3>2. w \in [blocks : {w.blocks}, requested : {w.requested}, have : {w.have}]
        BY DEF erase_block
      <3>3. Elems(hs) \subseteq Hashes
        BY Zenon, <2>2, ElemsType
      <3> HIDE DEF w, V, m, v, e, hs
      <3> QED
        BY ZenonT(40), <2>4, <2>10, <2>11, <2>13, <3>1, <3>2, <3>3 DEF Queue
    <2> HIDE DEF u, w, V, m, v, hs, r, n, e, S
    <2>15. UniqueStarts(u)
      BY <1>2, <2>5, <2>12, <2>13 DEF Good, UniqueStarts
    <2>16. u.requested \subseteq HashesOf(u.blocks)
      BY <1>2, <2>12, <2>13, HashesOfMember DEF Good
    <2>17. Filled(u) = Filled(e) \union {m}
      BY <2>12, <2>13 DEF Filled
    <2>18. u.have \subseteq HashesOf(Filled(u)) /\ u.have \subseteq u.requested
      BY <1>2, <2>12, <2>13, <2>17, HashesOfMember DEF Good
    <2>19. IsFiniteSet(u.blocks)
      <3>1. IsFiniteSet(e.blocks)
        BY <1>2 DEF Good
      <3>2. IsFiniteSet(e.blocks \union {m})
        BY Zenon, <3>1, FS_AddElement
      <3> QED
        BY <2>12, <3>2
    <2> QED
      BY <2>1, <2>7, <2>14, <2>15, <2>16, <2>18, <2>19 DEF Good
  <1> QED
    BY <1>4, <1>5

(* FirstNotRequested returns an index of the list, or one past it; the      *)
(* hashes before it are requested, and its own is not.                      *)
LEMMA FirstNotRequestedIs ==
    ASSUME NEW q, NEW hs \in Seq(Hashes), NEW i \in 1..Len(hs) + 1
    PROVE  LET j == FirstNotRequested(q, hs, i)
           IN  /\ j \in i..Len(hs) + 1
               /\ \A k \in i..j - 1 : hs[k] \in q.requested
               /\ j = Len(hs) + 1 \/ hs[j] \notin q.requested
  <1> DEFINE T == {j \in i..Len(hs) + 1 : j = Len(hs) + 1 \/ hs[j] \notin q.requested}
  <1>1. T \in SUBSET Nat /\ Len(hs) + 1 \in T
    OBVIOUS
  <1>2. PICK j \in T : \A y \in T : j <= y
    <2> HIDE DEF T
    <2> QED
      BY <1>1, LeastExists
  <1>3. \A k \in i..j - 1 : hs[k] \in q.requested
    <2> SUFFICES ASSUME NEW k \in i..j - 1 PROVE hs[k] \in q.requested
      OBVIOUS
    <2>1. k \notin T /\ k \in i..Len(hs) + 1 /\ k # Len(hs) + 1
      BY <1>1, <1>2
    <2> QED
      BY <2>1
  <1>4. \E x \in i..Len(hs) + 1 :
           /\ \A k \in i..x - 1 : hs[k] \in q.requested
           /\ x = Len(hs) + 1 \/ hs[x] \notin q.requested
    BY <1>2, <1>3
  <1> QED
    BY ZenonT(40), <1>4 DEF FirstNotRequested

(* The blocks that a reservation from height h may hold.                    *)
Wanted(c, h, H, pruned, k) ==
    IF pruned
    THEN has_unpruned_block(k, H, LocalSeed) = has_unpruned_block(h, H, LocalSeed)
    ELSE has_unpruned_block(k, H, Seed[c])

(* A reserved span stays within the list and holds wanted blocks only; it   *)
(* is empty only where the list ends or the first block is not wanted.      *)
LEMMA SpanLengthIs ==
    ASSUME NEW c, NEW h \in Nat, NEW H, NEW pruned, NEW room \in Nat
    PROVE  LET n == SpanLength(c, h, H, pruned, room)
           IN  /\ n \in 0..room
               /\ \A k \in h..h + n - 1 : Wanted(c, h, H, pruned, k)
               /\ n = 0 => room = 0 \/ ~Wanted(c, h, H, pruned, h)
  <1> DEFINE W(k) == Wanted(c, h, H, pruned, k)
             limit == IF room < MaxBlocks THEN room ELSE MaxBlocks
             T == {n \in 0..limit : n = limit \/ ~W(h + n)}
  <1>1. limit \in 0..room
    BY QueueAssumption
  <1>2. T \in SUBSET Nat /\ limit \in T
    BY <1>1
  <1>3. PICK n \in T : \A y \in T : n <= y
    <2> HIDE DEF T
    <2> QED
      BY <1>2, LeastExists
  <1>4. \A k \in h..h + n - 1 : W(k)
    <2> SUFFICES ASSUME NEW k \in h..h + n - 1 PROVE W(k)
      OBVIOUS
    <2> HIDE DEF W, limit
    <2>1. k - h \in 0..limit /\ k - h # limit /\ k - h \notin T /\ h + (k - h) = k
      BY <1>1, <1>3
    <2>2. W(h + (k - h))
      BY <2>1
    <2> QED
      BY <2>1, <2>2
  <1>5. \E x \in 0..limit : (\A k \in h..h + x - 1 : W(k)) /\ (x = limit \/ ~W(h + x))
    BY <1>3, <1>4
  <1> DEFINE m == SpanLength(c, h, H, pruned, room)
  <1>6. /\ m \in 0..limit
        /\ \A k \in h..h + m - 1 : W(k)
        /\ m = limit \/ ~W(h + m)
    BY Zenon, <1>5 DEF SpanLength, Wanted
  <1>7. limit = 0 => room = 0
    BY QueueAssumption
  <1>8. m = 0 => h + m = h
    OBVIOUS
  <1> HIDE DEF m, limit
  <1>9. m = 0 => room = 0 \/ ~W(h)
    BY <1>6, <1>7, <1>8
  <1> QED
    BY <1>1, <1>6, <1>9 DEF m

LEMMA OneIndex == ASSUME NEW hs \in Seq(Hashes) PROVE 1 \in 1..Len(hs) + 1
  OBVIOUS
(* What reserve_span does: nothing, or it puts a part of the list, from its  *)
(* i-th hash on, in a new span.                                             *)
Reserves(q, hs, last, c, H, pruned, i, n) ==
    LET h == last - Len(hs) + i
        r == reserve_span(q, hs, last, c, H, pruned)
    IN  /\ Len(hs) <= last
        /\ i \in 1..Len(hs) /\ n \in 1..Len(hs) + 1 - i
        /\ r.start = h /\ r.nblocks = n
        /\ r.queue = set_span_hashes(schedule_blocks(q, h, n, c), h, c,
                                     SubSeq(hs, i, i + n - 1))
        /\ hs[i] \notin q.requested
        /\ \A k \in h..h + n - 1 : Wanted(c, h, H, pruned, k)

LEMMA Reservation ==
    ASSUME NEW q, NEW hs \in Seq(Hashes), NEW last \in Nat,
           NEW c \in Connections, NEW H, NEW pruned
    PROVE  LET r == reserve_span(q, hs, last, c, H, pruned)
           IN  \/ r.queue = q /\ r.nblocks = 0
               \/ \E i, n \in Nat : Reserves(q, hs, last, c, H, pruned, i, n)
  <1> DEFINE base == last - Len(hs) + 1
             i1 == FirstNotRequested(q, hs, 1)
             h1 == base + i1 - 1
             unpruned == get_next_unpruned_block_height(h1, H, Seed[c])
             h2 == IF ~pruned /\ unpruned \in h1 + 1..h1 + StripeSize - 1
                   THEN unpruned ELSE h1
             i == FirstNotRequested(q, hs, h2 - base + 1)
             h == base + i - 1
             n == SpanLength(c, h, H, pruned, Len(hs) + 1 - i)
             none == hs = <<>> \/ Len(hs) > last \/ h2 > last \/ n = 0
             part == SubSeq(hs, i, i + n - 1)
             res == [queue |-> set_span_hashes(schedule_blocks(q, h, n, c), h, c, part),
                     start |-> h, nblocks |-> n]
             r == reserve_span(q, hs, last, c, H, pruned)
  <1>1. r = IF none THEN [queue |-> q, start |-> 0, nblocks |-> 0] ELSE res
    BY Zenon DEF reserve_span
  <1>2. CASE none
    <2>1. r.queue = q /\ r.nblocks = 0
      <3> HIDE DEF none, res, r
      <3> QED
        BY <1>1, <1>2
    <2> QED
      BY <2>1
  <1>3. CASE ~none
    <2>1. Len(hs) \in Nat /\ Len(hs) <= last /\ base \in Nat \ {0}
      BY <1>3
    <2>2. i1 \in 1..Len(hs) + 1
      BY Zenon, <2>1, FirstNotRequestedIs, OneIndex
    <2>3. h1 \in Nat /\ h1 >= base
      BY <2>1, <2>2
    <2>4. h2 \in Nat /\ h2 >= base /\ h2 <= last
      <3> HIDE DEF h1, unpruned, base
      <3>1. h2 \in Int /\ h2 >= h1
        BY <2>3, SizesAssumption
      <3> QED
        BY <1>3, <2>1, <2>3, <3>1
    <2>5. h2 - base + 1 \in 1..Len(hs) + 1
      <3> HIDE DEF h2
      <3> QED
        BY <2>1, <2>4
    <2>6. /\ i \in h2 - base + 1..Len(hs) + 1
          /\ i = Len(hs) + 1 \/ hs[i] \notin q.requested
      <3> HIDE DEF h2, base
      <3> QED
        BY Zenon, <2>5, FirstNotRequestedIs
    <2>7. i \in 1..Len(hs) + 1
      <3> HIDE DEF h2, base, i
      <3> QED
        BY <2>1, <2>5, <2>6
    <2> HIDE DEF i
    <2>8. h \in Nat /\ Len(hs) + 1 - i \in Nat /\ h = last - Len(hs) + i
      BY <2>1, <2>7
    <2> HIDE DEF h
    <2>9. n \in 0..Len(hs) + 1 - i /\ \A k \in h..h + n - 1 : Wanted(c, h, H, pruned, k)
      BY Zenon, <2>8, SpanLengthIs
    <2>10. n # 0
      <3> HIDE DEF n, h2
      <3> QED
        BY <1>3
    <2>11. r.queue = set_span_hashes(schedule_blocks(q, h, n, c), h, c, part)
              /\ r.start = h /\ r.nblocks = n
      <3> HIDE DEF none, r, n, part
      <3> QED
        BY <1>1, <1>3
    <2> HIDE DEF n
    <2>12. n \in 1..Len(hs) + 1 - i /\ i \in 1..Len(hs) /\ i \in Nat /\ n \in Nat
      BY <2>1, <2>7, <2>8, <2>9, <2>10
    <2>13. hs[i] \notin q.requested
      BY <2>1, <2>6, <2>12
    <2>14. Reserves(q, hs, last, c, H, pruned, i, n)
      <3> HIDE DEF r
      <3> QED
        BY Zenon, <2>1, <2>8, <2>9, <2>11, <2>12, <2>13 DEF Reserves, r
    <2> QED
      BY <2>12, <2>14
  <1> HIDE DEF none, r
  <1> QED
    BY <1>2, <1>3

LEMMA ReserveGood ==
    ASSUME NEW q, Good(q), NEW hs \in Seq(Hashes), NEW last \in Nat,
           NEW c \in Connections, NEW H, NEW pruned
    PROVE  Good(reserve_span(q, hs, last, c, H, pruned).queue)
  <1> SUFFICES ASSUME NEW i \in Nat, NEW n \in Nat,
                      Reserves(q, hs, last, c, H, pruned, i, n)
               PROVE  Good(reserve_span(q, hs, last, c, H, pruned).queue)
    BY Zenon, Reservation
  <1> DEFINE h == last - Len(hs) + i
             part == SubSeq(hs, i, i + n - 1)
  <1>1. h \in Nat /\ n \in Nat \ {0} /\ i \in 1..Len(hs) /\ i + n - 1 \in 1..Len(hs)
    BY DEF Reserves
  <1>2. part \in Seq(Hashes)
    BY <1>1
  <1>3. Good(schedule_blocks(q, h, n, c))
    <2> HIDE DEF h
    <2>1. [start |-> h, nblocks |-> n, conn |-> c, hashes |-> <<>>, blocks |-> <<>>] \in Span
      BY <1>1 DEF Span
    <2> QED
      BY <2>1, InsertGood DEF schedule_blocks
  <1> HIDE DEF h, part
  <1>4. Good(set_span_hashes(schedule_blocks(q, h, n, c), h, c, part))
    BY <1>1, <1>2, <1>3, SetHashesGood
  <1> QED
    BY Zenon, <1>4 DEF Reserves, h, part

-----------------------------------------------------------------------------
(* A part of a peer's chain is a non-empty sequence of hashes.              *)
LEMMA PartOfChain ==
    ASSUME NEW c \in Connections, NEW last \in 1..Height(c), NEW first \in 1..last
    PROVE  /\ SubSeq(Chain[c], first, last) \in Seq(Hashes)
           /\ SubSeq(Chain[c], first, last) # <<>>
           /\ first \in Nat /\ last \in Nat
  <1>1. Chain[c] \in Seq(Hashes) /\ Height(c) \in Nat /\ Height(c) = Len(Chain[c])
    BY QueueAssumption DEF Height
  <1>2. first \in Nat /\ last \in Nat
    BY <1>1
  <1>3. /\ SubSeq(Chain[c], first, last) \in Seq(Hashes)
        /\ Len(SubSeq(Chain[c], first, last)) = last - first + 1
    BY <1>1, <1>2
  <1>4. last - first + 1 # 0
    BY <1>2
  <1>5. SubSeq(Chain[c], first, last) # <<>>
    BY Zenon, <1>3, <1>4
  <1> QED
    BY <1>2, <1>3, <1>5

-----------------------------------------------------------------------------
(* Where the spans are: a span starts at a height of its connection's chain, *)
(* and its hashes are those of some chain from that height on.               *)

IsPiece(d, h, hs) ==
    /\ h \in Nat \ {0}
    /\ h + Len(hs) <= Height(d) + 1
    /\ \A i \in 1..Len(hs) : hs[i] = Chain[d][(h + i) - 1]

OnChain(h, hs) == \E d \in Connections : IsPiece(d, h, hs)

SpanPlaced(s) == s.start \in 1..Height(s.conn) /\ OnChain(s.start, s.hashes)

Placed(q) == \A s \in q.blocks : SpanPlaced(s)

LEMMA ErasePlaced ==
    ASSUME NEW q, Placed(q), NEW S
    PROVE  Placed(erase_block(q, S))
  BY DEF Placed, erase_block

(* A new span, not yet with hashes.                                         *)
LEMMA InsertPlaced ==
    ASSUME NEW q, Good(q), Placed(q), NEW h, NEW n, NEW c \in Connections,
           NEW bcel, h \in 1..Height(c)
    PROVE  Placed(Insert(q, [start |-> h, nblocks |-> n, conn |-> c,
                             hashes |-> <<>>, blocks |-> bcel]))
  <1> DEFINE s == [start |-> h, nblocks |-> n, conn |-> c, hashes |-> <<>>, blocks |-> bcel]
  <1>1. Height(c) \in Nat
    BY QueueAssumption DEF Height
  <1>2. IsPiece(c, h, <<>>)
    BY <1>1 DEF IsPiece
  <1>3. SpanPlaced(s)
    BY <1>2 DEF SpanPlaced, OnChain
  <1>4. \A t \in Insert(q, s).blocks : t \in q.blocks \/ t = s
    BY DEF Insert, Good, Queue
  <1> HIDE DEF s
  <1> QED
    BY <1>3, <1>4 DEF Placed, s

LEMMA SetHashesPlaced ==
    ASSUME NEW q, Good(q), Placed(q), NEW h \in Nat, NEW c \in Connections,
           NEW hs \in Seq(Hashes), OnChain(h, hs)
    PROVE  Placed(set_span_hashes(q, h, c, hs))
  <1> DEFINE S == {s \in q.blocks : s.start = h /\ s.conn = c}
             u == set_span_hashes(q, h, c, hs)
  <1>1. \A t \in u.blocks : t \in q.blocks \/ \E s \in S : t = [s EXCEPT !.hashes = hs]
    BY DEF set_span_hashes, erase_block
  <1>2. \A s \in S : SpanPlaced([s EXCEPT !.hashes = hs])
    <2> SUFFICES ASSUME NEW s \in S PROVE SpanPlaced([s EXCEPT !.hashes = hs])
      OBVIOUS
    <2>1. s \in Span /\ s.start = h
      BY DEF Good, Queue
    <2>2. /\ [s EXCEPT !.hashes = hs].start = s.start
          /\ [s EXCEPT !.hashes = hs].conn = s.conn
          /\ [s EXCEPT !.hashes = hs].hashes = hs
      BY <2>1 DEF Span
    <2>3. SpanPlaced(s)
      BY DEF Placed
    <2> QED
      BY <2>1, <2>2, <2>3 DEF SpanPlaced
  <1> HIDE DEF S, u
  <1> QED
    BY <1>1, <1>2 DEF Placed, u

LEMMA AddBlocksPlaced ==
    ASSUME NEW q, Good(q), Placed(q), NEW c \in Connections, NEW h \in 1..Height(c),
           NEW bcel \in Seq(Hashes), bcel # <<>>
    PROVE  Placed(add_blocks(q, h, bcel, c))
  <1> DEFINE S == {s \in q.blocks : s.start = h}
             e == erase_block(q, S)
             n == [start |-> h, nblocks |-> Len(bcel), conn |-> c,
                   hashes |-> <<>>, blocks |-> bcel]
             r == Insert(e, n)
             hs == (CHOOSE s \in S : TRUE).hashes
             v == [r EXCEPT !.requested = @ \union Elems(hs),
                            !.have = @ \union Elems(hs)]
             w == set_span_hashes(v, h, c, hs)
  <1>1. Good(e)
    BY Zenon, EraseGood
  <1>2. Placed(e)
    BY ErasePlaced
  <1>3. Placed(r)
    <2> HIDE DEF e
    <2> QED
      BY Zenon, <1>1, <1>2, InsertPlaced
  <1>4. CASE S = {}
    BY <1>3, <1>4 DEF add_blocks
  <1>5. CASE S # {}
    <2>1. add_blocks(q, h, bcel, c) = w
      BY <1>5 DEF add_blocks
    <2>2. PICK s0 \in q.blocks : s0.start = h /\ hs = s0.hashes
      BY Zenon, <1>5
    <2>3. OnChain(h, hs)
      BY Zenon, <2>2 DEF Placed, SpanPlaced
    <2>4. v.blocks = r.blocks
      <3>1. e.blocks = q.blocks \ S
        BY DEF erase_block
      <3>2. r \in [blocks : {r.blocks}, requested : {r.requested}, have : {r.have}]
        BY Zenon DEF Insert, erase_block
      <3> HIDE DEF r
      <3> QED
        BY <3>2
    <2>5. \A s \in v.blocks : s = n \/ s \in e.blocks
      <3> HIDE DEF v
      <3> QED
        BY <2>4, <1>1 DEF Insert, Good, Queue
    <2>6. \A s \in e.blocks : s.start # h
      BY DEF erase_block
    <2> HIDE DEF hs, v, r, e
    <2>7. \A t \in w.blocks : \/ t \in v.blocks
                              \/ \E s \in v.blocks : s.start = h /\ t = [s EXCEPT !.hashes = hs]
      BY DEF set_span_hashes, erase_block
    <2>8. SpanPlaced([n EXCEPT !.hashes = hs])
      BY <2>3 DEF SpanPlaced
    <2>9. \A t \in w.blocks : t \in v.blocks \/ t = [n EXCEPT !.hashes = hs]
      <3> HIDE DEF n, w
      <3> QED
        BY <2>5, <2>6, <2>7
    <2> HIDE DEF n, w
    <2>10. Placed(w)
      BY <1>3, <2>4, <2>8, <2>9 DEF Placed
    <2> QED
      BY <2>1, <2>10
  <1> HIDE DEF S, r
  <1> QED
    BY <1>4, <1>5

(* A reservation from a part of the connection's chain.                     *)
LEMMA ReservePlaced ==
    ASSUME NEW q, Good(q), Placed(q), NEW c \in Connections, NEW H, NEW pruned,
           NEW last \in 1..Height(c), NEW hs \in Seq(Hashes),
           Len(hs) <= last => IsPiece(c, last - Len(hs) + 1, hs)
    PROVE  Placed(reserve_span(q, hs, last, c, H, pruned).queue)
  <1>1. Height(c) \in Nat /\ last \in Nat /\ Len(hs) \in Nat
    BY QueueAssumption DEF Height
  <1> SUFFICES ASSUME NEW i \in Nat, NEW n \in Nat,
                      Reserves(q, hs, last, c, H, pruned, i, n)
               PROVE  Placed(reserve_span(q, hs, last, c, H, pruned).queue)
    BY Zenon, <1>1, Reservation
  <1> DEFINE h == last - Len(hs) + i
             part == SubSeq(hs, i, i + n - 1)
  <1>2. /\ h \in Nat /\ n \in Nat \ {0} /\ i \in 1..Len(hs) /\ i + n - 1 \in 1..Len(hs)
        /\ Len(hs) <= last /\ h \in 1..Height(c)
    BY <1>1 DEF Reserves
  <1>3. /\ part \in Seq(Hashes) /\ Len(part) = n
        /\ \A j \in 1..n : part[j] = hs[(i + j) - 1]
    <2>1. /\ part \in Seq(Hashes)
          /\ Len(part) = IF i <= i + n - 1 THEN i + n - 1 - i + 1 ELSE 0
          /\ \A j \in 1..i + n - 1 - i + 1 : part[j] = hs[i + j - 1]
      BY <1>1, <1>2
    <2>2. i <= i + n - 1 /\ i + n - 1 - i + 1 = n
      BY <1>2
    <2> HIDE DEF part
    <2>3. Len(part) = n
      BY <2>1, <2>2
    <2>4. \A j \in 1..n : part[j] = hs[i + j - 1]
      BY <2>1, <2>2
    <2> QED
      BY <2>1, <2>3, <2>4
  <1>4. IsPiece(c, h, part)
    <2> HIDE DEF part
    <2>1. ASSUME NEW j \in 1..n PROVE part[j] = Chain[c][(h + j) - 1]
      <3>1. (i + j) - 1 \in 1..Len(hs) /\ (last - Len(hs) + 1 + ((i + j) - 1)) - 1 = (h + j) - 1
        BY <1>1, <1>2
      <3>2. hs[(i + j) - 1] = Chain[c][(h + j) - 1]
        BY <1>2, <3>1 DEF IsPiece
      <3> QED
        BY <1>3, <3>2
    <2>2. h + n <= Height(c) + 1 /\ h # 0
      BY <1>1, <1>2
    <2> HIDE DEF h
    <2> QED
      BY <1>2, <1>3, <2>1, <2>2 DEF IsPiece
  <1> HIDE DEF h, part
  <1>5. Good(schedule_blocks(q, h, n, c))
    <2>1. [start |-> h, nblocks |-> n, conn |-> c, hashes |-> <<>>, blocks |-> <<>>] \in Span
      BY <1>2 DEF Span
    <2> QED
      BY <2>1, InsertGood DEF schedule_blocks
  <1>6. Placed(schedule_blocks(q, h, n, c))
    BY Zenon, <1>2, InsertPlaced DEF schedule_blocks
  <1>7. Placed(set_span_hashes(schedule_blocks(q, h, n, c), h, c, part))
    BY <1>2, <1>3, <1>4, <1>5, <1>6, SetHashesPlaced DEF OnChain
  <1> QED
    BY Zenon, <1>7 DEF Reserves, h, part

(* A part of a chain is a piece of it.                                      *)
LEMMA PartIsPiece ==
    ASSUME NEW c \in Connections, NEW last \in 1..Height(c), NEW first \in 1..last
    PROVE  LET hs == SubSeq(Chain[c], first, last)
           IN  Len(hs) = last - first + 1 /\ IsPiece(c, last - Len(hs) + 1, hs)
  <1>1. Chain[c] \in Seq(Hashes) /\ Height(c) \in Nat /\ Height(c) = Len(Chain[c])
    BY QueueAssumption DEF Height
  <1>2. first \in Nat /\ last \in Nat
    BY <1>1
  <1> DEFINE hs == SubSeq(Chain[c], first, last)
  <1>3. /\ Len(hs) = last - first + 1
        /\ \A i \in 1..last - first + 1 : hs[i] = Chain[c][first + i - 1]
    BY <1>1, <1>2
  <1> HIDE DEF hs
  <1>4. last - Len(hs) + 1 = first
    BY <1>2, <1>3
  <1>5. IsPiece(c, first, hs)
    BY <1>1, <1>2, <1>3 DEF IsPiece
  <1> QED
    BY <1>3, <1>4, <1>5 DEF hs

-----------------------------------------------------------------------------
(* Every method keeps the bookkeeping and the places of the spans,          *)
(* whichever thread calls it and when.                                      *)
LEMMA QueueStep == Good(queue) /\ Placed(queue) /\ [Next]_queue => Good(queue') /\ Placed(queue')
  <1> SUFFICES ASSUME Good(queue), Placed(queue), [Next]_queue
               PROVE  Good(queue') /\ Placed(queue')
    OBVIOUS
  <1>1. CASE UNCHANGED queue
    BY <1>1
  <1>2. ASSUME NEW c \in Connections, ReserveSpan(c) PROVE Good(queue') /\ Placed(queue')
    <2>1. PICK last \in 1..Height(c), pruned \in BOOLEAN : \E first \in 1..last :
             queue' = reserve_span(queue, SubSeq(Chain[c], first, last), last, c,
                                   Height(c) + 1, pruned).queue
      BY <1>2 DEF ReserveSpan
    <2>2. PICK first \in 1..last :
             queue' = reserve_span(queue, SubSeq(Chain[c], first, last), last, c,
                                   Height(c) + 1, pruned).queue
      BY <2>1
    <2>3. Good(queue')
      BY Zenon, <2>2, PartOfChain, ReserveGood
    <2>4. Placed(queue')
      BY Zenon, <2>2, PartOfChain, PartIsPiece, ReservePlaced
    <2> QED
      BY <2>3, <2>4
  <1>3. ASSUME NEW c \in Connections, AddBlocks(c) PROVE Good(queue') /\ Placed(queue')
    <2>1. PICK last \in 1..Height(c) : \E first \in 1..last :
             queue' = add_blocks(queue, first, SubSeq(Chain[c], first, last), c)
      BY <1>3 DEF AddBlocks
    <2>2. PICK first \in 1..last :
             queue' = add_blocks(queue, first, SubSeq(Chain[c], first, last), c)
      BY <2>1
    <2>3. first \in 1..Height(c)
      BY QueueAssumption DEF Height
    <2>4. Good(queue')
      BY Zenon, <2>2, PartOfChain, AddBlocksGood
    <2>5. Placed(queue')
      BY Zenon, <2>2, <2>3, PartOfChain, AddBlocksPlaced
    <2> QED
      BY <2>4, <2>5
  <1>4. ASSUME NEW c \in Connections, FlushSpans(c) PROVE Good(queue') /\ Placed(queue')
    BY <1>4, EraseGood, ErasePlaced DEF FlushSpans, flush_spans
  <1>5. ASSUME NEW c \in Connections, RemoveSpans(c) PROVE Good(queue') /\ Placed(queue')
    BY <1>5, EraseGood, ErasePlaced DEF RemoveSpans, remove_spans
  <1>6. CASE FlushStaleSpans
    BY <1>6, EraseGood, ErasePlaced DEF FlushStaleSpans, flush_stale_spans
  <1> QED
    BY <1>1, <1>2, <1>3, <1>4, <1>5, <1>6 DEF Next

LEMMA QueueInit == Init => Good(queue) /\ Placed(queue)
  <1>1. HashesOf({}) = {}
    BY HashesOfMember
  <1> QED
    BY <1>1, FS_EmptySet DEF Init, EmptyQueue, Good, Placed, Queue, UniqueStarts, Filled

(* The bookkeeping and the places hold whatever the threads do.             *)
THEOREM QueueStaysGood == Spec => [](Good(queue) /\ Placed(queue))
  <1>1. Good(queue) /\ Placed(queue) /\ [Next]_queue => (Good(queue) /\ Placed(queue))'
    BY QueueStep DEF Good, UniqueStarts, Placed
  <1> QED
    BY <1>1, QueueInit, PTL DEF Spec

(* The queue is well formed, with one span per start height.                *)
THEOREM TypeCorrect == Spec => []TypeOK
  <1>1. Good(queue) => TypeOK
    BY DEF Good, TypeOK, UniqueStarts
  <1> QED
    BY <1>1, QueueStaysGood, PTL

(* No block stays marked as requested when no span lists it.                *)
THEOREM RequestsAreListed == Spec => []NoLeakedRequest
  <1>1. Good(queue) => NoLeakedRequest
    BY DEF Good, NoLeakedRequest
  <1> QED
    BY <1>1, QueueStaysGood, PTL

(* No block stays marked as held when no filled span lists it.              *)
THEOREM HeldIsListed == Spec => []HaveIsFilled
  <1>1. Good(queue) => HaveIsFilled
    BY DEF Good, HaveIsFilled
  <1> QED
    BY <1>1, QueueStaysGood, PTL

-----------------------------------------------------------------------------
(* A finite non-empty set of naturals has a greatest element: a set without  *)
(* one, of the least cardinality, would have a smaller one.                 *)
LEMMA GreatestExists ==
    ASSUME NEW S \in SUBSET Nat, IsFiniteSet(S), S # {}
    PROVE  \E m \in S : \A y \in S : y <= m
  <1> DEFINE Has(T) == \E m \in T : \A y \in T : y <= m
             K == {k \in Nat : \E T \in SUBSET S : T # {} /\ ~Has(T) /\ Cardinality(T) = k}
  <1> SUFFICES ASSUME ~Has(S) PROVE FALSE
    OBVIOUS
  <1>1. \A T \in SUBSET S : IsFiniteSet(T) /\ Cardinality(T) \in Nat
    BY Zenon, FS_Subset, FS_CardinalityType
  <1>2. Cardinality(S) \in K
    <2>1. S \in SUBSET S
      OBVIOUS
    <2> HIDE DEF Has
    <2> QED
      BY <1>1, <2>1
  <1>3. K \in SUBSET Nat /\ K # {}
    <2> HIDE DEF Has
    <2> QED
      BY <1>2
  <1>4. PICK k \in K : \A l \in K : k <= l
    <2> HIDE DEF K
    <2> QED
      BY <1>3, LeastExists
  <1>5. PICK T \in SUBSET S : T # {} /\ ~Has(T) /\ Cardinality(T) = k
    <2> HIDE DEF Has
    <2> QED
      BY <1>4
  <1>6. PICK x \in T : TRUE
    BY Zenon, <1>5
  <1> DEFINE U == T \ {x}
  <1>7. U \in SUBSET S /\ Cardinality(U) \in Nat /\ Cardinality(U) = k - 1 /\ k \in Nat
    <2>1. IsFiniteSet(T) /\ U \in SUBSET S /\ k \in Nat
      BY <1>1, <1>4
    <2> QED
      BY <1>1, <1>5, <2>1, FS_RemoveElement
  <1>8. Cardinality(U) \notin K
    <2> HIDE DEF K, U
    <2> QED
      BY <1>4, <1>7
  <1>9. U = {} \/ Has(U)
    <2> HIDE DEF Has, U
    <2> QED
      BY <1>7, <1>8
  <1>10. T \subseteq Nat /\ x \in Nat
    OBVIOUS
  <1>11. CASE U = {}
    BY <1>5, <1>10, <1>11
  <1>12. CASE Has(U)
    <2>1. PICK m \in U : \A y \in U : y <= m
      BY <1>12
    <2>2. CASE x <= m
      BY <1>5, <1>10, <2>1, <2>2
    <2>3. CASE m < x
      BY <1>5, <1>10, <2>1, <2>3
    <2> QED
      BY <1>10, <2>1, <2>2, <2>3
  <1> QED
    BY <1>9, <1>11, <1>12

(* The first span of a set is one that starts lowest.                       *)
LEMMA FirstIs ==
    ASSUME NEW S \in SUBSET Span, S # {}
    PROVE  First(S) \in S /\ \A t \in S : First(S).start <= t.start
  <1> DEFINE T == {s.start : s \in S}
  <1>1. T \in SUBSET Nat /\ T # {}
    BY DEF Span
  <1>2. PICK m \in T : \A y \in T : m <= y
    <2> HIDE DEF T
    <2> QED
      BY <1>1, LeastExists
  <1>3. \E s \in S : IsFirst(S, s)
    BY <1>2 DEF IsFirst
  <1> QED
    BY Zenon, <1>3 DEF First, IsFirst

(* Some span of a finite set starts highest.                                *)
LEMMA HighestExists ==
    ASSUME NEW S \in SUBSET Span, IsFiniteSet(S), S # {}
    PROVE  \E s \in S : \A t \in S : t.start <= s.start
  <1> DEFINE T == {s.start : s \in S}
             f == [s \in S |-> s.start]
  <1>1. T \in SUBSET Nat /\ T # {}
    BY DEF Span
  <1>2. IsFiniteSet(T)
    <2>1. f \in [S -> T] /\ \A t \in T : \E s \in S : f[s] = t
      OBVIOUS
    <2>2. f \in Surjection(S, T)
      <3> HIDE DEF f, T
      <3> QED
        BY <2>1 DEF Surjection
    <2> QED
      BY Zenon, <2>2, FS_Surjection
  <1>3. PICK m \in T : \A y \in T : y <= m
    <2> HIDE DEF T
    <2> QED
      BY <1>1, <1>2, GreatestExists
  <1> QED
    BY <1>3

Covers(s, h) == h \in s.start..s.start + s.nblocks - 1

(* What the walk over the spans returns, at any height.                     *)
LEMMA NeededHeightIs ==
    ASSUME NEW q, Good(q), NEW height \in Nat
    PROVE  LET needed == get_next_needed_height(q, height)
           IN  /\ \A h \in height..needed - 1 : \E s \in q.blocks : Covers(s, h)
               /\ needed > height => \E s \in Filled(q) : Covers(s, height)
  <1> DEFINE Ahead == {s \in q.blocks : s.start + s.nblocks > height}
             Later(s) == {t \in Ahead : t.start > s.start}
             s1 == First(Ahead)
             Stops == {s \in Ahead : Later(s) = {} \/ First(Later(s)).start # s.start + s.nblocks}
             stop == First(Stops)
             needed == get_next_needed_height(q, height)
  <1>1. needed = IF Ahead = {} \/ s1.start # height \/ s1.blocks = <<>> THEN height
                 ELSE stop.start + stop.nblocks
    BY Zenon DEF get_next_needed_height
  <1>2. CASE Ahead = {} \/ s1.start # height \/ s1.blocks = <<>>
    <2>1. needed = height
      <3> HIDE DEF needed, Ahead, s1, stop
      <3> QED
        BY <1>1, <1>2
    <2> HIDE DEF needed
    <2> QED
      BY <2>1 DEF needed
  <1>3. CASE ~(Ahead = {} \/ s1.start # height \/ s1.blocks = <<>>)
    <2>1. needed = stop.start + stop.nblocks
      <3> HIDE DEF needed, Ahead, s1, stop
      <3> QED
        BY <1>1, <1>3
    <2>2. /\ Ahead \in SUBSET Span /\ Ahead \in SUBSET q.blocks /\ Ahead # {}
          /\ IsFiniteSet(Ahead)
      <3>1. IsFiniteSet(q.blocks) /\ q.blocks \in SUBSET Span
        BY DEF Good, Queue
      <3> QED
        BY <1>3, <3>1, FS_Subset
    <2>3. s1 \in Ahead /\ \A t \in Ahead : s1.start <= t.start
      <3> HIDE DEF Ahead
      <3> QED
        BY <2>2, FirstIs
    <2>4. \A s \in Ahead : s.start \in Nat /\ s.nblocks \in Nat \ {0}
      <3> HIDE DEF Ahead
      <3> QED
        BY <2>2 DEF Span
    <2>5. Stops \in SUBSET Span /\ Stops # {} /\ Stops \in SUBSET Ahead
      <3> HIDE DEF Ahead
      <3>1. PICK s \in Ahead : \A t \in Ahead : t.start <= s.start
        BY <2>2, HighestExists
      <3>2. Later(s) = {}
        BY <2>4, <3>1
      <3> QED
        BY <2>2, <3>2
    <2>6. stop \in Ahead /\ \A t \in Stops : stop.start <= t.start
      <3> HIDE DEF Stops, Ahead
      <3> QED
        BY <2>5, FirstIs
    <2> HIDE DEF stop
    <2>7. \A s \in Ahead : s.start < stop.start =>
             /\ Later(s) \in SUBSET Span /\ Later(s) # {}
             /\ First(Later(s)).start = s.start + s.nblocks
      <3> SUFFICES ASSUME NEW s \in Ahead, s.start < stop.start
                   PROVE  /\ Later(s) \in SUBSET Span /\ Later(s) # {}
                          /\ First(Later(s)).start = s.start + s.nblocks
        OBVIOUS
      <3>1. s \notin Stops
        <4> HIDE DEF Stops, Ahead
        <4> QED
          BY <2>4, <2>6
      <3> HIDE DEF Ahead
      <3> QED
        BY <2>2, <3>1
    <2>8. ASSUME NEW h \in height..needed - 1 PROVE \E s \in q.blocks : Covers(s, h)
      <3> HIDE DEF needed, Ahead, s1
      <3>1. h \in Nat /\ height <= h /\ h < stop.start + stop.nblocks
        BY <2>1, <2>4, <2>6
      <3> DEFINE B == {s \in Ahead : s.start <= h}
      <3>2. B \in SUBSET Span /\ B # {} /\ IsFiniteSet(B)
        <4>1. s1 \in B
          BY <1>3, <2>3, <3>1
        <4>2. B \in SUBSET Ahead
          OBVIOUS
        <4> QED
          BY <2>2, <4>1, <4>2, FS_Subset
      <3>3. PICK t \in B : \A u \in B : u.start <= t.start
        <4> HIDE DEF B
        <4> QED
          BY <3>2, HighestExists
      <3>4. CASE t.start < stop.start
        <4>1. /\ Later(t) \in SUBSET Span /\ Later(t) # {}
              /\ First(Later(t)).start = t.start + t.nblocks
          BY <2>7, <3>4
        <4>2. First(Later(t)) \in Later(t)
          <5> HIDE DEF Later
          <5> QED
            BY <4>1, FirstIs
        <4>3. First(Later(t)).start > h
          BY <2>4, <3>1, <3>3, <4>2
        <4>4. Covers(t, h)
          BY <2>4, <3>1, <3>3, <4>1, <4>3 DEF Covers
        <4> QED
          BY <2>2, <3>3, <4>4
      <3>5. CASE stop.start <= t.start
        <4>1. Covers(stop, h)
          BY <2>4, <2>6, <3>1, <3>3, <3>5 DEF Covers
        <4> QED
          BY <2>2, <2>6, <4>1
      <3> QED
        BY <2>4, <2>6, <3>3, <3>4, <3>5
    <2>9. s1 \in Filled(q) /\ Covers(s1, height)
      <3> HIDE DEF Ahead, s1
      <3> QED
        BY <1>3, <2>2, <2>3, <2>4 DEF Filled, Covers
    <2> HIDE DEF needed
    <2> QED
      BY <2>8, <2>9 DEF needed
  <1> QED
    BY <1>2, <1>3

(* The next height to download is never past a height that no span covers.  *)
THEOREM NextNeededHolds == Spec => []NextNeededSound
  <1>1. Good(queue) => NextNeededSound
    <2> SUFFICES ASSUME Good(queue), NEW height \in 1..Cardinality(Hashes)
                 PROVE  LET needed == get_next_needed_height(queue, height)
                            Inside(s, h) == h \in s.start..s.start + s.nblocks - 1
                        IN  /\ \A h \in height..needed - 1 :
                                  \E s \in queue.blocks : Inside(s, h)
                            /\ needed > height => \E s \in Filled(queue) : Inside(s, height)
      BY Zenon DEF NextNeededSound
    <2>1. height \in Nat
      BY QueueAssumption, FS_CardinalityType
    <2> QED
      BY Zenon, <2>1, NeededHeightIs DEF Covers
  <1> QED
    BY <1>1, QueueStaysGood, PTL

(* A reservation asks the peer for blocks that are not requested yet at its *)
(* start and that the peer has, all in full or all pruned.                  *)
THEOREM ReservationsHold == Spec => []ReservedIsDownloadable
  <1>1. ReservedIsDownloadable
    <2> SUFFICES ASSUME NEW c \in Connections, NEW pruned \in BOOLEAN,
                        NEW last \in 1..Height(c), NEW first \in 1..last
                 PROVE  LET r == reserve_span(queue, SubSeq(Chain[c], first, last), last, c,
                                              Height(c) + 1, pruned)
                            reserved == r.start..r.start + r.nblocks - 1
                            Full(h, s) == has_unpruned_block(h, Height(c) + 1, s)
                        IN  r.nblocks > 0 =>
                              /\ reserved \subseteq first..last
                              /\ Chain[c][r.start] \notin queue.requested
                              /\ IF pruned
                                 THEN \A g, h \in reserved :
                                         Full(g, LocalSeed) = Full(h, LocalSeed)
                                 ELSE \A h \in reserved : Full(h, Seed[c])
      BY Zenon DEF ReservedIsDownloadable
    <2> DEFINE hs == SubSeq(Chain[c], first, last)
               H == Height(c) + 1
               r == reserve_span(queue, hs, last, c, H, pruned)
               reserved == r.start..r.start + r.nblocks - 1
    <2>1. /\ hs \in Seq(Hashes) /\ first \in Nat /\ last \in Nat /\ first <= last
          /\ Len(hs) = last - first + 1
          /\ IsPiece(c, last - Len(hs) + 1, hs)
      BY PartOfChain, PartIsPiece
    <2> HIDE DEF hs, H, r
    <2> SUFFICES ASSUME r.nblocks > 0
                 PROVE  /\ reserved \subseteq first..last
                        /\ Chain[c][r.start] \notin queue.requested
                        /\ IF pruned
                           THEN \A g, h \in reserved :
                               has_unpruned_block(g, H, LocalSeed) = has_unpruned_block(h, H, LocalSeed)
                           ELSE \A h \in reserved : has_unpruned_block(h, H, Seed[c])
      BY Zenon DEF r, H, hs
    <2>2. PICK i \in Nat, n \in Nat : Reserves(queue, hs, last, c, H, pruned, i, n)
      <3>1. r.nblocks # 0
        OBVIOUS
      <3> QED
        BY Zenon, <2>1, <3>1, Reservation DEF r
    <2>3. /\ i \in 1..Len(hs) /\ n \in 1..Len(hs) + 1 - i
          /\ r.start = last - Len(hs) + i /\ r.nblocks = n
          /\ hs[i] \notin queue.requested
          /\ \A k \in r.start..r.start + r.nblocks - 1 : Wanted(c, r.start, H, pruned, k)
      BY Zenon, <2>2 DEF Reserves, r
    <2>4. reserved \subseteq first..last
      BY <2>1, <2>3
    <2>5. Chain[c][r.start] \notin queue.requested
      <3>1. (last - Len(hs) + 1 + i) - 1 = r.start
        BY <2>1, <2>3
      <3>2. hs[i] = Chain[c][(last - Len(hs) + 1 + i) - 1]
        BY Zenon, <2>1, <2>3 DEF IsPiece
      <3> QED
        BY Zenon, <2>3, <3>1, <3>2
    <2>6. CASE pruned
      BY Zenon, <2>3, <2>4, <2>5, <2>6 DEF Wanted
    <2>7. CASE ~pruned
      BY Zenon, <2>3, <2>4, <2>5, <2>7 DEF Wanted
    <2> QED
      BY <2>6, <2>7
  <1> QED
    BY <1>1, PTL

-----------------------------------------------------------------------------
(* For module BlockSync, whose peers are unpruned: when nothing is reserved, *)
(* every hash of the list is requested.                                     *)
LEMMA NothingReserved ==
    ASSUME NEW q, NEW hs \in Seq(Hashes), NEW last \in Nat, NEW c \in Connections, NEW H,
           Seed[c] = 0, Len(hs) <= last,
           reserve_span(q, hs, last, c, H, FALSE).nblocks = 0
    PROVE  \A i \in 1..Len(hs) : hs[i] \in q.requested
  <1> DEFINE base == last - Len(hs) + 1
             i1 == FirstNotRequested(q, hs, 1)
             h1 == base + i1 - 1
             unpruned == get_next_unpruned_block_height(h1, H, Seed[c])
             h2 == IF ~FALSE /\ unpruned \in h1 + 1..h1 + StripeSize - 1
                   THEN unpruned ELSE h1
             i == FirstNotRequested(q, hs, h2 - base + 1)
             h == base + i - 1
             n == SpanLength(c, h, H, FALSE, Len(hs) + 1 - i)
             none == hs = <<>> \/ Len(hs) > last \/ h2 > last \/ n = 0
             part == SubSeq(hs, i, i + n - 1)
             res == [queue |-> set_span_hashes(schedule_blocks(q, h, n, c), h, c, part),
                     start |-> h, nblocks |-> n]
             r == reserve_span(q, hs, last, c, H, FALSE)
  <1>1. r = IF none THEN [queue |-> q, start |-> 0, nblocks |-> 0] ELSE res
    BY Zenon DEF reserve_span
  <1>2. none
    <2> SUFFICES ASSUME ~none PROVE FALSE
      BY Zenon
    <2>1. r = res /\ r.nblocks = n /\ n # 0
      <3> HIDE DEF r, n, h, part, h2
      <3> QED
        BY Zenon, <1>1
    <2> HIDE DEF n
    <2> QED
      BY Zenon, <2>1
  <1>3. Len(hs) \in Nat /\ base \in Nat \ {0}
    OBVIOUS
  <1>4. /\ i1 \in 1..Len(hs) + 1
        /\ \A k \in 1..i1 - 1 : hs[k] \in q.requested
        /\ i1 = Len(hs) + 1 \/ hs[i1] \notin q.requested
    BY Zenon, FirstNotRequestedIs, OneIndex
  <1> HIDE DEF i1
  <1>5. CASE i1 = Len(hs) + 1
    <2>1. i1 - 1 = Len(hs)
      BY <1>3, <1>5
    <2> QED
      BY <1>4, <2>1
  <1>6. CASE i1 # Len(hs) + 1
    <2>1. unpruned = h1
      BY Zenon DEF get_next_unpruned_block_height, has_unpruned_block, SeedStripe
    <2>2. h1 \in Nat /\ h1 <= last /\ h1 - base + 1 = i1
      BY <1>3, <1>4, <1>6
    <2>3. h2 = h1
      <3> HIDE DEF unpruned, h1
      <3> QED
        BY <2>1, <2>2
    <2> HIDE DEF h2, h1, unpruned
    <2>4. i = FirstNotRequested(q, hs, i1)
      <3> HIDE DEF base
      <3> QED
        BY Zenon, <2>2, <2>3
    <2>5. i \in i1..Len(hs) + 1 /\ \A k \in i1..i - 1 : hs[k] \in q.requested
      <3> HIDE DEF i
      <3> QED
        BY Zenon, <1>4, <2>4, FirstNotRequestedIs
    <2> HIDE DEF i
    <2>6. i = i1
      BY <1>3, <1>4, <1>6, <2>5
    <2>7. h \in Nat /\ Len(hs) + 1 - i \in Nat /\ Len(hs) + 1 - i # 0
      BY <1>3, <1>4, <1>6, <2>6
    <2> HIDE DEF h
    <2>8. Wanted(c, h, H, FALSE, h)
      BY Zenon DEF Wanted, has_unpruned_block, SeedStripe
    <2>9. n # 0
      BY Zenon, <2>7, <2>8, SpanLengthIs
    <2> HIDE DEF n
    <2>10. hs # <<>> /\ ~(Len(hs) > last) /\ ~(h2 > last)
      <3>1. hs # <<>>
        BY <1>3, <1>4, <1>6
      <3> QED
        BY <1>3, <2>2, <2>3, <3>1
    <2> QED
      BY <1>2, <2>9, <2>10
  <1> QED
    BY <1>5, <1>6

(* A reservation takes blocks of the list, in a row; it takes none only     *)
(* when all are requested, or the peer is pruned.                           *)
TakesFrom(q, hs, last, c, H) ==
    LET r == reserve_span(q, hs, last, c, H, FALSE)
    IN  /\ r.nblocks = 0 => r.queue = q
        /\ r.nblocks # 0 =>
             /\ Len(hs) <= last
             /\ \E i \in 1..Len(hs) : /\ r.start = last - Len(hs) + i
                                      /\ r.nblocks \in 1..Len(hs) + 1 - i
        /\ r.nblocks = 0 /\ Seed[c] = 0 /\ Len(hs) <= last =>
             \A i \in 1..Len(hs) : hs[i] \in q.requested

LEMMA Reservations ==
    \A q, H : \A hs \in Seq(Hashes), last \in Nat, c \in Connections : TakesFrom(q, hs, last, c, H)
  <1> SUFFICES ASSUME NEW q, NEW H, NEW hs \in Seq(Hashes), NEW last \in Nat,
                      NEW c \in Connections
               PROVE  TakesFrom(q, hs, last, c, H)
    OBVIOUS
  <1> DEFINE r == reserve_span(q, hs, last, c, H, FALSE)
  <1>1. r.nblocks = 0 /\ Seed[c] = 0 /\ Len(hs) <= last =>
           \A i \in 1..Len(hs) : hs[i] \in q.requested
    BY Zenon, NothingReserved
  <1>2. \/ r.queue = q /\ r.nblocks = 0
        \/ \E i, n \in Nat : Reserves(q, hs, last, c, H, FALSE, i, n)
    BY Zenon, Reservation
  <1>3. ASSUME NEW i \in Nat, NEW n \in Nat, Reserves(q, hs, last, c, H, FALSE, i, n)
        PROVE  /\ Len(hs) <= last /\ i \in 1..Len(hs)
               /\ r.start = last - Len(hs) + i
               /\ r.nblocks \in 1..Len(hs) + 1 - i
    BY Zenon, <1>3 DEF Reserves
  <1>4. ASSUME NEW i \in Nat, NEW n \in Nat, Reserves(q, hs, last, c, H, FALSE, i, n)
        PROVE  r.nblocks # 0
    <2> HIDE DEF r
    <2>1. r.nblocks \in 1..Len(hs) + 1 - i
      BY Zenon, <1>3, <1>4
    <2>2. Len(hs) \in Nat
      OBVIOUS
    <2> QED
      BY <2>1, <2>2
  <1> HIDE DEF r
  <1>5. r.nblocks = 0 => r.queue = q
    BY Zenon, <1>2, <1>4
  <1>6. r.nblocks # 0 =>
          /\ Len(hs) <= last
          /\ \E i \in 1..Len(hs) : /\ r.start = last - Len(hs) + i
                                   /\ r.nblocks \in 1..Len(hs) + 1 - i
    BY Zenon, <1>2, <1>3
  <1> QED
    BY Zenon, <1>1, <1>5, <1>6 DEF r, TakesFrom
=============================================================================
