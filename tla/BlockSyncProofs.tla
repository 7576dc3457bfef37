------------------------- MODULE BlockSyncProofs -------------------------
(***************************************************************************)
(* The handlers of module BlockSync use the block queue as module          *)
(* BlockQueue says, and forget no connection.                              *)
(*                                                                         *)
(* SyncInv says of each connection that its needed list is a run of the    *)
(* peer's chain ending at the last height of the response, that requests   *)
(* on the wire name blocks of some chain, that only the holder of          *)
(* m_sync_lock is between taking and releasing it, and that the            *)
(* connection has a reason to be woken.  A step changes one connection     *)
(* (Moves), or one and drops another.  Each step is shown to keep SyncInv  *)
(* and to be one call of the queue; this needs of the queue that its spans *)
(* are pieces of chains (QueueOK) and that a reservation takes a piece of  *)
(* the list it is given (Takes), which is where the queue's own invariant  *)
(* (module BlockQueueProofs) enters, at the end.                           *)
(***************************************************************************)
EXTENDS BlockSync, TLAPS

(* The provers of a leaf that names none, with their time limits.           *)
USE SMTT(30), ZenonT(30)

(* Two facts that rest on induction: a non-empty set of naturals has a      *)
(* least element, and the number of elements of an interval.                *)
Numbers ==
    /\ \A T \in SUBSET Nat : T # {} => \E m \in T : \A y \in T : m <= y
    /\ \A a, b \in Int : Cardinality(a..b) = IF a > b THEN 0 ELSE b - a + 1

-----------------------------------------------------------------------------
(* The chain of a peer, and its blocks.                                     *)
LEMMA ChainType ==
    ASSUME NEW c \in Connections
    PROVE  /\ Chain[c] \in Seq(Hashes) /\ Len(Chain[c]) \in Nat \ {0}
           /\ \A i \in 1..Len(Chain[c]) : Chain[c][i] \in Hashes
  <1>1. Chain[c] \in Seq(Hashes) /\ Chain[c] # <<>>
    BY SyncAssumption
  <1> QED
    BY <1>1

(* A block on two chains is at the same height of both, and so are the      *)
(* blocks below it.                                                         *)
LEMMA SameBranch ==
    ASSUME NEW c \in Connections, NEW d \in Connections,
           NEW i \in 1..Len(Chain[c]), NEW j \in 1..Len(Chain[d]),
           Chain[c][i] = Chain[d][j]
    PROVE  i = j /\ \A k \in 1..i : Chain[c][k] = Chain[d][k]
  <1>1. \A a, b \in Connections : \A m \in 1..Len(Chain[a]), n \in 1..Len(Chain[b]) :
          Chain[a][m] = Chain[b][n] => m = n /\ \A k \in 1..m : Chain[a][k] = Chain[b][k]
    BY BranchAssumption
  <1>2. \A m \in 1..Len(Chain[c]), n \in 1..Len(Chain[d]) :
          Chain[c][m] = Chain[d][n] => m = n /\ \A k \in 1..m : Chain[c][k] = Chain[d][k]
    BY Zenon, <1>1
  <1> QED
    BY <1>2

(* The height of a block of a chain.                                        *)
LEMMA HeightIs ==
    ASSUME NEW c \in Connections, NEW h \in 1..Len(Chain[c])
    PROVE  BlockHeight(Chain[c][h]) = h
  <1> DEFINE b == Chain[c][h]
             At1(g) == \E d \in Connections : g <= Len(Chain[d]) /\ Chain[d][g] = b
             D == UNION {1..Len(Chain[d]) : d \in Connections}
  <1>1. b # Genesis
    BY ChainType, SyncAssumption
  <1>2. h \in D /\ At1(h)
    BY ChainType
  <1>3. ASSUME NEW g \in D, At1(g) PROVE g = h
    <2>1. PICK d \in Connections : g <= Len(Chain[d]) /\ Chain[d][g] = b
      BY <1>3
    <2>2. g \in Nat \ {0}
      <3>1. PICK e \in Connections : g \in 1..Len(Chain[e])
        OBVIOUS
      <3> QED
        BY <3>1, ChainType
    <2>3. g \in 1..Len(Chain[d])
      BY <2>1, <2>2, ChainType
    <2> QED
      BY <2>1, <2>3, SameBranch
  <1>4. BlockHeight(b) = CHOOSE g \in D : At1(g)
    BY Zenon, <1>1 DEF BlockHeight
  <1> HIDE DEF D, At1
  <1>5. (CHOOSE g \in D : At1(g)) \in D /\ At1(CHOOSE g \in D : At1(g))
    BY Zenon, <1>2
  <1> QED
    BY Zenon, <1>3, <1>4, <1>5

(* A set of naturals up to n has a greatest element.                        *)
LEMMA MaxIs ==
    ASSUME Numbers, NEW n \in Nat, NEW S \in SUBSET (0..n), S # {}
    PROVE  Max(S) \in S /\ \A y \in S : y <= Max(S)
  <1> DEFINE T == {n - x : x \in S}
  <1>1. T \in SUBSET Nat /\ T # {}
    <2>1. ASSUME NEW x \in S PROVE n - x \in Nat
      BY <2>1
    <2> QED
      BY <2>1
  <1>2. PICK m \in T : \A y \in T : m <= y
    <2> HIDE DEF T
    <2> QED
      BY Zenon, <1>1 DEF Numbers
  <1>3. PICK x \in S : m = n - x
    BY <1>2
  <1>4. \A y \in S : x >= y
    BY <1>2, <1>3
  <1>5. Max(S) \in S /\ \A y \in S : Max(S) >= y
    BY Zenon, <1>3, <1>4 DEF Max
  <1> QED
    BY <1>5

(* The indices of s that lead into S, when they follow each other.          *)
LEMMA AmongIs ==
    ASSUME Numbers, NEW T, NEW s \in Seq(T), NEW S, NEW a \in 1..Len(s) + 1, NEW b \in 0..Len(s),
           a <= b + 1, \A i \in 1..Len(s) : s[i] \in S <=> i \in a..b
    PROVE  Among(s, S) = SubSeq(s, a, b)
  <1> DEFINE I == {i \in 1..Len(s) : s[i] \in S}
             At1(n) == CHOOSE i \in I : Cardinality({j \in I : j <= i}) = n
  <1>1. Len(s) \in Nat /\ a \in Nat /\ b \in Nat /\ a \in Int /\ b \in Int
    OBVIOUS
  <1>2. I = a..b
    BY <1>1
  <1>3. Cardinality(I) = b - a + 1
    <2>1. Cardinality(a..b) = IF a > b THEN 0 ELSE b - a + 1
      BY Zenon, <1>1 DEF Numbers
    <2>2. a > b => b - a + 1 = 0
      BY <1>1
    <2> QED
      BY Zenon, <1>1, <1>2, <2>1, <2>2
  <1>4. ASSUME NEW i \in I PROVE Cardinality({j \in I : j <= i}) = i - a + 1
    <2>1. {j \in I : j <= i} = a..i /\ i \in Int /\ a <= i
      BY <1>1, <1>2, <1>4
    <2>2. Cardinality(a..i) = IF a > i THEN 0 ELSE i - a + 1
      BY Zenon, <1>1, <2>1 DEF Numbers
    <2>3. ~(a > i)
      BY <1>1, <2>1
    <2> HIDE DEF I
    <2> QED
      BY Zenon, <2>1, <2>2, <2>3
  <1>5. ASSUME NEW n \in 1..b - a + 1 PROVE At1(n) = a + n - 1
    <2>1. a + n - 1 \in I
      BY <1>1, <1>2
    <2>2. a + n - 1 - a + 1 = n
      BY <1>1
    <2>3. \E i \in I : Cardinality({j \in I : j <= i}) = n
      <3> DEFINE i == a + n - 1
      <3>1. i \in I /\ i - a + 1 = n
        BY <2>1, <2>2
      <3> HIDE DEF i, I
      <3> QED
        BY Zenon, <1>4, <3>1
    <2>4. At1(n) \in I /\ Cardinality({j \in I : j <= At1(n)}) = n
      BY Zenon, <2>3
    <2> HIDE DEF At1
    <2>5. At1(n) - a + 1 = n /\ At1(n) \in Int
      <3>1. Cardinality({j \in I : j <= At1(n)}) = At1(n) - a + 1
        BY Zenon, <1>4, <2>4
      <3>2. At1(n) \in Int
        BY <1>1, <1>2, <2>4
      <3> HIDE DEF I
      <3> QED
        BY Zenon, <2>4, <3>1, <3>2
    <2> DEFINE m == At1(n)
    <2>6. m - a + 1 = n /\ m \in Int
      BY <2>5
    <2> HIDE DEF I, m
    <2>7. m = a + n - 1
      BY <1>1, <2>6
    <2> QED
      BY <2>7 DEF m
  <1>6. Among(s, S) = [n \in 1..Cardinality(I) |-> s[At1(n)]]
    BY Zenon DEF Among
  <1>7. /\ SubSeq(s, a, b) \in Seq(T)
        /\ Len(SubSeq(s, a, b)) = b - a + 1
        /\ \A i \in 1..b - a + 1 : SubSeq(s, a, b)[i] = s[a + i - 1]
    <2>1. \A i \in a..b : s[i] \in T
      BY <1>1
    <2>2. /\ SubSeq(s, a, b) \in Seq(T)
          /\ Len(SubSeq(s, a, b)) = IF a <= b THEN b - a + 1 ELSE 0
          /\ \A i \in 1..b - a + 1 : SubSeq(s, a, b)[i] = s[a + i - 1]
      BY <1>1, <2>1
    <2>3. a > b => b - a + 1 = 0
      BY <1>1
    <2> HIDE DEF I
    <2> QED
      BY <1>1, <2>2, <2>3
  <1> DEFINE u == SubSeq(s, a, b)
  <1>8. u = [n \in 1..b - a + 1 |-> u[n]]
    <2> HIDE DEF u
    <2> QED
      BY <1>1, <1>7 DEF u
  <1> HIDE DEF At1, u, I
  <1>9. \A n \in 1..b - a + 1 : s[At1(n)] = u[n]
    BY <1>5, <1>7 DEF u
  <1> QED
    BY <1>3, <1>6, <1>8, <1>9 DEF u

-----------------------------------------------------------------------------
(* The blocks of c's chain from height a to height b.                       *)
Run(c, a, b) == [i \in 1..(b - a) + 1 |-> Block(c, (a + i) - 1)]

(* A run, block by block.                                                   *)
LEMMA RunIs ==
    ASSUME NEW c \in Connections, NEW b \in 0..Len(Chain[c]), NEW a \in 0..b + 1
    PROVE  /\ Run(c, a, b) \in Seq(Hashes \cup {Genesis})
           /\ Len(Run(c, a, b)) = (b - a) + 1
           /\ \A i \in 1..(b - a) + 1 : Run(c, a, b)[i] = Block(c, (a + i) - 1)
  <1> DEFINE n == (b - a) + 1
             r == Run(c, a, b)
  <1>1. n \in Nat /\ Len(Chain[c]) \in Nat
    BY ChainType
  <1>2. ASSUME NEW i \in 1..n PROVE Block(c, (a + i) - 1) \in Hashes \cup {Genesis}
    <2>1. (a + i) - 1 = 0 \/ (a + i) - 1 \in 1..Len(Chain[c])
      BY <1>1
    <2> QED
      BY <2>1, ChainType DEF Block
  <1>3. r = [i \in 1..n |-> Block(c, (a + i) - 1)]
    BY DEF Run
  <1> HIDE DEF r, n
  <1>4. r \in Seq(Hashes \cup {Genesis}) /\ Len(r) = n
      /\ \A i \in 1..n : r[i] = Block(c, (a + i) - 1)
    <2>1. r \in [1..n -> Hashes \cup {Genesis}]
      BY Zenon, <1>2, <1>3
    <2>2. r \in Seq(Hashes \cup {Genesis}) /\ DOMAIN r = 1..n
      BY <1>1, <2>1
    <2>3. Len(r) = n
      BY <1>1, <2>2
    <2> QED
      BY Zenon, <1>3, <2>2, <2>3
  <1> QED
    BY Zenon, <1>4 DEF r, n

(* No blocks.                                                               *)
LEMMA RunEmpty ==
    ASSUME NEW c \in Connections, NEW b \in 0..Len(Chain[c])
    PROVE  Run(c, b + 1, b) = <<>>
  <1>1. b \in Nat /\ b + 1 \in 0..b + 1 /\ (b - (b + 1)) + 1 = 0
    BY ChainType
  <1> HIDE DEF Run
  <1>2. Run(c, b + 1, b) \in Seq(Hashes \cup {Genesis}) /\ Len(Run(c, b + 1, b)) = 0
    BY Zenon, <1>1, RunIs
  <1> QED
    BY <1>2

(* A part of a run is a run.                                                *)
LEMMA RunPart ==
    ASSUME NEW c \in Connections, NEW b \in 0..Len(Chain[c]), NEW a \in 0..b + 1,
           NEW i \in 1..(b - a) + 2, NEW j \in i - 1..(b - a) + 1
    PROVE  SubSeq(Run(c, a, b), i, j) = Run(c, (a + i) - 1, (a + j) - 1)
  <1> DEFINE r == Run(c, a, b)
             u == (a + i) - 1
             v == (a + j) - 1
             t == Run(c, u, v)
             p == SubSeq(r, i, j)
  <1>1. Len(Chain[c]) \in Nat /\ a \in Nat /\ b \in Nat /\ i \in Nat /\ j \in Nat
    BY ChainType
  <1>2. u \in 0..v + 1 /\ (v \in 0..Len(Chain[c]) \/ (v = -1 /\ u = 0))
    BY <1>1
  <1>3. r \in Seq(Hashes \cup {Genesis}) /\ Len(r) = (b - a) + 1
        /\ \A k \in 1..(b - a) + 1 : r[k] = Block(c, (a + k) - 1)
    BY Zenon, RunIs
  <1> HIDE DEF r
  <1>4. /\ p \in Seq(Hashes \cup {Genesis})
        /\ Len(p) = IF i <= j THEN (j - i) + 1 ELSE 0
        /\ \A k \in 1..(j - i) + 1 : p[k] = r[(i + k) - 1]
    <2>1. \A k \in i..j : r[k] \in Hashes \cup {Genesis}
      BY <1>1, <1>3
    <2> QED
      BY <1>1, <2>1
  <1> HIDE DEF p
  <1>5. Len(p) = (j - i) + 1 /\ (v - u) + 1 = (j - i) + 1
    BY <1>1, <1>4
  <1>6. \A k \in 1..(j - i) + 1 : p[k] = Block(c, (u + k) - 1)
    <2> SUFFICES ASSUME NEW k \in 1..(j - i) + 1 PROVE p[k] = Block(c, (u + k) - 1)
      OBVIOUS
    <2>1. (i + k) - 1 \in 1..(b - a) + 1 /\ (a + ((i + k) - 1)) - 1 = (u + k) - 1
      BY <1>1
    <2> QED
      BY Zenon, <1>3, <1>4, <2>1
  <1>7. t = [k \in 1..(j - i) + 1 |-> Block(c, (u + k) - 1)]
    BY <1>5 DEF Run
  <1> HIDE DEF t, u, v
  <1>8. p = [k \in 1..(j - i) + 1 |-> p[k]]
    BY <1>4, <1>5
  <1> QED
    BY Zenon, <1>6, <1>7, <1>8 DEF p, r, t, u, v

(* Above the genesis block, a run is a part of the chain.                   *)
LEMMA RunOfChain ==
    ASSUME NEW c \in Connections, NEW b \in 1..Len(Chain[c]), NEW a \in 1..b
    PROVE  Run(c, a, b) = SubSeq(Chain[c], a, b)
  <1> DEFINE p == SubSeq(Chain[c], a, b)
             n == (b - a) + 1
  <1>1. Len(Chain[c]) \in Nat /\ a \in Nat /\ b \in Nat /\ Chain[c] \in Seq(Hashes)
    BY ChainType
  <1>2. /\ p \in Seq(Hashes) /\ Len(p) = n
        /\ \A k \in 1..n : p[k] = Chain[c][(a + k) - 1]
    <2>1. \A k \in a..b : Chain[c][k] \in Hashes
      BY <1>1, ChainType
    <2>2. /\ p \in Seq(Hashes) /\ Len(p) = IF a <= b THEN n ELSE 0
          /\ \A k \in 1..n : p[k] = Chain[c][(a + k) - 1]
      BY <1>1, <2>1
    <2> QED
      BY <2>2
  <1> HIDE DEF p
  <1>3. \A k \in 1..n : Block(c, (a + k) - 1) = Chain[c][(a + k) - 1]
    BY <1>1 DEF Block
  <1>4. p = [k \in 1..n |-> p[k]]
    BY <1>2
  <1>5. Run(c, a, b) = [k \in 1..n |-> Block(c, (a + k) - 1)]
    BY DEF Run
  <1> QED
    BY Zenon, <1>2, <1>3, <1>4, <1>5 DEF p

(* The smaller of two naturals, as the code writes it.                      *)
LEMMA MinIs ==
    ASSUME NEW a \in Nat, NEW b \in Nat
    PROVE  Min({a, b}) \in {a, b} /\ Min({a, b}) <= a /\ Min({a, b}) <= b
  <1>1. \E x \in {a, b} : \A y \in {a, b} : x <= y
    OBVIOUS
  <1>2. Min({a, b}) \in {a, b} /\ \A y \in {a, b} : Min({a, b}) <= y
    BY Zenon, <1>1 DEF Min
  <1> QED
    BY Zenon, <1>2

-----------------------------------------------------------------------------
(* The blocks hs are those of a chain from height h on.                     *)
Piece(h, hs) ==
    /\ h \in Nat \ {0} /\ hs \in Seq(Hashes)
    /\ \E d \in Connections : /\ h + Len(hs) <= Len(Chain[d]) + 1
                              /\ \A i \in 1..Len(hs) : hs[i] = Chain[d][(h + i) - 1]

(* The queue, as far as the handlers rely on it.                            *)
QueueOK(q) ==
    /\ \A s \in q.blocks : /\ s.conn \in Connections /\ s.start \in 1..Len(Chain[s.conn])
                           /\ Piece(s.start, s.hashes)
    /\ \A x \in q.requested : \E s \in q.blocks : x \in Range(s.hashes)

(* The fields of a context that the argument is about.                      *)
Fields == {"up", "state", "needed", "last_response", "expect", "callback", "idle", "span"}

(* The needed list is a run of the peer's chain that ends at the last       *)
(* height of the peer's response.                                           *)
Listed(c, needed, last) ==
    last \in 0..Len(Chain[c]) /\ \E a \in 0..last + 1 : needed = Run(c, a, last)

ContextOK(c, k) == Fields \subseteq DOMAIN k /\ Listed(c, k.needed, k.last_response)

(* NotForgotten, of a connection with context k whose handler is at p.      *)
Woken(k, p) ==
    p = "wait" /\ k.up = "open" /\ k.state = "synchronizing" /\ ~k.idle =>
        k.expect # "none" \/ k.callback

(* A handler that is about to ask for a span again has it; without a        *)
(* connection there is no handler.                                          *)
HandlerOK(k, p) ==
    /\ p = "reset" => \E h \in Nat : Piece(h, k.span.hashes)
    /\ k.up = "closed" => p = "wait"

(* A request, with a part of some chain, or with a height of the peer's.    *)
Messages(c) ==
    {m \in [kind : {"objects"}, hashes : Seq(Hashes)] : \E h \in Nat : Piece(h, m.hashes)}
        \cup [kind : {"chain"}, start : 0..Len(Chain[c])]

Locked == {"next", "handle", "remove", "stop"}

Taken == adding.conn \in Connections /\ adding.start \in 1..Len(Chain[adding.conn])

OwnOK(c) ==
    /\ ContextOK(c, ctx[c]) /\ Woken(ctx[c], pc[c]) /\ HandlerOK(ctx[c], pc[c])
    /\ net[c] \in Seq(Messages(c))
    /\ pc[c] \in Locked => lock = c
    /\ pc[c] \in {"handle", "remove"} => Taken

SyncInv ==
    /\ DOMAIN ctx = Connections /\ DOMAIN pc = Connections /\ DOMAIN net = Connections
    /\ Genesis \in known
    /\ \A c \in Connections : OwnOK(c)

-----------------------------------------------------------------------------
(* One step of connection c, which leaves it with context m, at p and with  *)
(* the requests n, and leaves the others alone.                             *)
Only(c, f, g, v) ==
    DOMAIN g = Connections /\ g[c] = v /\ \A e \in Connections \ {c} : g[e] = f[e]

(* The lock is taken and released, and the span changed, by its holder.     *)
Locking(c, p) ==
    IF pc[c] \in Locked \/ (lock = None /\ lock' = c)
    THEN (p \in Locked => lock' = c) /\ (p \in {"handle", "remove"} => Taken')
    ELSE lock' = lock /\ adding' = adding /\ p \notin Locked

Moves(c, m, p, n) ==
    /\ Only(c, ctx, ctx', m) /\ Only(c, pc, pc', p) /\ Only(c, net, net', n)
    /\ Genesis \in known'
    /\ ContextOK(c, m) /\ Woken(m, p) /\ HandlerOK(m, p) /\ n \in Seq(Messages(c))
    /\ Locking(c, p)

(* An update at c, and none at all, leave the others alone.                 *)
LEMMA OnlyExcept ==
    ASSUME NEW f, DOMAIN f = Connections, NEW c \in Connections, NEW v
    PROVE  Only(c, f, [f EXCEPT ![c] = v], v)
  BY DEF Only

LEMMA OnlySame ==
    ASSUME NEW f, DOMAIN f = Connections, NEW c \in Connections
    PROVE  Only(c, f, f, f[c])
  BY DEF Only

(* The others keep their part of the invariant.                             *)
LEMMA OthersKept ==
    ASSUME SyncInv, NEW c \in Connections, NEW p, Locking(c, p), NEW e \in Connections, e # c,
           pc'[e] = pc[e], net'[e] = net[e],
           ctx'[e] = ctx[e] \/ ctx'[e] = [ctx[e] EXCEPT !.up = "dropped"]
    PROVE  OwnOK(e)'
  <1>1. OwnOK(e) /\ OwnOK(c) /\ None \notin Connections
    BY SyncAssumption DEF SyncInv
  <1>2. /\ pc[e] \in Locked => lock' = e
        /\ pc[e] \in {"handle", "remove"} => Taken'
    <2>1. CASE pc[c] \in Locked \/ (lock = None /\ lock' = c)
      <3>1. pc[e] \notin Locked
        BY Zenon, <1>1, <2>1 DEF OwnOK
      <3> QED
        BY <3>1 DEF Locked
    <2>2. CASE ~(pc[c] \in Locked \/ (lock = None /\ lock' = c))
      <3>1. lock' = lock /\ adding' = adding
        BY <2>2 DEF Locking
      <3> QED
        BY <1>1, <3>1 DEF OwnOK, Taken
    <2> QED
      BY Zenon, <2>1, <2>2
  <1>3. ContextOK(e, ctx'[e]) /\ Woken(ctx'[e], pc[e]) /\ HandlerOK(ctx'[e], pc[e])
    <2>1. CASE ctx'[e] = ctx[e]
      BY Zenon, <1>1, <2>1 DEF OwnOK
    <2>2. CASE ctx'[e] = [ctx[e] EXCEPT !.up = "dropped"]
      <3>1. Fields \subseteq DOMAIN ctx[e]
        BY <1>1 DEF OwnOK, ContextOK
      <3>2. /\ Fields \subseteq DOMAIN ctx'[e] /\ ctx'[e].up = "dropped"
            /\ ctx'[e].needed = ctx[e].needed /\ ctx'[e].last_response = ctx[e].last_response
            /\ ctx'[e].span = ctx[e].span
        BY Zenon, <2>2, <3>1 DEF Fields
      <3> QED
        BY <1>1, <3>2 DEF OwnOK, ContextOK, Woken, HandlerOK
    <2> QED
      BY <2>1, <2>2
  <1> QED
    BY <1>1, <1>2, <1>3 DEF OwnOK

(* Such a step keeps the invariant.                                         *)
LEMMA MovesKeep ==
    ASSUME SyncInv, NEW c \in Connections, NEW m, NEW p, NEW n, Moves(c, m, p, n)
    PROVE  SyncInv'
  <1>1. OwnOK(c)'
    <2>1. (p \in Locked => lock' = c) /\ (p \in {"handle", "remove"} => Taken')
      BY DEF Moves, Locking, Locked
    <2> QED
      BY <2>1 DEF Moves, Only, OwnOK
  <1>2. ASSUME NEW e \in Connections, e # c PROVE OwnOK(e)'
    BY <1>2, OthersKept DEF Moves, Only
  <1> QED
    BY Zenon, <1>1, <1>2 DEF Moves, Only, SyncInv

(* An empty needed list, and a fresh context, are fine.                     *)
LEMMA Unlisted ==
    ASSUME NEW c \in Connections, NEW last \in 0..Len(Chain[c])
    PROVE  Listed(c, <<>>, last)
  <1>1. last + 1 \in 0..last + 1
    BY ChainType
  <1> QED
    BY <1>1, RunEmpty DEF Listed

LEMMA NewOK ==
    ASSUME NEW c \in Connections, NEW up
    PROVE  ContextOK(c, [NewContext EXCEPT !.up = up])
  <1>1. 0 \in 0..Len(Chain[c])
    BY ChainType
  <1>2. Listed(c, <<>>, 0)
    BY Zenon, <1>1, Unlisted
  <1> QED
    BY <1>2 DEF ContextOK, Fields, NewContext

(* A step that leaves the lock alone, within a handler and outside the      *)
(* locked part.                                                             *)
LEMMA LockSame ==
    ASSUME SyncInv, NEW c \in Connections, lock' = lock, adding' = adding
    PROVE  Locking(c, pc[c])
  BY SyncAssumption DEF SyncInv, OwnOK, Locking, Taken

LEMMA LockOut ==
    ASSUME NEW c \in Connections, lock' = lock, adding' = adding, NEW p, p \notin Locked,
           pc[c] \notin Locked
    PROVE  Locking(c, p)
  BY SyncAssumption DEF Locking

(* flush_spans and remove_spans are operations of the queue.                *)
LEMMA FlushStep ==
    ASSUME NEW c \in Connections, NEW all \in BOOLEAN, queue' = BQ!flush_spans(queue, c, all)
    PROVE  BQ!Next
  BY Zenon DEF BQ!Next, BQ!FlushSpans

LEMMA RemoveStep ==
    ASSUME NEW c \in Connections, NEW h \in 1..Len(Chain[c]), queue' = BQ!remove_spans(queue, c, h)
    PROVE  BQ!Next
  BY Zenon DEF BQ!Next, BQ!RemoveSpans, BQ!Height

(* Dropping a connection flushes its spans and only marks its context.      *)
LEMMA Dropped ==
    ASSUME SyncInv, NEW c \in Connections, NEW all \in BOOLEAN, Drop(c, all)
    PROVE  /\ BQ!Next
           /\ \E m : /\ Only(c, ctx, ctx', m) /\ ContextOK(c, m)
                     /\ \A p : Woken(m, p) /\ (p # "reset" => HandlerOK(m, p))
  <1> DEFINE k == ctx[c]
             m == [k EXCEPT !.up = "dropped"]
  <1>1. BQ!Next
    BY Zenon, FlushStep DEF Drop
  <1>2. DOMAIN ctx = Connections /\ ContextOK(c, k)
    BY DEF SyncInv, OwnOK
  <1>3. Only(c, ctx, ctx', m)
    <2>1. ctx' = [ctx EXCEPT ![c] = m]
      BY <1>2 DEF Drop
    <2> QED
      BY Zenon, <1>2, <2>1, OnlyExcept
  <1> HIDE DEF k
  <1>4. m.up = "dropped" /\ ContextOK(c, m)
    BY <1>2 DEF ContextOK, Fields
  <1> HIDE DEF m
  <1> QED
    BY Zenon, <1>1, <1>3, <1>4 DEF Woken, HandlerOK

-----------------------------------------------------------------------------
(* The steps that start no handler.                                         *)
LEMMA CloseStep ==
    ASSUME SyncInv, NEW c \in Connections, Close(c)
    PROVE  BQ!Next /\ SyncInv'
  <1>1. BQ!Next
    BY Zenon, FlushStep DEF Close
  <1>2. Only(c, ctx, ctx', NewContext) /\ Only(c, pc, pc', "wait") /\ Only(c, net, net', <<>>)
    BY Zenon, OnlyExcept, OnlySame DEF Close, SyncInv
  <1>3. ContextOK(c, NewContext)
    <2>1. Listed(c, <<>>, 0)
      BY ChainType, Unlisted
    <2> QED
      BY Zenon, <2>1 DEF ContextOK, Fields, NewContext
  <1>4. Woken(NewContext, "wait") /\ HandlerOK(NewContext, "wait") /\ <<>> \in Seq(Messages(c))
    BY DEF Woken, HandlerOK, NewContext
  <1>5. Locking(c, "wait") /\ Genesis \in known'
    BY LockSame DEF Close, SyncInv
  <1> QED
    BY ZenonT(60), <1>1, <1>2, <1>3, <1>4, <1>5, MovesKeep DEF Moves

LEMMA PeerClosesStep ==
    ASSUME SyncInv, NEW c \in Connections, PeerCloses(c)
    PROVE  queue' = queue /\ SyncInv'
  <1> DEFINE k == ctx[c]
             m == [k EXCEPT !.up = "dropped"]
  <1>1. DOMAIN ctx = Connections /\ OwnOK(c)
    BY DEF SyncInv
  <1>2. Only(c, ctx, ctx', m) /\ Only(c, pc, pc', pc[c]) /\ Only(c, net, net', net[c])
    <2>1. ctx' = [ctx EXCEPT ![c] = m]
      BY <1>1 DEF PeerCloses
    <2>2. pc' = pc /\ net' = net
      BY DEF PeerCloses
    <2> HIDE DEF m
    <2> QED
      BY Zenon, <2>1, <2>2, OnlyExcept, OnlySame DEF SyncInv
  <1>3. Locking(c, pc[c]) /\ Genesis \in known'
    BY LockSame DEF PeerCloses, SyncInv
  <1> HIDE DEF k
  <1>4. m.up = "dropped" /\ ContextOK(c, m) /\ m.span = k.span
    BY Zenon, <1>1 DEF OwnOK, ContextOK, Fields, k
  <1> HIDE DEF m
  <1>5. Woken(m, pc[c]) /\ HandlerOK(m, pc[c])
    BY Zenon, <1>1, <1>4 DEF Woken, HandlerOK, OwnOK, k
  <1> QED
    BY Zenon, <1>1, <1>2, <1>3, <1>4, <1>5, MovesKeep DEF Moves, OwnOK, PeerCloses

LEMMA SyncDataStep ==
    ASSUME SyncInv, NEW c \in Connections, NEW k, SyncData(c, k), ContextOK(c, k),
           k.up = "open", pc[c] = "wait"
    PROVE  queue' = queue /\ SyncInv'
  <1> DEFINE m == IF Last(Chain[c]) \notin known
                  THEN [k EXCEPT !.state = "synchronizing", !.callback = TRUE, !.asked = FALSE]
                  ELSE [k EXCEPT !.state = "normal"]
  <1>1. DOMAIN ctx = Connections /\ OwnOK(c)
    BY DEF SyncInv
  <1>2. Only(c, ctx, ctx', m) /\ Only(c, pc, pc', "wait") /\ Only(c, net, net', net[c])
    BY Zenon, OnlyExcept, OnlySame DEF SyncData, Set, SyncInv
  <1>3. Locking(c, "wait") /\ Genesis \in known'
    BY LockSame DEF SyncData, SyncInv
  <1>4. /\ Fields \subseteq DOMAIN m /\ m.needed = k.needed /\ m.last_response = k.last_response
        /\ m.up = "open" /\ (m.state = "normal" \/ m.callback)
    BY DEF ContextOK, Fields
  <1> HIDE DEF m
  <1>5. ContextOK(c, m) /\ Woken(m, "wait") /\ HandlerOK(m, "wait")
    BY <1>4 DEF ContextOK, Woken, HandlerOK
  <1> QED
    BY Zenon, <1>1, <1>2, <1>3, <1>5, MovesKeep DEF Moves, OwnOK, SyncData

LEMMA ConnectStep ==
    ASSUME SyncInv, NEW c \in Connections, Connect(c)
    PROVE  queue' = queue /\ SyncInv'
  <1> DEFINE k == [NewContext EXCEPT !.up = "open"]
  <1>1. pc[c] = "wait" /\ SyncData(c, k)
    BY DEF Connect, SyncInv, OwnOK, HandlerOK
  <1>2. k.up = "open" /\ ContextOK(c, k)
    BY ZenonT(60), NewOK DEF NewContext
  <1> HIDE DEF k
  <1> QED
    BY Zenon, <1>1, <1>2, SyncDataStep

LEMMA TimedSyncStep ==
    ASSUME SyncInv, NEW c \in Connections, TimedSync(c)
    PROVE  queue' = queue /\ SyncInv'
  BY Zenon, SyncDataStep DEF TimedSync, Ready, SyncInv, OwnOK

LEMMA CheckStandbyStep ==
    ASSUME SyncInv, NEW c \in Connections, CheckStandby(c)
    PROVE  queue' = queue /\ SyncInv'
  <1> DEFINE k == ctx[c]
             m == [k EXCEPT !.callback = TRUE]
  <1>1. DOMAIN ctx = Connections /\ OwnOK(c)
    BY DEF SyncInv
  <1>2. Only(c, ctx, ctx', m) /\ Only(c, pc, pc', pc[c]) /\ Only(c, net, net', net[c])
    <2>1. ctx' = [ctx EXCEPT ![c] = m]
      BY <1>1 DEF CheckStandby
    <2>2. pc' = pc /\ net' = net
      BY DEF CheckStandby
    <2> HIDE DEF m
    <2> QED
      BY Zenon, <2>1, <2>2, OnlyExcept, OnlySame DEF SyncInv
  <1>3. Locking(c, pc[c]) /\ Genesis \in known'
    BY LockSame DEF CheckStandby, SyncInv
  <1> HIDE DEF k
  <1>4. m.callback /\ ContextOK(c, m) /\ m.span = k.span /\ m.up = k.up
    BY <1>1 DEF OwnOK, ContextOK, Fields, k
  <1> HIDE DEF m
  <1>5. Woken(m, pc[c]) /\ HandlerOK(m, pc[c])
    BY <1>1, <1>4 DEF Woken, HandlerOK, OwnOK, k
  <1> QED
    BY Zenon, <1>1, <1>2, <1>3, <1>4, <1>5, MovesKeep DEF Moves, OwnOK, CheckStandby

-----------------------------------------------------------------------------
(* A chain request names a height of the peer's chain.                      *)
LEMMA ChainRequestOK ==
    ASSUME Numbers, NEW c \in Connections, NEW from
    PROVE  ChainRequest(c, from) \in Messages(c)
  <1> DEFINE S == {h \in 0..Len(Chain[c]) : h = 0 \/ (h <= Len(main) /\ main[h] = Chain[c][h])}
             r == ChainRequest(c, from)
  <1>1. Len(Chain[c]) \in Nat /\ DOMAIN Chain[c] = 1..Len(Chain[c])
    BY ChainType
  <1>2. S \in SUBSET (0..Len(Chain[c])) /\ S # {}
    BY <1>1
  <1>3. Max(S) \in 0..Len(Chain[c])
    <2> HIDE DEF S
    <2> QED
      BY ZenonT(60), <1>1, <1>2, MaxIs
  <1>4. ASSUME from \in Range(Chain[c]) PROVE BlockHeight(from) \in 0..Len(Chain[c])
    <2>1. PICK i \in 1..Len(Chain[c]) : from = Chain[c][i]
      BY <1>1, <1>4 DEF Range
    <2> QED
      BY <1>1, <2>1, HeightIs
  <1>5. r = [kind |-> "chain", start |-> IF from \in Range(Chain[c]) THEN BlockHeight(from)
         ELSE Max(S)]
    BY Zenon DEF ChainRequest
  <1> HIDE DEF S, r
  <1>6. r \in [kind : {"chain"}, start : 0..Len(Chain[c])]
    BY <1>3, <1>4, <1>5
  <1> QED
    BY ZenonT(60), <1>6 DEF Messages, r

(* skip_unneeded_hashes leaves a run of the chain, without the genesis.     *)
LEMMA SkipIs ==
    ASSUME Numbers, NEW c \in Connections, NEW k, ContextOK(c, k), Genesis \in known, NEW q
    PROVE  LET m == skip_unneeded_hashes(k, q)
           IN  /\ ContextOK(c, m)
               /\ \E a \in 1..k.last_response + 1 : m.needed = Run(c, a, k.last_response)
               /\ DOMAIN m = DOMAIN k /\ m.last_response = k.last_response /\ m.up = k.up
  <1> DEFINE m == skip_unneeded_hashes(k, q)
             b == k.last_response
             U(x) == x \in known \/ (q /\ x \in queue.have)
             S == {i \in 0..Len(k.needed) : \A j \in 1..i : U(k.needed[j])}
             n == Max(S)
             last == IF n > 0 /\ n = Len(k.needed) THEN Last(k.needed) ELSE k.last_known
  <1>1. PICK a \in 0..b + 1 : k.needed = Run(c, a, b)
    BY DEF ContextOK, Listed
  <1>2. b \in 0..Len(Chain[c]) /\ b \in Nat /\ a \in Nat /\ Len(Chain[c]) \in Nat
    BY ChainType DEF ContextOK, Listed
  <1>3. /\ Len(k.needed) = (b - a) + 1
        /\ \A i \in 1..(b - a) + 1 : k.needed[i] = Block(c, (a + i) - 1)
    <2> HIDE DEF b
    <2>1. /\ Len(Run(c, a, b)) = (b - a) + 1
          /\ \A i \in 1..(b - a) + 1 : Run(c, a, b)[i] = Block(c, (a + i) - 1)
      BY Zenon, <1>2, RunIs
    <2> QED
      BY ZenonT(60), <1>1, <2>1
  <1>4. Len(k.needed) \in Nat
    BY <1>2, <1>3
  <1>5. S \in SUBSET (0..Len(k.needed)) /\ 0 \in S
    BY <1>4
  <1>6. n \in S /\ \A y \in S : y <= n
    <2> HIDE DEF S
    <2> QED
      BY ZenonT(60), <1>4, <1>5, MaxIs
  <1>7. n \in 0..(b - a) + 1
    BY Zenon, <1>3, <1>5, <1>6
  <1>8. a = 0 => n >= 1
    <2>1. SUFFICES ASSUME a = 0 PROVE 1 <= n
      BY ZenonT(60), <1>7
    <2>2. k.needed[1] = Genesis /\ 1 \in 0..Len(k.needed)
      BY <1>2, <1>3, <2>1 DEF Block
    <2>3. 1 \in S
      BY <2>2
    <2> HIDE DEF S, n
    <2> QED
      BY <1>6, <2>3
  <1>9. m = [k EXCEPT !.needed = SubSeq(k.needed, n + 1, Len(k.needed)), !.last_known = last]
    BY ZenonT(60) DEF skip_unneeded_hashes
  <1> HIDE DEF n, S, m, last
  <1>10. SubSeq(k.needed, n + 1, Len(k.needed)) = Run(c, a + n, b)
    <2>1. /\ n + 1 \in 1..(b - a) + 2 /\ (b - a) + 1 \in (n + 1) - 1..(b - a) + 1
          /\ (a + (n + 1)) - 1 = a + n /\ (a + ((b - a) + 1)) - 1 = b
      BY <1>2, <1>7
    <2>2. SubSeq(Run(c, a, b), n + 1, (b - a) + 1) =
          Run(c, (a + (n + 1)) - 1, (a + ((b - a) + 1)) - 1)
      BY Zenon, <1>2, <2>1, RunPart
    <2> QED
      BY ZenonT(60), <1>1, <1>3, <2>1, <2>2
  <1>11. a + n \in 1..b + 1 /\ a + n \in 0..b + 1
    BY <1>2, <1>7, <1>8
  <1>12. /\ m.needed = Run(c, a + n, b) /\ m.last_response = b /\ m.up = k.up
         /\ DOMAIN m = DOMAIN k
    BY Zenon, <1>9, <1>10 DEF ContextOK, Fields
  <1>13. ContextOK(c, m)
    BY Zenon, <1>2, <1>11, <1>12 DEF ContextOK, Listed
  <1> QED
    BY Zenon, <1>11, <1>12, <1>13 DEF m

(* The callback asks for the chain again, for objects, or gives the request *)
(* up as idle.                                                              *)
LEMMA OnCallbackStep ==
    ASSUME Numbers, SyncInv, NEW c \in Connections, OnCallback(c)
    PROVE  queue' = queue /\ SyncInv'
  <1> DEFINE k == ctx[c]
             j == [k EXCEPT !.callback = FALSE]
  <1>1. /\ DOMAIN ctx = Connections /\ DOMAIN pc = Connections /\ DOMAIN net = Connections
        /\ ContextOK(c, k) /\ net[c] \in Seq(Messages(c)) /\ Genesis \in known
    BY DEF SyncInv, OwnOK
  <1>2. pc[c] = "wait" /\ k.up = "open" /\ lock' = lock /\ adding' = adding /\ known' = known
        /\ queue' = queue
    BY DEF OnCallback, Ready
  <1>3. \A p : p \notin Locked => Locking(c, p)
    BY Zenon, <1>2, LockOut DEF Locked
  <1>4. \/ /\ ctx' = [ctx EXCEPT ![c] = [j EXCEPT !.needed = <<>>, !.expect = "chain",
                                                  !.expect_height = CurrentHeight]]
           /\ net' = [net EXCEPT ![c] = Append(net[c], ChainRequest(c, None))] /\ pc' = pc
        \/ /\ ctx' = [ctx EXCEPT ![c] =
                   [j EXCEPT !.state = "synchronizing", !.handler = "callback"]]
           /\ net' = net /\ pc' = [pc EXCEPT ![c] = "add"]
        \/ /\ ctx' = [ctx EXCEPT ![c] = j] /\ net' = net /\ pc' = pc
           /\ ~(j.state = "synchronizing" /\ j.expect = "none")
    BY DEF OnCallback, Set, Go
  <1> HIDE DEF k
  <1>5. /\ Fields \subseteq DOMAIN j /\ j.needed = k.needed /\ j.last_response = k.last_response
        /\ j.up = "open"
    BY Zenon, <1>1, <1>2 DEF ContextOK, Fields
  <1> HIDE DEF j
  <1>6. ContextOK(c, j)
    BY <1>1, <1>5 DEF ContextOK
  <1>7. CASE /\ ctx' = [ctx EXCEPT ![c] = [j EXCEPT !.needed = <<>>, !.expect = "chain",
                                                    !.expect_height = CurrentHeight]]
             /\ net' = [net EXCEPT ![c] = Append(net[c], ChainRequest(c, None))] /\ pc' = pc
    <2> DEFINE m == [j EXCEPT !.needed = <<>>, !.expect = "chain", !.expect_height = CurrentHeight]
               n == Append(net[c], ChainRequest(c, None))
    <2>1. n \in Seq(Messages(c))
      BY <1>1, ChainRequestOK
    <2>2. /\ Fields \subseteq DOMAIN m /\ m.needed = <<>> /\ m.last_response = j.last_response
          /\ m.up = "open" /\ m.expect = "chain"
      BY <1>5 DEF Fields
    <2> HIDE DEF m, n
    <2>3. ContextOK(c, m) /\ Woken(m, "wait") /\ HandlerOK(m, "wait")
      BY ZenonT(60), <1>6, <2>2, Unlisted DEF ContextOK, Listed, Woken, HandlerOK
    <2>4. Only(c, ctx, ctx', m) /\ Only(c, pc, pc', "wait") /\ Only(c, net, net', n)
      BY Zenon, <1>1, <1>2, <1>7, OnlyExcept, OnlySame DEF m, n
    <2> QED
      BY ZenonT(60), <1>1, <1>2, <1>3, <2>1, <2>3, <2>4, MovesKeep DEF Moves, Locked
  <1>8. CASE /\ ctx' = [ctx EXCEPT ![c] =
                     [j EXCEPT !.state = "synchronizing", !.handler = "callback"]]
             /\ net' = net /\ pc' = [pc EXCEPT ![c] = "add"]
    <2> DEFINE m == [j EXCEPT !.state = "synchronizing", !.handler = "callback"]
    <2>2. /\ Fields \subseteq DOMAIN m /\ m.needed = j.needed /\ m.last_response = j.last_response
          /\ m.up = "open"
      BY Zenon, <1>5 DEF Fields
    <2> HIDE DEF m
    <2>3. ContextOK(c, m) /\ Woken(m, "add") /\ HandlerOK(m, "add")
      BY <1>6, <2>2 DEF ContextOK, Woken, HandlerOK
    <2>4. Only(c, ctx, ctx', m) /\ Only(c, pc, pc', "add") /\ Only(c, net, net', net[c])
      BY ZenonT(60), <1>1, <1>2, <1>8, OnlyExcept, OnlySame DEF m
    <2> QED
      BY <1>1, <1>2, <1>3, <2>3, <2>4, MovesKeep DEF Moves, Locked
  <1>9. CASE /\ ctx' = [ctx EXCEPT ![c] = j] /\ net' = net /\ pc' = pc
             /\ ~(j.state = "synchronizing" /\ j.expect = "none")
    <2>3. Woken(j, "wait") /\ HandlerOK(j, "wait")
      BY <1>5, <1>9 DEF Woken, HandlerOK
    <2>4. Only(c, ctx, ctx', j) /\ Only(c, pc, pc', "wait") /\ Only(c, net, net', net[c])
      BY ZenonT(60), <1>1, <1>2, <1>9, OnlyExcept, OnlySame
    <2> QED
      BY Zenon, <1>1, <1>2, <1>3, <1>6, <2>3, <2>4, MovesKeep DEF Moves, Locked
  <1> QED
    BY ZenonT(60), <1>4, <1>7, <1>8, <1>9, <1>2

LEMMA KickIdleStep ==
    ASSUME SyncInv, NEW c \in Connections, KickIdle(c)
    PROVE  [BQ!Next]_queue /\ SyncInv'
  <1> DEFINE k == ctx[c]
             m == [Forget(k) EXCEPT !.score = @ - 1, !.handler = "callback"]
  <1>1. /\ DOMAIN ctx = Connections /\ DOMAIN pc = Connections /\ DOMAIN net = Connections
        /\ ContextOK(c, k) /\ net[c] \in Seq(Messages(c)) /\ Genesis \in known
    BY ZenonT(60) DEF SyncInv, OwnOK
  <1>2. pc[c] = "wait" /\ k.up = "open" /\ lock' = lock /\ adding' = adding /\ known' = known
        /\ net' = net
    BY Zenon DEF KickIdle, Ready
  <1>3. \A p : p \notin Locked => Locking(c, p)
    BY <1>2, LockOut DEF Locked
  <1>4. \/ ctx' = [ctx EXCEPT ![c] = m] /\ pc' = [pc EXCEPT ![c] = "add"] /\ queue' = queue
        \/ Drop(c, FALSE) /\ pc' = pc
    BY ZenonT(60) DEF KickIdle, Set, Go
  <1> HIDE DEF k
  <1>5. CASE ctx' = [ctx EXCEPT ![c] = m] /\ pc' = [pc EXCEPT ![c] = "add"] /\ queue' = queue
    <2>1. /\ Fields \subseteq DOMAIN m /\ m.needed = k.needed /\ m.last_response = k.last_response
          /\ m.up = "open"
      BY Zenon, <1>1, <1>2 DEF ContextOK, Fields, Forget
    <2> HIDE DEF m
    <2>2. ContextOK(c, m) /\ Woken(m, "add") /\ HandlerOK(m, "add")
      BY <1>1, <2>1 DEF ContextOK, Woken, HandlerOK
    <2>3. Only(c, ctx, ctx', m) /\ Only(c, pc, pc', "add") /\ Only(c, net, net', net[c])
      BY ZenonT(60), <1>1, <1>2, <1>5, OnlyExcept, OnlySame
    <2>4. Moves(c, m, "add", net[c])
      BY <1>1, <1>2, <1>3, <2>2, <2>3 DEF Moves, Locked
    <2> QED
      BY Zenon, <1>5, <2>4, MovesKeep
  <1>6. CASE Drop(c, FALSE) /\ pc' = pc
    <2>1. BQ!Next
      BY ZenonT(60), <1>6, Dropped
    <2>2. PICK d : /\ Only(c, ctx, ctx', d) /\ ContextOK(c, d)
                   /\ \A p : Woken(d, p) /\ (p # "reset" => HandlerOK(d, p))
      BY ZenonT(60), <1>6, Dropped
    <2>3. Only(c, pc, pc', "wait") /\ Only(c, net, net', net[c])
      BY Zenon, <1>1, <1>2, <1>6, OnlySame
    <2> QED
      BY Zenon, <1>1, <1>2, <1>3, <2>1, <2>2, <2>3, MovesKeep DEF Moves, Locked
  <1> QED
    BY ZenonT(60), <1>4, <1>5, <1>6

(* The peer sends the first blocks of a request, those on its own chain.    *)
LEMMA AnswerIs ==
    ASSUME Numbers, NEW c \in Connections, NEW h \in Nat, NEW hs, Piece(h, hs),
           Among(hs, Range(Chain[c])) # <<>>
    PROVE  LET blocks == Among(hs, Range(Chain[c]))
           IN  \E last \in 1..Len(Chain[c]) : /\ h \in 1..last /\ blocks = SubSeq(Chain[c], h, last)
                                              /\ BlockHeight(blocks[1]) = h
  <1> DEFINE S == Range(Chain[c])
             I == {i \in 1..Len(hs) : hs[i] \in S} \cup {0}
             n == Max(I)
             t == SubSeq(hs, 1, n)
             last == (h + n) - 1
  <1>1. PICK d \in Connections : /\ h + Len(hs) <= Len(Chain[d]) + 1
                                 /\ \A i \in 1..Len(hs) : hs[i] = Chain[d][(h + i) - 1]
    BY Zenon DEF Piece
  <1>2. /\ h \in Nat \ {0} /\ hs \in Seq(Hashes) /\ Len(hs) \in Nat
        /\ Len(Chain[c]) \in Nat /\ Len(Chain[d]) \in Nat /\ DOMAIN Chain[c] = 1..Len(Chain[c])
    BY ChainType DEF Piece
  <1>3. ASSUME NEW i \in 1..Len(hs), hs[i] \in S
        PROVE  /\ (h + i) - 1 \in 1..Len(Chain[c])
               /\ \A k \in 1..(h + i) - 1 : Chain[c][k] = Chain[d][k]
    <2>1. PICK j \in 1..Len(Chain[c]) : hs[i] = Chain[c][j]
      BY Zenon, <1>2, <1>3 DEF Range
    <2>2. (h + i) - 1 \in 1..Len(Chain[d]) /\ Chain[d][(h + i) - 1] = Chain[c][j]
      BY <1>1, <1>2, <2>1
    <2>3. (h + i) - 1 = j /\ \A k \in 1..(h + i) - 1 : Chain[d][k] = Chain[c][k]
      BY ZenonT(60), <2>2, SameBranch
    <2> QED
      BY Zenon, <2>3
  <1>4. I \in SUBSET (0..Len(hs)) /\ I # {} /\ 0 \in I
    BY <1>2
  <1>5. n \in I /\ n \in 0..Len(hs) /\ \A i \in I : i <= n
    <2> HIDE DEF I
    <2> QED
      BY ZenonT(60), <1>2, <1>4, MaxIs
  <1> HIDE DEF n
  <1>6. \A i \in 1..Len(hs) : hs[i] \in S <=> i \in 1..n
    <2>1. ASSUME NEW i \in 1..Len(hs), hs[i] \in S PROVE i \in 1..n
      BY <1>2, <1>5, <2>1
    <2>2. ASSUME NEW i \in 1..n PROVE hs[i] \in S
      <3>1. n \in 1..Len(hs) /\ hs[n] \in S
        BY <1>2, <1>5, <2>2
      <3>2. /\ i \in 1..Len(hs) /\ (h + i) - 1 \in 1..(h + n) - 1
            /\ (h + i) - 1 \in 1..Len(Chain[c])
        BY <1>2, <1>3, <1>5, <2>2, <3>1
      <3>3. hs[i] = Chain[c][(h + i) - 1]
        BY ZenonT(60), <1>1, <1>3, <3>1, <3>2
      <3> QED
        BY Zenon, <1>2, <3>2, <3>3 DEF Range
    <2> QED
      BY <1>2, <1>5, <2>1, <2>2
  <1>7. Among(hs, S) = t
    <2>1. 1 \in 1..Len(hs) + 1 /\ 1 <= n + 1
      BY <1>2, <1>5
    <2> HIDE DEF S
    <2> QED
      BY ZenonT(60), <1>2, <1>5, <1>6, <2>1, AmongIs
  <1>8. /\ t \in Seq(Hashes) /\ Len(t) = n /\ \A i \in 1..n : t[i] = hs[i]
    BY <1>2, <1>5
  <1>9. n \in 1..Len(hs) /\ hs[n] \in S
    <2>1. n # 0
      <3> HIDE DEF t
      <3> QED
        BY <1>7, <1>8
    <2> QED
      BY ZenonT(60), <1>2, <1>5, <2>1
  <1>10. last \in 1..Len(Chain[c]) /\ h \in 1..last /\ (last - h) + 1 = n /\ last \in Nat
    BY <1>2, <1>3, <1>9
  <1>11. \A k \in 1..n : t[k] = Chain[c][(h + k) - 1]
    <2> SUFFICES ASSUME NEW k \in 1..n PROVE t[k] = Chain[c][(h + k) - 1]
      BY ZenonT(60)
    <2>1. k \in 1..Len(hs) /\ (h + k) - 1 \in 1..(h + n) - 1
      BY <1>2, <1>9
    <2>2. t[k] = hs[k] /\ hs[k] = Chain[d][(h + k) - 1]
      BY Zenon, <1>1, <1>8, <2>1
    <2> HIDE DEF t
    <2> QED
      BY ZenonT(60), <1>3, <1>9, <2>1, <2>2
  <1>12. t = SubSeq(Chain[c], h, last)
    <2> DEFINE u == SubSeq(Chain[c], h, last)
    <2>1. Chain[c] \in Seq(Hashes)
      BY Zenon, ChainType
    <2>2. u \in Seq(Hashes) /\ Len(u) = n /\ \A k \in 1..n : u[k] = Chain[c][(h + k) - 1]
      BY <1>2, <1>10, <2>1
    <2> HIDE DEF u, t, last
    <2>3. u = [k \in 1..n |-> u[k]] /\ t = [k \in 1..n |-> t[k]]
      BY <1>8, <2>2
    <2>4. \A k \in 1..n : u[k] = t[k]
      BY Zenon, <1>11, <2>2
    <2> QED
      BY Zenon, <2>3, <2>4 DEF u
  <1>13. t[1] = Chain[c][h] /\ h \in 1..Len(Chain[c])
    BY <1>2, <1>9, <1>10, <1>11
  <1>14. BlockHeight(t[1]) = h
    <2> HIDE DEF t
    <2> QED
      BY ZenonT(60), <1>13, HeightIs
  <1> HIDE DEF t, last, S
  <1> QED
    BY ZenonT(60), <1>7, <1>10, <1>12, <1>14 DEF S

(* Blocks arrive: they are of the chain at the height they claim, so they   *)
(* may be stored, whatever was requested.                                   *)
LEMMA ResponseGetObjectsStep ==
    ASSUME Numbers, SyncInv, NEW c \in Connections, ResponseGetObjects(c)
    PROVE  BQ!Next /\ SyncInv'
  <1> DEFINE k == ctx[c]
             blocks == Among(Head(net[c]).hashes, Range(Chain[c]))
             start == BlockHeight(blocks[1])
             m == [Forget(k) EXCEPT !.last_known = Last(blocks), !.handler = "objects"]
  <1>1. /\ DOMAIN ctx = Connections /\ DOMAIN pc = Connections /\ DOMAIN net = Connections
        /\ ContextOK(c, k) /\ net[c] \in Seq(Messages(c)) /\ Genesis \in known
    BY DEF SyncInv, OwnOK
  <1>2. /\ pc[c] = "wait" /\ k.up = "open" /\ lock' = lock /\ adding' = adding /\ known' = known
        /\ net' = [net EXCEPT ![c] = Tail(net[c])]
        /\ net[c] # <<>> /\ Head(net[c]).kind = "objects"
    BY DEF ResponseGetObjects, Ready
  <1>3. \A p : p \notin Locked => Locking(c, p)
    BY <1>2, LockOut DEF Locked
  <1>4. \/ Drop(c, FALSE) /\ pc' = pc
        \/ /\ blocks # <<>> /\ queue' = BQ!add_blocks(queue, start, blocks, c)
           /\ ctx' = [ctx EXCEPT ![c] = m] /\ pc' = [pc EXCEPT ![c] = "add"]
    BY ZenonT(60) DEF ResponseGetObjects, Set, Go
  <1>5. Head(net[c]) \in Messages(c) /\ Tail(net[c]) \in Seq(Messages(c))
    BY <1>1, <1>2
  <1>6. Only(c, net, net', Tail(net[c]))
    BY Zenon, <1>1, <1>2, OnlyExcept
  <1> HIDE DEF k
  <1>7. CASE Drop(c, FALSE) /\ pc' = pc
    <2>1. BQ!Next
      BY Zenon, <1>7, Dropped
    <2>2. PICK d : /\ Only(c, ctx, ctx', d) /\ ContextOK(c, d)
                   /\ \A p : Woken(d, p) /\ (p # "reset" => HandlerOK(d, p))
      BY Zenon, <1>7, Dropped
    <2>3. Only(c, pc, pc', "wait")
      BY Zenon, <1>1, <1>2, <1>7, OnlySame
    <2> QED
      BY Zenon, <1>1, <1>2, <1>3, <1>5, <1>6, <2>1, <2>2, <2>3, MovesKeep DEF Moves, Locked
  <1>8. CASE /\ blocks # <<>> /\ queue' = BQ!add_blocks(queue, start, blocks, c)
             /\ ctx' = [ctx EXCEPT ![c] = m] /\ pc' = [pc EXCEPT ![c] = "add"]
    <2>1. PICK h \in Nat : Piece(h, Head(net[c]).hashes)
      BY Zenon, <1>2, <1>5 DEF Messages
    <2>2. PICK last \in 1..Len(Chain[c]) : /\ h \in 1..last /\ blocks = SubSeq(Chain[c], h, last)
                                           /\ start = h
      BY Zenon, <1>8, <2>1, AnswerIs
    <2>3. BQ!Next
      <3>1. queue' = BQ!add_blocks(queue, h, SubSeq(Chain[c], h, last), c)
        BY Zenon, <1>8, <2>2
      <3> QED
        BY Zenon, <2>2, <3>1 DEF BQ!Next, BQ!AddBlocks, BQ!Height
    <2> HIDE DEF blocks
    <2>4. /\ Fields \subseteq DOMAIN m /\ m.needed = k.needed /\ m.last_response = k.last_response
          /\ m.up = "open"
      BY Zenon, <1>1, <1>2 DEF ContextOK, Fields, Forget
    <2> HIDE DEF m
    <2>5. ContextOK(c, m) /\ Woken(m, "add") /\ HandlerOK(m, "add")
      BY Zenon, <1>1, <2>4 DEF ContextOK, Woken, HandlerOK
    <2>6. Only(c, ctx, ctx', m) /\ Only(c, pc, pc', "add")
      BY Zenon, <1>1, <1>8, OnlyExcept
    <2>7. Moves(c, m, "add", Tail(net[c]))
      BY <1>1, <1>2, <1>3, <1>5, <1>6, <2>5, <2>6 DEF Moves, Locked
    <2> QED
      BY Zenon, <2>3, <2>7, MovesKeep
  <1> QED
    BY ZenonT(60), <1>4, <1>7, <1>8

(* A chain entry becomes the needed list, a run of the peer's chain.        *)
LEMMA ResponseChainEntryStep ==
    ASSUME SyncInv, NEW c \in Connections, ResponseChainEntry(c)
    PROVE  [BQ!Next]_queue /\ SyncInv'
  <1> DEFINE k == ctx[c]
             start == Head(net[c]).start
             end == Min({Len(Chain[c]), start + MaxIds - 1})
             ids == [i \in 1..end - start + 1 |-> Block(c, start + i - 1)]
             m == [k EXCEPT !.expect = "none", !.last_response = end, !.needed = ids,
                            !.handler = "entry", !.force = FALSE]
  <1>1. /\ DOMAIN ctx = Connections /\ DOMAIN pc = Connections /\ DOMAIN net = Connections
        /\ ContextOK(c, k) /\ net[c] \in Seq(Messages(c)) /\ Genesis \in known
    BY DEF SyncInv, OwnOK
  <1>2. /\ pc[c] = "wait" /\ k.up = "open" /\ lock' = lock /\ adding' = adding /\ known' = known
        /\ net' = [net EXCEPT ![c] = Tail(net[c])]
        /\ net[c] # <<>> /\ Head(net[c]).kind = "chain"
    BY Zenon DEF ResponseChainEntry, Ready
  <1>3. \A p : p \notin Locked => Locking(c, p)
    BY <1>2, LockOut DEF Locked
  <1>4. \/ Drop(c, FALSE) /\ pc' = pc
        \/ ctx' = [ctx EXCEPT ![c] = m] /\ pc' = [pc EXCEPT ![c] = "flush"] /\ queue' = queue
    BY Zenon DEF ResponseChainEntry, Set, Go
  <1>5. Head(net[c]) \in Messages(c) /\ Tail(net[c]) \in Seq(Messages(c))
    BY <1>1, <1>2
  <1>6. Only(c, net, net', Tail(net[c]))
    BY Zenon, <1>1, <1>2, OnlyExcept
  <1>9. start \in 0..Len(Chain[c])
    BY <1>2, <1>5 DEF Messages
  <1> HIDE DEF k, start
  <1>7. CASE Drop(c, FALSE) /\ pc' = pc
    <2>1. BQ!Next
      BY Zenon, <1>7, Dropped
    <2>2. PICK d : /\ Only(c, ctx, ctx', d) /\ ContextOK(c, d)
                   /\ \A p : Woken(d, p) /\ (p # "reset" => HandlerOK(d, p))
      BY Zenon, <1>7, Dropped
    <2>3. Only(c, pc, pc', "wait")
      BY Zenon, <1>1, <1>2, <1>7, OnlySame
    <2> QED
      BY Zenon, <1>1, <1>2, <1>3, <1>5, <1>6, <2>1, <2>2, <2>3, MovesKeep DEF Moves, Locked
  <1>8. CASE ctx' = [ctx EXCEPT ![c] = m] /\ pc' = [pc EXCEPT ![c] = "flush"] /\ queue' = queue
    <2>1. Len(Chain[c]) \in Nat /\ start \in Nat /\ MaxIds - 1 \in Nat \ {0} /\ MaxIds \in Int
      BY <1>9, ChainType, SyncAssumption
    <2>2. end \in start..Len(Chain[c])
      <3>1. start + MaxIds - 1 \in Nat /\ start + MaxIds - 1 >= start
        BY <2>1
      <3> QED
        BY <1>9, <2>1, <3>1, MinIs
    <2> HIDE DEF end
    <2>3. ids = Run(c, start, end)
      <3>1. end - start + 1 = (end - start) + 1
            /\ \A i \in 1..end - start + 1 : start + i - 1 = (start + i) - 1
        BY <2>1, <2>2
      <3> QED
        BY Zenon, <3>1 DEF Run
    <2>4. end \in 0..Len(Chain[c]) /\ start \in 0..end + 1
      BY <2>1, <2>2
    <2> HIDE DEF ids
    <2>5. /\ Fields \subseteq DOMAIN m /\ m.needed = ids /\ m.last_response = end /\ m.up = "open"
      BY Zenon, <1>1, <1>2 DEF ContextOK, Fields
    <2> HIDE DEF m
    <2>6. ContextOK(c, m) /\ Woken(m, "flush") /\ HandlerOK(m, "flush")
      BY Zenon, <2>3, <2>4, <2>5 DEF ContextOK, Listed, Woken, HandlerOK
    <2>7. Only(c, ctx, ctx', m) /\ Only(c, pc, pc', "flush")
      BY Zenon, <1>1, <1>8, OnlyExcept
    <2>8. Moves(c, m, "flush", Tail(net[c]))
      BY <1>1, <1>2, <1>3, <1>5, <1>6, <2>6, <2>7 DEF Moves, Locked
    <2> QED
      BY Zenon, <1>8, <2>8, MovesKeep
  <1> QED
    BY Zenon, <1>4, <1>7, <1>8

-----------------------------------------------------------------------------
(* A step at where in a handler, which changes fields that no conjunct of   *)
(* the invariant is about, or empties the needed list.                      *)
LEMMA HandlerMoves ==
    ASSUME SyncInv, NEW c \in Connections, NEW m, NEW p,
           Only(c, ctx, ctx', m), pc' = [pc EXCEPT ![c] = p], net' = net, Genesis \in known',
           Fields \subseteq DOMAIN m, Listed(c, m.needed, m.last_response), m.up # "closed",
           p \notin {"wait", "reset"}, Locking(c, p)
    PROVE  SyncInv'
  <1>1. DOMAIN pc = Connections /\ DOMAIN net = Connections /\ net[c] \in Seq(Messages(c))
    BY DEF SyncInv, OwnOK
  <1>2. Only(c, pc, pc', p) /\ Only(c, net, net', net[c])
    BY Zenon, <1>1, OnlyExcept, OnlySame
  <1>3. ContextOK(c, m) /\ Woken(m, p) /\ HandlerOK(m, p)
    BY Zenon DEF ContextOK, Woken, HandlerOK
  <1>4. Moves(c, m, p, net[c])
    BY Zenon, <1>1, <1>2, <1>3 DEF Moves
  <1> QED
    BY Zenon, <1>4, MovesKeep

(* What the invariant says of a handler that runs.                          *)
LEMMA AtOK ==
    ASSUME SyncInv, NEW c \in Connections
    PROVE  /\ DOMAIN ctx = Connections /\ DOMAIN pc = Connections /\ Genesis \in known
           /\ Fields \subseteq DOMAIN ctx[c] /\ Listed(c, ctx[c].needed, ctx[c].last_response)
           /\ pc[c] \in Locked => lock = c
           /\ pc[c] \in {"handle", "remove"} => Taken
           /\ None # c
  BY SyncAssumption DEF SyncInv, OwnOK, ContextOK

(* The steps of try_add_next_blocks.                                        *)
LEMMA TryLockStep ==
    ASSUME SyncInv, NEW c \in Connections, TryLock(c)
    PROVE  queue' = queue /\ SyncInv'
  <1> DEFINE k == ctx[c]
             m == [k EXCEPT !.force = FALSE]
  <1>1. /\ pc[c] = "add" /\ k.up # "closed" /\ queue' = queue /\ net' = net /\ known' = known
        /\ adding' = adding
    BY DEF TryLock, At
  <1>2. \/ lock = None /\ lock' = c /\ pc' = [pc EXCEPT ![c] = "next"] /\ ctx' = ctx
        \/ lock' = lock /\ pc' = [pc EXCEPT ![c] = "flush"] /\ ctx' = [ctx EXCEPT ![c] = m]
    BY DEF TryLock, TryToLock, Set, Go
  <1>3. CASE lock = None /\ lock' = c /\ pc' = [pc EXCEPT ![c] = "next"] /\ ctx' = ctx
    <2>1. Locking(c, "next")
      BY Zenon, <1>3 DEF Locking
    <2>2. Only(c, ctx, ctx', k)
      BY Zenon, <1>3, AtOK, OnlySame
    <2> QED
      BY Zenon, <1>1, <1>3, <2>1, <2>2, AtOK, HandlerMoves
  <1>4. CASE lock' = lock /\ pc' = [pc EXCEPT ![c] = "flush"] /\ ctx' = [ctx EXCEPT ![c] = m]
    <2>1. Locking(c, "flush")
      BY <1>1, <1>4, LockOut DEF Locked
    <2>2. /\ Fields \subseteq DOMAIN m /\ m.needed = k.needed /\ m.last_response = k.last_response
          /\ m.up # "closed"
      BY Zenon, <1>1, AtOK DEF Fields
    <2> HIDE DEF m
    <2>3. Only(c, ctx, ctx', m)
      BY Zenon, <1>4, AtOK, OnlyExcept
    <2> QED
      BY Zenon, <1>1, <1>4, <2>1, <2>2, <2>3, AtOK, HandlerMoves
  <1> QED
    BY Zenon, <1>1, <1>2, <1>3, <1>4

(* Back to downloading, with context k but for force_next_span.             *)
LEMMA BackStep ==
    ASSUME SyncInv, NEW c \in Connections, NEW k, NEW b, pc[c] \in Locked, lock' = None,
           ctx' = [ctx EXCEPT ![c] = [k EXCEPT !.force = b]], pc' = [pc EXCEPT ![c] = "flush"],
           net' = net, known' = known, k.up # "closed",
           Fields \subseteq DOMAIN k, Listed(c, k.needed, k.last_response)
    PROVE  SyncInv'
  <1> DEFINE m == [k EXCEPT !.force = b]
  <1>1. Locking(c, "flush")
    BY DEF Locking, Locked
  <1>2. /\ Fields \subseteq DOMAIN m /\ m.needed = k.needed /\ m.last_response = k.last_response
        /\ m.up # "closed"
    BY DEF Fields
  <1>3. DOMAIN ctx = Connections
    BY DEF SyncInv
  <1>4. Only(c, ctx, ctx', m)
    BY Zenon, <1>3, OnlyExcept
  <1> HIDE DEF m
  <1> QED
    BY Zenon, <1>1, <1>2, <1>4, AtOK, HandlerMoves

LEMMA LookAtSpanStep ==
    ASSUME SyncInv, QueueOK(queue), NEW c \in Connections, LookAtSpan(c)
    PROVE  [BQ!Next]_queue /\ SyncInv'
  <1> DEFINE k == ctx[c]
             j == [k EXCEPT !.needed = <<>>, !.last_response = 0]
  <1>1. /\ pc[c] = "next" /\ k.up # "closed" /\ net' = net /\ known' = known
        /\ pc[c] \in Locked /\ lock = c
    BY AtOK DEF LookAtSpan, At, Locked
  <1>2. PICK s \in BQ!get_next_span(queue) :
          \/ /\ queue' = BQ!remove_spans(queue, s.conn, s.start)
             /\ ctx' = ctx /\ pc' = pc /\ lock' = lock /\ adding' = adding
          \/ BackToDownload(c, k) /\ queue' = queue
          \/ BackToDownload(c, j) /\ queue' = BQ!remove_spans(queue, s.conn, s.start)
          \/ /\ pc' = [pc EXCEPT ![c] = "handle"] /\ adding' = s
             /\ queue' = queue /\ ctx' = ctx /\ lock' = lock
          \/ pc' = [pc EXCEPT ![c] = "stop"] /\ queue' = queue /\ ctx' = ctx /\ lock' = lock
    BY Zenon DEF LookAtSpan, Go
  <1>3. s.conn \in Connections /\ s.start \in 1..Len(Chain[s.conn])
    BY Zenon, <1>2 DEF QueueOK, BQ!get_next_span
  <1>4. Only(c, ctx, ctx, k) /\ Only(c, pc, pc, pc[c]) /\ Only(c, net, net, net[c])
    BY OnlySame DEF SyncInv
  <1>5. CASE /\ queue' = BQ!remove_spans(queue, s.conn, s.start)
             /\ ctx' = ctx /\ pc' = pc /\ lock' = lock /\ adding' = adding
    <2>1. BQ!Next
      BY ZenonT(60), <1>3, <1>5, RemoveStep
    <2>2. Locking(c, pc[c])
      BY Zenon, <1>5, LockSame
    <2>3. Moves(c, k, pc[c], net[c])
      BY Zenon, <1>1, <1>4, <1>5, <2>2 DEF Moves, SyncInv, OwnOK
    <2> QED
      BY Zenon, <2>1, <2>3, MovesKeep
  <1>6. CASE BackToDownload(c, k) /\ queue' = queue
    <2>1. SyncInv'
      BY Zenon, <1>1, <1>6, AtOK, BackStep DEF BackToDownload, Set, Go
    <2> QED
      BY Zenon, <1>6, <2>1
  <1>7. CASE BackToDownload(c, j) /\ queue' = BQ!remove_spans(queue, s.conn, s.start)
    <2>1. BQ!Next
      BY Zenon, <1>3, <1>7, RemoveStep
    <2>2. /\ Fields \subseteq DOMAIN j /\ j.needed = <<>> /\ j.last_response = 0
          /\ j.up # "closed"
      BY Zenon, <1>1, AtOK DEF Fields
    <2> HIDE DEF j
    <2>3. Listed(c, j.needed, j.last_response)
      BY <2>2, ChainType, Unlisted
    <2>4. SyncInv'
      BY Zenon, <1>1, <1>7, <2>2, <2>3, BackStep DEF BackToDownload, Set, Go
    <2> QED
      BY Zenon, <2>1, <2>4
  <1>8. CASE /\ pc' = [pc EXCEPT ![c] = "handle"] /\ adding' = s
             /\ queue' = queue /\ ctx' = ctx /\ lock' = lock
    <2>1. Locking(c, "handle")
      BY Zenon, <1>1, <1>3, <1>8 DEF Locking, Taken
    <2>2. SyncInv'
      BY Zenon, <1>1, <1>4, <1>8, <2>1, AtOK, HandlerMoves
    <2> QED
      BY Zenon, <1>8, <2>2
  <1>9. CASE pc' = [pc EXCEPT ![c] = "stop"] /\ queue' = queue /\ ctx' = ctx /\ lock' = lock
    <2>1. Locking(c, "stop")
      BY Zenon, <1>1, <1>9 DEF Locking
    <2>2. SyncInv'
      BY Zenon, <1>1, <1>4, <1>9, <2>1, AtOK, HandlerMoves
    <2> QED
      BY Zenon, <1>9, <2>2
  <1> QED
    BY ZenonT(60), <1>2, <1>5, <1>6, <1>7, <1>8, <1>9

LEMMA NoSpanLeftStep ==
    ASSUME SyncInv, NEW c \in Connections, NoSpanLeft(c)
    PROVE  queue' = queue /\ SyncInv'
  <1>1. /\ pc[c] = "next" /\ ctx[c].up # "closed" /\ net' = net /\ known' = known /\ ctx' = ctx
        /\ pc[c] \in Locked /\ lock = c /\ lock' = lock /\ queue' = queue
        /\ pc' = [pc EXCEPT ![c] = "stop"]
    BY Zenon, AtOK DEF NoSpanLeft, At, Go, Locked
  <1>2. Only(c, ctx, ctx', ctx[c])
    BY Zenon, <1>1, AtOK, OnlySame
  <1>3. Locking(c, "stop")
    BY <1>1 DEF Locking
  <1> QED
    BY Zenon, <1>1, <1>2, <1>3, AtOK, HandlerMoves

LEMMA RemoveAddedStep ==
    ASSUME SyncInv, NEW c \in Connections, RemoveAdded(c)
    PROVE  BQ!Next /\ SyncInv'
  <1>1. /\ pc[c] = "remove" /\ ctx[c].up # "closed" /\ net' = net /\ known' = known /\ ctx' = ctx
        /\ pc[c] \in Locked /\ lock = c /\ lock' = lock /\ Taken
        /\ pc' = [pc EXCEPT ![c] = "next"]
        /\ queue' = BQ!remove_spans(queue, adding.conn, adding.start)
    BY Zenon, AtOK DEF RemoveAdded, At, Go, Locked
  <1>2. Only(c, ctx, ctx', ctx[c])
    BY Zenon, <1>1, AtOK, OnlySame
  <1>3. Locking(c, "next")
    BY <1>1 DEF Locking
  <1>4. BQ!Next
    BY Zenon, <1>1, RemoveStep DEF Taken
  <1>5. SyncInv'
    BY Zenon, <1>1, <1>2, <1>3, AtOK, HandlerMoves
  <1> QED
    BY Zenon, <1>4, <1>5

LEMMA StopAddingStep ==
    ASSUME SyncInv, NEW c \in Connections, StopAdding(c)
    PROVE  queue' = queue /\ SyncInv'
  <1>1. /\ pc[c] \in Locked /\ ctx[c].up # "closed" /\ net' = net /\ known' = known
        /\ lock' = None /\ queue' = queue /\ pc' = [pc EXCEPT ![c] = "flush"]
    BY DEF StopAdding, At, Go, Locked
  <1>2. PICK f : ctx' = [ctx EXCEPT ![c] = [ctx[c] EXCEPT !.force = f]]
    BY Zenon DEF StopAdding, Set
  <1> QED
    BY ZenonT(60), <1>1, <1>2, AtOK, BackStep

LEMMA FlushStaleStep ==
    ASSUME SyncInv, NEW c \in Connections, FlushStale(c)
    PROVE  BQ!Next /\ SyncInv'
  <1> DEFINE p == IF ctx[c].force THEN "request" ELSE "pace"
  <1>1. /\ pc[c] = "flush" /\ ctx[c].up # "closed" /\ net' = net /\ known' = known /\ ctx' = ctx
        /\ lock' = lock /\ adding' = adding /\ pc' = [pc EXCEPT ![c] = p]
        /\ queue' = BQ!flush_stale_spans(queue, Live)
    BY DEF FlushStale, At, Go
  <1>2. BQ!Next
    BY Zenon, <1>1 DEF BQ!Next, BQ!FlushStaleSpans, Live
  <1>3. p \in {"request", "pace"}
    BY Zenon
  <1> HIDE DEF p
  <1>4. Only(c, ctx, ctx', ctx[c])
    BY Zenon, <1>1, AtOK, OnlySame
  <1>5. Locking(c, p)
    BY Zenon, <1>1, <1>3, LockOut DEF Locked
  <1>6. SyncInv'
    BY Zenon, <1>1, <1>3, <1>4, <1>5, AtOK, HandlerMoves
  <1> QED
    BY <1>2, <1>6

(* A connection all of whose spans are flushed has no span left to remove.  *)
LEMMA FlushedHasNone ==
    ASSUME NEW q, NEW d, NEW h
    PROVE  BQ!remove_spans(BQ!flush_spans(q, d, TRUE), d, h) = BQ!flush_spans(q, d, TRUE)
  <1> DEFINE S == {s \in q.blocks : s.conn = d}
             f == BQ!erase_block(q, S)
  <1>1. BQ!flush_spans(q, d, TRUE) = f
    BY Zenon DEF BQ!flush_spans
  <1>2. {s \in f.blocks : s.conn = d /\ s.start <= h} = {}
    BY DEF BQ!erase_block
  <1>3. BQ!HashesOf({}) = {}
    BY DEF BQ!HashesOf
  <1>4. BQ!erase_block(f, {}) = f
    <2>1. f = [blocks |-> f.blocks, requested |-> f.requested, have |-> f.have]
      BY DEF BQ!erase_block
    <2> HIDE DEF f
    <2> QED
      BY Zenon, <1>3, <2>1 DEF BQ!erase_block
  <1> HIDE DEF f
  <1> QED
    BY Zenon, <1>1, <1>2, <1>4 DEF BQ!remove_spans

(* The end of a span that failed: c's handler ends, and d is dropped.       *)
LEMMA SpanFailedStep ==
    ASSUME SyncInv, NEW c \in Connections, NEW d \in Connections, pc[c] = "handle",
           ctx[c].up # "closed", net' = net, Genesis \in known', lock' = None,
           pc' = [pc EXCEPT ![c] = "wait"],
           ctx' = [e \in Connections |->
                     LET k == IF e = c THEN [Locals(ctx[c]) EXCEPT !.idle = TRUE] ELSE ctx[e]
                     IN  IF e = d /\ e \in Live THEN [k EXCEPT !.up = "dropped"] ELSE k]
    PROVE  SyncInv'
  <1> DEFINE k == ctx[c]
             j == [Locals(k) EXCEPT !.idle = TRUE]
             m == IF c = d /\ c \in Live THEN [j EXCEPT !.up = "dropped"] ELSE j
  <1>1. /\ DOMAIN ctx = Connections /\ DOMAIN pc = Connections /\ DOMAIN net = Connections
        /\ OwnOK(c)
    BY DEF SyncInv
  <1>2. Locking(c, "wait")
    BY DEF Locking, Locked
  <1>3. ctx'[c] = m /\ DOMAIN ctx' = Connections
    OBVIOUS
  <1>4. /\ Fields \subseteq DOMAIN m /\ m.needed = k.needed /\ m.last_response = k.last_response
        /\ m.idle = TRUE /\ m.up # "closed"
    <2>1. Fields \subseteq DOMAIN k /\ k.up # "closed"
      BY <1>1 DEF OwnOK, ContextOK
    <2> HIDE DEF k
    <2>2. /\ Fields \subseteq DOMAIN j /\ j.needed = k.needed /\ j.last_response = k.last_response
          /\ j.idle = TRUE /\ j.up # "closed"
      BY <2>1 DEF Fields, Locals
    <2> HIDE DEF j
    <2> QED
      BY <2>2 DEF Fields
  <1> HIDE DEF m
  <1>5. OwnOK(c)'
    <2>1. pc'[c] = "wait" /\ net'[c] = net[c]
      BY <1>1
    <2>2. ContextOK(c, m) /\ Woken(m, "wait") /\ HandlerOK(m, "wait")
      BY Zenon, <1>1, <1>4 DEF OwnOK, ContextOK, Woken, HandlerOK
    <2> QED
      BY Zenon, <1>1, <1>3, <2>1, <2>2 DEF OwnOK, Locked
  <1>6. ASSUME NEW e \in Connections, e # c PROVE OwnOK(e)'
    <2>1. pc'[e] = pc[e] /\ net'[e] = net[e]
      BY Zenon, <1>1, <1>6
    <2>2. ctx'[e] = ctx[e] \/ ctx'[e] = [ctx[e] EXCEPT !.up = "dropped"]
      BY <1>6
    <2> QED
      BY Zenon, <1>2, <1>6, <2>1, <2>2, OthersKept
  <1>7. DOMAIN pc' = Connections /\ DOMAIN net' = Connections
    BY <1>1
  <1> QED
    BY Zenon, <1>3, <1>5, <1>6, <1>7 DEF SyncInv

(* Only the peer that sent a wrong block is dropped; the handler that met   *)
(* it ends, whichever it is.                                                *)
LEMMA HandleSpanStep ==
    ASSUME SyncInv, NEW c \in Connections, HandleSpan(c)
    PROVE  [BQ!Next]_queue /\ SyncInv'
  <1> DEFINE d == adding.conn
             f == BQ!flush_spans(queue, d, TRUE)
             q == IF d \in Live THEN f ELSE queue
  <1>1. /\ pc[c] = "handle" /\ ctx[c].up # "closed" /\ net' = net /\ known \subseteq known'
        /\ pc[c] \in Locked
    BY Zenon DEF HandleSpan, At, Locked
  <1>2. lock = c /\ Taken /\ d \in Connections /\ Genesis \in known'
    BY Zenon, <1>1, AtOK DEF Taken
  <1>3. \/ /\ pc' = [pc EXCEPT ![c] = "remove"] /\ queue' = queue /\ ctx' = ctx /\ lock' = lock
           /\ adding' = adding
        \/ \/ SpanFailed(c, q)
           \/ SpanFailed(c, BQ!remove_spans(q, d, adding.start))
    BY Zenon DEF HandleSpan, Go
  <1>4. CASE /\ pc' = [pc EXCEPT ![c] = "remove"] /\ queue' = queue /\ ctx' = ctx /\ lock' = lock
             /\ adding' = adding
    <2>1. Locking(c, "remove")
      BY Zenon, <1>1, <1>2, <1>4 DEF Locking, Taken
    <2>2. Only(c, ctx, ctx', ctx[c])
      BY Zenon, <1>4, AtOK, OnlySame
    <2>3. SyncInv'
      BY Zenon, <1>1, <1>2, <1>4, <2>1, <2>2, AtOK, HandlerMoves
    <2> QED
      BY Zenon, <1>4, <2>3
  <1>5. CASE SpanFailed(c, q) \/ SpanFailed(c, BQ!remove_spans(q, d, adding.start))
    <2>1. queue' = queue \/ queue' = f \/ queue' = BQ!remove_spans(queue, d, adding.start)
      BY Zenon, <1>5, FlushedHasNone DEF SpanFailed
    <2>2. [BQ!Next]_queue
      BY Zenon, <1>2, <2>1, FlushStep, RemoveStep DEF Taken
    <2>3. /\ ctx' = [e \in Connections |->
                      LET k == IF e = c THEN [Locals(ctx[c]) EXCEPT !.idle = TRUE] ELSE ctx[e]
                      IN  IF e = d /\ e \in Live THEN [k EXCEPT !.up = "dropped"] ELSE k]
          /\ lock' = None /\ pc' = [pc EXCEPT ![c] = "wait"]
      BY Zenon, <1>5 DEF SpanFailed, Go
    <2>4. SyncInv'
      BY Zenon, <1>1, <1>2, <2>3, SpanFailedStep
    <2> QED
      BY Zenon, <2>2, <2>4
  <1> QED
    BY Zenon, <1>3, <1>4, <1>5

(* A handler that returns, with the requests n.                             *)
LEMMA ReturnStep ==
    ASSUME SyncInv, NEW c \in Connections, NEW k, Return(c, k), ContextOK(c, k), k.up # "closed",
           k.state # "synchronizing" \/ k.expect # "none", pc[c] \notin Locked, lock' = lock,
           adding' = adding, known' = known, NEW n \in Seq(Messages(c)), Only(c, net, net', n)
    PROVE  queue' = queue /\ SyncInv'
  <1> DEFINE j == [k EXCEPT !.asked = @ /\ k.handler # "entry"]
             m == Locals(j)
  <1>1. /\ ctx' = [ctx EXCEPT ![c] = m] /\ pc' = [pc EXCEPT ![c] = "wait"] /\ queue' = queue
    BY Zenon DEF Return, Set, Go
  <1>2. /\ Fields \subseteq DOMAIN j /\ j.needed = k.needed /\ j.last_response = k.last_response
        /\ j.state = k.state /\ j.expect = k.expect /\ j.up = k.up
    BY DEF ContextOK, Fields
  <1> HIDE DEF j
  <1>3. /\ Fields \subseteq DOMAIN m /\ m.needed = k.needed /\ m.last_response = k.last_response
        /\ m.state = k.state /\ m.expect = k.expect /\ m.up = k.up
    BY Zenon, <1>2 DEF Fields, Locals
  <1> HIDE DEF m
  <1>4. ContextOK(c, m) /\ Woken(m, "wait") /\ HandlerOK(m, "wait")
    BY Zenon, <1>3 DEF ContextOK, Woken, HandlerOK
  <1>5. DOMAIN ctx = Connections /\ DOMAIN pc = Connections /\ Genesis \in known'
    BY DEF SyncInv
  <1>6. Only(c, ctx, ctx', m) /\ Only(c, pc, pc', "wait")
    BY Zenon, <1>1, <1>5, OnlyExcept
  <1>7. Locking(c, "wait")
    BY LockOut DEF Locked
  <1>8. Moves(c, m, "wait", n)
    BY Zenon, <1>4, <1>5, <1>6, <1>7 DEF Moves
  <1> QED
    BY Zenon, <1>1, <1>8, MovesKeep

(* A handler that fails drops its connection.                               *)
LEMMA FailStep ==
    ASSUME SyncInv, NEW c \in Connections, Fail(c), pc[c] \notin Locked, lock' = lock,
           adding' = adding, known' = known, net' = net
    PROVE  BQ!Next /\ SyncInv'
  <1>1. Drop(c, FALSE) /\ pc' = [pc EXCEPT ![c] = "wait"]
    BY Zenon DEF Fail, Go
  <1>2. BQ!Next
    BY Zenon, <1>1, Dropped
  <1>3. PICK d : /\ Only(c, ctx, ctx', d) /\ ContextOK(c, d)
                 /\ \A p : Woken(d, p) /\ (p # "reset" => HandlerOK(d, p))
    BY Zenon, <1>1, Dropped
  <1>4. /\ DOMAIN pc = Connections /\ DOMAIN net = Connections /\ Genesis \in known'
        /\ net[c] \in Seq(Messages(c))
    BY DEF SyncInv, OwnOK
  <1>5. Only(c, pc, pc', "wait") /\ Only(c, net, net', net[c])
    BY Zenon, <1>1, <1>4, OnlyExcept, OnlySame
  <1>6. Locking(c, "wait")
    BY LockOut DEF Locked
  <1>7. Moves(c, d, "wait", net[c])
    BY <1>3, <1>4, <1>5, <1>6 DEF Moves
  <1> QED
    BY Zenon, <1>2, <1>7, MovesKeep

-----------------------------------------------------------------------------
(* The steps of request_missing_objects, from here on.                      *)
LEMMA NetSame ==
    ASSUME SyncInv, NEW c \in Connections, net' = net
    PROVE  net[c] \in Seq(Messages(c)) /\ Only(c, net, net', net[c])
  BY OnlySame DEF SyncInv, OwnOK

LEMMA NothingToGetStep ==
    ASSUME SyncInv, NEW c \in Connections, NEW k, NothingToGet(c, k), ContextOK(c, k),
           k.up # "closed", pc[c] \notin Locked, lock' = lock, adding' = adding, known' = known,
           net' = net
    PROVE  [BQ!Next]_queue /\ SyncInv'
  <1> DEFINE j == [k EXCEPT !.state = "normal"]
  <1>1. Fail(c) \/ Return(c, j)
    BY Zenon DEF NothingToGet
  <1>2. CASE Fail(c)
    <2>1. BQ!Next /\ SyncInv'
      BY Zenon, <1>2, FailStep
    <2> QED
      BY Zenon, <2>1
  <1>3. CASE Return(c, j)
    <2>1. /\ Fields \subseteq DOMAIN j /\ j.needed = k.needed /\ j.last_response = k.last_response
          /\ j.state = "normal" /\ j.up = k.up
      BY Zenon DEF ContextOK, Fields
    <2> HIDE DEF j
    <2>2. ContextOK(c, j) /\ j.state # "synchronizing" /\ j.up # "closed"
      BY <2>1 DEF ContextOK
    <2>3. queue' = queue /\ SyncInv'
      BY Zenon, <1>3, <2>2, NetSame, ReturnStep
    <2> QED
      BY Zenon, <2>3
  <1> QED
    BY Zenon, <1>1, <1>2, <1>3

(* The objects of a span are asked for.                                     *)
LEMMA SendObjectsStep ==
    ASSUME SyncInv, NEW c \in Connections, NEW k, NEW start, NEW hashes, NEW q,
           SendObjects(c, k, start, hashes, q), ContextOK(c, k), k.up # "closed",
           \E h \in Nat : Piece(h, hashes), pc[c] \notin Locked, lock' = lock,
           adding' = adding, known' = known
    PROVE  queue' = q /\ SyncInv'
  <1> DEFINE j == [k EXCEPT !.requested = @ \cup Range(hashes), !.expect = "objects",
                            !.expect_height = start, !.asked = k.handler # "entry"]
             m == Locals(j)
             x == [kind |-> "objects", hashes |-> hashes]
             n == Append(net[c], x)
  <1>1. /\ ctx' = [ctx EXCEPT ![c] = m] /\ pc' = [pc EXCEPT ![c] = "wait"] /\ queue' = q
        /\ net' = [net EXCEPT ![c] = n]
    BY Zenon DEF SendObjects, Set, Go
  <1>2. /\ Fields \subseteq DOMAIN j /\ j.needed = k.needed /\ j.last_response = k.last_response
        /\ j.expect = "objects" /\ j.up = k.up
    BY DEF ContextOK, Fields
  <1> HIDE DEF j
  <1>3. /\ Fields \subseteq DOMAIN m /\ m.needed = k.needed /\ m.last_response = k.last_response
        /\ m.expect = "objects" /\ m.up = k.up
    BY Zenon, <1>2 DEF Fields, Locals
  <1> HIDE DEF m
  <1>4. ContextOK(c, m) /\ Woken(m, "wait") /\ HandlerOK(m, "wait")
    BY Zenon, <1>3 DEF ContextOK, Woken, HandlerOK
  <1>5. /\ DOMAIN ctx = Connections /\ DOMAIN pc = Connections /\ DOMAIN net = Connections
        /\ Genesis \in known' /\ net[c] \in Seq(Messages(c))
    BY DEF SyncInv, OwnOK
  <1>6. x \in Messages(c)
    <2>1. hashes \in Seq(Hashes)
      BY Zenon DEF Piece
    <2> QED
      BY Zenon, <2>1 DEF Messages
  <1>7. n \in Seq(Messages(c))
    <2> HIDE DEF x
    <2> QED
      BY <1>5, <1>6
  <1> HIDE DEF n
  <1>8. Only(c, ctx, ctx', m) /\ Only(c, pc, pc', "wait") /\ Only(c, net, net', n)
    BY Zenon, <1>1, <1>5, OnlyExcept
  <1>9. Locking(c, "wait")
    BY LockOut DEF Locked
  <1>10. Moves(c, m, "wait", n)
    BY ZenonT(60), <1>4, <1>5, <1>7, <1>8, <1>9 DEF Moves
  <1> QED
    BY Zenon, <1>1, <1>10, MovesKeep

(* With nothing reserved a handler asks for the chain, pauses, or is done.  *)
LEMMA NoObjectsStep ==
    ASSUME Numbers, SyncInv, NEW c \in Connections, NEW l, NoObjects(c, l),
           Fields \subseteq DOMAIN l,
           l.last_response \in 0..Len(Chain[c]), l.up # "closed", pc[c] \notin Locked,
           lock' = lock, adding' = adding, known' = known
    PROVE  [BQ!Next]_queue /\ SyncInv'
  <1> DEFINE k == [l EXCEPT !.needed = <<>>]
             top == IF main = <<>> THEN Genesis ELSE Last(main)
             from == IF k.last_known = top THEN None ELSE k.last_known
             k1 == [k EXCEPT !.state = "standby", !.callback = TRUE]
             k2 == [k EXCEPT !.expect = "chain",
                             !.expect_height = IF from = None THEN CurrentHeight ELSE AnyHeight]
             k3 == [k EXCEPT !.state = "normal"]
  <1>1. \/ Return(c, k1) /\ net' = net
        \/ Return(c, k2) /\ net' = [net EXCEPT ![c] = Append(@, ChainRequest(c, from))]
        \/ Return(c, k3) /\ net' = net
        \/ Fail(c) /\ net' = net
    BY Zenon DEF NoObjects
  <1>2. /\ Fields \subseteq DOMAIN k /\ k.needed = <<>> /\ k.last_response = l.last_response
        /\ k.up = l.up
    BY Zenon DEF Fields
  <1> HIDE DEF from
  <1> HIDE DEF k
  <1>3. Listed(c, k.needed, k.last_response)
    BY Zenon, <1>2, Unlisted
  <1>4. CASE Return(c, k1) /\ net' = net
    <2>1. /\ Fields \subseteq DOMAIN k1 /\ k1.needed = k.needed /\ k1.up = k.up
          /\ k1.last_response = k.last_response /\ k1.state = "standby"
      BY Zenon, <1>2 DEF Fields
    <2> HIDE DEF k1
    <2>2. ContextOK(c, k1) /\ k1.state # "synchronizing" /\ k1.up # "closed"
      BY Zenon, <1>2, <1>3, <2>1 DEF ContextOK
    <2> QED
      BY Zenon, <1>4, <2>2, NetSame, ReturnStep
  <1>5. CASE Return(c, k2) /\ net' = [net EXCEPT ![c] = Append(@, ChainRequest(c, from))]
    <2> DEFINE n == Append(net[c], ChainRequest(c, from))
    <2>1. /\ Fields \subseteq DOMAIN k2 /\ k2.needed = k.needed /\ k2.up = k.up
          /\ k2.last_response = k.last_response /\ k2.expect = "chain"
      BY Zenon, <1>2 DEF Fields
    <2> HIDE DEF k2
    <2>2. ContextOK(c, k2) /\ k2.expect # "none" /\ k2.up # "closed"
      BY Zenon, <1>2, <1>3, <2>1 DEF ContextOK
    <2>3. DOMAIN net = Connections /\ net[c] \in Seq(Messages(c))
      BY Zenon DEF SyncInv, OwnOK
    <2>4. n \in Seq(Messages(c))
      BY <2>3, ChainRequestOK
    <2>5. net' = [net EXCEPT ![c] = n]
      BY Zenon, <1>5, <2>3
    <2> HIDE DEF n
    <2>6. Only(c, net, net', n)
      BY Zenon, <2>3, <2>5, OnlyExcept
    <2> QED
      BY Zenon, <1>5, <2>2, <2>4, <2>6, ReturnStep
  <1>6. CASE Return(c, k3) /\ net' = net
    <2>1. /\ Fields \subseteq DOMAIN k3 /\ k3.needed = k.needed /\ k3.up = k.up
          /\ k3.last_response = k.last_response /\ k3.state = "normal"
      BY Zenon, <1>2 DEF Fields
    <2> HIDE DEF k3
    <2>2. ContextOK(c, k3) /\ k3.state # "synchronizing" /\ k3.up # "closed"
      BY Zenon, <1>2, <1>3, <2>1 DEF ContextOK
    <2> QED
      BY Zenon, <1>6, <2>2, NetSame, ReturnStep
  <1>7. CASE Fail(c) /\ net' = net
    BY Zenon, <1>7, FailStep
  <1> QED
    BY Zenon, <1>1, <1>4, <1>5, <1>6, <1>7

(* Pacing: the queue is full, or another span is to be waited for.          *)
LEMMA PaceStep ==
    ASSUME Numbers, SyncInv, NEW c \in Connections, Pace(c)
    PROVE  [BQ!Next]_queue /\ SyncInv'
  <1> DEFINE k == skip_unneeded_hashes(ctx[c], TRUE)
             k1 == [k EXCEPT !.state = "standby", !.callback = TRUE]
             k2 == [k EXCEPT !.state = "standby"]
  <1>1. /\ pc[c] = "pace" /\ ctx[c].up # "closed" /\ net' = net /\ known' = known /\ lock' = lock
        /\ adding' = adding /\ pc[c] \notin Locked
    BY Zenon DEF Pace, At, Locked
  <1>2. \/ NothingToGet(c, k)
        \/ /\ \E f : ctx' = [ctx EXCEPT ![c] = [k EXCEPT !.state = "synchronizing", !.force = f]]
           /\ pc' = [pc EXCEPT ![c] = "request"] /\ queue' = queue
        \/ Return(c, k1)
        \/ Fail(c)
        \/ Return(c, k2)
    BY Zenon DEF Pace, Set, Go
  <1>3. ContextOK(c, ctx[c]) /\ Genesis \in known
    BY DEF SyncInv, OwnOK
  <1>4. ContextOK(c, k) /\ k.up # "closed"
    BY Zenon, <1>1, <1>3, SkipIs
  <1> HIDE DEF k
  <1>5. CASE NothingToGet(c, k)
    BY Zenon, <1>1, <1>4, <1>5, NothingToGetStep
  <1>6. ASSUME NEW b, ctx' = [ctx EXCEPT ![c] = [k EXCEPT !.state = "synchronizing", !.force = b]],
               pc' = [pc EXCEPT ![c] = "request"], queue' = queue
        PROVE  SyncInv'
    <2> DEFINE m == [k EXCEPT !.state = "synchronizing", !.force = b]
    <2>1. /\ Fields \subseteq DOMAIN m /\ m.needed = k.needed /\ m.last_response = k.last_response
          /\ m.up = k.up
      BY <1>4 DEF ContextOK, Fields
    <2>2. Only(c, ctx, ctx', m)
      BY Zenon, <1>6, AtOK, OnlyExcept
    <2> HIDE DEF m
    <2>3. Locking(c, "request")
      BY <1>1, LockOut DEF Locked
    <2>4. Listed(c, m.needed, m.last_response) /\ m.up # "closed"
      BY Zenon, <1>4, <2>1 DEF ContextOK
    <2>5. Genesis \in known'
      BY Zenon, <1>1, <1>3
    <2> QED
      BY Zenon, <1>1, <1>6, <2>1, <2>2, <2>3, <2>4, <2>5, HandlerMoves
  <1>7. CASE Return(c, k1)
    <2>1. /\ Fields \subseteq DOMAIN k1 /\ k1.needed = k.needed /\ k1.up = k.up
          /\ k1.last_response = k.last_response /\ k1.state = "standby"
      BY Zenon, <1>4 DEF ContextOK, Fields
    <2> HIDE DEF k1
    <2>2. ContextOK(c, k1) /\ k1.state # "synchronizing" /\ k1.up # "closed"
      BY Zenon, <1>4, <2>1 DEF ContextOK
    <2> QED
      BY Zenon, <1>1, <1>7, <2>2, NetSame, ReturnStep
  <1>8. CASE Return(c, k2)
    <2>1. /\ Fields \subseteq DOMAIN k2 /\ k2.needed = k.needed /\ k2.up = k.up
          /\ k2.last_response = k.last_response /\ k2.state = "standby"
      BY Zenon, <1>4 DEF ContextOK, Fields
    <2> HIDE DEF k2
    <2>2. ContextOK(c, k2) /\ k2.state # "synchronizing" /\ k2.up # "closed"
      BY <1>4, <2>1 DEF ContextOK
    <2> QED
      BY Zenon, <1>1, <1>8, <2>2, NetSame, ReturnStep
  <1>9. CASE Fail(c)
    BY Zenon, <1>1, <1>9, FailStep
  <1> QED
    BY Zenon, <1>2, <1>5, <1>6, <1>7, <1>8, <1>9

(* The late span is asked for again, from this connection.                  *)
LEMMA ResetNextSpanStep ==
    ASSUME SyncInv, NEW c \in Connections, ResetNextSpan(c)
    PROVE  queue' = queue /\ SyncInv'
  <1> DEFINE k == ctx[c]
             m == IF k.handler = "callback" THEN [Locals(k) EXCEPT !.idle = TRUE]
                  ELSE [Locals(k) EXCEPT !.up = "dropped"]
  <1>1. /\ pc[c] = "reset" /\ k.up # "closed" /\ known' = known /\ lock' = lock
        /\ adding' = adding /\ pc[c] \notin Locked
    BY DEF ResetNextSpan, At, Locked
  <1>2. \/ SendObjects(c, k, k.span.start, k.span.hashes, queue)
        \/ /\ ctx' = [ctx EXCEPT ![c] = m] /\ pc' = [pc EXCEPT ![c] = "wait"]
           /\ queue' = queue /\ net' = net
    BY Zenon DEF ResetNextSpan, Set, Go
  <1>3. /\ ContextOK(c, k) /\ Genesis \in known /\ DOMAIN ctx = Connections
        /\ \E h \in Nat : Piece(h, k.span.hashes)
    BY Zenon, <1>1 DEF SyncInv, OwnOK, HandlerOK
  <1>4. CASE SendObjects(c, k, k.span.start, k.span.hashes, queue)
    BY Zenon, <1>1, <1>3, <1>4, SendObjectsStep
  <1>5. CASE /\ ctx' = [ctx EXCEPT ![c] = m] /\ pc' = [pc EXCEPT ![c] = "wait"]
             /\ queue' = queue /\ net' = net
    <2> HIDE DEF k
    <2>1. /\ Fields \subseteq DOMAIN m /\ m.needed = k.needed /\ m.last_response = k.last_response
          /\ m.up # "closed" /\ (m.idle = TRUE \/ m.up = "dropped")
      <3> DEFINE j == Locals(k)
      <3>1. /\ Fields \subseteq DOMAIN j /\ j.needed = k.needed /\ j.last_response = k.last_response
            /\ j.up # "closed"
        BY Zenon, <1>1, <1>3 DEF ContextOK, Fields, Locals
      <3> HIDE DEF j
      <3>2. m = IF k.handler = "callback" THEN [j EXCEPT !.idle = TRUE]
             ELSE [j EXCEPT !.up = "dropped"]
        BY Zenon DEF j
      <3> HIDE DEF m
      <3> QED
        BY Zenon, <3>1, <3>2 DEF Fields
    <2> HIDE DEF m
    <2>2. ContextOK(c, m) /\ Woken(m, "wait") /\ HandlerOK(m, "wait")
      BY Zenon, <1>3, <2>1 DEF ContextOK, Woken, HandlerOK
    <2>3. DOMAIN pc = Connections /\ Genesis \in known'
      BY Zenon, <1>1 DEF SyncInv
    <2>4. Only(c, ctx, ctx', m) /\ Only(c, pc, pc', "wait")
      BY Zenon, <1>3, <1>5, <2>3, OnlyExcept
    <2>5. Only(c, net, net', net[c]) /\ net[c] \in Seq(Messages(c))
      BY Zenon, <1>5, NetSame
    <2>6. Locking(c, "wait")
      BY <1>1, LockOut DEF Locked
    <2>7. Moves(c, m, "wait", net[c])
      BY ZenonT(60), <2>2, <2>3, <2>4, <2>5, <2>6 DEF Moves
    <2> QED
      BY Zenon, <1>5, <2>7, MovesKeep
  <1> QED
    BY Zenon, <1>2, <1>4, <1>5

(* A piece with a block of c's chain has the chain's blocks below it, too.  *)
LEMMA PieceAt ==
    ASSUME NEW c \in Connections, NEW p \in 1..Len(Chain[c]), NEW h, NEW hs, Piece(h, hs),
           Chain[c][p] \in Range(hs)
    PROVE  /\ h \in 1..p /\ (p - h) + 1 \in 1..Len(hs)
           /\ \A r \in h..p : Chain[c][r] = hs[(r - h) + 1]
  <1>1. PICK d \in Connections : /\ h + Len(hs) <= Len(Chain[d]) + 1
                                 /\ \A u \in 1..Len(hs) : hs[u] = Chain[d][(h + u) - 1]
    BY Zenon DEF Piece
  <1>2. /\ h \in Nat \ {0} /\ Len(hs) \in Nat /\ DOMAIN hs = 1..Len(hs)
        /\ Len(Chain[c]) \in Nat /\ Len(Chain[d]) \in Nat
    BY ChainType DEF Piece
  <1>3. PICK u \in 1..Len(hs) : Chain[c][p] = hs[u]
    BY Zenon, <1>2 DEF Range
  <1> DEFINE v == (h + u) - 1
  <1>4. v \in 1..Len(Chain[d]) /\ h \in 1..v /\ (v - h) + 1 = u
    BY <1>1, <1>2
  <1>5. Chain[c][p] = Chain[d][v]
    BY Zenon, <1>1, <1>3
  <1> HIDE DEF v
  <1>6. p = v /\ \A r \in 1..p : Chain[c][r] = Chain[d][r]
    BY <1>4, <1>5, SameBranch
  <1>7. ASSUME NEW r \in h..p PROVE Chain[c][r] = hs[(r - h) + 1]
    <2>1. r \in 1..p /\ (r - h) + 1 \in 1..Len(hs) /\ (h + ((r - h) + 1)) - 1 = r
      BY <1>2, <1>4, <1>6
    <2> QED
      BY Zenon, <1>1, <1>6, <2>1
  <1> QED
    BY Zenon, <1>4, <1>6, <1>7

(* The blocks of a run that the first span has are the first ones, when all *)
(* of them are requested.                                                   *)
LEMMA FirstOnes ==
    ASSUME QueueOK(queue), NEW c \in Connections, NEW b \in 0..Len(Chain[c]), NEW a \in 1..b + 1,
           NEW s \in queue.blocks, \A t \in queue.blocks : s.start <= t.start,
           \A i \in 1..(b - a) + 1 : Chain[c][(a + i) - 1] \in queue.requested,
           NEW i \in 1..(b - a) + 1, Chain[c][(a + i) - 1] \in Range(s.hashes), NEW j \in 1..i
    PROVE  Chain[c][(a + j) - 1] \in Range(s.hashes)
  <1> DEFINE p == (a + i) - 1
             r == (a + j) - 1
  <1>1. p \in 1..Len(Chain[c]) /\ r \in 1..p /\ r \in 1..Len(Chain[c]) /\ j \in 1..(b - a) + 1
    BY ChainType
  <1>2. Chain[c][p] \in Range(s.hashes) /\ Chain[c][r] \in queue.requested
    BY Zenon, <1>1
  <1> HIDE DEF p, r
  <1>3. Piece(s.start, s.hashes)
    BY DEF QueueOK
  <1>4. /\ s.start \in 1..p /\ (p - s.start) + 1 \in 1..Len(s.hashes)
        /\ \A x \in s.start..p : Chain[c][x] = s.hashes[(x - s.start) + 1]
    <2> DEFINE h == s.start
               hs == s.hashes
    <2>1. Piece(h, hs) /\ Chain[c][p] \in Range(hs)
      BY Zenon, <1>2, <1>3
    <2> HIDE DEF h, hs
    <2>2. /\ h \in 1..p /\ (p - h) + 1 \in 1..Len(hs)
          /\ \A x \in h..p : Chain[c][x] = hs[(x - h) + 1]
      BY <1>1, <2>1, PieceAt
    <2> QED
      BY <2>2 DEF h, hs
  <1>5. PICK t \in queue.blocks : Chain[c][r] \in Range(t.hashes)
    BY ZenonT(60), <1>2 DEF QueueOK
  <1>6. Piece(t.start, t.hashes)
    BY DEF QueueOK
  <1>7. t.start \in 1..r
    BY ZenonT(60), <1>1, <1>5, <1>6, PieceAt
  <1>8. s.start <= t.start
    BY Zenon
  <1>9. r \in s.start..p
    BY <1>1, <1>4, <1>7, <1>8
  <1>10. DOMAIN s.hashes = 1..Len(s.hashes) /\ Len(s.hashes) \in Nat
    BY <1>3 DEF Piece
  <1>11. (r - s.start) + 1 \in 1..Len(s.hashes)
    BY <1>1, <1>4, <1>9, <1>10
  <1>12. Chain[c][r] \in Range(s.hashes)
    BY Zenon, <1>4, <1>9, <1>10, <1>11 DEF Range
  <1> QED
    BY Zenon, <1>12 DEF r

(* What reserve_span does with the blocks hs, the last of them at height    *)
(* last.                                                                    *)
Takes(q, hs, last, c, H) ==
    LET r == BQ!reserve_span(q, hs, last, c, H, FALSE)
    IN  /\ r.nblocks # 0 => \E i \in 1..Len(hs) : /\ r.start = last - Len(hs) + i
                                                  /\ r.nblocks \in 1..Len(hs) + 1 - i
        /\ r.nblocks = 0 /\ Len(hs) <= last => \A i \in 1..Len(hs) : hs[i] \in q.requested

(* A part of a run above the genesis block is a piece.                      *)
LEMMA RunPiece ==
    ASSUME NEW c \in Connections, NEW b \in 1..Len(Chain[c]), NEW a \in 1..b
    PROVE  Piece(a, Run(c, a, b))
  <1>1. Len(Chain[c]) \in Nat /\ Chain[c] \in Seq(Hashes) /\ a \in Nat \ {0} /\ b \in Nat
        /\ b \in 0..Len(Chain[c]) /\ a \in 0..b + 1
    BY ChainType
  <1>2. Run(c, a, b) \in Seq(Hashes)
    <2>1. SubSeq(Chain[c], a, b) \in Seq(Hashes)
      <3>1. \A i \in a..b : Chain[c][i] \in Hashes
        BY <1>1, ChainType
      <3> QED
        BY <1>1, <3>1
    <2> QED
      BY Zenon, <2>1, RunOfChain
  <1>3. /\ Len(Run(c, a, b)) = (b - a) + 1
        /\ \A i \in 1..(b - a) + 1 : Run(c, a, b)[i] = Block(c, (a + i) - 1)
    BY Zenon, <1>1, RunIs
  <1>4. a + Len(Run(c, a, b)) <= Len(Chain[c]) + 1
    BY <1>1, <1>3
  <1>5. \A i \in 1..Len(Run(c, a, b)) : Run(c, a, b)[i] = Chain[c][(a + i) - 1]
    BY <1>1, <1>3 DEF Block
  <1> QED
    BY <1>1, <1>2, <1>4, <1>5 DEF Piece

(* A span of the needed list is reserved and asked for.                     *)
LEMMA ReservedPart ==
    ASSUME NEW c \in Connections, NEW b \in 0..Len(Chain[c]), NEW a \in 1..b + 1,
           NEW start, NEW nblocks,
           LET hs == Run(c, a, b)
           IN  \E i \in 1..Len(hs) : start = b - Len(hs) + i /\ nblocks \in 1..Len(hs) + 1 - i
    PROVE  LET hs == Run(c, a, b)
               skip == start - (b - Len(hs) + 1)
           IN  /\ a \in 1..b
               /\ Piece(start, SubSeq(hs, skip + 1, skip + nblocks))
               /\ Listed(c, SubSeq(hs, skip + nblocks + 1, Len(hs)), b)
  <1> DEFINE hs == Run(c, a, b)
             n == Len(hs)
             skip == start - (b - n + 1)
  <1>1. Len(Chain[c]) \in Nat /\ b \in Nat /\ a \in Nat /\ a \in 0..b + 1
    BY ChainType
  <1>2. n = (b - a) + 1
    BY Zenon, <1>1, RunIs
  <1>3. PICK i \in 1..n : start = b - n + i /\ nblocks \in 1..n + 1 - i
    BY Zenon
  <1> HIDE DEF n, hs
  <1>4. /\ skip = i - 1 /\ start = (a + i) - 1 /\ a \in 1..b /\ b \in 1..Len(Chain[c])
        /\ i \in Nat /\ nblocks \in Nat
    BY <1>1, <1>2, <1>3
  <1>5. skip + 1 = i /\ skip + nblocks = (i + nblocks) - 1 /\ skip + nblocks + 1 = i + nblocks
    BY <1>4
  <1> HIDE DEF skip
  <1>6. SubSeq(hs, i, (i + nblocks) - 1) = Run(c, (a + i) - 1, (a + ((i + nblocks) - 1)) - 1)
    <2> DEFINE j == (i + nblocks) - 1
    <2>1. i \in 1..(b - a) + 2 /\ j \in i - 1..(b - a) + 1
      BY <1>1, <1>2, <1>3, <1>4
    <2> HIDE DEF j
    <2>2. SubSeq(hs, i, j) = Run(c, (a + i) - 1, (a + j) - 1)
      BY Zenon, <1>1, <2>1, RunPart DEF hs
    <2> QED
      BY <2>2 DEF j
  <1>7. Piece(start, SubSeq(hs, i, (i + nblocks) - 1))
    <2> DEFINE v == (a + ((i + nblocks) - 1)) - 1
    <2>1. v \in 1..Len(Chain[c]) /\ start \in 1..v
      BY <1>1, <1>2, <1>3, <1>4
    <2>2. SubSeq(hs, i, (i + nblocks) - 1) = Run(c, start, v)
      BY Zenon, <1>4, <1>6
    <2> HIDE DEF v
    <2> QED
      BY Zenon, <2>1, <2>2, RunPiece
  <1>8. Listed(c, SubSeq(hs, i + nblocks, n), b)
    <2> DEFINE j == i + nblocks
               u == (a + j) - 1
    <2>1. j \in 1..(b - a) + 2 /\ n \in j - 1..(b - a) + 1 /\ u \in 0..b + 1 /\ (a + n) - 1 = b
      BY <1>1, <1>2, <1>3, <1>4
    <2> HIDE DEF j
    <2>2. SubSeq(hs, j, n) = Run(c, (a + j) - 1, (a + n) - 1)
      BY Zenon, <1>1, <2>1, RunPart DEF hs
    <2>3. SubSeq(hs, j, n) = Run(c, u, b)
      BY Zenon, <2>1, <2>2
    <2> HIDE DEF u
    <2> QED
      BY Zenon, <2>1, <2>3 DEF Listed, j
  <1> QED
    BY Zenon, <1>4, <1>5, <1>7, <1>8 DEF hs, n, skip

(* The needed list without the blocks of the first span.                    *)
LEMMA RestOfList ==
    ASSUME Numbers, QueueOK(queue), NEW c \in Connections, NEW b \in 0..Len(Chain[c]),
           NEW a \in 1..b + 1,
           NEW s \in queue.blocks, \A t \in queue.blocks : s.start <= t.start,
           \A i \in 1..Len(Run(c, a, b)) : Run(c, a, b)[i] \in queue.requested
    PROVE  LET hs == Run(c, a, b)
           IN  Listed(c, Among(hs, Range(hs) \ Range(s.hashes)), b)
  <1> DEFINE hs == Run(c, a, b)
             n == Len(hs)
             S == Range(hs) \ Range(s.hashes)
             I == {i \in 1..n : hs[i] \in Range(s.hashes)} \cup {0}
             m == Max(I)
  <1>1. Len(Chain[c]) \in Nat /\ b \in Nat /\ a \in Nat /\ a \in 0..b + 1
    BY ChainType
  <1>2. /\ hs \in Seq(Hashes \cup {Genesis}) /\ n = (b - a) + 1 /\ n \in Nat
        /\ \A i \in 1..n : hs[i] = Chain[c][(a + i) - 1]
    <2>1. /\ hs \in Seq(Hashes \cup {Genesis}) /\ n = (b - a) + 1
          /\ \A i \in 1..(b - a) + 1 : hs[i] = Block(c, (a + i) - 1)
      BY Zenon, <1>1, RunIs
    <2> HIDE DEF hs
    <2> QED
      BY <1>1, <2>1 DEF Block
  <1>3. \A i \in 1..n : hs[i] \in queue.requested
    BY Zenon
  <1> HIDE DEF hs
  <1>4. \A i \in 1..(b - a) + 1 : Chain[c][(a + i) - 1] \in queue.requested
    BY Zenon, <1>2, <1>3
  <1>5. I \in SUBSET (0..n) /\ 0 \in I
    BY <1>2
  <1>6. m \in I /\ m \in 0..n /\ \A i \in I : i <= m
    <2> HIDE DEF I, n
    <2> QED
      BY Zenon, <1>2, <1>5, MaxIs
  <1> HIDE DEF m, n
  <1>7. \A i \in 1..n : hs[i] \in Range(s.hashes) <=> i \in 1..m
    <2>1. ASSUME NEW i \in 1..n, hs[i] \in Range(s.hashes) PROVE i \in 1..m
      BY <1>2, <1>6, <2>1
    <2>2. ASSUME NEW i \in 1..m PROVE hs[i] \in Range(s.hashes)
      <3>1. m \in 1..(b - a) + 1 /\ hs[m] \in Range(s.hashes) /\ i \in 1..n /\ m \in 1..n
        BY <1>2, <1>6, <2>2
      <3>2. Chain[c][(a + m) - 1] \in Range(s.hashes)
        BY Zenon, <1>2, <3>1
      <3>3. Chain[c][(a + i) - 1] \in Range(s.hashes)
        BY Zenon, <1>4, <3>1, <3>2, FirstOnes
      <3> QED
        BY Zenon, <1>2, <3>1, <3>3
    <2> QED
      BY Zenon, <1>2, <1>6, <2>1, <2>2
  <1>8. \A i \in 1..n : hs[i] \in S <=> i \in m + 1..n
    <2>1. ASSUME NEW i \in 1..n PROVE hs[i] \in Range(hs)
      BY <1>2 DEF Range, n
    <2> QED
      BY <1>2, <1>6, <1>7, <2>1
  <1>9. Among(hs, S) = SubSeq(hs, m + 1, n)
    <2>1. m + 1 \in 1..n + 1 /\ n \in 0..n /\ m + 1 <= n + 1
      BY <1>2, <1>6
    <2> HIDE DEF S
    <2> QED
      BY Zenon, <1>2, <1>8, <2>1, AmongIs DEF n
  <1>10. SubSeq(hs, m + 1, n) = Run(c, a + m, b)
    <2> DEFINE j == m + 1
    <2>1. m \in 0..n /\ n = (b - a) + 1 /\ n \in Nat
      BY Zenon, <1>2, <1>6
    <2> HIDE DEF I
    <2>2. j \in 1..(b - a) + 2 /\ n \in j - 1..(b - a) + 1
      BY <1>1, <2>1
    <2>3. (a + j) - 1 = a + m /\ (a + n) - 1 = b
      BY <1>1, <2>1
    <2> HIDE DEF j
    <2>4. SubSeq(hs, j, n) = Run(c, (a + j) - 1, (a + n) - 1)
      BY Zenon, <1>1, <2>2, RunPart DEF hs
    <2> QED
      BY Zenon, <2>3, <2>4 DEF j
  <1>11. a + m \in 0..b + 1
    BY <1>1, <1>2, <1>6
  <1> HIDE DEF S
  <1>12. Listed(c, Among(hs, S), b)
    BY Zenon, <1>9, <1>10, <1>11 DEF Listed
  <1> QED
    BY Zenon, <1>12 DEF S, hs

(* The request, from what is left of the needed list.                       *)
Ask(c, k, l) ==
    LET r == BQ!reserve_span(queue, l.needed, l.last_response, c, RemoteHeight(c), FALSE)
        skip == r.start - (l.last_response - Len(l.needed) + 1)
        next == BQ!get_next_span_if_scheduled(queue)
        s == CHOOSE t \in next : TRUE
    IN  IF r.nblocks > 0
        THEN SendObjects(c, [l EXCEPT !.needed = SubSeq(@, skip + r.nblocks + 1, Len(@))],
                         r.start, SubSeq(l.needed, skip + 1, skip + r.nblocks), r.queue)
        ELSE IF ~k.force /\ next # {}
        THEN SendObjects(c, [l EXCEPT !.needed = Among(@, Range(@) \ Range(s.hashes))],
                         s.start, s.hashes, queue)
        ELSE IF Max({CurrentHeight, NeededHeight}) >= target
        THEN Return(c, [l EXCEPT !.state = "normal"]) /\ net' = net
        ELSE Fail(c) /\ net' = net

(* The request keeps the invariant and is one reservation of the queue.     *)
LEMMA AskStep ==
    ASSUME Numbers, SyncInv, QueueOK(queue), NEW c \in Connections, NEW k, NEW l, Ask(c, k, l),
           \A hs \in Seq(Hashes), last \in Nat : Takes(queue, hs, last, c, RemoteHeight(c)),
           ContextOK(c, l), l.up # "closed",
           \E a \in 1..l.last_response + 1 : l.needed = Run(c, a, l.last_response),
           pc[c] \notin Locked, lock' = lock, adding' = adding, known' = known
    PROVE  [BQ!Next]_queue /\ SyncInv'
  <1> DEFINE b == l.last_response
             hs == l.needed
             r == BQ!reserve_span(queue, hs, b, c, RemoteHeight(c), FALSE)
             skip == r.start - (b - Len(hs) + 1)
             next == BQ!get_next_span_if_scheduled(queue)
             s == CHOOSE t \in next : TRUE
             l1 == [l EXCEPT !.needed = SubSeq(hs, skip + r.nblocks + 1, Len(hs))]
             l2 == [l EXCEPT !.needed = Among(hs, Range(hs) \ Range(s.hashes))]
             l3 == [l EXCEPT !.state = "normal"]
             part == SubSeq(hs, skip + 1, skip + r.nblocks)
  <1>1. \/ r.nblocks > 0 /\ SendObjects(c, l1, r.start, part, r.queue)
        \/ ~(r.nblocks > 0) /\ next # {} /\ SendObjects(c, l2, s.start, s.hashes, queue)
        \/ Return(c, l3) /\ net' = net
        \/ Fail(c) /\ net' = net
    BY Zenon DEF Ask
  <1>2. PICK a \in 1..b + 1 : hs = Run(c, a, b)
    BY Zenon
  <1>3. /\ Fields \subseteq DOMAIN l /\ b \in 0..Len(Chain[c]) /\ b \in Nat /\ a \in Nat
        /\ a \in 0..b + 1
    BY ChainType DEF ContextOK, Listed
  <1>4. Len(hs) = (b - a) + 1 /\ Len(hs) \in Nat /\ Len(hs) <= b
    <2>1. Len(Run(c, a, b)) = (b - a) + 1
      BY Zenon, <1>3, RunIs
    <2> QED
      BY <1>2, <1>3, <2>1
  <1>5. hs \in Seq(Hashes)
    <2>1. CASE a = b + 1
      <3>1. hs = <<>>
        BY Zenon, <1>2, <1>3, <2>1, RunEmpty
      <3> QED
        BY <3>1
    <2>2. CASE a # b + 1
      <3>1. b \in 1..Len(Chain[c]) /\ a \in 1..b
        BY <1>3, <2>2
      <3>2. Piece(a, Run(c, a, b))
        BY Zenon, <3>1, RunPiece
      <3> QED
        BY Zenon, <1>2, <3>2 DEF Piece
    <2> QED
      BY Zenon, <2>1, <2>2
  <1>6. Takes(queue, hs, b, c, RemoteHeight(c))
    BY Zenon, <1>3, <1>5
  <1>7. /\ r.nblocks # 0 => \E i \in 1..Len(hs) : /\ r.start = b - Len(hs) + i
                                                  /\ r.nblocks \in 1..Len(hs) + 1 - i
        /\ r.nblocks = 0 => \A i \in 1..Len(hs) : hs[i] \in queue.requested
    BY Zenon, <1>4, <1>6 DEF Takes
  <1>8. CASE r.nblocks > 0 /\ SendObjects(c, l1, r.start, part, r.queue)
    <2>1. \E i \in 1..Len(hs) : r.start = b - Len(hs) + i /\ r.nblocks \in 1..Len(hs) + 1 - i
      <3> DEFINE nb == r.nblocks
      <3>1. nb > 0
        BY Zenon, <1>8
      <3> HIDE DEF nb
      <3>2. nb # 0
        BY <3>1
      <3> QED
        BY Zenon, <1>7, <3>2 DEF nb
    <2>2. /\ a \in 1..b /\ Piece(r.start, part)
          /\ Listed(c, SubSeq(hs, skip + r.nblocks + 1, Len(hs)), b)
      <3> DEFINE st == r.start
                 nb == r.nblocks
      <3>1. \E i \in 1..Len(Run(c, a, b)) :
              st = b - Len(Run(c, a, b)) + i /\ nb \in 1..Len(Run(c, a, b)) + 1 - i
        BY Zenon, <1>2, <2>1
      <3> HIDE DEF st, nb
      <3>2. LET gs == Run(c, a, b)
                sk == st - (b - Len(gs) + 1)
            IN  /\ a \in 1..b /\ Piece(st, SubSeq(gs, sk + 1, sk + nb))
                /\ Listed(c, SubSeq(gs, sk + nb + 1, Len(gs)), b)
        BY Zenon, <1>3, <3>1, ReservedPart
      <3> QED
        BY Zenon, <1>2, <3>2 DEF st, nb
    <2>3. b \in 1..Len(Chain[c]) /\ hs = SubSeq(Chain[c], a, b)
      <3>1. b \in 1..Len(Chain[c])
        BY <1>3, <2>2
      <3> QED
        BY ZenonT(60), <1>2, <2>2, <3>1, RunOfChain
    <2>4. \E h \in Nat : Piece(h, part)
      BY Zenon, <2>2 DEF Piece
    <2> HIDE DEF part
    <2>5. queue' = r.queue
      BY Zenon, <1>8 DEF SendObjects
    <2>6. BQ!Next
      <3>1. queue' = BQ!reserve_span(queue, SubSeq(Chain[c], a, b), b,
          c, Len(Chain[c]) + 1, FALSE).queue
        BY Zenon, <2>3, <2>5 DEF RemoteHeight
      <3> QED
        BY Zenon, <2>2, <2>3, <3>1 DEF BQ!Next, BQ!ReserveSpan, BQ!Height
    <2> DEFINE rest == SubSeq(hs, skip + r.nblocks + 1, Len(hs))
    <2>7. l1 = [l EXCEPT !.needed = rest] /\ Listed(c, rest, b)
      BY Zenon, <2>2
    <2> HIDE DEF rest, l1
    <2>8. ContextOK(c, l1) /\ l1.up # "closed"
      BY Zenon, <1>3, <2>7 DEF ContextOK, Fields
    <2>9. SyncInv'
      BY ZenonT(60), <1>8, <2>4, <2>8, SendObjectsStep
    <2> QED
      BY Zenon, <2>6, <2>9
  <1>9. CASE ~(r.nblocks > 0) /\ next # {} /\ SendObjects(c, l2, s.start, s.hashes, queue)
    <2>1. r.nblocks = 0
      <3> DEFINE nb == r.nblocks
                 n == Len(hs)
                 st == r.start
      <3>1. ~(nb > 0) /\ (nb # 0 => \E i \in 1..n : nb \in 1..n + 1 - i) /\ n \in Nat
        BY ZenonT(60), <1>4, <1>7, <1>9
      <3> HIDE DEF nb, n
      <3>2. nb = 0
        BY <3>1
      <3> QED
        BY Zenon, <3>2 DEF nb
    <2>2. s \in next
      BY Zenon, <1>9
    <2> HIDE DEF r
    <2>3. s \in queue.blocks /\ \A t \in queue.blocks : s.start <= t.start
      BY Zenon, <2>2 DEF BQ!get_next_span_if_scheduled, BQ!IsFirst
    <2> HIDE DEF s
    <2>4. \E h \in Nat : Piece(h, s.hashes)
      BY Zenon, <2>3 DEF QueueOK, Piece
    <2> DEFINE rest == Among(hs, Range(hs) \ Range(s.hashes))
    <2>5. Listed(c, rest, b)
      <3>1. \A i \in 1..Len(Run(c, a, b)) : Run(c, a, b)[i] \in queue.requested
        BY Zenon, <1>2, <1>7, <2>1
      <3> QED
        BY ZenonT(60), <1>2, <1>3, <2>3, <3>1, RestOfList
    <2>6. l2 = [l EXCEPT !.needed = rest]
      BY Zenon
    <2> HIDE DEF rest, l2
    <2>7. ContextOK(c, l2) /\ l2.up # "closed"
      BY Zenon, <1>3, <2>5, <2>6 DEF ContextOK, Fields
    <2>8. queue' = queue /\ SyncInv'
      BY Zenon, <1>9, <2>4, <2>7, SendObjectsStep
    <2> QED
      BY Zenon, <2>8
  <1>10. CASE Return(c, l3) /\ net' = net
    <2>1. /\ Fields \subseteq DOMAIN l3 /\ l3.needed = l.needed /\ l3.up = l.up
          /\ l3.last_response = l.last_response /\ l3.state = "normal"
      BY Zenon DEF ContextOK, Fields
    <2> HIDE DEF l3
    <2>2. ContextOK(c, l3) /\ l3.state # "synchronizing" /\ l3.up # "closed"
      BY Zenon, <2>1 DEF ContextOK
    <2> QED
      BY Zenon, <1>10, <2>2, NetSame, ReturnStep
  <1>11. CASE Fail(c) /\ net' = net
    BY Zenon, <1>11, FailStep
  <1> QED
    BY Zenon, <1>1, <1>8, <1>9, <1>10, <1>11

(* request_missing_objects after pacing, with the hashes other spans have   *)
(* skipped.                                                                 *)
LEMMA RequestStep ==
    ASSUME Numbers, SyncInv, QueueOK(queue), NEW c \in Connections, Request(c),
           \A hs \in Seq(Hashes), last \in Nat : Takes(queue, hs, last, c, RemoteHeight(c))
    PROVE  [BQ!Next]_queue /\ SyncInv'
  <1> DEFINE k == ctx[c]
             l == skip_unneeded_hashes(k, FALSE)
             next == BQ!get_next_span_if_scheduled(queue)
             s == CHOOSE t \in next : TRUE
             k0 == [k EXCEPT !.last_response = 0]
             m == [k EXCEPT !.requested = @ \cup Range(s.hashes), !.span = s]
  <1>1. /\ pc[c] = "request" /\ k.up # "closed" /\ known' = known /\ lock' = lock
        /\ adding' = adding /\ pc[c] \notin Locked
    BY DEF Request, At, Locked
  <1>2. \/ NoObjects(c, k)
        \/ NoObjects(c, k0)
        \/ /\ next # {} /\ ctx' = [ctx EXCEPT ![c] = m] /\ pc' = [pc EXCEPT ![c] = "reset"]
           /\ queue' = queue /\ net' = net
        \/ NothingToGet(c, l) /\ net' = net
        \/ Ask(c, k, l)
    BY ZenonT(60) DEF Request, Ask, Set, Go
  <1>3. ContextOK(c, k) /\ Genesis \in known
    BY DEF SyncInv, OwnOK
  <1>4. CASE NoObjects(c, k)
    <2>1. Fields \subseteq DOMAIN k /\ k.last_response \in 0..Len(Chain[c])
      BY Zenon, <1>3 DEF ContextOK, Listed
    <2> QED
      BY ZenonT(60), <1>1, <1>4, <2>1, NoObjectsStep
  <1>5. CASE NoObjects(c, k0)
    <2>1. Fields \subseteq DOMAIN k0 /\ k0.last_response = 0 /\ k0.up = k.up
      BY Zenon, <1>3 DEF ContextOK, Fields
    <2>2. 0 \in 0..Len(Chain[c])
      BY ChainType
    <2> HIDE DEF k0
    <2> QED
      BY ZenonT(60), <1>1, <1>5, <2>1, <2>2, NoObjectsStep
  <1>6. CASE /\ next # {} /\ ctx' = [ctx EXCEPT ![c] = m] /\ pc' = [pc EXCEPT ![c] = "reset"]
             /\ queue' = queue /\ net' = net
    <2>1. s \in next
      BY Zenon, <1>6
    <2>2. s \in queue.blocks
      BY ZenonT(60), <2>1 DEF BQ!get_next_span_if_scheduled
    <2> HIDE DEF s
    <2>3. Piece(s.start, s.hashes) /\ s.start \in Nat
      BY Zenon, <2>2 DEF QueueOK, Piece
    <2>4. /\ Fields \subseteq DOMAIN m /\ m.needed = k.needed /\ m.last_response = k.last_response
          /\ m.up = k.up /\ m.span = s
      BY Zenon, <1>3 DEF ContextOK, Fields
    <2> HIDE DEF m
    <2>5. ContextOK(c, m) /\ Woken(m, "reset") /\ HandlerOK(m, "reset")
      BY Zenon, <1>1, <1>3, <2>3, <2>4 DEF ContextOK, Woken, HandlerOK
    <2>6. DOMAIN ctx = Connections /\ DOMAIN pc = Connections /\ Genesis \in known'
      BY Zenon, <1>1 DEF SyncInv
    <2>7. Only(c, ctx, ctx', m) /\ Only(c, pc, pc', "reset")
      BY Zenon, <1>6, <2>6, OnlyExcept
    <2>8. Only(c, net, net', net[c]) /\ net[c] \in Seq(Messages(c))
      BY Zenon, <1>6, NetSame
    <2>9. Locking(c, "reset")
      BY <1>1, LockOut DEF Locked
    <2>10. Moves(c, m, "reset", net[c])
      BY ZenonT(60), <2>5, <2>6, <2>7, <2>8, <2>9 DEF Moves
    <2> QED
      BY Zenon, <1>6, <2>10, MovesKeep
  <1>7. /\ ContextOK(c, l) /\ l.up # "closed"
        /\ \E a \in 1..l.last_response + 1 : l.needed = Run(c, a, l.last_response)
    <2>1. /\ ContextOK(c, l) /\ l.up = k.up /\ l.last_response = k.last_response
          /\ \E a \in 1..k.last_response + 1 : l.needed = Run(c, a, k.last_response)
      <3> HIDE DEF k
      <3> QED
        BY ZenonT(60), <1>3, SkipIs
    <2> HIDE DEF l
    <2> QED
      BY Zenon, <1>1, <2>1
  <1> HIDE DEF l
  <1>8. CASE NothingToGet(c, l) /\ net' = net
    BY Zenon, <1>1, <1>7, <1>8, NothingToGetStep
  <1>9. CASE Ask(c, k, l)
    BY Zenon, <1>1, <1>7, <1>9, AskStep
  <1> QED
    BY ZenonT(60), <1>2, <1>4, <1>5, <1>6, <1>8, <1>9

-----------------------------------------------------------------------------
(* Nothing is connected.                                                    *)
LEMMA InitOK == Init => SyncInv
  <1> SUFFICES ASSUME Init PROVE SyncInv
    BY Zenon
  <1>1. ASSUME NEW c \in Connections PROVE OwnOK(c)
    <2>1. ctx[c] = NewContext /\ pc[c] = "wait" /\ net[c] = <<>>
      BY Zenon DEF Init
    <2>2. Listed(c, <<>>, 0)
      BY ChainType, Unlisted
    <2>3. ContextOK(c, NewContext) /\ Woken(NewContext, "wait") /\ HandlerOK(NewContext, "wait")
      BY Zenon, <2>2 DEF ContextOK, Woken, HandlerOK, NewContext, Fields
    <2> QED
      BY <2>1, <2>3 DEF OwnOK, Locked
  <1> QED
    BY Zenon, <1>1 DEF Init, SyncInv

(* Every step of the handlers is one call of the queue, or none, and keeps  *)
(* the invariant.                                                           *)
LEMMA EveryStep ==
    ASSUME Numbers, SyncInv, QueueOK(queue), [Next]_vars,
           \A c \in Connections : \A hs \in Seq(Hashes), last \in Nat :
               Takes(queue, hs, last, c, RemoteHeight(c))
    PROVE  [BQ!Next]_queue /\ SyncInv'
  <1>1. ASSUME NEW c \in Connections, Step(c) PROVE [BQ!Next]_queue /\ SyncInv'
    <2>1. CASE TryLock(c) \/ NoSpanLeft(c) \/ StopAdding(c) \/ ResetNextSpan(c)
      BY ZenonT(60), <2>1, TryLockStep, NoSpanLeftStep, StopAddingStep, ResetNextSpanStep
    <2>2. CASE RemoveAdded(c) \/ FlushStale(c) \/ HandleSpan(c)
      BY ZenonT(60), <2>2, RemoveAddedStep, FlushStaleStep, HandleSpanStep
    <2>3. CASE LookAtSpan(c) \/ Pace(c) \/ Request(c)
      BY ZenonT(60), <2>3, LookAtSpanStep, PaceStep, RequestStep
    <2> QED
      BY ZenonT(60), <1>1, <2>1, <2>2, <2>3 DEF Step
  <1>2. ASSUME NEW c \in Connections,
               Connect(c) \/ PeerCloses(c) \/ TimedSync(c) \/ CheckStandby(c) \/ OnCallback(c)
        PROVE  [BQ!Next]_queue /\ SyncInv'
    BY ZenonT(60), <1>2, ConnectStep, PeerClosesStep, TimedSyncStep, CheckStandbyStep, OnCallbackStep
  <1>3. ASSUME NEW c \in Connections,
               Close(c) \/ KickIdle(c) \/ ResponseGetObjects(c) \/ ResponseChainEntry(c)
        PROVE  [BQ!Next]_queue /\ SyncInv'
    BY ZenonT(60), <1>3, CloseStep, KickIdleStep, ResponseGetObjectsStep, ResponseChainEntryStep
  <1>4. CASE UNCHANGED vars
    <2>1. \A c \in Connections : OwnOK(c)'
      BY ZenonT(60), <1>4 DEF SyncInv, vars, OwnOK, Taken
    <2> QED
      BY Zenon, <1>4, <2>1 DEF SyncInv, vars
  <1> QED
    BY Zenon, <1>1, <1>2, <1>3, <1>4 DEF Next

-----------------------------------------------------------------------------
P == INSTANCE BlockQueueProofs WITH
         Connections <- Connections, Hashes <- Hashes, Chain <- Chain,
         Seed <- Seed, LocalSeed <- LocalSeed, MaxBlocks <- MaxBlocks,
         StripeSize <- StripeSize, LogStripes <- LogStripes, TipBlocks <- TipBlocks,
         queue <- queue

(* What module BlockQueue assumes of its constants.                         *)
LEMMA QueueAssumed ==
    /\ P!IsFiniteSet(Hashes)
    /\ Chain \in [Connections -> Seq(Hashes)]
    /\ Seed \in [Connections -> P!Seeds]
    /\ LocalSeed \in P!Seeds
    /\ MaxBlocks \in Nat \ {0}
    /\ StripeSize \in Nat \ {0}
    /\ LogStripes \in 1..7
    /\ P!NumStripes \in 1..128
    /\ TipBlocks \in Nat
  <1>1. BQ!NumStripes = P!NumStripes
    BY Zenon DEF BQ!NumStripes, P!NumStripes
  <1>2. BQ!Seeds = P!Seeds
    BY ZenonT(60) DEF BQ!Seeds, P!Seeds, BQ!NumStripes, P!NumStripes,
                 BQ!make_pruning_seed, P!make_pruning_seed
  <1>3. Seed \in [Connections -> P!Seeds]
    BY ZenonT(60), SyncAssumption DEF P!Seeds
  <1>4. P!IsFiniteSet(Hashes)
    BY ZenonT(60), SyncAssumption DEF P!IsFiniteSet, IsFiniteSet
  <1> QED
    BY ZenonT(60), <1>1, <1>2, <1>3, <1>4, SyncAssumption, StripesAssumption

-----------------------------------------------------------------------------
(* The methods of the queue are the same seen through either instance.      *)

LEMMA SameErase == \A q, S : BQ!erase_block(q, S) = P!erase_block(q, S)
  BY ZenonT(60) DEF BQ!erase_block, P!erase_block, BQ!HashesOf, P!HashesOf, BQ!Elems, P!Elems

LEMMA SameFlush ==
    /\ \A q, c, all : BQ!flush_spans(q, c, all) = P!flush_spans(q, c, all)
    /\ \A q, live : BQ!flush_stale_spans(q, live) = P!flush_stale_spans(q, live)
    /\ \A q, c, h : BQ!remove_spans(q, c, h) = P!remove_spans(q, c, h)
  BY ZenonT(60), SameErase DEF BQ!flush_spans, P!flush_spans, BQ!flush_stale_spans,
                          P!flush_stale_spans, BQ!remove_spans, P!remove_spans

LEMMA SameStripes ==
    /\ \A h, H, s : BQ!has_unpruned_block(h, H, s) = P!has_unpruned_block(h, H, s)
    /\ \A h, H, s : BQ!get_next_unpruned_block_height(h, H, s)
                       = P!get_next_unpruned_block_height(h, H, s)
  BY DEF BQ!has_unpruned_block, P!has_unpruned_block, BQ!get_pruning_stripe,
                  P!get_pruning_stripe, BQ!NumStripes, P!NumStripes, BQ!SeedStripe,
                  P!SeedStripe, BQ!get_next_unpruned_block_height,
                  P!get_next_unpruned_block_height, BQ!StripeStart, P!StripeStart

LEMMA SameFirst ==
    \A q, hs, i : BQ!FirstNotRequested(q, hs, i) = P!FirstNotRequested(q, hs, i)
  BY ZenonT(60) DEF BQ!FirstNotRequested, P!FirstNotRequested

LEMMA SameLength ==
    \A c, h, H, pruned, room :
        BQ!SpanLength(c, h, H, pruned, room) = P!SpanLength(c, h, H, pruned, room)
  BY DEF BQ!SpanLength, P!SpanLength, BQ!has_unpruned_block, P!has_unpruned_block,
                  BQ!get_pruning_stripe, P!get_pruning_stripe, BQ!NumStripes, P!NumStripes,
                  BQ!SeedStripe, P!SeedStripe

LEMMA SameInsert ==
    /\ \A q, h, n, c : BQ!schedule_blocks(q, h, n, c) = P!schedule_blocks(q, h, n, c)
    /\ \A q, s : BQ!Insert(q, s) = P!Insert(q, s)
  BY ZenonT(60) DEF BQ!schedule_blocks, P!schedule_blocks, BQ!Insert, P!Insert

LEMMA SameSet ==
    \A q, h, c, hs : BQ!set_span_hashes(q, h, c, hs) = P!set_span_hashes(q, h, c, hs)
  BY DEF BQ!Elems, P!Elems, BQ!set_span_hashes, P!set_span_hashes,
                  BQ!erase_block, P!erase_block, BQ!HashesOf, P!HashesOf

LEMMA SameAdd ==
    ASSUME NEW q, NEW h, NEW bcel, NEW c
    PROVE  BQ!add_blocks(q, h, bcel, c) = P!add_blocks(q, h, bcel, c)
  <1> DEFINE S == {s \in q.blocks : s.start = h}
             hs == (CHOOSE s \in S : TRUE).hashes
             n == [start |-> h, nblocks |-> Len(bcel), conn |-> c,
                   hashes |-> <<>>, blocks |-> bcel]
             r == P!Insert(P!erase_block(q, S), n)
             rB == BQ!Insert(BQ!erase_block(q, S), n)
             v == [r EXCEPT !.requested = @ \union P!Elems(hs), !.have = @ \union P!Elems(hs)]
             vB == [rB EXCEPT !.requested = @ \union BQ!Elems(hs), !.have = @ \union BQ!Elems(hs)]
  <1>1. P!add_blocks(q, h, bcel, c) = IF S = {} THEN r ELSE P!set_span_hashes(v, h, c, hs)
    BY ZenonT(60) DEF P!add_blocks
  <1>2. BQ!add_blocks(q, h, bcel, c) = IF S = {} THEN rB ELSE BQ!set_span_hashes(vB, h, c, hs)
    BY ZenonT(60) DEF BQ!add_blocks
  <1> HIDE DEF S, n
  <1>3. rB = r
    BY ZenonT(60), SameErase, SameInsert
  <1> HIDE DEF r, rB, hs
  <1>4. BQ!Elems(hs) = P!Elems(hs)
    BY ZenonT(60) DEF BQ!Elems, P!Elems
  <1>5. vB = v
    BY ZenonT(60), <1>3, <1>4
  <1> HIDE DEF v, vB
  <1> QED
    BY ZenonT(60), <1>1, <1>2, <1>3, <1>5, SameSet

LEMMA SameReserve ==
    ASSUME NEW q, NEW hs, NEW last, NEW c, NEW H, NEW pruned
    PROVE  BQ!reserve_span(q, hs, last, c, H, pruned) = P!reserve_span(q, hs, last, c, H, pruned)
  <1> DEFINE base == last - Len(hs) + 1
             i1 == P!FirstNotRequested(q, hs, 1)
             h1 == base + i1 - 1
             unpruned == P!get_next_unpruned_block_height(h1, H, Seed[c])
             h2 == IF ~pruned /\ unpruned \in h1 + 1..h1 + StripeSize - 1
                   THEN unpruned ELSE h1
             i == P!FirstNotRequested(q, hs, h2 - base + 1)
             h == base + i - 1
             n == P!SpanLength(c, h, H, pruned, Len(hs) + 1 - i)
             none == hs = <<>> \/ Len(hs) > last \/ h2 > last \/ n = 0
             part == SubSeq(hs, i, i + n - 1)
             res == [queue |-> P!set_span_hashes(P!schedule_blocks(q, h, n, c), h, c, part),
                     start |-> h, nblocks |-> n]
             i1B == BQ!FirstNotRequested(q, hs, 1)
             h1B == base + i1B - 1
             unprunedB == BQ!get_next_unpruned_block_height(h1B, H, Seed[c])
             h2B == IF ~pruned /\ unprunedB \in h1B + 1..h1B + StripeSize - 1
                   THEN unprunedB ELSE h1B
             iB == BQ!FirstNotRequested(q, hs, h2B - base + 1)
             hB == base + iB - 1
             nB == BQ!SpanLength(c, hB, H, pruned, Len(hs) + 1 - iB)
             noneB == hs = <<>> \/ Len(hs) > last \/ h2B > last \/ nB = 0
             partB == SubSeq(hs, iB, iB + nB - 1)
             resB == [queue |-> BQ!set_span_hashes(BQ!schedule_blocks(q, hB, nB, c), hB, c, partB),
                     start |-> hB, nblocks |-> nB]
  <1>1. P!reserve_span(q, hs, last, c, H, pruned) =
           IF none THEN [queue |-> q, start |-> 0, nblocks |-> 0] ELSE res
    BY ZenonT(60) DEF P!reserve_span
  <1>2. BQ!reserve_span(q, hs, last, c, H, pruned) =
           IF noneB THEN [queue |-> q, start |-> 0, nblocks |-> 0] ELSE resB
    BY ZenonT(60) DEF BQ!reserve_span
  <1> HIDE DEF base
  <1>3. h1B = h1
    BY ZenonT(60), SameFirst
  <1> HIDE DEF h1, h1B
  <1>4. h2B = h2
    BY ZenonT(60), <1>3, SameStripes
  <1> HIDE DEF h2, h2B
  <1>5. iB = i
    BY ZenonT(60), <1>4, SameFirst
  <1> HIDE DEF i, iB
  <1>6. hB = h
    BY Zenon, <1>5
  <1> HIDE DEF h, hB
  <1>7. nB = n
    BY ZenonT(60), <1>5, <1>6, SameLength
  <1> HIDE DEF n, nB
  <1>8. resB = res
    BY ZenonT(60), <1>5, <1>6, <1>7, SameSet, SameInsert
  <1>9. noneB <=> none
    BY ZenonT(60), <1>4, <1>7
  <1> HIDE DEF none, noneB, res, resB
  <1> QED
    BY ZenonT(60), <1>1, <1>2, <1>8, <1>9

LEMMA SameHeight == \A c : BQ!Height(c) = Len(Chain[c]) /\ P!Height(c) = Len(Chain[c])
  BY Zenon DEF BQ!Height, P!Height

(* A step of the queue.                                                     *)
LEMMA SameNext == [BQ!Next]_queue => [P!Next]_queue
  <1> SUFFICES ASSUME BQ!Next PROVE P!Next
    BY Zenon
  <1>1. ASSUME NEW c \in Connections, BQ!ReserveSpan(c) PROVE P!ReserveSpan(c)
    BY ZenonT(60), <1>1, SameReserve, SameHeight DEF BQ!ReserveSpan, P!ReserveSpan
  <1>2. ASSUME NEW c \in Connections, BQ!AddBlocks(c) PROVE P!AddBlocks(c)
    BY ZenonT(60), <1>2, SameAdd, SameHeight DEF BQ!AddBlocks, P!AddBlocks
  <1>3. ASSUME NEW c \in Connections, BQ!FlushSpans(c) PROVE P!FlushSpans(c)
    BY ZenonT(60), <1>3, SameFlush DEF BQ!FlushSpans, P!FlushSpans
  <1>4. ASSUME NEW c \in Connections, BQ!RemoveSpans(c) PROVE P!RemoveSpans(c)
    BY ZenonT(60), <1>4, SameFlush, SameHeight DEF BQ!RemoveSpans, P!RemoveSpans
  <1>5. BQ!FlushStaleSpans => P!FlushStaleSpans
    BY ZenonT(60), SameFlush DEF BQ!FlushStaleSpans, P!FlushStaleSpans
  <1> QED
    BY ZenonT(60), <1>1, <1>2, <1>3, <1>4, <1>5 DEF BQ!Next, P!Next

(* What the queue's proofs show, for the queue in this specification.       *)
LEMMA QueueKept ==
    P!Good(queue) /\ P!Placed(queue) /\ [BQ!Next]_queue => P!Good(queue') /\ P!Placed(queue')
  BY ZenonT(60), P!QueueStep, QueueAssumed, SameNext

(* What the handlers rely on of reserve_span.                               *)
LEMMA Reserved ==
    ASSUME NEW q, NEW hs \in Seq(Hashes), NEW last \in Nat, NEW c \in Connections, NEW H
    PROVE  Takes(q, hs, last, c, H)
  <1>1. P!TakesFrom(q, hs, last, c, H)
    <2>1. \A qq, HH : \A gs \in Seq(Hashes), l \in Nat, d \in Connections :
             P!TakesFrom(qq, gs, l, d, HH)
      BY ZenonT(60), P!Reservations, QueueAssumed
    <2> QED
      BY ZenonT(60), <2>1
  <1>2. Seed[c] = 0
    BY ZenonT(60), SyncAssumption
  <1> DEFINE r == P!reserve_span(q, hs, last, c, H, FALSE)
  <1>3. BQ!reserve_span(q, hs, last, c, H, FALSE) = r
    BY ZenonT(60), SameReserve
  <1>4. /\ r.nblocks # 0 =>
             /\ Len(hs) <= last
             /\ \E i \in 1..Len(hs) : /\ r.start = last - Len(hs) + i
                                      /\ r.nblocks \in 1..Len(hs) + 1 - i
        /\ r.nblocks = 0 /\ Seed[c] = 0 /\ Len(hs) <= last =>
             \A i \in 1..Len(hs) : hs[i] \in q.requested
    BY ZenonT(60), <1>1 DEF P!TakesFrom
  <1> HIDE DEF r
  <1> QED
    BY ZenonT(60), <1>2, <1>3, <1>4 DEF Takes

(* The queue is as the handlers rely on.                                    *)
LEMMA QueueIsOK ==
    ASSUME P!Good(queue), P!Placed(queue)
    PROVE  QueueOK(queue)
  <1>1. ASSUME NEW s \in queue.blocks
        PROVE  /\ s.conn \in Connections /\ s.start \in 1..Len(Chain[s.conn])
               /\ Piece(s.start, s.hashes)
    <2>1. s.conn \in Connections /\ s.hashes \in Seq(Hashes)
      BY Zenon DEF P!Good, P!Queue, P!Span
    <2>2. P!SpanPlaced(s)
      BY ZenonT(60) DEF P!Placed
    <2> QED
      BY ZenonT(60), <2>1, <2>2, SameHeight DEF P!SpanPlaced, P!OnChain, P!IsPiece, Piece
  <1>2. ASSUME NEW x \in queue.requested PROVE \E s \in queue.blocks : x \in Range(s.hashes)
    <2>1. PICK s \in queue.blocks : x \in P!Elems(s.hashes)
      BY ZenonT(60) DEF P!Good, P!HashesOf
    <2>2. s.hashes \in Seq(Hashes)
      BY Zenon DEF P!Good, P!Queue, P!Span
    <2>3. x \in Range(s.hashes)
      BY <2>1, <2>2 DEF P!Elems, Range
    <2> QED
      BY ZenonT(60), <2>3
  <1> QED
    BY ZenonT(60), <1>1, <1>2 DEF QueueOK

-----------------------------------------------------------------------------
(* The invariant of the handlers and that of the queue.                     *)
Inv == SyncInv /\ P!Good(queue) /\ P!Placed(queue)

(* The two facts, from the library's theorems.                              *)
LEMMA NumbersHold == Numbers
  <1>1. \A T \in SUBSET Nat : T # {} => \E m \in T : \A y \in T : m <= y
    BY ZenonT(60), P!LeastExists, QueueAssumed
  <1>2. \A S : P!Cardinality(S) = Cardinality(S)
    BY ZenonT(60) DEF Cardinality, P!Cardinality
  <1>3. \A a, b \in Int : P!Cardinality(a..b) = IF a > b THEN 0 ELSE b - a + 1
    BY ZenonT(60), P!FS_Interval, QueueAssumed
  <1> QED
    BY ZenonT(60), <1>1, <1>2, <1>3 DEF Numbers

-----------------------------------------------------------------------------
(* Init => Inv, and every step keeps Inv and is a step of the queue.        *)
LEMMA InvInit == Init => Inv
  <1>1. BQ!EmptyQueue = P!EmptyQueue
    BY ZenonT(60) DEF BQ!EmptyQueue, P!EmptyQueue
  <1>2. Init => P!Init
    BY ZenonT(60), <1>1 DEF Init, P!Init
  <1>3. P!Init => P!Good(queue) /\ P!Placed(queue)
    BY ZenonT(60), P!QueueInit, QueueAssumed
  <1> QED
    BY ZenonT(60), <1>2, <1>3, InitOK DEF Inv

LEMMA InvStep == Inv /\ [Next]_vars => [BQ!Next]_queue /\ Inv'
  <1> SUFFICES ASSUME Inv, [Next]_vars PROVE [BQ!Next]_queue /\ Inv'
    BY Zenon
  <1>1. SyncInv /\ P!Good(queue) /\ P!Placed(queue)
    BY ZenonT(60) DEF Inv
  <1>2. [BQ!Next]_queue /\ SyncInv'
    BY ZenonT(60), <1>1, QueueIsOK, Reserved, NumbersHold, EveryStep
  <1>3. P!Good(queue') /\ P!Placed(queue')
    BY ZenonT(60), <1>1, <1>2, QueueKept
  <1>4. P!Good(queue)' /\ P!Placed(queue)'
    BY ZenonT(60), <1>3 DEF P!Good, P!UniqueStarts, P!Placed
  <1> QED
    BY ZenonT(60), <1>2, <1>4 DEF Inv

(* Inv holds in every reachable state, for any connections, chains,         *)
(* branches and limits: above all, a needed list is always a run of the     *)
(* peer's own chain, and the handlers of a connection that is closed have   *)
(* ended.                                                                   *)
THEOREM InvHolds == FairSpec => []Inv
  BY InvInit, InvStep, PTL DEF FairSpec

(* The refinement: every step of the handlers, timers and peers, in         *)
(* whatever order they interleave, is a call of one method of block_queue   *)
(* with arguments that method allows, or leaves the queue alone.  So what   *)
(* is proved of BlockQueue for any sequence of calls holds of the queue in  *)
(* the node, with its handlers.                                             *)
THEOREM HandlersUseTheQueue == FairSpec => QueueSpec
  <1>1. Init => BQ!Init
    BY ZenonT(60) DEF Init, BQ!Init
  <1> QED
    BY <1>1, InvInit, InvStep, PTL DEF FairSpec, QueueSpec, BQ!Spec

(* A connection that is synchronizing, with no handler running, waits for   *)
(* an answer or has a callback requested, so kick_idle_peers or             *)
(* on_callback() reaches it; except after a span with a wrong block or an   *)
(* exception (idle).                                                        *)
THEOREM NobodyIsForgotten == FairSpec => []NotForgotten
  <1>1. Inv => NotForgotten
    BY Zenon DEF Inv, SyncInv, OwnOK, Woken, NotForgotten, Ready
  <1> QED
    BY <1>1, InvHolds, PTL
=============================================================================
