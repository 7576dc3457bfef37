----------------------------- MODULE BlockQueue -----------------------------
(***************************************************************************)
(* The queue of block spans that all the connections of a synchronising    *)
(* node share (cryptonote_protocol/block_queue.cpp).  A span is a run of   *)
(* consecutive heights, scheduled for download on a connection or filled   *)
(* with the blocks that a connection sent.  Every method holds the queue's *)
(* mutex throughout, so a method is one step; the methods are operators on *)
(* the queue, so that the protocol handler's steps can combine them.       *)
(*                                                                         *)
(* Blocks stand for their hashes.  Download rates, sizes and times are     *)
(* left out: no decision about the contents of the queue depends on them.  *)
(***************************************************************************)
EXTENDS Stripes, Sequences, FiniteSets

CONSTANTS
    Connections,       \* connection ids
    Hashes,            \* block hashes
    Chain,             \* Chain[c][h]: the block at height h on c's chain
    Seed,              \* Seed[c]: the pruning seed c announces
    LocalSeed,         \* the node's own pruning seed
    MaxBlocks          \* get_block_sync_size: blocks in a request

ASSUME QueueAssumption ==
    /\ IsFiniteSet(Hashes)
    /\ Chain \in [Connections -> Seq(Hashes)]
    /\ Seed \in [Connections -> Seeds]
    /\ LocalSeed \in Seeds
    /\ MaxBlocks \in Nat \ {0}

VARIABLE queue

Height(c) == Len(Chain[c])

Elems(s) == {s[i] : i \in 1..Len(s)}

Span == [start : Nat, nblocks : Nat \ {0}, conn : Connections,
         hashes : Seq(Hashes), blocks : Seq(Hashes)]

Queue == [blocks : SUBSET Span, requested : SUBSET Hashes, have : SUBSET Hashes]

HashesOf(S) == UNION {Elems(s.hashes) : s \in S}

Filled(q) == {s \in q.blocks : s.blocks # <<>>}

EmptyQueue == [blocks |-> {}, requested |-> {}, have |-> {}]

(* The std::set is ordered by start height alone: a second span with the    *)
(* same start is not inserted.                                              *)
Insert(q, s) ==
    IF \E t \in q.blocks : t.start = s.start THEN q
    ELSE [q EXCEPT !.blocks = @ \union {s}]

(* Faulty: the hashes of an erased span stay requested.                     *)
EraseKeepsRequested(q, S) ==
    [q EXCEPT !.blocks = @ \ S, !.have = @ \ HashesOf(S)]

(* Faulty: the hashes of an erased span stay among the blocks held.         *)
EraseKeepsHave(q, S) ==
    [q EXCEPT !.blocks = @ \ S, !.requested = @ \ HashesOf(S)]

(* erase_block for every span of S.                                         *)
erase_block(q, S) ==
    [blocks |-> q.blocks \ S,
     requested |-> q.requested \ HashesOf(S),
     have |-> q.have \ HashesOf(S)]

set_span_hashes(q, h, c, hs) ==
    LET S == {s \in q.blocks : s.start = h /\ s.conn = c}
        r == erase_block(q, S)
    IN  IF S = {} THEN q
        ELSE [r EXCEPT !.blocks = @ \union {[s EXCEPT !.hashes = hs] : s \in S},
                       !.requested = @ \union Elems(hs)]

(* add_blocks for a request that is about to be sent.                       *)
schedule_blocks(q, h, n, c) ==
    Insert(q, [start |-> h, nblocks |-> n, conn |-> c,
               hashes |-> <<>>, blocks |-> <<>>])

(* add_blocks for blocks that arrived: they replace the span that starts at *)
(* the same height, whoever it was reserved for, and take over its hashes.  *)
add_blocks(q, h, bcel, c) ==
    LET S == {s \in q.blocks : s.start = h}
        hs == (CHOOSE s \in S : TRUE).hashes
        r == Insert(erase_block(q, S),
                    [start |-> h, nblocks |-> Len(bcel), conn |-> c,
                     hashes |-> <<>>, blocks |-> bcel])
    IN  IF S = {} THEN r
        ELSE set_span_hashes([r EXCEPT !.requested = @ \union Elems(hs),
                                       !.have = @ \union Elems(hs)], h, c, hs)

flush_spans(q, c, all) ==
    erase_block(q, {s \in q.blocks : s.conn = c /\ (all \/ s.blocks = <<>>)})

flush_stale_spans(q, live) ==
    erase_block(q, {s \in q.blocks : s.blocks = <<>> /\ s.conn \notin live})

remove_spans(q, c, h) ==
    erase_block(q, {s \in q.blocks : s.conn = c /\ s.start <= h})

-----------------------------------------------------------------------------
(* Queries.  The first span is the one with the lowest start.               *)

IsFirst(S, s) == s \in S /\ \A t \in S : s.start <= t.start

First(S) == CHOOSE s \in S : IsFirst(S, s)

get_next_span_if_scheduled(q) ==
    {s \in q.blocks : IsFirst(q.blocks, s) /\ s.blocks = <<>>}

get_next_span(q) == {s \in q.blocks : IsFirst(Filled(q), s)}

(* Faulty: a gap between two spans does not stop the walk.                  *)
NeededPastGap(q, height) ==
    LET Ahead == {s \in q.blocks : s.start + s.nblocks > height}
        s1 == First(Ahead)
        stop == CHOOSE s \in Ahead : \A t \in Ahead : t.start <= s.start
    IN  IF Ahead = {} \/ s1.start # height \/ s1.blocks = <<>> THEN height
        ELSE stop.start + stop.nblocks

(* The walk over the spans in order, past those that end below the chain's  *)
(* height, up to the first that the next one does not start at the end of;  *)
(* a first span that is only scheduled stops it at once.                    *)
get_next_needed_height(q, height) ==
    LET Ahead == {s \in q.blocks : s.start + s.nblocks > height}
        Later(s) == {t \in Ahead : t.start > s.start}
        s1 == First(Ahead)
        stop == First({s \in Ahead : \/ Later(s) = {}
                                    \/ First(Later(s)).start # s.start + s.nblocks})
    IN  IF Ahead = {} \/ s1.start # height \/ s1.blocks = <<>> THEN height
        ELSE stop.start + stop.nblocks

(* The index of the first hash of hs, from index i on, that no span has     *)
(* requested; one past the end when there is none.                          *)
FirstNotRequested(q, hs, i) ==
    CHOOSE j \in i..Len(hs) + 1 :
        /\ \A k \in i..j - 1 : hs[k] \in q.requested
        /\ j = Len(hs) + 1 \/ hs[j] \notin q.requested

(* Faulty: after the jump to the peer's next stripe, the span runs on into  *)
(* heights that the peer has pruned.                                        *)
SpanLengthPastStripe(c, h, H, pruned, room) ==
    IF room < MaxBlocks THEN room ELSE MaxBlocks

(* The length of a span from height h: at most MaxBlocks, within the list,  *)
(* and only blocks that the peer (whose chain has H blocks) has in full, or *)
(* when pruned blocks are accepted, blocks that the node needs all in full  *)
(* or all pruned.                                                           *)
SpanLength(c, h, H, pruned, room) ==
    LET Wanted(k) ==
            IF pruned
            THEN has_unpruned_block(k, H, LocalSeed) = has_unpruned_block(h, H, LocalSeed)
            ELSE has_unpruned_block(k, H, Seed[c])
        limit == IF room < MaxBlocks THEN room ELSE MaxBlocks
    IN  CHOOSE n \in 0..limit :
            /\ \A k \in h..h + n - 1 : Wanted(k)
            /\ n = limit \/ ~Wanted(h + n)

(* Reserves a span of the list hs, whose last hash is at height last, for   *)
(* connection c; no blocks in the result means that none was reserved.      *)
(* pruned is sync_pruned_blocks: the node accepts pruned blocks.            *)
reserve_span(q, hs, last, c, H, pruned) ==
    LET base == last - Len(hs) + 1
        h1 == base + FirstNotRequested(q, hs, 1) - 1
        unpruned == get_next_unpruned_block_height(h1, H, Seed[c])
        h2 == IF ~pruned /\ unpruned \in h1 + 1..h1 + StripeSize - 1
              THEN unpruned ELSE h1
        i == FirstNotRequested(q, hs, h2 - base + 1)
        h == base + i - 1
        n == SpanLength(c, h, H, pruned, Len(hs) + 1 - i)
    IN  IF hs = <<>> \/ Len(hs) > last \/ h2 > last \/ n = 0
        THEN [queue |-> q, start |-> 0, nblocks |-> 0]
        ELSE [queue |-> set_span_hashes(schedule_blocks(q, h, n, c), h, c,
                                        SubSeq(hs, i, i + n - 1)),
              start |-> h, nblocks |-> n]

-----------------------------------------------------------------------------
(* Any thread may call any method at any time, with what its connection can *)
(* have: a part of the peer's chain.                                        *)

Init == queue = EmptyQueue

ReserveSpan(c) ==
    \E last \in 1..Height(c), pruned \in BOOLEAN : \E first \in 1..last :
        queue' = reserve_span(queue, SubSeq(Chain[c], first, last), last, c,
                              Height(c) + 1, pruned).queue

AddBlocks(c) ==
    \E last \in 1..Height(c) : \E first \in 1..last :
        queue' = add_blocks(queue, first, SubSeq(Chain[c], first, last), c)

FlushSpans(c) == \E all \in BOOLEAN : queue' = flush_spans(queue, c, all)

FlushStaleSpans ==
    \E live \in SUBSET Connections : queue' = flush_stale_spans(queue, live)

RemoveSpans(c) ==
    \E h \in 1..Height(c) : queue' = remove_spans(queue, c, h)

Next ==
    \/ \E c \in Connections :
          \/ ReserveSpan(c)
          \/ AddBlocks(c)
          \/ FlushSpans(c)
          \/ RemoveSpans(c)
    \/ FlushStaleSpans

Spec == Init /\ [][Next]_queue

-----------------------------------------------------------------------------
(* The queue is well formed, and no two spans start at the same height      *)
(* (block_map is ordered by start_block_height).                            *)
TypeOK ==
    /\ queue \in Queue
    /\ \A s, t \in queue.blocks : s.start = t.start => s = t

(* A hash stays in requested_hashes only as long as some span lists it:     *)
(* whichever spans are erased, replaced or taken over by another            *)
(* connection, no block stays marked as requested with nobody left to       *)
(* deliver it (reserve_span would never ask for it again).                  *)
NoLeakedRequest == queue.requested \subseteq HashesOf(queue.blocks)

(* A hash stays in have_blocks only while a filled span lists it, and while *)
(* it is requested as well: have() and requested() are kept in step by      *)
(* methods that update them separately.                                     *)
HaveIsFilled ==
    queue.have \subseteq HashesOf(Filled(queue)) \intersect queue.requested

(* get_next_needed_height never passes over a height that no span covers,   *)
(* whatever overlaps and gaps the spans have, and goes past the chain's     *)
(* height only when the block there has arrived.                            *)
NextNeededSound ==
    \A height \in 1..Cardinality(Hashes) :
        LET needed == get_next_needed_height(queue, height)
            Covers(s, h) == h \in s.start..s.start + s.nblocks - 1
        IN  /\ \A h \in height..needed - 1 : \E s \in queue.blocks : Covers(s, h)
            /\ needed > height => \E s \in Filled(queue) : Covers(s, height)

(* A reservation starts with a block that was not requested and asks the    *)
(* peer only for blocks that its stripe has in full, whether or not it      *)
(* jumped to the peer's next stripe; when pruned blocks are accepted, it    *)
(* never mixes blocks needed in full with blocks needed pruned, since one   *)
(* request is for one of the two.                                           *)
ReservedIsDownloadable ==
    \A c \in Connections, pruned \in BOOLEAN :
    \A last \in 1..Height(c) : \A first \in 1..last :
        LET r == reserve_span(queue, SubSeq(Chain[c], first, last), last, c,
                              Height(c) + 1, pruned)
            reserved == r.start..r.start + r.nblocks - 1
            Full(h, s) == has_unpruned_block(h, Height(c) + 1, s)
        IN  r.nblocks > 0 =>
              /\ reserved \subseteq first..last
              /\ Chain[c][r.start] \notin queue.requested
              /\ IF pruned
                 THEN \A g, h \in reserved : Full(g, LocalSeed) = Full(h, LocalSeed)
                 ELSE \A h \in reserved : Full(h, Seed[c])
=============================================================================
