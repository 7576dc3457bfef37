------------------------------ MODULE BlockSync ------------------------------
(***************************************************************************)
(* Block synchronisation (cryptonote_protocol_handler.inl): how the        *)
(* connections of a node that is behind download blocks through the shared *)
(* block queue and add them to the chain.                                  *)
(*                                                                         *)
(* Each connection runs at most one handler at a time; the handlers of     *)
(* different connections run in different threads.  A handler is cut where *)
(* it calls a method of the queue that changes it, takes or releases       *)
(* m_sync_lock, or hands a span to the core: between two cuts it is one    *)
(* step.  pc[c] is where connection c's handler is.                        *)
(*                                                                         *)
(* The peers answer from a fixed chain, after any delay; an answer fails   *)
(* to come only when the connection closes.  Connections are made again.   *)
(* All peers are unpruned (the stripes are in BlockQueue), outgoing and on *)
(* hosts of their own; the node mines nothing and is sent no new block, so *)
(* that its chain grows by this code alone.                                *)
(***************************************************************************)
EXTENDS Integers, Sequences, FiniteSetsExt

CONSTANTS
    Connections, Hashes, Chain, Seed, LocalSeed, MaxBlocks,
    StripeSize, LogStripes, TipBlocks,
    Genesis,       \* the block that every chain starts from
    None,          \* no block, connection or span
    Bad,           \* blocks that do not verify, with all their descendants
    NearBlocks,    \* BLOCK_QUEUE_FORCE_DOWNLOAD_NEAR_BLOCKS
    MaxSpans,      \* filled spans beyond which downloading pauses
    MaxIds,        \* ids in a chain entry
    MaxFaults      \* bound: first time-outs of a connection, connections that peers
                   \* close, timed synchronisations that come while in standby,
                   \* locks found taken by somebody who only tries them, wrong
                   \* blocks that are not remembered as invalid

VARIABLES
    queue,     \* m_block_queue
    ctx,       \* the connection contexts
    pc,        \* where each connection's handler is
    net,       \* net[c]: requests sent to c and not answered, oldest first
    main,      \* the main chain, genesis left out
    known,     \* the blocks have_block() finds: main, alternative, invalid
    target,    \* get_target_blockchain_height()
    lock,      \* the connection whose handler holds m_sync_lock, or None
    adding,    \* the span that the holder of the lock took from the queue
    faults     \* how many of the events MaxFaults bounds there were

vars == <<queue, ctx, pc, net, main, known, target, lock, adding, faults>>

(* The queue on its own; here the handlers call its methods.                *)
BQ == INSTANCE BlockQueue WITH
          Connections <- Connections, Hashes <- Hashes, Chain <- Chain,
          Seed <- Seed, LocalSeed <- LocalSeed, MaxBlocks <- MaxBlocks,
          StripeSize <- StripeSize, LogStripes <- LogStripes, TipBlocks <- TipBlocks,
          queue <- queue

ASSUME SyncAssumption ==
    /\ Genesis \notin Hashes /\ None \notin Connections \cup Hashes \cup {Genesis}
    /\ Bad \subseteq Hashes
    /\ IsFiniteSet(Hashes) /\ Chain \in [Connections -> Seq(Hashes)]
    /\ \A c \in Connections : Chain[c] # <<>>
    /\ Seed = [c \in Connections |-> 0] /\ LocalSeed \in BQ!Seeds
    /\ {MaxBlocks, NearBlocks, MaxSpans} \subseteq Nat \ {0} /\ MaxIds \in Nat \ {0, 1}

(* The sizes of the stripes, as in module Stripes.                          *)
ASSUME StripesAssumption ==
    StripeSize \in Nat \ {0} /\ LogStripes \in 1..7 /\ BQ!NumStripes \in 1..128 /\ TipBlocks \in Nat

(* A block holds the hash of its parent, so it has one height and one       *)
(* branch below it, whichever peers have it.                                *)
ASSUME BranchAssumption ==
    \A c, d \in Connections : \A i \in 1..Len(Chain[c]), j \in 1..Len(Chain[d]) :
        Chain[c][i] = Chain[d][j] => i = j /\ \A k \in 1..i : Chain[c][k] = Chain[d][k]

-----------------------------------------------------------------------------
(* Blocks and heights.  A chain of n blocks after the genesis has height    *)
(* n + 1, the height of the block that would come next.                     *)

Block(c, h) == IF h = 0 THEN Genesis ELSE Chain[c][h]

BlockHeight(b) ==
    IF b = Genesis THEN 0
    ELSE CHOOSE h \in UNION {1..Len(Chain[c]) : c \in Connections} :
            \E c \in Connections : h <= Len(Chain[c]) /\ Chain[c][h] = b

Branch(b) ==
    IF b = Genesis THEN <<>>
    ELSE LET c == CHOOSE d \in Connections : b \in Range(Chain[d])
         IN  SubSeq(Chain[c], 1, BlockHeight(b))

Parent(b) == IF BlockHeight(b) = 1 THEN Genesis ELSE Branch(b)[BlockHeight(b) - 1]

Last(s) == s[Len(s)]

(* The blocks of hs that are in S, in their order.                          *)
Among(hs, S) ==
    LET I == {i \in 1..Len(hs) : hs[i] \in S}
    IN  [n \in 1..Cardinality(I) |->
            hs[CHOOSE i \in I : Cardinality({j \in I : j <= i}) = n]]

CurrentHeight == Len(main) + 1

RemoteHeight(c) == Len(Chain[c]) + 1

AddedTo(chain, b) == IF BlockHeight(b) > Len(chain) THEN Branch(b) ELSE chain

NeededHeight == BQ!get_next_needed_height(queue, CurrentHeight)

-----------------------------------------------------------------------------
(* The context of a connection.                                             *)

NewContext ==
    [up |-> "closed", state |-> "normal", needed |-> <<>>, requested |-> {},
     last_response |-> 0, last_known |-> None, expect |-> "none",
     expect_height |-> 0, asked |-> FALSE, score |-> 0, callback |-> FALSE,
     handler |-> "none", force |-> FALSE, span |-> None, idle |-> FALSE]

(* The locals of a handler that has not returned: what the handler is for,  *)
(* force_next_span, and the next span it is about to ask for.               *)
Locals(k) == [k EXCEPT !.handler = "none", !.force = FALSE, !.span = None]

(* ctx.idle is history: a handler ended without going back to download.     *)

Set(c, k) == ctx' = [ctx EXCEPT ![c] = k]
Go(c, where) == pc' = [pc EXCEPT ![c] = where]
At(c, where) == pc[c] = where /\ ctx[c].up # "closed"
Ready(c) == pc[c] = "wait" /\ ctx[c].up = "open"
Live == {c \in Connections : ctx[c].up # "closed"}

Fault == faults < MaxFaults /\ faults' = faults + 1

(* try_to_lock on m_sync_lock: it fails while another handler adds blocks,  *)
(* and when it meets a thread that only tries the lock.                     *)
TryToLock(owns) ==
    /\ owns => lock = None
    /\ IF lock = None /\ ~owns THEN Fault ELSE UNCHANGED faults

(* A target below what the peer reports is raised.                          *)
Raised(c) == Max({target, RemoteHeight(c)})

Forget(k) == [k EXCEPT !.expect = "none", !.expect_height = 0, !.requested = {}]

(* NOTIFY_REQUEST_CHAIN: the peer answers from the first id it has on its   *)
(* chain, so the request is kept as the height the answer starts at.  from  *)
(* is the hash put in front of the ids of the own chain, or None.           *)
ChainRequest(c, from) ==
    LET common == Max({h \in 0..Len(Chain[c]) :
                          h = 0 \/ (h <= Len(main) /\ main[h] = Chain[c][h])})
    IN  [kind |-> "chain",
         start |-> IF from \in Range(Chain[c]) THEN BlockHeight(from) ELSE common]

(* The hashes at the front of the needed list that the node has, or also    *)
(* that the queue holds, are dropped; when none is left the last of them is *)
(* remembered.                                                              *)
skip_unneeded_hashes(k, check_queue) ==
    LET Unneeded(b) == b \in known \/ (check_queue /\ b \in queue.have)
        n == Max({i \in 0..Len(k.needed) : \A j \in 1..i : Unneeded(k.needed[j])})
    IN  [k EXCEPT !.needed = SubSeq(@, n + 1, Len(@)),
                  !.last_known = IF n > 0 /\ n = Len(k.needed) THEN Last(k.needed) ELSE @]

(* k, from which l skipped hashes, has nothing left and asked for nothing.  *)
Exhausted(k, l) == l.needed # k.needed /\ l.needed = <<>> /\ ~k.asked

(* The span that the next block of the chain is in, if it is the first.     *)
NextSpan == {s \in queue.blocks : BQ!IsFirst(queue.blocks, s) /\ s.start <= CurrentHeight}

(* late: the next span was requested long enough ago (a threshold on its    *)
(* age, and in standby on the stall and speed of its connection).           *)
should_download_next_span(c, late) ==
    /\ RemoteHeight(c) > CurrentHeight
    /\ NextSpan = {} \/ (late /\ \E s \in NextSpan : s.blocks = <<>>)

-----------------------------------------------------------------------------
(* Faulty: the spans go, but their hashes stay requested.                   *)
DropForgetsHashes(c, all) ==
    /\ queue' = [queue EXCEPT !.blocks = {s \in @ : s.conn # c \/ (~all /\ s.blocks # <<>>)}]
    /\ ctx' = [ctx EXCEPT ![c].up = "dropped"]

(* Dropping: the spans only scheduled on the connection, or all of them,    *)
(* are flushed, and the connection is shut down.                            *)

Drop(c, all) ==
    /\ queue' = BQ!flush_spans(queue, c, all)
    /\ ctx' = [ctx EXCEPT ![c].up = "dropped"]

(* Faulty: the spans scheduled on the connection stay.                      *)
CloseKeepsSpans(c) ==
    /\ pc[c] = "wait" /\ ctx[c].up = "dropped"
    /\ ctx' = [ctx EXCEPT ![c] = NewContext]
    /\ net' = [net EXCEPT ![c] = <<>>]
    /\ target' = LET left == {RemoteHeight(d) : d \in Live \ {c}}
                     most == IF left = {} THEN 0 ELSE Max(left)
                 IN  IF most < target THEN most ELSE target
    /\ UNCHANGED <<queue, pc, main, known, lock, adding, faults>>

(* on_connection_close.                                                     *)
Close(c) ==
    /\ pc[c] = "wait" /\ ctx[c].up = "dropped"
    /\ ctx' = [ctx EXCEPT ![c] = NewContext]
    /\ net' = [net EXCEPT ![c] = <<>>]
    /\ queue' = BQ!flush_spans(queue, c, FALSE)
    /\ target' = LET left == {RemoteHeight(d) : d \in Live \ {c}}
                     most == IF left = {} THEN 0 ELSE Max(left)
                 IN  IF most < target THEN most ELSE target
    /\ UNCHANGED <<pc, main, known, lock, adding, faults>>

(* The peer, or the network, ends a connection.                             *)
PeerCloses(c) ==
    /\ ctx[c].up = "open"
    /\ Fault
    /\ ctx' = [ctx EXCEPT ![c].up = "dropped"]
    /\ UNCHANGED <<queue, pc, net, main, known, target, lock, adding>>

(* process_payload_sync_data: k is the context before it.                   *)
SyncData(c, k) ==
    LET behind == Last(Chain[c]) \notin known
        reference == IF target = 0 THEN CurrentHeight ELSE target
    IN  /\ Set(c, IF behind
                  THEN [k EXCEPT !.state = "synchronizing", !.callback = TRUE, !.asked = FALSE]
                  ELSE [k EXCEPT !.state = "normal"])
        /\ target' = IF behind /\ RemoteHeight(c) > reference THEN RemoteHeight(c) ELSE target
        /\ UNCHANGED <<queue, pc, net, main, known, lock, adding>>

Connect(c) ==
    /\ ctx[c].up = "closed"
    /\ SyncData(c, [NewContext EXCEPT !.up = "open"])
    /\ UNCHANGED faults

(* The timed synchronisation; it returns at once while synchronizing.       *)
TimedSync(c) ==
    /\ Ready(c) /\ ctx[c].state # "synchronizing"
    /\ IF ctx[c].state = "standby" THEN Fault ELSE UNCHANGED faults
    /\ SyncData(c, ctx[c])

(* check_standby_peers.                                                     *)
CheckStandby(c) ==
    /\ ctx[c].up = "open" /\ ctx[c].state = "standby" /\ ~ctx[c].callback
    /\ ctx' = [ctx EXCEPT ![c].callback = TRUE]
    /\ UNCHANGED <<queue, pc, net, main, known, target, lock, adding, faults>>

-----------------------------------------------------------------------------
(* on_callback, and what it is requested for.                               *)

OnCallback(c) ==
    LET k == [ctx[c] EXCEPT !.callback = FALSE]
    IN  /\ Ready(c) /\ ctx[c].callback
        /\ IF k.state = "synchronizing" /\ k.expect = "none"
           THEN /\ Set(c, [k EXCEPT !.needed = <<>>, !.expect = "chain",
                                    !.expect_height = CurrentHeight])
                /\ net' = [net EXCEPT ![c] = Append(@, ChainRequest(c, None))]
                /\ UNCHANGED pc
           ELSE /\ Set(c, IF k.state = "standby" THEN [k EXCEPT !.state = "synchronizing", !.handler = "callback"] ELSE k)
                /\ IF k.state = "standby" THEN Go(c, "add") ELSE UNCHANGED pc
                /\ UNCHANGED net
        /\ UNCHANGED <<queue, main, known, target, lock, adding, faults>>

(* kick_idle_peers and the part of on_callback it asks for: a request has   *)
(* had no answer for too long.  Once, the request is forgotten (not the     *)
(* span, nor the answer that may still come) and the handler goes back to   *)
(* adding and downloading; the next time the peer is dropped.               *)
KickIdle(c) ==
    LET k == ctx[c] IN
    /\ Ready(c)
    /\ k.state = "synchronizing" /\ k.expect # "none"
    /\ IF k.score >= 0
       THEN /\ Fault
            /\ Set(c, [Forget(k) EXCEPT !.score = @ - 1, !.handler = "callback"])
            /\ Go(c, "add")
            /\ UNCHANGED queue
       ELSE Drop(c, FALSE) /\ UNCHANGED <<pc, faults>>
    /\ UNCHANGED <<net, main, known, target, lock, adding>>

-----------------------------------------------------------------------------
(* Faulty: also a height as high as expected.                               *)
TooHighByOne(k, height) == height >= k.expect_height

(* An answer may not start above the height it was asked for.               *)
TooHigh(k, height) == height > k.expect_height

(* handle_response_get_objects: the peer sends those of the requested       *)
(* blocks that it has.                                                      *)

ResponseGetObjects(c) ==
    /\ Ready(c) /\ net[c] # <<>> /\ Head(net[c]).kind = "objects"
    /\ net' = [net EXCEPT ![c] = Tail(@)]
    /\ LET k == ctx[c]
           blocks == Among(Head(net[c]).hashes, Range(Chain[c]))
           start == BlockHeight(blocks[1])
       IN  /\ IF \/ k.expect # "objects"
                 \/ blocks = <<>>
                 \/ TooHigh(k, start)
                 \/ Range(blocks) # k.requested
              THEN Drop(c, FALSE) /\ UNCHANGED pc
              ELSE /\ queue' = BQ!add_blocks(queue, start, blocks, c)
                   /\ Set(c, [Forget(k) EXCEPT !.last_known = Last(blocks), !.handler = "objects"])
                   /\ Go(c, "add")
           /\ target' = IF k.expect = "objects" /\ blocks # <<>> THEN Raised(c) ELSE target
    /\ UNCHANGED <<main, known, lock, adding, faults>>

(* handle_response_chain_entry: the first id must be known or on its way,   *)
(* and after an id that is not known none may be.                           *)
ResponseChainEntry(c) ==
    /\ Ready(c) /\ net[c] # <<>> /\ Head(net[c]).kind = "chain"
    /\ net' = [net EXCEPT ![c] = Tail(@)]
    /\ LET k == ctx[c]
           start == Head(net[c]).start
           end == Min({Len(Chain[c]), start + MaxIds - 1})
           ids == [i \in 1..end - start + 1 |-> Block(c, start + i - 1)]
           Invalid(b) == b \in known \cap Bad
       IN  IF \/ k.expect # "chain"
              \/ TooHigh(k, start + 1)
              \/ ids[1] \notin known \cup queue.requested \cup queue.have
              \/ \E i \in 2..Len(ids) : Invalid(ids[i])
              \/ \E i, j \in 1..Len(ids) : i < j /\ ids[i] \notin known /\ ids[j] \in known
           THEN Drop(c, FALSE) /\ UNCHANGED pc
           ELSE /\ Set(c, [k EXCEPT !.expect = "none", !.last_response = end, !.needed = ids,
                                    !.handler = "entry", !.force = FALSE])
                /\ Go(c, "flush")
                /\ UNCHANGED queue
    /\ UNCHANGED <<main, known, target, lock, adding, faults>>

-----------------------------------------------------------------------------
(* try_add_next_blocks.                                                     *)

TryLock(c) ==
    /\ At(c, "add")
    /\ \E owns \in BOOLEAN :
         /\ TryToLock(owns)
         /\ IF owns
            THEN lock' = c /\ Go(c, "next") /\ UNCHANGED ctx
            ELSE Set(c, [ctx[c] EXCEPT !.force = FALSE]) /\ Go(c, "flush") /\ UNCHANGED lock
    /\ UNCHANGED <<queue, net, main, known, target, adding>>

(* Faulty: the handler returns instead.                                     *)
ReturnAtOnce(c, k) == Set(c, Locals(k)) /\ lock' = None /\ Go(c, "wait")

(* The label skip, reached with the lock held.                              *)
BackToDownload(c, k) == Set(c, [k EXCEPT !.force = FALSE]) /\ lock' = None /\ Go(c, "flush")

(* The next filled span is looked at: it is old, or its parent is not there *)
(* (not even requested, or on its way), or it is ready to be added.         *)
LookAtSpan(c) ==
    /\ At(c, "next")
    /\ \E s \in BQ!get_next_span(queue) :
         LET parent == Parent(s.blocks[1])
             orphan == parent \notin known \cup queue.requested
         IN  IF Last(s.blocks) \in known
             THEN /\ queue' = BQ!remove_spans(queue, s.conn, s.start)
                  /\ UNCHANGED <<ctx, pc, lock, adding>>
             ELSE IF orphan /\ s.start > CurrentHeight
             THEN BackToDownload(c, ctx[c]) /\ UNCHANGED <<queue, adding>>
             ELSE IF orphan
             THEN /\ BackToDownload(c, [ctx[c] EXCEPT !.needed = <<>>, !.last_response = 0])
                  /\ queue' = BQ!remove_spans(queue, s.conn, s.start)
                  /\ UNCHANGED adding
             ELSE /\ Go(c, IF parent \in known THEN "handle" ELSE "stop")
                  /\ adding' = IF parent \in known THEN s ELSE None
                  /\ UNCHANGED <<queue, ctx, lock>>
    /\ UNCHANGED <<net, main, known, target, faults>>

NoSpanLeft(c) ==
    /\ At(c, "next") /\ BQ!get_next_span(queue) = {}
    /\ Go(c, "stop")
    /\ UNCHANGED <<queue, ctx, net, main, known, target, lock, adding, faults>>

(* A wrong span: all the connections to its host go, and the handler ends,  *)
(* with the queue q that dropping them left.                                *)
SpanFailed(c, q) ==
    /\ queue' = q
    /\ ctx' = [e \in Connections |->
                 LET k == IF e = c THEN [Locals(ctx[c]) EXCEPT !.idle = TRUE] ELSE ctx[e]
                 IN  IF e = adding.conn /\ e \in Live THEN [k EXCEPT !.up = "dropped"] ELSE k]
    /\ lock' = None /\ adding' = None
    /\ Go(c, "wait")

(* prepare_handle_incoming_blocks may refuse a span with a wrong block, if  *)
(* it continues the main chain with new blocks; the span is then not        *)
(* removed.  Otherwise the core takes the blocks in order, up to one that   *)
(* fails; they follow each other, so the last one decides whether to        *)
(* switch.  Only some failures are remembered (add_block_as_invalid).       *)
HandleSpan(c) ==
    LET bs == adding.blocks
        n == Max({i \in 0..Len(bs) : \A j \in 1..i : bs[j] \notin Bad})
        good == SubSeq(bs, 1, n)
        failed == n < Len(bs)
        top == IF main = <<>> THEN Genesis ELSE Last(main)
        flushed == IF adding.conn \in Live THEN BQ!flush_spans(queue, adding.conn, TRUE) ELSE queue
    IN  /\ At(c, "handle")
        /\ \/ /\ failed /\ Parent(bs[1]) = top /\ Range(bs) \cap known = {}
              /\ SpanFailed(c, flushed)
              /\ UNCHANGED <<main, known, faults>>
           \/ /\ main' = IF n = 0 THEN main ELSE AddedTo(main, Last(good))
              /\ \/ /\ ~failed
                    /\ known' = known \cup Range(good)
                    /\ Go(c, "remove")
                    /\ UNCHANGED <<queue, ctx, lock, adding, faults>>
                 \/ /\ failed
                    /\ \/ known' = known \cup Range(good) \cup {bs[n + 1]} /\ UNCHANGED faults
                       \/ known' = known \cup Range(good) /\ Fault
                    /\ SpanFailed(c, BQ!remove_spans(flushed, adding.conn, adding.start))
        /\ UNCHANGED <<net, target>>

RemoveAdded(c) ==
    /\ At(c, "remove")
    /\ queue' = BQ!remove_spans(queue, adding.conn, adding.start)
    /\ adding' = None
    /\ Go(c, "next")
    /\ UNCHANGED <<ctx, net, main, known, target, lock, faults>>

StopAdding(c) ==
    /\ At(c, "stop")
    /\ \E late \in BOOLEAN :
         Set(c, [ctx[c] EXCEPT !.force = should_download_next_span(c, late)])
    /\ lock' = None
    /\ Go(c, "flush")
    /\ UNCHANGED <<queue, net, main, known, target, adding, faults>>

-----------------------------------------------------------------------------
(* request_missing_objects.                                                 *)

FlushStale(c) ==
    /\ At(c, "flush")
    /\ queue' = BQ!flush_stale_spans(queue, Live)
    /\ Go(c, IF ctx[c].force THEN "request" ELSE "pace")
    /\ UNCHANGED <<ctx, net, main, known, target, lock, adding, faults>>

(* The handler returns with context k; a chain entry's last assignment is   *)
(* the reset of the number of objects requested.                            *)
Return(c, k) ==
    /\ target' = IF k.handler = "entry" THEN Raised(c) ELSE target
    /\ Set(c, Locals([k EXCEPT !.asked = @ /\ k.handler # "entry"]))
    /\ Go(c, "wait")
    /\ UNCHANGED queue

(* request_missing_objects returns false.                                   *)
Fail(c) == Drop(c, FALSE) /\ Go(c, "wait") /\ UNCHANGED target

(* Nothing is left to ask this peer for, and nothing was asked.             *)
NothingToGet(c, k) ==
    IF RemoteHeight(c) > NeededHeight THEN Fail(c)
    ELSE Return(c, [k EXCEPT !.state = "normal"])

(* Whether to download more or to pause; late stands for what the clock     *)
(* decides: the next span's age, and the time since blocks were last added. *)
Pace(c) ==
    LET k == skip_unneeded_hashes(ctx[c], TRUE)
        next_block_height == IF k.needed = <<>> THEN NeededHeight
                             ELSE k.last_response - Len(k.needed) + 1
        near == Min({next_block_height, NeededHeight}) < CurrentHeight + NearBlocks
        room == Cardinality(BQ!Filled(queue)) < MaxSpans
    IN  /\ At(c, "pace")
        /\ IF Exhausted(ctx[c], k) THEN NothingToGet(c, k) /\ UNCHANGED faults
           ELSE IF near \/ room
           THEN /\ \E late \in BOOLEAN :
                     Set(c, [k EXCEPT !.state = "synchronizing",
                                      !.force = near /\ should_download_next_span(c, late)])
                /\ Go(c, "request")
                /\ UNCHANGED <<queue, target, faults>>
           ELSE \E owns, late \in BOOLEAN :
                  /\ TryToLock(owns)
                  /\ IF owns /\ \E s \in NextSpan : s.blocks # <<>>
                     THEN Return(c, [k EXCEPT !.state = "standby", !.callback = TRUE])
                     ELSE IF owns /\ late
                     THEN Fail(c)
                     ELSE Return(c, [k EXCEPT !.state = "standby"])
        /\ UNCHANGED <<net, main, known, lock, adding>>

SendObjects(c, k, start, hashes, q) ==
    /\ net' = [net EXCEPT ![c] = Append(@, [kind |-> "objects", hashes |-> hashes])]
    /\ Set(c, Locals([k EXCEPT !.requested = @ \cup Range(hashes), !.expect = "objects",
                               !.expect_height = start, !.asked = k.handler # "entry"]))
    /\ target' = IF k.handler = "entry" THEN Raised(c) ELSE target
    /\ Go(c, "wait")
    /\ queue' = q

AnyHeight == Max({RemoteHeight(c) : c \in Connections}) + 1

(* The label skip of request_missing_objects: add blocks if somebody can,   *)
(* else ask for more of the peer's chain, if there is more.                 *)
NoObjects(c, l) ==
    LET k == [l EXCEPT !.needed = <<>>]
        top == IF main = <<>> THEN Genesis ELSE Last(main)
        from == IF k.last_known = top THEN None ELSE k.last_known
    IN  \E owns \in BOOLEAN :
          /\ IF CurrentHeight < target THEN TryToLock(owns) ELSE ~owns /\ UNCHANGED faults
          /\ IF owns /\ BQ!get_next_span(queue) # {}
             THEN Return(c, [k EXCEPT !.state = "standby", !.callback = TRUE]) /\ UNCHANGED net
             ELSE IF k.last_response < RemoteHeight(c) - 1
             THEN /\ Return(c, [k EXCEPT !.expect = "chain",
                                         !.expect_height = IF from = None THEN CurrentHeight ELSE AnyHeight])
                  /\ net' = [net EXCEPT ![c] = Append(@, ChainRequest(c, from))]
             ELSE IF k.requested = {} THEN Return(c, [k EXCEPT !.state = "normal"]) /\ UNCHANGED net
             ELSE Fail(c) /\ UNCHANGED net

(* Which blocks to ask for: the next span, when it is to be forced; else a  *)
(* span reserved from the needed list; else, again, the next span; and when *)
(* there is none, the peer is not needed or of no use.                      *)
Request(c) ==
    LET k == ctx[c]
        l == skip_unneeded_hashes(k, FALSE)
        r == BQ!reserve_span(queue, l.needed, l.last_response, c, RemoteHeight(c), FALSE)
        skip == r.start - (l.last_response - Len(l.needed) + 1)
        next == BQ!get_next_span_if_scheduled(queue)
        s == CHOOSE t \in next : TRUE
    IN  /\ At(c, "request")
        /\ IF k.needed = <<>> /\ ~k.force
           THEN NoObjects(c, k)
           ELSE IF (k.force => next = {}) /\ k.last_response + 1 < Len(k.needed)
           THEN NoObjects(c, [k EXCEPT !.last_response = 0])
           ELSE /\ IF k.force /\ next # {}
                   THEN /\ Set(c, [k EXCEPT !.requested = @ \cup Range(s.hashes), !.span = s])
                        /\ Go(c, "reset")
                        /\ UNCHANGED <<queue, net, target>>
                   ELSE IF Exhausted(k, l)
                   THEN NothingToGet(c, l) /\ UNCHANGED net
                   ELSE IF r.nblocks > 0
                   THEN SendObjects(c, [l EXCEPT !.needed = SubSeq(@, skip + r.nblocks + 1, Len(@))],
                                    r.start, SubSeq(l.needed, skip + 1, skip + r.nblocks), r.queue)
                   ELSE IF ~k.force /\ next # {}
                   THEN SendObjects(c, [l EXCEPT !.needed = Among(@, Range(@) \ Range(s.hashes))],
                                    s.start, s.hashes, queue)
                   ELSE IF Max({CurrentHeight, NeededHeight}) >= target
                   THEN Return(c, [l EXCEPT !.state = "normal"]) /\ UNCHANGED net
                   ELSE Fail(c) /\ UNCHANGED net
                /\ UNCHANGED faults
        /\ UNCHANGED <<main, known, lock, adding>>

(* reset_next_span_time() throws when the first span is no longer scheduled *)
(* only: out of a message handler this ends the connection, out of a        *)
(* callback it ends the callback.                                           *)
ResetNextSpan(c) ==
    LET k == ctx[c] IN
    /\ At(c, "reset")
    /\ IF BQ!get_next_span_if_scheduled(queue) # {}
       THEN SendObjects(c, k, k.span.start, k.span.hashes, queue)
       ELSE /\ Set(c, IF k.handler = "callback" THEN [Locals(k) EXCEPT !.idle = TRUE]
                      ELSE [Locals(k) EXCEPT !.up = "dropped"])
            /\ Go(c, "wait")
            /\ UNCHANGED <<queue, net, target>>
    /\ UNCHANGED <<main, known, lock, adding, faults>>

-----------------------------------------------------------------------------
Init ==
    /\ queue = BQ!EmptyQueue
    /\ ctx = [c \in Connections |-> NewContext]
    /\ pc = [c \in Connections |-> "wait"]
    /\ net = [c \in Connections |-> <<>>]
    /\ main = <<>> /\ known = {Genesis}
    /\ target = 0 /\ lock = None /\ adding = None /\ faults = 0

(* The steps of the handlers that are running.                              *)
Step(c) ==
    \/ TryLock(c) \/ LookAtSpan(c) \/ NoSpanLeft(c) \/ HandleSpan(c) \/ RemoveAdded(c)
    \/ StopAdding(c) \/ FlushStale(c) \/ Pace(c) \/ Request(c) \/ ResetNextSpan(c)

Next ==
    \E c \in Connections :
        \/ Connect(c) \/ Close(c) \/ PeerCloses(c) \/ TimedSync(c) \/ CheckStandby(c)
        \/ OnCallback(c) \/ KickIdle(c)
        \/ ResponseGetObjects(c) \/ ResponseChainEntry(c)
        \/ Step(c)

(* Handlers run on, pending callbacks and answers are handled, and what was *)
(* closed is connected again.                                               *)
Progress(c) ==
    \/ Step(c) \/ OnCallback(c) \/ CheckStandby(c) \/ Connect(c) \/ Close(c)
    \/ ResponseGetObjects(c) \/ ResponseChainEntry(c)

(* ENABLED <<Progress(c)>>_vars, written out.                               *)
Pending(c) ==
    \/ pc[c] # "wait" \/ ctx[c].up # "open"
    \/ ctx[c].callback \/ ctx[c].state = "standby" \/ net[c] # <<>>

(* Progress(c) and the timed synchronisation are weakly fair.  An answer    *)
(* waits for the handler that runs, in the order of the strand, and then    *)
(* for no other for ever: strong fairness.  Requests need not time out.     *)
Fairness ==
    \A c \in Connections :
        /\ []<>~Pending(c) \/ []<><<Progress(c)>>_vars
        /\ <>[]~(Ready(c) /\ net[c] # <<>>)
           \/ []<><<ResponseGetObjects(c) \/ ResponseChainEntry(c)>>_vars
        /\ WF_vars(TimedSync(c))

FairSpec == Init /\ [][Next]_vars /\ Fairness

-----------------------------------------------------------------------------
(* Every step of the handlers is a step, or a stuttering step, of module    *)
(* BlockQueue, whatever the threads interleave: the spans a handler         *)
(* reserves, fills, flushes and removes are used as the queue's             *)
(* specification, whose invariants are proved, allows.                      *)
QueueSpec == BQ!Spec

(* A connection that synchronizes and runs no handler has a request out or  *)
(* a callback coming: nothing else wakes it, since kick_idle_peers looks    *)
(* for a request and the timed synchronisation leaves it alone.  Handlers   *)
(* that ended without going back to download are the exception (idle).      *)
NotForgotten ==
    \A c \in Connections :
        Ready(c) /\ ctx[c].state = "synchronizing" /\ ~ctx[c].idle =>
            ctx[c].expect # "none" \/ ctx[c].callback

(* The longest chain of a peer on which every block is right.               *)
BestChain ==
    LET right == {Chain[c] : c \in {d \in Connections : Range(Chain[d]) \cap Bad = {}}}
    IN  CHOOSE s \in right : \A t \in right : Len(t) <= Len(s)

(* While nothing times out or is cut, and no handler ended early, the whole *)
(* of the best chain is downloaded in the end, however the connections      *)
(* reserve, wait for, overtake and flush each other's spans.  (That it is   *)
(* added too does not follow: see the README.)                              *)
Downloaded ==
    <>(\/ Range(BestChain) \subseteq known \cup queue.have
       \/ faults > 0 \/ \E c \in Connections : ctx[c].idle)

(* No connection keeps a span scheduled for ever: the blocks come, or the   *)
(* span is flushed, also after time-outs, late answers and lost connections *)
(* and after another connection was set on the span.                        *)
Settles ==
    \A c \in Connections :
        []<>(\A s \in queue.blocks : s.conn = c => s.blocks # <<>>)
=============================================================================
