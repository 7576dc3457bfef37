----------------------------- MODULE Blockchain -----------------------------
(***************************************************************************)
(* The chain of a node (cryptonote_core/blockchain.cpp): the main chain,   *)
(* the alternative blocks, the blocks known to be invalid, the             *)
(* transactions of the pool that blocks are made of, and the checkpoints   *)
(* (checkpoints/checkpoints.cpp).  add_new_block extends the main chain,   *)
(* stores an alternative block, or switches to the alternative chain and   *)
(* back when a block of it turns out to be invalid.                        *)
(*                                                                         *)
(* add_new_block holds the locks of the pool and of the chain until it     *)
(* returns; its loops over blocks are steps of their own, between which    *)
(* nothing else happens (reorg.mode is not "idle").                        *)
(*                                                                         *)
(* Blocks form a tree.  What verification of a block depends on besides    *)
(* its place in the tree, the pool and the key images spent is fixed by    *)
(* the constants BadHeader, BadInputs and BadReward.                       *)
(***************************************************************************)
EXTENDS Integers, Sequences, FiniteSets

CONSTANTS
    Blocks, Genesis,
    Parent,       \* Parent[b]: prev_id; the genesis block is its own
    Height,       \* Height[b]: the height in the miner transaction
    Line,         \* Line[b]: b and its ancestors
    Work,         \* Work[b]: cumulative difficulty
    Tx,
    Txs,          \* Txs[b]: tx_hashes, without the miner transaction
    KeyImage,     \* KeyImage[t]: the key image t spends
    BadHeader,    \* blocks with a wrong version, time stamp or proof of work
    BadInputs,    \* transactions whose inputs are wrong on every chain
    BadReward,    \* blocks whose miner transaction pays a wrong amount
    NewPoints,    \* blocks that may become checkpoints
    MaxBatch,     \* blocks per batch
    MayPop,       \* pop_blocks may be called
    MayDrop,      \* transactions may expire from the pool
    MayRestart    \* the node may stop at any moment and start again

ASSUME TreeAssumption ==
    /\ Genesis \in Blocks
    /\ Parent \in [Blocks -> Blocks]
    /\ Height \in [Blocks -> Nat]
    /\ Work \in [Blocks -> Nat]
    /\ Height[Genesis] = 0
    /\ \A b \in Blocks \ {Genesis} :
          /\ Height[b] = Height[Parent[b]] + 1
          /\ Work[b] > Work[Parent[b]]
    /\ Line \in [Blocks -> SUBSET Blocks]
    /\ Line[Genesis] = {Genesis}
    /\ \A b \in Blocks \ {Genesis} : Line[b] = {b} \union Line[Parent[b]]
    /\ Txs \in [Blocks -> Seq(Tx)]
    /\ Txs[Genesis] = <<>>
    /\ Genesis \notin BadHeader \union BadReward
    /\ MaxBatch \in Nat
    /\ {MayPop, MayDrop, MayRestart} \subseteq BOOLEAN

(* Checkpoints that are added later are past the built-in ones.             *)
ASSUME PointsAssumption ==
    NewPoints \subseteq {b \in Blocks : Height[b] >= 3}

VARIABLES
    main,      \* the main chain, from the genesis block
    alt,       \* the alternative blocks stored in the database
    invalid,   \* m_invalid_blocks
    pool,      \* the transactions in the pool
    points,    \* the checkpoints: blocks, at most one per height
    reorg,     \* the switch to an alternative chain in progress
    batch,     \* the database transaction around the blocks that arrive
    thrown     \* an exception has left check_against_checkpoints

vars == <<main, alt, invalid, pool, points, reorg, batch, thrown>>

Elems(s) == {s[i] : i \in 1..Len(s)}

InMain == Elems(main)
Top == main[Len(main)]
TxsOf(S) == UNION {Elems(Txs[b]) : b \in S}

(* The transactions in the database: those of the main chain, and those     *)
(* that a block left behind when its last ones could not be written.        *)
Written == TxsOf(InMain) \union batch.residue
Spent == {KeyImage[t] : t \in Written}

(* reorg.todo: the blocks still to be handled in this mode; chain: the      *)
(* alternative chain; split: the height they part; original: the old main   *)
(* chain above it; discard: the old chain is not kept.                      *)
Idle == [mode |-> "idle", todo |-> <<>>, chain |-> <<>>, split |-> 0,
         original |-> <<>>, discard |-> FALSE]

(* batch.state is "open", "stop" when no block follows in this batch, or    *)
(* "abort" when nothing of it will be kept (m_batch_success is false);      *)
(* main, alt, pool: the database as it was when the batch began.            *)
Closed == [state |-> "closed", count |-> 0, residue |-> {},
           main |-> <<>>, alt |-> {}, pool |-> {}]

-----------------------------------------------------------------------------
(* checkpoints::check_block                                                 *)
check_block(b) == \A p \in points : Height[p] = Height[b] => p = b

is_alternative_block_allowed(height, h) ==
    h > 0 /\ \A p \in points : Height[p] <= height => Height[p] < h

(* What handle_block_to_main_chain makes of b when the pool is p.  The      *)
(* transactions are taken from the pool and checked one after another; the  *)
(* first that fails decides.  Those taken go back to the pool when the      *)
(* block is not added, so only an added block changes the pool.  A key      *)
(* image that occurs twice in the block is only noticed while the block is  *)
(* written, and the batch is given up.                                      *)
Missing(p, b, i) ==
    \/ Txs[b][i] \in Written
    \/ Txs[b][i] \notin p
    \/ \E j \in 1..i - 1 : Txs[b][j] = Txs[b][i]

WrongInputs(b, i) == Txs[b][i] \in BadInputs \/ KeyImage[Txs[b][i]] \in Spent

(* Faulty: a key image that occurs twice in a block is written twice.       *)
SpendsTwiceUnseen(b) == FALSE

SpendsTwice(b) ==
    \E i, j \in 1..Len(Txs[b]) : i # j /\ KeyImage[Txs[b][i]] = KeyImage[Txs[b][j]]

MainVerdict(p, b) ==
    LET Sound(i) == ~Missing(p, b, i) /\ ~WrongInputs(b, i)
        First(i) == \A j \in 1..i - 1 : Sound(j)
        n == Len(Txs[b])
    IN  IF \/ Parent[b] # Top \/ b \in BadHeader \/ ~check_block(b)
           \/ \E i \in 1..n : First(i) /\ Missing(p, b, i)
        THEN "failed"
        ELSE IF \E i \in 1..n : First(i) /\ WrongInputs(b, i) THEN "invalid"
        ELSE IF b \in BadReward THEN "failed"
        ELSE IF SpendsTwice(b) THEN "aborted"
        ELSE "added"

(* The transactions of b that are written before the repeated key image.    *)
Residue(b) ==
    {Txs[b][i] : i \in {i \in 1..Len(Txs[b]) :
        \A j, k \in 1..i : j # k => KeyImage[Txs[b][j]] # KeyImage[Txs[b][k]]}}

(* The batch after a block with this verdict: "failed" and "invalid" set    *)
(* m_verifivation_failed, at which the caller stops.                        *)
BatchAfter(v, b) ==
    CASE v = "added"   -> [batch EXCEPT !.count = @ + 1]
      [] v = "aborted" -> [batch EXCEPT !.state = "abort", !.residue = Residue(b)]
      [] OTHER         -> [batch EXCEPT !.state = IF @ = "abort" THEN @ ELSE "stop"]

-----------------------------------------------------------------------------
(* build_alt_chain: the alternative blocks from p down to the main chain,   *)
(* lowest first.  It ends at the highest ancestor of p that is not an       *)
(* alternative block.                                                       *)
ForkHeight(p) ==
    CHOOSE h \in {Height[a] : a \in Line[p] \ alt} : \A a \in Line[p] \ alt : Height[a] <= h

Ancestor(p, h) == CHOOSE a \in Line[p] : Height[a] = h

build_alt_chain(p) ==
    [i \in 1..Height[p] - ForkHeight(p) |-> Ancestor(p, ForkHeight(p) + i)]

(* The chain found can be attached to the main chain.                       *)
Attached(p) ==
    LET c == build_alt_chain(p)
    IN  IF c = <<>> THEN p \in InMain
        ELSE Len(main) > Height[c[1]] /\ Parent[c[1]] \in InMain

(* b passes the checks that precede its being stored as an alternative.     *)
StoredAsAlternative(b) ==
    /\ is_alternative_block_allowed(Len(main), Height[b])
    /\ Parent[b] \in alt \union InMain
    /\ Attached(Parent[b])
    /\ b \notin BadHeader
    /\ check_block(b)

(* Only the failure to attach is returned without m_verifivation_failed or  *)
(* m_marked_as_orphaned.                                                    *)
RefusedSilently(b) ==
    /\ is_alternative_block_allowed(Len(main), Height[b])
    /\ Parent[b] \in alt \union InMain
    /\ ~Attached(Parent[b])

(* Faulty: a chain with as much work as the main chain is switched to.      *)
BecomesMainOnTie(b) == b \in points \/ Work[Top] <= Work[b]

(* Faulty: only a chain with at least two units more of work is taken.      *)
BecomesMainLate(b) == b \in points \/ Work[Top] + 1 < Work[b]

(* After storing b, its chain becomes the main chain if b is a checkpoint   *)
(* or its chain has more work.                                              *)
BecomesMain(b) == b \in points \/ Work[Top] < Work[b]

-----------------------------------------------------------------------------
Init ==
    /\ main = <<Genesis>>
    /\ alt = {}
    /\ invalid = {}
    /\ pool = {}
    /\ points = {Genesis}
    /\ reorg = Idle
    /\ batch = Closed
    /\ thrown = FALSE

(* The locks are taken and a batch is started.                              *)
prepare_handle_incoming_blocks ==
    /\ batch.state = "closed"
    /\ batch' = [Closed EXCEPT !.state = "open", !.main = main, !.alt = alt, !.pool = pool]
    /\ UNCHANGED <<main, alt, invalid, pool, points, reorg, thrown>>

(* The batch is committed, or aborted if a block could not be written.      *)
cleanup_handle_incoming_blocks ==
    /\ batch.state # "closed"
    /\ reorg.mode = "idle"
    /\ IF batch.state = "abort"
       THEN main' = batch.main /\ alt' = batch.alt /\ pool' = batch.pool
       ELSE UNCHANGED <<main, alt, pool>>
    /\ batch' = Closed
    /\ UNCHANGED <<invalid, points, reorg, thrown>>

(* handle_block_to_main_chain for a block on top, with p in the pool.       *)
handle_block_to_main_chain(p, b) ==
    LET v == MainVerdict(p, b)
    IN  /\ IF v = "added"
           THEN main' = Append(main, b) /\ pool' = p \ Elems(Txs[b])
           ELSE main' = main /\ pool' = p
        /\ invalid' = IF v = "invalid" THEN invalid \union {b} ELSE invalid
        /\ batch' = BatchAfter(v, b)
        /\ UNCHANGED <<alt, reorg>>

(* switch_to_alternative_blockchain up to its loop: the main chain is       *)
(* popped down to where the alternative chain c starts, and the             *)
(* transactions popped join the pool.                                       *)
BeginSwitch(p, c, discard) ==
    LET k == Height[c[1]]
        popped == SubSeq(main, k + 1, Len(main))
    IN  /\ main' = SubSeq(main, 1, k)
        /\ pool' = p \union TxsOf(Elems(popped))
        /\ reorg' = [mode |-> "connect", todo |-> c, chain |-> c, split |-> k,
                     original |-> popped, discard |-> discard]

handle_alternative_block(p, b) ==
    /\ invalid' = invalid
    /\ IF StoredAsAlternative(b)
       THEN /\ alt' = alt \union {b}
            /\ batch' = [batch EXCEPT !.count = @ + 1]
            /\ IF BecomesMain(b)
               THEN BeginSwitch(p, Append(build_alt_chain(Parent[b]), b), b \in points)
               ELSE pool' = p /\ UNCHANGED <<main, reorg>>
       ELSE /\ batch' = [batch EXCEPT !.count = @ + 1,
                                      !.state = IF RefusedSilently(b) THEN @ ELSE "stop"]
            /\ pool' = p
            /\ UNCHANGED <<main, alt, reorg>>

(* A block arrives with its transactions, which join the pool first.        *)
add_new_block(b) ==
    /\ batch.state = "open"
    /\ batch.count < MaxBatch
    /\ reorg.mode = "idle"
    /\ b \notin InMain \union alt \union invalid
    /\ LET p == pool \union (Elems(Txs[b]) \ Written)
       IN  IF Parent[b] = Top
           THEN handle_block_to_main_chain(p, b)
           ELSE handle_alternative_block(p, b)
    /\ UNCHANGED <<points, thrown>>

(* Faulty: the transactions of the blocks taken back are not returned.      *)
ConnectLosesTxs ==
    /\ reorg.mode = "connect"
    /\ reorg.todo # <<>>
    /\ LET b == Head(reorg.todo)
           v == MainVerdict(pool, b)
       IN  /\ batch' = [BatchAfter(v, b) EXCEPT !.count = batch.count]
           /\ IF v = "added"
              THEN /\ main' = Append(main, b)
                   /\ pool' = pool \ Elems(Txs[b])
                   /\ reorg' = [reorg EXCEPT !.todo = Tail(@)]
                   /\ UNCHANGED <<alt, invalid>>
              ELSE /\ main' = SubSeq(main, 1, reorg.split)
                   /\ pool' = pool
                   /\ invalid' = invalid \union Elems(reorg.todo)
                   /\ alt' = alt \ Elems(reorg.todo)
                   /\ reorg' = [reorg EXCEPT !.mode = "restore", !.todo = reorg.original]
    /\ UNCHANGED <<points, thrown>>

(* Faulty: the blocks that could be connected become invalid too.           *)
ConnectBlamesAll ==
    /\ reorg.mode = "connect"
    /\ reorg.todo # <<>>
    /\ LET b == Head(reorg.todo)
           v == MainVerdict(pool, b)
           undone == SubSeq(main, reorg.split + 1, Len(main))
       IN  /\ batch' = [BatchAfter(v, b) EXCEPT !.count = batch.count]
           /\ IF v = "added"
              THEN /\ main' = Append(main, b)
                   /\ pool' = pool \ Elems(Txs[b])
                   /\ reorg' = [reorg EXCEPT !.todo = Tail(@)]
                   /\ UNCHANGED <<alt, invalid>>
              ELSE /\ main' = SubSeq(main, 1, reorg.split)
                   /\ pool' = pool \union TxsOf(Elems(undone))
                   /\ invalid' = invalid \union Elems(reorg.chain)
                   /\ alt' = alt \ Elems(reorg.todo)
                   /\ reorg' = [reorg EXCEPT !.mode = "restore", !.todo = reorg.original]
    /\ UNCHANGED <<points, thrown>>

(* switch_to_alternative_blockchain connects the next block of the          *)
(* alternative chain.  If that fails, rollback_blockchain_switching pops    *)
(* the blocks connected so far and goes on to return the original chain;    *)
(* the block and the ones after it become invalid blocks.                   *)
ConnectNext ==
    /\ reorg.mode = "connect"
    /\ reorg.todo # <<>>
    /\ LET b == Head(reorg.todo)
           v == MainVerdict(pool, b)
           undone == SubSeq(main, reorg.split + 1, Len(main))
       IN  /\ batch' = [BatchAfter(v, b) EXCEPT !.count = batch.count]
           /\ IF v = "added"
              THEN /\ main' = Append(main, b)
                   /\ pool' = pool \ Elems(Txs[b])
                   /\ reorg' = [reorg EXCEPT !.todo = Tail(@)]
                   /\ UNCHANGED <<alt, invalid>>
              ELSE /\ main' = SubSeq(main, 1, reorg.split)
                   /\ pool' = pool \union TxsOf(Elems(undone))
                   /\ invalid' = invalid \union Elems(reorg.todo)
                   /\ alt' = alt \ Elems(reorg.todo)
                   /\ reorg' = [reorg EXCEPT !.mode = "restore", !.todo = reorg.original]
    /\ UNCHANGED <<points, thrown>>

(* All of it is connected: what was disconnected is pushed as alternative,  *)
(* unless it is discarded.                                                  *)
Connected ==
    /\ reorg.mode = "connect"
    /\ reorg.todo = <<>>
    /\ reorg' = [reorg EXCEPT !.mode = "push",
                              !.todo = IF reorg.discard THEN <<>> ELSE reorg.original]
    /\ UNCHANGED <<main, alt, invalid, pool, points, batch, thrown>>

(* rollback_blockchain_switching returns the next block of the original     *)
(* chain; after a failure ("PANIC") the rest is lost.                       *)
RestoreNext ==
    /\ reorg.mode = "restore"
    /\ reorg.todo # <<>>
    /\ LET b == Head(reorg.todo)
           v == MainVerdict(pool, b)
       IN  /\ IF v = "added"
              THEN /\ main' = Append(main, b)
                   /\ pool' = pool \ Elems(Txs[b])
                   /\ reorg' = [reorg EXCEPT !.todo = Tail(@)]
              ELSE reorg' = Idle /\ UNCHANGED <<main, pool>>
           /\ invalid' = IF v = "invalid" THEN invalid \union {b} ELSE invalid
           /\ batch' = [BatchAfter(v, b) EXCEPT !.count = batch.count]
    /\ UNCHANGED <<alt, points, thrown>>

Restored ==
    /\ reorg.mode = "restore"
    /\ reorg.todo = <<>>
    /\ reorg' = Idle
    /\ UNCHANGED <<main, alt, invalid, pool, points, batch, thrown>>

(* handle_alternative_block for the next block of the old chain.            *)
PushNext ==
    /\ reorg.mode = "push"
    /\ reorg.todo # <<>>
    /\ LET b == Head(reorg.todo)
       IN  alt' = IF StoredAsAlternative(b) THEN alt \union {b} ELSE alt
    /\ reorg' = [reorg EXCEPT !.todo = Tail(@)]
    /\ UNCHANGED <<main, invalid, pool, points, batch, thrown>>

(* Faulty: the blocks that became part of the main chain stay alternative.  *)
PushedKeepsChain ==
    /\ reorg.mode = "push"
    /\ reorg.todo = <<>>
    /\ alt' = alt
    /\ reorg' = Idle
    /\ UNCHANGED <<main, invalid, pool, points, batch, thrown>>

(* The blocks switched to are no longer alternative blocks.                 *)
Pushed ==
    /\ reorg.mode = "push"
    /\ reorg.todo = <<>>
    /\ alt' = alt \ Elems(reorg.chain)
    /\ reorg' = Idle
    /\ UNCHANGED <<main, invalid, pool, points, batch, thrown>>

-----------------------------------------------------------------------------
(* pop_blocks never pops the genesis block.                                 *)
pop_blocks(n) ==
    /\ MayPop
    /\ batch.state = "closed"
    /\ main' = SubSeq(main, 1, Len(main) - n)
    /\ pool' = pool \union TxsOf(Elems(SubSeq(main, Len(main) - n + 1, Len(main))))
    /\ UNCHANGED <<alt, invalid, points, reorg, batch, thrown>>

flush_invalid_blocks ==
    /\ reorg.mode = "idle"
    /\ invalid' = {}
    /\ UNCHANGED <<main, alt, pool, points, reorg, batch, thrown>>

(* A transaction leaves the pool (remove_stuck_transactions, flush_txpool). *)
DropTx(t) ==
    /\ MayDrop
    /\ batch.state = "closed"
    /\ t \in pool
    /\ pool' = pool \ {t}
    /\ UNCHANGED <<main, alt, invalid, points, reorg, batch, thrown>>

(* check_against_checkpoints, on the chain m.  The first checkpoint that m  *)
(* does not pass makes it roll back to two blocks before it.                *)
Violated(m, pts) == {p \in pts : Height[p] < Len(m) /\ m[Height[p] + 1] # p}

FirstViolated(m, pts) ==
    CHOOSE p \in Violated(m, pts) : \A q \in Violated(m, pts) : Height[p] <= Height[q]

(* Faulty: the checkpoint block itself is kept.                             *)
KeptLengthTooLong(m, pts) ==
    IF Violated(m, pts) = {} THEN Len(m) ELSE Height[FirstViolated(m, pts)] + 1

KeptLength(m, pts) ==
    IF Violated(m, pts) = {} THEN Len(m) ELSE Height[FirstViolated(m, pts)] - 2

(* A later checkpoint that m did reach is looked up after the roll back,    *)
(* which throws.                                                            *)
Throws(m, pts) ==
    /\ Violated(m, pts) # {}
    /\ \E q \in pts :
          Height[FirstViolated(m, pts)] < Height[q] /\ Height[q] < Len(m)

(* The points of a file F that are higher than the ones known.              *)
load_checkpoints_from_json(F) ==
    {p \in F : \A q \in points : Height[p] > Height[q]}

(* A file F, which lists blocks of the chain the points are on, is loaded   *)
(* and enforced.  An exception leaves m_checkpoints_updating set, and no    *)
(* later update does anything.                                              *)
update_checkpoints(F) ==
    /\ batch.state = "open"
    /\ reorg.mode = "idle"
    /\ ~thrown
    /\ \A p, q \in F \union points : p \in Line[q] \/ q \in Line[p]
    /\ LET pts == points \union load_checkpoints_from_json(F)
           k == KeptLength(main, pts)
       IN  /\ points' = pts
           /\ main' = SubSeq(main, 1, k)
           /\ pool' = pool \union TxsOf(Elems(SubSeq(main, k + 1, Len(main))))
           /\ thrown' = Throws(main, pts)
    /\ UNCHANGED <<alt, invalid, reorg, batch>>

(* The node stops at any moment and core::init runs again: the batch that   *)
(* was open is lost, checkpoints are enforced, and alternative blocks are   *)
(* dropped unless keep_alt_blocks is given.                                 *)
Restart(keep) ==
    LET m == IF batch.state = "closed" THEN main ELSE batch.main
        a == IF batch.state = "closed" THEN alt ELSE batch.alt
        p == IF batch.state = "closed" THEN pool ELSE batch.pool
        k == KeptLength(m, points)
    IN  /\ MayRestart
        /\ ~Throws(m, points)
        /\ main' = SubSeq(m, 1, k)
        /\ pool' = p \union TxsOf(Elems(SubSeq(m, k + 1, Len(m))))
        /\ alt' = IF keep THEN a ELSE {}
        /\ invalid' = {}
        /\ reorg' = Idle
        /\ batch' = Closed
        /\ thrown' = FALSE
        /\ UNCHANGED points

SwitchStep == ConnectNext \/ Connected \/ RestoreNext \/ Restored \/ PushNext \/ Pushed

Next ==
    \/ prepare_handle_incoming_blocks
    \/ cleanup_handle_incoming_blocks
    \/ \E b \in Blocks : add_new_block(b)
    \/ SwitchStep
    \/ \E n \in 1..Len(main) - 1 : pop_blocks(n)
    \/ flush_invalid_blocks
    \/ \E t \in Tx : DropTx(t)
    \/ \E F \in SUBSET NewPoints : update_checkpoints(F)
    \/ \E keep \in BOOLEAN : Restart(keep)

Spec == Init /\ [][Next]_vars

-----------------------------------------------------------------------------
(* Properties                                                               *)


(* The state has its types; the main chain starts with the genesis block.   *)
TypeOK ==
    /\ main \in Seq(Blocks) /\ main # <<>> /\ main[1] = Genesis
    /\ alt \subseteq Blocks
    /\ invalid \subseteq Blocks
    /\ pool \subseteq Tx
    /\ points \subseteq Blocks
    /\ reorg \in [mode : {"idle", "connect", "restore", "push"}, todo : Seq(Blocks),
                  chain : Seq(Blocks), split : Nat, original : Seq(Blocks),
                  discard : BOOLEAN]
    /\ batch \in [state : {"closed", "open", "stop", "abort"}, count : 0..MaxBatch,
                  residue : SUBSET Tx, main : Seq(Blocks), alt : SUBSET Blocks,
                  pool : SUBSET Tx]
    /\ thrown \in BOOLEAN

(* Each block of the chain s is the child of the one before it.             *)
Linked(s) == \A i \in 2..Len(s) : s[i] # Genesis /\ Parent[s[i]] = s[i - 1]

(* No two transactions in blocks of s spend the same key image.             *)
SpendsOnce(s) ==
    \A i, j \in 1..Len(s) : \A m \in 1..Len(Txs[s[i]]), n \in 1..Len(Txs[s[j]]) :
        KeyImage[Txs[s[i]][m]] = KeyImage[Txs[s[j]][n]] => i = j /\ m = n

(* Whatever is switched, undone, popped, rolled back or lost in a restart,  *)
(* the main chain is linked from the genesis block, spends every key image  *)
(* once and holds no block that verification refuses.                       *)
MainValid ==
    /\ Linked(main)
    /\ SpendsOnce(main)
    /\ InMain \intersect (BadHeader \union BadReward) = {}
    /\ TxsOf(InMain) \intersect BadInputs = {}

(* rollback_blockchain_switching can always return the blocks of the        *)
(* original chain: "PANIC! failed to add (again) block while chain          *)
(* switching during the rollback!" is never reached, unless the database    *)
(* could not write a block and the whole batch is going to be undone.       *)
RestoreSucceeds ==
    reorg.mode = "restore" /\ reorg.todo # <<>> /\ batch.state # "abort"
        => MainVerdict(pool, Head(reorg.todo)) = "added"

(* Pushing the old chain as alternative never starts a second switch inside *)
(* switch_to_alternative_blockchain.                                        *)
NoNestedSwitch ==
    reorg.mode = "push" /\ reorg.todo # <<>> => ~BecomesMain(Head(reorg.todo))

(* A block of the main chain is neither an alternative nor an invalid one.  *)
KnownOnce ==
    batch.state = "closed" => InMain \intersect (alt \union invalid) = {}

(* Something is wrong with b that no order of events changes.               *)
Wrong(b) ==
    \/ b \in BadReward
    \/ Elems(Txs[b]) \intersect BadInputs # {}
    \/ SpendsTwice(b)
    \/ \E a \in Line[b] \ {b} : \E t \in Elems(Txs[a]), u \in Elems(Txs[b]) : KeyImage[t] = KeyImage[u]
    \/ ~check_block(b)

(* A block is marked invalid only if it, or a block it builds on, is wrong: *)
(* no valid block is refused for good because of the order in which blocks  *)
(* arrived.                                                                 *)
NeverBlamesValid == \A b \in invalid : \E a \in Line[b] : Wrong(a)

(* Between blocks no alternative chain that hangs on the main chain has     *)
(* more work than the main chain: every such chain was switched to, or      *)
(* found invalid.                                                           *)
BestKnown ==
    reorg.mode = "idle" /\ batch.state # "abort" =>
        \A a \in alt : Attached(a) => Work[a] <= Work[Top]

(* Once a batch is over, the main chain passes every checkpoint.            *)
PointsEnforced ==
    batch.state = "closed" => Violated(main, points) = {}

Right(b) == b \notin BadHeader /\ \A a \in Line[b] : ~Wrong(a)

(* Outside switches, the main chain ends up for good with the most work     *)
(* that any chain of right blocks has, in whatever order the blocks arrive  *)
(* and however often wrong blocks promise more.                             *)
HeaviestWins ==
    <>[](reorg.mode = "idle" =>
            /\ Right(Top)
            /\ \A b \in Blocks : Right(b) => Work[b] <= Work[Top])
=============================================================================
