------------------------------- MODULE TxPool -------------------------------
(***************************************************************************)
(* The transaction pool (cryptonote_core/tx_pool.cpp) with the operations  *)
(* that reach it: transactions from peers and wallets, blocks that consume *)
(* transactions and pops that return them, block templates, and relaying   *)
(* in the phases of Dandelion++.                                           *)
(*                                                                         *)
(* The rows of the pool are in the database; the key images they spend,    *)
(* the order by fee rate and the total weight are indexes in memory.  A    *)
(* database batch can be aborted; the indexes are then not rolled back.    *)
(*                                                                         *)
(* Every operation holds m_transactions_lock from its first access to its  *)
(* last, a batch of blocks included, so each is one action.  Between the   *)
(* decision to relay a transaction and set_relayed the lock is free:       *)
(* `sending' holds what is on its way.                                     *)
(***************************************************************************)
EXTENDS Integers, SequencesExt, FiniteSetsExt, Functions

CONSTANTS
    Tx, KeyImage, Block, Genesis, None,
    Inputs,       \* Inputs[t]: the key images t spends, in order
    Needs,        \* Needs[t]: the newest block with an output in t's rings
    Weight,       \* Weight[t] > 0
    ByRate,       \* the transactions, highest fee per byte first
    ByHash,       \* the transactions in the order of the database
    Parent, Txs,  \* the tree of blocks and their transactions
    Version,      \* Version[b]: the hard fork version in force after b
    BadReward,    \* blocks whose miner transaction is wrong
    Barred,       \* Barred[v]: transactions version v forbids in any block
    Cheap,        \* Cheap[v]: transactions whose fee the pool refuses at v
    Offers,       \* Offers[t]: the ways peers and wallets hand t in
    Asked,        \* transactions that wallets ask to relay again
    Unpaid,       \* sets of transactions that would lower a block's reward
    Lasting,      \* bound: transactions that stay until the idle loop, timers
                  \* and life times get to them
    MaxWeight,    \* m_txpool_max_weight
    MaxBlock,     \* weight limit of a block template
    Modulus,      \* size_t arithmetic is modulo this
    MineStem,     \* m_mine_stem_txes
    MaxBatch,     \* bound: blocks per batch
    MaxAgain,     \* bound: additions of a transaction that has a row
    MaxFaults     \* bound: restarts and failed batches

Relay == <<"none", "local", "forward", "stem", "fluff", "block">>
Rank(m) == CHOOSE i \in 1..6 : Relay[i] = m

ASSUME TreeAssumption ==
    /\ Genesis \in Block /\ Txs[Genesis] = <<>> /\ None \notin Block
    /\ Parent \in [Block -> Block] /\ Txs \in [Block -> Seq(Tx)]
    /\ Inputs \in [Tx -> Seq(KeyImage)] /\ Needs \in [Tx -> Block]
    /\ Range(ByRate) = Tx /\ Range(ByHash) = Tx
    /\ Len(ByRate) = Cardinality(Tx) /\ Len(ByHash) = Cardinality(Tx)
    /\ Weight \in [Tx -> 1..(Modulus - 1)] /\ MaxWeight < Modulus

VARIABLES
    chain,        \* the main chain, genesis first
    pool,         \* the pool, a record; see PoolType
    template,     \* the cached template m_btc that would be served, or None
    sending,      \* <<t, m>>: t is being sent by method m
    faults        \* restarts and failed batches so far

vars == <<chain, pool, template, sending, faults>>

(* A row: txpool_tx_meta_t.  last_relayed_time is ahead ("wait"), behind    *)
(* ("past") or the largest number ("max"); the age is below half the life   *)
(* time, above it, or over.                                                 *)
Row == [relay : Range(Relay), last : {"max", "wait", "past"},
        age : {"young", "old", "expired"}, used : Block \union {None},
        failed : Block \union {None}, double : BOOLEAN]

PartialFunction(f, S, T) == DOMAIN f \subseteq S /\ \A x \in DOMAIN f : f[x] \in T

PoolType(P) ==
    /\ PartialFunction(P.meta, Tx, Row)             \* the rows
    /\ P.spent \in [KeyImage -> SUBSET Tx]          \* m_spent_key_images
    /\ P.sorted \in [Tx -> Nat]                     \* entries in m_txs_by_fee_and_receive_time
    /\ P.weight \in 0..(Modulus - 1)                \* m_txpool_weight
    /\ P.timedout \in SUBSET Tx                     \* m_timed_out_transactions
    /\ PartialFunction(P.cache, Tx, [ok : BOOLEAN, used : Block \union {None}])
                                                    \* m_input_cache
    /\ P.bumped \in BOOLEAN                         \* m_cookie moved in this operation
    /\ P.again \in 0..MaxAgain                      \* additions of what had a row
    /\ P.dirty \in BOOLEAN                          \* such an addition, or an aborted
                                                    \* batch, since the node started

-----------------------------------------------------------------------------
(* The chain, as the pool sees it.                                          *)

Mined(ch) == UNION {Range(Txs[b]) : b \in Range(ch)}
Height(b) == LET h[c \in Block] == IF c = Genesis THEN 0 ELSE h[Parent[c]] + 1 IN h[b]
SpentOn(ch, t) == \E u \in Mined(ch) : Range(Inputs[u]) \cap Range(Inputs[t]) # {}
check_tx_inputs(ch, t) == Needs[t] \in Range(ch) /\ ~SpentOn(ch, t)

(* matches_category                                                         *)
Legacy(m) == m \in {"none", "fluff", "block"}
Broadcasted(m) == m \in {"fluff", "block"}
HasLegacy(P, t) == t \in DOMAIN P.meta /\ Legacy(P.meta[t].relay)

(* Faulty: the last method counts, also when it is a more private one.      *)
LastMethod(m, n) == n

(* txpool_tx_meta_t::upgrade_relay_method                                   *)
upgrade(m, n) == IF Rank(m) < Rank(n) THEN n ELSE m

-----------------------------------------------------------------------------
(* Operators from a pool to a pool.  `nested' says that a batch is open: a  *)
(* LockedTXN inside it neither commits nor aborts.                          *)

PutRow(P, t, r) == [P EXCEPT !.meta = Restrict(@, DOMAIN @ \ {t}) @@ (t :> r)]
DropRow(P, t) == [P EXCEPT !.meta = Restrict(@, DOMAIN @ \ {t}),
                           !.weight = (@ - Weight[t]) % Modulus]
Bump(P) == [P EXCEPT !.bumped = TRUE]

(* find_tx_in_sorted_container and erase                                    *)
Unsort(P, t) == [P EXCEPT !.sorted[t] = IF @ = 0 THEN 0 ELSE @ - 1]

(* have_tx_keyimges_as_spent, of the pool                                   *)
have_tx_keyimges_as_spent(P, t) ==
    \E k \in Range(Inputs[t]) :
        P.spent[k] # {} /\ (P.spent[k] # {t} \/ HasLegacy(P, t))

(* insert_key_images stops at the first input it may not insert and keeps   *)
(* those before it.                                                         *)
insert_key_images(P, t, relay) ==
    LET Insert(s, k) ==
            IF ~s.ok \/ (relay # "block" /\ ~(s.P.spent[k] \subseteq {t}))
            THEN [s EXCEPT !.ok = FALSE]
            ELSE [ok |-> t \notin s.P.spent[k] \/ ~HasLegacy(P, t),
                  P |-> [s.P EXCEPT !.spent[k] = @ \union {t}]]
        s == FoldLeft(Insert, [P |-> P, ok |-> TRUE], Inputs[t])
    IN  IF s.ok THEN [s EXCEPT !.P = Bump(@)] ELSE s

(* remove_transaction_keyimages stops at the first input not found.         *)
remove_transaction_keyimages(P, t) ==
    LET Forget(s, k) ==
            IF ~s.ok \/ t \notin s.P.spent[k]
            THEN [s EXCEPT !.ok = FALSE]
            ELSE [s EXCEPT !.P.spent[k] = @ \ {t}]
        s == FoldLeft(Forget, [P |-> P, ok |-> TRUE], Inputs[t])
    IN  IF s.ok THEN Bump(s.P) ELSE s.P

(* m_txs_by_fee_and_receive_time, in its order                              *)
Entries(P) == FlattenSeq([i \in DOMAIN ByRate |->
                 [j \in 1..P.sorted[ByRate[i]] |-> ByRate[i]]])

(* prune walks the entries from the last to the second.  An entry without a *)
(* row ends it early, and what it removed from the database, but not from   *)
(* the indexes, is undone unless the batch is somebody else's.  With no     *)
(* entries, after an abort, --end() is undefined; here nothing is removed.  *)
prune(P, nested) ==
    LET list == Entries(P)
        Step(s, t) ==
            IF s.stop # "no" THEN s
            ELSE IF s.P.weight <= MaxWeight THEN [s EXCEPT !.stop = "done"]
            ELSE IF t \notin DOMAIN s.P.meta THEN [s EXCEPT !.stop = "error"]
            ELSE IF s.P.meta[t].relay = "block" THEN s
            ELSE [s EXCEPT !.P = Bump(Unsort(remove_transaction_keyimages(DropRow(@, t), t), t))]
        s == FoldRight(LAMBDA t, acc : Step(acc, t), SubSeq(list, 2, Len(list)),
                       [P |-> P, stop |-> "no"])
    IN  IF s.stop = "error" /\ ~nested THEN [s.P EXCEPT !.meta = P.meta] ELSE s.P

(* mark_double_spend                                                        *)
mark_double_spend(P, t) ==
    LET hit == {u \in DOMAIN P.meta : /\ ~P.meta[u].double
                                      /\ \E k \in Range(Inputs[t]) : u \in P.spent[k]}
        marked == [u \in DOMAIN P.meta |->
                     IF u \in hit THEN [P.meta[u] EXCEPT !.double = TRUE] ELSE P.meta[u]]
    IN  [P EXCEPT !.meta = marked, !.bumped = @ \/ hit # {}]

(* tx_memory_pool::check_tx_inputs: the answer is remembered in             *)
(* m_input_cache, except for blocks' transactions.  On failure the caller's *)
(* max_used_block_id stays as it was.                                       *)
Checked(P, ch, t, kept, used) ==
    IF ~kept /\ t \in DOMAIN P.cache THEN P.cache[t]
    ELSE IF check_tx_inputs(ch, t) THEN [ok |-> TRUE, used |-> Needs[t]]
    ELSE [ok |-> FALSE, used |-> used]
Remember(P, t, kept, c) ==
    IF kept \/ t \in DOMAIN P.cache THEN P ELSE [P EXCEPT !.cache = @ @@ (t :> c)]

NewRow(relay, last, used) == [relay |-> relay, last |-> last, age |-> "young",
                              used |-> used, failed |-> None, double |-> FALSE]

Failed(P) == [P |-> P, ok |-> FALSE, relay |-> "none"]

(* The end of add_tx: the weight is added and the pool pruned, whether or   *)
(* not there was a row before.                                              *)
Added(P, t, relay, nested) ==
    [P |-> prune(Bump([P EXCEPT !.weight = (@ + Weight[t]) % Modulus]), nested),
     ok |-> TRUE, relay |-> IF relay = "forward" THEN "none" ELSE relay]

(* add_tx for a transaction with wrong inputs that comes from a block.      *)
(* add_txpool_tx throws when there is a row; the key images stay inserted.  *)
add_kept_invalid(P, t, nested) ==
    LET row == [NewRow("block", "wait", None) EXCEPT
                  !.double = have_tx_keyimges_as_spent(P, t)]
        s == insert_key_images(P, t, "block")
    IN  IF ~s.ok \/ t \in DOMAIN P.meta THEN Failed(s.P)
        ELSE LET added == Added([PutRow(s.P, t, row) EXCEPT !.sorted[t] = @ + 1],
                                t, "block", nested)
             IN  [added EXCEPT !.relay = "none"]

(* add_tx for a transaction with right inputs.  One that has a row already  *)
(* gets a second entry in the fee order: its receive time, in seconds, is   *)
(* part of the entry.                                                       *)
add_valid(P, t, relay0, used, nested) ==
    LET existing == t \in DOMAIN P.meta
        relay == IF existing /\ relay0 = "stem" /\ P.meta[t].relay = "stem"
                 THEN "fluff" ELSE relay0
        old == IF existing THEN P.meta[t].relay ELSE "none"
        s == insert_key_images(P, t, relay)
        row == NewRow(upgrade(old, relay), IF relay = "forward" THEN "wait" ELSE "max", used)
    IN  IF existing /\ upgrade(old, relay) = old THEN Added(P, t, relay, nested)
        ELSE IF ~s.ok THEN Failed(s.P)
        ELSE Added([PutRow(s.P, t, row) EXCEPT !.sorted[t] = @ + 1], t, relay, nested)

(* add_tx after the check c of the inputs                                   *)
add_checked(P, t, relay, c, nested) ==
    LET kept == relay = "block"
        Q == Remember(P, t, kept, c)
        R == IF t \in DOMAIN P.meta THEN [Q EXCEPT !.again = @ + 1, !.dirty = TRUE] ELSE Q
    IN  IF c.ok THEN add_valid(R, t, relay, c.used, nested)
        ELSE IF kept THEN add_kept_invalid(Q, t, nested)
        ELSE Failed(Q)

add_tx(P, ch, v, t, relay, nested) ==
    LET kept == relay = "block"
    IN  IF ~kept /\ (t \in P.timedout \/ t \in Cheap[v]) THEN Failed(P)
        ELSE IF ~kept /\ have_tx_keyimges_as_spent(P, t) THEN Failed(mark_double_spend(P, t))
        ELSE IF t \in Barred[v] THEN Failed(P)
        ELSE add_checked(P, t, relay, Checked(P, ch, t, kept, None), nested)

(* Faulty: a transaction of the chain is added again.                       *)
AddAlsoMined(P, ch, t, relay, nested) ==
    IF HasLegacy(P, t)
    THEN [P |-> P, ok |-> TRUE, relay |-> "none"]
    ELSE add_tx(P, ch, Version[Last(ch)], t, relay, nested)

(* core::handle_incoming_txs and add_new_tx: not again what the chain or    *)
(* the public pool has                                                      *)
add_new_tx(P, ch, t, relay, nested) ==
    IF HasLegacy(P, t) \/ t \in Mined(ch)
    THEN [P |-> P, ok |-> TRUE, relay |-> "none"]
    ELSE add_tx(P, ch, Version[Last(ch)], t, relay, nested)

(* Faulty: the entry in the order by fee rate stays.                        *)
TakeKeepsEntry(P, t) == Bump(remove_transaction_keyimages(DropRow(P, t), t))

(* take_tx, of a transaction that has a row                                 *)
take_tx(P, t) == Bump(Unsort(remove_transaction_keyimages(DropRow(P, t), t), t))

(* return_tx_to_pool and pop_block_from_blockchain                          *)
return_tx_to_pool(P, ch, v, ts, nested) ==
    FoldLeft(LAMBDA Q, t : add_tx(Q, ch, v, t, "block", nested).P, P, ts)

(* validate: every row is taken out and added again; the row of one that is *)
(* accepted is put back as it was.  One that an earlier addition pruned is  *)
(* not found, and not added.                                                *)
validate(P, ch) ==
    LET rows == SelectSeq(ByHash, LAMBDA t : t \in DOMAIN P.meta)
        PutBack(s, t) == IF s.ok /\ t \in DOMAIN s.P.meta THEN PutRow(s.P, t, P.meta[t]) ELSE s.P
        Again(Q, t) ==
            IF t \notin DOMAIN Q.meta THEN Q
            ELSE PutBack(add_tx(take_tx(Q, t), ch, Version[Last(ch)], t, P.meta[t].relay, TRUE), t)
    IN  FoldLeft(Again, P, rows)

(* on_blockchain_inc and on_blockchain_dec; a new version revalidates       *)
on_blockchain_change(P, old, ch) ==
    LET Q == [P EXCEPT !.cache = <<>>]
    IN  IF Version[Last(old)] = Version[Last(ch)] THEN Q ELSE validate(Q, ch)

-----------------------------------------------------------------------------
(* Blocks.  S is a batch in progress: the pool, the chain, whether the      *)
(* batch goes on and whether the database failed.                           *)

(* The end of handle_block_to_main_chain, after T took the transactions:    *)
(* the block is written, or what was taken is returned.                     *)
EndBlock(S, b, dbfails, T) ==
    LET clash == \E i, j \in DOMAIN Txs[b] :
                    i < j /\ Range(Inputs[Txs[b][i]]) \cap Range(Inputs[Txs[b][j]]) # {}
        right == T.ok /\ b \notin BadReward
        ch == Append(S.ch, b)
    IN  IF right /\ ~clash /\ ~dbfails
        THEN [S EXCEPT !.P = on_blockchain_change(T.P, S.ch, ch), !.ch = ch]
        ELSE [S EXCEPT !.P = return_tx_to_pool(T.P, S.ch, Version[Last(S.ch)], T.taken, TRUE),
                       !.go = FALSE, !.abort = right]

(* handle_block_to_main_chain takes the transactions in order.  It gives up *)
(* at the first that is on the chain, missing or invalid, or when the       *)
(* reward or the database fails.                                            *)
handle_block_to_main_chain(S, b, dbfails) ==
    LET Take(T, t) ==
            IF ~T.ok THEN T
            ELSE IF t \in Mined(S.ch) \/ t \notin DOMAIN T.P.meta THEN [T EXCEPT !.ok = FALSE]
            ELSE [P |-> take_tx(T.P, t), taken |-> Append(T.taken, t),
                  ok |-> check_tx_inputs(S.ch, t)]
    IN  IF ~S.go THEN S
        ELSE EndBlock(S, b, dbfails,
                      FoldLeft(Take, [P |-> S.P, taken |-> <<>>, ok |-> TRUE], Txs[b]))

(* The transactions of a block are handed to the pool, then the block to    *)
(* the chain.  A transaction the pool refuses ends the batch.               *)
handle_block(S, b, dbfails) ==
    LET After(T, s) == [T EXCEPT !.P = s.P, !.go = s.ok]
        Give(T, t) == IF ~T.go THEN T ELSE After(T, add_new_tx(T.P, T.ch, t, "block", TRUE))
    IN  handle_block_to_main_chain(FoldLeft(Give, S, Txs[b]), b, dbfails)

(* The pool after an operation: the cookie is compared when a template is   *)
(* asked for.                                                               *)
Settle(P) ==
    /\ pool' = [P EXCEPT !.bumped = FALSE]
    /\ pool'.again <= MaxAgain

-----------------------------------------------------------------------------
Init ==
    /\ chain = <<Genesis>>
    /\ pool = [meta |-> <<>>, spent |-> [k \in KeyImage |-> {}], sorted |-> [t \in Tx |-> 0],
               weight |-> 0, timedout |-> {}, cache |-> <<>>, bumped |-> FALSE,
               again |-> 0, dirty |-> FALSE]
    /\ template = None
    /\ sending = {}
    /\ faults = 0

(* Faulty: the cookie of the pool is not compared.                          *)
KeepAlways(P) == template' = template

(* create_block_template compares the pool's cookie with that of the        *)
(* template it has kept.                                                    *)
KeepTemplate(P) == template' = IF P.bumped THEN None ELSE template

(* After add_new_tx; what the pool takes is relayed.                        *)
Taken(t, s) ==
    /\ Settle(s.P)
    /\ KeepTemplate(s.P)
    /\ sending' = IF s.ok /\ s.relay # "none" THEN sending \union {<<t, s.relay>>} ELSE sending

(* A peer or a wallet hands in t (handle_notify_new_transactions,           *)
(* on_send_raw_tx).                                                         *)
HandleTx(t, m) ==
    /\ Taken(t, add_new_tx(pool, chain, t, m, FALSE))
    /\ UNCHANGED <<chain, faults>>

(* The transactions of a fluffy or an alternative block reach the pool      *)
(* before, and apart from, the block (handle_notify_new_fluffy_block), and  *)
(* are not relayed.                                                         *)
HandleBlockTx(t) ==
    /\ \E b \in Block : t \in Range(Txs[b])
    /\ Taken(t, [add_new_tx(pool, chain, t, "block", FALSE) EXCEPT !.relay = "none"])
    /\ UNCHANGED <<chain, faults>>

(* Paths of blocks that continue the chain                                  *)
Continues(ch, bs) ==
    \A i \in DOMAIN bs : bs[i] # Genesis /\ Parent[bs[i]] = IF i = 1 THEN Last(ch) ELSE bs[i - 1]

(* cleanup_handle_incoming_blocks: the batch S is committed, or aborted     *)
(* when the database failed.                                                *)
Cleanup(S) ==
    /\ IF S.abort
       THEN /\ faults < MaxFaults
            /\ faults' = faults + 1
            /\ Settle([S.P EXCEPT !.meta = pool.meta, !.dirty = TRUE])
            /\ chain' = chain
       ELSE /\ Settle(S.P)
            /\ chain' = S.ch
            /\ UNCHANGED faults
    /\ template' = IF S.P.bumped \/ S.ch # chain THEN None ELSE template

HandleBlocks(bs, dbfails) ==
    /\ Continues(chain, bs)
    /\ dbfails => faults < MaxFaults
    /\ Cleanup(FoldLeft(LAMBDA S, b : handle_block(S, b, dbfails /\ b = Last(bs)),
                        [P |-> pool, ch |-> chain, go |-> TRUE, abort |-> FALSE], bs))
    /\ UNCHANGED sending

(* pop_block_from_blockchain                                                *)
PopBlock ==
    LET ch == Front(chain)
        P == return_tx_to_pool(pool, ch, Version[Last(ch)], Txs[Last(chain)], TRUE)
    IN  /\ Len(chain) > 1
        /\ Settle(on_blockchain_change(P, chain, ch))
        /\ chain' = ch
        /\ template' = None
        /\ UNCHANGED <<sending, faults>>

(* is_transaction_ready_to_go: the row, with what the check leaves in it,   *)
(* and the answer.                                                          *)
is_transaction_ready_to_go(P, t) ==
    LET row == P.meta[t]
        c == Checked(P, chain, t, FALSE, row.used)
        checked == [row EXCEPT !.used = c.used]
    IN  IF \/ row.used # None /\ Height(row.used) >= Len(chain)
           \/ row.failed \in Range(chain)
        THEN [P |-> P, ready |-> FALSE]
        ELSE LET Q == Remember(P, t, FALSE, c)
             IN  IF ~c.ok
                 THEN [P |-> PutRow(Q, t, [checked EXCEPT !.failed = Last(chain)]), ready |-> FALSE]
                 ELSE IF SpentOn(chain, t)
                 THEN [P |-> PutRow(Q, t, [checked EXCEPT !.double = TRUE]), ready |-> FALSE]
                 ELSE [P |-> PutRow(Q, t, checked), ready |-> TRUE]

(* fill_block_template.  `unpaid' are the transactions that would lower the *)
(* reward of the block.                                                     *)
fill_block_template(unpaid) ==
    LET Consider(s, t) ==
            IF \/ t \notin DOMAIN s.P.meta
               \/ LET m == s.P.meta[t].relay IN ~Legacy(m) /\ ~(MineStem /\ m = "stem")
               \/ s.weight + Weight[t] > MaxBlock
               \/ t \in unpaid
            THEN s
            ELSE LET r == is_transaction_ready_to_go(s.P, t)
                 IN  IF ~r.ready \/ Range(Inputs[t]) \cap s.keys # {}
                     THEN [s EXCEPT !.P = r.P]
                     ELSE [P |-> r.P, txs |-> Append(s.txs, t), weight |-> s.weight + Weight[t],
                           keys |-> s.keys \union Range(Inputs[t])]
    IN  FoldLeft(Consider, [P |-> pool, txs |-> <<>>, weight |-> 0, keys |-> {}], Entries(pool))

(* create_block_template, when the cached one is not used                   *)
CreateTemplate(unpaid) ==
    LET s == fill_block_template(unpaid)
    IN  /\ template = None
        /\ Settle(s.P)
        /\ template' = s.txs
        /\ UNCHANGED <<chain, sending, faults>>

(* remove_stuck_transactions                                                *)
RemoveStuck ==
    LET old == SelectSeq(ByHash, LAMBDA t : t \in DOMAIN pool.meta /\ pool.meta[t].age = "expired")
        P == FoldLeft(LAMBDA Q, t : Unsort(Q, t), pool, old)
        R == FoldLeft(LAMBDA Q, t : remove_transaction_keyimages(DropRow(Q, t), t), P, old)
    IN  /\ old # <<>>
        /\ Settle([R EXCEPT !.timedout = @ \union Range(old)])
        /\ template' = None
        /\ UNCHANGED <<chain, sending, faults>>

(* flush_txes_from_pool                                                     *)
FlushTx(t) ==
    /\ t \in DOMAIN pool.meta
    /\ Settle(take_tx(pool, t))
    /\ template' = None
    /\ UNCHANGED <<chain, sending, faults>>

-----------------------------------------------------------------------------
(* Relaying                                                                 *)

(* Faulty: transactions in the stem phase are left alone.                   *)
RelayableInPublic(t) ==
    /\ pool.meta[t].age = "young"
    /\ pool.meta[t].relay \in {"local", "fluff", "block"}
    /\ pool.meta[t].last # "wait"

(* get_relayable_transactions: private transactions when their embargo is   *)
(* over, others when the delay since the last time is over, which it is     *)
(* too when the last time is the largest number and the subtraction wraps.  *)
(* The new time stamps it writes are never committed.                       *)
Relayable(t) ==
    LET row == pool.meta[t]
    IN  /\ row.age = "young"
        /\ CASE row.relay \in {"stem", "forward"} -> row.last = "past"
             [] row.relay = "none" -> FALSE
             [] OTHER -> row.last # "wait"

RelayBy(m) == CASE m = "local" -> "local" [] m = "forward" -> "stem" [] OTHER -> "fluff"

(* core::relay_txpool_transactions                                          *)
RelayPool ==
    LET due == {t \in DOMAIN pool.meta \cap Lasting : Relayable(t)}
    IN  /\ sending' = sending \union {<<t, RelayBy(pool.meta[t].relay)>> : t \in due}
        /\ sending' # sending
        /\ UNCHANGED <<chain, pool, template, faults>>

(* on_relay_tx: a wallet asks for t to be relayed.                          *)
RelayTx(t) ==
    /\ t \in DOMAIN pool.meta
    /\ sending' = sending \union {<<t, IF Broadcasted(pool.meta[t].relay) THEN "fluff" ELSE "local">>}
    /\ UNCHANGED <<chain, pool, template, faults>>

(* What send_txs does by method m: fluff in the public; over the public     *)
(* network a stem, a fluff, or a stem that finds no peer and is followed by *)
(* a fluff; over an anonymity network, what it says.                        *)
SendsAs(m) == IF m = "fluff" THEN {<<"fluff">>}
              ELSE {<<"stem">>, <<"fluff">>, <<"stem", "fluff">>} \union
                   (IF m = "local" THEN {<<"local">>} ELSE {})

(* Faulty: the embargo is left as add_tx set it.                            *)
SetRelayedKeepsTime(P, t, m) ==
    IF t \notin DOMAIN P.meta THEN P
    ELSE PutRow(P, t, [P.meta[t] EXCEPT !.relay = upgrade(@, m)])

(* set_relayed: an embargo begins for the stem phase; otherwise the time is *)
(* now, which the forward phase takes for the end of its delay.             *)
set_relayed(P, t, m) ==
    IF t \notin DOMAIN P.meta THEN P
    ELSE LET relay == upgrade(P.meta[t].relay, m)
         IN  PutRow(P, t, [P.meta[t] EXCEPT !.relay = relay,
                             !.last = IF relay = "forward" THEN "past" ELSE "wait"])

Send(t, m) ==
    /\ <<t, m>> \in sending
    /\ \E as \in SendsAs(m) :
          /\ pool' = set_relayed(pool, t, as[1])
          /\ sending' = (sending \ {<<t, m>>}) \union {<<t, as[i]>> : i \in 2..Len(as)}
    /\ UNCHANGED <<chain, template, faults>>

(* Time passes: an embargo or a relay delay ends.                           *)
TimerEnds(t) ==
    /\ t \in DOMAIN pool.meta /\ pool.meta[t].last = "wait"
    /\ pool' = [pool EXCEPT !.meta[t].last = "past"]
    /\ UNCHANGED <<chain, template, sending, faults>>

(* Half of a transaction's life time passes.  It is days long; an embargo   *)
(* and the interval of RelayPool are minutes, so nothing private that is    *)
(* about to be sent waits that long.                                        *)
Sleeping(t) == /\ \A m \in Range(Relay) : <<t, m>> \notin sending
               /\ pool.meta[t].relay \in {"stem", "forward"} => pool.meta[t].last = "max"
Age(t) ==
    /\ t \in DOMAIN pool.meta /\ pool.meta[t].age # "expired" /\ Sleeping(t)
    /\ pool' = [pool EXCEPT !.meta[t].age = IF @ = "young" THEN "old" ELSE "expired"]
    /\ UNCHANGED <<chain, template, sending, faults>>

(* Faulty: those of blocks first.                                           *)
KeptFirst(P) ==
    LET Rows(kept) == SelectSeq(ByHash, LAMBDA t : /\ t \in DOMAIN P.meta
                                                   /\ kept = (P.meta[t].relay = "block"))
    IN  Rows(TRUE) \o Rows(FALSE)

(* The two passes of init: the rows of blocks come last.                    *)
LoadOrder(P) ==
    LET Rows(kept) == SelectSeq(ByHash, LAMBDA t : /\ t \in DOMAIN P.meta
                                                   /\ kept = (P.meta[t].relay = "block"))
    IN  Rows(FALSE) \o Rows(TRUE)

(* init: the indexes are rebuilt from the rows.                             *)
init(P) ==
    LET Load(s, t) ==
            IF ~s.ok THEN s
            ELSE LET r == insert_key_images(s.P, t, P.meta[t].relay)
                 IN  IF ~r.ok THEN r
                     ELSE [r EXCEPT !.P.sorted[t] = @ + 1,
                                    !.P.weight = (@ + Weight[t]) % Modulus]
        empty == [P EXCEPT !.spent = [k \in KeyImage |-> {}], !.sorted = [t \in Tx |-> 0],
                           !.weight = 0, !.timedout = {}, !.cache = <<>>, !.dirty = FALSE]
    IN  FoldLeft(Load, [P |-> empty, ok |-> TRUE], LoadOrder(P))

(* The node stops, at any moment, and starts again; it does not come up     *)
(* when init fails.                                                         *)
Restart ==
    /\ faults < MaxFaults
    /\ init(pool).ok
    /\ Settle(init(pool).P)
    /\ template' = None
    /\ sending' = {}
    /\ faults' = faults + 1
    /\ UNCHANGED chain

-----------------------------------------------------------------------------
Next ==
    \/ \E t \in Tx, m \in Range(Relay) : m \in Offers[t] /\ HandleTx(t, m)
    \/ \E t \in Tx : HandleBlockTx(t)
    \/ \E n \in 1..MaxBatch : \E bs \in [1..n -> Block], f \in BOOLEAN : HandleBlocks(bs, f)
    \/ PopBlock
    \/ \E unpaid \in Unpaid : CreateTemplate(unpaid)
    \/ RemoveStuck
    \/ \E t \in Tx : FlushTx(t)
    \/ RelayPool
    \/ \E t \in Asked : RelayTx(t)
    \/ \E t \in Tx, m \in Range(Relay) : Send(t, m)
    \/ \E t \in Lasting : TimerEnds(t) \/ Age(t)
    \/ Restart

Spec == Init /\ [][Next]_vars

(* The idle loop of the node and the strands of the network threads keep    *)
(* running, and time passes.                                                *)
Fairness ==
    /\ WF_vars(RelayPool)
    /\ \A t \in Tx : WF_vars(TimerEnds(t)) /\ \A m \in Range(Relay) : WF_vars(Send(t, m))

FairSpec == Spec /\ Fairness

-----------------------------------------------------------------------------
TypeOK ==
    /\ chain \in Seq(Block) /\ PoolType(pool) /\ ~pool.bumped
    /\ template \in Seq(Tx) \union {None}
    /\ sending \subseteq Tx \X Range(Relay) /\ faults \in 0..MaxFaults

(* The state is well typed.  As long as no transaction was added while it   *)
(* had a row and no batch was aborted since the node started, the three     *)
(* indexes that add_tx, take_tx, prune, validate and                        *)
(* remove_stuck_transactions update one by one say what the rows say:       *)
(* m_txpool_weight is the sum of the weights, every row is in the fee order *)
(* once, and the key images are those that the rows spend.                  *)
IndexesAgree ==
    /\ TypeOK
    /\ ~pool.dirty =>
        /\ pool.weight = FoldFunctionOnSet(+, 0, Weight, DOMAIN pool.meta) % Modulus
        /\ \A t \in Tx : pool.sorted[t] = IF t \in DOMAIN pool.meta THEN 1 ELSE 0
        /\ \A k \in KeyImage : pool.spent[k] = {t \in DOMAIN pool.meta : k \in Range(Inputs[t])}

(* A transaction is never on the chain and in the pool, whichever blocks    *)
(* are added, refused after some of their transactions were taken, popped   *)
(* or aborted (take_tx, return_tx_to_pool).                                 *)
NotMinedAndPooled == DOMAIN pool.meta \cap Mined(chain) = {}

(* A template that create_block_template would serve from its cache can be  *)
(* mined on the chain as it is: its transactions have rows and right inputs *)
(* and share no key image, so the cookie must have moved for every change   *)
(* of the pool that takes a transaction away.  None is private, except      *)
(* those that set_relayed, which does not move the cookie, made so: one in  *)
(* "none" that a wallet asks to relay goes to the phase "local" or "stem"   *)
(* and stays in the template.  No transaction that add_tx left private, and *)
(* that was not sent yet, is in it.                                         *)
TemplateSound ==
    template # None =>
        /\ \A i \in DOMAIN template :
              /\ template[i] \in DOMAIN pool.meta
              /\ LET row == pool.meta[template[i]]
                 IN  \/ Legacy(row.relay) \/ MineStem
                     \/ row.relay \in {"local", "stem"} /\ row.last # "max"
              /\ check_tx_inputs(chain, template[i])
        /\ \A i, j \in DOMAIN template :
              i # j => Range(Inputs[template[i]]) \cap Range(Inputs[template[j]]) = {}

(* As long as no transaction was added while it had a row and no batch was  *)
(* aborted since the node started, init would succeed: it can rebuild the   *)
(* key images from the rows, with double spends among those of blocks.      *)
Restartable == ~pool.dirty => init(pool).ok

(* add_tx gives a private transaction an embargo that never ends, for       *)
(* set_relayed to shorten once it is sent: unless a restart cut the sending *)
(* off, a transaction with such an embargo is on its way to being sent.     *)
NotStranded ==
    faults = 0 => \A t \in DOMAIN pool.meta :
        pool.meta[t].relay \in {"stem", "forward"} /\ pool.meta[t].last = "max"
            => \E m \in Range(Relay) : <<t, m>> \in sending

(* What was public stays public until it leaves the pool or a batch aborts: *)
(* neither another copy of it, in an earlier phase, nor a set_relayed that  *)
(* comes late hides it again (upgrade_relay_method).                        *)
NeverHidden ==
    [][faults' = faults => \A t \in DOMAIN pool.meta \cap DOMAIN pool'.meta :
          Broadcasted(pool.meta[t].relay) => Broadcasted(pool'.meta[t].relay)]_vars

(* As long as there is no restart and wallets do not ask for ever, a        *)
(* transaction in a private phase of Dandelion++ becomes public or leaves   *)
(* the pool: the embargo timer rescues it.                                  *)
Fluffed ==
    <>[][\A t \in Asked : ~RelayTx(t)]_vars =>
    \A t \in Tx :
        (t \in DOMAIN pool.meta /\ pool.meta[t].relay \in {"stem", "forward"} /\ faults = 0)
            ~> (faults > 0 \/ t \notin DOMAIN pool.meta \/ Broadcasted(pool.meta[t].relay))

=============================================================================
