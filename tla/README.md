# Formal model of the lozzax daemon

This directory is a TLA+ development for the lozzax daemon (`src/src` of the
repository, a CryptoNote node in C++). TLC checks the models on small instances;
TLAPS proves the most important properties for every value of the constants. Paths
below are relative to `src/src`.

## 1. The system

A node keeps one *main chain* of blocks in a database, a set of *alternative* blocks
that may become the main chain, and a *transaction pool* of transactions that wait for
a block. Blocks and transactions arrive from peers (the protocol handler), from the RPC
interface and from the built-in miner. The rules a block must obey change at *hard
forks*; a block carries a version and a vote, and the hard-fork object decides which
version the next block must have.

| Part | Source | State | Operations that change it | What is hard about it |
|---|---|---|---|---|
| Fork table | `hardforks/hardforks.cpp`, `HardFork::add_fork` | registered forks | `add_fork`, `init` | entries out of order are dropped silently |
| Hard fork voting | `cryptonote_basic/hardfork.cpp` | window of votes, counters, current fork, versions recorded in the database | `add`, `on_block_popped`, `reorganize_from_chain_height`, `init`/rescan | four ways to compute the same state; it must survive pops, switches, failed switches, restarts and upgrades |
| Blockchain | `cryptonote_core/blockchain.cpp` | main chain, alternative blocks, invalid blocks, caches | block arrival, chain switch, rollback, pop, checkpoints | a switch is many steps, any of which can fail; transactions move between chain and pool |
| Transaction pool | `cryptonote_core/tx_pool.cpp` | pool entries, spent key images, weight, caches | add, take, prune, relay, expire, template | several indexes over one database, updated by hand in every operation |
| Block download queue | `cryptonote_protocol/block_queue.cpp` | spans of blocks, requested hashes | reserve, fill, remove, flush | spans of several peers overlap in time; a peer may disappear at any point |
| Checkpoints | `checkpoints/checkpoints.cpp` | height/hash points | add, load | a checkpoint may contradict the chain already stored |
| Protocol handler | `cryptonote_protocol/cryptonote_protocol_handler.inl` | per-peer sync state | notifications, requests, callbacks | one strand per peer, all of them on one queue and one lock that is only ever tried |
| Thread pool | `common/threadpool.cpp` | queue of jobs, waiters | submit, run, wait | jobs wait for jobs, on threads that run other jobs meanwhile |
| Peer lists, connections | `p2p/*` | white, gray and anchor lists | handshakes, timeouts | |
| Database | `blockchain_db/lmdb/*` | tables | batch transactions | rollback on abort |
| Wallet, RPC, daemon, miner | `wallet/*`, `rpc/*`, `daemon/*`, `cryptonote_basic/miner.cpp` | | | |

## 2. Hard forks

`ForkTable` models how `Blockchain::init` registers the entries of a table: one
`add_fork` step per entry, in which an entry that is not strictly above the last one in
version, height and time is skipped, then `init`. The queries that only read the
registered forks (`get_ideal_version(h)`, `get_earliest_ideal_height_for_version`,
`get_next_version`) are operators, compared with reference definitions. The tables hold no version
below the original one, which is 1 (`HorizonAssumption`; version 0 is refused by `add_fork`).

`HardFork` takes the registered forks of successive releases as a constant
(`Releases`; the assumption that they are ordered is theorem `RegistrationOrdered` of
`ForkTableProofs`) and models the object together with the calls `Blockchain` makes:

| Action | Code |
|---|---|
| `AddGenesis`, `StartupPop`, `StartupDone`, `Restart` | `Blockchain::init`, `HardFork::init`, `rescan_from_block_height` |
| `AddBlock`, `ConnectBlock`, `RestoreBlock` | `handle_block_to_main_chain`: version check, then the database calls `HardFork::add` |
| `PopBlock`, `Disconnect`, `RollbackPop` | `pop_block_from_blockchain`, `on_block_popped` |
| `StartSwitch`, `SwitchDone`, `ConnectFails` | `switch_to_alternative_blockchain` |
| `RollbackRescan`, `RestorePanics`, `RestoreDone` | `rollback_blockchain_switching` |
| `ReorgAdd`, `ReorgDone` | the loop of `add` in `reorganize_from_block_height` |

The variable `mode` says which function is executing; loops are steps of their own,
forced by `mode`, because the blockchain lock is held throughout.

Two runs. `hf_scheduled` has voting disabled (every threshold 0, as in all tables of
`hardforks.cpp`) and a second release that adds a fork, possibly below the height already
reached: the window is that of the last blocks (`WindowIsLastVotes`), a restart computes the
same index (`RestartAgrees`), the version demanded is the scheduled one (`OnSchedule`) and a
roll back is never refused (`NoRollbackPanic`). `hf_voting_switch` enables voting and keeps
what still holds when a switch is refused: counters and window agree (`CountsMatchWindow`), and
the database records the version of the block stored at a height (`RecordedVersions`).
Chains of up to 5 (4) blocks with a window of 2 let the window roll, be popped short and be
refilled, with a fork height inside and outside of it.

With voting enabled and blocks popped by `pop_blocks`, three things do not hold, and the
properties above are stated around them: the window then contains the version of a popped
height instead of the vote of the block that re-enters it; the index may name a fork that
never had its votes (`hardfork.h:205` says it did); and a failed switch after such a pop may be
unable to restore a block ("PANIC! failed to add (again) block", `blockchain.cpp:1132`; action
`RestorePanics` fires). No table in use enables voting.

`fork_table` compares the queries with reference definitions for all tables of up to three
entries. `hf_mainnet_table` is a violation: in the table of the main network the times of v3
and v4 do not exceed that of v2, so `add_fork` drops both entries and nobody looks at its
result; the property that every entry takes effect at its height (`hardfork.h:71`) fails.

## 3. The chain

`Blockchain` models the main chain, the alternative blocks, the blocks known to be invalid,
the transactions in the pool (as a set) and the checkpoints. The blocks that can ever arrive
form a tree given by constants; what verification depends on besides tree, pool and spent key
images is fixed per block or transaction (`BadHeader`, `BadInputs`, `BadReward`), as is the
cumulative difficulty (`Work`).

| Action | Code |
|---|---|
| `prepare_handle_incoming_blocks`, `cleanup_handle_incoming_blocks` | the batch around the blocks that arrive: commit, or abort back to the copy kept in `batch` |
| `add_new_block(b)` | `add_new_block` with `handle_block_to_main_chain` or `handle_alternative_block`, which may start a switch |
| `ConnectNext`, `Connected`, `PushNext`, `Pushed` | the loops of `switch_to_alternative_blockchain`: connect the new chain, push the old one as alternative blocks |
| `RestoreNext`, `Restored` | `rollback_blockchain_switching` after a block could not be connected |
| `pop_blocks`, `flush_invalid_blocks` | RPC commands |
| `DropTx` | `remove_stuck_transactions`, or a flushed pool |
| `update_checkpoints(F)` | a checkpoint file is loaded and enforced by a roll back |
| `Restart(keep)` | the process stops anywhere, losing the open batch, and `core::init` runs |

A block that spends a key image twice is noticed only while it is written: `add_block` throws,
what was written stays visible (`batch.residue`) until the batch is aborted.

Runs (stops of the node at any moment in both):

- `chain_fork`: three branches whose best-looking blocks are wrong in different ways (double spend
  across blocks, wrong reward, wrong inputs, a block that cannot be written) arrive in every order.
  The chain is valid, no switch starts inside another, a right block is never marked invalid, no
  known heavier chain is left aside (`BestKnown`) and the chain ends at the heaviest right block
  (`HeaviestWins`). Strong fairness of the arrival of each block stands for peers that keep
  offering their chain; weak fairness of the batch and of the steps of a switch is the thread that
  holds the lock and runs on; the restarts end at some time. Batches have one block: with two, a
  batch that aborts each time, with the invalid blocks flushed each time, can go on for ever.
- `chain_points`: three possible checkpoints, pops, transactions that expire, batches of two. Once
  a batch is over the chain passes all checkpoints (`PointsEnforced`), every roll back succeeds
  (`RestoreSucceeds`) and a block is in one place (`KnownOnce`).

Found with the same model, and the reason why some properties are not in every run:

- a switch that fails because a transaction expired from the pool marks right blocks invalid
  until a restart (`blockchain.cpp:1201`; set `MayDrop` and check `NeverBlamesValid`);
- while a batch that will be aborted is rolled back, a block of the main chain that spends the
  same key image is marked invalid (`KnownOnce`, when the block that cannot be written shares a key image with the old chain);
- an aborted batch brings back blocks that a checkpoint had rolled back (`PointsEnforced`
  with a block that cannot be written and a checkpoint in the same tree);
- after a pop an alternative block can be the child of the top block. It is never looked at again,
  and blocks on top of it are dropped silently ("main blockchain wrong height",
  `blockchain.cpp:1907`), however much work they have;
- `check_against_checkpoints` reads the height before its loop; after a roll back a later
  checkpoint is looked up where the chain no longer reaches, which throws and leaves
  `m_checkpoints_updating` set (variable `thrown`; `blockchain.cpp:4633` says such a checkpoint is
  passed over).

## 4. Pruning

`Stripes` has the arithmetic of `common/pruning.cpp`; `Pruning` the tables of prunable data, the
tip table, and `prune_worker` as called by `prune_blockchain` and `update_pruning`. A pass
commits at checkpoints, and `PruneStopped` and `UpdateStopped` are passes of which only that
part remained. One transaction per block; `V1Txs` are never pruned.

Run `prune` (4 stripes of 2 blocks, a tip of 2, 11 blocks, 2 pops, 1 stop) covers a whole cycle of
stripes and blocks that leave the tip, are popped and come back. It checks that the node has
what it claims and offers until the first pop (`ClaimsUntilPopped`, `OffersOnlyStored`), that
the rest is recorded for deletion and deleted unless a pass was cut short
(`NothingLeftBehind`, `PrunedEventually`, with weak fairness of `update_pruning`, which
`core::on_idle` calls for as long as the daemon runs), and that the next unpruned height agrees
with its definition. All four invariants are proved for every size of stripes, tip and chain
(section 9). After a pop, blocks pruned when they left the tip are counted as tip again,
which the check mode of the same function reports as an error (`db_lmdb.cpp:2249`; definition
`HasWhatItClaims`, which `ClaimsUntilPopped` therefore asks for only until the first pop).
A first pass cut short is never resumed: the seed is stored by the first checkpoint and
`core::init` then only updates, so the remaining blocks keep their data.

## 5. The download queue

`BlockQueue` has one operator per method of `block_queue` (each holds the mutex throughout) and
lets any connection call any of them with any part of its chain. In run `queue_fork` two peers
are on different branches and one of them is pruned; spans overlap, replace each other and leave
gaps. No hash stays requested or held without a span, the next needed height passes over no gap
and a reservation covers only blocks that the peer can serve. The walk of `get_next_needed_height` and
`get_next_span` along the spans is written without recursion, by the span it stops at, so that the
provers can use it.

## 6. Synchronisation

`BlockSync` is the part of the protocol handler that downloads blocks and adds them, over the
queue of section 5 (`BQ == INSTANCE BlockQueue`, on the variable `queue`). A connection has its
context and at most one handler; handlers of different connections run in different threads. A
handler is cut where it changes the queue, takes or leaves `m_sync_lock`, or hands a span to the
core, and `pc` says where it is:

| Actions | Code |
|---|---|
| `Connect`, `TimedSync`, `PeerCloses`, `Close` | `process_payload_sync_data`, as called by `net_node.inl`; `on_connection_close` |
| `OnCallback`, `CheckStandby`, `KickIdle` | `on_callback`, `check_standby_peers`, `kick_idle_peers` |
| `ResponseChainEntry`, `ResponseGetObjects` | the two answers of a peer |
| `TryLock`, `LookAtSpan`, `NoSpanLeft`, `HandleSpan`, `RemoveAdded`, `StopAdding` | `try_add_next_blocks` |
| `FlushStale`, `Pace`, `Request`, `ResetNextSpan` | `request_missing_objects` |

Peers answer from a fixed chain, after any delay. A peer is silent for good only if its connection
closes (`PeerCloses`, or a second time-out): answers are strongly fair, which the code cannot
guarantee of a peer, so the liveness results are about peers that answer or go. `late` is whatever a clock decides. A hash stands for
a block with all its ancestors, so two chains that share a block share everything below it
(`BranchAssumption`).

Run `sync`: two peers on different branches, the second block of one of them wrong; chain entries
of three ids, so that the longer chain takes two; a queue that is full with one span; and one event
out of: a request that times out (the answer may still come, and a second time-out drops the
peer), a connection that is closed, a timed synchronisation in standby, a lock found taken by a
thread that only tries it, a wrong block that is refused without being remembered as invalid. What
it shows:

- `QueueSpec`: BlockSync implements BlockQueue. Each step of each handler is a step of the queue's
  specification or leaves the queue alone, so the invariants proved for the queue hold in it. Proved
  for every instance, as is `NotForgotten` (section 9).
- `NotForgotten`: a connection that is synchronizing and runs no handler waits for an answer or a
  callback. Otherwise nothing would wake it.
- `Downloaded`: without such an event the best chain is downloaded.
- `Settles`: no span stays scheduled for ever, with or without such an event.

Fairness: a handler runs on, pending callbacks and answers are handled, closed connections are
made again (`idle_worker`, the strands, the connection maker), timed synchronisations go on.
Answers are strongly fair: a peer sends them, and a strand handles its work in order. Time-outs are
not fair.

The model also reaches the following, which is why `Downloaded` does not say "added" and why
`ctx.idle` is excepted:

- a handler fills a span and finds the lock taken by one that is past its last look at the queue;
  both find nothing more to ask for. Connections then return to `state_normal` or are dropped and
  made again, with the span still in the queue (the comment at line 2357 is about this case);
- after a span with a wrong block `try_add_next_blocks` returns (line 1606) without asking for
  more. If the span was another peer's, the connection stays synchronizing with no request, and
  neither `kick_idle_peers` nor a timed synchronisation looks at it;
- `prepare_handle_incoming_blocks` refuses a span and the handler returns (line 1509) without
  removing it. If its connection was closed already, the span stays at the head of the queue, and
  every handler that takes the lock meets it again;
- the next span is filled between `get_next_span_if_scheduled` and `reset_next_span_time` (2201,
  2211), which then throws; out of a callback this leaves the same kind of connection;
- the late answer to a request given up as idle ends the connection ("out of the blue").

Simplified: callbacks are a flag, not a count; `kick_idle_peers` and its callback are one step; a
peer that reconnects has its old identity; a close and a chain entry are one step each; the queue
limits (spans and bytes) are one number. `LookAtSpan` reads the next span and removes an old one in one
step; in between, other threads may change the queue but, without `m_sync_lock`, not the chain.
`HandleSpan` has three outcomes: refused by `prepare_handle_incoming_blocks`, added, or a wrong block,
remembered or not. The orphan (1608) ends like a wrong block. Left out are the returns at a shutdown
(1522), on internal errors of the sizes (1511, 1534) and when the commit fails
(`cleanup_handle_incoming_blocks`, 1637), which leave the span in the queue. Not modelled: notifications of new blocks,
`update_sync_search`, pruned peers and `notify_new_stripe`, blocked hosts.

## 7. The transaction pool

`TxPool` has the rows of the pool, the indexes in memory (`spent`, `sorted`, `weight`, `timedout`,
`cache`, whether the cookie moved), the chain as a path in a tree of blocks, the cached template and
what is being sent. Every operation of `tx_pool.cpp` that changes the pool is an operator from pools
to pools; the actions are the callers: `HandleTx`, `HandleBlockTx`, `HandleBlocks` (a batch, which may
abort), `PopBlock`, `CreateTemplate`, `RemoveStuck`, `FlushTx`, `RelayPool`, `RelayTx`, `Send` (with
`set_relayed`), `Restart`. `TimerEnds` and `Age` are the clock. An action is what runs under the pool's
lock.

- `pool`: three transactions of which two pairs share a key image, one needs an output of a block
  and one may be handed in for no relay or for a private one and be asked for again, a pool and a
  block that hold two, a fork that bars one and makes another too cheap, batches of two blocks, one
  restart or failed batch. Indexes and rows agree (`IndexesAgree`), nothing is mined and pooled, a
  template served from the cache can be mined (`TemplateSound`), `init` succeeds (`Restartable`).
- `pool_relay`: one transaction in the stem phase that may come round again, one forwarded from an
  anonymity network, a block that mines the first, timers and life times. No transaction waits on an
  embargo that nobody will end (`NotStranded`), public ones stay public (`NeverHidden`), private ones
  become public (`Fluffed`; weak fairness of the idle loop, the strands that send, and the timers).
  Life times are days and embargoes minutes, so `Age` waits for those.

A transaction that goes from stem to fluff while it has a row is counted twice in the weight and has
two entries in the fee order. If `prune` later meets the second entry it finds no row and returns,
and its `LockedTXN` aborts: the row is back, its key images are not, and a second spender is
accepted. `dirty` marks this and aborted batches, whose indexes are not rolled back; `IndexesAgree` and
`Restartable` except it. After an aborted batch the fee order can be empty while rows are left; `prune`
then decrements the end of an empty set, which the model takes to do nothing. A crash between adding and sending leaves a stem transaction with an endless
embargo (`NotStranded`, `Fluffed` say `faults = 0`).

`set_relayed` does not move the cookie. A transaction handed in with `do_not_relay` is in the phase
`none`, which `fill_block_template` takes; when a wallet then asks to relay it (`on_relay_tx`) it becomes
`local` or `stem`, and a template cached before is still served with it, although a new one would leave
it out. The run reaches this (`Asked`), and `TemplateSound` excepts exactly the rows that `set_relayed` has
touched.

## 8. The thread pool

`ThreadPool` has the queue of jobs, a stack of frames per thread, the counter and condition variable of
each waiter, and the thread-local `depth` and `is_leaf`; a section under a mutex is a step. A job is one
submission: it is submitted once, by one client or job, and leaves submit nothing (`WorkAssumption`). Run
`threads`: two clients and a worker; a job submits two leaves and a job, of which two throw. A wait
returns only when its jobs have ended and reports their exceptions (`WaitMeansDone`), `is_leaf` is right
however jobs nest (`LeafKnown`), no notification is lost (`NoLostWakeup`) and every wait returns
(`Returns`; the operating system runs every thread). A job that throws inside `submit` leaves `depth`
raised; the thread then runs its later jobs itself. The proofs include a pool without workers (`max` is
1); the run has one. Not modelled: jobs without a waiter, and the second wait in the destructor of a
waiter, which finds the counter at 0 but may run what others have queued.

## 9. What is proved

All proofs are checked by TLAPS for every value of the constants that satisfies the named
assumptions, which TLC evaluates in every run: those of `ForkTable` (tables of entries, the original
version, a horizon above all heights) and `HardFork` (releases are ordered and keep earlier forks),
`SizesAssumption` (the sizes of stripes), `PruningBounds`, `QueueAssumption`, `SyncAssumption`,
`StripesAssumption`, `BranchAssumption`, `TreeAssumption`, `PointsAssumption`, `WorkAssumption`.

| Theorem | Argument |
|---|---|
| `ForkTableProofs!RegistrationOrdered` | appending an accepted entry keeps the order |
| `ForkTableProofs!QueriesHold` | in an ordered table the scheduled version of a height is that of the last fork at or below it (`Ideal`), so the first height of a version, and the next version, are those of the fork that the searches stop at |
| `HardForkProofs!TypeCorrect` | with `Shape` (window length and chain length go together in each mode) |
| `HardForkProofs!FollowsSchedule`, `RollbackRestores` | `ScheduleInv`: with thresholds 0 the index is the scheduled one in every mode, every stored and every saved block fits the schedule at its height, and at start-up a chain whose top agrees with the new table agrees below as well |
| `HardForkProofs!VersionsAreRecorded` | the recorded version of a height is that of its block in every mode, in the middle of `reorganize_from_block_height` too |
| `HardForkProofs!CountersAgree` | how counts change when a vote is added, dropped or put back, for each way the code updates the window |
| `HardForkProofs!WindowRepaired`, `RestartKeepsFork` | `WindowInv`: away from the pops of a switch or roll back the window is the one a rescan computes; the index follows from `ScheduleInv` |
| `PruningProofs!ClaimsHold` | what is claimed at a height was claimed at every smaller one |
| `PruningProofs!NothingForgotten` | `Recorded`: stored data outside the stripe is in the tip table, whatever the height |
| `PruningProofs!NextUnprunedHolds` | the heights of a stripe are the multiples of the stripe size whose quotient has the stripe's remainder; `NextIndex` is the least such quotient from a given one on (`NextIndexIsNext`), and the three formulas of the code give its start, or the tip's (`StartIsNextIndex`, `NextUnpruned`) |
| `PruningProofs!OffersHold` | from a height of the stripe to the next pruned one every height is of the stripe or the tip (`KeptUntilNextPruned`), so `ClaimsHold` applies |
| `BlockQueueProofs!TypeCorrect`, `RequestsAreListed`, `HeldIsListed` | `Good`, kept by each method on any queue |
| `BlockQueueProofs!NextNeededHolds` | in a `Good` queue the span the walk stops at is reached from the given height over spans that leave no gap |
| `BlockQueueProofs!ReservationsHold` | `reserve_span` cuts the span at the end of the peer's stripe and of its list, on any queue |
| `BlockSyncProofs!HandlersUseTheQueue` | `Inv`: the needed list of a connection is a run of the peer's chain that ends at its last response, the spans and the requests under way are pieces of some chain, the thread between lock and unlock holds the lock and the span it adds, a closed connection has no handler; with `Good` and `Placed` of the queue. From it the arguments of each call are ones that `BlockQueue` allows |
| `BlockSyncProofs!NobodyIsForgotten` | the same invariant, with `Woken` for each connection |
| `BlockchainProofs!TypeCorrect`, `MainStaysValid` | `ChainInv`: the chain and the copy a batch would return to are linked, numbered and spend once; a switch in progress has its split inside the chain |
| `BlockchainProofs!RestoreNeverFails` | `RestoreInv`: during a switch the original blocks can be returned on the part below the split, from the pool together with what the new blocks took. `Calm` excludes a tree in which a batch can be aborted and a checkpoint loaded, where the case of section 3 is real |
| `BlockchainSwitchProofs!SwitchesDoNotNest` | `Apart`: main chain, alternative blocks and the blocks of the switch have nothing in common; the old chain has less work than the new one and holds no checkpoint |
| `BlockchainSwitchProofs!PointsAreEnforced` | `check_against_checkpoints` leaves a chain that passes, and a block that does not is refused; under `Calm` |
| `BlockchainSwitchProofs!BlocksKnownOnce` | `Apart` with `Unmarked`: what is marked invalid is known nowhere else; under `Once` (no block spends a key image twice, so no batch is aborted) |
| `BlockchainSwitchProofs!BestIsMain` | `BestInv`: in each phase of a switch the alternative blocks have at most the work of the chain that is kept, or that a roll back returns to; under `OnlySwitches` (no pops, no new checkpoints: after those the heaviest chain may be an alternative one) |
| `BlockchainSwitchProofs!OnlyWrongBlamed` | `BlameInv`: the transactions of alternative blocks stay at hand, so a block that cannot be connected is wrong or follows a wrong one; under `Once` and without transactions that expire |
| `ThreadPoolProofs!NoWakeupLost` | a worker sleeps only when it found the queue empty, and `submit` wakes one if any sleeps |
| `ThreadPoolProofs!WaitHolds`, `LeafHolds` | `Inv`: the frames of a stack nest as submits and waits do, a job is queued or on one stack or neither, what a frame has yet to submit is fresh, the counter of a waiter is the number of its jobs that are queued or run from the queue, and its error flag says whether one of its jobs threw |

The hypotheses are not there for the provers: each excludes a behaviour the code has, described in
section 2 or 3, that violates the property.

Only model-checked:

- liveness (`HeaviestWins`, `PrunedEventually`, `Downloaded`, `Settles`, `Fluffed`, `Returns`), which is
  outside TLAPS;
- the properties of the pool. The operations of `TxPool` fold over the transactions and key images of a
  block or the pool (weights are sums over the rows), and what a fold computes for every input takes
  an induction over data that the provers cannot do;
- `hf_mainnet_table`, a statement about one table.

## 10. What is left

1. Pool and chain in one model: `Blockchain` has the pool as a set, `TxPool` the chain as a path.
2. Peer lists, the peers and epochs of Dandelion++, the noise channels, the multisig message store.
3. `HardFork` inside a batch that aborts; an abstract specification of the chain (the heaviest
   right chain of the blocks known) that `Blockchain` implements.
4. `TxPool` without folds over transactions and blocks, so that `IndexesAgree` and `NotStranded` can be
   proved as well.

Not modelled, and not planned: cryptography, difficulty and weight arithmetic, the wallet's key
handling, RPC parsing, devices and offline tools; `PROJECT.json` gives the reason for each.
Left out inside the modelled parts: pruned synchronisation in `handle_block_to_main_chain`,
blocks known from the precomputed hashes, checkpoints from DNS, and `HardFork::get_state`.
