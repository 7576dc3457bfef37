------------------------------ MODULE HardFork ------------------------------
(***************************************************************************)
(* The hard-fork object (cryptonote_basic/hardfork.{h,cpp}) together with  *)
(* the calls Blockchain makes to it: init() at start-up, add() for every   *)
(* block stored, on_block_popped() for every block removed, and            *)
(* reorganize_from_chain_height() after a chain switch, after a rollback   *)
(* and after the start-up pops. How a fork table is registered is module   *)
(* ForkTable; here the registered forks are given.                         *)
(*                                                                         *)
(* Indices are 1-based: current_fork_index = i stands for i-1 in the code, *)
(* and chain[h + 1] is the block at height h.                              *)
(***************************************************************************)
EXTENDS Integers, Sequences, FiniteSets, FiniteSetsExt

CONSTANTS
  Releases,         \* registered forks of successive releases of the daemon
  OriginalVersion,  \* original_version
  WindowSize,       \* window_size
  Versions,         \* the version numbers a block or a fork may carry
  MaxHeight,        \* bound: the chain never gets longer than this
  SplitHeights      \* bound: heights at which alternative chains fork off

Fork == [version : Versions, height : Nat, threshold : 0..100]

ASSUME VersionsAssumption == Versions \subseteq Nat \ {0} /\ {1, OriginalVersion} \subseteq Versions
ASSUME WindowAssumption == WindowSize \in Nat \ {0}
ASSUME BoundsAssumption == MaxHeight \in Nat \ {0} /\ SplitHeights \subseteq Nat
(* What add_fork() guarantees of a registered table (ForkTable!Ordered),   *)
(* and that a new release keeps the forks of the one before.               *)
ASSUME ReleasesAssumption ==
  /\ Releases \in Seq(Seq(Fork)) /\ Releases # <<>>
  /\ \A r \in DOMAIN Releases :
       /\ Releases[r] # <<>> /\ Releases[r][1].version = OriginalVersion
       /\ \A i, j \in DOMAIN Releases[r] : i < j =>
            /\ Releases[r][i].version < Releases[r][j].version
            /\ Releases[r][i].height < Releases[r][j].height
  /\ \A q, r \in DOMAIN Releases : q <= r =>
       /\ Len(Releases[q]) <= Len(Releases[r])
       /\ \A i \in DOMAIN Releases[q] : Releases[q][i] = Releases[r][i]

VARIABLES
  chain,               \* blocks of the main chain, as the database holds them
  hf_versions,         \* database table hf_versions; entries survive a pop
  release,             \* which release runs
  versions,            \* voting window
  last_versions,       \* votes per version in the window
  current_fork_index,
  mode,                \* which function of Blockchain is executing
  cursor,              \* loop variable of that function
  split,               \* split_height / rollback_height
  saved,               \* disconnected_chain
  popped               \* history: on_block_popped ran since the last rescan

hfvars == <<versions, last_versions, current_fork_index>>
vars == <<chain, hf_versions, release, versions, last_versions,
          current_fork_index, mode, cursor, split, saved, popped>>

Heights == 0 .. MaxHeight - 1
Block == [major : Versions, minor : Versions \cup {0}]
Modes == {"startup", "run", "disconnect", "connect", "rollback", "restore",
          "reorg-switch", "reorg-rollback", "reorg-restore", "reorg-startup"}

heights == Releases[release]

-----------------------------------------------------------------------------
(* Pure helpers of the class.                                              *)

get_block_vote(b) == IF b.minor = 0 THEN 1 ELSE b.minor

get_effective_version(r, v) ==
  LET max_version == Releases[r][Len(Releases[r])].version
  IN  IF v > max_version THEN max_version ELSE v

Accepts(f, b) == b.major = f.version /\ get_block_vote(b) >= f.version

do_check(b) == Accepts(heights[current_fork_index], b)

(* Number of votes per version in a window.                                *)
CountVotes(w) == [v \in Versions |-> Cardinality({i \in DOMAIN w : w[i] = v})]

(* accumulated_votes when the loop has come down to fork n: the sum of the *)
(* counters of the versions of the forks n, n+1, ... (none of which is     *)
(* above WindowSize).                                                      *)
accumulated_votes(fs, n, counts) ==
  Cardinality({p \in (n .. Len(fs)) \X (1 .. WindowSize) : p[2] <= counts[fs[p[1]].version]})

threshold(f) == (WindowSize * f.threshold + 99) \div 100

get_voted_fork_index(fs, h, counts, current) ==
  LET enough == {n \in DOMAIN fs : /\ h >= fs[n].height
                                   /\ accumulated_votes(fs, n, counts) >= threshold(fs[n])}
  IN  IF enough = {} THEN current ELSE Max(enough)

(* Index of the last fork scheduled at or below height h.                  *)
ScheduledIndex(fs, h) == Max({n \in DOMAIN fs : n = 1 \/ h >= fs[n].height})

get_ideal_version(h) ==
  LET n == ScheduledIndex(heights, h)
  IN  IF n = 1 THEN OriginalVersion ELSE heights[n].version

get_current_version == heights[current_fork_index].version

(* The index after a vote count: it only ever rises.                       *)
Voted(fs, h, counts, current) ==
  LET voted == get_voted_fork_index(fs, h, counts, current)
  IN  IF voted > current THEN voted ELSE current

(* The votes of the blocks at heights from .. to, as the rescans read them.*)
VotesBetween(r, from, to) ==
  [i \in 1 .. to - from + 1 |-> get_effective_version(r, get_block_vote(chain[from + i]))]

-----------------------------------------------------------------------------
(* The operations of the class, as relations on its variables.             *)

(* add(): trims the window to leave room for one vote, then counts it.     *)
Surplus == IF Len(versions) >= WindowSize THEN Len(versions) - WindowSize + 1 ELSE 0

VotesAfter(b) ==
  LET vote == get_effective_version(release, get_block_vote(b))
  IN  [v \in Versions |-> last_versions[v]
                            - Cardinality({i \in 1 .. Surplus : versions[i] = v})
                            + (IF v = vote THEN 1 ELSE 0)]

WindowAfter(b) ==
  Append(SubSeq(versions, Surplus + 1, Len(versions)), get_effective_version(release, get_block_vote(b)))

(* Faulty: counts the votes for the block's own height.                    *)
HFAddOwnHeight(b, h) ==
  IF do_check(b)
  THEN /\ hf_versions' = [hf_versions EXCEPT ![h] = get_current_version]
       /\ versions' = WindowAfter(b)
       /\ last_versions' = VotesAfter(b)
       /\ current_fork_index' = Voted(heights, h, VotesAfter(b), current_fork_index)
  ELSE UNCHANGED <<hf_versions, versions, last_versions, current_fork_index>>

(* Faulty: records the version the vote leads to, not the block's.         *)
HFAddRecordsNext(b, h) ==
  IF do_check(b)
  THEN LET voted == Voted(heights, h + 1, VotesAfter(b), current_fork_index)
       IN  /\ hf_versions' = [hf_versions EXCEPT ![h] = heights[voted].version]
           /\ versions' = WindowAfter(b)
           /\ last_versions' = VotesAfter(b)
           /\ current_fork_index' = voted
  ELSE UNCHANGED <<hf_versions, versions, last_versions, current_fork_index>>

HFAdd(b, h) ==
  IF do_check(b)
  THEN /\ hf_versions' = [hf_versions EXCEPT ![h] = get_current_version]
       /\ versions' = WindowAfter(b)
       /\ last_versions' = VotesAfter(b)
       /\ current_fork_index' = Voted(heights, h + 1, VotesAfter(b), current_fork_index)
  ELSE UNCHANGED <<hf_versions, versions, last_versions, current_fork_index>>

(* Faulty: the vote that leaves the window stays counted.                  *)
HFPopKeepsCount(h) ==
  LET front == hf_versions[h]
  IN  /\ versions' = <<front>> \o SubSeq(versions, 1, Len(versions) - 1)
      /\ last_versions' = [last_versions EXCEPT ![front] = @ + 1]
      /\ current_fork_index' = ScheduledIndex(heights, h)

(* Faulty: the index is left alone.                                        *)
HFPopKeepsIndex(h) ==
  LET last == versions[Len(versions)]
      front == hf_versions[h]
  IN  /\ versions' = <<front>> \o SubSeq(versions, 1, Len(versions) - 1)
      /\ last_versions' = [v \in Versions |-> last_versions[v]
                             - (IF v = last THEN 1 ELSE 0) + (IF v = front THEN 1 ELSE 0)]
      /\ UNCHANGED current_fork_index

(* on_block_popped(1), called once the database has dropped the top block  *)
(* at height h.                                                            *)
HFPop(h) ==
  LET last == versions[Len(versions)]
      front == hf_versions[h]
      shifted == <<front>> \o SubSeq(versions, 1, Len(versions) - 1)
  IN  /\ versions' = shifted
      /\ last_versions' = [v \in Versions |-> last_versions[v]
                             - (IF v = last THEN 1 ELSE 0) + (IF v = front THEN 1 ELSE 0)]
      /\ current_fork_index' = ScheduledIndex(heights, h)

(* The part of reorganize_from_chain_height(height) before its loop of     *)
(* add(): the window ends at block height bh = height - 1.                 *)
ReorgWindowWide(bh) == VotesBetween(release, IF bh >= WindowSize THEN bh - WindowSize ELSE 0, bh)

ReorgWindow(bh) ==
  VotesBetween(release, IF bh >= WindowSize - 1 THEN bh - (WindowSize - 1) ELSE 0, bh)

LoweredIndex(bh) ==
  LET start_version == IF bh = 0 THEN OriginalVersion ELSE hf_versions[bh]
  IN  Max({n \in 1 .. current_fork_index : n = 1 \/ heights[n].version <= start_version})

(* Faulty: does not count the votes before re-adding blocks.               *)
HFReorganizeNoVote(bh) ==
  /\ versions' = ReorgWindow(bh)
  /\ last_versions' = CountVotes(ReorgWindow(bh))
  /\ current_fork_index' = LoweredIndex(bh)

HFReorganize(bh) ==
  /\ versions' = ReorgWindow(bh)
  /\ last_versions' = CountVotes(ReorgWindow(bh))
  /\ current_fork_index' = Voted(heights, bh + 1, CountVotes(ReorgWindow(bh)), LoweredIndex(bh))

(* The window and index rescan_from_chain_height() reads from the database *)
(* in init().                                                              *)
RescanWindow(r) ==
  VotesBetween(r, IF Len(chain) > WindowSize THEN Len(chain) - WindowSize ELSE 0, Len(chain) - 1)

RescanIndex(r) ==
  LET lastv == hf_versions[Len(chain) - 1]
      known == {n \in DOMAIN Releases[r] : Releases[r][n].version = lastv}
      start == IF known = {} THEN Len(Releases[r]) ELSE Min(known)
  IN  Voted(Releases[r], Len(chain), CountVotes(RescanWindow(r)), start)

-----------------------------------------------------------------------------
(* Start-up: Blockchain::init.                                             *)

Init ==
  /\ chain = <<>> /\ hf_versions = [h \in Heights |-> 0] /\ release \in DOMAIN Releases
  /\ versions = <<>> /\ last_versions = CountVotes(<<>>) /\ current_fork_index = 1
  /\ mode = "startup" /\ cursor = 0 /\ split = 0 /\ saved = <<>> /\ popped = FALSE

(* handle_block_to_main_chain as far as the hard fork object sees it: the  *)
(* version check, then the database adds the block and calls add().        *)
StoreBlock(b) ==
  /\ Len(chain) < MaxHeight
  /\ do_check(b)
  /\ chain' = Append(chain, b)
  /\ HFAdd(b, Len(chain))

(* A new database gets the genesis block, whose minor version is 0.        *)
AddGenesis ==
  /\ mode = "startup" /\ chain = <<>>
  /\ StoreBlock([major |-> OriginalVersion, minor |-> 0])
  /\ UNCHANGED <<release, mode, cursor, split, saved, popped>>

TopAgrees ==
  LET ideal == get_ideal_version(Len(chain) - 1)
  IN  ideal <= 1 \/ ideal = chain[Len(chain)].major

(* The start-up loop pops blocks in the database only; cursor counts them. *)
StartupPop ==
  /\ mode = "startup" /\ chain # <<>> /\ ~TopAgrees
  /\ chain' = SubSeq(chain, 1, Len(chain) - 1)
  /\ cursor' = cursor + 1
  /\ UNCHANGED <<hf_versions, release, versions, last_versions, current_fork_index,
                 mode, split, saved, popped>>

StartupDone ==
  /\ mode = "startup" /\ chain # <<>> /\ TopAgrees
  /\ IF cursor > 0
     THEN /\ HFReorganize(Len(chain) - 1)
          /\ mode' = "reorg-startup" /\ cursor' = Len(chain)
     ELSE mode' = "run" /\ UNCHANGED <<cursor, versions, last_versions, current_fork_index>>
  /\ UNCHANGED <<chain, hf_versions, release, split, saved, popped>>

(* The daemon stops and release r starts on its database: a new object,    *)
(* HardFork::init, rescan_from_chain_height.                               *)
Restart(r) ==
  /\ mode = "run" /\ r >= release
  /\ release' = r
  /\ versions' = RescanWindow(r) /\ last_versions' = CountVotes(RescanWindow(r))
  /\ current_fork_index' = RescanIndex(r)
  /\ mode' = "startup" /\ cursor' = 0 /\ popped' = FALSE
  /\ UNCHANGED <<chain, hf_versions, split, saved>>

-----------------------------------------------------------------------------
(* Blocks come and go.                                                     *)

AddBlock(b) ==
  /\ mode = "run"
  /\ StoreBlock(b)
  /\ UNCHANGED <<release, mode, cursor, split, saved, popped>>

(* pop_block_from_blockchain. *)
PopTop ==
  /\ Len(chain) > 1
  /\ chain' = SubSeq(chain, 1, Len(chain) - 1)
  /\ HFPop(Len(chain) - 1)

(* pop_blocks(), one block at a time.                                      *)
PopBlock ==
  /\ mode = "run"
  /\ PopTop
  /\ popped' = TRUE
  /\ UNCHANGED <<hf_versions, release, mode, cursor, split, saved>>

(* switch_to_alternative_blockchain onto a chain forking off at height s.  *)
StartSwitch(s) ==
  /\ mode = "run" /\ s \in 1 .. Len(chain) - 1
  /\ mode' = "disconnect" /\ split' = s
  /\ saved' = SubSeq(chain, s + 1, Len(chain))
  /\ UNCHANGED <<chain, hf_versions, release, hfvars, cursor, popped>>

Disconnect ==
  /\ mode = "disconnect"
  /\ PopTop
  /\ mode' = IF Len(chain) - 1 = split THEN "connect" ELSE "disconnect"
  /\ UNCHANGED <<hf_versions, release, cursor, split, saved, popped>>

ConnectBlock(b) ==
  /\ mode = "connect"
  /\ StoreBlock(b)
  /\ UNCHANGED <<release, mode, cursor, split, saved, popped>>

(* All alternative blocks are connected: rescan, then run add() again for  *)
(* the blocks above the split.                                             *)
SwitchDone ==
  /\ mode = "connect" /\ Len(chain) > split
  /\ HFReorganize(split - 1)
  /\ mode' = "reorg-switch" /\ cursor' = split
  /\ UNCHANGED <<chain, hf_versions, release, split, saved, popped>>

(* An alternative block is refused: rollback_blockchain_switching.         *)
ConnectFails ==
  /\ mode = "connect"
  /\ mode' = "rollback"
  /\ UNCHANGED <<chain, hf_versions, release, hfvars, cursor, split, saved, popped>>

RollbackPop ==
  /\ mode = "rollback" /\ Len(chain) # split
  /\ PopTop
  /\ UNCHANGED <<hf_versions, release, mode, cursor, split, saved, popped>>

RollbackRescan ==
  /\ mode = "rollback" /\ Len(chain) = split
  /\ HFReorganize(split - 1)
  /\ mode' = "reorg-rollback" /\ cursor' = split
  /\ UNCHANGED <<chain, hf_versions, release, split, saved, popped>>

(* Re-adding the disconnected blocks. A refusal is the code's PANIC: the   *)
(* rollback stops there and the daemon goes on with the shorter chain.     *)
RestoreBlock ==
  /\ mode = "restore" /\ saved # <<>>
  /\ StoreBlock(Head(saved))
  /\ saved' = Tail(saved)
  /\ UNCHANGED <<release, mode, cursor, split, popped>>

RestorePanics ==
  /\ mode = "restore" /\ saved # <<>> /\ ~do_check(Head(saved))
  /\ mode' = "run" /\ saved' = <<>> /\ split' = 0
  /\ UNCHANGED <<chain, hf_versions, release, hfvars, cursor, popped>>

RestoreDone ==
  /\ mode = "restore" /\ saved = <<>>
  /\ HFReorganize(split - 1)
  /\ mode' = "reorg-restore" /\ cursor' = split
  /\ UNCHANGED <<chain, hf_versions, release, split, saved, popped>>

(* The loop of add() in reorganize_from_block_height.                      *)
Reorganizing == mode \in {"reorg-switch", "reorg-rollback", "reorg-restore", "reorg-startup"}

ReorgAdd ==
  /\ Reorganizing /\ cursor < Len(chain)
  /\ HFAdd(chain[cursor + 1], cursor)
  /\ cursor' = cursor + 1
  /\ UNCHANGED <<chain, release, mode, split, saved, popped>>

ReorgDone ==
  /\ Reorganizing /\ cursor = Len(chain)
  /\ mode' = IF mode = "reorg-rollback" THEN "restore" ELSE "run"
  /\ popped' = FALSE /\ cursor' = 0
  /\ saved' = IF mode = "reorg-rollback" THEN saved ELSE <<>>
  /\ split' = IF mode = "reorg-rollback" THEN split ELSE 0
  /\ UNCHANGED <<chain, hf_versions, release, hfvars>>

Next ==
  \/ AddGenesis \/ StartupPop \/ StartupDone
  \/ \E r \in DOMAIN Releases : Restart(r)
  \/ \E b \in Block : AddBlock(b) \/ ConnectBlock(b)
  \/ PopBlock
  \/ \E s \in SplitHeights : StartSwitch(s)
  \/ Disconnect \/ SwitchDone \/ ConnectFails \/ RollbackPop \/ RollbackRescan
  \/ RestoreBlock \/ RestorePanics \/ RestoreDone \/ ReorgAdd \/ ReorgDone

Spec == Init /\ [][Next]_vars

-----------------------------------------------------------------------------
(* Properties.                                                             *)

TypeOK ==
  /\ chain \in Seq(Block) /\ Len(chain) <= MaxHeight
  /\ hf_versions \in [Heights -> Versions \cup {0}]
  /\ release \in DOMAIN Releases
  /\ versions \in Seq(Versions) /\ Len(versions) <= WindowSize
  /\ last_versions \in [Versions -> Int]
  /\ current_fork_index \in DOMAIN heights
  /\ mode \in Modes /\ cursor \in Nat
  /\ split \in 0 .. MaxHeight /\ saved \in Seq(Block) /\ popped \in BOOLEAN

(* The counters last_versions[] and the window versions are maintained     *)
(* separately by add(), on_block_popped() and the two rescans; they always *)
(* agree, so no counter is ever decremented below zero.                    *)
CountsMatchWindow == last_versions = CountVotes(versions)

(* Away from pop_blocks(), the window holds the effective votes of exactly *)
(* the last WindowSize blocks, even after switches and rollbacks whose     *)
(* pops push other values into it.                                         *)
WindowIsLastVotes == mode = "run" /\ ~popped => versions = RescanWindow(release)

(* A daemon that restarts computes, from the database alone, the fork index*)
(* it had while running: add() and reorganize (incremental) agree with     *)
(* rescan_from_block_height (from scratch).                                *)
RestartAgrees == mode = "run" /\ ~popped => current_fork_index = RescanIndex(release)

(* The version the database records for a height (hf_versions) is that of  *)
(* the block stored at that height, whatever was popped, switched and      *)
(* re-added since.                                                         *)
RecordedVersions ==
  mode = "run" => \A h \in 0 .. Len(chain) - 1 : hf_versions[h] = chain[h + 1].major

(* With voting disabled (every threshold 0) the next block must have the   *)
(* version scheduled for its height, at all times and whatever the votes,  *)
(* pops, switches, rollbacks and restarts before it.                       *)
VotingDisabled ==
  \A r \in DOMAIN Releases : \A i \in DOMAIN Releases[r] : Releases[r][i].threshold = 0

OnSchedule ==
  VotingDisabled /\ mode = "run" => current_fork_index = ScheduledIndex(heights, Len(chain))

(* Re-adding the original blocks in a rollback is never refused by the     *)
(* version check: "PANIC! failed to add (again) block".                    *)
NoRollbackPanic == mode = "restore" /\ saved # <<>> => do_check(Head(saved))
=============================================================================
