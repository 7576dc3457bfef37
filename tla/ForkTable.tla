------------------------------ MODULE ForkTable -----------------------------
(***************************************************************************)
(* Registration of a hard-fork table (hardforks/hardforks.cpp) with the    *)
(* HardFork object, as Blockchain::init does it: add_fork() for one entry  *)
(* after the other, then init(). The queries that only read the registered *)
(* forks are operators.                                                    *)
(***************************************************************************)
EXTENDS Integers, Sequences, FiniteSetsExt

CONSTANTS
  Tables,           \* the tables the run considers
  OriginalVersion,  \* original_version
  Horizon           \* bound: the queries are asked for heights 0..Horizon

Entry == [version : Nat, height : Nat, threshold : Nat, time : Int]

ASSUME TablesAssumption == Tables \subseteq Seq(Entry)
ASSUME OriginalAssumption == OriginalVersion \in Nat \ {0}

(* Every height is below the largest uint64_t; the original version is 1   *)
(* (Blockchain::init), so no fork has a smaller one but the refused 0.     *)
ASSUME HorizonAssumption ==
  /\ Horizon \in Nat
  /\ \A t \in Tables : \A i \in DOMAIN t :
       t[i].height <= Horizon /\ (t[i].version = 0 \/ t[i].version >= OriginalVersion)

VARIABLES
  table,    \* the table of the network the daemon runs on
  next,     \* the entry Blockchain::init passes to add_fork() next
  heights,  \* the registered forks
  ready     \* init() has run

vars == <<table, next, heights, ready>>

Last == heights[Len(heights)]

(* Faulty: an entry at the height of the last one is let through.          *)
AcceptedSameHeight(f) ==
  /\ f.version # 0
  /\ heights # <<>> => f.version > Last.version /\ f.height >= Last.height /\ f.time > Last.time
  /\ f.threshold <= 100

(* The entries add_fork() takes.                                           *)
Accepted(f) ==
  /\ f.version # 0
  /\ heights # <<>> => f.version > Last.version /\ f.height > Last.height /\ f.time > Last.time
  /\ f.threshold <= 100

Init == table \in Tables /\ next = 1 /\ heights = <<>> /\ ready = FALSE

(* Blockchain::init ignores the result: a refused entry is skipped.        *)
add_fork ==
  /\ next <= Len(table)
  /\ heights' = IF Accepted(table[next]) THEN Append(heights, table[next]) ELSE heights
  /\ next' = next + 1
  /\ UNCHANGED <<table, ready>>

(* init() puts a placeholder in an empty table.                            *)
init ==
  /\ next > Len(table) /\ ~ready
  /\ heights' = IF heights # <<>> THEN heights
                ELSE <<[version |-> OriginalVersion, height |-> 0, threshold |-> 0, time |-> 0]>>
  /\ ready' = TRUE
  /\ UNCHANGED <<table, next>>

Next == add_fork \/ init

Spec == Init /\ [][Next]_vars

-----------------------------------------------------------------------------
(* Queries.                                                                *)

get_ideal_version(h) ==
  LET due == {n \in 2 .. Len(heights) : h >= heights[n].height}
  IN  IF due = {} THEN OriginalVersion ELSE heights[Max(due)].version

Never == Horizon + 1  \* stands for numeric_limits<uint64_t>::max()

(* Faulty: does not stop at the first older fork.                          *)
EarliestOfAll(v) == IF heights = <<>> THEN Never ELSE heights[1].height

(* The loop walks down while the version is at least v.                    *)
get_earliest_ideal_height_for_version(v) ==
  LET older == {n \in DOMAIN heights : heights[n].version < v}
      first == IF older = {} THEN 1 ELSE Max(older) + 1
  IN  IF first > Len(heights) THEN Never ELSE heights[first].height

get_next_version(h) ==
  LET reached == {n \in DOMAIN heights : h >= heights[n].height}
  IN  IF reached = {} THEN OriginalVersion
      ELSE heights[IF Max(reached) = Len(heights) THEN Max(reached) ELSE Max(reached) + 1].version

-----------------------------------------------------------------------------
(* Properties.                                                             *)

TypeOK ==
  /\ table \in Tables /\ next \in 1 .. Len(table) + 1
  /\ heights \in Seq(Entry) /\ ready \in BOOLEAN

(* Whatever the table, what add_fork() lets through is strictly increasing *)
(* in version, height and time, thresholds are percentages and version 0   *)
(* does not occur: what every loop over heights relies on.                 *)
Ordered ==
  /\ \A i \in DOMAIN heights : heights[i].version # 0 /\ heights[i].threshold <= 100
  /\ \A i, j \in DOMAIN heights : i < j =>
       /\ heights[i].version < heights[j].version
       /\ heights[i].height < heights[j].height
       /\ heights[i].time < heights[j].time

(* For a version above the first fork's, the earliest ideal height is the  *)
(* least height whose ideal version is at least that version.              *)
EarliestIsLeast ==
  ready => \A v \in heights[1].version + 1 .. Last.version :
             get_earliest_ideal_height_for_version(v)
               = Min({h \in 0 .. Horizon : get_ideal_version(h) >= v})

(* get_next_version() answers with the version in force after the next     *)
(* change of the ideal version, or the last one when no change is left.    *)
NextIsNext ==
  ready => \A h \in heights[1].height .. Horizon :
    LET later == {g \in h + 1 .. Horizon : get_ideal_version(g) > get_ideal_version(h)}
    IN  get_next_version(h) = IF later = {} THEN Last.version ELSE get_ideal_version(Min(later))

(* The two queries by which the rest of the daemon asks about forks to come *)
(* agree with their reference definitions, for every registered table.      *)
QueriesAgree == EarliestIsLeast /\ NextIsNext

(* hardfork.h: the height of an entry is "The height the hardfork takes    *)
(* effect": its version is the ideal one at that height.                   *)
TableTakesEffect ==
  ready => \A i \in DOMAIN table : get_ideal_version(table[i].height) = table[i].version
=============================================================================
