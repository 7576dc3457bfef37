------------------------------- MODULE Stripes -------------------------------
(***************************************************************************)
(* The stripe arithmetic of common/pruning.cpp: which blocks a node with a *)
(* pruning seed keeps in full.  Heights are divided into cycles of         *)
(* NumStripes stripes of StripeSize blocks; a pruned node keeps one stripe *)
(* of every cycle, and the last TipBlocks blocks.                          *)
(***************************************************************************)
EXTENDS Integers

CONSTANTS
    StripeSize,      \* CRYPTONOTE_PRUNING_STRIPE_SIZE
    LogStripes,      \* CRYPTONOTE_PRUNING_LOG_STRIPES
    TipBlocks        \* CRYPTONOTE_PRUNING_TIP_BLOCKS

NumStripes == 2 ^ LogStripes

ASSUME SizesAssumption ==
    /\ StripeSize \in Nat \ {0}
    /\ LogStripes \in 1..7
    /\ NumStripes \in 1..128
    /\ TipBlocks \in Nat

(* The seed: seven bits of stripe, less one, under the bits of LogStripes.  *)

make_pruning_seed(stripe) == LogStripes * 128 + (stripe - 1)

SeedStripe(s) == IF s = 0 THEN 0 ELSE 1 + (s % 128)

(* The stripe of block h in a chain of H blocks, 0 in the part that every   *)
(* node keeps.                                                              *)
get_pruning_stripe(h, H) ==
    IF h + TipBlocks >= H THEN 0 ELSE ((h \div StripeSize) % NumStripes) + 1

has_unpruned_block(h, H, s) ==
    \/ SeedStripe(s) = 0
    \/ get_pruning_stripe(h, H) \in {0, SeedStripe(s)}

(* Faulty: the next cycle is taken although the stripe is still ahead.      *)
StripeStartNextCycle(h, s) ==
    ((h \div StripeSize) \div NumStripes + 1) * (StripeSize * NumStripes)
        + (SeedStripe(s) - 1) * StripeSize

(* The first height of the seed's stripe in the cycle of block h, or in the *)
(* next cycle when that stripe is already past.                             *)
StripeStart(h, s) ==
    LET own    == ((h \div StripeSize) % NumStripes) + 1
        cycles == (h \div StripeSize) \div NumStripes
        cycle  == IF SeedStripe(s) > own THEN cycles ELSE cycles + 1
    IN  cycle * (StripeSize * NumStripes) + (SeedStripe(s) - 1) * StripeSize

get_next_unpruned_block_height(h, H, s) ==
    IF has_unpruned_block(h, H, s) THEN h
    ELSE IF StripeStart(h, s) + TipBlocks > H
         THEN IF H < TipBlocks THEN 0 ELSE H - TipBlocks
         ELSE StripeStart(h, s)

(* Faulty: a whole stripe is counted from h, not from the stripe's start.   *)
NextPrunedUnaligned(h, H, s) ==
    IF SeedStripe(s) = 0 \/ h + TipBlocks >= H THEN H
    ELSE IF ~has_unpruned_block(h, H, s) THEN h
    ELSE h + StripeSize

get_next_pruned_block_height(h, H, s) ==
    IF SeedStripe(s) = 0 \/ h + TipBlocks >= H THEN H
    ELSE IF ~has_unpruned_block(h, H, s) THEN h
    ELSE get_next_unpruned_block_height(h, H,
             make_pruning_seed(1 + (SeedStripe(s) % NumStripes)))

Seeds == {0} \union {make_pruning_seed(stripe) : stripe \in 1..NumStripes}
=============================================================================
