------------------------------- MODULE Blocks -------------------------------
(***************************************************************************)
(* Geometry of the buddy system (kernel/mm/buddy.h, include/ouros/buddy.h).*)
(* A block of level l is a run of 2^l page frames whose first frame number *)
(* is a multiple of 2^l.  A block is named by that first frame, the only   *)
(* one whose struct page the allocator consults.                           *)
(***************************************************************************)
EXTENDS Integers

CONSTANT MAX_BUDDY_ORDER

(***************************************************************************)
(* The header fixes the order to 4; the powers of two below are tabulated  *)
(* up to it, which keeps every argument about blocks in linear arithmetic. *)
(***************************************************************************)
ASSUME MaxOrderAssumption == MAX_BUDDY_ORDER \in 0..4

Levels == 0..MAX_BUDDY_ORDER

\* 1 << l, up to the first level that is too large
BlockPages(l) == <<1, 2, 4, 8, 16, 32>>[l + 1]

\* The frames of the block of level l that starts at frame p.
Block(p, l) == p .. (p + BlockPages(l) - 1)

Aligned(p, l) == p % BlockPages(l) = 0

\* pgn ^ (1 << l): flip bit l, which is clear in the lower frame of a pair.
get_buddy_pgn(pgn, l) ==
  IF pgn % (2 * BlockPages(l)) < BlockPages(l)
  THEN pgn + BlockPages(l)
  ELSE pgn - BlockPages(l)

\* The first frame of the level-l block around frame p.
HeadAt(p, l) == p - (p % BlockPages(l))
=============================================================================
