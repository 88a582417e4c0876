----------------------------- MODULE BuddyProofs ----------------------------
(***************************************************************************)
(* Proofs about the buddy allocator, for any machine size, any size of the *)
(* kernel and any highest level up to the kernel's 4.                      *)
(*                                                                         *)
(* The invariants are stated here of pairs (first frame, level), which the *)
(* provers handle better than records.  The heart of the argument is why   *)
(* __free_pages may trust the metadata of the buddy frame.  That frame is  *)
(* covered by some block.  The block is not larger than the one being      *)
(* freed, or it would contain it and blocks are apart; so its first frame  *)
(* is the buddy frame itself, where the marks are true.  This needs        *)
(* alignment, coverage, disjointness and true marks all at once, which is  *)
(* why none of them is inductive alone.                                    *)
(***************************************************************************)
EXTENDS Buddy, TLAPS

-----------------------------------------------------------------------------
(* The geometry of blocks.  Block sizes are tabulated up to the level 4 of *)
(* the kernel, so each lemma is settled in linear arithmetic, level by     *)
(* level.                                                                  *)

\* The blocks of level i at a and of level j at b have no frame in common.
Apart(a, i, b, j) == a + BlockPages(i) <= b \/ b + BlockPages(j) <= a

\* The block of level i at a lies in the block of level j at b.
Nested(a, i, b, j) == b <= a /\ a + BlockPages(i) <= b + BlockPages(j)

\* Frame p lies in the block of level l at a.
Within(p, a, l) == a <= p /\ p < a + BlockPages(l)

LEMMA LevelsBound == Levels \subseteq 0..4 /\ MAX_BUDDY_ORDER \in Levels
BY MaxOrderAssumption DEF Levels

LEMMA BlockPagesTable ==
  /\ BlockPages(0) = 1 /\ BlockPages(1) = 2 /\ BlockPages(2) = 4
  /\ BlockPages(3) = 8 /\ BlockPages(4) = 16 /\ BlockPages(5) = 32
BY DEF BlockPages

LEMMA BlockPagesType ==
  ASSUME NEW l \in 0..5
  PROVE  BlockPages(l) \in Nat /\ BlockPages(l) > 0
BY BlockPagesTable

\* A larger level has larger blocks.
LEMMA BlockPagesMonotone ==
  ASSUME NEW i \in 0..5, NEW j \in 0..5, i < j
  PROVE  2 * BlockPages(i) <= BlockPages(j)
BY BlockPagesTable

\* HeadAt finds the aligned block around a frame.
LEMMA HeadAtBlock ==
  ASSUME NEW p \in Nat, NEW l \in 0..4
  PROVE  /\ HeadAt(p, l) \in Nat
         /\ Aligned(HeadAt(p, l), l)
         /\ Within(p, HeadAt(p, l), l)
BY BlockPagesTable DEF HeadAt, Aligned, Within

\* An aligned frame is the head of its own block.
LEMMA HeadAtAligned ==
  ASSUME NEW p \in Nat, NEW l \in 0..4, Aligned(p, l)
  PROVE  HeadAt(p, l) = p
BY BlockPagesTable DEF HeadAt, Aligned

\* Alignment to a level is alignment to every lower level.
LEMMA AlignedBelow ==
  ASSUME NEW a \in Nat, NEW i \in 0..4, NEW j \in 0..4, i <= j, Aligned(a, j)
  PROVE  Aligned(a, i)
BY BlockPagesTable DEF Aligned

\* Two aligned blocks are apart, or the smaller one lies in the larger one.
LEMMA NestedOrApart ==
  ASSUME NEW a \in Nat, NEW b \in Nat, NEW i \in 0..4, NEW j \in 0..4, i <= j,
         Aligned(a, i), Aligned(b, j)
  PROVE  Apart(a, i, b, j) \/ Nested(a, i, b, j)
BY BlockPagesTable DEF Apart, Nested, Aligned

\* The buddy of a block is a block of the same level, apart from it.
LEMMA BuddyBlock ==
  ASSUME NEW a \in Nat, NEW l \in 0..4, Aligned(a, l)
  PROVE  LET b == get_buddy_pgn(a, l)
         IN  /\ b \in Nat /\ Aligned(b, l) /\ b # a
             /\ Apart(a, l, b, l)
             /\ get_buddy_pgn(b, l) = a
BY BlockPagesTable DEF get_buddy_pgn, Apart, Aligned

\* Only one aligned block of a level is around a frame.
LEMMA HeadAtUnique ==
  ASSUME NEW a \in Nat, NEW p \in Nat, NEW l \in 0..4, Aligned(a, l), Within(p, a, l)
  PROVE  HeadAt(p, l) = a
BY BlockPagesTable DEF HeadAt, Aligned, Within

LEMMA BlockPagesDouble ==
  ASSUME NEW l \in 0..3
  PROVE  BlockPages(l + 1) = 2 * BlockPages(l)
BY BlockPagesTable

\* The head one level up, found from the head.
LEMMA HeadAtUp ==
  ASSUME NEW p \in Nat, NEW l \in 0..3
  PROVE  HeadAt(HeadAt(p, l), l + 1) = HeadAt(p, l + 1)
<1>0. PICK m \in 0..4 : m = l + 1 /\ l <= m /\ l \in 0..4
  OBVIOUS
<1> DEFINE a == HeadAt(p, m)
           c == HeadAt(p, l)
<1>1. a \in Nat /\ Aligned(a, m) /\ Within(p, a, m)
  BY <1>0, HeadAtBlock
<1>2. c \in Nat /\ Aligned(c, l) /\ Within(p, c, l)
  BY <1>0, HeadAtBlock
<1> HIDE DEF a, c
<1>3. Apart(c, l, a, m) \/ Nested(c, l, a, m)
  BY <1>0, <1>1, <1>2, NestedOrApart
<1>4. BlockPages(l) \in Nat /\ BlockPages(l) > 0 /\ BlockPages(m) = 2 * BlockPages(l)
  BY <1>0, BlockPagesTable
<1>5. Within(c, a, m)
  BY <1>1, <1>2, <1>3, <1>4 DEF Within, Apart, Nested
<1>6. HeadAt(c, m) = a
  BY <1>0, <1>1, <1>2, <1>5, HeadAtUnique
<1> QED
  BY <1>0, <1>6 DEF a, c

\* A block and its buddy are the halves of the block one level up.
LEMMA PairBlock ==
  ASSUME NEW p \in Nat, NEW l \in 0..3
  PROVE  LET a == HeadAt(p, l)
             b == get_buddy_pgn(a, l)
             h == HeadAt(p, l + 1)
         IN  \/ h = a /\ b = a + BlockPages(l)
             \/ h = b /\ a = b + BlockPages(l)
<1> DEFINE a == HeadAt(p, l)
<1>1. a \in Nat /\ Aligned(a, l)
  BY HeadAtBlock
<1>2. HeadAt(p, l + 1) = HeadAt(a, l + 1)
  BY HeadAtUp
<1> HIDE DEF a
<1>3. \/ HeadAt(a, l + 1) = a /\ get_buddy_pgn(a, l) = a + BlockPages(l)
      \/ /\ HeadAt(a, l + 1) = get_buddy_pgn(a, l)
         /\ a = get_buddy_pgn(a, l) + BlockPages(l)
  <2>0. CASE l = 0
    BY <2>0, <1>1, BlockPagesTable DEF get_buddy_pgn, HeadAt, Aligned
  <2>1. CASE l = 1
    BY <2>1, <1>1, BlockPagesTable DEF get_buddy_pgn, HeadAt, Aligned
  <2>2. CASE l = 2
    BY <2>2, <1>1, BlockPagesTable DEF get_buddy_pgn, HeadAt, Aligned
  <2>3. CASE l = 3
    BY <2>3, <1>1, BlockPagesTable DEF get_buddy_pgn, HeadAt, Aligned
  <2> QED
    BY <2>0, <2>1, <2>2, <2>3
<1> QED
  BY <1>2, <1>3 DEF a

\* The buddy of a block that is aligned to a higher level is its upper half.
LEMMA UpperHalf ==
  ASSUME NEW a \in Nat, NEW j \in 0..4, NEW k \in 0..4, j < k, Aligned(a, k)
  PROVE  /\ get_buddy_pgn(a, j) = a + BlockPages(j)
         /\ Aligned(a + BlockPages(j), j)
BY BlockPagesTable DEF get_buddy_pgn, Aligned

-----------------------------------------------------------------------------
(* The zone.                                                               *)

LEMMA ZoneType ==
  /\ start_pfn \in Nat /\ page_num \in Nat /\ start_pfn + page_num <= PageNum
  /\ Aligned(start_pfn, MAX_BUDDY_ORDER) /\ Aligned(page_num, MAX_BUDDY_ORDER)
<1>1. MAX_BUDDY_ORDER \in 0..4
  BY MaxOrderAssumption
<1>2. MaxBlock \in Nat /\ MaxBlock > 0
  BY <1>1, BlockPagesType DEF MaxBlock
<1>3. KernelPages + MaxBlock - 1 \in Nat /\ PageNum \in Nat /\ start_pfn <= PageNum
  BY <1>2, ZoneAssumption
<1>4. start_pfn \in Nat /\ Aligned(start_pfn, MAX_BUDDY_ORDER)
  BY <1>1, <1>3, HeadAtBlock DEF start_pfn
<1>5. PageNum - start_pfn \in Nat
  BY <1>3, <1>4
<1>6. /\ page_num \in Nat /\ Aligned(page_num, MAX_BUDDY_ORDER)
      /\ page_num <= PageNum - start_pfn
  BY <1>1, <1>5, HeadAtBlock DEF page_num, Within
<1> QED
  BY <1>3, <1>4, <1>6

LEMMA ZoneFrames ==
  /\ \A p \in Zone : p \in Nat /\ p \in AllPages /\ start_pfn <= p /\ p < start_pfn + page_num
  /\ \A p \in Nat : start_pfn <= p /\ p < start_pfn + page_num => p \in Zone
  /\ nullptr \notin Zone
BY ZoneType, ZoneAssumption DEF Zone, AllPages, nullptr

\* The aligned block around a frame of the zone lies in the zone.
LEMMA ZoneBlock ==
  ASSUME NEW p \in Zone, NEW l \in Levels
  PROVE  /\ HeadAt(p, l) \in Zone
         /\ HeadAt(p, l) + BlockPages(l) <= start_pfn + page_num
<1> DEFINE a == HeadAt(p, l)
           e == start_pfn + page_num
<1>1. /\ l \in 0..4 /\ MAX_BUDDY_ORDER \in 0..4 /\ l <= MAX_BUDDY_ORDER
  BY MaxOrderAssumption DEF Levels
<1>2. p \in Nat /\ start_pfn <= p /\ p < e
  BY ZoneFrames
<1>3. a \in Nat /\ Aligned(a, l) /\ Within(p, a, l)
  BY <1>1, <1>2, HeadAtBlock
<1>4. start_pfn \in Nat /\ Aligned(start_pfn, l) /\ page_num \in Nat /\ Aligned(page_num, l)
  BY <1>1, ZoneType, AlignedBelow
<1> HIDE DEF a
<1>5. start_pfn <= a /\ a + BlockPages(l) <= e
  BY <1>1, <1>2, <1>3, <1>4, BlockPagesTable DEF Aligned, Within
<1>6. BlockPages(l) \in Nat /\ BlockPages(l) > 0
  BY <1>1, BlockPagesType
<1>7. a \in Zone
  BY <1>3, <1>4, <1>5, <1>6, ZoneFrames
<1> QED
  BY <1>5, <1>7 DEF a

-----------------------------------------------------------------------------
(* The inductive invariant.                                                *)

IsFree(a, l) == a \in freelist[l]
IsHeld(a, l) == [pgn |-> a, level |-> l] \in held
IsBlock(a, l) == IsFree(a, l) \/ IsHeld(a, l)
EndPfn == start_pfn + booted

BlocksSound ==
  \A l \in Levels, a \in Zone :
    IsBlock(a, l) => Aligned(a, l) /\ a + BlockPages(l) <= EndPfn

BlocksApart ==
  \A l, m \in Levels, a, b \in Zone :
    IsBlock(a, l) /\ IsBlock(b, m) => (a = b /\ l = m) \/ Apart(a, l, b, m)

BlocksCover ==
  \A p \in Zone : p < EndPfn =>
    \E l \in Levels, a \in Zone : IsBlock(a, l) /\ Within(p, a, l)

MarksTrue ==
  \A l \in Levels, a \in Zone :
    /\ IsFree(a, l) => bplevel[a] = l /\ used_info[a] = BUDDY_FREE
    /\ IsHeld(a, l) => bplevel[a] = l /\ used_info[a] \in {BUDDY_SLAB, BUDDY_ALLOCED}

PairsMerged ==
  \A l \in Levels, a \in Zone :
    IsFree(a, l) /\ l < MAX_BUDDY_ORDER => ~IsFree(get_buddy_pgn(a, l), l)

Untouched ==
  \A p \in AllPages : p < start_pfn \/ EndPfn <= p =>
    bplevel[p] = 0 /\ used_info[p] = BUDDY_RESERVED

BuddyInv ==
  /\ TypeOK
  /\ BlocksSound
  /\ BlocksApart
  /\ BlocksCover
  /\ MarksTrue
  /\ PairsMerged
  /\ Untouched

-----------------------------------------------------------------------------
(* Merging.                                                                *)

BuddyOf(p, l) == get_buddy_pgn(HeadAt(p, l), l)

\* The state of the climb of __free_pages from the block of level L at p when
\* it has reached level m: the buddies it passed were free blocks, and every
\* block that is not one of them, nor the one being freed, is apart from the
\* block it has put together.
Climbed(p, L, m, e) ==
  /\ \A j \in L..(m - 1) : IsFree(BuddyOf(p, j), j)
  /\ \A l \in Levels, a \in Zone :
       IsBlock(a, l) =>
         \/ a = p /\ l = L
         \/ L <= l /\ l < m /\ a = BuddyOf(p, l)
         \/ Apart(a, l, HeadAt(p, m), m)
  /\ HeadAt(p, m) + BlockPages(m) <= e

\* One turn of the merge loop: the test of the buddy's metadata is right.
LEMMA ClimbStep ==
  ASSUME BuddyInv, NEW p \in Zone, NEW L \in Levels, NEW l \in Levels,
         NEW e \in Nat, EndPfn <= e,
         L <= l, l < MAX_BUDDY_ORDER,
         Mergeable(p, l), Climbed(p, L, l, e)
  PROVE  Climbed(p, L, l + 1, e)
<1> DEFINE a == HeadAt(p, l)
           b == BuddyOf(p, l)
           h == HeadAt(p, l + 1)
<1>1. /\ l \in 0..3 /\ l \in 0..4 /\ L \in 0..4 /\ l + 1 \in Levels /\ l + 1 \in 0..4
  BY MaxOrderAssumption DEF Levels
<1>2. p \in Nat /\ p \in AllPages
  BY ZoneFrames
<1>3. a \in Nat /\ Aligned(a, l) /\ a \in Zone
  BY <1>1, <1>2, HeadAtBlock, ZoneBlock
<1>4. b \in Nat /\ Aligned(b, l) /\ b # a /\ Apart(a, l, b, l)
  BY <1>1, <1>3, BuddyBlock DEF BuddyOf
<1>5. /\ h \in Nat /\ Aligned(h, l + 1) /\ h \in Zone
      /\ h + BlockPages(l + 1) <= start_pfn + page_num
  BY <1>1, <1>2, HeadAtBlock, ZoneBlock
<1>6. (h = a /\ b = a + BlockPages(l)) \/ (h = b /\ a = b + BlockPages(l))
  BY <1>1, <1>2, PairBlock DEF BuddyOf
<1>7. /\ BlockPages(l + 1) = 2 * BlockPages(l)
      /\ BlockPages(l) \in Nat /\ BlockPages(l) > 0
  BY <1>1, BlockPagesDouble, BlockPagesType
<1>8. bplevel[b] = l /\ used_info[b] = BUDDY_FREE
  BY DEF Mergeable, BuddyOf
<1> HIDE DEF a, b, h
<1>9. b \in Zone
  BY <1>3, <1>4, <1>5, <1>6, <1>7, ZoneFrames, ZoneType
<1>10. b < EndPfn
  <2>1. b \in AllPages
    BY <1>9, ZoneFrames
  <2>2. ~(b < start_pfn \/ EndPfn <= b)
    BY <2>1, <1>8 DEF BuddyInv, Untouched, BUDDY_FREE, BUDDY_RESERVED
  <2>3. EndPfn \in Nat
    BY ZoneType DEF BuddyInv, TypeOK, EndPfn
  <2> QED
    BY <2>2, <2>3, <1>4
<1>11. PICK k \in Levels, c \in Zone : IsBlock(c, k) /\ Within(b, c, k)
  BY <1>9, <1>10 DEF BuddyInv, BlocksCover
<1>12. k \in 0..4 /\ c \in Nat /\ Aligned(c, k) /\ c + BlockPages(k) <= EndPfn
  BY <1>11, ZoneFrames, LevelsBound DEF BuddyInv, BlocksSound
<1>13. BlockPages(k) \in Nat /\ BlockPages(k) > 0
  BY <1>12, BlockPagesType
<1>14. k <= l
  <2> SUFFICES ASSUME l < k PROVE FALSE
    BY <1>1, <1>12
  <2>1. Within(b, h, l + 1)
    BY <1>4, <1>5, <1>6, <1>7 DEF Within
  <2>2. l + 1 <= k
    BY <1>1, <1>12
  <2>3. Apart(h, l + 1, c, k) \/ Nested(h, l + 1, c, k)
    BY <2>2, <1>1, <1>5, <1>12, NestedOrApart
  <2>4. Nested(h, l + 1, c, k)
    BY <2>1, <2>3, <1>4, <1>5, <1>7, <1>11, <1>12, <1>13 DEF Within, Apart
  <2>5. ~Apart(c, k, a, l)
    BY <2>4, <1>3, <1>4, <1>5, <1>6, <1>7, <1>12, <1>13 DEF Nested, Apart
  <2>6. (c = p /\ k = L) \/ (k < l) \/ Apart(c, k, a, l)
    BY <1>11 DEF Climbed, a
  <2> QED
    BY <2>5, <2>6, <1>1, <1>12
<1>15. c = b
  <2>1. Aligned(b, k)
    BY <1>1, <1>4, <1>12, <1>14, AlignedBelow
  <2>2. HeadAt(b, k) = b
    BY <2>1, <1>4, <1>12, HeadAtAligned
  <2>3. HeadAt(b, k) = c
    BY <1>4, <1>11, <1>12, HeadAtUnique
  <2> QED
    BY <2>2, <2>3
<1>16. k = l /\ IsFree(b, l)
  <2>1. IsFree(b, k) \/ IsHeld(b, k)
    BY <1>11, <1>15 DEF IsBlock
  <2>2. ~IsHeld(b, k)
    BY <1>8, <1>9 DEF BuddyInv, MarksTrue, BUDDY_FREE, BUDDY_SLAB, BUDDY_ALLOCED
  <2>3. bplevel[b] = k
    BY <2>1, <2>2, <1>9 DEF BuddyInv, MarksTrue
  <2> QED
    BY <2>1, <2>2, <2>3, <1>8
<1>17. \A j \in L..l : IsFree(BuddyOf(p, j), j)
  <2> SUFFICES ASSUME NEW j \in L..l PROVE IsFree(BuddyOf(p, j), j)
    OBVIOUS
  <2>1. CASE j = l
    BY <2>1, <1>16 DEF b
  <2>2. CASE j # l
    <3>1. j \in L..(l - 1)
      BY <2>2, <1>1
    <3> QED
      BY <3>1 DEF Climbed
  <2> QED
    BY <2>1, <2>2
<1>18. ASSUME NEW m \in Levels, NEW d \in Zone, IsBlock(d, m)
       PROVE  \/ d = p /\ m = L
              \/ L <= m /\ m < l + 1 /\ d = BuddyOf(p, m)
              \/ Apart(d, m, h, l + 1)
  <2>1. /\ m \in 0..4 /\ d \in Nat
        /\ BlockPages(m) \in Nat /\ BlockPages(m) > 0
    BY LevelsBound, ZoneFrames, BlockPagesType
  <2>2. \/ d = p /\ m = L
        \/ L <= m /\ m < l /\ d = BuddyOf(p, m)
        \/ Apart(d, m, a, l)
    BY <1>18 DEF Climbed, a
  <2>3. (d = b /\ m = l) \/ Apart(d, m, b, l)
    BY <1>9, <1>16, <1>18 DEF BuddyInv, BlocksApart, IsBlock
  <2>4. CASE Apart(d, m, a, l) /\ Apart(d, m, b, l)
    <3>1. Apart(d, m, h, l + 1)
      BY <2>1, <2>4, <1>3, <1>4, <1>5, <1>6, <1>7 DEF Apart
    <3> QED
      BY <3>1
  <2>5. CASE d = b /\ m = l
    BY <2>5, <1>1 DEF b
  <2>6. CASE ~Apart(d, m, a, l)
    BY <2>2, <2>6, <2>1, <1>1
  <2> QED
    BY <2>3, <2>4, <2>5, <2>6
<1>19. h + BlockPages(l + 1) <= e
  <2>1. a + BlockPages(l) <= e
    BY DEF Climbed, a
  <2>2. b + BlockPages(l) <= e
    <3>1. EndPfn \in Nat
      BY ZoneType DEF BuddyInv, TypeOK, EndPfn
    <3> QED
      BY <3>1, <1>4, <1>7, <1>12, <1>15, <1>16
  <2> QED
    BY <2>1, <2>2, <1>3, <1>4, <1>6, <1>7
<1>20. (l + 1) - 1 = l
  BY <1>1
<1> QED
  BY <1>17, <1>18, <1>19, <1>20 DEF Climbed, h

\* The whole climb, level by level.
LEMMA ClimbTo ==
  ASSUME BuddyInv, NEW p \in Zone, NEW L \in Levels, NEW m \in Levels, L <= m,
         NEW e \in Nat, EndPfn <= e,
         Climbed(p, L, L, e),
         \A l \in L..(m - 1) : Mergeable(p, l)
  PROVE  Climbed(p, L, m, e)
<1> DEFINE Reached(l) == L <= l /\ l <= m => Climbed(p, L, l, e)
<1>1. L \in 0..4 /\ m \in 0..4 /\ m <= MAX_BUDDY_ORDER /\ MAX_BUDDY_ORDER \in 0..4
  BY MaxOrderAssumption DEF Levels
<1>2. Reached(0)
  BY <1>1
<1>3. ASSUME NEW l \in 0..3, Reached(l) PROVE Reached(l + 1)
  <2> SUFFICES ASSUME L <= l + 1, l + 1 <= m PROVE Climbed(p, L, l + 1, e)
    OBVIOUS
  <2>1. CASE L = l + 1
    BY <2>1
  <2>2. CASE L # l + 1
    <3>1. L <= l /\ l <= m /\ l \in L..(m - 1) /\ l < MAX_BUDDY_ORDER /\ l \in Levels
      BY <2>2, <1>1 DEF Levels
    <3>2. Climbed(p, L, l, e) /\ Mergeable(p, l)
      BY <3>1, <1>3
    <3> HIDE DEF Reached
    <3> QED
      BY <3>1, <3>2, ClimbStep
  <2> QED
    BY <2>1, <2>2
<1> HIDE DEF Reached
<1>4. Reached(1)
  BY <1>2, <1>3
<1>5. Reached(2)
  BY <1>4, <1>3
<1>6. Reached(3)
  BY <1>5, <1>3
<1>7. Reached(4)
  BY <1>6, <1>3
<1>8. Reached(m)
  BY <1>1, <1>2, <1>4, <1>5, <1>6, <1>7
<1> QED
  BY <1>1, <1>8 DEF Reached

\* The loop stops at a level, and MergeLevel is that level.
LEMMA MergeLevelStops ==
  ASSUME NEW p, bplevel[p] \in Levels
  PROVE  LET L == bplevel[p]
             m == MergeLevel(p)
         IN  /\ m \in Levels /\ L <= m
             /\ m = MAX_BUDDY_ORDER \/ ~Mergeable(p, m)
             /\ \A l \in L..(m - 1) : Mergeable(p, l)
<1> DEFINE L == bplevel[p]
           Stops(m) == /\ m = MAX_BUDDY_ORDER \/ ~Mergeable(p, m)
                       /\ \A l \in L..(m - 1) : Mergeable(p, l)
           Open(i) == \/ \E m \in L..MAX_BUDDY_ORDER : Stops(m)
                      \/ \A l \in L..(i - 1) : Mergeable(p, l)
<1>1. L \in 0..4 /\ MAX_BUDDY_ORDER \in 0..4 /\ L <= MAX_BUDDY_ORDER
  BY MaxOrderAssumption DEF Levels
<1>2. Open(0)
  BY <1>1
<1>3. ASSUME NEW i \in 0..3, Open(i), i < MAX_BUDDY_ORDER PROVE Open(i + 1)
  <2>1. CASE \E m \in L..MAX_BUDDY_ORDER : Stops(m)
    BY <2>1
  <2>2. CASE (\A l \in L..(i - 1) : Mergeable(p, l)) /\ i < L
    BY <2>2, <1>1
  <2>3. CASE (\A l \in L..(i - 1) : Mergeable(p, l)) /\ L <= i /\ ~Mergeable(p, i)
    BY <2>3, <1>1, <1>3
  <2>4. CASE (\A l \in L..(i - 1) : Mergeable(p, l)) /\ L <= i /\ Mergeable(p, i)
    <3>1. \A l \in L..((i + 1) - 1) : l \in L..(i - 1) \/ l = i
      BY <1>1
    <3> QED
      BY <2>4, <3>1
  <2> QED
    BY <2>1, <2>2, <2>3, <2>4, <1>1, <1>3
<1>4. Open(MAX_BUDDY_ORDER)
  <2> HIDE DEF Open
  <2>1. MAX_BUDDY_ORDER > 0 => Open(1)
    BY <1>1, <1>2, <1>3
  <2>2. MAX_BUDDY_ORDER > 1 => Open(2)
    BY <1>1, <2>1, <1>3
  <2>3. MAX_BUDDY_ORDER > 2 => Open(3)
    BY <1>1, <2>2, <1>3
  <2>4. MAX_BUDDY_ORDER > 3 => Open(4)
    BY <1>1, <2>3, <1>3
  <2> QED
    BY <1>1, <1>2, <2>1, <2>2, <2>3, <2>4
<1>5. \E m \in L..MAX_BUDDY_ORDER : Stops(m)
  BY <1>1, <1>4
<1>6. MergeLevel(p) \in L..MAX_BUDDY_ORDER /\ Stops(MergeLevel(p))
  BY <1>5 DEF MergeLevel
<1> QED
  BY <1>1, <1>6 DEF Levels

\* What the climb passes lies in the block it arrives at.
LEMMA PassedBlocks ==
  ASSUME NEW p \in Nat, NEW l \in 0..4, NEW m \in 0..4
  PROVE  /\ l <= m /\ Aligned(p, l) => Nested(p, l, HeadAt(p, m), m)
         /\ l < m => Nested(BuddyOf(p, l), l, HeadAt(p, m), m)
<1>1. HeadAt(p, m) \in Nat /\ Aligned(HeadAt(p, m), m) /\ Within(p, HeadAt(p, m), m)
  BY HeadAtBlock
<1>2. BlockPages(m) \in Nat /\ BlockPages(l) \in Nat /\ BlockPages(l) > 0
  BY BlockPagesType
<1>3. ASSUME l <= m, Aligned(p, l) PROVE Nested(p, l, HeadAt(p, m), m)
  <2>1. Apart(p, l, HeadAt(p, m), m) \/ Nested(p, l, HeadAt(p, m), m)
    BY <1>1, <1>3, NestedOrApart
  <2> QED
    BY <2>1, <1>1, <1>2 DEF Apart, Within
<1>4. ASSUME l < m PROVE Nested(BuddyOf(p, l), l, HeadAt(p, m), m)
  <2>1. PICK n \in 0..4 : n = l + 1 /\ n <= m /\ l \in 0..3
    BY <1>4
  <2>2. HeadAt(p, n) \in Nat /\ Aligned(HeadAt(p, n), n) /\ Within(p, HeadAt(p, n), n)
    BY HeadAtBlock
  <2>3. Apart(HeadAt(p, n), n, HeadAt(p, m), m) \/ Nested(HeadAt(p, n), n, HeadAt(p, m), m)
    BY <1>1, <2>1, <2>2, NestedOrApart
  <2>4. BlockPages(n) = 2 * BlockPages(l)
    BY <2>1, BlockPagesDouble
  <2>5. Nested(HeadAt(p, n), n, HeadAt(p, m), m)
    BY <2>2, <2>3, <2>4, <1>1, <1>2 DEF Apart, Within
  <2>6. HeadAt(p, l) \in Nat
    BY HeadAtBlock
  <2>7. \/ HeadAt(p, n) = HeadAt(p, l) /\ BuddyOf(p, l) = HeadAt(p, l) + BlockPages(l)
        \/ HeadAt(p, n) = BuddyOf(p, l) /\ HeadAt(p, l) = BuddyOf(p, l) + BlockPages(l)
    BY <2>1, PairBlock DEF BuddyOf
  <2> QED
    BY <2>2, <2>4, <2>5, <2>6, <2>7, <1>1, <1>2 DEF Nested
<1> QED
  BY <1>3, <1>4

-----------------------------------------------------------------------------
(* __free_pages keeps the invariant, whether a caller gives a block back   *)
(* or init_buddy hands over a frame.                                       *)

\* The frames handed over by init_buddy, up to and without frame e, after a step.
EndsAt(e) == booted' \in 0..page_num /\ EndPfn' = e

LEMMA FreeStep ==
  ASSUME BuddyInv, NEW p \in Zone, used_info[p] # BUDDY_FREE, free_pages_(p),
         Aligned(p, bplevel[p]),
         \A l \in Levels, a \in Zone :
           IsBlock(a, l) => (a = p /\ l = bplevel[p]) \/ Apart(a, l, p, bplevel[p]),
         NEW e \in Nat, EndsAt(e), EndPfn <= e, e <= start_pfn + page_num,
         p + BlockPages(bplevel[p]) <= e,
         \A q \in Zone : q < e => q < EndPfn \/ Within(q, p, bplevel[p]),
         held' \subseteq held,
         \A l \in Levels, a \in Zone : IsHeld(a, l)' <=> IsHeld(a, l) /\ a # p
  PROVE  BuddyInv'
<1> SUFFICES ASSUME NEW L, L = bplevel[p],
                    NEW m, m = MergeLevel(p),
                    NEW h, h = HeadAt(p, m)
             PROVE  BuddyInv'
  OBVIOUS
<1>1. /\ TypeOK /\ p \in AllPages /\ p \in Nat /\ L \in Levels /\ L \in 0..4
  BY ZoneFrames, LevelsBound DEF BuddyInv, TypeOK
<1>2. /\ m \in Levels /\ m \in 0..4 /\ L <= m
      /\ m = MAX_BUDDY_ORDER \/ ~Mergeable(p, m)
      /\ \A l \in L..(m - 1) : Mergeable(p, l)
  BY <1>1, MergeLevelStops, LevelsBound
<1>3. e \in Nat /\ EndPfn \in Nat /\ EndPfn <= e /\ e <= start_pfn + page_num
  BY <1>1, ZoneType DEF TypeOK, EndPfn
<1>4. /\ h \in Nat /\ h \in Zone /\ h \in AllPages /\ Aligned(h, m)
  BY <1>1, <1>2, HeadAtBlock, ZoneBlock, ZoneFrames
<1>5. /\ bplevel' = [bplevel EXCEPT ![h] = m]
      /\ used_info' = [used_info EXCEPT ![h] = BUDDY_FREE]
      /\ \A l \in Levels, a \in Zone :
           IsFree(a, l)' <=> \/ IsFree(a, l) /\ ~(L <= l /\ l < m /\ a = BuddyOf(p, l))
                             \/ l = m /\ a = h
      /\ freelist' \in [Levels -> SUBSET Zone]
  <2>1. /\ bplevel' = [bplevel EXCEPT ![h] = m]
        /\ used_info' = [used_info EXCEPT ![h] = BUDDY_FREE]
        /\ freelist' = [l \in Levels |->
                          (freelist[l] \ (IF L <= l /\ l < m THEN {BuddyOf(p, l)} ELSE {}))
                            \cup (IF l = m THEN {h} ELSE {})]
    BY DEF free_pages_, pgn_is_in_zone, BuddyOf
  <2>2. freelist' \in [Levels -> SUBSET Zone]
    BY <2>1, <1>1, <1>4 DEF TypeOK
  <2>3. ASSUME NEW l \in Levels, NEW a \in Zone
        PROVE  IsFree(a, l)' <=> \/ IsFree(a, l) /\ ~(L <= l /\ l < m /\ a = BuddyOf(p, l))
                                 \/ l = m /\ a = h
    BY <2>1 DEF IsFree
  <2> QED
    BY <2>1, <2>2, <2>3
<1>6. Climbed(p, L, m, e)
  <2>1. HeadAt(p, L) = p
    BY <1>1, HeadAtAligned
  <2>2. Climbed(p, L, L, e)
    BY <2>1, <1>1 DEF Climbed
  <2> QED
    BY <2>2, <1>1, <1>2, <1>3, ClimbTo
<1>7. ~IsFree(p, L)
  BY <1>1 DEF BuddyInv, MarksTrue
<1>8. BlockPages(m) \in Nat /\ BlockPages(m) > 0 /\ h + BlockPages(m) <= e
  BY <1>2, <1>6, BlockPagesType DEF Climbed
\* A block that is left is apart from the new one.
<1>9. ASSUME NEW l \in Levels, NEW a \in Zone, IsBlock(a, l)', ~(a = h /\ l = m)
      PROVE  /\ IsBlock(a, l) /\ Apart(a, l, h, m) /\ a # h
             /\ IsFree(a, l)' <=> IsFree(a, l)
             /\ IsHeld(a, l)' <=> IsHeld(a, l)
             /\ a \in Nat /\ l \in 0..4 /\ BlockPages(l) \in Nat /\ BlockPages(l) > 0
  <2>1. a \in Nat /\ l \in 0..4 /\ BlockPages(l) \in Nat /\ BlockPages(l) > 0
    BY ZoneFrames, LevelsBound, BlockPagesType
  <2>2. ~(a = p /\ l = L)
    BY <1>5, <1>7, <1>9 DEF IsBlock
  <2>3. IsBlock(a, l)
    BY <1>5, <1>9 DEF IsBlock
  <2>4. ~(L <= l /\ l < m /\ a = BuddyOf(p, l))
    <3> SUFFICES ASSUME L <= l, l < m, a = BuddyOf(p, l) PROVE FALSE
      OBVIOUS
    <3>1. l \in L..(m - 1)
      BY <2>1, <1>1, <1>2
    <3>2. IsFree(a, l)
      BY <3>1, <1>6 DEF Climbed
    <3>3. ~IsHeld(a, l)
      BY <3>2 DEF BuddyInv, MarksTrue, BUDDY_FREE, BUDDY_SLAB, BUDDY_ALLOCED
    <3> QED
      BY <3>3, <1>5, <1>9 DEF IsBlock
  <2>5. Apart(a, l, h, m)
    BY <2>2, <2>3, <2>4, <1>6 DEF Climbed
  <2>6. a # h
    BY <2>1, <2>5, <1>4, <1>8 DEF Apart
  <2>7. (IsFree(a, l)' <=> IsFree(a, l)) /\ (IsHeld(a, l)' <=> IsHeld(a, l))
    <3>1. IsFree(a, l)' <=> IsFree(a, l)
      BY <2>4, <1>5, <1>9
    <3>2. IsHeld(a, l) => a # p
      <4> SUFFICES ASSUME IsHeld(a, l), a = p PROVE FALSE
        OBVIOUS
      <4>1. l = L
        BY DEF BuddyInv, MarksTrue
      <4> QED
        BY <4>1, <2>2
    <3> QED
      BY <3>1, <3>2
  <2> QED
    BY <2>1, <2>3, <2>5, <2>6, <2>7
<1>10. IsFree(h, m)' /\ ~IsHeld(h, m)'
  <2>1. IsFree(h, m)'
    BY <1>2, <1>4, <1>5
  <2>2. ~IsHeld(h, m)'
    <3> SUFFICES ASSUME IsHeld(h, m), h # p PROVE FALSE
      BY <1>2, <1>4
    <3>1. Apart(h, m, h, m)
      BY <1>1, <1>2, <1>4, <1>6 DEF Climbed, IsBlock
    <3> QED
      BY <3>1, <1>4, <1>8 DEF Apart
  <2> QED
    BY <2>1, <2>2
<1>11. TypeOK'
  BY <1>1, <1>2, <1>4, <1>5 DEF TypeOK, UsedInfo, EndsAt
<1>12. BlocksSound'
  <2> SUFFICES ASSUME NEW l \in Levels, NEW a \in Zone, IsBlock(a, l)'
               PROVE  Aligned(a, l) /\ a + BlockPages(l) <= e
    BY DEF BlocksSound, EndsAt
  <2>1. CASE a = h /\ l = m
    BY <2>1, <1>4, <1>8
  <2>2. CASE ~(a = h /\ l = m)
    <3>1. Aligned(a, l) /\ a + BlockPages(l) <= EndPfn
      BY <2>2, <1>9 DEF BuddyInv, BlocksSound
    <3> QED
      BY <2>2, <3>1, <1>3, <1>9
  <2> QED
    BY <2>1, <2>2
<1>13. BlocksApart'
  <2> SUFFICES ASSUME NEW l \in Levels, NEW k \in Levels, NEW a \in Zone, NEW b \in Zone,
                      IsBlock(a, l)', IsBlock(b, k)'
               PROVE  (a = b /\ l = k) \/ Apart(a, l, b, k)
    BY DEF BlocksApart
  <2>1. CASE ~(a = h /\ l = m) /\ ~(b = h /\ k = m)
    BY <2>1, <1>9 DEF BuddyInv, BlocksApart
  <2>2. CASE a = h /\ l = m /\ ~(b = h /\ k = m)
    BY <2>2, <1>9 DEF Apart
  <2>3. CASE ~(a = h /\ l = m) /\ b = h /\ k = m
    BY <2>3, <1>9
  <2> QED
    BY <2>1, <2>2, <2>3
<1>14. BlocksCover'
  <2> SUFFICES ASSUME NEW q \in Zone, q < e
               PROVE  \E l \in Levels, a \in Zone : IsBlock(a, l)' /\ Within(q, a, l)
    BY DEF BlocksCover, EndsAt
  <2>1. Within(q, h, m) => \E l \in Levels, a \in Zone : IsBlock(a, l)' /\ Within(q, a, l)
    BY <1>2, <1>4, <1>10 DEF IsBlock
  <2>2. q \in Nat
    BY ZoneFrames
  <2>3. Within(q, p, L) => Within(q, h, m)
    <3>1. Nested(p, L, h, m)
      BY <1>1, <1>2, PassedBlocks
    <3>2. BlockPages(L) \in Nat
      BY <1>1, BlockPagesType
    <3> QED
      BY <3>1, <3>2, <2>2, <1>1, <1>4, <1>8 DEF Nested, Within
  <2>4. CASE q < EndPfn
    <3>1. PICK l \in Levels, a \in Zone : IsBlock(a, l) /\ Within(q, a, l)
      BY <2>4 DEF BuddyInv, BlocksCover
    <3>2. l \in 0..4 /\ a \in Nat /\ BlockPages(l) \in Nat
      BY LevelsBound, ZoneFrames, BlockPagesType
    <3>3. CASE a = p /\ l = L
      BY <3>1, <3>3, <2>1, <2>3
    <3>4. CASE L <= l /\ l < m /\ a = BuddyOf(p, l)
      <4>1. Nested(a, l, h, m)
        BY <3>2, <3>4, <1>1, <1>2, PassedBlocks
      <4>2. Within(q, h, m)
        BY <4>1, <3>1, <3>2, <2>2, <1>4, <1>8 DEF Nested, Within
      <4> QED
        BY <4>2, <2>1
    <3>5. CASE ~(a = p /\ l = L) /\ ~(L <= l /\ l < m /\ a = BuddyOf(p, l))
      <4>1. IsHeld(a, l) => a # p
        <5> SUFFICES ASSUME IsHeld(a, l), a = p PROVE FALSE
          OBVIOUS
        <5>1. l = L
          BY DEF BuddyInv, MarksTrue
        <5> QED
          BY <5>1, <3>5
      <4>2. IsBlock(a, l)'
        BY <4>1, <3>1, <3>5, <1>5 DEF IsBlock
      <4> QED
        BY <4>2, <3>1
    <3> QED
      BY <3>3, <3>4, <3>5
  <2>5. CASE ~(q < EndPfn)
    <3>1. Within(q, p, L)
      BY <2>5
    <3> QED
      BY <3>1, <2>1, <2>3
  <2> QED
    BY <2>4, <2>5
<1>15. MarksTrue'
  <2> SUFFICES ASSUME NEW l \in Levels, NEW a \in Zone
               PROVE  /\ IsFree(a, l)' => bplevel'[a] = l /\ used_info'[a] = BUDDY_FREE
                      /\ IsHeld(a, l)' => /\ bplevel'[a] = l
                                          /\ used_info'[a] \in {BUDDY_SLAB, BUDDY_ALLOCED}
    BY DEF MarksTrue
  <2>1. a \in AllPages /\ bplevel \in [AllPages -> Levels] /\ used_info \in [AllPages -> UsedInfo]
    BY ZoneFrames, <1>1 DEF TypeOK
  <2>2. CASE a = h /\ l = m
    BY <2>1, <2>2, <1>5, <1>10
  <2>3. CASE ~(a = h /\ l = m) /\ IsBlock(a, l)'
    <3>1. bplevel'[a] = bplevel[a] /\ used_info'[a] = used_info[a]
      BY <2>1, <2>3, <1>5, <1>9
    <3> QED
      BY <3>1, <2>3, <1>9 DEF BuddyInv, MarksTrue
  <2>4. CASE ~IsBlock(a, l)'
    BY <2>4 DEF IsBlock
  <2> QED
    BY <2>2, <2>3, <2>4
<1>16. PairsMerged'
  <2>1. ASSUME NEW x \in Zone, m < MAX_BUDDY_ORDER, x = get_buddy_pgn(h, m), IsFree(x, m)
        PROVE  FALSE
    <3>1. bplevel[x] = m /\ used_info[x] = BUDDY_FREE
      BY <2>1, <1>2 DEF BuddyInv, MarksTrue
    <3>2. Mergeable(p, m)
      BY <3>1, <2>1 DEF Mergeable
    <3> QED
      BY <3>2, <2>1, <1>2 DEF Levels
  <2> SUFFICES ASSUME NEW l \in Levels, NEW a \in Zone, IsFree(a, l)', l < MAX_BUDDY_ORDER,
                      IsFree(get_buddy_pgn(a, l), l)'
               PROVE  FALSE
    BY DEF PairsMerged
  <2> DEFINE x == get_buddy_pgn(a, l)
  <2>2. x \in Zone
    BY <1>5 DEF IsFree
  <2>3. l \in 0..4 /\ a \in Nat /\ Aligned(a, l)
    BY <1>12, LevelsBound, ZoneFrames DEF BlocksSound, IsBlock
  <2>4. x # a /\ get_buddy_pgn(x, l) = a
    BY <2>3, BuddyBlock
  <2> HIDE DEF x
  <2>5. IsFree(x, l)'
    BY DEF x
  <2>6. CASE a = h /\ l = m
    <3>1. IsFree(x, m)
      BY <2>2, <2>4, <2>5, <2>6, <1>9 DEF IsBlock
    <3> QED
      BY <3>1, <2>1, <2>2, <2>6 DEF x
  <2>7. CASE x = h /\ l = m
    <3>1. IsFree(a, m)
      BY <2>4, <2>7, <1>9 DEF IsBlock
    <3> QED
      BY <3>1, <2>1, <2>4, <2>7
  <2>8. CASE ~(a = h /\ l = m) /\ ~(x = h /\ l = m)
    <3>1. IsFree(a, l) /\ IsFree(x, l)
      BY <2>2, <2>5, <2>8, <1>9 DEF IsBlock
    <3> QED
      BY <3>1 DEF BuddyInv, PairsMerged, x
  <2> QED
    BY <2>6, <2>7, <2>8
<1>17. Untouched'
  <2> SUFFICES ASSUME NEW q \in AllPages, q < start_pfn \/ e <= q
               PROVE  bplevel'[q] = 0 /\ used_info'[q] = BUDDY_RESERVED
    BY DEF Untouched, EndsAt
  <2>1. q \in Nat /\ start_pfn <= h /\ start_pfn \in Nat
    BY ZoneAssumption, ZoneFrames, ZoneType, <1>4 DEF AllPages
  <2>2. q # h
    <3>1. h < e
      BY <1>3, <1>4, <1>8
    <3>2. CASE q < start_pfn
      BY <3>2, <2>1, <1>4
    <3>3. CASE e <= q
      BY <3>1, <3>3, <2>1, <1>4
    <3> QED
      BY <3>2, <3>3
  <2>3. q < start_pfn \/ EndPfn <= q
    <3>1. CASE e <= q
      BY <3>1, <2>1, <1>3
    <3> QED
      BY <3>1
  <2>4. bplevel'[q] = bplevel[q] /\ used_info'[q] = used_info[q]
    BY <2>2, <1>1, <1>5 DEF TypeOK
  <2> QED
    BY <2>3, <2>4 DEF BuddyInv, Untouched
<1> QED
  BY <1>11, <1>12, <1>13, <1>14, <1>15, <1>16, <1>17 DEF BuddyInv
-----------------------------------------------------------------------------
(* __alloc_pages keeps the invariant.  A block of level k that is split    *)
(* down to level l becomes the block handed out and one free upper half of *)
(* each level from l to k - 1.                                             *)

\* The block of level i at a is one that splitting block b leaves.
IsPiece(a, i, b, k, l) ==
  \/ a = b /\ i = l
  \/ l <= i /\ i < k /\ a = b + BlockPages(i)

\* The pieces lie in the block that is split.
LEMMA PiecesInside ==
  ASSUME NEW b \in Nat, NEW k \in 0..4, NEW l \in 0..4, l <= k, Aligned(b, k),
         NEW i \in 0..4, NEW a, IsPiece(a, i, b, k, l)
  PROVE  /\ a \in Nat /\ Aligned(a, i) /\ Nested(a, i, b, k)
         /\ BlockPages(i) \in Nat /\ BlockPages(i) > 0
<1>1. BlockPages(i) \in Nat /\ BlockPages(i) > 0 /\ BlockPages(k) \in Nat
  BY BlockPagesType
<1>2. CASE a = b /\ i = l
  <2>1. Aligned(b, l)
    BY AlignedBelow
  <2>2. BlockPages(l) <= BlockPages(k)
    BY BlockPagesTable
  <2> QED
    BY <1>1, <1>2, <2>1, <2>2 DEF Nested
<1>3. CASE l <= i /\ i < k /\ a = b + BlockPages(i)
  <2>1. Aligned(b + BlockPages(i), i)
    BY <1>3, UpperHalf
  <2>2. 2 * BlockPages(i) <= BlockPages(k)
    BY <1>3, BlockPagesMonotone
  <2> QED
    BY <1>1, <1>3, <2>1, <2>2 DEF Nested
<1> QED
  BY <1>2, <1>3 DEF IsPiece

\* The pieces are apart from each other.
LEMMA PiecesApart ==
  ASSUME NEW b \in Nat, NEW k \in 0..4, NEW l \in 0..4, l <= k,
         NEW i \in 0..4, NEW a, IsPiece(a, i, b, k, l),
         NEW j \in 0..4, NEW c, IsPiece(c, j, b, k, l)
  PROVE  (a = c /\ i = j) \/ Apart(a, i, c, j)
<1>1. /\ BlockPages(i) \in Nat /\ BlockPages(i) > 0
      /\ BlockPages(j) \in Nat /\ BlockPages(j) > 0
  BY BlockPagesType
<1>2. i < j => 2 * BlockPages(i) <= BlockPages(j)
  BY BlockPagesMonotone
<1>3. j < i => 2 * BlockPages(j) <= BlockPages(i)
  BY BlockPagesMonotone
<1>4. i < j \/ i = j \/ j < i
  OBVIOUS
<1> QED
  BY <1>1, <1>2, <1>3, <1>4 DEF IsPiece, Apart

\* The pieces make up the whole block.
LEMMA PiecesCover ==
  ASSUME NEW b \in Nat, NEW k \in 0..4, NEW l \in 0..4, l <= k,
         NEW q \in Nat, Within(q, b, k)
  PROVE  \E i \in 0..4 : i <= k /\ \E a \in {b, b + BlockPages(i)} :
            IsPiece(a, i, b, k, l) /\ Within(q, a, i)
<1> DEFINE Goal == \E i \in 0..4 : i <= k /\ \E a \in {b, b + BlockPages(i)} :
                     IsPiece(a, i, b, k, l) /\ Within(q, a, i)
           Below(j) == l <= j /\ j <= k /\ Within(q, b, j) => Goal
<1>1. Below(0)
  BY DEF IsPiece
<1>2. ASSUME NEW j \in 0..3, Below(j) PROVE Below(j + 1)
  <2> SUFFICES ASSUME l <= j + 1, j + 1 <= k, Within(q, b, j + 1) PROVE Goal
    OBVIOUS
  <2>1. BlockPages(j + 1) = 2 * BlockPages(j) /\ BlockPages(j) \in Nat
    BY BlockPagesDouble, BlockPagesType
  <2>2. CASE l = j + 1
    BY <2>2 DEF IsPiece
  <2>3. CASE l # j + 1 /\ Within(q, b, j)
    BY <2>3, <1>2
  <2>4. CASE l # j + 1 /\ ~Within(q, b, j)
    <3>1. Within(q, b + BlockPages(j), j)
      BY <2>1, <2>4 DEF Within
    <3>2. IsPiece(b + BlockPages(j), j, b, k, l)
      BY <2>4 DEF IsPiece
    <3>3. j \in 0..4 /\ j <= k
      OBVIOUS
    <3> QED
      BY <3>1, <3>2, <3>3
  <2> QED
    BY <2>2, <2>3, <2>4
<1> HIDE DEF Below
<1>3. Below(1)
  BY <1>1, <1>2
<1>4. Below(2)
  BY <1>3, <1>2
<1>5. Below(3)
  BY <1>4, <1>2
<1>6. Below(4)
  BY <1>5, <1>2
<1>7. Below(k)
  BY <1>1, <1>3, <1>4, <1>5, <1>6
<1> QED
  BY <1>7 DEF Below
LEMMA AllocStep ==
  ASSUME BuddyInv, NEW k \in Levels, NEW l \in Levels, l <= k,
         NEW b \in Zone, IsFree(b, k),
         NEW type \in {BUDDY_SLAB, BUDDY_ALLOCED}, SplitAndMark(b, k, l, type),
         held' = held \cup {[pgn |-> b, level |-> l]}, booted' = booted
  PROVE  BuddyInv'
<1>1. /\ TypeOK /\ b \in AllPages /\ b \in Nat /\ l \in 0..4 /\ k \in 0..4
      /\ BlockPages(k) \in Nat /\ BlockPages(k) > 0
  BY ZoneFrames, LevelsBound, BlockPagesType DEF BuddyInv
<1>2. /\ Aligned(b, k) /\ b + BlockPages(k) <= EndPfn
      /\ bplevel[b] = k /\ used_info[b] = BUDDY_FREE
  BY DEF BuddyInv, BlocksSound, MarksTrue, IsBlock
<1>3. EndPfn \in Nat /\ EndPfn' = EndPfn
  BY <1>1, ZoneType DEF TypeOK, EndPfn
<1>4. EndPfn <= start_pfn + page_num
  BY <1>1, ZoneType DEF TypeOK, EndPfn
<1>5. ASSUME NEW i \in Levels, NEW a, IsPiece(a, i, b, k, l)
      PROVE  /\ a \in Nat /\ a \in Zone /\ a \in AllPages /\ i \in 0..4
             /\ Aligned(a, i) /\ Nested(a, i, b, k)
             /\ BlockPages(i) \in Nat /\ BlockPages(i) > 0
  <2>1. i \in 0..4
    BY LevelsBound
  <2>2. /\ a \in Nat /\ Aligned(a, i) /\ Nested(a, i, b, k)
        /\ BlockPages(i) \in Nat /\ BlockPages(i) > 0
    BY <2>1, <1>1, <1>2, <1>5, PiecesInside
  <2>3. a \in Zone
    BY <2>2, <1>1, <1>2, <1>3, <1>4, ZoneFrames, ZoneType DEF Nested
  <2> QED
    BY <2>1, <2>2, <2>3, ZoneFrames
<1>6. \A i \in Levels : l <= i /\ i < k => get_buddy_pgn(b, i) = b + BlockPages(i)
  BY <1>1, <1>2, LevelsBound, UpperHalf
\* What the step writes.
<1>7. ASSUME NEW i \in Levels, NEW a \in Zone
      PROVE  /\ IsFree(a, i)' <=> \/ IsFree(a, i) /\ ~(a = b /\ i = k)
                                  \/ l <= i /\ i < k /\ a = b + BlockPages(i)
             /\ IsHeld(a, i)' <=> IsHeld(a, i) \/ (a = b /\ i = l)
  <2>1. freelist' = [j \in Levels |->
                       CASE j = k -> freelist[j] \ {b}
                         [] l <= j /\ j < k -> freelist[j] \cup {get_buddy_pgn(b, j)}
                         [] OTHER -> freelist[j]]
    BY DEF SplitAndMark
  <2>2. IsFree(a, i)' <=> \/ IsFree(a, i) /\ ~(a = b /\ i = k)
                          \/ l <= i /\ i < k /\ a = b + BlockPages(i)
    <3>1. CASE i = k
      BY <3>1, <2>1, <1>1 DEF IsFree
    <3>2. CASE i # k /\ l <= i /\ i < k
      BY <3>2, <2>1, <1>6 DEF IsFree
    <3>3. CASE i # k /\ ~(l <= i /\ i < k)
      BY <3>3, <2>1 DEF IsFree
    <3> QED
      BY <3>1, <3>2, <3>3
  <2>3. IsHeld(a, i)' <=> IsHeld(a, i) \/ (a = b /\ i = l)
    BY DEF IsHeld
  <2> QED
    BY <2>2, <2>3
<1>8. /\ bplevel' \in [AllPages -> Levels] /\ used_info' \in [AllPages -> UsedInfo]
      /\ bplevel'[b] = l /\ used_info'[b] = type
      /\ \A i \in Levels : l <= i /\ i < k =>
            bplevel'[b + BlockPages(i)] = i /\ used_info'[b + BlockPages(i)] = BUDDY_FREE
      /\ \A a \in AllPages : (a < b \/ b + BlockPages(k) <= a) =>
            bplevel'[a] = bplevel[a] /\ used_info'[a] = used_info[a]
  <2> DEFINE Halves == {get_buddy_pgn(b, j) : j \in l .. (k - 1)}
             HalfLevel(p) == CHOOSE j \in l .. (k - 1) : p = get_buddy_pgn(b, j)
  <2>1. /\ bplevel' = [p \in AllPages |->
                       CASE p = b -> l
                         [] p \in Halves -> HalfLevel(p)
                         [] OTHER -> bplevel[p]]
        /\ used_info' = [p \in AllPages |->
                         CASE p = b -> type
                           [] p \in Halves -> BUDDY_FREE
                           [] OTHER -> used_info[p]]
    BY DEF SplitAndMark
  <2>2. \A j \in l .. (k - 1) : j \in Levels /\ l <= j /\ j < k
    BY <1>1, MaxOrderAssumption DEF Levels
  <2>3. \A p \in Halves : HalfLevel(p) \in l .. (k - 1) /\ p = b + BlockPages(HalfLevel(p))
    BY <2>2, <1>6
  <2>4. \A p : p \in Halves <=> \E j \in l .. (k - 1) : p = b + BlockPages(j)
    BY <2>2, <1>6
  <2>5. ASSUME NEW i \in Levels, l <= i, i < k
        PROVE  /\ b + BlockPages(i) \in Halves /\ HalfLevel(b + BlockPages(i)) = i
               /\ b + BlockPages(i) # b /\ b + BlockPages(i) \in AllPages
    <3> DEFINE c == b + BlockPages(i)
    <3>1. i \in l .. (k - 1) /\ i \in 0..4
      BY <2>5, <1>1 DEF Levels
    <3>2. c \in Halves
      BY <3>1, <2>4
    <3>3. IsPiece(c, i, b, k, l)
      BY <2>5 DEF IsPiece
    <3>4. c \in AllPages /\ BlockPages(i) \in Nat /\ BlockPages(i) > 0
      BY <3>3, <1>5
    <3>5. HalfLevel(c) \in l .. (k - 1) /\ c = b + BlockPages(HalfLevel(c))
      BY <3>2, <2>3
    <3> HIDE DEF HalfLevel, Halves
    <3>6. HalfLevel(c) \in 0..4 /\ BlockPages(HalfLevel(c)) \in Nat
      BY <3>5, <1>1, BlockPagesType
    <3>7. BlockPages(HalfLevel(c)) = BlockPages(i)
      BY <3>4, <3>5, <3>6, <1>1
    <3>8. HalfLevel(c) = i
      BY <3>1, <3>6, <3>7, BlockPagesTable
    <3> QED
      BY <3>2, <3>4, <3>8, <1>1
  <2>6. ASSUME NEW a \in AllPages, a < b \/ b + BlockPages(k) <= a
        PROVE  a # b /\ a \notin Halves
    <3>1. a \in Nat /\ a # b
      BY <2>6, <1>1, ZoneAssumption DEF AllPages
    <3>2. ASSUME NEW j \in l .. (k - 1) PROVE a # b + BlockPages(j)
      <4>1. j \in Levels /\ IsPiece(b + BlockPages(j), j, b, k, l)
        BY <2>2 DEF IsPiece
      <4>2. /\ Nested(b + BlockPages(j), j, b, k)
            /\ BlockPages(j) \in Nat /\ BlockPages(j) > 0
        BY <4>1, <1>5
      <4> QED
        BY <4>2, <3>1, <2>6, <1>1 DEF Nested
    <3> QED
      BY <3>1, <3>2, <2>4
  <2>7. \A p \in Halves : HalfLevel(p) \in Levels
    BY <2>2, <2>3
  <2> HIDE DEF Halves, HalfLevel
  <2>8. bplevel' \in [AllPages -> Levels]
    BY <2>1, <2>7, <1>1 DEF TypeOK
  <2>9. used_info' \in [AllPages -> UsedInfo]
    BY <2>1, <1>1 DEF TypeOK, UsedInfo
  <2>10. bplevel'[b] = l /\ used_info'[b] = type
    <3>1. ASSUME NEW j \in l .. (k - 1) PROVE b # b + BlockPages(j)
      BY <2>2, <2>5
    <3>2. b \notin Halves
      BY <3>1, <2>4
    <3> QED
      BY <3>2, <2>1, <1>1
  <2>11. \A i \in Levels : l <= i /\ i < k =>
            bplevel'[b + BlockPages(i)] = i /\ used_info'[b + BlockPages(i)] = BUDDY_FREE
    BY <2>1, <2>5
  <2>12. \A a \in AllPages : (a < b \/ b + BlockPages(k) <= a) =>
            bplevel'[a] = bplevel[a] /\ used_info'[a] = used_info[a]
    BY <2>1, <2>6
  <2> QED
    BY <2>8, <2>9, <2>10, <2>11, <2>12
\* The blocks that stay are apart from the one that is split.
<1>9. ASSUME NEW i \in Levels, NEW a \in Zone, IsBlock(a, i)', ~IsPiece(a, i, b, k, l)
      PROVE  /\ IsBlock(a, i) /\ Apart(a, i, b, k)
             /\ IsFree(a, i)' <=> IsFree(a, i)
             /\ IsHeld(a, i)' <=> IsHeld(a, i)
             /\ a \in Nat /\ a \in AllPages /\ i \in 0..4
             /\ BlockPages(i) \in Nat /\ BlockPages(i) > 0
             /\ a < b \/ b + BlockPages(k) <= a
  <2>1. /\ a \in Nat /\ a \in AllPages /\ i \in 0..4
        /\ BlockPages(i) \in Nat /\ BlockPages(i) > 0
    BY ZoneFrames, LevelsBound, BlockPagesType
  <2>2. IsBlock(a, i) /\ (IsHeld(a, i)' <=> IsHeld(a, i))
    BY <1>7, <1>9 DEF IsBlock, IsPiece
  <2>3. ~(a = b /\ i = k)
    <3> SUFFICES ASSUME a = b, i = k PROVE FALSE
      OBVIOUS
    <3>1. ~IsHeld(b, k)
      BY <1>2 DEF BuddyInv, MarksTrue, BUDDY_FREE, BUDDY_SLAB, BUDDY_ALLOCED
    <3>2. ~IsFree(b, k)'
      BY <1>1, <1>7
    <3> QED
      BY <3>1, <3>2, <2>2, <1>9 DEF IsBlock
  <2>4. Apart(a, i, b, k)
    BY <2>2, <2>3 DEF BuddyInv, BlocksApart, IsBlock
  <2>5. IsFree(a, i)' <=> IsFree(a, i)
    BY <2>3, <1>7, <1>9 DEF IsPiece
  <2>6. a < b \/ b + BlockPages(k) <= a
    BY <2>1, <2>4, <1>1 DEF Apart
  <2> QED
    BY <2>1, <2>2, <2>4, <2>5, <2>6
<1>10. ASSUME NEW i \in Levels, NEW a \in Zone, IsPiece(a, i, b, k, l)
       PROVE  IsBlock(a, i)'
  BY <1>7, <1>10 DEF IsPiece, IsBlock
<1>11. TypeOK'
  <2>1. freelist' \in [Levels -> SUBSET Zone]
    <3>1. \A j \in Levels : l <= j /\ j < k => get_buddy_pgn(b, j) \in Zone
      <4> SUFFICES ASSUME NEW j \in Levels, l <= j, j < k PROVE get_buddy_pgn(b, j) \in Zone
        OBVIOUS
      <4>1. IsPiece(b + BlockPages(j), j, b, k, l)
        BY DEF IsPiece
      <4> QED
        BY <4>1, <1>5, <1>6
    <3> QED
      BY <3>1, <1>1 DEF SplitAndMark, TypeOK
  <2>2. held' \subseteq [pgn : Zone, level : Levels]
    BY <1>1 DEF TypeOK
  <2>3. booted' \in 0..page_num
    BY <1>1 DEF TypeOK
  <2> QED
    BY <2>1, <2>2, <2>3, <1>8 DEF TypeOK
<1>12. BlocksSound'
  <2> SUFFICES ASSUME NEW i \in Levels, NEW a \in Zone, IsBlock(a, i)'
               PROVE  Aligned(a, i) /\ a + BlockPages(i) <= EndPfn
    BY <1>3 DEF BlocksSound
  <2>1. CASE IsPiece(a, i, b, k, l)
    <3>1. /\ a \in Nat /\ Aligned(a, i) /\ Nested(a, i, b, k) /\ BlockPages(i) \in Nat
      BY <2>1, <1>5
    <3> QED
      BY <3>1, <1>1, <1>2, <1>3 DEF Nested
  <2>2. CASE ~IsPiece(a, i, b, k, l)
    BY <2>2, <1>9 DEF BuddyInv, BlocksSound
  <2> QED
    BY <2>1, <2>2
<1>13. BlocksApart'
  <2> SUFFICES ASSUME NEW i \in Levels, NEW j \in Levels, NEW a \in Zone, NEW c \in Zone,
                      IsBlock(a, i)', IsBlock(c, j)'
               PROVE  (a = c /\ i = j) \/ Apart(a, i, c, j)
    BY DEF BlocksApart
  <2>1. CASE IsPiece(a, i, b, k, l) /\ IsPiece(c, j, b, k, l)
    BY <2>1, <1>1, LevelsBound, PiecesApart
  <2>2. CASE IsPiece(a, i, b, k, l) /\ ~IsPiece(c, j, b, k, l)
    <3>1. /\ a \in Nat /\ Nested(a, i, b, k) /\ BlockPages(i) \in Nat
      BY <2>2, <1>5
    <3>2. /\ c \in Nat /\ Apart(c, j, b, k) /\ BlockPages(j) \in Nat
      BY <2>2, <1>9
    <3> QED
      BY <3>1, <3>2, <1>1 DEF Apart, Nested
  <2>3. CASE ~IsPiece(a, i, b, k, l) /\ IsPiece(c, j, b, k, l)
    <3>1. /\ c \in Nat /\ Nested(c, j, b, k) /\ BlockPages(j) \in Nat
      BY <2>3, <1>5
    <3>2. /\ a \in Nat /\ Apart(a, i, b, k) /\ BlockPages(i) \in Nat
      BY <2>3, <1>9
    <3> QED
      BY <3>1, <3>2, <1>1 DEF Apart, Nested
  <2>4. CASE ~IsPiece(a, i, b, k, l) /\ ~IsPiece(c, j, b, k, l)
    BY <2>4, <1>9 DEF BuddyInv, BlocksApart
  <2> QED
    BY <2>1, <2>2, <2>3, <2>4
<1>14. BlocksCover'
  <2> SUFFICES ASSUME NEW q \in Zone, q < EndPfn
               PROVE  \E i \in Levels, a \in Zone : IsBlock(a, i)' /\ Within(q, a, i)
    BY <1>3 DEF BlocksCover
  <2>1. PICK i \in Levels, a \in Zone : IsBlock(a, i) /\ Within(q, a, i)
    BY DEF BuddyInv, BlocksCover
  <2>2. CASE a = b /\ i = k
    <3>1. q \in Nat
      BY ZoneFrames
    <3>2. PICK j \in 0..4 : j <= k /\ \E c \in {b, b + BlockPages(j)} :
                              IsPiece(c, j, b, k, l) /\ Within(q, c, j)
      BY <3>1, <2>1, <2>2, <1>1, PiecesCover
    <3>3. PICK c : IsPiece(c, j, b, k, l) /\ Within(q, c, j)
      BY <3>2
    <3>4. j \in Levels
      BY <3>2, MaxOrderAssumption DEF Levels
    <3> QED
      BY <3>3, <3>4, <1>5, <1>10
  <2>3. CASE ~(a = b /\ i = k)
    <3>1. IsBlock(a, i)'
      BY <2>1, <2>3, <1>7 DEF IsBlock
    <3> QED
      BY <3>1, <2>1
  <2> QED
    BY <2>2, <2>3
<1>15. MarksTrue'
  <2> SUFFICES ASSUME NEW i \in Levels, NEW a \in Zone
               PROVE  /\ IsFree(a, i)' => bplevel'[a] = i /\ used_info'[a] = BUDDY_FREE
                      /\ IsHeld(a, i)' => /\ bplevel'[a] = i
                                          /\ used_info'[a] \in {BUDDY_SLAB, BUDDY_ALLOCED}
    BY DEF MarksTrue
  <2>1. CASE ~IsBlock(a, i)'
    BY <2>1 DEF IsBlock
  <2>2. CASE IsBlock(a, i)' /\ ~IsPiece(a, i, b, k, l)
    <3>1. bplevel'[a] = bplevel[a] /\ used_info'[a] = used_info[a]
      BY <2>2, <1>8, <1>9
    <3> QED
      BY <3>1, <2>2, <1>9 DEF BuddyInv, MarksTrue
  <2>3. ASSUME IsPiece(a, i, b, k, l) PROVE ~IsFree(a, i) \/ (a = b /\ i = k /\ i = l)
    <3> SUFFICES ASSUME IsFree(a, i), ~(a = b /\ i = k) PROVE FALSE
      BY <2>3, <1>1 DEF IsPiece
    <3>1. Apart(a, i, b, k)
      BY DEF BuddyInv, BlocksApart, IsBlock
    <3>2. /\ a \in Nat /\ Nested(a, i, b, k) /\ BlockPages(i) \in Nat /\ BlockPages(i) > 0
      BY <2>3, <1>5
    <3> QED
      BY <3>1, <3>2, <1>1 DEF Apart, Nested
  <2>4. ASSUME IsPiece(a, i, b, k, l) PROVE ~IsHeld(a, i)
    <3> SUFFICES ASSUME IsHeld(a, i) PROVE FALSE
      OBVIOUS
    <3>1. ~IsHeld(b, k)
      BY <1>2 DEF BuddyInv, MarksTrue, BUDDY_FREE, BUDDY_SLAB, BUDDY_ALLOCED
    <3>2. Apart(a, i, b, k)
      BY <3>1 DEF BuddyInv, BlocksApart, IsBlock
    <3>3. /\ a \in Nat /\ Nested(a, i, b, k) /\ BlockPages(i) \in Nat /\ BlockPages(i) > 0
      BY <2>4, <1>5
    <3> QED
      BY <3>2, <3>3, <1>1 DEF Apart, Nested
  <2>5. CASE a = b /\ i = l
    <3>1. IsPiece(a, i, b, k, l)
      BY <2>5 DEF IsPiece
    <3>2. ~IsFree(a, i)'
      <4>1. ~(l <= i /\ i < k /\ a = b + BlockPages(i))
        BY <2>5, <3>1, <1>1, <1>5
      <4> QED
        BY <4>1, <3>1, <2>3, <1>7
    <3> QED
      BY <3>2, <2>5, <1>8
  <2>6. CASE l <= i /\ i < k /\ a = b + BlockPages(i)
    <3>1. IsPiece(a, i, b, k, l)
      BY <2>6 DEF IsPiece
    <3>2. a # b
      BY <2>6, <3>1, <1>1, <1>5
    <3>3. ~IsHeld(a, i)'
      BY <3>1, <3>2, <2>4, <1>7
    <3> QED
      BY <3>3, <2>6, <1>8
  <2> QED
    BY <2>1, <2>2, <2>5, <2>6 DEF IsPiece
<1>16. PairsMerged'
  <2>1. ASSUME NEW i \in Levels, l <= i, i < k PROVE ~IsFree(b, i)'
    <3> SUFFICES ASSUME IsFree(b, i)' PROVE FALSE
      OBVIOUS
    <3>1. IsPiece(b + BlockPages(i), i, b, k, l)
      BY <2>1 DEF IsPiece
    <3>2. BlockPages(i) \in Nat /\ BlockPages(i) > 0
      BY <3>1, <1>5
    <3>3. IsFree(b, i)
      BY <3>2, <1>1, <1>7
    <3>4. i = k
      BY <3>3, <1>2 DEF BuddyInv, MarksTrue
    <3> QED
      BY <3>4, <2>1, <1>1
  <2> SUFFICES ASSUME NEW i \in Levels, NEW a \in Zone, IsFree(a, i)', i < MAX_BUDDY_ORDER,
                      IsFree(get_buddy_pgn(a, i), i)'
               PROVE  FALSE
    BY DEF PairsMerged
  <2> DEFINE x == get_buddy_pgn(a, i)
  <2>2. x \in Zone
    BY <1>11 DEF IsFree, TypeOK
  <2>3. i \in 0..4 /\ a \in Nat /\ Aligned(a, i)
    BY <1>12, LevelsBound, ZoneFrames DEF BlocksSound, IsBlock
  <2>4. get_buddy_pgn(x, i) = a
    BY <2>3, BuddyBlock
  <2>5. IsFree(x, i)'
    OBVIOUS
  <2> HIDE DEF x
  <2>6. CASE l <= i /\ i < k /\ (a = b + BlockPages(i) \/ x = b + BlockPages(i))
    <3>1. get_buddy_pgn(b, i) = b + BlockPages(i) /\ i \in 0..4 /\ Aligned(b, i)
      BY <2>6, <1>1, <1>2, <1>6, LevelsBound, AlignedBelow
    <3>2. get_buddy_pgn(b + BlockPages(i), i) = b
      BY <3>1, <1>1, BuddyBlock
    <3>3. x = b \/ a = b
      BY <3>2, <2>4, <2>6 DEF x
    <3> QED
      BY <3>3, <2>1, <2>5, <2>6
  <2>7. CASE ~(l <= i /\ i < k /\ (a = b + BlockPages(i) \/ x = b + BlockPages(i)))
    <3>1. IsFree(a, i) /\ IsFree(x, i)
      BY <2>2, <2>5, <2>7, <1>7
    <3> QED
      BY <3>1 DEF BuddyInv, PairsMerged, x
  <2> QED
    BY <2>6, <2>7
<1>17. Untouched'
  <2> SUFFICES ASSUME NEW q \in AllPages, q < start_pfn \/ EndPfn <= q
               PROVE  bplevel'[q] = 0 /\ used_info'[q] = BUDDY_RESERVED
    BY <1>3 DEF Untouched
  <2>1. q \in Nat /\ start_pfn <= b /\ start_pfn \in Nat
    BY ZoneAssumption, ZoneFrames, ZoneType DEF AllPages
  <2>2. q < b \/ b + BlockPages(k) <= q
    BY <2>1, <1>1, <1>2, <1>3
  <2> QED
    BY <2>2, <1>8 DEF BuddyInv, Untouched
<1> QED
  BY <1>11, <1>12, <1>13, <1>14, <1>15, <1>16, <1>17 DEF BuddyInv
-----------------------------------------------------------------------------
(* The invariant holds.                                                    *)

LEMMA LowestFreeType ==
  ASSUME NEW l \in Levels, FreeLevels(l) # {}
  PROVE  /\ LowestFree(l) \in Levels /\ l <= LowestFree(l)
         /\ freelist[LowestFree(l)] # {}
<1>1. FreeLevels(l) \subseteq 0..4
  BY LevelsBound DEF FreeLevels
<1> DEFINE Least(k) == k \in FreeLevels(l) /\ \A j \in FreeLevels(l) : k <= j
           None(n) == \A j \in FreeLevels(l) : n <= j
<1>2. ASSUME NEW n \in 0..4, None(n) PROVE None(n + 1) \/ \E k \in FreeLevels(l) : Least(k)
  BY <1>1, <1>2
<1>3. None(0)
  BY <1>1
<1>4. ~None(5)
  BY <1>1
<1>5. \E k \in FreeLevels(l) : Least(k)
  <2> HIDE DEF None, Least
  <2> SUFFICES ASSUME ~\E k \in FreeLevels(l) : Least(k) PROVE FALSE
    OBVIOUS
  <2>1. \A n \in 0..4 : None(n) => None(n + 1)
    BY <1>2
  <2>2. None(1)
    BY <2>1, <1>3
  <2>3. None(2)
    BY <2>1, <2>2
  <2>4. None(3)
    BY <2>1, <2>3
  <2>5. None(4)
    BY <2>1, <2>4
  <2>6. None(5)
    BY <2>1, <2>5
  <2> QED
    BY <2>6, <1>4
<1>6. LowestFree(l) \in FreeLevels(l)
  BY <1>5 DEF LowestFree
<1> QED
  BY <1>6 DEF FreeLevels

LEMMA RequestLevelType ==
  ASSUME NEW n \in 0..32
  PROVE  RequestLevel(n) \in 0..5 /\ n <= BlockPages(RequestLevel(n))
<1>1. \E l \in 0..5 : BlockPages(l) >= n /\ \A j \in 0 .. (l - 1) : BlockPages(j) < n
  <2> DEFINE Covers(l) == BlockPages(l) >= n /\ \A j \in 0 .. (l - 1) : BlockPages(j) < n
  <2>1. CASE n <= 1
    <3>1. Covers(0)
      BY <2>1, BlockPagesTable
    <3> QED
      BY <3>1
  <2>2. CASE 1 < n /\ n <= 2
    <3>1. Covers(1)
      BY <2>2, BlockPagesTable
    <3> QED
      BY <3>1
  <2>3. CASE 2 < n /\ n <= 4
    <3>1. Covers(2)
      BY <2>3, BlockPagesTable
    <3> QED
      BY <3>1
  <2>4. CASE 4 < n /\ n <= 8
    <3>1. Covers(3)
      BY <2>4, BlockPagesTable
    <3> QED
      BY <3>1
  <2>5. CASE 8 < n /\ n <= 16
    <3>1. Covers(4)
      BY <2>5, BlockPagesTable
    <3> QED
      BY <3>1
  <2>6. CASE 16 < n
    <3>1. Covers(5)
      BY <2>6, BlockPagesTable
    <3> QED
      BY <3>1
  <2> QED
    BY <2>1, <2>2, <2>3, <2>4, <2>5, <2>6
<1>2. /\ RequestLevel(n) \in 0..5
      /\ BlockPages(RequestLevel(n)) >= n
  BY <1>1 DEF RequestLevel
<1> QED
  BY <1>2, BlockPagesType

LEMMA BuddyInit == Init => BuddyInv
<1> SUFFICES ASSUME Init PROVE BuddyInv
  OBVIOUS
<1>1. /\ bplevel = [p \in AllPages |-> 0] /\ used_info = [p \in AllPages |-> BUDDY_RESERVED]
      /\ freelist = [l \in Levels |-> {}] /\ booted = 0 /\ held = {}
  BY DEF Init
<1>2. start_pfn \in Nat /\ page_num \in Nat /\ EndPfn = start_pfn
  BY <1>1, ZoneType DEF EndPfn
<1>3. TypeOK
  <2>1. 0 \in Levels
    BY MaxOrderAssumption DEF Levels
  <2> QED
    BY <2>1, <1>1, <1>2 DEF TypeOK, UsedInfo
<1>4. \A l \in Levels, a \in Zone : ~IsBlock(a, l) /\ ~IsFree(a, l) /\ ~IsHeld(a, l)
  BY <1>1 DEF IsBlock, IsFree, IsHeld
<1>5. BlocksSound /\ BlocksApart /\ MarksTrue /\ PairsMerged
  BY <1>4 DEF BlocksSound, BlocksApart, MarksTrue, PairsMerged
<1>6. BlocksCover
  BY <1>2, ZoneFrames DEF BlocksCover
<1>7. Untouched
  BY <1>1 DEF Untouched
<1> QED
  BY <1>3, <1>5, <1>6, <1>7 DEF BuddyInv

\* Nothing in the invariant is about the answer to the last call.
LEMMA BuddyStutter ==
  ASSUME BuddyInv, UNCHANGED <<bplevel, used_info, freelist, booted, held>>
  PROVE  BuddyInv'
<1>1. EndPfn' = EndPfn
  BY DEF EndPfn
<1>2. \A a, l : /\ IsFree(a, l)' <=> IsFree(a, l)
                /\ IsHeld(a, l)' <=> IsHeld(a, l)
                /\ IsBlock(a, l)' <=> IsBlock(a, l)
  BY DEF IsFree, IsHeld, IsBlock
<1>3. TypeOK'
  BY DEF BuddyInv, TypeOK
<1>4. BlocksSound' /\ BlocksApart' /\ BlocksCover'
  BY <1>1, <1>2 DEF BuddyInv, BlocksSound, BlocksApart, BlocksCover
<1>5. MarksTrue' /\ PairsMerged' /\ Untouched'
  BY <1>1, <1>2 DEF BuddyInv, MarksTrue, PairsMerged, Untouched
<1> QED
  BY <1>3, <1>4, <1>5 DEF BuddyInv

LEMMA InitFreePageKeeps ==
  ASSUME BuddyInv, InitFreePage
  PROVE  BuddyInv'
<1> SUFFICES ASSUME NEW p, p = start_pfn + booted PROVE BuddyInv'
  OBVIOUS
<1>1. /\ start_pfn \in Nat /\ page_num \in Nat /\ booted \in 0..page_num
      /\ booted < page_num /\ held' = held /\ free_pages_(p)
  BY ZoneType DEF BuddyInv, TypeOK, InitFreePage
<1>2. p \in Nat /\ p = EndPfn /\ p \in Zone /\ p \in AllPages
  BY <1>1, ZoneFrames DEF EndPfn
<1>3. bplevel[p] = 0 /\ used_info[p] = BUDDY_RESERVED
  BY <1>2 DEF BuddyInv, Untouched
<1>4. used_info[p] # BUDDY_FREE
  BY <1>3 DEF BUDDY_FREE, BUDDY_RESERVED
<1>5. EndsAt(p + 1)
  <2>1. booted' = booted + 1
    BY DEF InitFreePage
  <2>2. booted + 1 \in 0..page_num /\ start_pfn + (booted + 1) = p + 1
    BY <1>1
  <2>3. EndPfn' = start_pfn + booted'
    BY DEF EndPfn
  <2> QED
    BY <2>1, <2>2, <2>3 DEF EndsAt
<1>6. BlockPages(0) = 1
  BY BlockPagesTable
<1>7. Aligned(p, 0)
  BY <1>2, <1>6 DEF Aligned
<1>8. ASSUME NEW l \in Levels, NEW a \in Zone, IsBlock(a, l)
      PROVE  Apart(a, l, p, 0)
  BY <1>2, <1>8 DEF BuddyInv, BlocksSound, Apart
<1>9. \A q \in Zone : q < p + 1 => q < EndPfn \/ Within(q, p, 0)
  BY <1>2, <1>6, ZoneFrames DEF Within
<1>10. p + 1 \in Nat /\ EndPfn <= p + 1 /\ p + 1 <= start_pfn + page_num
  BY <1>1, <1>2
<1>11. \A l \in Levels, a \in Zone : IsHeld(a, l)' <=> IsHeld(a, l) /\ a # p
  <2> SUFFICES ASSUME NEW l \in Levels PROVE ~IsHeld(p, l)
    BY <1>1 DEF IsHeld
  <2>1. l \in 0..4 /\ BlockPages(l) \in Nat /\ BlockPages(l) > 0
    BY LevelsBound, BlockPagesType
  <2>2. IsHeld(p, l) => p + BlockPages(l) <= EndPfn
    BY <1>2 DEF BuddyInv, BlocksSound, IsBlock
  <2> QED
    BY <2>1, <2>2, <1>2
<1>12. PICK e \in Nat : e = p + 1
  BY <1>10
<1> QED
  BY <1>1, <1>2, <1>3, <1>4, <1>5, <1>6, <1>7, <1>8, <1>9, <1>10, <1>11, <1>12, FreeStep

LEMMA AllocKeeps ==
  ASSUME BuddyInv, NEW l \in 0..5, NEW type \in {BUDDY_SLAB, BUDDY_ALLOCED},
         alloc_pages_(l, type), booted' = booted
  PROVE  BuddyInv'
<1>1. CASE l > MAX_BUDDY_ORDER \/ FreeLevels(l) = {}
  BY <1>1, BuddyStutter DEF alloc_pages_
<1>2. CASE ~(l > MAX_BUDDY_ORDER \/ FreeLevels(l) = {})
  <2>1. l \in Levels /\ FreeLevels(l) # {}
    BY <1>2, MaxOrderAssumption DEF Levels
  <2>2. PICK b \in freelist[LowestFree(l)] :
          /\ SplitAndMark(b, LowestFree(l), l, type)
          /\ held' = held \cup {[pgn |-> b, level |-> l]}
    BY <1>2 DEF alloc_pages_
  <2>3. LowestFree(l) \in Levels /\ l <= LowestFree(l)
    BY <2>1, LowestFreeType
  <2>4. b \in Zone /\ IsFree(b, LowestFree(l))
    BY <2>2, <2>3 DEF BuddyInv, TypeOK, IsFree
  <2> QED
    BY <2>1, <2>2, <2>3, <2>4, AllocStep
<1> QED
  BY <1>1, <1>2

LEMMA FreePagesKeeps ==
  ASSUME BuddyInv, NEW p \in AllPages, free_pages(p)
  PROVE  BuddyInv'
<1>1. /\ TypeOK /\ free_pages_(p) /\ booted' = booted
      /\ held' = {b \in held : b.pgn # p}
  BY DEF free_pages, BuddyInv
<1>2. ASSUME NEW b \in held
      PROVE  /\ b.pgn \in Zone /\ b.level \in Levels /\ IsHeld(b.pgn, b.level)
             /\ b = [pgn |-> b.pgn, level |-> b.level]
  BY <1>1 DEF TypeOK, IsHeld
<1>3. CASE ~pgn_is_in_zone(p) \/ used_info[p] = BUDDY_FREE
  <2>1. \A b \in held : b.pgn # p
    <3> SUFFICES ASSUME NEW b \in held, b.pgn = p PROVE FALSE
      OBVIOUS
    <3>1. p \in Zone /\ used_info[p] \in {BUDDY_SLAB, BUDDY_ALLOCED}
      BY <1>2 DEF BuddyInv, MarksTrue
    <3> QED
      BY <3>1, <1>3 DEF pgn_is_in_zone, BUDDY_FREE, BUDDY_SLAB, BUDDY_ALLOCED
  <2>2. held' = held
    BY <2>1, <1>1
  <2>3. UNCHANGED <<bplevel, used_info, freelist>>
    BY <1>1, <1>3 DEF free_pages_
  <2> QED
    BY <2>2, <2>3, <1>1, BuddyStutter
<1>4. CASE pgn_is_in_zone(p) /\ used_info[p] # BUDDY_FREE
  <2>1. PICK b \in held : b.pgn = p
    BY <1>4 DEF free_pages
  <2>2. p \in Zone /\ b.level \in Levels /\ IsHeld(p, b.level)
    BY <2>1, <1>2
  <2>3. bplevel[p] = b.level
    BY <2>2 DEF BuddyInv, MarksTrue
  <2>4. PICK L \in Levels : L = bplevel[p] /\ IsBlock(p, L)
    BY <2>2, <2>3 DEF IsBlock
  <2>5. Aligned(p, L) /\ p + BlockPages(L) <= EndPfn
    BY <2>2, <2>4 DEF BuddyInv, BlocksSound
  <2>6. \A l \in Levels, a \in Zone : IsBlock(a, l) => (a = p /\ l = L) \/ Apart(a, l, p, L)
    BY <2>2, <2>4 DEF BuddyInv, BlocksApart
  <2>7. EndPfn \in Nat /\ EndPfn <= start_pfn + page_num
    BY <1>1, ZoneType DEF TypeOK, EndPfn
  <2>8. EndsAt(EndPfn)
    BY <1>1 DEF EndsAt, EndPfn, TypeOK
  <2>9. \A l \in Levels, a \in Zone : IsHeld(a, l)' <=> IsHeld(a, l) /\ a # p
    BY <1>1 DEF IsHeld
  <2>10. held' \subseteq held
    BY <1>1
  <2>11. PICK e \in Nat : e = EndPfn
    BY <2>7
  <2> QED
    BY <1>1, <1>4, <2>2, <2>4, <2>5, <2>6, <2>7, <2>8, <2>9, <2>10, <2>11, FreeStep
<1> QED
  BY <1>3, <1>4

LEMMA BuddyStep == BuddyInv /\ [Next]_vars => BuddyInv'
<1> SUFFICES ASSUME BuddyInv, [Next]_vars PROVE BuddyInv'
  OBVIOUS
<1>1. CASE InitFreePage
  BY <1>1, InitFreePageKeeps
<1>2. CASE \E n \in 0..MaxRequest : alloc_pages(n)
  <2>1. PICK n \in 0..MaxRequest : alloc_pages(n)
    BY <1>2
  <2>2. n \in 0..32
    BY ZoneAssumption
  <2>3. RequestLevel(n) \in 0..5
    BY <2>2, RequestLevelType
  <2> QED
    BY <2>1, <2>3, AllocKeeps DEF alloc_pages
<1>3. CASE alloc_slab_page
  BY <1>3, AllocKeeps DEF alloc_slab_page
<1>4. CASE \E p \in AllPages : free_pages(p)
  BY <1>4, FreePagesKeeps
<1>5. CASE UNCHANGED vars
  BY <1>5, BuddyStutter DEF vars
<1> QED
  BY <1>1, <1>2, <1>3, <1>4, <1>5 DEF Next
\* Every reachable state satisfies the invariant: the metadata that the merge
\* loop of __free_pages consults is true, whatever is left inside the blocks.
THEOREM BuddyInvariant == Spec => []BuddyInv
<1>1. BuddyInv /\ UNCHANGED vars => BuddyInv'
  BY BuddyStep
<1> QED
  BY BuddyInit, BuddyStep, PTL DEF Spec

-----------------------------------------------------------------------------
(* What kmalloc sees of the buddy system.                                  *)

\* Two blocks in the hands of callers have different first frames and are
\* apart, and the first frame of neither is on a free list.
LEMMA HeldApart ==
  ASSUME BuddyInv, NEW b \in held, NEW c \in held
  PROVE  /\ b \in [pgn : Zone, level : Levels]
         /\ b # c => b.pgn # c.pgn /\ Apart(b.pgn, b.level, c.pgn, c.level)
         /\ \A l \in Levels : b.pgn \notin freelist[l]
         /\ used_info[b.pgn] \in {BUDDY_SLAB, BUDDY_ALLOCED}
<1>1. /\ b \in [pgn : Zone, level : Levels] /\ c \in [pgn : Zone, level : Levels]
      /\ freelist \in [Levels -> SUBSET Zone]
  BY DEF BuddyInv, TypeOK
<1>2. /\ b.pgn \in Zone /\ b.level \in Levels /\ b = [pgn |-> b.pgn, level |-> b.level]
      /\ c.pgn \in Zone /\ c.level \in Levels /\ c = [pgn |-> c.pgn, level |-> c.level]
  BY <1>1
<1>3. /\ IsHeld(b.pgn, b.level) /\ IsHeld(c.pgn, c.level)
      /\ IsBlock(b.pgn, b.level) /\ IsBlock(c.pgn, c.level)
  BY <1>2 DEF IsHeld, IsBlock
<1>4. /\ BlockPages(b.level) \in Nat /\ BlockPages(b.level) > 0
      /\ BlockPages(c.level) \in Nat /\ BlockPages(c.level) > 0
      /\ b.pgn \in Nat /\ c.pgn \in Nat
  BY <1>2, LevelsBound, BlockPagesType, ZoneFrames
<1>5. ASSUME b # c PROVE b.pgn # c.pgn /\ Apart(b.pgn, b.level, c.pgn, c.level)
  <2>1. Apart(b.pgn, b.level, c.pgn, c.level)
    BY <1>2, <1>3, <1>5 DEF BuddyInv, BlocksApart
  <2> QED
    BY <2>1, <1>4 DEF Apart
<1>6. used_info[b.pgn] \in {BUDDY_SLAB, BUDDY_ALLOCED}
  BY <1>2, <1>3 DEF BuddyInv, MarksTrue
<1>7. ASSUME NEW l \in Levels, b.pgn \in freelist[l] PROVE FALSE
  <2>1. used_info[b.pgn] = BUDDY_FREE
    BY <1>2, <1>7 DEF BuddyInv, MarksTrue, IsFree
  <2> QED
    BY <2>1, <1>6 DEF BUDDY_FREE, BUDDY_SLAB, BUDDY_ALLOCED
<1> QED
  BY <1>1, <1>5, <1>6, <1>7

\* __alloc_pages either refuses and changes nothing, or gives out a block of
\* the zone that was nobody's and leaves the marks of the others as they were.
LEMMA AllocGives ==
  ASSUME BuddyInv, NEW l \in 0..5, NEW type \in {BUDDY_SLAB, BUDDY_ALLOCED},
         alloc_pages_(l, type), booted' = booted
  PROVE  \/ answer'.pgn = nullptr /\ UNCHANGED <<bplevel, used_info, freelist, held>>
         \/ \E b \in Zone :
              /\ l \in Levels /\ answer'.pgn = b
              /\ held' = held \cup {[pgn |-> b, level |-> l]}
              /\ used_info'[b] = type
              /\ \A h \in held : h.pgn # b /\ used_info'[h.pgn] = used_info[h.pgn]
<1>1. CASE l > MAX_BUDDY_ORDER \/ FreeLevels(l) = {}
  BY <1>1 DEF alloc_pages_
<1>2. CASE ~(l > MAX_BUDDY_ORDER \/ FreeLevels(l) = {})
  <2>1. l \in Levels /\ FreeLevels(l) # {}
    BY <1>2, MaxOrderAssumption DEF Levels
  <2>2. PICK b \in freelist[LowestFree(l)] :
          /\ SplitAndMark(b, LowestFree(l), l, type)
          /\ held' = held \cup {[pgn |-> b, level |-> l]}
          /\ answer' = [level |-> l, pgn |-> b]
    BY <1>2 DEF alloc_pages_
  <2>3. LowestFree(l) \in Levels
    BY <2>1, LowestFreeType
  <2>4. b \in Zone /\ b \in AllPages
    BY <2>2, <2>3, ZoneFrames DEF BuddyInv, TypeOK
  <2>5. used_info'[b] = type
    <3> DEFINE k == LowestFree(l)
    <3>1. k \in 0..4 /\ l \in 0..4 /\ b \in Nat
      BY <2>1, <2>3, <2>4, LevelsBound, ZoneFrames
    <3>2. Aligned(b, k)
      BY <2>2, <2>3, <2>4 DEF BuddyInv, BlocksSound, IsBlock, IsFree
    <3> HIDE DEF k
    <3>3. ASSUME NEW j \in l .. (k - 1) PROVE get_buddy_pgn(b, j) # b
      <4>1. j \in 0..4 /\ j < k
        BY <3>1
      <4>2. get_buddy_pgn(b, j) = b + BlockPages(j) /\ BlockPages(j) \in Nat \ {0}
        BY <4>1, <3>1, <3>2, UpperHalf, BlockPagesType
      <4> QED
        BY <4>2, <3>1
    <3> QED
      BY <2>2, <2>4, <3>3 DEF SplitAndMark, k
  <2>6. BuddyInv'
    BY AllocKeeps
  <2>7. ASSUME NEW h \in held PROVE h.pgn # b /\ used_info'[h.pgn] = used_info[h.pgn]
    <3>1. h.pgn \in Zone /\ h.pgn # b
      BY <2>2, <2>3, HeldApart
    <3>2. h.pgn \in AllPages
      BY <3>1, ZoneFrames
    <3>3. h \in held'
      BY <2>2
    <3>4. h \in [pgn : Zone, level : Levels] /\ h = [pgn |-> h.pgn, level |-> h.level]
      BY HeldApart
    <3>5. used_info'[h.pgn] \in {BUDDY_SLAB, BUDDY_ALLOCED}
      BY <2>6, <3>3, <3>4 DEF BuddyInv, MarksTrue, IsHeld
    <3>6. used_info'[h.pgn] # BUDDY_FREE
      BY <3>5 DEF BUDDY_FREE, BUDDY_SLAB, BUDDY_ALLOCED
    <3>7. used_info'[h.pgn] \in {BUDDY_FREE, used_info[h.pgn]}
      BY <3>1, <3>2, <2>2 DEF SplitAndMark
    <3> QED
      BY <3>1, <3>6, <3>7
  <2> QED
    BY <2>1, <2>2, <2>4, <2>5, <2>7
<1> QED
  BY <1>1, <1>2

\* __free_pages leaves the marks of the blocks that stay with their callers.
LEMMA MarksStay ==
  ASSUME BuddyInv, BuddyInv', NEW p, free_pages_(p), held' \subseteq held
  PROVE  \A h \in held' : used_info'[h.pgn] = used_info[h.pgn]
<1> SUFFICES ASSUME NEW h \in held' PROVE used_info'[h.pgn] = used_info[h.pgn]
  OBVIOUS
<1>1. h \in [pgn : Zone, level : Levels] /\ h = [pgn |-> h.pgn, level |-> h.level]
  BY HeldApart
<1>2. used_info'[h.pgn] \in {BUDDY_SLAB, BUDDY_ALLOCED}
  BY <1>1 DEF BuddyInv, MarksTrue, IsHeld
<1>3. used_info'[h.pgn] # BUDDY_FREE
  BY <1>2 DEF BUDDY_FREE, BUDDY_SLAB, BUDDY_ALLOCED
<1>4. h.pgn \in AllPages /\ used_info \in [AllPages -> UsedInfo]
  BY <1>1, ZoneFrames DEF BuddyInv, TypeOK
<1>5. CASE ~pgn_is_in_zone(p) \/ used_info[p] = BUDDY_FREE
  BY <1>5 DEF free_pages_
<1>6. CASE ~(~pgn_is_in_zone(p) \/ used_info[p] = BUDDY_FREE)
  <2>1. used_info' = [used_info EXCEPT ![HeadAt(p, MergeLevel(p))] = BUDDY_FREE]
    BY <1>6 DEF free_pages_
  <2> QED
    BY <2>1, <1>3, <1>4
<1> QED
  BY <1>5, <1>6

LEMMA InitFreeMarks ==
  ASSUME BuddyInv, InitFreePage
  PROVE  held' = held /\ \A h \in held' : used_info'[h.pgn] = used_info[h.pgn]
<1>1. BuddyInv'
  BY InitFreePageKeeps
<1>2. held' = held /\ free_pages_(start_pfn + booted)
  BY DEF InitFreePage
<1>3. PICK p : p = start_pfn + booted
  OBVIOUS
<1> QED
  BY <1>1, <1>2, <1>3, MarksStay

LEMMA FreePagesMarks ==
  ASSUME BuddyInv, NEW p \in AllPages, free_pages(p)
  PROVE  /\ held' = {b \in held : b.pgn # p}
         /\ \A h \in held' : used_info'[h.pgn] = used_info[h.pgn]
<1>1. held' = {b \in held : b.pgn # p} /\ held' \subseteq held /\ free_pages_(p)
  BY DEF free_pages
<1>2. BuddyInv'
  BY FreePagesKeeps
<1> QED
  BY <1>1, <1>2, MarksStay

-----------------------------------------------------------------------------
(* The properties of module Buddy.                                         *)

\* The records of the properties and the pairs of the invariant.
LEMMA BlockRecords ==
  ASSUME BuddyInv
  PROVE  /\ \A b \in FreeBlocks : /\ b.pgn \in Zone /\ b.level \in Levels
                                  /\ IsFree(b.pgn, b.level)
         /\ \A b \in held : /\ b.pgn \in Zone /\ b.level \in Levels
                            /\ IsHeld(b.pgn, b.level)
         /\ \A b \in Blocks_ : /\ b.pgn \in Zone /\ b.level \in Levels
                               /\ IsBlock(b.pgn, b.level)
                               /\ b = [pgn |-> b.pgn, level |-> b.level]
         /\ \A l \in Levels, a \in Zone :
              IsBlock(a, l) => [pgn |-> a, level |-> l] \in Blocks_
<1>1. held \subseteq [pgn : Zone, level : Levels]
  BY DEF BuddyInv, TypeOK
<1>2. \A b \in FreeBlocks : /\ b.pgn \in Zone /\ b.level \in Levels
                            /\ IsFree(b.pgn, b.level)
                            /\ b = [pgn |-> b.pgn, level |-> b.level]
  BY DEF FreeBlocks, IsFree
<1>3. \A b \in held : /\ b.pgn \in Zone /\ b.level \in Levels
                      /\ IsHeld(b.pgn, b.level)
                      /\ b = [pgn |-> b.pgn, level |-> b.level]
  BY <1>1 DEF IsHeld
<1>4. \A l \in Levels, a \in Zone : IsBlock(a, l) => [pgn |-> a, level |-> l] \in Blocks_
  BY DEF IsBlock, IsFree, IsHeld, Blocks_, FreeBlocks
<1> QED
  BY <1>2, <1>3, <1>4 DEF Blocks_, IsBlock

\* Levels, marks, list entries and callers' blocks always have their types, so
\* no free list is ever indexed above MAX_BUDDY_ORDER.
THEOREM TypeCorrect == Spec => []TypeOK
<1>1. BuddyInv => TypeOK
  BY DEF BuddyInv
<1> QED
  BY <1>1, BuddyInvariant, PTL

\* __alloc_pages never hands out a frame that a caller holds or that is part
\* of another free block.
THEOREM BlocksDoNotOverlap == Spec => []NoOverlap
<1>1. BuddyInv => NoOverlap
  <2> SUFFICES ASSUME BuddyInv, NEW b \in Blocks_, NEW c \in Blocks_, b # c
               PROVE  \/ b.pgn + BlockPages(b.level) <= c.pgn
                      \/ c.pgn + BlockPages(c.level) <= b.pgn
    BY DEF NoOverlap
  <2>1. /\ b.pgn \in Zone /\ b.level \in Levels /\ IsBlock(b.pgn, b.level)
        /\ c.pgn \in Zone /\ c.level \in Levels /\ IsBlock(c.pgn, c.level)
        /\ ~(b.pgn = c.pgn /\ b.level = c.level)
    BY BlockRecords
  <2>2. Apart(b.pgn, b.level, c.pgn, c.level)
    BY <2>1 DEF BuddyInv, BlocksApart
  <2> QED
    BY <2>2 DEF Apart
<1> QED
  BY <1>1, BuddyInvariant, PTL

\* No split and no merge loses a frame.
THEOREM FramesAreNotLost == Spec => []NoLeak
<1>1. BuddyInv => NoLeak
  <2> SUFFICES ASSUME BuddyInv, NEW p \in Released
               PROVE  \E b \in Blocks_ : p \in Block(b.pgn, b.level)
    BY DEF NoLeak
  <2>1. start_pfn \in Nat /\ page_num \in Nat /\ booted \in 0..page_num
    BY ZoneType DEF BuddyInv, TypeOK
  <2>2. p \in Nat /\ p \in Zone /\ p < EndPfn
    BY <2>1 DEF Released, Zone, EndPfn
  <2>3. PICK l \in Levels, a \in Zone : IsBlock(a, l) /\ Within(p, a, l)
    BY <2>2 DEF BuddyInv, BlocksCover
  <2>4. l \in 0..4 /\ a \in Nat /\ BlockPages(l) \in Nat
    BY LevelsBound, ZoneFrames, BlockPagesType
  <2>5. p \in Block(a, l)
    BY <2>2, <2>3, <2>4 DEF Within, Block
  <2>6. [pgn |-> a, level |-> l] \in Blocks_
    BY <2>3, BlockRecords
  <2> QED
    BY <2>5, <2>6
<1> QED
  BY <1>1, BuddyInvariant, PTL

\* The first frame of a block always carries its level and its mark.
THEOREM MarksAreTrue == Spec => []MarksAgree
<1>1. BuddyInv => MarksAgree
  BY BlockRecords DEF BuddyInv, MarksTrue, MarksAgree
<1> QED
  BY <1>1, BuddyInvariant, PTL

\* After every operation no two buddies are both free.
THEOREM FreeBlocksAreMerged == Spec => []Coalesced
<1>1. BuddyInv => Coalesced
  BY BlockRecords DEF BuddyInv, PairsMerged, Coalesced, IsFree
<1> QED
  BY <1>1, BuddyInvariant, PTL

-----------------------------------------------------------------------------
(* What merging buys: a run of frames that no caller holds is part of one  *)
(* free block, so a request is refused only when it cannot be met, and     *)
(* giving everything back restores the zone.  With it the buddy allocator  *)
(* implements PageAllocator.                                               *)

\* An aligned run of frames in no caller's hands lies in one free block.  If
\* it did not, it would be made of smaller free blocks; the buddy of the
\* smallest is covered by one that is no larger, hence by its own buddy, and
\* two free buddies are always merged.
LEMMA FreeRun ==
  ASSUME BuddyInv, NEW p \in Zone, NEW n \in Levels, Aligned(p, n),
         p + BlockPages(n) <= EndPfn,
         \A l \in Levels, a \in Zone : IsHeld(a, l) => Apart(a, l, p, n)
  PROVE  \E k \in Levels, c \in Zone : n <= k /\ IsFree(c, k) /\ Nested(p, n, c, k)
<1> SUFFICES ASSUME ~\E k \in Levels, c \in Zone :
                       n <= k /\ IsFree(c, k) /\ Nested(p, n, c, k)
             PROVE  FALSE
  OBVIOUS
<1>1. /\ n \in 0..4 /\ p \in Nat /\ BlockPages(n) \in Nat /\ BlockPages(n) > 0
      /\ start_pfn \in Nat /\ start_pfn <= p /\ page_num \in Nat
  BY LevelsBound, ZoneFrames, BlockPagesType, ZoneType
<1>2. EndPfn \in Nat /\ EndPfn <= start_pfn + page_num
  BY ZoneType DEF BuddyInv, TypeOK, EndPfn
\* Every frame of the run is in a free block smaller than the run.
<1>3. ASSUME NEW q \in Nat, Within(q, p, n)
      PROVE  \E k \in Levels, c \in Zone :
               /\ IsFree(c, k) /\ Within(q, c, k) /\ k < n /\ Nested(c, k, p, n)
  <2>1. q \in Zone /\ q < EndPfn
    BY <1>1, <1>2, <1>3, ZoneFrames DEF Within
  <2>2. PICK k \in Levels, c \in Zone : IsBlock(c, k) /\ Within(q, c, k)
    BY <2>1 DEF BuddyInv, BlocksCover
  <2>3. /\ k \in 0..4 /\ c \in Nat /\ BlockPages(k) \in Nat /\ Aligned(c, k)
    BY <2>2, LevelsBound, ZoneFrames, BlockPagesType DEF BuddyInv, BlocksSound
  <2>4. ~Apart(c, k, p, n) /\ ~Apart(p, n, c, k)
    BY <2>2, <2>3, <1>1, <1>3 DEF Apart, Within
  <2>5. IsFree(c, k)
    BY <2>2, <2>4 DEF IsBlock
  <2>6. ~(n <= k)
    <3> SUFFICES ASSUME n <= k PROVE FALSE
      OBVIOUS
    <3>1. Nested(p, n, c, k)
      BY <2>3, <2>4, <1>1, NestedOrApart
    <3> QED
      BY <3>1, <2>5
  <2>7. k < n /\ k <= n
    BY <2>3, <2>6, <1>1
  <2>8. Nested(c, k, p, n)
    BY <2>3, <2>4, <2>7, <1>1, NestedOrApart
  <2> QED
    BY <2>2, <2>5, <2>7, <2>8
<1> DEFINE NoneAt(j) == \A a \in Zone : j < n /\ IsFree(a, j) => ~Nested(a, j, p, n)
\* The buddy of a smallest block of the run is free as well.
<1>4. ASSUME NEW j \in Levels, \A i \in Levels : i < j => NoneAt(i)
      PROVE  NoneAt(j)
  <2> SUFFICES ASSUME NEW a \in Zone, j < n, IsFree(a, j), Nested(a, j, p, n)
               PROVE  FALSE
    OBVIOUS
  <2> DEFINE x == get_buddy_pgn(a, j)
             h == HeadAt(a, j + 1)
  <2>1. /\ j \in 0..4 /\ j \in 0..3 /\ j + 1 \in 0..4 /\ j + 1 <= n
        /\ j < MAX_BUDDY_ORDER /\ a \in Nat
        /\ BlockPages(j) \in Nat /\ BlockPages(j) > 0
        /\ BlockPages(j + 1) = 2 * BlockPages(j)
    BY <1>1, LevelsBound, ZoneFrames, BlockPagesType, BlockPagesDouble DEF Levels
  <2>2. Aligned(a, j)
    BY DEF BuddyInv, BlocksSound, IsBlock
  <2>3. x \in Nat /\ Aligned(x, j) /\ Apart(a, j, x, j)
    BY <2>1, <2>2, BuddyBlock
  <2>4. HeadAt(a, j) = a
    BY <2>1, <2>2, HeadAtAligned
  <2>5. (h = a /\ x = a + BlockPages(j)) \/ (h = x /\ a = x + BlockPages(j))
    BY <2>1, <2>4, PairBlock
  <2>6. h \in Nat /\ Aligned(h, j + 1)
    BY <2>1, HeadAtBlock
  <2> HIDE DEF x, h
  <2>7. Apart(h, j + 1, p, n) \/ Nested(h, j + 1, p, n)
    BY <2>1, <2>6, <1>1, NestedOrApart
  <2>8. Within(x, p, n)
    BY <2>1, <2>3, <2>5, <2>6, <2>7, <1>1 DEF Apart, Nested, Within
  <2>9. PICK k \in Levels, c \in Zone :
          /\ IsFree(c, k) /\ Within(x, c, k) /\ k < n /\ Nested(c, k, p, n)
    BY <2>3, <2>8, <1>3
  <2>10. /\ k \in 0..4 /\ c \in Nat /\ Aligned(c, k)
         /\ BlockPages(k) \in Nat /\ BlockPages(k) > 0
    BY <2>9, LevelsBound, ZoneFrames, BlockPagesType DEF BuddyInv, BlocksSound, IsBlock
  <2>11. k <= j
    <3> SUFFICES ASSUME j < k PROVE FALSE
      BY <2>1, <2>10
    <3>1. j + 1 <= k
      BY <2>1, <2>10
    <3>2. Apart(h, j + 1, c, k) \/ Nested(h, j + 1, c, k)
      BY <3>1, <2>1, <2>6, <2>10, NestedOrApart
    <3>3. ~Apart(a, j, c, k)
      BY <3>2, <2>1, <2>3, <2>5, <2>6, <2>9, <2>10 DEF Apart, Nested, Within
    <3>4. a = c /\ j = k
      BY <3>3, <2>9 DEF BuddyInv, BlocksApart, IsBlock
    <3> QED
      BY <3>4, <2>1
  <2>12. c = x
    <3>1. Aligned(x, k)
      BY <2>1, <2>3, <2>10, <2>11, AlignedBelow
    <3>2. HeadAt(x, k) = x
      BY <3>1, <2>3, <2>10, HeadAtAligned
    <3>3. HeadAt(x, k) = c
      BY <2>3, <2>9, <2>10, HeadAtUnique
    <3> QED
      BY <3>2, <3>3
  <2>13. CASE k = j
    BY <2>1, <2>9, <2>12, <2>13 DEF BuddyInv, PairsMerged, x
  <2>14. CASE k < j
    BY <2>9, <2>14, <1>4
  <2> QED
    BY <2>1, <2>10, <2>11, <2>13, <2>14
<1>5. \A j \in Levels : NoneAt(j)
  <2> HIDE DEF NoneAt
  <2> DEFINE Upto(i) == \A j \in Levels : j < i => NoneAt(j)
  <2>1. Upto(0)
    BY LevelsBound
  <2>2. ASSUME NEW i \in 0..4, Upto(i) PROVE Upto(i + 1)
    BY <2>2, <1>4, LevelsBound
  <2>3. \A j \in Levels : j < 5
    BY LevelsBound
  <2> HIDE DEF Upto
  <2>4. Upto(1)
    BY <2>1, <2>2
  <2>5. Upto(2)
    BY <2>4, <2>2
  <2>6. Upto(3)
    BY <2>5, <2>2
  <2>7. Upto(4)
    BY <2>6, <2>2
  <2>8. Upto(5)
    BY <2>7, <2>2
  <2> QED
    BY <2>3, <2>8 DEF Upto
<1>6. Within(p, p, n)
  BY <1>1 DEF Within
<1> QED
  BY <1>1, <1>3, <1>5, <1>6

\* When the callers have given everything back, __free_pages has put the whole
\* zone together again: the lists are as init_buddy left them.
THEOREM ZoneIsRestored == Spec => []FullyRestored
<1>1. BuddyInv => FullyRestored
  <2> SUFFICES ASSUME BuddyInv, booted = page_num, held = {}
               PROVE  freelist = [l \in Levels |->
                                   IF l = MAX_BUDDY_ORDER
                                   THEN {p \in Zone : Aligned(p, MAX_BUDDY_ORDER)}
                                   ELSE {}]
    BY DEF FullyRestored
  <2> DEFINE M == MAX_BUDDY_ORDER
  <2>1. M \in Levels /\ M \in 0..4 /\ EndPfn = start_pfn + page_num
    BY LevelsBound DEF EndPfn
  <2>2. freelist \in [Levels -> SUBSET Zone]
    BY DEF BuddyInv, TypeOK
  <2>3. ASSUME NEW p \in Zone, Aligned(p, M) PROVE IsFree(p, M)
    <3>1. p \in Nat /\ HeadAt(p, M) = p
      BY <2>1, <2>3, ZoneFrames, HeadAtAligned
    <3>2. p + BlockPages(M) <= EndPfn
      BY <3>1, <2>1, ZoneBlock
    <3>3. PICK k \in Levels, c \in Zone : M <= k /\ IsFree(c, k) /\ Nested(p, M, c, k)
      BY <3>2, <2>1, <2>3, FreeRun DEF IsHeld
    <3>4. k = M
      BY <3>3, <2>1 DEF Levels
    <3>5. c \in Nat /\ BlockPages(M) \in Nat
      BY <2>1, ZoneFrames, BlockPagesType
    <3>6. c = p
      BY <3>1, <3>3, <3>4, <3>5 DEF Nested
    <3> QED
      BY <3>3, <3>4, <3>6
  <2>4. ASSUME NEW l \in Levels, NEW a \in Zone, IsFree(a, l)
        PROVE  l = M /\ Aligned(a, M)
    <3> DEFINE h == HeadAt(a, M)
    <3>1. /\ l \in 0..4 /\ l <= M /\ a \in Nat /\ Aligned(a, l)
          /\ BlockPages(l) \in Nat /\ BlockPages(l) > 0
      BY <2>4, LevelsBound, ZoneFrames, BlockPagesType
      DEF BuddyInv, BlocksSound, IsBlock, Levels
    <3>2. h \in Zone /\ h \in Nat /\ Aligned(h, M) /\ Within(a, h, M)
      BY <3>1, <2>1, HeadAtBlock, ZoneBlock
    <3> HIDE DEF h
    <3>3. IsFree(h, M)
      BY <3>2, <2>3
    <3>4. BlockPages(M) \in Nat
      BY <2>1, BlockPagesType
    <3>5. ~Apart(a, l, h, M)
      BY <3>1, <3>2, <3>4 DEF Apart, Within
    <3>6. a = h /\ l = M
      BY <3>3, <3>5, <3>2, <2>1, <2>4 DEF BuddyInv, BlocksApart, IsBlock
    <3> QED
      BY <3>2, <3>6
  <2>5. ASSUME NEW l \in Levels
        PROVE  freelist[l] = IF l = M THEN {p \in Zone : Aligned(p, M)} ELSE {}
    BY <2>2, <2>3, <2>4 DEF IsFree
  <2> QED
    BY <2>2, <2>5
<1> QED
  BY <1>1, BuddyInvariant, PTL
-----------------------------------------------------------------------------
(* Refinement of PageAllocator.                                            *)

\* The abstract specification talks of the same blocks.
LEMMA SameGeometry ==
  /\ Abstract!Levels = Levels
  /\ \A p, l : /\ Abstract!Block(p, l) = Block(p, l)
               /\ Abstract!Aligned(p, l) <=> Aligned(p, l)
  /\ Abstract!nullptr = nullptr /\ Abstract!NoAnswer = NoAnswer
<1>1. \A l : Abstract!BlockPages(l) = BlockPages(l)
  BY DEF Abstract!BlockPages, BlockPages
<1> QED
  BY <1>1 DEF Abstract!Levels, Levels, Abstract!Block, Block, Abstract!Aligned, Aligned,
     Abstract!nullptr, nullptr, Abstract!NoAnswer, NoAnswer

\* The frames of a block, as an interval of the zone.
LEMMA BlockFrames ==
  ASSUME NEW a \in Nat, NEW l \in 0..4, NEW q
  PROVE  q \in Block(a, l) <=> q \in Nat /\ Within(q, a, l)
<1>1. BlockPages(l) \in Nat
  BY BlockPagesType
<1> QED
  BY <1>1 DEF Block, Within

LEMMA ReleasedFrames ==
  ASSUME BuddyInv
  PROVE  /\ EndPfn \in Nat /\ EndPfn <= start_pfn + page_num
         /\ \A q : q \in Released <=> q \in Zone /\ q < EndPfn
<1>1. start_pfn \in Nat /\ page_num \in Nat /\ booted \in 0..page_num
  BY ZoneType DEF BuddyInv, TypeOK
<1> QED
  BY <1>1 DEF Released, EndPfn, Zone

\* A frame of a live block.
LEMMA LiveFrames ==
  ASSUME BuddyInv, NEW q
  PROVE  q \in Abstract!LivePages <=>
           \E l \in Levels, a \in Zone : IsHeld(a, l) /\ q \in Block(a, l)
<1>1. q \in Abstract!LivePages <=> \E b \in held : q \in Block(b.pgn, b.level)
  BY SameGeometry DEF Abstract!LivePages
<1>2. ASSUME NEW b \in held
      PROVE  b.pgn \in Zone /\ b.level \in Levels /\ IsHeld(b.pgn, b.level)
  BY BlockRecords
<1>3. ASSUME NEW l \in Levels, NEW a \in Zone, IsHeld(a, l), q \in Block(a, l)
      PROVE  \E b \in held : q \in Block(b.pgn, b.level)
  <2>1. [pgn |-> a, level |-> l] \in held
    BY <1>3 DEF IsHeld
  <2> QED
    BY <2>1, <1>3
<1> QED
  BY <1>1, <1>2, <1>3

\* A part of a free block is available to a request.
LEMMA FreeIsAvailable ==
  ASSUME BuddyInv, NEW k \in Levels, NEW l \in Levels, l <= k, NEW b \in Zone, IsFree(b, k)
  PROVE  Abstract!Available(b, l)
<1>1. /\ k \in 0..4 /\ l \in 0..4 /\ b \in Nat /\ Aligned(b, k) /\ b + BlockPages(k) <= EndPfn
      /\ BlockPages(k) \in Nat /\ BlockPages(l) \in Nat /\ EndPfn \in Nat
      /\ EndPfn <= start_pfn + page_num
  BY LevelsBound, ZoneFrames, BlockPagesType, ReleasedFrames DEF BuddyInv, BlocksSound, IsBlock
<1>2. Aligned(b, l) /\ BlockPages(l) <= BlockPages(k)
  BY <1>1, AlignedBelow, BlockPagesTable
<1>3. start_pfn <= b /\ start_pfn \in Nat /\ page_num \in Nat
  BY ZoneFrames, ZoneType
<1>4. ASSUME NEW q \in Block(b, l)
      PROVE  q \in Released /\ q \notin Abstract!LivePages
  <2>1. q \in Nat /\ Within(q, b, l)
    BY <1>1, <1>4, BlockFrames
  <2>2. Within(q, b, k) /\ q < EndPfn /\ start_pfn <= q
    BY <2>1, <1>1, <1>2, <1>3 DEF Within
  <2>3. q \in Zone
    BY <2>1, <2>2, <1>1, <1>3, ZoneFrames
  <2>4. ASSUME NEW i \in Levels, NEW a \in Zone, IsHeld(a, i), q \in Block(a, i)
        PROVE  FALSE
    <3>1. a \in Nat /\ i \in 0..4 /\ BlockPages(i) \in Nat
      BY LevelsBound, ZoneFrames, BlockPagesType
    <3>2. Within(q, a, i)
      BY <2>4, <3>1, BlockFrames
    <3>3. ~Apart(a, i, b, k)
      BY <3>1, <3>2, <2>1, <2>2, <1>1 DEF Within, Apart
    <3>4. a = b /\ i = k
      BY <3>3, <2>4 DEF BuddyInv, BlocksApart, IsBlock
    <3> QED
      BY <3>4, <2>4 DEF BuddyInv, MarksTrue, BUDDY_FREE, BUDDY_SLAB, BUDDY_ALLOCED
  <2> QED
    BY <2>2, <2>3, <2>4, ReleasedFrames, LiveFrames
<1> QED
  BY <1>2, <1>4, SameGeometry DEF Abstract!Available

\* When no list from level l up has a block, no run of that size is free.
LEMMA RefusalIsJustified ==
  ASSUME BuddyInv, NEW l \in Levels, FreeLevels(l) = {}, NEW p \in Zone
  PROVE  ~Abstract!Available(p, l)
<1> SUFFICES ASSUME Abstract!Available(p, l) PROVE FALSE
  OBVIOUS
<1>1. /\ Aligned(p, l)
      /\ \A q \in Block(p, l) : q \in Released /\ q \notin Abstract!LivePages
  BY SameGeometry DEF Abstract!Available
<1>2. /\ p \in Nat /\ l \in 0..4 /\ BlockPages(l) \in Nat /\ BlockPages(l) > 0
      /\ EndPfn \in Nat
  BY LevelsBound, ZoneFrames, BlockPagesType, ReleasedFrames
<1>3. p + BlockPages(l) <= EndPfn
  <2>1. p + BlockPages(l) - 1 \in Block(p, l)
    BY <1>2 DEF Block
  <2>2. p + BlockPages(l) - 1 < EndPfn
    BY <2>1, <1>1, ReleasedFrames
  <2> QED
    BY <2>2, <1>2
<1>4. ASSUME NEW i \in Levels, NEW a \in Zone, IsHeld(a, i)
      PROVE  Apart(a, i, p, l)
  <2> SUFFICES ASSUME ~Apart(a, i, p, l) PROVE FALSE
    OBVIOUS
  <2>1. a \in Nat /\ i \in 0..4 /\ BlockPages(i) \in Nat /\ BlockPages(i) > 0
    BY LevelsBound, ZoneFrames, BlockPagesType
  <2>2. \E q \in Nat : Within(q, a, i) /\ Within(q, p, l)
    <3>1. CASE a <= p
      <4>1. Within(p, a, i) /\ Within(p, p, l)
        BY <3>1, <2>1, <1>2 DEF Apart, Within
      <4> QED
        BY <4>1, <1>2
    <3>2. CASE p < a
      <4>1. Within(a, a, i) /\ Within(a, p, l)
        BY <3>2, <2>1, <1>2 DEF Apart, Within
      <4> QED
        BY <4>1, <2>1
    <3> QED
      BY <3>1, <3>2, <2>1, <1>2
  <2>3. PICK q \in Nat : Within(q, a, i) /\ Within(q, p, l)
    BY <2>2
  <2>4. q \in Block(a, i) /\ q \in Block(p, l)
    BY <2>1, <2>3, <1>2, BlockFrames
  <2> QED
    BY <2>4, <1>1, <1>4, LiveFrames
<1>5. PICK k \in Levels, c \in Zone : l <= k /\ IsFree(c, k)
  BY <1>1, <1>3, <1>4, FreeRun
<1> QED
  BY <1>5 DEF FreeLevels, IsFree

LEMMA AllocImplements ==
  ASSUME BuddyInv, NEW l \in 0..5, NEW type, alloc_pages_(l, type), booted' = booted
  PROVE  Abstract!Alloc(l) \/ Abstract!Refuse(l)
<1>1. Released' = Released
  BY DEF Released
<1>2. CASE l > MAX_BUDDY_ORDER \/ FreeLevels(l) = {}
  <2>1. l \in Levels => FreeLevels(l) = {}
    BY <1>2, MaxOrderAssumption DEF Levels
  <2>2. answer' = [level |-> l, pgn |-> nullptr] /\ held' = held
    BY <1>2 DEF alloc_pages_
  <2>3. l \in Levels => \A p \in Zone : ~Abstract!Available(p, l)
    BY <2>1, RefusalIsJustified
  <2> QED
    BY <2>2, <2>3, <1>1, SameGeometry DEF Abstract!Refuse
<1>3. CASE ~(l > MAX_BUDDY_ORDER \/ FreeLevels(l) = {})
  <2>1. l \in Levels /\ FreeLevels(l) # {}
    BY <1>3, MaxOrderAssumption DEF Levels
  <2>2. PICK b \in freelist[LowestFree(l)] :
          /\ held' = held \cup {[pgn |-> b, level |-> l]}
          /\ answer' = [level |-> l, pgn |-> b]
    BY <1>3 DEF alloc_pages_
  <2>3. LowestFree(l) \in Levels /\ l <= LowestFree(l)
    BY <2>1, LowestFreeType
  <2>4. b \in Zone /\ IsFree(b, LowestFree(l))
    BY <2>2, <2>3 DEF BuddyInv, TypeOK, IsFree
  <2>5. Abstract!Available(b, l)
    BY <2>1, <2>3, <2>4, FreeIsAvailable
  <2> QED
    BY <2>1, <2>2, <2>4, <2>5, <1>1, SameGeometry DEF Abstract!Alloc
<1> QED
  BY <1>2, <1>3

LEMMA FreeImplements ==
  ASSUME BuddyInv, NEW p \in AllPages, free_pages(p)
  PROVE  (\E b \in held : Abstract!Free(b)) \/ Abstract!Ignore
<1>1. /\ held' = {b \in held : b.pgn # p} /\ answer' = NoAnswer /\ Released' = Released
  BY DEF free_pages, Released
<1>2. CASE \A b \in held : b.pgn # p
  <2>1. held' = held
    BY <1>1, <1>2
  <2> QED
    BY <2>1, <1>1, SameGeometry DEF Abstract!Ignore
<1>3. CASE \E b \in held : b.pgn = p
  <2>1. PICK b \in held : b.pgn = p
    BY <1>3
  <2>2. ASSUME NEW c \in held, c.pgn = p PROVE c = b
    <3>1. /\ b = [pgn |-> b.pgn, level |-> b.level] /\ c = [pgn |-> c.pgn, level |-> c.level]
          /\ b.level \in Levels /\ c.level \in Levels /\ p \in Zone
          /\ IsHeld(p, b.level) /\ IsHeld(p, c.level)
      BY <2>1, <2>2, BlockRecords DEF Blocks_
    <3>2. b.level = c.level
      BY <3>1 DEF BuddyInv, MarksTrue
    <3> QED
      BY <3>1, <3>2, <2>1, <2>2
  <2>3. held' = held \ {b}
    BY <2>1, <2>2, <1>1
  <2> QED
    BY <2>1, <2>3, <1>1, SameGeometry DEF Abstract!Free
<1> QED
  BY <1>2, <1>3

LEMMA BootImplements ==
  ASSUME BuddyInv, InitFreePage
  PROVE  \E p \in Zone : Abstract!Give(p)
<1> DEFINE p == start_pfn + booted
<1>1. /\ start_pfn \in Nat /\ page_num \in Nat /\ booted \in 0..page_num
      /\ booted < page_num
  BY ZoneType DEF BuddyInv, TypeOK, InitFreePage
<1>2. booted' = booted + 1 /\ answer' = NoAnswer /\ held' = held
  BY DEF InitFreePage
<1>3. p \in Zone /\ p \notin Released
  BY <1>1, ZoneFrames DEF Released
<1>4. Released' = Released \cup {p}
  <2>1. Released' = start_pfn .. (start_pfn + (booted + 1) - 1)
    BY <1>2 DEF Released
  <2>2. \A q : q \in start_pfn .. (start_pfn + (booted + 1) - 1) <=> q \in Released \cup {p}
    BY <1>1 DEF Released
  <2> QED
    BY <2>1, <2>2
<1> QED
  BY <1>2, <1>3, <1>4, SameGeometry DEF Abstract!Give

\* The buddy allocator keeps the promise of PageAllocator for any size of the
\* machine: aligned blocks that are nobody else's, and a null answer only when
\* no aligned run of that many frames is free.
THEOREM BuddyImplementsPageAllocator == Spec => ImplementsPageAllocator
<1>1. Init => Abstract!AInit
  <2> SUFFICES ASSUME Init PROVE Abstract!AInit
    OBVIOUS
  <2>1. booted = 0 /\ held = {} /\ answer = NoAnswer
    BY DEF Init
  <2>2. Released = {}
    BY <2>1, ZoneType DEF Released
  <2> QED
    BY <2>1, <2>2, SameGeometry DEF Abstract!AInit
<1>2. BuddyInv /\ [Next]_vars => [Abstract!ANext]_(Abstract!absVars)
  <2> SUFFICES ASSUME BuddyInv, [Next]_vars PROVE [Abstract!ANext]_(Abstract!absVars)
    OBVIOUS
  <2>1. CASE InitFreePage
    BY <2>1, BootImplements DEF Abstract!ANext
  <2>2. CASE \E n \in 0..MaxRequest : alloc_pages(n)
    <3>1. PICK n \in 0..MaxRequest : alloc_pages(n)
      BY <2>2
    <3>2. RequestLevel(n) \in 0..5
      BY ZoneAssumption, RequestLevelType
    <3>3. \E l \in 0..5 : Abstract!Alloc(l) \/ Abstract!Refuse(l)
      BY <3>1, <3>2, AllocImplements DEF alloc_pages
    <3> QED
      BY <3>3 DEF Abstract!ANext
  <2>3. CASE alloc_slab_page
    <3>1. Abstract!Alloc(0) \/ Abstract!Refuse(0)
      BY <2>3, AllocImplements DEF alloc_slab_page
    <3> QED
      BY <3>1 DEF Abstract!ANext
  <2>4. CASE \E p \in AllPages : free_pages(p)
    BY <2>4, FreeImplements DEF Abstract!ANext
  <2>5. CASE UNCHANGED vars
    BY <2>5 DEF vars, Abstract!absVars, Released
  <2> QED
    BY <2>1, <2>2, <2>3, <2>4, <2>5 DEF Next
<1> QED
  BY <1>1, <1>2, BuddyInvariant, PTL DEF Spec, ImplementsPageAllocator, Abstract!ASpec
=============================================================================
