------------------------------- MODULE Buddy --------------------------------
(***************************************************************************)
(* The buddy page allocator, kernel/mm/buddy.c: the free lists of the one  *)
(* zone buddy_mm, the two fields of struct page it works with, and the     *)
(* blocks its callers hold.                                                *)
(*                                                                         *)
(* A free list is a set of frames: the code adds at the tail and takes the *)
(* last entry, and here any entry may be taken.  The metadata of frames    *)
(* inside a block is never cleared by the code and is kept as it is left,  *)
(* stale levels and stale FREE marks included.                             *)
(*                                                                         *)
(* Each operation is one step: it runs with interrupts disabled when       *)
(* called through kmalloc and kfree.                                       *)
(***************************************************************************)
EXTENDS Blocks, FiniteSets

CONSTANTS
  PageNum,          \* boot_mm.page_num, the frames of the machine
  KernelPages,      \* frames boot reserved for the kernel, rounded up
  MaxRequest,       \* bound: the largest request, in pages
  MaxHeld           \* bound: blocks in the hands of callers at a time

VARIABLES
  bplevel,          \* struct page.bplevel, of every frame
  used_info,        \* struct page.used_info, of every frame
  freelist,         \* buddy_mm.free_area[l].freelist
  booted,           \* frames init_buddy has freed so far, its loop counter
  held,             \* blocks in the hands of callers: records [pgn, level]
  answer            \* the last call: level asked for and frame returned

vars == <<bplevel, used_info, freelist, booted, held, answer>>

BUDDY_FREE == "BUDDY_FREE"
BUDDY_SLAB == "BUDDY_SLAB"
BUDDY_ALLOCED == "BUDDY_ALLOCED"
BUDDY_RESERVED == "BUDDY_RESERVED"

UsedInfo == {BUDDY_FREE, BUDDY_SLAB, BUDDY_ALLOCED, BUDDY_RESERVED}

\* all_pages, the struct page of every frame of the machine
AllPages == 0 .. (PageNum - 1)

\* The zone starts at the first aligned frame above the kernel and ends at
\* the last whole block of the highest level.
MaxBlock == BlockPages(MAX_BUDDY_ORDER)
start_pfn == HeadAt(KernelPages + MaxBlock - 1, MAX_BUDDY_ORDER)
page_num == HeadAt(PageNum - start_pfn, MAX_BUDDY_ORDER)
Zone == start_pfn .. (start_pfn + page_num - 1)

ASSUME ZoneAssumption ==
  /\ PageNum \in Nat
  /\ KernelPages \in Nat
  /\ start_pfn <= PageNum
  /\ MaxRequest \in 0..32
  /\ MaxHeld \in Nat

nullptr == -1
NoAnswer == [level |-> nullptr, pgn |-> nullptr]

-----------------------------------------------------------------------------
(* __free_pages: climb while the buddy is a free block of the same level.  *)

pgn_is_in_zone(pgn) == pgn \in Zone

\* Mutant: the level of the buddy is not compared.
MergeableAnyLevel(p, l) ==
  used_info[get_buddy_pgn(HeadAt(p, l), l)] = BUDDY_FREE

\* The loop condition at level l, for the block of level l around frame p.
Mergeable(p, l) ==
  LET buddy_pgn == get_buddy_pgn(HeadAt(p, l), l)
  IN  bplevel[buddy_pgn] = l /\ used_info[buddy_pgn] = BUDDY_FREE

\* Mutant: one merge at most.
MergeLevelOnce(p) ==
  IF bplevel[p] < MAX_BUDDY_ORDER /\ Mergeable(p, bplevel[p])
  THEN bplevel[p] + 1 ELSE bplevel[p]

\* Mutant: the loop ends one level early.
MergeLevelTooLow(p) ==
  CHOOSE m \in bplevel[p] .. MAX_BUDDY_ORDER :
    /\ m >= MAX_BUDDY_ORDER - 1 \/ ~Mergeable(p, m)
    /\ \A l \in bplevel[p] .. (m - 1) : Mergeable(p, l)

\* The level at which the loop stops.  It only unlinks buddies, so the
\* metadata it tests is the metadata it found.
MergeLevel(p) ==
  CHOOSE m \in bplevel[p] .. MAX_BUDDY_ORDER :
    /\ m = MAX_BUDDY_ORDER \/ ~Mergeable(p, m)
    /\ \A l \in bplevel[p] .. (m - 1) : Mergeable(p, l)

free_pages_(page) ==
  IF ~pgn_is_in_zone(page) \/ used_info[page] = BUDDY_FREE
  THEN UNCHANGED <<bplevel, used_info, freelist>>
  ELSE LET m == MergeLevel(page)
           this_pgn == HeadAt(page, m)
           Unlinked(l) == IF bplevel[page] <= l /\ l < m
                          THEN {get_buddy_pgn(HeadAt(page, l), l)}
                          ELSE {}
           Linked(l) == IF l = m THEN {this_pgn} ELSE {}
       IN  /\ bplevel' = [bplevel EXCEPT ![this_pgn] = m]
           /\ used_info' = [used_info EXCEPT ![this_pgn] = BUDDY_FREE]
           /\ freelist' = [l \in Levels |->
                             (freelist[l] \ Unlinked(l)) \cup Linked(l)]

-----------------------------------------------------------------------------
(* __alloc_pages: the lowest level with a free block, split down to the    *)
(* level asked for; each split leaves the upper half free.                 *)

\* Mutant: only the level asked for is searched.
FreeLevelsExact(l) == {k \in Levels : l = k /\ freelist[k] # {}}

\* The level the search stops at; the search fails when the set is empty.
FreeLevels(l) == {k \in Levels : l <= k /\ freelist[k] # {}}

LowestFree(l) ==
  CHOOSE k \in FreeLevels(l) : \A j \in FreeLevels(l) : k <= j

\* Mutant: the last split does not put its upper half on a list.
SplitDropsHalf(free_pgn, k, l, type) ==
  /\ freelist' = [j \in Levels |->
                    CASE j = k -> freelist[j] \ {free_pgn}
                      [] l < j /\ j < k ->
                           freelist[j] \cup {get_buddy_pgn(free_pgn, j)}
                      [] OTHER -> freelist[j]]
  /\ bplevel' = [bplevel EXCEPT ![free_pgn] = l]
  /\ used_info' = [used_info EXCEPT ![free_pgn] = type]

\* Take block free_pgn off level k and split it down to level l.
SplitAndMark(free_pgn, k, l, type) ==
  LET Halves == {get_buddy_pgn(free_pgn, j) : j \in l .. (k - 1)}
      HalfLevel(p) == CHOOSE j \in l .. (k - 1) : p = get_buddy_pgn(free_pgn, j)
  IN  /\ freelist' = [j \in Levels |->
                        CASE j = k -> freelist[j] \ {free_pgn}
                          [] l <= j /\ j < k ->
                               freelist[j] \cup {get_buddy_pgn(free_pgn, j)}
                          [] OTHER -> freelist[j]]
      /\ bplevel' = [p \in AllPages |->
                       CASE p = free_pgn -> l
                         [] p \in Halves -> HalfLevel(p)
                         [] OTHER -> bplevel[p]]
      /\ used_info' = [p \in AllPages |->
                         CASE p = free_pgn -> type
                           [] p \in Halves -> BUDDY_FREE
                           [] OTHER -> used_info[p]]

alloc_pages_(l, type) ==
  IF l > MAX_BUDDY_ORDER \/ FreeLevels(l) = {}
  THEN /\ answer' = [level |-> l, pgn |-> nullptr]
       /\ UNCHANGED <<bplevel, used_info, freelist, held>>
  ELSE \E free_pgn \in freelist[LowestFree(l)] :
         /\ SplitAndMark(free_pgn, LowestFree(l), l, type)
         /\ held' = held \cup {[pgn |-> free_pgn, level |-> l]}
         /\ answer' = [level |-> l, pgn |-> free_pgn]

\* alloc_pages: the level of a request for page_cnt pages, doubling from one
\* page until it is covered.
RequestLevel(page_cnt) ==
  CHOOSE l \in 0..5 : /\ BlockPages(l) >= page_cnt
                      /\ \A j \in 0 .. (l - 1) : BlockPages(j) < page_cnt

-----------------------------------------------------------------------------
(* The operations, and init_buddy's loop over the frames of the zone.      *)

Init ==
  /\ bplevel = [p \in AllPages |-> 0]
  /\ used_info = [p \in AllPages |-> BUDDY_RESERVED]
  /\ freelist = [l \in Levels |-> {}]
  /\ booted = 0
  /\ held = {}
  /\ answer = NoAnswer

InitFreePage ==
  /\ booted < page_num
  /\ free_pages_(start_pfn + booted)
  /\ booted' = booted + 1
  /\ answer' = NoAnswer
  /\ UNCHANGED held

alloc_pages(page_cnt) ==
  /\ booted = page_num
  /\ Cardinality(held) < MaxHeld
  /\ alloc_pages_(RequestLevel(page_cnt), BUDDY_ALLOCED)
  /\ UNCHANGED booted

\* kmem_cache_alloc asks for one page of type BUDDY_SLAB.
alloc_slab_page ==
  /\ booted = page_num
  /\ Cardinality(held) < MaxHeld
  /\ alloc_pages_(0, BUDDY_SLAB)
  /\ UNCHANGED booted

\* Callers free what they hold; a frame outside the zone, and a frame whose
\* mark is BUDDY_FREE (a repeated free), are ignored.
free_pages(p) ==
  /\ booted = page_num
  /\ \/ p \in {b.pgn : b \in held}
     \/ ~pgn_is_in_zone(p)
     \/ used_info[p] = BUDDY_FREE
  /\ free_pages_(p)
  /\ held' = {b \in held : b.pgn # p}
  /\ answer' = NoAnswer
  /\ UNCHANGED booted

Next ==
  \/ InitFreePage
  \/ \E n \in 0..MaxRequest : alloc_pages(n)
  \/ alloc_slab_page
  \/ \E p \in AllPages : free_pages(p)

Spec == Init /\ [][Next]_vars

-----------------------------------------------------------------------------
(* Properties.                                                             *)

\* Every frame's metadata and every list entry has its type.
TypeOK ==
  /\ bplevel \in [AllPages -> Levels]
  /\ used_info \in [AllPages -> UsedInfo]
  /\ freelist \in [Levels -> SUBSET Zone]
  /\ booted \in 0..page_num
  /\ held \subseteq [pgn : Zone, level : Levels]

FreeBlocks == {b \in [pgn : Zone, level : Levels] : b.pgn \in freelist[b.level]}
Blocks_ == FreeBlocks \cup held

Released == start_pfn .. (start_pfn + booted - 1)

\* The levels and marks of __free_pages and __alloc_pages never put one frame
\* in two blocks: no frame is handed out twice, and none that a caller holds
\* is on a free list, whatever stale metadata the frames inside a block keep.
NoOverlap ==
  \A b, c \in Blocks_ :
    b # c => \/ b.pgn + BlockPages(b.level) <= c.pgn
             \/ c.pgn + BlockPages(c.level) <= b.pgn

\* No frame is lost by a split or a merge: a frame that init_buddy released
\* is in a free block or in a block some caller holds.
NoLeak ==
  \A p \in Released : \E b \in Blocks_ : p \in Block(b.pgn, b.level)

\* The marks in struct page tell the truth about the first frame of every
\* block, the only metadata the merge loop relies on.
MarksAgree ==
  /\ \A b \in FreeBlocks : /\ bplevel[b.pgn] = b.level
                           /\ used_info[b.pgn] = BUDDY_FREE
  /\ \A b \in held : /\ bplevel[b.pgn] = b.level
                     /\ used_info[b.pgn] \in {BUDDY_SLAB, BUDDY_ALLOCED}

\* Frees merge as far as they can: two buddies are never both free.
Coalesced ==
  \A b \in FreeBlocks :
    b.level < MAX_BUDDY_ORDER =>
      get_buddy_pgn(b.pgn, b.level) \notin freelist[b.level]

\* When the callers have given everything back, the free lists are as they
\* were after boot: the whole zone in blocks of the highest level.
FullyRestored ==
  booted = page_num /\ held = {} =>
    freelist = [l \in Levels |->
                  IF l = MAX_BUDDY_ORDER
                  THEN {p \in Zone : Aligned(p, MAX_BUDDY_ORDER)}
                  ELSE {}]

\* The allocator keeps the promise of PageAllocator: blocks are aligned and
\* nobody else's, and __alloc_pages returns null only when no aligned run of
\* that many frames is free.
Abstract == INSTANCE PageAllocator
              WITH Frames <- Zone, Requests <- 0..5,
                   given <- Released, live <- held
ImplementsPageAllocator == Abstract!ASpec
=============================================================================
