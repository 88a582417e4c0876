--------------------------- MODULE KmallocProofs ----------------------------
(***************************************************************************)
(* Proofs about kmalloc and kfree, for any machine, any table of caches    *)
(* whose pages hold an object, and any requests up to 32 pages.            *)
(*                                                                         *)
(* The two allocators were proved correct alone, in BuddyProofs and        *)
(* SlabProofs; here their theorems are used through INSTANCE.  What is new *)
(* is how they fit together: the mark and the cache pointer of a page, the *)
(* blocks the buddy system has lent out, the slots the caches have handed  *)
(* out and the addresses callers have all tell the same story.             *)
(***************************************************************************)
EXTENDS Kmalloc, WellFoundedInduction, TLAPS

BP == INSTANCE BuddyProofs
SP == INSTANCE SlabProofs WITH Pages <- B!Zone, nullptr <- B!nullptr

-----------------------------------------------------------------------------
(* The operators of Buddy and Slab, seen through Kmalloc and through the   *)
(* modules of their proofs, are the same.                                  *)

LEMMA SameZone ==
  /\ B!Levels = BP!Levels /\ B!Zone = BP!Zone /\ B!AllPages = BP!AllPages
  /\ B!page_num = BP!page_num /\ B!start_pfn = BP!start_pfn
  /\ B!nullptr = BP!nullptr /\ B!BUDDY_FREE = BP!BUDDY_FREE
  /\ B!BUDDY_SLAB = BP!BUDDY_SLAB /\ B!BUDDY_ALLOCED = BP!BUDDY_ALLOCED
  /\ Levels = BP!Levels
BY DEF B!Zone, BP!Zone, B!AllPages, BP!AllPages, B!start_pfn, BP!start_pfn,
     B!page_num, BP!page_num, B!MaxBlock, BP!MaxBlock, B!Levels,
     BP!Levels, B!BlockPages, BP!BlockPages, B!HeadAt, BP!HeadAt,
     B!get_buddy_pgn, BP!get_buddy_pgn, B!nullptr, BP!nullptr, B!NoAnswer,
     BP!NoAnswer, B!BUDDY_FREE, BP!BUDDY_FREE, B!BUDDY_SLAB,
     BP!BUDDY_SLAB, B!BUDDY_ALLOCED, BP!BUDDY_ALLOCED, B!BUDDY_RESERVED,
     BP!BUDDY_RESERVED,
     Levels

LEMMA SameInit == B!Init <=> BP!Init
BY DEF B!Zone, BP!Zone, B!AllPages, BP!AllPages, B!start_pfn, BP!start_pfn,
     B!page_num, BP!page_num, B!MaxBlock, BP!MaxBlock, B!Levels,
     BP!Levels, B!BlockPages, BP!BlockPages, B!HeadAt, BP!HeadAt,
     B!get_buddy_pgn, BP!get_buddy_pgn, B!nullptr, BP!nullptr, B!NoAnswer,
     BP!NoAnswer, B!BUDDY_FREE, BP!BUDDY_FREE, B!BUDDY_SLAB,
     BP!BUDDY_SLAB, B!BUDDY_ALLOCED, BP!BUDDY_ALLOCED, B!BUDDY_RESERVED,
     BP!BUDDY_RESERVED, B!Init, BP!Init

LEMMA SameBoot == B!InitFreePage <=> BP!InitFreePage
BY DEF B!Zone, BP!Zone, B!AllPages, BP!AllPages, B!start_pfn, BP!start_pfn,
     B!page_num, BP!page_num, B!MaxBlock, BP!MaxBlock, B!Levels,
     BP!Levels, B!BlockPages, BP!BlockPages, B!HeadAt, BP!HeadAt,
     B!get_buddy_pgn, BP!get_buddy_pgn, B!nullptr, BP!nullptr, B!NoAnswer,
     BP!NoAnswer, B!BUDDY_FREE, BP!BUDDY_FREE, B!BUDDY_SLAB,
     BP!BUDDY_SLAB, B!BUDDY_ALLOCED, BP!BUDDY_ALLOCED, B!BUDDY_RESERVED,
     BP!BUDDY_RESERVED, B!InitFreePage, BP!InitFreePage, B!free_pages_,
     BP!free_pages_, B!MergeLevel, BP!MergeLevel, B!Mergeable,
     BP!Mergeable, B!pgn_is_in_zone, BP!pgn_is_in_zone

LEMMA SameFree == \A p : B!free_pages(p) <=> BP!free_pages(p)
BY DEF B!Zone, BP!Zone, B!AllPages, BP!AllPages, B!start_pfn, BP!start_pfn,
     B!page_num, BP!page_num, B!MaxBlock, BP!MaxBlock, B!Levels,
     BP!Levels, B!BlockPages, BP!BlockPages, B!HeadAt, BP!HeadAt,
     B!get_buddy_pgn, BP!get_buddy_pgn, B!nullptr, BP!nullptr, B!NoAnswer,
     BP!NoAnswer, B!BUDDY_FREE, BP!BUDDY_FREE, B!BUDDY_SLAB,
     BP!BUDDY_SLAB, B!BUDDY_ALLOCED, BP!BUDDY_ALLOCED, B!BUDDY_RESERVED,
     BP!BUDDY_RESERVED, B!free_pages, BP!free_pages, B!free_pages_,
     BP!free_pages_, B!MergeLevel, BP!MergeLevel, B!Mergeable,
     BP!Mergeable, B!pgn_is_in_zone, BP!pgn_is_in_zone

LEMMA SameSearch ==
  \A l : B!FreeLevels(l) = BP!FreeLevels(l) /\ B!LowestFree(l) = BP!LowestFree(l)
<1>1. \A l : B!FreeLevels(l) = BP!FreeLevels(l)
  BY SameZone DEF B!FreeLevels, BP!FreeLevels
<1>2. \A l : B!LowestFree(l) = BP!LowestFree(l)
  BY <1>1, Zenon DEF B!LowestFree, BP!LowestFree
<1> QED
  BY <1>1, <1>2

LEMMA SameSplit ==
  \A b, k, l, type : B!SplitAndMark(b, k, l, type) <=> BP!SplitAndMark(b, k, l, type)
<1>1. \A p, l : B!get_buddy_pgn(p, l) = BP!get_buddy_pgn(p, l)
  BY DEF B!get_buddy_pgn, BP!get_buddy_pgn, B!BlockPages, BP!BlockPages
<1> QED
  BY <1>1, SameZone, SMT DEF B!SplitAndMark, BP!SplitAndMark

LEMMA SameAlloc == \A l, type : B!alloc_pages_(l, type) <=> BP!alloc_pages_(l, type)
<1> SUFFICES ASSUME NEW l, NEW type
             PROVE  B!alloc_pages_(l, type) <=> BP!alloc_pages_(l, type)
  OBVIOUS
<1>1. /\ B!FreeLevels(l) = BP!FreeLevels(l) /\ B!LowestFree(l) = BP!LowestFree(l)
      /\ B!nullptr = BP!nullptr
  BY SameSearch, SameZone
<1>2. \A b : B!SplitAndMark(b, B!LowestFree(l), l, type)
               <=> BP!SplitAndMark(b, BP!LowestFree(l), l, type)
  BY <1>1, SameSplit
<1> QED
  BY <1>1, <1>2 DEF B!alloc_pages_, BP!alloc_pages_

LEMMA SameRequest == \A n : B!RequestLevel(n) = BP!RequestLevel(n)
BY DEF B!RequestLevel, BP!RequestLevel, B!BlockPages, BP!BlockPages

LEMMA SameSizes ==
  \A c : /\ S!capacity(c) = SP!capacity(c) /\ S!object_size(c) = SP!object_size(c)
         /\ \A k : S!NodeAt(c, k) = SP!NodeAt(c, k) /\ S!ObjectAt(c, k) = SP!ObjectAt(c, k)
BY DEF S!capacity, SP!capacity, S!object_size, SP!object_size, S!ObjectAt,
     SP!ObjectAt, S!NodeAt, SP!NodeAt, S!size, SP!size, S!upper_align,
     SP!upper_align, S!SLAB_ALIGN, SP!SLAB_ALIGN, S!SizeofSlabHead,
     SP!SizeofSlabHead, S!SizeofListHead, SP!SizeofListHead

LEMMA SameSlabInit == S!Init <=> SP!Init
BY DEF S!Init, SP!Init, S!Caches, SP!Caches

LEMMA SameServing ==
  \A c : /\ S!NeedsPage(c) <=> SP!NeedsPage(c)
         /\ S!ServingPages(c) = SP!ServingPages(c)
<1>1. \A c : S!CurrentUnusable(c) <=> SP!CurrentUnusable(c)
  BY SameSizes DEF S!CurrentUnusable, SP!CurrentUnusable, S!slab_is_full, SP!slab_is_full
<1> QED
  BY <1>1 DEF S!NeedsPage, SP!NeedsPage, S!ServingPages, SP!ServingPages

LEMMA SameAllocFrom ==
  \A c, p, s : S!AllocFrom(c, p, s) <=> SP!AllocFrom(c, p, s)
<1>1. \A c : S!capacity(c) = SP!capacity(c)
  BY SameSizes
<1>2. \A c, s : S!alloc_new_object_in_page(c, s) = SP!alloc_new_object_in_page(c, s)
  BY <1>1 DEF S!alloc_new_object_in_page, SP!alloc_new_object_in_page
<1>3. \A c, s : S!alloc_object(c, s) = SP!alloc_object(c, s)
  BY <1>2 DEF S!alloc_object, SP!alloc_object
<1> QED
  BY <1>1, <1>3 DEF S!AllocFrom, SP!AllocFrom, S!SetSlab, SP!SetSlab, S!MoveTo,
     SP!MoveTo, S!Relink, SP!Relink, S!Unlink, SP!Unlink, S!nodeVars,
     SP!nodeVars

LEMMA SameSlab ==
  /\ \A c : S!kmem_cache_alloc(c) <=> SP!kmem_cache_alloc(c)
  /\ \A c, p : S!kmem_cache_grow(c, p) <=> SP!kmem_cache_grow(c, p)
  /\ \A p, k : S!kmem_cache_free(p, k) <=> SP!kmem_cache_free(p, k)
<1>1. \A c : S!kmem_cache_alloc(c) <=> SP!kmem_cache_alloc(c)
  BY SameServing, SameAllocFrom DEF S!kmem_cache_alloc, SP!kmem_cache_alloc, S!SlabOf, SP!SlabOf
<1>2. \A c, p : S!kmem_cache_grow(c, p) <=> SP!kmem_cache_grow(c, p)
  BY SameServing, SameAllocFrom DEF S!kmem_cache_grow, SP!kmem_cache_grow, S!init_object_in_page,
     SP!init_object_in_page
<1>3. \A p, k : S!kmem_cache_free(p, k) <=> SP!kmem_cache_free(p, k)
  BY SameSizes
  DEF S!kmem_cache_free, SP!kmem_cache_free, S!SetSlab, SP!SetSlab,
     S!MoveTo, SP!MoveTo, S!Relink, SP!Relink, S!Unlink, SP!Unlink,
     S!nodeVars, SP!nodeVars, S!slab_is_full, SP!slab_is_full
<1> QED
  BY <1>1, <1>2, <1>3

-----------------------------------------------------------------------------
(* What the two allocators promise, in the words of Kmalloc.               *)

LEMMA BuddyConstants ==
  /\ MAX_BUDDY_ORDER \in 0..4
  /\ PageNum \in Nat /\ KernelPages \in Nat /\ MaxHeld \in Nat
  /\ BP!start_pfn <= PageNum /\ MaxRequest \in 0..32
BY MaxOrderAssumption, MemoryAssumption, SameZone

LEMMA ZoneFacts ==
  /\ \A p \in B!Zone : p \in Nat /\ p \in B!AllPages
  /\ B!nullptr \notin B!Zone
BY BP!ZoneFrames, BuddyConstants, SameZone

LEMMA SlabConstants ==
  /\ kmem_cache_size \subseteq Nat \ {0} /\ PAGE_SIZE \in Nat
  /\ B!nullptr \notin B!Zone \cup kmem_cache_size
  /\ \A c \in kmem_cache_size :
       /\ SP!capacity(c) \in Nat \ {0}
       /\ SP!NodeAt(c, SP!capacity(c)) + SP!SizeofListHead <= PAGE_SIZE
  /\ SP!Caches = kmem_cache_size
<1>1. B!nullptr \notin kmem_cache_size
  BY CacheAssumption DEF B!nullptr
<1>2. S!SizeofListHead = SP!SizeofListHead
  BY DEF S!SizeofListHead, SP!SizeofListHead
<1> QED
  BY <1>1, <1>2, ZoneFacts, SameSizes, CacheAssumption DEF SP!Caches

\* BUDDY_SLAB and BUDDY_ALLOCED are different marks.
LEMMA MarksDiffer == B!BUDDY_SLAB # B!BUDDY_ALLOCED
BY DEF B!BUDDY_SLAB, B!BUDDY_ALLOCED

\* The number of frames of a block, as kmalloc counts them.
LEMMA FramesType ==
  /\ 0 \in B!Levels
  /\ \A l \in B!Levels : l \in 0..4 /\ BP!BlockPages(l) \in Nat /\ BP!BlockPages(l) > 0
  /\ BP!BlockPages(0) = 1
<1>1. B!Levels \subseteq 0..4 /\ 0 \in B!Levels
  BY MaxOrderAssumption, SameZone DEF Levels
<1>2. \A l \in 0..5 : BP!BlockPages(l) \in Nat /\ BP!BlockPages(l) > 0
  BY BP!BlockPagesType, BuddyConstants
<1>3. BP!BlockPages(0) = 1
  BY BP!BlockPagesTable, BuddyConstants
<1> QED
  BY <1>1, <1>2, <1>3

\* Blocks lent out: their frames, and that two of them are apart.
LEMMA LentOut ==
  ASSUME BP!BuddyInv, NEW b \in held, NEW c \in held
  PROVE  /\ b.pgn \in B!Zone /\ b.level \in B!Levels
         /\ b = [pgn |-> b.pgn, level |-> b.level]
         /\ b.pgn = c.pgn => b = c
         /\ b # c => \/ b.pgn + BP!BlockPages(b.level) <= c.pgn
                     \/ c.pgn + BP!BlockPages(c.level) <= b.pgn
         /\ \A l \in B!Levels : b.pgn \notin freelist[l]
         /\ used_info[b.pgn] \in {B!BUDDY_SLAB, B!BUDDY_ALLOCED}
<1>1. /\ b \in [pgn : BP!Zone, level : BP!Levels]
      /\ b # c => b.pgn # c.pgn /\ BP!Apart(b.pgn, b.level, c.pgn, c.level)
      /\ \A l \in BP!Levels : b.pgn \notin freelist[l]
      /\ used_info[b.pgn] \in {BP!BUDDY_SLAB, BP!BUDDY_ALLOCED}
  BY BP!HeldApart, BuddyConstants
<1> QED
  BY <1>1, SameZone DEF BP!Apart

LEMMA BuddyBoots ==
  ASSUME BP!BuddyInv, B!InitFreePage
  PROVE  BP!BuddyInv' /\ held' = held /\ \A h \in held : used_info'[h.pgn] = used_info[h.pgn]
<1>1. BP!InitFreePage
  BY SameBoot
<1>2. BP!BuddyInv'
  BY <1>1, BP!InitFreePageKeeps, BuddyConstants
<1>3. held' = held /\ \A h \in held' : used_info'[h.pgn] = used_info[h.pgn]
  BY <1>1, BP!InitFreeMarks, BuddyConstants
<1> QED
  BY <1>2, <1>3

LEMMA BuddyFrees ==
  ASSUME BP!BuddyInv, NEW p \in B!Zone, B!free_pages(p)
  PROVE  /\ BP!BuddyInv' /\ held' = {b \in held : b.pgn # p}
         /\ \A h \in held' : used_info'[h.pgn] = used_info[h.pgn]
<1>1. BP!free_pages(p) /\ p \in BP!AllPages
  BY SameFree, ZoneFacts, SameZone
<1>2. BP!BuddyInv'
  BY <1>1, BP!FreePagesKeeps, BuddyConstants
<1>3. /\ held' = {b \in held : b.pgn # p}
      /\ \A h \in held' : used_info'[h.pgn] = used_info[h.pgn]
  BY <1>1, BP!FreePagesMarks, BuddyConstants
<1> QED
  BY <1>2, <1>3

LEMMA BuddyGives ==
  ASSUME BP!BuddyInv, NEW l \in 0..5, NEW type \in {B!BUDDY_SLAB, B!BUDDY_ALLOCED},
         B!alloc_pages_(l, type), booted' = booted
  PROVE  /\ BP!BuddyInv'
         /\ \/ answer'.pgn = B!nullptr /\ UNCHANGED <<used_info, held>>
            \/ \E b \in B!Zone :
                 /\ l \in B!Levels /\ answer'.pgn = b
                 /\ held' = held \cup {[pgn |-> b, level |-> l]}
                 /\ used_info'[b] = type
                 /\ \A h \in held : h.pgn # b /\ used_info'[h.pgn] = used_info[h.pgn]
<1>1. BP!alloc_pages_(l, type) /\ type \in {BP!BUDDY_SLAB, BP!BUDDY_ALLOCED}
  BY SameAlloc, SameZone
<1>2. BP!BuddyInv'
  BY <1>1, BP!AllocKeeps, BuddyConstants
<1>3. \/ answer'.pgn = BP!nullptr /\ UNCHANGED <<bplevel, used_info, freelist, held>>
      \/ \E b \in BP!Zone :
           /\ l \in BP!Levels /\ answer'.pgn = b
           /\ held' = held \cup {[pgn |-> b, level |-> l]}
           /\ used_info'[b] = type
           /\ \A h \in held : h.pgn # b /\ used_info'[h.pgn] = used_info[h.pgn]
  BY <1>1, BP!AllocGives, BuddyConstants
<1> QED
  BY <1>2, <1>3, SameZone

\* A request of kmalloc in pages: covered, and within the bound.
LEMMA RequestPages ==
  ASSUME NEW n \in RequestSizes, n > 0
  PROVE  LET q == (n + PAGE_SIZE - 1) \div PAGE_SIZE
         IN  /\ n \in Nat /\ q \in 0..MaxRequest /\ B!RequestLevel(q) \in 0..5
             /\ n <= BP!BlockPages(B!RequestLevel(q)) * PAGE_SIZE
<1> DEFINE P == PAGE_SIZE
           q == (n + P - 1) \div P
<1>1. /\ P \in Nat \ {0} /\ MaxRequest \in 0..32 /\ n \in Nat /\ n <= MaxRequest * P
  BY RequestAssumption, CacheAssumption, MemoryAssumption
<1> HIDE DEF P
<1>2. q \in Nat /\ q * P <= n + P - 1 /\ n + P - 1 < q * P + P
  BY <1>1
<1> HIDE DEF q
<1>3. q <= MaxRequest
  <2> SUFFICES ASSUME MaxRequest + 1 <= q PROVE FALSE
    BY <1>1, <1>2
  <2>1. (MaxRequest + 1) * P <= q * P
    BY <1>1, <1>2
  <2>2. (MaxRequest + 1) * P = MaxRequest * P + P
    BY <1>1
  <2>3. MaxRequest * P \in Int /\ q * P \in Int
    BY <1>1, <1>2
  <2> QED
    BY <2>1, <2>2, <2>3, <1>1, <1>2
<1>4. q \in 0..32
  BY <1>1, <1>2, <1>3
<1>5. BP!RequestLevel(q) \in 0..5 /\ q <= BP!BlockPages(BP!RequestLevel(q))
  BY <1>4, BP!RequestLevelType, BuddyConstants
<1>6. PICK m \in Nat : m = BP!BlockPages(BP!RequestLevel(q)) /\ q <= m
  BY <1>5, BP!BlockPagesType, BuddyConstants
<1>7. q * P <= m * P
  BY <1>1, <1>2, <1>6
<1>8. n <= m * P
  <2>1. q * P \in Int /\ m * P \in Int
    BY <1>1, <1>2
  <2> QED
    BY <2>1, <1>1, <1>2, <1>7
<1> QED
  BY <1>1, <1>2, <1>3, <1>5, <1>6, <1>8, SameRequest DEF q, P

\* The slab allocator: the slots handed out and their bytes.
LEMMA Slots ==
  ASSUME SP!SlabInv, NEW p \in B!Zone
  PROVE  /\ cachep \in [B!Zone -> kmem_cache_size \cup {B!nullptr}]
         /\ alloc_list \in [B!Zone -> SUBSET Nat]
         /\ cachep[p] = B!nullptr => alloc_list[p] = {} /\ alloc_num[p] = 0
         /\ cachep[p] # B!nullptr => /\ cachep[p] \in kmem_cache_size
                                     /\ alloc_list[p] \subseteq 1..S!capacity(cachep[p])
         /\ alloc_list[p] = {} => alloc_num[p] = 0
<1>1. /\ cachep[p] = B!nullptr => alloc_list[p] = {} /\ alloc_num[p] = 0
      /\ cachep[p] # B!nullptr => /\ cachep[p] \in SP!Caches
                                  /\ alloc_list[p] \subseteq 1..SP!capacity(cachep[p])
      /\ alloc_list[p] = {} => alloc_num[p] = 0
  BY SP!SlotsHandedOut, SlabConstants
<1>2. /\ cachep \in [B!Zone -> SP!Caches \cup {B!nullptr}]
      /\ alloc_list \in [B!Zone -> SUBSET Nat]
  BY DEF SP!SlabInv, SP!TypeOK
<1> QED
  BY <1>1, <1>2, SlabConstants, SameSizes

LEMMA SlotBytes ==
  ASSUME NEW c \in kmem_cache_size, NEW j \in 1..S!capacity(c), NEW k \in 1..S!capacity(c)
  PROVE  /\ S!ObjectAt(c, j) \in Nat /\ S!object_size(c) \in Nat \ {0}
         /\ S!ObjectAt(c, j) + S!object_size(c) <= PAGE_SIZE
         /\ j < k => S!ObjectAt(c, j) + S!object_size(c) <= S!ObjectAt(c, k)
<1>1. c \in SP!Caches /\ j \in 1..SP!capacity(c) /\ k \in 1..SP!capacity(c)
  BY SlabConstants, SameSizes
<1>2. /\ SP!ObjectAt(c, j) \in Nat /\ SP!object_size(c) \in Nat \ {0}
      /\ SP!ObjectAt(c, j) + SP!object_size(c) <= PAGE_SIZE
      /\ j < k => SP!ObjectAt(c, j) + SP!object_size(c) <= SP!ObjectAt(c, k)
  BY <1>1, SP!ObjectBytes, SlabConstants
<1> QED
  BY <1>2, SameSizes

\* Different slots have different addresses.
LEMMA SlotsDiffer ==
  ASSUME NEW c \in kmem_cache_size, NEW j \in 1..S!capacity(c), NEW k \in 1..S!capacity(c),
         S!ObjectAt(c, j) = S!ObjectAt(c, k)
  PROVE  j = k
<1>1. /\ S!ObjectAt(c, j) \in Nat /\ S!ObjectAt(c, k) \in Nat
      /\ S!object_size(c) \in Nat \ {0}
      /\ j < k => S!ObjectAt(c, j) + S!object_size(c) <= S!ObjectAt(c, k)
      /\ k < j => S!ObjectAt(c, k) + S!object_size(c) <= S!ObjectAt(c, j)
  BY SlotBytes
<1>2. j \in Int /\ k \in Int
  OBVIOUS
<1> QED
  BY <1>1, <1>2

-----------------------------------------------------------------------------
(* The inductive invariant.                                                *)

SlabObject(p, k) ==
  [page |-> p, start |-> S!ObjectAt(cachep[p], k), bytes |-> S!object_size(cachep[p])]

\* What callers have is a slot some cache handed out, or the front of a block
\* the buddy system lent out for a large request.
IsSlabObject(o) == \E p \in B!Zone : \E k \in alloc_list[p] : o = SlabObject(p, k)
IsBlockObject(o) ==
  \E b \in held : /\ used_info[b.pgn] = B!BUDDY_ALLOCED
                  /\ \E n \in Nat \ {0} : /\ n <= BP!BlockPages(b.level) * PAGE_SIZE
                                          /\ o = [page |-> b.pgn, start |-> 0, bytes |-> n]

\* A page of a cache is one frame lent out with the mark the slab asks for.
CachesHold ==
  \A p \in B!Zone :
    cachep[p] # B!nullptr => /\ [pgn |-> p, level |-> 0] \in held
                             /\ used_info[p] = B!BUDDY_SLAB

\* A block lent out with that mark is a page of a cache.
MarksMeanCaches ==
  \A b \in held : used_info[b.pgn] = B!BUDDY_SLAB => cachep[b.pgn] # B!nullptr

ObjectsKnown == \A o \in objects : IsSlabObject(o) \/ IsBlockObject(o)
SlotsOwned == \A p \in B!Zone : \A k \in alloc_list[p] : SlabObject(p, k) \in objects
BlocksOwned ==
  \A b \in held : used_info[b.pgn] = B!BUDDY_ALLOCED =>
    \E o \in objects : o.page = b.pgn
BlocksOwnedOnce ==
  \A o, q \in objects : IsBlockObject(o) /\ IsBlockObject(q) /\ o.page = q.page => o = q

KmallocInv ==
  /\ BP!BuddyInv /\ SP!SlabInv
  /\ CachesHold /\ MarksMeanCaches
  /\ ObjectsKnown /\ SlotsOwned /\ BlocksOwned /\ BlocksOwnedOnce

LEMMA KmallocInit == Init => KmallocInv
<1> SUFFICES ASSUME Init PROVE KmallocInv
  OBVIOUS
<1>1. BP!BuddyInv
  BY SameInit, BP!BuddyInit, BuddyConstants DEF Init
<1>2. SP!SlabInv
  BY SameSlabInit, SP!InitInv, SlabConstants DEF Init
<1>3. objects = {} /\ held = {}
  BY DEF Init, B!Init
<1>4. \A p \in B!Zone : cachep[p] = B!nullptr /\ alloc_list[p] = {}
  BY DEF Init, S!Init
<1> QED
  BY <1>1, <1>2, <1>3, <1>4
  DEF KmallocInv, CachesHold, MarksMeanCaches, ObjectsKnown, SlotsOwned, BlocksOwned,
      BlocksOwnedOnce

\* Nothing that callers see changes: refusals, and init_buddy's loop.
LEMMA KmallocQuiet ==
  ASSUME KmallocInv, BP!BuddyInv', SP!SlabInv',
         UNCHANGED <<held, cachep, alloc_list, objects>>,
         \A h \in held : used_info'[h.pgn] = used_info[h.pgn]
  PROVE  KmallocInv'
<1>1. \A o : IsSlabObject(o)' <=> IsSlabObject(o)
  BY DEF IsSlabObject, SlabObject
<1>2. \A o : IsBlockObject(o)' <=> IsBlockObject(o)
  BY DEF IsBlockObject
<1>3. CachesHold'
  BY DEF KmallocInv, CachesHold
<1>4. MarksMeanCaches'
  BY DEF KmallocInv, MarksMeanCaches
<1>5. ObjectsKnown' /\ BlocksOwnedOnce'
  BY <1>1, <1>2 DEF KmallocInv, ObjectsKnown, BlocksOwnedOnce
<1>6. SlotsOwned'
  BY DEF KmallocInv, SlotsOwned, SlabObject
<1>7. BlocksOwned'
  BY DEF KmallocInv, BlocksOwned
<1> QED
  BY <1>3, <1>4, <1>5, <1>6, <1>7 DEF KmallocInv

-----------------------------------------------------------------------------
(* The slab path of kmalloc.                                               *)

\* The new object is the slot that was added to an allocated list.
LEMMA NewObject ==
  ASSUME NEW c, NEW p \in B!Zone, NEW k \in 1..S!capacity(c),
         alloc_list \in [B!Zone -> SUBSET Nat], k \notin alloc_list[p],
         alloc_list' = [alloc_list EXCEPT ![p] = @ \cup {k}]
  PROVE  NewObjects(c) =
           {[page |-> p, start |-> S!ObjectAt(c, k), bytes |-> S!object_size(c)]}
<1> DEFINE Z == B!Zone \X (1..S!capacity(c))
           R == {r \in Z : r[2] \in alloc_list'[r[1]] \ alloc_list[r[1]]}
<1>1. ASSUME NEW r \in R PROVE r = <<p, k>>
  <2>1. r \in Z /\ r = <<r[1], r[2]>> /\ r[1] \in B!Zone
    OBVIOUS
  <2>2. r[1] = p /\ r[2] = k
    BY <2>1
  <2> QED
    BY <2>1, <2>2
<1>2. <<p, k>> \in R
  <2>1. <<p, k>> \in Z
    OBVIOUS
  <2>2. k \in alloc_list'[p] \ alloc_list[p]
    OBVIOUS
  <2> QED
    BY <2>1, <2>2
<1>3. R = {<<p, k>>}
  BY <1>1, <1>2
<1>4. NewObjects(c) = {[page |-> q[1], start |-> S!ObjectAt(c, q[2]),
                        bytes |-> S!object_size(c)] : q \in R}
  BY DEF NewObjects
<1> HIDE DEF R
<1> QED
  BY <1>3, <1>4

\* A slot of page p of cache c, which may be new to the cache, goes to a caller.
LEMMA KmallocTakes ==
  ASSUME KmallocInv, BP!BuddyInv', SP!SlabInv',
         NEW c \in kmem_cache_size, NEW p \in B!Zone, NEW k \in 1..S!capacity(c),
         cachep[p] \in {c, B!nullptr}, cachep' = [cachep EXCEPT ![p] = c],
         k \notin alloc_list[p], alloc_list' = [alloc_list EXCEPT ![p] = @ \cup {k}],
         held' = held \cup {[pgn |-> p, level |-> 0]},
         used_info'[p] = B!BUDDY_SLAB,
         \A h \in held : used_info'[h.pgn] = used_info[h.pgn],
         objects' = objects \cup NewObjects(c)
  PROVE  KmallocInv'
<1>1. /\ cachep \in [B!Zone -> kmem_cache_size \cup {B!nullptr}]
      /\ alloc_list \in [B!Zone -> SUBSET Nat]
      /\ cachep[p] = B!nullptr => alloc_list[p] = {}
      /\ B!nullptr # c
  BY Slots, SlabConstants DEF KmallocInv
<1>2. \A q \in B!Zone : /\ cachep'[q] = IF q = p THEN c ELSE cachep[q]
                        /\ alloc_list'[q] = IF q = p THEN alloc_list[p] \cup {k}
                                                     ELSE alloc_list[q]
  BY <1>1
<1>3. PICK new : /\ new = [page |-> p, start |-> S!ObjectAt(c, k),
                           bytes |-> S!object_size(c)]
                 /\ new = SlabObject(p, k)'
                 /\ objects' = objects \cup {new}
  BY <1>1, <1>2, NewObject DEF SlabObject
<1>4. \A q \in B!Zone : \A j \in alloc_list[q] :
        j \in alloc_list'[q] /\ SlabObject(q, j)' = SlabObject(q, j)
  BY <1>1, <1>2 DEF SlabObject
<1>5. ASSUME NEW o, IsSlabObject(o) PROVE IsSlabObject(o)'
  <2>1. PICK q \in B!Zone : \E j \in alloc_list[q] : o = SlabObject(q, j)
    BY <1>5 DEF IsSlabObject
  <2>2. PICK j \in alloc_list[q] : o = SlabObject(q, j)
    BY <2>1
  <2>3. j \in alloc_list'[q] /\ o = SlabObject(q, j)'
    BY <1>4, <2>2
  <2> QED
    BY <2>3 DEF IsSlabObject
<1>6. \A o : IsBlockObject(o) <=> IsBlockObject(o)'
  <2>1. ASSUME NEW h \in held', used_info'[h.pgn] = B!BUDDY_ALLOCED
        PROVE  h \in held /\ used_info[h.pgn] = B!BUDDY_ALLOCED
    <3>1. [pgn |-> p, level |-> 0].pgn = p
      OBVIOUS
    <3> QED
      BY <2>1, <3>1, MarksDiffer
  <2> QED
    BY <2>1 DEF IsBlockObject
<1>7. IsSlabObject(new)'
  <2>1. k \in alloc_list'[p]
    BY <1>2
  <2> QED
    BY <2>1, <1>3 DEF IsSlabObject
<1>8. ~IsBlockObject(new)
  <2> SUFFICES ASSUME NEW b \in held, used_info[b.pgn] = B!BUDDY_ALLOCED, new.page = b.pgn
               PROVE  FALSE
    BY DEF IsBlockObject
  <2>1. b.pgn = p
    BY <1>3
  <2> QED
    BY <2>1, MarksDiffer
<1>9. CachesHold'
  BY <1>1, <1>2 DEF KmallocInv, CachesHold
<1>10. MarksMeanCaches'
  <2> SUFFICES ASSUME NEW h \in held', used_info'[h.pgn] = B!BUDDY_SLAB
               PROVE  cachep'[h.pgn] # B!nullptr
    BY DEF MarksMeanCaches
  <2>1. CASE h = [pgn |-> p, level |-> 0]
    BY <2>1, <1>1, <1>2
  <2>2. CASE h \in held
    <3>1. h.pgn \in B!Zone /\ cachep[h.pgn] # B!nullptr
      BY <2>2, LentOut DEF KmallocInv, MarksMeanCaches
    <3> QED
      BY <3>1, <1>1, <1>2
  <2> QED
    BY <2>1, <2>2
<1>11. ObjectsKnown'
  BY <1>3, <1>5, <1>6, <1>7 DEF KmallocInv, ObjectsKnown
<1>12. SlotsOwned'
  <2> SUFFICES ASSUME NEW q \in B!Zone, NEW j \in alloc_list'[q]
               PROVE  SlabObject(q, j)' \in objects'
    BY DEF SlotsOwned
  <2>1. CASE q = p /\ j = k
    BY <2>1, <1>3
  <2>2. CASE ~(q = p /\ j = k)
    <3>1. j \in alloc_list[q]
      BY <2>2, <1>2
    <3> QED
      BY <3>1, <1>3, <1>4 DEF KmallocInv, SlotsOwned
  <2> QED
    BY <2>1, <2>2
<1>13. BlocksOwned'
  <2> SUFFICES ASSUME NEW h \in held', used_info'[h.pgn] = B!BUDDY_ALLOCED
               PROVE  \E o \in objects' : o.page = h.pgn
    BY DEF BlocksOwned
  <2>1. h \in held /\ used_info[h.pgn] = B!BUDDY_ALLOCED
    BY MarksDiffer
  <2> QED
    BY <2>1, <1>3 DEF KmallocInv, BlocksOwned
<1>14. BlocksOwnedOnce'
  <2> SUFFICES ASSUME NEW o \in objects', NEW q \in objects',
                      IsBlockObject(o)', IsBlockObject(q)', o.page = q.page
               PROVE  o = q
    BY DEF BlocksOwnedOnce
  <2>1. o \in objects /\ q \in objects
    BY <1>3, <1>6, <1>8
  <2> QED
    BY <2>1, <1>6 DEF KmallocInv, BlocksOwnedOnce
<1> QED
  BY <1>9, <1>10, <1>11, <1>12, <1>13, <1>14 DEF KmallocInv

\* A nonempty set of numbers has a least one.
LEMMA LeastNumber ==
  ASSUME NEW T, T \subseteq Nat, T # {}
  PROVE  \E x \in T : \A y \in T : x <= y
<1>1. \E x \in T : \A y \in T : ~(<<y, x>> \in OpToRel(<, Nat))
  BY WFMin, NatLessThanWellFounded
<1>2. PICK x \in T : \A y \in T : ~(<<y, x>> \in OpToRel(<, Nat))
  BY <1>1
<1>3. ASSUME NEW y \in T PROVE x <= y
  <2>1. ~(y < x)
    BY <1>2 DEF OpToRel
  <2> QED
    BY <2>1
<1> QED
  BY <1>3

\* The search through the table of caches finds one.
LEMMA CacheFound ==
  ASSUME NEW n \in Nat, n <= Largest
  PROVE  CacheFor(n) \in kmem_cache_size
<1>1. Largest \in kmem_cache_size /\ kmem_cache_size \subseteq Nat
  BY CacheAssumption DEF Largest
<1> DEFINE T == {c \in kmem_cache_size : n <= c}
<1>2. T \subseteq Nat /\ T # {}
  BY <1>1
<1>3. PICK c \in T : \A d \in T : c <= d
  BY <1>2, LeastNumber
<1>4. \E e \in kmem_cache_size : n <= e /\ \A d \in kmem_cache_size : n <= d => e <= d
  BY <1>3
<1> QED
  BY <1>4 DEF CacheFor

LEMMA LargestPositive == Largest \in Nat /\ Largest > 0
<1>1. Largest \in kmem_cache_size
  BY CacheAssumption DEF Largest
<1> QED
  BY <1>1, CacheAssumption

\* The state of the slab allocator does not change.
LEMMA SlabQuiet ==
  ASSUME SP!SlabInv, UNCHANGED slab
  PROVE  SP!SlabInv'
BY SP!StutterInv, SlabConstants DEF slab, SP!vars, SP!slabVars, SP!nodeVars

LEMMA BuddyQuiet ==
  ASSUME BP!BuddyInv, UNCHANGED buddy
  PROVE  BP!BuddyInv'
BY BP!BuddyStutter, BuddyConstants DEF buddy

LEMMA KmallocSmall ==
  ASSUME KmallocInv, NEW n \in RequestSizes, kmallocSmall(n)
  PROVE  KmallocInv'
<1> DEFINE c == CacheFor(n)
<1>1. n \in Nat /\ n <= Largest
  BY RequestAssumption, CacheAssumption, MemoryAssumption DEF kmallocSmall
<1>2. c \in kmem_cache_size /\ c \in SP!Caches
  BY <1>1, CacheFound, SlabConstants
<1>3. /\ BP!BuddyInv /\ SP!SlabInv /\ CachesHold
      /\ objects' = objects \cup NewObjects(c)
  BY DEF KmallocInv, kmallocSmall
<1> HIDE DEF c
<1>4. CASE S!kmem_cache_alloc(c) /\ UNCHANGED buddy
  <2>1. SP!kmem_cache_alloc(c)
    BY <1>4, SameSlab
  <2>2. SP!SlabInv'
    BY <2>1, <1>2, <1>3, SP!AllocInv, SlabConstants
  <2>3. BP!BuddyInv'
    BY <1>3, <1>4, BuddyQuiet
  <2>4. /\ cachep' = cachep
        /\ \E p \in B!Zone, k \in 1..SP!capacity(c) :
             /\ cachep[p] = c /\ k \notin alloc_list[p]
             /\ alloc_list' = [alloc_list EXCEPT ![p] = @ \cup {k}]
    BY <2>1, <1>2, <1>3, SP!AllocTakes, SlabConstants
  <2>5. PICK p \in B!Zone, k \in 1..S!capacity(c) :
             /\ cachep[p] = c /\ k \notin alloc_list[p]
             /\ alloc_list' = [alloc_list EXCEPT ![p] = @ \cup {k}]
    BY <2>4, SameSizes
  <2>6. cachep' = [cachep EXCEPT ![p] = c]
    BY <2>4, <2>5, <1>3, Slots
  <2>7. [pgn |-> p, level |-> 0] \in held /\ used_info[p] = B!BUDDY_SLAB
    BY <2>5, <1>2, <1>3, SlabConstants DEF CachesHold
  <2>8. /\ held' = held \cup {[pgn |-> p, level |-> 0]}
        /\ used_info'[p] = B!BUDDY_SLAB
        /\ \A h \in held : used_info'[h.pgn] = used_info[h.pgn]
    BY <2>7, <1>4 DEF buddy
  <2> QED
    BY <1>2, <1>3, <2>2, <2>3, <2>5, <2>6, <2>8, KmallocTakes
<1>5. CASE /\ S!NeedsPage(c) /\ B!alloc_slab_page
           /\ IF answer'.pgn = B!nullptr THEN UNCHANGED slab
              ELSE S!kmem_cache_grow(c, answer'.pgn)
  <2>1. B!alloc_pages_(0, B!BUDDY_SLAB) /\ booted' = booted
    BY <1>5 DEF B!alloc_slab_page
  <2>2. /\ BP!BuddyInv'
        /\ \/ answer'.pgn = B!nullptr /\ UNCHANGED <<used_info, held>>
           \/ \E b \in B!Zone :
                /\ answer'.pgn = b
                /\ held' = held \cup {[pgn |-> b, level |-> 0]}
                /\ used_info'[b] = B!BUDDY_SLAB
                /\ \A h \in held : h.pgn # b /\ used_info'[h.pgn] = used_info[h.pgn]
    BY <2>1, <1>3, BuddyGives
  <2>3. CASE answer'.pgn = B!nullptr
    <3>1. UNCHANGED slab /\ UNCHANGED <<used_info, held>>
      BY <2>2, <2>3, <1>5, ZoneFacts
    <3>2. NewObjects(c) = {}
      BY <3>1 DEF NewObjects, slab
    <3> QED
      BY <3>1, <3>2, <2>2, <1>3, SlabQuiet, KmallocQuiet DEF slab
  <2>4. CASE answer'.pgn # B!nullptr
    <3>1. PICK p \in B!Zone :
                /\ answer'.pgn = p
                /\ held' = held \cup {[pgn |-> p, level |-> 0]}
                /\ used_info'[p] = B!BUDDY_SLAB
                /\ \A h \in held : h.pgn # p /\ used_info'[h.pgn] = used_info[h.pgn]
      BY <2>2, <2>4
    <3>2. cachep[p] = B!nullptr
      <4>1. [pgn |-> p, level |-> 0].pgn = p
        OBVIOUS
      <4> QED
        BY <3>1, <4>1, <1>3 DEF CachesHold
    <3>3. SP!kmem_cache_grow(c, p) /\ p \in SP!BuddyPages
      BY <3>1, <3>2, <2>4, <1>5, SameSlab DEF SP!BuddyPages
    <3>4. SP!SlabInv'
      BY <3>3, <1>2, <1>3, SP!GrowInv, SlabConstants
    <3>5. /\ cachep' = [cachep EXCEPT ![p] = c] /\ alloc_list[p] = {}
          /\ \E k \in 1..SP!capacity(c) : alloc_list' = [alloc_list EXCEPT ![p] = {k}]
      BY <3>3, <1>2, <1>3, SP!GrowTakes, SlabConstants
    <3>6. PICK k \in 1..S!capacity(c) : alloc_list' = [alloc_list EXCEPT ![p] = {k}]
      BY <3>5, SameSizes
    <3>7. alloc_list' = [alloc_list EXCEPT ![p] = @ \cup {k}] /\ k \notin alloc_list[p]
      BY <3>5, <3>6
    <3> QED
      BY <1>2, <1>3, <2>2, <3>1, <3>2, <3>4, <3>5, <3>7, KmallocTakes
  <2> QED
    BY <2>3, <2>4
<1> QED
  BY <1>4, <1>5 DEF kmallocSmall, c

-----------------------------------------------------------------------------
(* The page path of kmalloc, and kfree.                                    *)

\* Where an object lies: in a page of a cache or in a block for large requests.
LEMMA ObjectPages ==
  ASSUME KmallocInv, NEW o \in objects
  PROVE  /\ \E b \in held : b.pgn = o.page
         /\ o.page \in B!Zone
         /\ IsSlabObject(o) => /\ used_info[o.page] = B!BUDDY_SLAB
                               /\ cachep[o.page] # B!nullptr
         /\ IsBlockObject(o) => used_info[o.page] = B!BUDDY_ALLOCED
<1>1. ASSUME IsSlabObject(o)
      PROVE  /\ o.page \in B!Zone /\ cachep[o.page] # B!nullptr
             /\ [pgn |-> o.page, level |-> 0] \in held
             /\ used_info[o.page] = B!BUDDY_SLAB
  <2>1. PICK p \in B!Zone : \E k \in alloc_list[p] : o = SlabObject(p, k)
    BY <1>1 DEF IsSlabObject
  <2>2. o.page = p /\ alloc_list[p] # {}
    BY <2>1 DEF SlabObject
  <2>3. cachep[p] # B!nullptr
    BY <2>2, Slots DEF KmallocInv
  <2> QED
    BY <2>2, <2>3 DEF KmallocInv, CachesHold
<1>2. ASSUME IsBlockObject(o)
      PROVE  /\ \E b \in held : b.pgn = o.page
             /\ o.page \in B!Zone /\ used_info[o.page] = B!BUDDY_ALLOCED
  <2>1. PICK b \in held : used_info[b.pgn] = B!BUDDY_ALLOCED /\ o.page = b.pgn
    BY <1>2 DEF IsBlockObject
  <2> QED
    BY <2>1, LentOut DEF KmallocInv
<1>3. [pgn |-> o.page, level |-> 0].pgn = o.page
  OBVIOUS
<1>4. IsSlabObject(o) \/ IsBlockObject(o)
  BY DEF KmallocInv, ObjectsKnown
<1> QED
  BY <1>1, <1>2, <1>3, <1>4

LEMMA KmallocLarge ==
  ASSUME KmallocInv, NEW n \in RequestSizes, kmallocLarge(n)
  PROVE  KmallocInv'
<1> DEFINE q == (n + PAGE_SIZE - 1) \div PAGE_SIZE
           l == B!RequestLevel(q)
<1>1. n > 0 /\ n \in Nat
  BY LargestPositive, RequestAssumption, CacheAssumption, MemoryAssumption DEF kmallocLarge
<1>2. l \in 0..5 /\ n <= BP!BlockPages(l) * PAGE_SIZE
  BY <1>1, RequestPages
<1>3. B!alloc_pages_(l, B!BUDDY_ALLOCED) /\ booted' = booted
  BY DEF kmallocLarge, B!alloc_pages
<1>4. /\ UNCHANGED <<free_list, alloc_list, free_num, alloc_num,
                     node_partial, node_full, node_free, cpu_page>>
      /\ answer'.pgn = B!nullptr => UNCHANGED <<cachep, objects>>
      /\ answer'.pgn # B!nullptr =>
           /\ cachep' = [cachep EXCEPT ![answer'.pgn] = B!nullptr]
           /\ objects' = objects \cup {[page |-> answer'.pgn, start |-> 0, bytes |-> n]}
  BY DEF kmallocLarge
<1> HIDE DEF l
<1>5. /\ BP!BuddyInv'
      /\ \/ answer'.pgn = B!nullptr /\ UNCHANGED <<used_info, held>>
         \/ \E b \in B!Zone :
              /\ l \in B!Levels /\ answer'.pgn = b
              /\ held' = held \cup {[pgn |-> b, level |-> l]}
              /\ used_info'[b] = B!BUDDY_ALLOCED
              /\ \A h \in held : h.pgn # b /\ used_info'[h.pgn] = used_info[h.pgn]
  BY <1>2, <1>3, BuddyGives DEF KmallocInv
<1>6. CASE answer'.pgn = B!nullptr
  <2>1. UNCHANGED <<used_info, held>> /\ UNCHANGED slab /\ UNCHANGED objects
    BY <1>4, <1>5, <1>6, ZoneFacts DEF slab
  <2> QED
    BY <2>1, <1>5, SlabQuiet, KmallocQuiet DEF slab, KmallocInv
<1>7. CASE answer'.pgn # B!nullptr
  <2>1. PICK p \in B!Zone :
              /\ answer'.pgn = p
              /\ held' = held \cup {[pgn |-> p, level |-> l]}
              /\ used_info'[p] = B!BUDDY_ALLOCED
              /\ \A h \in held : h.pgn # p /\ used_info'[h.pgn] = used_info[h.pgn]
    BY <1>5, <1>7
  <2>2. cachep[p] = B!nullptr
    <3>1. [pgn |-> p, level |-> 0].pgn = p
      OBVIOUS
    <3> QED
      BY <2>1, <3>1 DEF KmallocInv, CachesHold
  <2>3. UNCHANGED slab
    BY <2>1, <2>2, <1>4, <1>7, Slots DEF slab, KmallocInv
  <2>4. SP!SlabInv'
    BY <2>3, SlabQuiet DEF KmallocInv
  <2>5. PICK new : /\ new = [page |-> p, start |-> 0, bytes |-> n]
                   /\ objects' = objects \cup {new}
    BY <2>1, <1>4, <1>7
  <2>6. cachep' = cachep /\ alloc_list' = alloc_list
    BY <2>3 DEF slab
  <2>7. \A o \in objects : o.page # p
    BY <2>1, ObjectPages
  <2>8. \A o : IsSlabObject(o)' <=> IsSlabObject(o)
    BY <2>6 DEF IsSlabObject, SlabObject
  <2>9. IsBlockObject(new)'
    <3>0. PICK h : h = [pgn |-> p, level |-> l]
      OBVIOUS
    <3>1. h \in held' /\ h.pgn = p /\ h.level = l
      BY <3>0, <2>1
    <3>2. n \in Nat \ {0} /\ n <= BP!BlockPages(h.level) * PAGE_SIZE
      BY <1>1, <1>2, <3>1
    <3>3. new = [page |-> h.pgn, start |-> 0, bytes |-> n]
      BY <2>5, <3>1
    <3>4. used_info'[h.pgn] = B!BUDDY_ALLOCED
      BY <2>1, <3>1
    <3> QED
      BY <3>1, <3>2, <3>3, <3>4 DEF IsBlockObject
  <2>10. \A o : IsBlockObject(o) => IsBlockObject(o)'
    BY <2>1 DEF IsBlockObject
  <2>11. ASSUME NEW o, IsBlockObject(o)' PROVE IsBlockObject(o) \/ o.page = p
    <3>1. PICK h \in held', m \in Nat \ {0} :
             /\ used_info'[h.pgn] = B!BUDDY_ALLOCED
             /\ m <= BP!BlockPages(h.level) * PAGE_SIZE
             /\ o = [page |-> h.pgn, start |-> 0, bytes |-> m]
      BY <2>11 DEF IsBlockObject
    <3>2. CASE h \in held
      BY <3>1, <3>2, <2>1 DEF IsBlockObject
    <3>3. CASE h = [pgn |-> p, level |-> l]
      BY <3>1, <3>3
    <3> QED
      BY <3>2, <3>3, <2>1
  <2>12. CachesHold'
    <3>1. ASSUME NEW r \in B!Zone, cachep[r] # B!nullptr
          PROVE  [pgn |-> r, level |-> 0] \in held' /\ used_info'[r] = B!BUDDY_SLAB
      <4>1. [pgn |-> r, level |-> 0] \in held /\ used_info[r] = B!BUDDY_SLAB
        BY <3>1 DEF KmallocInv, CachesHold
      <4>2. [pgn |-> r, level |-> 0].pgn = r
        OBVIOUS
      <4> QED
        BY <4>1, <4>2, <2>1
    <3> QED
      BY <3>1, <2>6 DEF CachesHold
  <2>13. MarksMeanCaches'
    BY <2>1, <2>6, MarksDiffer DEF KmallocInv, MarksMeanCaches
  <2>14. ObjectsKnown'
    BY <2>5, <2>8, <2>9, <2>10 DEF KmallocInv, ObjectsKnown
  <2>15. SlotsOwned'
    BY <2>5, <2>6 DEF KmallocInv, SlotsOwned, SlabObject
  <2>16. BlocksOwned'
    <3>1. ASSUME NEW h \in held', used_info'[h.pgn] = B!BUDDY_ALLOCED
          PROVE  \E o \in objects' : o.page = h.pgn
      <4>1. CASE h \in held
        BY <4>1, <3>1, <2>1, <2>5 DEF KmallocInv, BlocksOwned
      <4>2. CASE h = [pgn |-> p, level |-> l]
        BY <4>2, <2>5
      <4> QED
        BY <4>1, <4>2, <2>1
    <3> QED
      BY <3>1 DEF BlocksOwned
  <2>17. BlocksOwnedOnce'
    <3> SUFFICES ASSUME NEW o \in objects', NEW r \in objects',
                        IsBlockObject(o)', IsBlockObject(r)', o.page = r.page
                 PROVE  o = r
      BY DEF BlocksOwnedOnce
    <3>1. new.page = p
      BY <2>5
    <3>2. CASE o.page = p
      BY <3>1, <3>2, <2>5, <2>7
    <3>3. CASE o.page # p
      BY <3>1, <3>3, <2>5, <2>11 DEF KmallocInv, BlocksOwnedOnce
    <3> QED
      BY <3>2, <3>3
  <2> QED
    BY <1>5, <2>4, <2>12, <2>13, <2>14, <2>15, <2>16, <2>17 DEF KmallocInv
<1> QED
  BY <1>6, <1>7

\* kfree of an address in a slab finds the slot it was handed out from.
LEMMA SlotFound ==
  ASSUME KmallocInv, NEW p \in B!Zone, NEW k \in alloc_list[p], NEW o, o = SlabObject(p, k)
  PROVE  SlotOf(o) = k /\ o.page = p /\ cachep[p] \in kmem_cache_size
<1>1. /\ cachep[p] \in kmem_cache_size /\ alloc_list[p] \subseteq 1..S!capacity(cachep[p])
  BY Slots DEF KmallocInv
<1>2. o.page = p /\ o.start = S!ObjectAt(cachep[p], k)
  BY DEF SlabObject
<1>3. \A j \in 1..S!capacity(cachep[p]) : S!ObjectAt(cachep[p], j) = o.start => j = k
  BY <1>1, <1>2, SlotsDiffer
<1>4. k \in 1..S!capacity(cachep[p]) /\ S!ObjectAt(cachep[p], k) = o.start
  BY <1>1, <1>2
<1>5. SlotOf(o) \in 1..S!capacity(cachep[p]) /\ S!ObjectAt(cachep[p], SlotOf(o)) = o.start
  BY <1>2, <1>4 DEF SlotOf
<1> QED
  BY <1>1, <1>2, <1>3, <1>5

\* Two slots handed out are different objects.
LEMMA SlotsAreObjects ==
  ASSUME KmallocInv, NEW p \in B!Zone, NEW k \in alloc_list[p],
         NEW q \in B!Zone, NEW j \in alloc_list[q], SlabObject(p, k) = SlabObject(q, j)
  PROVE  p = q /\ k = j
<1>1. SlabObject(p, k).page = p /\ SlabObject(q, j).page = q
  BY DEF SlabObject
<1> QED
  BY <1>1, SlotFound

LEMMA KfreeSlab ==
  ASSUME KmallocInv, NEW o \in objects, kfree(o), used_info[o.page] = B!BUDDY_SLAB
  PROVE  KmallocInv'
<1>1. /\ objects' = objects \ {o} /\ UNCHANGED buddy
      /\ S!kmem_cache_free(o.page, SlotOf(o))
  BY DEF kfree
<1>2. IsSlabObject(o) /\ ~IsBlockObject(o)
  BY ObjectPages, MarksDiffer DEF KmallocInv, ObjectsKnown
<1>3. PICK p \in B!Zone : \E k \in alloc_list[p] : o = SlabObject(p, k)
  BY <1>2 DEF IsSlabObject
<1>4. PICK k \in alloc_list[p] : o = SlabObject(p, k)
  BY <1>3
<1>5. SP!kmem_cache_free(p, k) /\ o.page = p
  BY <1>1, <1>4, SlotFound, SameSlab
<1>6. SP!SlabInv'
  BY <1>4, <1>5, SP!FreeInv, SlabConstants DEF KmallocInv
<1>7. cachep' = cachep /\ alloc_list' = [alloc_list EXCEPT ![p] = @ \ {k}]
  BY <1>4, <1>5, SP!FreeReturns, SlabConstants
<1>8. BP!BuddyInv'
  BY <1>1, BuddyQuiet DEF KmallocInv
<1>9. held' = held /\ used_info' = used_info
  BY <1>1 DEF buddy
<1>10. alloc_list \in [B!Zone -> SUBSET Nat]
  BY Slots DEF KmallocInv
<1>11. \A q \in B!Zone : \A j : j \in alloc_list'[q] <=> j \in alloc_list[q] /\ ~(q = p /\ j = k)
  BY <1>7, <1>10
<1>12. \A q, j : SlabObject(q, j)' = SlabObject(q, j)
  BY <1>7 DEF SlabObject
<1>13. \A x : IsBlockObject(x)' <=> IsBlockObject(x)
  BY <1>9 DEF IsBlockObject
<1>14. ASSUME NEW x \in objects, x # o, IsSlabObject(x) PROVE IsSlabObject(x)'
  <2>1. PICK q \in B!Zone : \E j \in alloc_list[q] : x = SlabObject(q, j)
    BY <1>14 DEF IsSlabObject
  <2>2. PICK j \in alloc_list[q] : x = SlabObject(q, j)
    BY <2>1
  <2>3. j \in alloc_list'[q]
    BY <2>2, <1>4, <1>11, <1>14
  <2> QED
    BY <2>2, <2>3, <1>12 DEF IsSlabObject
<1>15. CachesHold' /\ MarksMeanCaches'
  BY <1>7, <1>9 DEF KmallocInv, CachesHold, MarksMeanCaches
<1>16. ObjectsKnown'
  BY <1>1, <1>13, <1>14 DEF KmallocInv, ObjectsKnown
<1>17. SlotsOwned'
  <2> SUFFICES ASSUME NEW q \in B!Zone, NEW j \in alloc_list'[q]
               PROVE  SlabObject(q, j)' \in objects'
    BY DEF SlotsOwned
  <2>1. j \in alloc_list[q] /\ ~(q = p /\ j = k)
    BY <1>11
  <2>2. SlabObject(q, j) # o
    BY <2>1, <1>4, SlotsAreObjects
  <2> QED
    BY <2>1, <2>2, <1>1, <1>12 DEF KmallocInv, SlotsOwned
<1>18. BlocksOwned'
  <2> SUFFICES ASSUME NEW h \in held, used_info[h.pgn] = B!BUDDY_ALLOCED
               PROVE  \E x \in objects' : x.page = h.pgn
    BY <1>9 DEF BlocksOwned
  <2>1. PICK x \in objects : x.page = h.pgn
    BY DEF KmallocInv, BlocksOwned
  <2>2. x # o
    BY <2>1, MarksDiffer
  <2> QED
    BY <2>1, <2>2, <1>1
<1>19. BlocksOwnedOnce'
  BY <1>1, <1>13 DEF KmallocInv, BlocksOwnedOnce
<1> QED
  BY <1>6, <1>8, <1>15, <1>16, <1>17, <1>18, <1>19 DEF KmallocInv

LEMMA KfreeBlock ==
  ASSUME KmallocInv, NEW o \in objects, kfree(o), used_info[o.page] # B!BUDDY_SLAB
  PROVE  KmallocInv'
<1>1. objects' = objects \ {o} /\ UNCHANGED slab /\ B!free_pages(o.page)
  BY DEF kfree
<1>2. ~IsSlabObject(o) /\ IsBlockObject(o) /\ o.page \in B!Zone
      /\ used_info[o.page] = B!BUDDY_ALLOCED
  BY ObjectPages DEF KmallocInv, ObjectsKnown
<1>3. /\ BP!BuddyInv' /\ held' = {b \in held : b.pgn # o.page}
      /\ \A h \in held' : used_info'[h.pgn] = used_info[h.pgn]
  BY <1>1, <1>2, BuddyFrees DEF KmallocInv
<1>4. SP!SlabInv'
  BY <1>1, SlabQuiet DEF KmallocInv
<1>5. cachep' = cachep /\ alloc_list' = alloc_list
  BY <1>1 DEF slab
<1>6. \A x : IsSlabObject(x)' <=> IsSlabObject(x)
  BY <1>5 DEF IsSlabObject, SlabObject
<1>7. ASSUME NEW x PROVE IsBlockObject(x)' <=> IsBlockObject(x) /\ x.page # o.page
  BY <1>3 DEF IsBlockObject
<1>8. CachesHold'
  <2>1. ASSUME NEW r \in B!Zone, cachep[r] # B!nullptr
        PROVE  [pgn |-> r, level |-> 0] \in held' /\ used_info'[r] = B!BUDDY_SLAB
    <3>1. [pgn |-> r, level |-> 0] \in held /\ used_info[r] = B!BUDDY_SLAB
      BY <2>1 DEF KmallocInv, CachesHold
    <3>2. [pgn |-> r, level |-> 0].pgn = r /\ r # o.page
      BY <3>1, <1>2, MarksDiffer
    <3> QED
      BY <3>1, <3>2, <1>3
  <2> QED
    BY <2>1, <1>5 DEF CachesHold
<1>9. MarksMeanCaches'
  BY <1>3, <1>5 DEF KmallocInv, MarksMeanCaches
<1>10. ObjectsKnown'
  <2> SUFFICES ASSUME NEW x \in objects, x # o PROVE IsSlabObject(x)' \/ IsBlockObject(x)'
    BY <1>1 DEF ObjectsKnown
  <2>1. IsBlockObject(x) => x.page # o.page
    BY <1>2 DEF KmallocInv, BlocksOwnedOnce
  <2> QED
    BY <2>1, <1>6, <1>7 DEF KmallocInv, ObjectsKnown
<1>11. SlotsOwned'
  <2> SUFFICES ASSUME NEW q \in B!Zone, NEW j \in alloc_list[q]
               PROVE  SlabObject(q, j) \in objects \ {o}
    BY <1>1, <1>5 DEF SlotsOwned, SlabObject
  <2>1. SlabObject(q, j) # o
    BY <1>2 DEF IsSlabObject
  <2> QED
    BY <2>1 DEF KmallocInv, SlotsOwned
<1>12. BlocksOwned'
  <2> SUFFICES ASSUME NEW h \in held', used_info'[h.pgn] = B!BUDDY_ALLOCED
               PROVE  \E x \in objects' : x.page = h.pgn
    BY DEF BlocksOwned
  <2>1. h \in held /\ h.pgn # o.page /\ used_info[h.pgn] = B!BUDDY_ALLOCED
    BY <1>3
  <2> QED
    BY <2>1, <1>1 DEF KmallocInv, BlocksOwned
<1>13. BlocksOwnedOnce'
  BY <1>1, <1>7 DEF KmallocInv, BlocksOwnedOnce
<1> QED
  BY <1>3, <1>4, <1>8, <1>9, <1>10, <1>11, <1>12, <1>13 DEF KmallocInv

-----------------------------------------------------------------------------
(* The theorems.                                                           *)

LEMMA KmallocStep == KmallocInv /\ [Next]_vars => KmallocInv'
<1> SUFFICES ASSUME KmallocInv, [Next]_vars PROVE KmallocInv'
  OBVIOUS
<1>1. CASE Boot
  <2>1. B!InitFreePage /\ UNCHANGED slab /\ UNCHANGED objects
    BY <1>1 DEF Boot
  <2>2. BP!BuddyInv' /\ held' = held /\ \A h \in held : used_info'[h.pgn] = used_info[h.pgn]
    BY <2>1, BuddyBoots DEF KmallocInv
  <2>3. SP!SlabInv'
    BY <2>1, SlabQuiet DEF KmallocInv
  <2> QED
    BY <2>1, <2>2, <2>3, KmallocQuiet DEF slab
<1>2. ASSUME NEW n \in RequestSizes, kmalloc(n) PROVE KmallocInv'
  BY <1>2, KmallocSmall, KmallocLarge DEF kmalloc
<1>3. ASSUME NEW o \in objects, kfree(o) PROVE KmallocInv'
  BY <1>3, KfreeSlab, KfreeBlock
<1>4. CASE UNCHANGED vars
  <2>1. UNCHANGED buddy /\ UNCHANGED slab /\ UNCHANGED objects
    BY <1>4 DEF vars
  <2>2. BP!BuddyInv' /\ SP!SlabInv'
    BY <2>1, BuddyQuiet, SlabQuiet DEF KmallocInv
  <2> QED
    BY <2>1, <2>2, KmallocQuiet DEF buddy, slab
<1> QED
  BY <1>1, <1>2, <1>3, <1>4 DEF Next

\* kmalloc and kfree keep the two allocators, their marks and what callers
\* have in step with each other.
THEOREM KmallocInvariant == Spec => []KmallocInv
BY KmallocInit, KmallocStep, PTL DEF Spec

\* No page of a cache is on a free list, part of a large block or marked as
\* anything but a slab page, so kfree always asks the right allocator.
THEOREM SlabPagesAreLent == Spec => []SlabOwnsItsPages
<1>1. KmallocInv => SlabOwnsItsPages
  <2> SUFFICES ASSUME KmallocInv, NEW p \in B!Zone, cachep[p] # B!nullptr
               PROVE  /\ [pgn |-> p, level |-> 0] \in held
                      /\ used_info[p] = B!BUDDY_SLAB
                      /\ \A l \in Levels : p \notin freelist[l]
    BY DEF SlabOwnsItsPages
  <2>1. [pgn |-> p, level |-> 0] \in held /\ used_info[p] = B!BUDDY_SLAB
    BY DEF KmallocInv, CachesHold
  <2>2. [pgn |-> p, level |-> 0].pgn = p
    OBVIOUS
  <2> QED
    BY <2>1, <2>2, LentOut, SameZone DEF KmallocInv
<1> QED
  BY <1>1, KmallocInvariant, PTL

\* When callers have freed everything, only empty pages of caches are lent out.
THEOREM KmallocLeaksNothing == Spec => []NothingLeaks
<1>1. KmallocInv => NothingLeaks
  <2> SUFFICES ASSUME KmallocInv, objects = {}
               PROVE  /\ \A b \in held : b.level = 0 /\ cachep[b.pgn] # B!nullptr
                      /\ \A p \in B!Zone : alloc_num[p] = 0
    BY DEF NothingLeaks
  <2>1. ASSUME NEW b \in held PROVE b.level = 0 /\ cachep[b.pgn] # B!nullptr
    <3>1. b.pgn \in B!Zone /\ used_info[b.pgn] = B!BUDDY_SLAB
      BY LentOut DEF KmallocInv, BlocksOwned
    <3>2. cachep[b.pgn] # B!nullptr
      BY <3>1 DEF KmallocInv, MarksMeanCaches
    <3>3. PICK h \in held : h = [pgn |-> b.pgn, level |-> 0]
      BY <3>1, <3>2 DEF KmallocInv, CachesHold
    <3>4. h.pgn = b.pgn /\ h.level = 0
      BY <3>3
    <3>5. h = b
      BY <3>4, LentOut DEF KmallocInv
    <3> QED
      BY <3>2, <3>4, <3>5
  <2>2. ASSUME NEW p \in B!Zone PROVE alloc_num[p] = 0
    <3>1. alloc_list[p] = {}
      BY DEF KmallocInv, SlotsOwned
    <3> QED
      BY <3>1, Slots DEF KmallocInv
  <2> QED
    BY <2>1, <2>2
<1> QED
  BY <1>1, KmallocInvariant, PTL

\* The bytes of an object lie in the block it was taken from.
LEMMA ObjectExtent ==
  ASSUME KmallocInv, NEW o \in objects
  PROVE  \E b \in held : /\ b.pgn = o.page /\ o.start \in Nat /\ o.bytes \in Nat
                         /\ o.start + o.bytes <= BP!BlockPages(b.level) * PAGE_SIZE
<1>1. CASE IsSlabObject(o)
  <2>1. PICK p \in B!Zone : \E k \in alloc_list[p] : o = SlabObject(p, k)
    BY <1>1 DEF IsSlabObject
  <2>2. PICK k \in alloc_list[p] : o = SlabObject(p, k)
    BY <2>1
  <2>3. /\ o.page = p /\ o.start = S!ObjectAt(cachep[p], k)
        /\ o.bytes = S!object_size(cachep[p])
    BY <2>2 DEF SlabObject
  <2>4. cachep[p] \in kmem_cache_size /\ k \in 1..S!capacity(cachep[p])
        /\ cachep[p] # B!nullptr
    BY <2>2, Slots DEF KmallocInv
  <2>5. /\ S!ObjectAt(cachep[p], k) \in Nat /\ S!object_size(cachep[p]) \in Nat
        /\ S!ObjectAt(cachep[p], k) + S!object_size(cachep[p]) <= PAGE_SIZE
    BY <2>4, SlotBytes
  <2>6. PICK b \in held : b = [pgn |-> p, level |-> 0]
    BY <2>4 DEF KmallocInv, CachesHold
  <2>7. b.pgn = p /\ BP!BlockPages(b.level) * PAGE_SIZE = PAGE_SIZE
    BY <2>6, FramesType, CacheAssumption
  <2> QED
    BY <2>3, <2>5, <2>7
<1>2. CASE IsBlockObject(o)
  <2>1. PICK b \in held, n \in Nat \ {0} :
          /\ n <= BP!BlockPages(b.level) * PAGE_SIZE
          /\ o = [page |-> b.pgn, start |-> 0, bytes |-> n]
    BY <1>2 DEF IsBlockObject
  <2>2. o.page = b.pgn /\ o.start = 0 /\ o.bytes = n
    BY <2>1
  <2> QED
    BY <2>1, <2>2
<1> QED
  BY <1>1, <1>2 DEF KmallocInv, ObjectsKnown

\* Blocks that are apart stay apart when frames are counted in bytes.
LEMMA BytesApart ==
  ASSUME NEW a \in Nat, NEW m \in Nat, NEW b \in Nat, NEW P \in Nat, a + m <= b,
         NEW s \in Nat, NEW n \in Nat, s + n <= m * P, NEW t \in Nat
  PROVE  a * P + s + n <= b * P + t
<1>1. (a + m) * P <= b * P
  OBVIOUS
<1>2. (a + m) * P = a * P + m * P
  OBVIOUS
<1>3. a * P \in Int /\ m * P \in Int /\ b * P \in Int /\ (a + m) * P \in Int
  OBVIOUS
<1> QED
  BY <1>1, <1>2, <1>3

\* Two pieces of memory that kmalloc gave out and nobody freed never overlap,
\* wherever they came from.
THEOREM LiveObjectsAreDisjoint == Spec => []LiveDisjoint
<1>1. KmallocInv => LiveDisjoint
  <2> SUFFICES ASSUME KmallocInv, NEW o \in objects, NEW q \in objects, o # q
               PROVE  \/ Address(o) + o.bytes <= Address(q)
                      \/ Address(q) + q.bytes <= Address(o)
    BY DEF LiveDisjoint
  <2>1. PICK b \in held : /\ b.pgn = o.page /\ o.start \in Nat /\ o.bytes \in Nat
                          /\ o.start + o.bytes <= BP!BlockPages(b.level) * PAGE_SIZE
    BY ObjectExtent
  <2>2. PICK c \in held : /\ c.pgn = q.page /\ q.start \in Nat /\ q.bytes \in Nat
                          /\ q.start + q.bytes <= BP!BlockPages(c.level) * PAGE_SIZE
    BY ObjectExtent
  <2>3. /\ b.pgn \in Nat /\ c.pgn \in Nat /\ PAGE_SIZE \in Nat
        /\ BP!BlockPages(b.level) \in Nat /\ BP!BlockPages(c.level) \in Nat
        /\ b.level \in B!Levels
    BY LentOut, ZoneFacts, FramesType, CacheAssumption DEF KmallocInv
  <2>4. CASE b # c
    <3>1. \/ b.pgn + BP!BlockPages(b.level) <= c.pgn
          \/ c.pgn + BP!BlockPages(c.level) <= b.pgn
      BY <2>4, LentOut DEF KmallocInv
    <3>2. CASE b.pgn + BP!BlockPages(b.level) <= c.pgn
      <4>1. b.pgn * PAGE_SIZE + o.start + o.bytes <= c.pgn * PAGE_SIZE + q.start
        BY <3>2, <2>1, <2>2, <2>3, BytesApart
      <4> QED
        BY <4>1, <2>1, <2>2 DEF Address
    <3>3. CASE c.pgn + BP!BlockPages(c.level) <= b.pgn
      <4>1. c.pgn * PAGE_SIZE + q.start + q.bytes <= b.pgn * PAGE_SIZE + o.start
        BY <3>3, <2>1, <2>2, <2>3, BytesApart
      <4> QED
        BY <4>1, <2>1, <2>2 DEF Address
    <3> QED
      BY <3>1, <3>2, <3>3
  <2>5. CASE b = c
    <3>1. o.page = q.page
      BY <2>1, <2>2, <2>5
    <3>2. IsSlabObject(o) /\ IsSlabObject(q)
      BY <3>1, ObjectPages, MarksDiffer DEF KmallocInv, ObjectsKnown, BlocksOwnedOnce
    <3>3. PICK p \in B!Zone : \E k \in alloc_list[p] : o = SlabObject(p, k)
      BY <3>2 DEF IsSlabObject
    <3>4. PICK k \in alloc_list[p] : o = SlabObject(p, k)
      BY <3>3
    <3>5. PICK r \in B!Zone : \E j \in alloc_list[r] : q = SlabObject(r, j)
      BY <3>2 DEF IsSlabObject
    <3>6. PICK j \in alloc_list[r] : q = SlabObject(r, j)
      BY <3>5
    <3>7. /\ o.page = p /\ o.start = S!ObjectAt(cachep[p], k)
          /\ o.bytes = S!object_size(cachep[p])
          /\ q.page = r /\ q.start = S!ObjectAt(cachep[r], j)
          /\ q.bytes = S!object_size(cachep[r])
      BY <3>4, <3>6 DEF SlabObject
    <3>8. p = r /\ j # k
      BY <3>1, <3>4, <3>6, <3>7
    <3>9. /\ cachep[p] \in kmem_cache_size
          /\ j \in 1..S!capacity(cachep[p]) /\ k \in 1..S!capacity(cachep[p])
      BY <3>4, <3>6, <3>8, Slots DEF KmallocInv
    <3>10. /\ k < j => S!ObjectAt(cachep[p], k) + S!object_size(cachep[p]) <= S!ObjectAt(cachep[p], j)
           /\ j < k => S!ObjectAt(cachep[p], j) + S!object_size(cachep[p]) <= S!ObjectAt(cachep[p], k)
      BY <3>9, SlotBytes
    <3>11. k < j \/ j < k
      BY <3>8, <3>9
    <3>12. o.start + o.bytes <= q.start \/ q.start + q.bytes <= o.start
      BY <3>7, <3>8, <3>10, <3>11
    <3>13. /\ Address(o) = o.page * PAGE_SIZE + o.start
           /\ Address(q) = o.page * PAGE_SIZE + q.start
           /\ o.page * PAGE_SIZE \in Int
      BY <3>1, <2>1, <2>3 DEF Address
    <3> QED
      BY <3>12, <3>13, <2>1, <2>2
  <2> QED
    BY <2>4, <2>5
<1> QED
  BY <1>1, KmallocInvariant, PTL

\* Every step of kmalloc and kfree is a legal step of the buddy system and of
\* the slab allocator.
LEMMA StepKeepsContracts ==
  KmallocInv /\ [Next]_vars => [B!Next]_(B!vars) /\ [S!Next]_(S!vars)
<1> SUFFICES ASSUME KmallocInv, [Next]_vars
             PROVE  [B!Next]_(B!vars) /\ [S!Next]_(S!vars)
  OBVIOUS
<1>1. /\ UNCHANGED buddy => UNCHANGED B!vars
      /\ UNCHANGED slab => UNCHANGED S!vars
  BY DEF buddy, slab, B!vars, S!vars, S!slabVars, S!nodeVars
<1>2. CASE Boot
  BY <1>2, <1>1 DEF Boot, B!Next
<1>3. ASSUME NEW n \in RequestSizes, kmallocSmall(n)
      PROVE  [B!Next]_(B!vars) /\ [S!Next]_(S!vars)
  <2> DEFINE c == CacheFor(n)
  <2>1. c \in S!Caches
    <3>1. n \in Nat /\ n <= Largest
      BY <1>3, RequestAssumption, CacheAssumption, MemoryAssumption DEF kmallocSmall
    <3> QED
      BY <3>1, CacheFound DEF S!Caches
  <2> HIDE DEF c
  <2>2. CASE S!kmem_cache_alloc(c) /\ UNCHANGED buddy
    BY <2>1, <2>2, <1>1 DEF S!Next
  <2>3. CASE /\ S!NeedsPage(c) /\ B!alloc_slab_page
             /\ IF answer'.pgn = B!nullptr THEN UNCHANGED slab
                ELSE S!kmem_cache_grow(c, answer'.pgn)
    <3>1. B!Next
      BY <2>3 DEF B!Next
    <3>2. CASE answer'.pgn = B!nullptr
      BY <3>1, <3>2, <2>3, <1>1
    <3>3. CASE answer'.pgn # B!nullptr
      <4>1. B!alloc_pages_(0, B!BUDDY_SLAB) /\ booted' = booted
        BY <2>3 DEF B!alloc_slab_page
      <4>2. PICK p \in B!Zone : answer'.pgn = p /\ \A h \in held : h.pgn # p
        BY <4>1, <3>3, BuddyGives DEF KmallocInv
      <4>3. [pgn |-> p, level |-> 0].pgn = p
        OBVIOUS
      <4>4. p \in S!BuddyPages
        BY <4>2, <4>3 DEF KmallocInv, CachesHold, S!BuddyPages
      <4> QED
        BY <4>2, <4>4, <3>1, <3>3, <2>1, <2>3 DEF S!Next
    <3> QED
      BY <3>2, <3>3
  <2> QED
    BY <2>2, <2>3, <1>3 DEF kmallocSmall, c
<1>4. ASSUME NEW n \in RequestSizes, kmallocLarge(n)
      PROVE  [B!Next]_(B!vars) /\ [S!Next]_(S!vars)
  <2> DEFINE q == (n + PAGE_SIZE - 1) \div PAGE_SIZE
             l == B!RequestLevel(q)
  <2>1. n > 0 /\ n \in Nat
    BY <1>4, LargestPositive, RequestAssumption, CacheAssumption, MemoryAssumption
    DEF kmallocLarge
  <2>2. l \in 0..5 /\ q \in 0..MaxRequest
    BY <2>1, RequestPages
  <2>3. B!alloc_pages_(l, B!BUDDY_ALLOCED) /\ booted' = booted /\ B!alloc_pages(q)
    BY <1>4 DEF kmallocLarge, B!alloc_pages
  <2> HIDE DEF q, l
  <2>4. B!Next
    BY <2>2, <2>3 DEF B!Next
  <2>5. /\ UNCHANGED <<free_list, alloc_list, free_num, alloc_num,
                       node_partial, node_full, node_free, cpu_page>>
        /\ answer'.pgn = B!nullptr => UNCHANGED cachep
        /\ answer'.pgn # B!nullptr => cachep' = [cachep EXCEPT ![answer'.pgn] = B!nullptr]
    BY <1>4 DEF kmallocLarge
  <2>6. cachep' = cachep
    <3>1. CASE answer'.pgn # B!nullptr
      <4>1. PICK p \in B!Zone : answer'.pgn = p /\ \A h \in held : h.pgn # p
        BY <2>2, <2>3, <3>1, BuddyGives DEF KmallocInv
      <4>2. [pgn |-> p, level |-> 0].pgn = p
        OBVIOUS
      <4>3. cachep[p] = B!nullptr
        BY <4>1, <4>2 DEF KmallocInv, CachesHold
      <4> QED
        BY <4>1, <4>3, <3>1, <2>5, Slots DEF KmallocInv
    <3> QED
      BY <3>1, <2>5
  <2> QED
    BY <2>4, <2>5, <2>6, <1>1 DEF slab
<1>5. ASSUME NEW o \in objects, kfree(o)
      PROVE  [B!Next]_(B!vars) /\ [S!Next]_(S!vars)
  <2>1. CASE used_info[o.page] = B!BUDDY_SLAB
    <3>1. S!kmem_cache_free(o.page, SlotOf(o)) /\ UNCHANGED buddy
      BY <1>5, <2>1 DEF kfree
    <3>2. IsSlabObject(o)
      BY <2>1, ObjectPages, MarksDiffer DEF KmallocInv, ObjectsKnown
    <3>3. PICK p \in B!Zone : \E k \in alloc_list[p] : o = SlabObject(p, k)
      BY <3>2 DEF IsSlabObject
    <3>4. SlotOf(o) \in alloc_list[p] /\ o.page = p
      BY <3>3, SlotFound
    <3> QED
      BY <3>1, <3>4, <1>1 DEF S!Next
  <2>2. CASE used_info[o.page] # B!BUDDY_SLAB
    <3>1. B!free_pages(o.page) /\ UNCHANGED slab /\ o.page \in B!AllPages
      BY <1>5, <2>2, ObjectPages, ZoneFacts DEF kfree
    <3> QED
      BY <3>1, <1>1 DEF B!Next
  <2> QED
    BY <2>1, <2>2
<1>6. CASE UNCHANGED vars
  BY <1>6, <1>1 DEF vars
<1> QED
  BY <1>2, <1>3, <1>4, <1>5, <1>6 DEF Next, kmalloc

\* kmalloc and kfree use both allocators as these expect to be used: the whole
\* implements each of its two parts.
THEOREM ContractsAreKept == Spec => KeepsContracts
<1>1. Init => B!Init /\ S!Init
  BY DEF Init
<1> QED
  BY <1>1, StepKeepsContracts, KmallocInvariant, PTL
  DEF Spec, KeepsContracts, B!Spec, S!Spec
=============================================================================
