------------------------------ MODULE Kmalloc -------------------------------
(***************************************************************************)
(* kmalloc and kfree (kernel/mm/slab.c) over the slab allocator and the    *)
(* buddy allocator: requests up to the largest cache are served from a     *)
(* slab, larger ones with whole pages, and kfree finds out which it was    *)
(* from the mark of the page the address lies in.                          *)
(***************************************************************************)
EXTENDS Blocks, Sequences, FiniteSets

CONSTANTS PageNum, KernelPages, MaxRequest, MaxHeld, PAGE_SIZE,
          kmem_cache_size,
          RequestSizes      \* sizes in bytes kmalloc is asked for

VARIABLES bplevel, used_info, freelist, booted, held, answer
VARIABLES cachep, free_list, alloc_list, free_num, alloc_num,
          node_partial, node_full, node_free, cpu_page
VARIABLE objects            \* what callers got: records [page, start, bytes]

B == INSTANCE Buddy
buddy == <<bplevel, used_info, freelist, booted, held, answer>>
S == INSTANCE Slab WITH Pages <- B!Zone, nullptr <- B!nullptr

slab == <<cachep, free_list, alloc_list, free_num, alloc_num,
          node_partial, node_full, node_free, cpu_page>>
vars == <<buddy, slab, objects>>

(***************************************************************************)
(* What Buddy and Slab assume of their constants, a largest cache, and     *)
(* requests within the bound of the buddy system.                          *)
(***************************************************************************)
ASSUME MemoryAssumption ==
  /\ PageNum \in Nat /\ KernelPages \in Nat /\ MaxHeld \in Nat
  /\ B!start_pfn <= PageNum
  /\ MaxRequest \in 0..32

ASSUME CacheAssumption ==
  /\ kmem_cache_size \subseteq Nat \ {0}
  /\ \E c \in kmem_cache_size : \A d \in kmem_cache_size : d <= c
  /\ PAGE_SIZE \in Nat \ {0}
  /\ \A c \in kmem_cache_size :
       /\ S!capacity(c) \in Nat \ {0}
       /\ S!NodeAt(c, S!capacity(c)) + S!SizeofListHead <= PAGE_SIZE

ASSUME RequestAssumption == RequestSizes \subseteq 0 .. (MaxRequest * PAGE_SIZE)

Largest == CHOOSE c \in kmem_cache_size : \A d \in kmem_cache_size : d <= c

\* The first cache of the table, smallest first, that is large enough.
CacheFor(n) ==
  CHOOSE c \in kmem_cache_size :
    n <= c /\ \A d \in kmem_cache_size : n <= d => c <= d

Init == B!Init /\ S!Init /\ objects = {}

\* init_buddy comes before the first kmalloc.
Boot == B!InitFreePage /\ UNCHANGED <<slab, objects>>

\* The object that alloc_object moved to the allocated list of a page.
NewObjects(c) ==
  {[page |-> q[1], start |-> S!ObjectAt(c, q[2]), bytes |-> S!object_size(c)] :
     q \in {r \in B!Zone \X (1..S!capacity(c)) :
              r[2] \in alloc_list'[r[1]] \ alloc_list[r[1]]}}

\* The slab path, asking the buddy system for a page when it must.
kmallocSmall(n) ==
  LET c == CacheFor(n)
  IN  /\ n <= Largest
      /\ \/ /\ S!kmem_cache_alloc(c)
            /\ UNCHANGED buddy
         \/ /\ S!NeedsPage(c)
            /\ B!alloc_slab_page
            /\ IF answer'.pgn = B!nullptr
               THEN UNCHANGED slab
               ELSE S!kmem_cache_grow(c, answer'.pgn)
      /\ objects' = objects \cup NewObjects(c)

\* Mutant: the number of pages is rounded down.
kmallocLargeRoundsDown(n) ==
  /\ n > Largest
  /\ B!alloc_pages(n \div PAGE_SIZE)
  /\ LET p == answer'.pgn
     IN  IF p = B!nullptr
         THEN UNCHANGED <<cachep, objects>>
         ELSE /\ cachep' = [cachep EXCEPT ![p] = B!nullptr]
              /\ objects' = objects \cup {[page |-> p, start |-> 0, bytes |-> n]}
  /\ UNCHANGED <<free_list, alloc_list, free_num, alloc_num,
                 node_partial, node_full, node_free, cpu_page>>

\* The page path.  __alloc_pages clears the cache pointer of the page.
kmallocLarge(n) ==
  /\ n > Largest
  /\ B!alloc_pages((n + PAGE_SIZE - 1) \div PAGE_SIZE)
  /\ LET p == answer'.pgn
     IN  IF p = B!nullptr
         THEN UNCHANGED <<cachep, objects>>
         ELSE /\ cachep' = [cachep EXCEPT ![p] = B!nullptr]
              /\ objects' = objects \cup {[page |-> p, start |-> 0, bytes |-> n]}
  /\ UNCHANGED <<free_list, alloc_list, free_num, alloc_num,
                 node_partial, node_full, node_free, cpu_page>>

kmalloc(n) == booted = B!page_num /\ (kmallocSmall(n) \/ kmallocLarge(n))

\* Mutant: the size of the object is left out, and the node of the slot in front
\* is taken.
SlotBefore(o) ==
  CHOOSE k \in 0..(S!capacity(cachep[o.page]) - 1) :
    S!ObjectAt(cachep[o.page], k + 1) = o.start

\* The slot of an address: the node lies object_size bytes behind it.
SlotOf(o) ==
  CHOOSE k \in 1..S!capacity(cachep[o.page]) :
    S!ObjectAt(cachep[o.page], k) = o.start

\* Mutant: every address goes to the buddy system.
kfreeBuddyOnly(o) ==
  /\ objects' = objects \ {o}
  /\ B!free_pages(o.page) /\ UNCHANGED slab

\* Mutant: only slab objects are freed.
kfreeSlabOnly(o) ==
  /\ objects' = objects \ {o}
  /\ IF used_info[o.page] = B!BUDDY_SLAB
     THEN S!kmem_cache_free(o.page, SlotOf(o)) /\ UNCHANGED buddy
     ELSE UNCHANGED <<buddy, slab>>

kfree(o) ==
  /\ objects' = objects \ {o}
  /\ IF used_info[o.page] = B!BUDDY_SLAB
     THEN S!kmem_cache_free(o.page, SlotOf(o)) /\ UNCHANGED buddy
     ELSE B!free_pages(o.page) /\ UNCHANGED slab

Next ==
  \/ Boot
  \/ \E n \in RequestSizes : kmalloc(n)
  \/ \E o \in objects : kfree(o)

Spec == Init /\ [][Next]_vars

-----------------------------------------------------------------------------
(* Properties.                                                             *)

Address(o) == o.page * PAGE_SIZE + o.start

\* Two pieces of memory that kmalloc returned and nobody freed never overlap,
\* whether they come from slabs or from the buddy system.
LiveDisjoint ==
  \A o, q \in objects : o # q => \/ Address(o) + o.bytes <= Address(q)
                                 \/ Address(q) + q.bytes <= Address(o)

\* A large block handed out never contains a page of a cache, and no page of
\* a cache is on a free list: the two allocators never share a frame.
SlabOwnsItsPages ==
  \A p \in B!Zone :
    cachep[p] # B!nullptr =>
      /\ [pgn |-> p, level |-> 0] \in held
      /\ used_info[p] = B!BUDDY_SLAB
      /\ \A l \in Levels : p \notin freelist[l]

\* Nothing leaks: when every object is freed, the buddy system has lent out
\* only the pages the caches keep, and each of these is empty.
NothingLeaks ==
  objects = {} => /\ \A b \in held : b.level = 0 /\ cachep[b.pgn] # B!nullptr
                  /\ \A p \in B!Zone : alloc_num[p] = 0

\* kmalloc and kfree keep to what the two allocators ask of their callers: they
\* free only blocks and slots they hold, and a cache grows only by a page that
\* belongs to no cache.  So whatever holds of either allocator alone holds here.
KeepsContracts == B!Spec /\ S!Spec
=============================================================================
