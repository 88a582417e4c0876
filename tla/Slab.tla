-------------------------------- MODULE Slab --------------------------------
(***************************************************************************)
(* The slab allocator, kernel/mm/slab.c.  A cache serves objects of one    *)
(* size out of whole pages; a page begins with a struct slab_head and is   *)
(* carved into objects on demand.  The list node of an object sits behind  *)
(* the object in its slot, and slot k of a page has its node k object      *)
(* strides behind the slab head, so objects are named by slot number.      *)
(*                                                                         *)
(* The free list of a page is a sequence, because the code relies on its   *)
(* order: freed objects go to the front, new objects are carved one stride *)
(* behind the LAST entry.  The allocated list is a set (it is never read), *)
(* and so are the page lists of a cache (the code takes the first entry,   *)
(* here any).  kmalloc and kfree run with interrupts disabled: each        *)
(* operation is one step.                                                  *)
(***************************************************************************)
EXTENDS Integers, Sequences, FiniteSets

CONSTANTS
  Pages,              \* frames __alloc_pages can hand to the slab allocator
  PAGE_SIZE,
  kmem_cache_size,    \* object sizes; a cache is named by its object size
  nullptr             \* neither a page nor a cache

VARIABLES
  cachep,             \* struct page.cachep: the cache a page belongs to
  free_list,          \* slab_head.free_list, front first
  alloc_list,         \* slab_head.alloc_list
  free_num,           \* slab_head.free_num
  alloc_num,          \* slab_head.alloc_num
  node_partial,       \* kmem_cache.node.partial, .full and .free
  node_full,
  node_free,
  cpu_page            \* kmem_cache.cpu.page

slabVars == <<free_list, alloc_list, free_num, alloc_num>>
nodeVars == <<node_partial, node_full, node_free>>
vars == <<cachep, slabVars, nodeVars, cpu_page>>

SLAB_ALIGN == 4
SizeofSlabHead == 24      \* two list heads and two counters
SizeofListHead == 8

upper_align(x, y) == ((x + y - 1) \div y) * y

\* init_kmem_cache
object_size(c) == upper_align(c, SLAB_ALIGN)
size(c) == upper_align(object_size(c) + SizeofListHead, SLAB_ALIGN)
capacity(c) == (PAGE_SIZE - SizeofSlabHead) \div size(c)

Caches == kmem_cache_size

\* Byte offsets in the page of the node of slot k and of its object.
NodeAt(c, k) == SizeofSlabHead + k * size(c)
ObjectAt(c, k) == NodeAt(c, k) - object_size(c)

(***************************************************************************)
(* Slots are counted from one, so the last node of a full page ends        *)
(* SizeofListHead behind the slots the capacity accounts for.  The sizes   *)
(* of the kernel leave that much room in a page.                           *)
(***************************************************************************)
ASSUME SizesAssumption ==
  /\ kmem_cache_size \subseteq Nat \ {0}
  /\ PAGE_SIZE \in Nat
  /\ nullptr \notin Pages \cup kmem_cache_size
  /\ \A c \in kmem_cache_size :
       /\ capacity(c) \in Nat \ {0}
       /\ NodeAt(c, capacity(c)) + SizeofListHead <= PAGE_SIZE

slab_is_full(c, p) == alloc_num[p] = capacity(c)

-----------------------------------------------------------------------------
Init ==
  /\ cachep = [p \in Pages |-> nullptr]
  /\ free_list = [p \in Pages |-> <<>>]
  /\ alloc_list = [p \in Pages |-> {}]
  /\ free_num = [p \in Pages |-> 0]
  /\ alloc_num = [p \in Pages |-> 0]
  /\ node_partial = [c \in Caches |-> {}]
  /\ node_full = [c \in Caches |-> {}]
  /\ node_free = [c \in Caches |-> {}]
  /\ cpu_page = [c \in Caches |-> nullptr]

\* list_del of the page's node, from whichever list it is on.
Unlink(list, c, p) == [list EXCEPT ![c] = @ \ {p}]
\* list_del followed by list_add.
Relink(list, c, p) == [list EXCEPT ![c] = @ \cup {p}]

MoveTo(target, c, p) ==
  /\ node_partial' = IF target = "partial" THEN Relink(node_partial, c, p)
                                           ELSE Unlink(node_partial, c, p)
  /\ node_full' = IF target = "full" THEN Relink(node_full, c, p)
                                     ELSE Unlink(node_full, c, p)
  /\ node_free' = IF target = "free" THEN Relink(node_free, c, p)
                                     ELSE Unlink(node_free, c, p)

\* The page's slab head as a value, and init_object_in_page: one object carved.
SlabOf(p) ==
  [free |-> free_list[p], alloc |-> alloc_list[p],
   nfree |-> free_num[p], nalloc |-> alloc_num[p]]

init_object_in_page == [free |-> <<1>>, alloc |-> {}, nfree |-> 1, nalloc |-> 0]

\* Mutant: one object more than the capacity.
CarveTooMany(c, s) ==
  IF s.nalloc + s.nfree <= capacity(c)
  THEN [s EXCEPT !.free = Append(@, s.free[Len(s.free)] + 1), !.nfree = @ + 1]
  ELSE s

\* Mutant: the new object goes to the front of the free list.
CarveToFront(c, s) ==
  IF s.nalloc + s.nfree < capacity(c)
  THEN [s EXCEPT !.free = <<s.free[Len(s.free)] + 1>> \o @, !.nfree = @ + 1]
  ELSE s

\* Carve the slot behind the last free one, unless the page is used up.
alloc_new_object_in_page(c, s) ==
  IF s.nalloc + s.nfree < capacity(c)
  THEN [s EXCEPT !.free = Append(@, s.free[Len(s.free)] + 1), !.nfree = @ + 1]
  ELSE s

\* Mutant: no object is carved ahead.
AllocWithoutCarving(c, slab) ==
  IF slab.nfree # 0
  THEN [free |-> Tail(slab.free), alloc |-> slab.alloc \cup {Head(slab.free)},
        nfree |-> slab.nfree - 1, nalloc |-> slab.nalloc + 1]
  ELSE slab

\* Keep a free object in reserve if one can be carved, then take the front.
alloc_object(c, slab) ==
  LET s == IF slab.nfree = 1 THEN alloc_new_object_in_page(c, slab) ELSE slab
  IN  IF s.nfree # 0
      THEN [free |-> Tail(s.free), alloc |-> s.alloc \cup {Head(s.free)},
            nfree |-> s.nfree - 1, nalloc |-> s.nalloc + 1]
      ELSE s

SetSlab(p, s) ==
  /\ free_list' = [free_list EXCEPT ![p] = s.free]
  /\ alloc_list' = [alloc_list EXCEPT ![p] = s.alloc]
  /\ free_num' = [free_num EXCEPT ![p] = s.nfree]
  /\ alloc_num' = [alloc_num EXCEPT ![p] = s.nalloc]

\* The cache has no page it can serve from and must ask the buddy system.
CurrentUnusable(c) == cpu_page[c] # nullptr => slab_is_full(c, cpu_page[c])
NeedsPage(c) == CurrentUnusable(c) /\ node_partial[c] = {} /\ node_free[c] = {}

\* Mutant: a page that was free becomes partial before it is found full.
AllocFromPartialFirst(c, p, slab) ==
  LET s == alloc_object(c, slab)
  IN  /\ SetSlab(p, s)
      /\ cpu_page' = [cpu_page EXCEPT ![c] = p]
      /\ CASE slab.nalloc = 0 -> MoveTo("partial", c, p)
           [] slab.nalloc # 0 /\ s.nalloc = capacity(c) -> MoveTo("full", c, p)
           [] OTHER -> UNCHANGED nodeVars

\* The rest of kmem_cache_alloc once the page to serve from is known.
AllocFrom(c, p, slab) ==
  LET s == alloc_object(c, slab)
  IN  /\ SetSlab(p, s)
      /\ cpu_page' = [cpu_page EXCEPT ![c] = p]
      /\ CASE s.nalloc = capacity(c) -> MoveTo("full", c, p)
           [] s.nalloc # capacity(c) /\ slab.nalloc = 0 -> MoveTo("partial", c, p)
           [] OTHER -> UNCHANGED nodeVars

\* The page that serves the request when the buddy system is not asked: the
\* current one, else a partial one, else a free one.
ServingPages(c) ==
  IF ~CurrentUnusable(c) THEN {cpu_page[c]}
  ELSE IF node_partial[c] # {} THEN node_partial[c]
  ELSE node_free[c]

kmem_cache_alloc(c) ==
  /\ ~NeedsPage(c)
  /\ \E p \in ServingPages(c) : AllocFrom(c, p, SlabOf(p))
  /\ UNCHANGED cachep

\* kmem_cache_alloc when __alloc_pages returns page p.  The page is put on
\* the free list and leaves it in the same call.
kmem_cache_grow(c, p) ==
  /\ NeedsPage(c)
  /\ cachep' = [cachep EXCEPT ![p] = c]
  /\ AllocFrom(c, p, init_object_in_page)

\* kmem_cache_alloc when __alloc_pages returns null: nothing changes.
kmem_cache_refuse(c) == NeedsPage(c) /\ UNCHANGED vars

\* Mutant: the freed object goes to the tail of the free list.
FreeToTail(p, k) ==
  LET c == cachep[p]
      s == [free |-> Append(free_list[p], k), alloc |-> alloc_list[p] \ {k},
            nfree |-> free_num[p] + 1, nalloc |-> alloc_num[p] - 1]
  IN  /\ SetSlab(p, s)
      /\ CASE s.nalloc = 0 -> MoveTo("free", c, p)
           [] s.nalloc # 0 /\ slab_is_full(c, p) -> MoveTo("partial", c, p)
           [] OTHER -> UNCHANGED nodeVars
      /\ UNCHANGED <<cachep, cpu_page>>

\* kmem_cache_free of the object in slot k.
kmem_cache_free(p, k) ==
  LET c == cachep[p]
      s == [free |-> <<k>> \o free_list[p], alloc |-> alloc_list[p] \ {k},
            nfree |-> free_num[p] + 1, nalloc |-> alloc_num[p] - 1]
  IN  /\ SetSlab(p, s)
      /\ CASE s.nalloc = 0 -> MoveTo("free", c, p)
           [] s.nalloc # 0 /\ slab_is_full(c, p) -> MoveTo("partial", c, p)
           [] OTHER -> UNCHANGED nodeVars
      /\ UNCHANGED <<cachep, cpu_page>>

\* The pages the buddy system still has.
BuddyPages == {p \in Pages : cachep[p] = nullptr}

Next ==
  \/ \E c \in Caches : kmem_cache_alloc(c)
  \/ \E c \in Caches, p \in BuddyPages : kmem_cache_grow(c, p)
  \/ \E c \in Caches : BuddyPages = {} /\ kmem_cache_refuse(c)
  \/ \E p \in Pages : \E k \in alloc_list[p] : kmem_cache_free(p, k)

Spec == Init /\ [][Next]_vars

-----------------------------------------------------------------------------
(* Properties.                                                             *)

SlabPages == {p \in Pages : cachep[p] # nullptr}

\* The slab heads, the page lists and the current pages have their types.
TypeOK ==
  /\ cachep \in [Pages -> Caches \cup {nullptr}]
  /\ free_list \in [Pages -> Seq(Nat)]
  /\ alloc_list \in [Pages -> SUBSET Nat]
  /\ free_num \in [Pages -> Nat]
  /\ alloc_num \in [Pages -> Nat]
  /\ node_partial \in [Caches -> SUBSET Pages]
  /\ node_full \in [Caches -> SUBSET Pages]
  /\ node_free \in [Caches -> SUBSET Pages]
  /\ cpu_page \in [Caches -> Pages \cup {nullptr}]

FreeSlots(p) == {free_list[p][i] : i \in 1..Len(free_list[p])}
Carved(p) == alloc_num[p] + free_num[p]

\* An object is never free and allocated at once, nor free twice: carving
\* behind the last free object never reaches a slot that is already in use.
NoDoubleObject ==
  \A p \in SlabPages :
    /\ FreeSlots(p) \cap alloc_list[p] = {}
    /\ \A i, j \in 1..Len(free_list[p]) :
         free_list[p][i] = free_list[p][j] => i = j

\* The slots in use or free are exactly the carved ones, which the counters
\* count and the capacity bounds: no object is lost, and no list node is
\* written behind the end of the page or onto the slab head.
CarvedExactly ==
  \A p \in SlabPages :
    /\ Carved(p) <= capacity(cachep[p])
    /\ FreeSlots(p) \cup alloc_list[p] = 1..Carved(p)
    /\ Len(free_list[p]) = free_num[p]
    /\ Cardinality(alloc_list[p]) = alloc_num[p]

\* Objects of one page occupy disjoint byte ranges behind the slab head, and
\* the list node behind each object still lies in the page.
InsidePage ==
  \A p \in SlabPages : \A k \in FreeSlots(p) \cup alloc_list[p] :
    LET c == cachep[p]
    IN  /\ ObjectAt(c, k) >= SizeofSlabHead
        /\ NodeAt(c, k) + SizeofListHead <= PAGE_SIZE
        /\ k > 1 => NodeAt(c, k - 1) + SizeofListHead <= ObjectAt(c, k)

\* While slots remain to be carved the last free object is the one carved
\* last, the frontier from which alloc_new_object_in_page goes on.
FrontierIsLast ==
  \A p \in SlabPages :
    Carved(p) < capacity(cachep[p]) =>
      /\ free_num[p] > 0
      /\ free_list[p][Len(free_list[p])] = Carved(p)

\* A page of a cache is on exactly the list its number of allocated objects
\* calls for, and on no list of another cache.
ListsTruthful ==
  \A c \in Caches :
    /\ node_full[c] = {p \in SlabPages : cachep[p] = c /\ alloc_num[p] = capacity(c)}
    /\ node_free[c] = {p \in SlabPages : cachep[p] = c /\ alloc_num[p] = 0}
    /\ node_partial[c] = {p \in SlabPages : /\ cachep[p] = c
                                            /\ alloc_num[p] \in 1 .. (capacity(c) - 1)}

\* The current page belongs to its cache, and a page that is not full always
\* has an object to give: alloc_object never returns null.
CurrentServes ==
  \A c \in Caches :
    /\ cpu_page[c] # nullptr => cachep[cpu_page[c]] = c
    /\ \A p \in SlabPages :
         cachep[p] = c /\ ~slab_is_full(c, p) => free_num[p] > 0

\* A cache asks the buddy system for a page only when all its pages are full.
GrowsOnlyWhenFull ==
  [][\A c \in Caches, p \in Pages :
       cachep[p] = nullptr /\ cachep'[p] = c =>
         \A q \in SlabPages : cachep[q] = c => slab_is_full(c, q)]_vars
=============================================================================
